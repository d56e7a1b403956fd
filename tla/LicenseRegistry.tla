-------------------------- MODULE LicenseRegistry ---------------------------
(* A registry used by any callers: they add licenses, ask for features and   *)
(* record the use of licenses they got, in any order, while the clock runs.  *)
(* A caller keeps the pointer a method gave it for as long as it likes, so   *)
(* Record may come after the license has left the registry.                  *)
EXTENDS RegistryMethods

VARIABLES
    answer,   \* the feature last asked for and what was returned
    held      \* licenses that callers hold a pointer to

vars == <<regVars, answer, held>>

TypeOK == /\ MethodsTypeOK
          /\ answer \in {NoLicense} \cup (Feature \X (License \cup {NoLicense}))
          /\ held \subseteq License

Init == /\ now = 0
        /\ reg = EmptyReg
        /\ store = {}
        /\ rb = EmptyBook
        /\ cache = [l \in License |-> "none"]
        /\ answer = NoLicense
        /\ held = {}

Advance == Tick /\ UNCHANGED <<answer, held>>

(* Callers add what ParseLicense accepted at some earlier moment; by now the *)
(* license may have expired.                                                 *)
CallAdd(l) == /\ NotBefore[l] <= now
              /\ Add(l)
              /\ held' = held \cup {l}
              /\ UNCHANGED answer

(* The pointer is kept without looking at ok. *)
MutCallLicenseForFeature(f) ==
    \E l \in License \cup {NoLicense} :
       /\ LicenseForFeature(f, l)
       /\ answer' = <<f, l>>
       /\ held' = held \cup {l}

CallLicenseForFeature(f) ==
    \E l \in License \cup {NoLicense} :
       /\ LicenseForFeature(f, l)
       /\ answer' = <<f, l>>
       /\ held' = held \cup ({l} \ {NoLicense})

CallRecord(l, u) == /\ l \in held
                    /\ Record(l, u)
                    /\ UNCHANGED <<answer, held>>

Next == \/ Advance
        \/ \E l \in License : CallAdd(l)
        \/ \E f \in Feature : CallLicenseForFeature(f)
        \/ \E l \in License, u \in Usage : CallRecord(l, u)

Spec == Init /\ [][Next]_vars

-----------------------------------------------------------------------------
(* LicenseForFeature takes a license out of one queue, the store, the book   *)
(* and the cache, and leaves its copies in the queues of its other features; *)
(* a caller that was given it may still record a use, and a remove may fail. *)
(* Whatever is left of a license outside the store is left of one too short  *)
(* to be served again.                                                       *)
ForgottenIsDead ==
    \A l \in License \ store :
       \/ ~Live(l, now)
       \/ /\ \A f \in Feature : reg[f][l] = 0
          /\ rb[l] = NoUsage
          /\ l \notin held
          /\ cache[l] # "good"

(* The registry keeps the promise of LicenseStore: no live license is lost,  *)
(* and each answer is the foremost live license held for the feature, or     *)
(* none only when there is none.                                             *)
Store == INSTANCE LicenseStore WITH stored <- store
StoreSpec == Store!Spec

=============================================================================
