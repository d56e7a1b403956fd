---------------------------- MODULE LicenseStore ----------------------------
(* What callers may rely on from a license registry, without queues, files   *)
(* or a usage book: a license put in stays in while it is live, and asking   *)
(* for a feature yields the foremost live license that covers it.            *)
EXTENDS Licenses

VARIABLES now,      \* the wall clock
          stored,   \* the licenses held
          answer    \* the feature last asked for and what was returned

vars == <<now, stored, answer>>

LiveFor(f) == {l \in stored : f \in FeaturesOf[l] /\ Live(l, now)}

(* Dead licenses, and only those, may be dropped at any time. *)
MayForget(S) == \A l \in S : ~Live(l, now)

Init == /\ now \in Int
        /\ stored = {}
        /\ answer = NoLicense

Tick == now' = now + 1 /\ UNCHANGED <<stored, answer>>

Put(l) == stored' = stored \cup {l} /\ UNCHANGED <<now, answer>>

Forget == /\ stored' \subseteq stored
          /\ MayForget(stored \ stored')
          /\ UNCHANGED <<now, answer>>

Ask(f) == /\ stored' \subseteq stored
          /\ MayForget(stored \ stored')
          /\ \/ /\ LiveFor(f) = {}
                /\ answer' = <<f, NoLicense>>
             \/ \E l \in Foremost(LiveFor(f)) : answer' = <<f, l>>
          /\ UNCHANGED now

Next == \/ Tick
        \/ Forget
        \/ \E l \in License : Put(l)
        \/ \E f \in Feature : Ask(f)

Spec == Init /\ [][Next]_vars
=============================================================================
