--------------------------- MODULE LicenseStatus ----------------------------
(* A reader of LicenseStatuses beside the registry's other callers.  It      *)
(* takes the records from the registry, then the use of each from the book,  *)
(* then prints a table row for each; between these steps the registry's lock *)
(* is free and the clock runs.                                               *)
EXTENDS LicenseRegistry

CONSTANT MaxReads   \* bound on the requests for a status

ASSUME StatusAssumption == MaxReads \in Nat

VARIABLES
    status,   \* the request in progress, or the last one
    reads     \* requests so far

statusVars == <<vars, status, reads>>

(* by: the verb; at: when the records were taken; used: those that had a use *)
(* in the book at that moment; todo: the records to go through; items: those *)
(* joined with their use; rows: those printed.                               *)
IdleStatus == [pc |-> "idle", by |-> "list", at |-> 0, used |-> {}, todo |-> {},
               items |-> {}, rows |-> {}]

Item == [lic : License, user : Usage \cup {NoUsage}]
Row == [lic : License, user : Usage \cup {NoUsage}, rotates : Nat, at : Nat]

StatusTypeOK ==
    /\ TypeOK
    /\ status.pc \in {"idle", "join", "print"}
    /\ status.by \in {"list", "get"}
    /\ status.at \in Nat
    /\ status.used \subseteq License /\ status.todo \subseteq License
    /\ status.items \subseteq Item
    /\ \A r \in status.rows : r \in Row
    /\ reads \in 0..MaxReads

StatusInit == Init /\ status = IdleStatus /\ reads = 0

(* The records of a List or a Get are taken under the registry's lock. *)
Take(verb, records) ==
    /\ status.pc = "idle"
    /\ reads < MaxReads
    /\ reads' = reads + 1
    /\ status' = [IdleStatus EXCEPT
         !.pc = "join", !.by = verb, !.at = now, !.todo = records,
         !.used = {l \in records : rb[l] # NoUsage}]
    /\ UNCHANGED vars

ListStatuses == Take("list", List)

(* A license that is not in the store is not found. *)
GetStatus(l) == l \in store /\ Take("get", {l})

(* UsedBy's second result is ignored. *)
MutToLicenseStatus(l) == [lic |-> l, user |-> IF rb[l] = NoUsage THEN NoLicense ELSE rb[l]]

(* The use is whatever the book has by now. *)
toLicenseStatus(l) == [lic |-> l, user |-> rb[l]]

Join(l) == /\ status.pc = "join"
           /\ l \in status.todo
           /\ status' = [status EXCEPT !.todo = @ \ {l},
                                       !.items = @ \cup {toLicenseStatus(l)}]
           /\ UNCHANGED <<vars, reads>>

Joined == /\ status.pc = "join" /\ status.todo = {}
          /\ status' = [status EXCEPT !.pc = "print"]
          /\ UNCHANGED <<vars, reads>>

(* convertToHumanReadableDateType: the distance from now, in either direction. *)
Distance(t) == IF now > t THEN now - t ELSE t - now

(* ConvertToTable, a row at a time. *)
PrintRow(i) ==
    /\ status.pc = "print"
    /\ i \in status.items
    /\ status' = [status EXCEPT
         !.items = @ \ {i},
         !.rows = @ \cup {[lic |-> i.lic, user |-> i.user,
                           rotates |-> Distance(NotAfter[i.lic]), at |-> now]}]
    /\ UNCHANGED <<vars, reads>>

Printed == /\ status.pc = "print" /\ status.items = {}
           /\ status' = [status EXCEPT !.pc = "idle"]
           /\ UNCHANGED <<vars, reads>>

StatusNext == \/ Next /\ UNCHANGED <<status, reads>>
              \/ ListStatuses \/ \E l \in License : GetStatus(l)
              \/ \E l \in License : Join(l)
              \/ Joined
              \/ \E i \in status.items : PrintRow(i)
              \/ Printed

StatusSpec == StatusInit /\ [][StatusNext]_statusVars

-----------------------------------------------------------------------------
(* The join is not atomic: the license may have been dropped, its use        *)
(* deleted and the license added again in between.  Still the row of a       *)
(* license that was in use when the records were taken, and that is live     *)
(* yet, names a user.                                                        *)
UsedRowNamesUser ==
    \A r \in status.rows :
       r.lic \in status.used /\ Live(r.lic, now) => r.user # NoUsage

(* The column "Rotates" prints a distance without its direction.  In a list  *)
(* that is no more than ttl old it is the life left: what List leaves out    *)
(* makes up for the delay.                                                   *)
RotatesIsLifeLeft ==
    \A r \in status.rows :
       status.by = "list" /\ r.at - status.at <= TTL =>
          r.rotates = NotAfter[r.lic] - r.at
=============================================================================
