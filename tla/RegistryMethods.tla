-------------------------- MODULE RegistryMethods ---------------------------
(* The state of a LicenseRegistry and of its RecordBook, and the methods of  *)
(* both.  Every method runs under the registry's mutex (Record under the     *)
(* book's), so each is one step; a composing module conjoins it with what    *)
(* its caller does.  Queues are bags here: which of several licenses equal   *)
(* under Less is at the root is left open.  HeapRegistry models the heaps    *)
(* themselves and the loop inside LicenseForFeature.                         *)
EXTENDS Licenses

CONSTANTS
    Usage,         \* what RecordBook.Record stores: who asked for what
    NoUsage,       \* no entry in the book
    UseCache,      \* cacheDir # ""
    DiskMayFail,   \* whether writing or removing a cache file can fail
    MaxTime,       \* bound on the clock
    MaxCopies      \* copies of one license in one queue that are told apart

ASSUME RegistryAssumption ==
    /\ NoUsage \notin Usage
    /\ UseCache \in BOOLEAN
    /\ DiskMayFail \in BOOLEAN
    /\ MaxTime \in Nat
    /\ MaxCopies \in Nat /\ MaxCopies >= 2

VARIABLES
    now,     \* the wall clock
    reg,     \* reg[f][l]: copies of l in the queue of feature f
    store,   \* the licenses in the serial number -> Record map
    rb,      \* the usage entry of each license
    cache    \* the file of each license in cacheDir

regVars == <<now, reg, store, rb, cache>>

FileState == {"none", "good", "torn"}

MethodsTypeOK ==
    /\ now \in Nat
    /\ reg \in [Feature -> [License -> 0..MaxCopies]]
    /\ store \subseteq License
    /\ rb \in [License -> Usage \cup {NoUsage}]
    /\ cache \in [License -> FileState]

(* NewLicenseRegistry and NewRecordBook.  A feature without a queue and one  *)
(* with an empty queue are treated alike by every method.                    *)
EmptyReg == [f \in Feature |-> [l \in License |-> 0]]
EmptyBook == [l \in License |-> NoUsage]

Tick == /\ now < MaxTime
        /\ now' = now + 1
        /\ UNCHANGED <<reg, store, rb, cache>>

-----------------------------------------------------------------------------
(* Files.  The errors of os.WriteFile and os.Remove are dropped: a failed    *)
(* write leaves the old file or a truncated one, a failed remove the file.   *)

WriteFiles(S) ==
    /\ cache' \in [License -> FileState]
    /\ \A l \in License :
          IF UseCache /\ l \in S
          THEN \/ cache'[l] = "good"
               \/ DiskMayFail /\ cache'[l] \in {cache[l], "torn"}
          ELSE cache'[l] = cache[l]

RemoveFiles(S) ==
    /\ cache' \in [License -> FileState]
    /\ \A l \in License :
          IF UseCache /\ l \in S
          THEN \/ cache'[l] = "none"
               \/ DiskMayFail /\ cache'[l] = cache[l]
          ELSE cache'[l] = cache[l]

-----------------------------------------------------------------------------
(* LicenseRegistry *)

Queued(f) == {l \in License : reg[f][l] > 0}
QueuedLive(f) == {l \in Queued(f) : Live(l, now)}

addToStore(l) == /\ store' = store \cup {l}
                 /\ WriteFiles({l})

(* The book's entry is set to nil instead of deleted. *)
MutRemoveFromStore(S) ==
    /\ store' = store \ S
    /\ rb' = [l \in License |-> IF l \in S THEN NoLicense ELSE rb[l]]
    /\ RemoveFiles(S)

removeFromStore(S) ==
    /\ store' = store \ S
    /\ rb' = [l \in License |-> IF l \in S THEN NoUsage ELSE rb[l]]
    /\ RemoveFiles(S)

(* Push l on the queue of each of its features.  Copies are equal under Less *)
(* and leave a queue together, so the count stops at MaxCopies: more copies  *)
(* behave like that many.                                                    *)
OneMore(n) == IF n < MaxCopies THEN n + 1 ELSE n

Pushed(l) == [f \in Feature |->
                [m \in License |->
                   IF m = l /\ f \in FeaturesOf[l] THEN OneMore(reg[f][m])
                                                   ELSE reg[f][m]]]

(* The license is pushed even when the store knows it. *)
MutAddAgain(l) == /\ addToStore(l)
                  /\ reg' = Pushed(l)
                  /\ UNCHANGED <<now, rb>>

(* The license is queued for one of its features only. *)
MutAddOneQueue(l) ==
    /\ l \notin store
    /\ addToStore(l)
    /\ \E g \in FeaturesOf[l] : reg' = [reg EXCEPT ![g][l] = OneMore(@)]
    /\ UNCHANGED <<now, rb>>

Add(l) ==
    \/ /\ l \in store
       /\ UNCHANGED regVars
    \/ /\ l \notin store
       /\ addToStore(l)
       /\ reg' = Pushed(l)
       /\ UNCHANGED <<now, rb>>

(* The strict comparison turned round: a license goes at its ttl too. *)
MutPopped(f) == {l \in Queued(f) :
                   /\ NotAfter[l] - now <= TTL
                   /\ \A m \in QueuedLive(f) : ~Less(m, l)}

(* What the loop pops: it stops at the first live license, so a dead one     *)
(* goes exactly when no live one precedes it.                                *)
Popped(f) == {l \in Queued(f) :
                /\ ~Live(l, now)
                /\ \A m \in QueuedLive(f) : ~Less(m, l)}

(* Any queued live license, whatever its rank. *)
MutFound(f) == IF QueuedLive(f) = {} THEN {NoLicense} ELSE QueuedLive(f)

(* The root once the loop stops: a foremost live license, or none. *)
Found(f) == IF QueuedLive(f) = {} THEN {NoLicense}
                                  ELSE Foremost(QueuedLive(f))

(* The call for feature f that returns l. *)
LicenseForFeature(f, l) ==
    /\ l \in Found(f)
    /\ reg' = [reg EXCEPT ![f] = [m \in License |->
                  IF m \in Popped(f) THEN 0 ELSE reg[f][m]]]
    /\ removeFromStore(Popped(f))
    /\ UNCHANGED now

(* The ttl is left out: every license that has not expired is shown. *)
MutList == {l \in store : NotAfter[l] > now}

(* List: unlike LicenseForFeature it leaves out a license with exactly ttl   *)
(* left.                                                                     *)
List == {l \in store : NotAfter[l] > now + TTL}

-----------------------------------------------------------------------------
(* RecordBook.  Delete is the rb' of removeFromStore; UsedBy(l) is rb[l].    *)

Record(l, u) == /\ rb' = [rb EXCEPT ![l] = u]
                /\ UNCHANGED <<now, reg, store, cache>>

-----------------------------------------------------------------------------
(* Every stored license is in the queue of every feature it covers, and only *)
(* there: Add fills all queues, and what LicenseForFeature pops from one     *)
(* queue it also takes out of the store.  A stored license missing from a    *)
(* queue would be listed but never served, and Add would refuse to repair it.*)
StoredIsQueued ==
    /\ \A l \in store : \A f \in FeaturesOf[l] : reg[f][l] > 0
    /\ \A f \in Feature : Queued(f) \subseteq {l \in License : f \in FeaturesOf[l]}

(* Add compares with the store, not with the queues it pushes on; still no   *)
(* live license is ever in a queue twice.  (Dead ones are: re-adding a       *)
(* license after one of its queues dropped it duplicates it in the others.)  *)
LiveQueuedOnce ==
    \A f \in Feature, l \in License : Live(l, now) => reg[f][l] <= 1

(* What List shows, LicenseForFeature can serve, for each feature the        *)
(* license covers; in the other direction a stored license with a life of    *)
(* exactly ttl is served and not shown.                                      *)
ListedIsServable ==
    \A f \in Feature :
       LET shown == {l \in List : f \in FeaturesOf[l]}
       IN  /\ shown # {} => NoLicense \notin Found(f)
           /\ \A l \in Found(f) \ (shown \cup {NoLicense}) : NotAfter[l] = now + TTL
=============================================================================
