---------------------------- MODULE HeapRegistry ----------------------------
(* The queues of a LicenseRegistry as the slices container/heap keeps in     *)
(* order, with Add and LicenseForFeature as the loops they are: a call takes *)
(* the mutex and works on in single exchanges until it gives it back, while  *)
(* the clock moves.  LicenseForFeature reads the clock again before every    *)
(* pop and returns at the first live root.  This is the detail that          *)
(* RegistryMethods replaces by bags and one step.                            *)
EXTENDS Licenses, Sequences, FiniteSets

CONSTANTS MaxTime,   \* bound on the clock
          MaxLen,    \* bound on the length of a queue
          Free       \* neither a feature nor a license: nobody is at it

ASSUME HeapAssumption ==
    /\ MaxTime \in Nat
    /\ MaxLen \in Nat
    /\ Free \notin Feature

VARIABLES now,      \* the wall clock
          queue,    \* queue[f]: the LicenseQueue of feature f
          store,    \* the licenses in the serial number -> Record map
          lock,     \* the feature whose lookup holds the mutex, or Free
          adding,   \* the license whose Add holds the mutex, or NoLicense
          todo,     \* its features that Add has still to push it for
          sift,     \* the pass of heap.Push or heap.Pop under way
          entry,    \* the queue a lookup found when it took the mutex
          answer    \* the feature last asked for and what was returned

vars == <<now, queue, store, lock, adding, todo, sift, entry, answer>>

Held == lock # Free \/ adding # NoLicense

-----------------------------------------------------------------------------
(* container/heap over LicenseQueue; index 1 is the root.  A pass moves one  *)
(* item, that is at index "at" of the queue "on", up or down.                *)

Settled == [way |-> "none", on |-> Free, at |-> 0]

(* The slot is cleared before its item is read. *)
MutSwap(q, i, j) == [q EXCEPT ![i] = q[j], ![j] = NoLicense]

Swap(q, i, j) == [q EXCEPT ![i] = q[j], ![j] = q[i]]

(* The new license stays at the end of the slice. *)
MutPush(f, l) == /\ queue' = [queue EXCEPT ![f] = Append(@, l)]
                 /\ sift' = Settled

Push(f, l) == /\ queue' = [queue EXCEPT ![f] = Append(@, l)]
              /\ sift' = [way |-> "up", on |-> f, at |-> Len(queue[f]) + 1]

(* The slice is cut at the wrong end. *)
MutPop(q) == Tail(q)

Pop(q) == SubSeq(q, 1, Len(q) - 1)

(* The comparison with the right child is left out. *)
MutChild(q, n, i) == 2 * i

(* The child of i, among the first n items, that is to be above the other.   *)
Child(q, n, i) ==
    IF 2 * i + 1 <= n /\ Less(q[2 * i + 1], q[2 * i]) THEN 2 * i + 1 ELSE 2 * i

(* The index of the pass is not moved on. *)
MutExchange(i) ==
    /\ queue' = [queue EXCEPT ![sift.on] = Swap(@, sift.at, i)]
    /\ UNCHANGED sift

(* The item at "at" and the one at i change places, and the pass is at i.    *)
Exchange(i) ==
    /\ queue' = [queue EXCEPT ![sift.on] = Swap(@, sift.at, i)]
    /\ sift' = [sift EXCEPT !.at = i]

(* One turn of the loop of up. *)
Up == /\ sift.way = "up"
      /\ LET q == queue[sift.on]
             j == sift.at
         IN  IF j > 1 /\ Less(q[j], q[j \div 2])
             THEN Exchange(j \div 2)
             ELSE sift' = Settled /\ UNCHANGED queue
      /\ UNCHANGED <<now, store, lock, adding, todo, entry, answer>>

(* One turn of the loop of down, over all items but the last, which is the   *)
(* old root.  When the loop ends heap.Pop cuts that one off and              *)
(* LicenseForFeature removes it from the store.  (What removeFromStore does  *)
(* to the book and the cache file has no part in the order of the queues;    *)
(* it is in RegistryMethods.)                                                *)
Down == /\ sift.way = "down"
        /\ LET q == queue[sift.on]
               n == Len(q) - 1
               c == Child(q, n, sift.at)
           IN  IF 2 * sift.at <= n /\ Less(q[c], q[sift.at])
               THEN Exchange(c) /\ UNCHANGED store
               ELSE /\ queue' = [queue EXCEPT ![sift.on] = Pop(@)]
                    /\ store' = store \ {q[Len(q)]}
                    /\ sift' = Settled
        /\ UNCHANGED <<now, lock, adding, todo, entry, answer>>

-----------------------------------------------------------------------------
Init == /\ now = 0
        /\ queue = [f \in Feature |-> <<>>]
        /\ store = {}
        /\ lock = Free
        /\ adding = NoLicense
        /\ todo = {}
        /\ sift = Settled
        /\ entry = <<>>
        /\ answer = NoLicense

Tick == /\ now < MaxTime
        /\ now' = now + 1
        /\ UNCHANGED <<queue, store, lock, adding, todo, sift, entry, answer>>

(* Add of a license the store does not know; otherwise it returns at once.   *)
Add(l) == /\ ~Held
          /\ NotBefore[l] <= now
          /\ l \notin store
          /\ \A f \in FeaturesOf[l] : Len(queue[f]) < MaxLen
          /\ store' = store \cup {l}
          /\ adding' = l
          /\ todo' = FeaturesOf[l]
          /\ UNCHANGED <<now, queue, lock, sift, entry, answer>>

(* One turn of Add's loop; a queue made for the license takes the same way.  *)
AddTo(f) == /\ f \in todo
            /\ sift = Settled
            /\ Push(f, adding)
            /\ todo' = todo \ {f}
            /\ UNCHANGED <<now, store, lock, adding, entry, answer>>

Added == /\ adding # NoLicense
         /\ todo = {}
         /\ sift = Settled
         /\ adding' = NoLicense
         /\ UNCHANGED <<now, queue, store, lock, todo, sift, entry, answer>>

Lock(f) == /\ ~Held
           /\ lock' = f
           /\ entry' = queue[f]
           /\ UNCHANGED <<now, queue, store, adding, todo, sift, answer>>

(* A turn of the lookup's loop: the root has less than ttl left, and         *)
(* heap.Pop begins by exchanging it with the last item.                      *)
PopRoot == /\ lock # Free
           /\ sift = Settled
           /\ LET q == queue[lock]
              IN  /\ q # <<>>
                  /\ ~Live(q[1], now)
                  /\ queue' = [queue EXCEPT ![lock] = Swap(@, 1, Len(q))]
           /\ sift' = [way |-> "down", on |-> lock, at |-> 1]
           /\ UNCHANGED <<now, store, lock, adding, todo, entry, answer>>

(* The path on which nothing is found keeps the mutex. *)
MutUnlock(l) == /\ answer' = <<lock, l>>
                /\ lock' = IF l = NoLicense THEN lock ELSE Free
                /\ entry' = <<>>
                /\ UNCHANGED <<now, queue, store, adding, todo, sift>>

Unlock(l) == /\ answer' = <<lock, l>>
             /\ lock' = Free
             /\ entry' = <<>>
             /\ UNCHANGED <<now, queue, store, adding, todo, sift>>

Return == /\ lock # Free
          /\ sift = Settled
          /\ LET q == queue[lock]
             IN  \/ q = <<>> /\ Unlock(NoLicense)
                 \/ q # <<>> /\ Live(q[1], now) /\ Unlock(q[1])

Holder == \/ Up
          \/ Down
          \/ \E f \in Feature : AddTo(f)
          \/ Added
          \/ PopRoot
          \/ Return

Next == \/ Tick
        \/ \E l \in License : Add(l)
        \/ \E f \in Feature : Lock(f)
        \/ Holder

(* The holder of the mutex runs on: its loops wait for nothing. *)
Spec == Init /\ [][Next]_vars /\ WF_vars(Holder)

-----------------------------------------------------------------------------
Slice == {q \in Seq(License) : Len(q) <= MaxLen}

TypeOK == /\ now \in 0..MaxTime
          /\ queue \in [Feature -> Slice]
          /\ store \subseteq License
          /\ lock \in Feature \cup {Free}
          /\ adding \in License \cup {NoLicense}
          /\ todo \subseteq Feature
          /\ sift \in [way : {"none", "up", "down"}, on : Feature \cup {Free},
                      at : 0..MaxLen]
          /\ entry \in Slice
          /\ answer \in {NoLicense} \cup (Feature \X (License \cup {NoLicense}))

(* In every queue that no pass is under way on, so in every queue whose root *)
(* is looked at, no license is before its parent: although Add makes a new   *)
(* queue without heap.Init, the slice a heap.Push works on is a copy of the  *)
(* map's, and licenses that are equal under Less occur.                      *)
HeapOrdered ==
    \A f \in Feature \ {sift.on} : \A i \in 2..Len(queue[f]) :
       ~Less(queue[f][i], queue[f][i \div 2])

Count(q, l) == Cardinality({i \in DOMAIN q : q[i] = l})
BagOf(q) == [l \in License |-> Count(q, l)]

AtEntry == INSTANCE RegistryMethods WITH
              reg <- [f \in Feature |-> BagOf(entry)],
              rb <- <<>>, cache <- <<>>, Usage <- {}, NoUsage <- NoLicense,
              UseCache <- FALSE, DiskMayFail <- FALSE, MaxCopies <- MaxLen

(* The loop, pop by pop and with a clock that moves between pops, does what  *)
(* RegistryMethods says in one step at the time of the return: what it took  *)
(* from the queue it found is Popped, and what it returns is one of Found.   *)
LoopDrains ==
    [][lock # Free /\ lock' = Free =>
         /\ BagOf(queue[lock]) = [l \in License |->
               IF l \in AtEntry!Popped(lock) THEN 0 ELSE Count(entry, l)]
         /\ answer'[2] \in AtEntry!Found(lock)]_vars

(* The heaps and the loops keep the promise of LicenseStore. *)
Store == INSTANCE LicenseStore WITH stored <- store
StoreSpec == Store!Spec

(* How far a call is from the end of its pass, or a lookup from its start.   *)
Way == CASE sift.way = "up"   -> sift.at
         [] sift.way = "down" -> Len(queue[lock]) - sift.at
         [] sift.way = "none" -> IF lock # Free THEN Len(queue[lock]) ELSE 0

(* No loop under the mutex goes on for ever: with each step of its holder a  *)
(* lookup has fewer licenses left to pop, or an Add fewer features left to   *)
(* push for, or as many and less of the way to the root or the leaves.       *)
TurnsAdvance ==
    [][Held /\ Held' /\ now' = now =>
         \/ lock # Free /\ Len(queue'[lock]) < Len(queue[lock])
         \/ adding # NoLicense /\ todo' \subseteq todo /\ todo' # todo
         \/ /\ lock # Free => Len(queue'[lock]) = Len(queue[lock])
            /\ todo' = todo
            /\ Way \in Nat /\ Way' \in Nat /\ Way' < Way]_vars

(* So the mutex is always given back. *)
LockIsReleased == Held ~> ~Held
=============================================================================
