----------------------- MODULE LicenseRegistryProofs ------------------------
(* For any licenses, features, callers and bounds: the registry's invariants *)
(* hold and it implements LicenseStore.  For any reads besides: what a       *)
(* reader of LicenseStatus is shown, although it joins two reads and prints  *)
(* later.                                                                    *)
EXTENDS LicenseStatus, RegistryMethodsProofs

(* What is inductive: types, and the two invariants that tie the queues, the *)
(* store and the clock together.  StoredIsQueued alone is not enough for     *)
(* LiveQueuedOnce: Add must know that a live license it pushes is in no      *)
(* queue yet, which is ForgottenIsDead.                                      *)
IInv == /\ TypeOK
        /\ StoredIsQueued
        /\ ForgottenIsDead
        /\ LiveQueuedOnce

LEMMA IInvRegInv == ASSUME IInv PROVE RegInv
  BY DEF IInv, TypeOK, ForgottenIsDead, RegInv, QueuedLiveIsKnown

LEMMA InitIInv == Init => IInv
  BY LicenseAssumption, RegistryAssumption
  DEF Init, IInv, TypeOK, MethodsTypeOK, StoredIsQueued, ForgottenIsDead,
      LiveQueuedOnce, EmptyReg, EmptyBook, Queued, FileState

(* What the methods keep, and the callers' part of the types. *)
LEMMA TypedAndQueued ==
    ASSUME RegInv', held' \subseteq License,
           answer' \in {NoLicense} \cup (Feature \X (License \cup {NoLicense}))
    PROVE  TypeOK' /\ StoredIsQueued'
  BY DEF RegInv, TypeOK

LEMMA AdvanceIInv == IInv /\ Advance => IInv'
<1> SUFFICES ASSUME IInv, Advance PROVE IInv'
  OBVIOUS
<1>1. Tick /\ UNCHANGED <<reg, store, rb, cache, answer, held>>
  BY DEF Advance, Tick
<1>2. RegInv' /\ Remembers
  BY <1>1, IInvRegInv, TickRegInv
<1>3. \A l \in License : Live(l, now') => Live(l, now)
  BY <1>2, DeadStaysDead DEF Remembers
<1>4. TypeOK' /\ StoredIsQueued'
  BY <1>1, <1>2, TypedAndQueued DEF IInv, TypeOK
<1>5. ForgottenIsDead' /\ LiveQueuedOnce'
  BY <1>1, <1>3 DEF IInv, ForgottenIsDead, LiveQueuedOnce
<1> QED
  BY <1>4, <1>5 DEF IInv

LEMMA CallAddIInv == ASSUME NEW l \in License PROVE IInv /\ CallAdd(l) => IInv'
<1> SUFFICES ASSUME IInv, CallAdd(l) PROVE IInv'
  OBVIOUS
<1>1. held' = held \cup {l} /\ answer' = answer /\ Add(l)
  BY DEF CallAdd
<1>2. RegInv' /\ store' = store \cup {l} /\ now' = now /\ rb' = rb
  BY <1>1, IInvRegInv, AddRegInv
<1>3. TypeOK' /\ StoredIsQueued'
  BY <1>1, <1>2, TypedAndQueued DEF IInv, TypeOK
<1>4. CASE l \in store
  <2>1. UNCHANGED <<reg, cache>>
    BY <1>1, <1>4 DEF Add, regVars
  <2>2. ForgottenIsDead' /\ LiveQueuedOnce'
    BY <1>1, <1>2, <1>4, <2>1 DEF IInv, ForgottenIsDead, LiveQueuedOnce
  <2> QED
    BY <1>3, <2>2 DEF IInv
<1>5. CASE l \notin store
  <2>1. /\ WriteFiles({l})
        /\ \A f \in Feature, m \in License :
              reg'[f][m] = IF m = l /\ f \in FeaturesOf[l] THEN OneMore(reg[f][m])
                                                          ELSE reg[f][m]
    BY <1>1, <1>5 DEF Add, addToStore, Pushed
  <2>2. ForgottenIsDead'
    <3>1. \A m \in License \ store' : m # l /\ m \notin store /\ cache'[m] = cache[m]
      BY <1>2, <2>1 DEF WriteFiles
    <3> QED
      BY <1>1, <1>2, <2>1, <3>1 DEF IInv, ForgottenIsDead
  <2>3. LiveQueuedOnce'
    <3> SUFFICES ASSUME NEW f \in Feature, NEW m \in License, Live(m, now)
                 PROVE  reg'[f][m] <= 1
      BY <1>2 DEF LiveQueuedOnce
    <3>1. CASE m = l /\ f \in FeaturesOf[l]
      <4>1. reg[f][m] = 0
        BY <1>5, <3>1 DEF IInv, ForgottenIsDead
      <4> QED
        BY <2>1, <3>1, <4>1, RegistryAssumption DEF OneMore
    <3>2. CASE ~(m = l /\ f \in FeaturesOf[l])
      BY <2>1, <3>2 DEF IInv, LiveQueuedOnce
    <3> QED
      BY <3>1, <3>2
  <2> QED
    BY <1>3, <2>2, <2>3 DEF IInv
<1> QED
  BY <1>4, <1>5

LEMMA CallLicenseForFeatureIInv ==
    ASSUME NEW f \in Feature PROVE IInv /\ CallLicenseForFeature(f) => IInv'
<1> SUFFICES ASSUME IInv, CallLicenseForFeature(f) PROVE IInv'
  OBVIOUS
<1>1. PICK l \in License \cup {NoLicense} :
         /\ LicenseForFeature(f, l)
         /\ answer' = <<f, l>>
         /\ held' = held \cup ({l} \ {NoLicense})
  BY DEF CallLicenseForFeature
<1>2. /\ RegInv' /\ Remembers /\ now' = now
      /\ l # NoLicense => l \in store'
      /\ \A m \in License : Live(m, now) => cache'[m] = cache[m]
  BY <1>1, IInvRegInv, LicenseForFeatureRegInv
<1>3. /\ \A g \in Feature, m \in License : reg'[g][m] \in {0, reg[g][m]}
      /\ \A m \in License : rb'[m] \in {NoUsage, rb[m]}
  BY <1>1 DEF LicenseForFeature, removeFromStore, IInv, TypeOK, MethodsTypeOK
<1>4. TypeOK' /\ StoredIsQueued'
  BY <1>1, <1>2, TypedAndQueued DEF IInv, TypeOK
<1>5. ForgottenIsDead'
  <2> SUFFICES ASSUME NEW m \in License, m \notin store', Live(m, now)
               PROVE  /\ \A g \in Feature : reg'[g][m] = 0
                      /\ rb'[m] = NoUsage
                      /\ m \notin held'
                      /\ cache'[m] # "good"
    BY <1>2 DEF ForgottenIsDead
  <2>1. m \notin store /\ m # l
    BY <1>2, LicenseAssumption DEF Remembers
  <2>2. /\ \A g \in Feature : reg[g][m] = 0
        /\ rb[m] = NoUsage
        /\ m \notin held
        /\ cache[m] # "good"
    BY <2>1 DEF IInv, ForgottenIsDead
  <2> QED
    BY <1>1, <1>2, <1>3, <2>1, <2>2
<1>6. LiveQueuedOnce'
  BY <1>2, <1>3 DEF IInv, LiveQueuedOnce
<1> QED
  BY <1>4, <1>5, <1>6 DEF IInv

LEMMA CallRecordIInv ==
    ASSUME NEW l \in License, NEW u \in Usage PROVE IInv /\ CallRecord(l, u) => IInv'
<1> SUFFICES ASSUME IInv, CallRecord(l, u) PROVE IInv'
  OBVIOUS
<1>1. /\ UNCHANGED <<now, reg, store, cache, answer, held>>
      /\ rb' = [rb EXCEPT ![l] = u]
      /\ l \in held /\ Record(l, u)
  BY DEF CallRecord, Record
<1>2. RegInv'
  BY <1>1, IInvRegInv, RecordRegInv
<1>3. TypeOK' /\ StoredIsQueued'
  BY <1>1, <1>2, TypedAndQueued DEF IInv, TypeOK
<1>4. ForgottenIsDead' /\ LiveQueuedOnce'
  BY <1>1 DEF IInv, ForgottenIsDead, LiveQueuedOnce, TypeOK, MethodsTypeOK
<1> QED
  BY <1>3, <1>4 DEF IInv

LEMMA StutterIInv == IInv /\ UNCHANGED vars => IInv'
  BY DEF IInv, vars, regVars, TypeOK, MethodsTypeOK, StoredIsQueued,
         ForgottenIsDead, LiveQueuedOnce, Queued

(* IInv is an invariant of every registry. *)
THEOREM Invariance == Spec => []IInv
<1>1. IInv /\ [Next]_vars => IInv'
  BY AdvanceIInv, CallAddIInv, CallLicenseForFeatureIInv, CallRecordIInv,
     StutterIInv DEF Next
<1> QED
  BY InitIInv, <1>1, PTL DEF Spec

(* The registry's state is always well typed. *)
THEOREM TypeCorrect == Spec => []TypeOK
<1>1. IInv => TypeOK
  BY DEF IInv
<1> QED
  BY <1>1, Invariance, PTL

(* What is left of a license that has left the store is left of a dead one.  *)
THEOREM ForgottenStaysDead == Spec => []ForgottenIsDead
<1>1. IInv => ForgottenIsDead
  BY DEF IInv
<1> QED
  BY <1>1, Invariance, PTL

(* The store and the queues agree on what is held for which feature. *)
THEOREM QueuesMatchStore == Spec => []StoredIsQueued
<1>1. IInv => StoredIsQueued
  BY DEF IInv
<1> QED
  BY <1>1, Invariance, PTL

(* A live license is in no queue twice, however often it is added. *)
THEOREM NoLiveDuplicates == Spec => []LiveQueuedOnce
<1>1. IInv => LiveQueuedOnce
  BY DEF IInv
<1> QED
  BY <1>1, Invariance, PTL

(* Whatever List shows can be served, and what is served without being shown *)
(* has exactly ttl left.                                                     *)
THEOREM ListAgreesWithLookup == Spec => []ListedIsServable
<1>1. IInv => ListedIsServable
  <2> SUFFICES ASSUME IInv, NEW f \in Feature
               PROVE  LET shown == {l \in List : f \in FeaturesOf[l]}
                      IN  /\ shown # {} => NoLicense \notin Found(f)
                          /\ \A l \in Found(f) \ (shown \cup {NoLicense}) :
                                NotAfter[l] = now + TTL
    BY DEF ListedIsServable
  <2> DEFINE shown == {l \in List : f \in FeaturesOf[l]}
  <2>1. QueuedLive(f) = {l \in store : f \in FeaturesOf[l] /\ Live(l, now)}
    BY IInvRegInv, QueuedLiveFromStore
  <2>2. /\ store \subseteq License
        /\ now \in Int /\ TTL \in Int
        /\ \A l \in License : NotAfter[l] \in Int
    BY LicenseAssumption DEF IInv, TypeOK, MethodsTypeOK
  <2>3. \A l \in store : NotAfter[l] > now + TTL => Live(l, now)
    BY <2>2 DEF Live
  <2>4. ASSUME shown # {} PROVE NoLicense \notin Found(f)
    <3>1. QueuedLive(f) # {}
      BY <2>1, <2>3, <2>4 DEF List
    <3>2. Found(f) \subseteq License
      BY <2>1, <2>2, <3>1 DEF Found, Foremost
    <3> QED
      BY <3>2, LicenseAssumption
  <2>5. ASSUME NEW l \in Found(f), l \notin shown, l # NoLicense
        PROVE  NotAfter[l] = now + TTL
    <3>1. l \in store /\ f \in FeaturesOf[l] /\ Live(l, now)
      BY <2>1, <2>5 DEF Found, Foremost
    <3>2. ~(NotAfter[l] > now + TTL)
      BY <2>5, <3>1 DEF List
    <3> QED
      BY <2>2, <3>1, <3>2 DEF Live
  <2> QED
    BY <2>4, <2>5
<1> QED
  BY <1>1, Invariance, PTL

-----------------------------------------------------------------------------
(* Every step of the registry is one of LicenseStore, or changes nothing it  *)
(* can see. *)
LEMMA CallAddRefines ==
    ASSUME NEW l \in License, CallAdd(l)
    PROVE  Store!Next \/ UNCHANGED Store!vars
<1>1. answer' = answer /\ Add(l)
  BY DEF CallAdd
<1>2. CASE l \in store
  BY <1>1, <1>2 DEF Add, regVars, Store!vars
<1>3. CASE l \notin store
  <2>1. Store!Put(l)
    BY <1>1, <1>3 DEF Add, addToStore, Store!Put
  <2> QED
    BY <2>1 DEF Store!Next
<1> QED
  BY <1>2, <1>3

(* The answer: the foremost of the queue's live licenses are the foremost of *)
(* the store's for the feature, and what is popped on the way is dead.       *)
LEMMA CallLicenseForFeatureRefines ==
    ASSUME IInv, NEW f \in Feature, CallLicenseForFeature(f)
    PROVE  Store!Next
<1>1. PICK l \in License \cup {NoLicense} :
         LicenseForFeature(f, l) /\ answer' = <<f, l>>
  BY DEF CallLicenseForFeature
<1>2. QueuedLive(f) = Store!LiveFor(f)
  BY IInvRegInv, QueuedLiveFromStore DEF Store!LiveFor, Store!Live, Live
<1>3. /\ store' \subseteq store
      /\ Store!MayForget(store \ store')
      /\ now' = now
  <2>1. store' = store \ Popped(f) /\ now' = now
    BY <1>1 DEF LicenseForFeature, removeFromStore
  <2>2. \A m \in Popped(f) : ~Live(m, now)
    BY DEF Popped
  <2> QED
    BY <2>1, <2>2 DEF Store!MayForget, Store!Live, Live
<1>4. \/ Store!LiveFor(f) = {} /\ answer' = <<f, NoLicense>>
      \/ \E m \in Store!Foremost(Store!LiveFor(f)) : answer' = <<f, m>>
  <2>1. l \in Found(f)
    BY <1>1 DEF LicenseForFeature
  <2>2. CASE QueuedLive(f) = {}
    BY <1>1, <1>2, <2>1, <2>2 DEF Found
  <2>3. CASE QueuedLive(f) # {}
    <3>1. l \in Foremost(QueuedLive(f))
      BY <2>1, <2>3 DEF Found
    <3>2. Foremost(QueuedLive(f)) = Store!Foremost(Store!LiveFor(f))
      BY <1>2 DEF Foremost, Store!Foremost, Less, Store!Less, rankTier, Store!rankTier
    <3> QED
      BY <1>1, <3>1, <3>2
  <2> QED
    BY <2>2, <2>3
<1>5. Store!Ask(f)
  BY <1>3, <1>4 DEF Store!Ask
<1> QED
  BY <1>5 DEF Store!Next

(* Queues, files, usage book, duplicates and stale copies notwithstanding,   *)
(* the registry is a LicenseStore.                                           *)
THEOREM Refinement == Spec => StoreSpec
<1>1. Init => Store!Init
  BY DEF Init, Store!Init
<1>2. IInv /\ [Next]_vars => [Store!Next]_Store!vars
  <2> SUFFICES ASSUME IInv, [Next]_vars PROVE Store!Next \/ UNCHANGED Store!vars
    OBVIOUS
  <2>1. CASE Advance
    BY <2>1 DEF Advance, Tick, Store!Tick, Store!Next
  <2>2. CASE \E l \in License : CallAdd(l)
    BY <2>2, CallAddRefines
  <2>3. CASE \E f \in Feature : CallLicenseForFeature(f)
    BY <2>3, CallLicenseForFeatureRefines
  <2>4. CASE \E l \in License, u \in Usage : CallRecord(l, u)
    BY <2>4 DEF CallRecord, Record, Store!vars
  <2>5. CASE UNCHANGED vars
    BY <2>5 DEF vars, regVars, Store!vars
  <2> QED
    BY <2>1, <2>2, <2>3, <2>4, <2>5 DEF Next
<1> QED
  BY <1>1, <1>2, Invariance, PTL DEF Spec, StoreSpec, Store!Spec

-----------------------------------------------------------------------------
(* The status reader beside the registry. *)

(* The licenses of a request, wherever it has got to with them. *)
InHand == status.todo \cup {i.lic : i \in status.items} \cup {r.lic : r \in status.rows}

(* What List has left out when the records were taken. *)
TakenLong ==
    status.by = "list" => \A l \in InHand : NotAfter[l] > status.at + TTL

(* Each row holds the distance of the moment it was printed at. *)
RowsPrinted ==
    \A r \in status.rows :
       r.rotates = IF r.at > NotAfter[r.lic] THEN r.at - NotAfter[r.lic]
                                             ELSE NotAfter[r.lic] - r.at

(* A use that was in the book when the records were taken is there, and in   *)
(* every item already joined, for as long as the license is live.            *)
UseIsKept ==
    \A l \in status.used : Live(l, now) =>
       /\ rb[l] # NoUsage
       /\ \A i \in status.items : i.lic = l => i.user # NoUsage

SInv == /\ StatusTypeOK
        /\ TakenLong
        /\ RowsPrinted
        /\ UseIsKept
        /\ UsedRowNamesUser

LEMMA IdleStatusFacts ==
    /\ IdleStatus.pc = "idle" /\ IdleStatus.by = "list" /\ IdleStatus.at = 0
    /\ IdleStatus.used = {} /\ IdleStatus.todo = {}
    /\ IdleStatus.items = {} /\ IdleStatus.rows = {}
  BY DEF IdleStatus

LEMMA InitSInv == ASSUME StatusInit PROVE SInv
<1>1. TypeOK
  BY InitIInv DEF StatusInit, IInv
<1>2. StatusTypeOK
  BY <1>1, IdleStatusFacts, StatusAssumption DEF StatusInit, StatusTypeOK
<1>3. TakenLong /\ RowsPrinted /\ UseIsKept /\ UsedRowNamesUser
  BY IdleStatusFacts
  DEF StatusInit, TakenLong, InHand, RowsPrinted, UseIsKept, UsedRowNamesUser
<1> QED
  BY <1>2, <1>3 DEF SInv

(* No step of the registry revives a license, nor takes the use of a live    *)
(* one out of the book: only what LicenseForFeature pops loses it.           *)
LEMMA RegistryKeepsUse ==
    ASSUME TypeOK, [Next]_vars, NEW l \in License, Live(l, now')
    PROVE  Live(l, now) /\ (rb[l] # NoUsage => rb'[l] # NoUsage)
<1>1. CASE Advance
  <2>1. now \in Int /\ now' \in Int /\ now <= now' /\ rb' = rb
    BY <1>1 DEF Advance, Tick, TypeOK, MethodsTypeOK
  <2> QED
    BY <2>1, DeadStaysDead
<1>2. CASE \E m \in License : CallAdd(m)
  BY <1>2 DEF CallAdd, Add, regVars
<1>3. CASE \E f \in Feature : CallLicenseForFeature(f)
  <2>1. PICK f \in Feature : now' = now /\ removeFromStore(Popped(f))
    BY <1>3 DEF CallLicenseForFeature, LicenseForFeature
  <2>2. l \notin Popped(f)
    BY <2>1 DEF Popped
  <2> QED
    BY <2>1, <2>2 DEF removeFromStore
<1>4. CASE \E m \in License, u \in Usage : CallRecord(m, u)
  <2>1. PICK m \in License, u \in Usage : rb' = [rb EXCEPT ![m] = u] /\ now' = now
    BY <1>4 DEF CallRecord, Record
  <2> QED
    BY <2>1, RegistryAssumption DEF TypeOK, MethodsTypeOK
<1>5. CASE UNCHANGED vars
  BY <1>5 DEF vars, regVars
<1> QED
  BY <1>1, <1>2, <1>3, <1>4, <1>5 DEF Next

LEMMA RegistrySInv ==
    ASSUME SInv, TypeOK', [Next]_vars, UNCHANGED <<status, reads>> PROVE SInv'
<1>1. TypeOK /\ status.used \subseteq License /\ \A r \in status.rows : r.lic \in License
  BY DEF SInv, StatusTypeOK, Row
<1>2. StatusTypeOK'
  BY DEF SInv, StatusTypeOK
<1>3. TakenLong' /\ RowsPrinted'
  BY DEF SInv, TakenLong, InHand, RowsPrinted
<1>4. UseIsKept'
  BY <1>1, RegistryKeepsUse DEF SInv, UseIsKept
<1>5. UsedRowNamesUser'
  BY <1>1, RegistryKeepsUse DEF SInv, UsedRowNamesUser
<1> QED
  BY <1>2, <1>3, <1>4, <1>5 DEF SInv

LEMMA TakeSInv ==
    ASSUME SInv, NEW verb \in {"list", "get"}, NEW records \in SUBSET License,
           verb = "list" => records = List, Take(verb, records)
    PROVE  SInv'
<1>1. /\ status'.pc = "join" /\ status'.by = verb /\ status'.at = now
      /\ status'.todo = records
      /\ status'.used = {l \in records : rb[l] # NoUsage}
      /\ status'.items = {} /\ status'.rows = {}
  BY DEF Take, IdleStatus
<1>2. UNCHANGED vars /\ UNCHANGED <<now, rb>> /\ reads' \in 0..MaxReads
  BY StatusAssumption DEF Take, vars, regVars, SInv, StatusTypeOK
<1>3. TypeOK' /\ now \in Nat
  BY <1>2 DEF SInv, StatusTypeOK, TypeOK, MethodsTypeOK, vars, regVars
<1>4. StatusTypeOK'
  BY <1>1, <1>2, <1>3 DEF StatusTypeOK
<1>5. TakenLong'
  BY <1>1 DEF TakenLong, InHand, List
<1>6. RowsPrinted' /\ UseIsKept' /\ UsedRowNamesUser'
  BY <1>1, <1>2 DEF RowsPrinted, UseIsKept, UsedRowNamesUser
<1> QED
  BY <1>4, <1>5, <1>6 DEF SInv

LEMMA JoinSInv == ASSUME SInv, NEW l \in License, Join(l) PROVE SInv'
<1>1. /\ status'.pc = status.pc /\ status'.by = status.by /\ status'.at = status.at
      /\ status'.used = status.used /\ status'.rows = status.rows
      /\ status'.todo = status.todo \ {l}
      /\ status'.items = status.items \cup {[lic |-> l, user |-> rb[l]]}
      /\ l \in status.todo
  BY DEF Join, toLicenseStatus
<1>2. UNCHANGED vars /\ UNCHANGED <<now, rb, reads>>
  BY DEF Join, vars, regVars
<1>3. TypeOK' /\ rb[l] \in Usage \cup {NoUsage}
  BY <1>2 DEF SInv, StatusTypeOK, TypeOK, MethodsTypeOK, vars, regVars
<1>4. StatusTypeOK'
  BY <1>1, <1>2, <1>3 DEF SInv, StatusTypeOK, Item
<1>5. InHand' \subseteq InHand
  BY <1>1 DEF InHand
<1>6. TakenLong' /\ RowsPrinted' /\ UsedRowNamesUser'
  BY <1>1, <1>2, <1>5 DEF SInv, TakenLong, RowsPrinted, UsedRowNamesUser
<1>7. UseIsKept'
  BY <1>1, <1>2 DEF SInv, UseIsKept
<1> QED
  BY <1>4, <1>6, <1>7 DEF SInv

LEMMA PrintRowSInv ==
    ASSUME SInv, NEW i \in status.items, PrintRow(i) PROVE SInv'
<1> DEFINE row == [lic |-> i.lic, user |-> i.user,
                   rotates |-> Distance(NotAfter[i.lic]), at |-> now]
<1>1. /\ status'.pc = status.pc /\ status'.by = status.by /\ status'.at = status.at
      /\ status'.used = status.used /\ status'.todo = status.todo
      /\ status'.items = status.items \ {i}
      /\ status'.rows = status.rows \cup {row}
  BY DEF PrintRow
<1>2. UNCHANGED vars /\ UNCHANGED <<now, rb, reads>>
  BY DEF PrintRow, vars, regVars
<1>3. /\ TypeOK' /\ now \in Nat
      /\ i.lic \in License /\ i.user \in Usage \cup {NoUsage}
  BY <1>2 DEF SInv, StatusTypeOK, TypeOK, MethodsTypeOK, vars, regVars, Item
<1>4. Distance(NotAfter[i.lic]) \in Nat
  BY <1>3, LicenseAssumption DEF Distance
<1>5. row \in Row
  BY <1>3, <1>4 DEF Row
<1> HIDE DEF row
<1>6. StatusTypeOK'
  BY <1>1, <1>2, <1>3, <1>5 DEF SInv, StatusTypeOK
<1>7. row.lic = i.lic /\ row.user = i.user /\ row.at = now
      /\ row.rotates = Distance(NotAfter[i.lic])
  BY DEF row
<1>8. InHand' \subseteq InHand
  BY <1>1, <1>7 DEF InHand
<1>9. TakenLong'
  BY <1>1, <1>8 DEF SInv, TakenLong
<1>10. RowsPrinted'
  BY <1>1, <1>7 DEF SInv, RowsPrinted, Distance
<1>11. UseIsKept' /\ UsedRowNamesUser'
  BY <1>1, <1>2, <1>7 DEF SInv, UseIsKept, UsedRowNamesUser
<1> QED
  BY <1>6, <1>9, <1>10, <1>11 DEF SInv

(* From one loop to the next, and to the end. *)
LEMMA LoopSInv == ASSUME SInv, Joined \/ Printed PROVE SInv'
<1>1. /\ status'.pc \in {"print", "idle"}
      /\ status'.by = status.by /\ status'.at = status.at
      /\ status'.used = status.used /\ status'.todo = status.todo
      /\ status'.items = status.items /\ status'.rows = status.rows
  <2>1. CASE Joined
    BY <2>1 DEF Joined
  <2>2. CASE Printed
    BY <2>2 DEF Printed
  <2> QED
    BY <2>1, <2>2
<1>2. UNCHANGED vars /\ UNCHANGED <<now, rb, reads>>
  BY DEF Joined, Printed, vars, regVars
<1>3. TypeOK'
  BY <1>2 DEF SInv, StatusTypeOK, TypeOK, MethodsTypeOK, vars, regVars
<1>4. StatusTypeOK'
  BY <1>1, <1>2, <1>3 DEF SInv, StatusTypeOK
<1>5. TakenLong' /\ RowsPrinted' /\ UseIsKept' /\ UsedRowNamesUser'
  <2>1. InHand' = InHand
    BY <1>1 DEF InHand
  <2>2. TakenLong' /\ RowsPrinted'
    BY <1>1, <2>1 DEF SInv, TakenLong, RowsPrinted
  <2>3. UseIsKept' /\ UsedRowNamesUser'
    BY <1>1, <1>2 DEF SInv, UseIsKept, UsedRowNamesUser
  <2> QED
    BY <2>2, <2>3
<1> QED
  BY <1>4, <1>5 DEF SInv

(* The reader beside the registry: the registry's own invariant and the      *)
(* reader's are kept by every step of either.                                *)
THEOREM StatusInvariance == StatusSpec => [](IInv /\ SInv)
<1>1. StatusInit => IInv /\ SInv
  BY InitIInv, InitSInv DEF StatusInit
<1>2. IInv /\ SInv /\ [StatusNext]_statusVars => IInv' /\ SInv'
  <2> SUFFICES ASSUME IInv, SInv, [StatusNext]_statusVars PROVE IInv' /\ SInv'
    OBVIOUS
  <2>1. CASE [Next]_vars /\ UNCHANGED <<status, reads>>
    <3>1. IInv'
      BY <2>1, AdvanceIInv, CallAddIInv, CallLicenseForFeatureIInv, CallRecordIInv,
         StutterIInv DEF Next
    <3>2. SInv'
      BY <2>1, <3>1, RegistrySInv DEF IInv
    <3> QED
      BY <3>1, <3>2
  <2>2. CASE ListStatuses
    <3>1. List \in SUBSET License /\ UNCHANGED vars
      BY <2>2 DEF ListStatuses, Take, List, SInv, StatusTypeOK, TypeOK, MethodsTypeOK
    <3> QED
      BY <2>2, <3>1, TakeSInv, StutterIInv DEF ListStatuses
  <2>3. CASE \E l \in License : GetStatus(l)
    <3>1. PICK l \in License : Take("get", {l})
      BY <2>3 DEF GetStatus
    <3>2. UNCHANGED vars
      BY <3>1 DEF Take
    <3> QED
      BY <3>1, <3>2, TakeSInv, StutterIInv
  <2>4. CASE \E l \in License : Join(l)
    BY <2>4, JoinSInv, StutterIInv DEF Join
  <2>5. CASE \E i \in status.items : PrintRow(i)
    BY <2>5, PrintRowSInv, StutterIInv DEF PrintRow
  <2>6. CASE Joined \/ Printed
    BY <2>6, LoopSInv, StutterIInv DEF Joined, Printed
  <2> QED
    BY <2>1, <2>2, <2>3, <2>4, <2>5, <2>6 DEF StatusNext, statusVars
<1> QED
  BY <1>1, <1>2, PTL DEF StatusSpec

(* The state of a status request is well typed. *)
THEOREM StatusTypeCorrect == StatusSpec => []StatusTypeOK
<1>1. IInv /\ SInv => StatusTypeOK
  BY DEF SInv
<1> QED
  BY <1>1, StatusInvariance, PTL

(* toLicenseStatus reads the book after the registry was read; a license in  *)
(* use at that first moment and live yet has its user in the row.            *)
THEOREM RowsNameUsers == StatusSpec => []UsedRowNamesUser
<1>1. IInv /\ SInv => UsedRowNamesUser
  BY DEF SInv
<1> QED
  BY <1>1, StatusInvariance, PTL

(* convertToHumanReadableDateType drops the direction; in a list that is at  *)
(* most ttl old the distance it prints is the life left.                     *)
THEOREM RotatesIsRight == StatusSpec => []RotatesIsLifeLeft
<1>1. ASSUME SInv PROVE RotatesIsLifeLeft
  <2> SUFFICES ASSUME NEW r \in status.rows, status.by = "list",
                      r.at - status.at <= TTL
               PROVE  r.rotates = NotAfter[r.lic] - r.at
    BY DEF RotatesIsLifeLeft
  <2>1. /\ r.lic \in License /\ r.at \in Nat /\ status.at \in Nat
        /\ NotAfter[r.lic] \in Int /\ TTL \in Nat
    BY <1>1, LicenseAssumption DEF SInv, StatusTypeOK, Row
  <2>2. r.lic \in InHand
    BY DEF InHand
  <2>3. NotAfter[r.lic] > status.at + TTL
    BY <1>1, <2>2 DEF SInv, TakenLong
  <2>4. ~(r.at > NotAfter[r.lic])
    BY <2>1, <2>3
  <2> QED
    BY <1>1, <2>4 DEF SInv, RowsPrinted
<1>2. IInv /\ SInv => RotatesIsLifeLeft
  BY <1>1
<1> QED
  BY <1>2, StatusInvariance, PTL
=============================================================================
