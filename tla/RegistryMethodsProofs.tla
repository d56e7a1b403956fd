----------------------- MODULE RegistryMethodsProofs ------------------------
(* What the methods of LicenseRegistry and RecordBook keep, whoever calls    *)
(* them: lemmas for the modules that compose the methods with their callers. *)
EXTENDS RegistryMethods, TLAPS

(* A live license in a queue is in the store: what leaves the store while    *)
(* copies of it stay in other queues is too short to be served.              *)
QueuedLiveIsKnown ==
    \A f \in Feature, l \in License :
       reg[f][l] > 0 /\ Live(l, now) => l \in store

(* StoredIsQueued ties the store to the queues; a lookup's answer being in   *)
(* the store also needs the other direction, for live licenses.              *)
RegInv == MethodsTypeOK /\ StoredIsQueued /\ QueuedLiveIsKnown

(* No step forgets a live license or its use, and the clock never goes back. *)
Remembers ==
    /\ now \in Nat /\ now' \in Nat /\ now <= now'
    /\ \A l \in store : Live(l, now') => l \in store'
    /\ \A l \in License : Live(l, now') /\ rb[l] # NoUsage => rb'[l] # NoUsage

(* A license that is dead stays dead. *)
LEMMA DeadStaysDead ==
    ASSUME NEW l \in License, NEW t \in Int, NEW u \in Int, t <= u, Live(l, u)
    PROVE  Live(l, t)
  BY LicenseAssumption DEF Live

(* A new registry holds nothing. *)
LEMMA EmptyRegInv ==
    ASSUME now \in Nat, reg = EmptyReg, store = {},
           rb \in [License -> Usage \cup {NoUsage}], cache \in [License -> FileState]
    PROVE  RegInv
<1>1. 0 \in 0..MaxCopies
  BY RegistryAssumption
<1> QED
  BY <1>1 DEF RegInv, MethodsTypeOK, StoredIsQueued, QueuedLiveIsKnown, EmptyReg, Queued

(* Nothing of the registry changes. *)
LEMMA IdleRegInv == ASSUME RegInv, UNCHANGED regVars PROVE RegInv' /\ Remembers
<1>1. UNCHANGED <<now, reg, store, rb, cache>>
  BY DEF regVars
<1>2. now \in Nat
  BY DEF RegInv, MethodsTypeOK
<1>3. RegInv'
  BY <1>1 DEF RegInv, MethodsTypeOK, StoredIsQueued, QueuedLiveIsKnown, Queued
<1>4. Remembers
  BY <1>1, <1>2 DEF Remembers
<1> QED
  BY <1>3, <1>4

LEMMA TickRegInv == ASSUME RegInv, Tick PROVE RegInv' /\ Remembers
<1>1. now \in Nat /\ now' = now + 1 /\ UNCHANGED <<reg, store, rb, cache>>
  BY DEF RegInv, MethodsTypeOK, Tick
<1>2. \A l \in License : Live(l, now') => Live(l, now)
  BY <1>1, DeadStaysDead
<1>3. RegInv'
  BY <1>1, <1>2 DEF RegInv, MethodsTypeOK, StoredIsQueued, QueuedLiveIsKnown, Queued
<1>4. Remembers
  BY <1>1 DEF Remembers
<1> QED
  BY <1>3, <1>4

(* Add: the license is in the store afterwards, and in all its queues. *)
LEMMA AddRegInv ==
    ASSUME RegInv, NEW l \in License, Add(l)
    PROVE  /\ RegInv' /\ Remembers
           /\ store' = store \cup {l}
           /\ now' = now /\ rb' = rb
<1>1. CASE l \in store
  <2>1. UNCHANGED regVars
    BY <1>1 DEF Add
  <2> QED
    BY <1>1, <2>1, IdleRegInv DEF regVars
<1>2. CASE l \notin store
  <2>1. /\ store' = store \cup {l}
        /\ reg' = Pushed(l)
        /\ now' = now /\ rb' = rb
        /\ WriteFiles({l})
    BY <1>2 DEF Add, addToStore
  <2>2. \A f \in Feature, m \in License :
           reg'[f][m] = IF m = l /\ f \in FeaturesOf[l] THEN OneMore(reg[f][m])
                                                       ELSE reg[f][m]
    BY <2>1 DEF Pushed
  <2>3. \A n \in 0..MaxCopies : OneMore(n) \in 0..MaxCopies /\ OneMore(n) > 0
    BY RegistryAssumption DEF OneMore
  <2>4. MethodsTypeOK'
    <3>1. reg' \in [Feature -> [License -> 0..MaxCopies]]
      BY <2>1, <2>3 DEF Pushed, RegInv, MethodsTypeOK
    <3>2. cache' \in [License -> FileState]
      BY <2>1 DEF WriteFiles
    <3> QED
      BY <2>1, <3>1, <3>2 DEF RegInv, MethodsTypeOK
  <2>5. StoredIsQueued'
    <3>1. ASSUME NEW m \in store', NEW f \in FeaturesOf[m] PROVE reg'[f][m] > 0
      <4>1. f \in Feature /\ m \in License /\ reg[f][m] \in 0..MaxCopies
        BY <2>1, LicenseAssumption DEF RegInv, MethodsTypeOK
      <4> QED
        BY <2>1, <2>2, <2>3, <4>1 DEF RegInv, StoredIsQueued
    <3>2. ASSUME NEW f \in Feature, NEW m \in License, reg'[f][m] > 0
          PROVE  f \in FeaturesOf[m]
      BY <2>2, <3>2 DEF RegInv, StoredIsQueued, Queued
    <3> QED
      BY <3>1, <3>2 DEF StoredIsQueued, Queued
  <2>6. QueuedLiveIsKnown'
    BY <2>1, <2>2 DEF RegInv, QueuedLiveIsKnown
  <2>7. Remembers
    BY <2>1 DEF Remembers, RegInv, MethodsTypeOK
  <2> QED
    BY <2>1, <2>4, <2>5, <2>6, <2>7 DEF RegInv
<1> QED
  BY <1>1, <1>2

(* The queue's live licenses are the store's for the feature. *)
LEMMA QueuedLiveFromStore ==
    ASSUME RegInv, NEW f \in Feature
    PROVE  QueuedLive(f) = {l \in store : f \in FeaturesOf[l] /\ Live(l, now)}
<1>1. store \subseteq License
  BY DEF RegInv, MethodsTypeOK
<1>2. \A l \in License : reg[f][l] > 0 => f \in FeaturesOf[l]
  BY DEF RegInv, StoredIsQueued, Queued
<1>3. \A l \in License : reg[f][l] > 0 /\ Live(l, now) => l \in store
  BY DEF RegInv, QueuedLiveIsKnown
<1>4. \A l \in store : f \in FeaturesOf[l] => reg[f][l] > 0
  BY DEF RegInv, StoredIsQueued
<1> QED
  BY <1>1, <1>2, <1>3, <1>4 DEF QueuedLive, Queued

(* LicenseForFeature: what it returns is stored, live and covers the         *)
(* feature; when it returns none there is none.  What it drops is dead, and  *)
(* only the files of what it drops are touched.                              *)
LEMMA LicenseForFeatureRegInv ==
    ASSUME RegInv, NEW f \in Feature, NEW l \in License \cup {NoLicense},
           LicenseForFeature(f, l)
    PROVE  /\ RegInv' /\ Remembers
           /\ now' = now /\ store' \subseteq store
           /\ l # NoLicense => /\ l \in License /\ l \in store'
                               /\ f \in FeaturesOf[l] /\ Live(l, now)
           /\ l = NoLicense => \A m \in store : f \in FeaturesOf[m] => ~Live(m, now)
           /\ \A m \in License : Live(m, now) => cache'[m] = cache[m]
           /\ \A m \in License : cache'[m] \in {cache[m], "none"}
<1> DEFINE P == Popped(f)
<1>1. P \subseteq License /\ \A m \in P : ~Live(m, now)
  BY DEF Popped, Queued
<1>2. /\ now' = now
      /\ store' = store \ P
      /\ rb' = [m \in License |-> IF m \in P THEN NoUsage ELSE rb[m]]
      /\ RemoveFiles(P)
      /\ l \in Found(f)
  BY DEF LicenseForFeature, removeFromStore
<1>3. /\ reg' \in [Feature -> [License -> 0..MaxCopies]]
      /\ \A g \in Feature, m \in License :
            reg'[g][m] = IF g = f /\ m \in P THEN 0 ELSE reg[g][m]
  <2>1. reg' = [reg EXCEPT ![f] = [m \in License |->
                  IF m \in P THEN 0 ELSE reg[f][m]]]
    BY DEF LicenseForFeature
  <2>2. 0 \in 0..MaxCopies
    BY RegistryAssumption
  <2> HIDE DEF P
  <2> QED
    BY <2>1, <2>2 DEF RegInv, MethodsTypeOK
<1>4. /\ cache' \in [License -> FileState]
      /\ \A m \in License \ P : cache'[m] = cache[m]
      /\ \A m \in License : cache'[m] \in {cache[m], "none"}
  BY <1>2 DEF RemoveFiles
<1>5. QueuedLive(f) = {m \in store : f \in FeaturesOf[m] /\ Live(m, now)}
  BY QueuedLiveFromStore
<1>6. store \subseteq License /\ NoLicense \notin License
  BY LicenseAssumption DEF RegInv, MethodsTypeOK
<1>7. l # NoLicense => l \in store /\ f \in FeaturesOf[l] /\ Live(l, now)
  BY <1>2, <1>5 DEF Found, Foremost
<1>8. l = NoLicense => QueuedLive(f) = {}
  BY <1>2, <1>5, <1>6 DEF Found, Foremost
<1> HIDE DEF P
<1>9. MethodsTypeOK'
  BY <1>2, <1>3, <1>4 DEF RegInv, MethodsTypeOK
<1>10. StoredIsQueued'
  <2>1. ASSUME NEW m \in store', NEW g \in FeaturesOf[m] PROVE reg'[g][m] > 0
    <3>1. m \in store /\ m \notin P /\ m \in License /\ g \in Feature
      BY <1>2, <1>6, LicenseAssumption
    <3> QED
      BY <1>3, <3>1 DEF RegInv, StoredIsQueued
  <2>2. ASSUME NEW g \in Feature, NEW m \in License, reg'[g][m] > 0
        PROVE  g \in FeaturesOf[m]
    <3>1. reg[g][m] > 0
      BY <1>3, <2>2
    <3> QED
      BY <3>1 DEF RegInv, StoredIsQueued, Queued
  <2> QED
    BY <2>1, <2>2 DEF StoredIsQueued, Queued
<1>11. QueuedLiveIsKnown'
  BY <1>1, <1>2, <1>3 DEF RegInv, QueuedLiveIsKnown
<1>12. Remembers
  BY <1>1, <1>2 DEF Remembers, RegInv, MethodsTypeOK
<1> QED
  BY <1>1, <1>2, <1>4, <1>5, <1>6, <1>7, <1>8, <1>9, <1>10, <1>11, <1>12 DEF RegInv

(* Record. *)
LEMMA RecordRegInv ==
    ASSUME RegInv, NEW l \in License, NEW u \in Usage, Record(l, u)
    PROVE  RegInv' /\ Remembers /\ rb'[l] # NoUsage
<1>1. /\ UNCHANGED <<now, reg, store, cache>>
      /\ rb' = [rb EXCEPT ![l] = u]
      /\ rb \in [License -> Usage \cup {NoUsage}]
  BY DEF Record, RegInv, MethodsTypeOK
<1>2. /\ rb' \in [License -> Usage \cup {NoUsage}]
      /\ \A m \in License : rb[m] # NoUsage => rb'[m] # NoUsage
      /\ rb'[l] # NoUsage
  BY <1>1, RegistryAssumption
<1>3. RegInv'
  BY <1>1, <1>2 DEF RegInv, MethodsTypeOK, StoredIsQueued, QueuedLiveIsKnown, Queued
<1>4. Remembers
  BY <1>1, <1>2 DEF Remembers, RegInv, MethodsTypeOK
<1> QED
  BY <1>2, <1>3, <1>4
=============================================================================
