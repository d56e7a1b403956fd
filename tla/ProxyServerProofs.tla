-------------------------- MODULE ProxyServerProofs -------------------------
(* For any licenses, clients, claims and bounds: the invariants of the proxy *)
(* server, whatever its requests, crashes and restarts interleave to.        *)
EXTENDS ProxyServer, RegistryMethodsProofs

(* A process that is down has no requests. *)
DownIsIdle == ~up => \A c \in Call : call[c] = Idle

(* A request that has got as far as holding a license holds one; one about   *)
(* to be added has begun its life.                                           *)
HoldsLicense(c) ==
    /\ call[c].pc \in {"add", "record", "served"} => call[c].lic \in License
    /\ call[c].pc = "add" => NotBefore[call[c].lic] <= now

(* ServedLiveIsKnown for one request. *)
HeldIsKnown(c) ==
    /\ call[c].pc \in {"record", "served"}
    /\ Live(call[c].lic, now)
    => /\ call[c].lic \in store
       /\ call[c].pc = "served" => rb[call[c].lic] # NoUsage

(* Of the licenses a request found the registry with, the live ones are      *)
(* still there, and none covers a feature it has looked up in vain.          *)
LookedUp(c) ==
    /\ \A l \in call[c].atStart : Live(l, now) => l \in store
    /\ \A j \in 1..(call[c].i - 1) : \A l \in call[c].atStart :
          Asked[c][j] \in FeaturesOf[l] => ~Live(l, now)

(* A request leaves the lookups without a license after the last of them. *)
LooksUpAll(c) ==
    /\ call[c].pc = "lookup" => call[c].i <= Len(Asked[c])
    /\ call[c].pc \in {"acquire", "add", "claim", "update", "create", "blank"} =>
          call[c].i > Len(Asked[c])

CallInv(c) == HoldsLicense(c) /\ HeldIsKnown(c) /\ LookedUp(c) /\ LooksUpAll(c)

(* Of a good cache file only the time that is left matters at a restart. *)
GoodHasBegun == \A l \in License : cache[l] = "good" => NotBefore[l] <= now

CacheInv == /\ GoodHasBegun
            /\ UseCache /\ ~DiskMayFail => CacheMirrorsStore

(* A copy of the claim, the informer's or a request's, is of an earlier      *)
(* version, and only of the latest if it is equal; features are only added.  *)
CopyOf(x) ==
    x # NoClaim =>
       /\ claim # NoClaim
       /\ x.version <= claim.version
       /\ x.version = claim.version => x.value = claim.value
       /\ Split(x.value) \subseteq Split(claim.value)

ClaimInv ==
    /\ CopyOf(view)
    /\ \A c \in Call : /\ CopyOf(call[c].read)
                       /\ call[c].pc = "update" => call[c].read # NoClaim
    /\ BlankMeansClaimed

IInv == /\ TypeOK
        /\ RegInv
        /\ DownIsIdle
        /\ \A c \in Call : CallInv(c)
        /\ CacheInv
        /\ ClaimInv

(* The other requests stay where they are. *)
Others(c) == \A d \in Call \ {c} : call'[d] = call[d]

PC == Busy \cup Ended \cup {"idle"}

-----------------------------------------------------------------------------
(* Types. *)

LEMMA IdleTyped == /\ Idle \in CallState
                   /\ Idle.pc = "idle" /\ Idle.i = 1 /\ Idle.lic = NoLicense
                   /\ Idle.read = NoClaim /\ Idle.atStart = {}
  BY DEF Idle, CallState, ClaimState

LEMMA LenTyped == \A c \in Call : Len(Asked[c]) \in Nat
  BY ProxyAssumption

(* AddAcquired, RecordUse and others change no more than where a request is. *)
LEMMA GotoFacts ==
    ASSUME call \in [Call -> CallState], NEW c \in Call, NEW p \in PC, Goto(c, p)
    PROVE  /\ call' \in [Call -> CallState] /\ Others(c)
           /\ call'[c].pc = p /\ call'[c].i = call[c].i
           /\ call'[c].lic = call[c].lic /\ call'[c].read = call[c].read
           /\ call'[c].atStart = call[c].atStart
  BY DEF Goto, Others, CallState, PC

(* A step of one request that leaves the rest of the process as it is. *)
LEMMA RequestTypeOK ==
    ASSUME TypeOK, MethodsTypeOK', UNCHANGED <<up, view>>,
           claim' \in ClaimState, faults' \in 0..MaxFaults,
           NEW c \in Call, Others(c), call' \in [Call -> CallState],
           call'[c].i <= Len(Asked[c]) + 1
    PROVE  TypeOK'
<1>1. up' \in BOOLEAN
  BY Zenon DEF TypeOK
<1>2. view' \in ClaimState
  BY DEF TypeOK
<1>3. \A d \in Call : call'[d].i <= Len(Asked[d]) + 1
  BY DEF TypeOK, Others
<1> QED
  BY <1>1, <1>2, <1>3 DEF TypeOK

LEMMA FaultTyped == ASSUME TypeOK, Fault PROVE faults' \in 0..MaxFaults
  BY ProxyAssumption DEF TypeOK, Fault

(* StartFrom: what LoadDir adds is all there is, and in all its queues. *)
LEMMA StartFromKeeps ==
    ASSUME TypeOK, NEW files \in SUBSET License, StartFrom(files)
    PROVE  TypeOK' /\ RegInv' /\ up' = TRUE
<1> DEFINE S == Loadable(files)
<1>1. S \subseteq License
  BY DEF Loadable
<1>2. /\ store' = S /\ reg' = QueuesOf(S) /\ WriteFiles(S)
      /\ view' = claim /\ UNCHANGED <<now, rb, call, claim, faults>>
  BY DEF StartFrom
<1>3. up' = TRUE /\ up' \in BOOLEAN
  BY Zenon DEF StartFrom
<1> HIDE DEF S
<1>4. 0 \in 0..MaxCopies /\ 1 \in 0..MaxCopies
  BY RegistryAssumption
<1>5. /\ reg' \in [Feature -> [License -> 0..MaxCopies]]
      /\ \A f \in Feature, l \in License :
            reg'[f][l] = IF l \in S /\ f \in FeaturesOf[l] THEN 1 ELSE 0
  BY <1>2, <1>4 DEF QueuesOf
<1>6. MethodsTypeOK'
  BY <1>1, <1>2, <1>5 DEF WriteFiles, TypeOK, MethodsTypeOK
<1>7. StoredIsQueued' /\ QueuedLiveIsKnown'
  BY <1>1, <1>2, <1>5, LicenseAssumption DEF StoredIsQueued, QueuedLiveIsKnown, Queued
<1>8. TypeOK'
  BY <1>2, <1>3, <1>6 DEF TypeOK
<1> QED
  BY <1>3, <1>6, <1>7, <1>8 DEF RegInv

(* Dies: nothing is left in memory. *)
LEMMA DiesKeeps ==
    ASSUME TypeOK, Dies, UNCHANGED <<now, claim, view>>,
           cache' \in [License -> FileState], faults' \in 0..MaxFaults
    PROVE  /\ TypeOK' /\ RegInv'
           /\ up' = FALSE
           /\ \A c \in Call : call'[c] = Idle
<1>1. /\ store' = {} /\ reg' = EmptyReg /\ rb' = EmptyBook
      /\ call' = [c \in Call |-> Idle]
  BY DEF Dies
<1>2. up' = FALSE /\ up' \in BOOLEAN
  BY Zenon DEF Dies
<1>3. 0 \in 0..MaxCopies
  BY RegistryAssumption
<1>4. MethodsTypeOK'
  BY <1>1, <1>3 DEF TypeOK, MethodsTypeOK, EmptyReg, EmptyBook
<1>5. StoredIsQueued' /\ QueuedLiveIsKnown'
  BY <1>1 DEF StoredIsQueued, QueuedLiveIsKnown, Queued, EmptyReg
<1>6. /\ call' \in [Call -> CallState]
      /\ \A c \in Call : call'[c] = Idle /\ call'[c].i <= Len(Asked[c]) + 1
  BY <1>1, IdleTyped, LenTyped
<1>7. TypeOK'
  BY <1>2, <1>4, <1>6 DEF TypeOK
<1> QED
  BY <1>2, <1>4, <1>5, <1>6, <1>7 DEF RegInv

LEMMA CrashKeeps ==
    ASSUME TypeOK, Crash
    PROVE  /\ TypeOK' /\ RegInv'
           /\ up' = FALSE
           /\ \A c \in Call : call'[c] = Idle
           /\ \A l \in License : cache'[l] = "good" => cache[l] = "good"
           /\ UNCHANGED <<now, claim, view>>
<1>1. Dies /\ Fault /\ UNCHANGED <<now, claim, view>>
  BY DEF Crash
<1>2. cache \in [License -> FileState]
  BY DEF TypeOK, MethodsTypeOK
<1>3. /\ cache' \in [License -> FileState]
      /\ \A l \in License : cache'[l] = "good" => cache[l] = "good"
  <2>1. CASE UNCHANGED cache
    BY <1>2, <2>1
  <2>2. CASE cache' = [l \in License |-> "none"]
    BY <2>2 DEF FileState
  <2>3. CASE \E l \in BeingAdded \ store : cache' = [cache EXCEPT ![l] = "torn"]
    BY <1>2, <2>3 DEF FileState
  <2> QED
    BY <2>1, <2>2, <2>3 DEF Crash
<1>4. faults' \in 0..MaxFaults
  BY <1>1, FaultTyped
<1> QED
  BY <1>1, <1>3, <1>4, DiesKeeps

LEMMA CrashLoadingKeeps ==
    ASSUME TypeOK, RegInv, NEW files \in SUBSET License, CrashLoading(files)
    PROVE  /\ TypeOK' /\ RegInv'
           /\ UNCHANGED <<now, reg, store, rb, up, call, claim, view>>
           /\ \A l \in License : cache'[l] = "good" =>
                 cache[l] = "good" \/ l \in Loadable(files)
<1>1. UNCHANGED <<now, reg, store, rb, call, claim, view>> /\ Fault
  BY DEF CrashLoading
<1>2. up' = up /\ up' \in BOOLEAN
  BY Zenon DEF CrashLoading, TypeOK
<1>3. cache \in [License -> FileState]
  BY DEF TypeOK, MethodsTypeOK
<1>4. PICK l \in Loadable(files), written \in SUBSET Loadable(files) :
         cache' = [m \in License |-> CASE m = l -> "torn"
                                       [] m # l /\ m \in written -> "good"
                                       [] OTHER -> cache[m]]
  BY DEF CrashLoading
<1>5. \A m \in License : cache'[m] \in FileState
                         /\ (cache'[m] = "good" => cache[m] = "good" \/ m \in Loadable(files))
  <2> SUFFICES ASSUME NEW m \in License
               PROVE  cache'[m] \in FileState
                      /\ (cache'[m] = "good" => cache[m] = "good" \/ m \in Loadable(files))
    OBVIOUS
  <2>1. CASE m = l
    BY <1>4, <2>1 DEF FileState
  <2>2. CASE m # l /\ m \in written
    BY <1>4, <2>2 DEF FileState
  <2>3. CASE m # l /\ m \notin written
    BY <1>3, <1>4, <2>3
  <2> QED
    BY <2>1, <2>2, <2>3
<1>6. cache' \in [License -> FileState]
  BY <1>4, <1>5
<1>7. RegInv'
  BY <1>1, <1>6 DEF RegInv, MethodsTypeOK, StoredIsQueued, QueuedLiveIsKnown, Queued
<1>8. faults' \in 0..MaxFaults
  BY <1>1, FaultTyped
<1>9. TypeOK'
  BY <1>1, <1>2, <1>7, <1>8 DEF TypeOK, RegInv
<1> QED
  BY <1>1, <1>2, <1>5, <1>7, <1>9

-----------------------------------------------------------------------------
(* Requests. *)

(* Whatever others do, a request keeps what it knows. *)
LEMMA OtherCall ==
    ASSUME TypeOK, Remembers, NEW d \in Call, CallInv(d), call'[d] = call[d]
    PROVE  CallInv(d)'
<1>1. call[d] \in CallState
  BY DEF TypeOK
<1>2. /\ call[d].lic \in License \cup {NoLicense}
      /\ call[d].atStart \subseteq License
  BY <1>1 DEF CallState
<1>3. \A l \in License : Live(l, now') => Live(l, now)
  BY DeadStaysDead DEF Remembers
<1>4. HoldsLicense(d)'
  <2>1. \A l \in License : NotBefore[l] <= now => NotBefore[l] <= now'
    BY LicenseAssumption DEF Remembers
  <2> QED
    BY <2>1 DEF CallInv, HoldsLicense
<1>5. HeldIsKnown(d)'
  <2> SUFFICES ASSUME call[d].pc \in {"record", "served"}, Live(call[d].lic, now')
               PROVE  /\ call[d].lic \in store'
                      /\ call[d].pc = "served" => rb'[call[d].lic] # NoUsage
    BY DEF HeldIsKnown
  <2>1. call[d].lic \in License
    BY DEF CallInv, HoldsLicense
  <2>2. Live(call[d].lic, now)
    BY <1>3, <2>1
  <2>3. /\ call[d].lic \in store
        /\ call[d].pc = "served" => rb[call[d].lic] # NoUsage
    BY <2>2 DEF CallInv, HeldIsKnown
  <2> QED
    BY <2>1, <2>3 DEF Remembers
<1>6. LookedUp(d)'
  BY <1>2, <1>3 DEF CallInv, LookedUp, Remembers
<1>7. LooksUpAll(d)'
  BY DEF CallInv, LooksUpAll
<1> QED
  BY <1>4, <1>5, <1>6, <1>7 DEF CallInv

LEMMA OtherCalls ==
    ASSUME TypeOK, Remembers, NEW c \in Call, Others(c),
           \A d \in Call : CallInv(d), CallInv(c)'
    PROVE  \A d \in Call : CallInv(d)'
<1> SUFFICES ASSUME NEW d \in Call PROVE CallInv(d)'
  OBVIOUS
<1>1. CASE d = c
  BY <1>1
<1>2. CASE d # c
  <2>1. call'[d] = call[d]
    BY <1>2 DEF Others
  <2> QED
    BY <2>1, OtherCall
<1> QED
  BY <1>1, <1>2

(* An idle request holds nothing and has looked nothing up. *)
LEMMA IdleCall == ASSUME NEW c \in Call, call[c] = Idle PROVE CallInv(c)
<1>1. /\ call[c].pc = "idle" /\ call[c].i = 1 /\ call[c].atStart = {}
  BY IdleTyped
<1> QED
  BY <1>1 DEF CallInv, HoldsLicense, HeldIsKnown, LookedUp, LooksUpAll

LEMMA IdleCallNext == ASSUME NEW c \in Call, call'[c] = Idle PROVE CallInv(c)'
<1>1. /\ call'[c].pc = "idle" /\ call'[c].i = 1 /\ call'[c].atStart = {}
  BY IdleTyped
<1> QED
  BY <1>1 DEF CallInv, HoldsLicense, HeldIsKnown, LookedUp, LooksUpAll

(* A request moves on, holding no other license than before, from lookups    *)
(* done to what comes after them.                                            *)
LEMMA MovedCall ==
    ASSUME TypeOK, Remembers, NEW c \in Call, CallInv(c),
           call'[c].i = call[c].i, call'[c].atStart = call[c].atStart,
           call[c].pc \in {"acquire", "add", "claim", "update", "create", "blank"},
           call'[c].pc \notin {"add", "record", "served", "lookup"}
    PROVE  CallInv(c)'
<1>1. call[c].atStart \subseteq License
  BY DEF TypeOK, CallState
<1>2. \A l \in License : Live(l, now') => Live(l, now)
  BY DeadStaysDead DEF Remembers
<1>3. LookedUp(c)'
  BY <1>1, <1>2 DEF CallInv, LookedUp, Remembers
<1>4. HoldsLicense(c)' /\ HeldIsKnown(c)' /\ LooksUpAll(c)'
  BY DEF CallInv, HoldsLicense, HeldIsKnown, LooksUpAll
<1> QED
  BY <1>3, <1>4 DEF CallInv

LEMMA StaysUp ==
    ASSUME DownIsIdle, NEW c \in Call, up' = up, up \/ call[c].pc # "idle"
    PROVE  DownIsIdle' /\ up
<1>1. up
  BY IdleTyped DEF DownIsIdle
<1> QED
  BY <1>1 DEF DownIsIdle

-----------------------------------------------------------------------------
(* The cache directory. *)

LEMMA CacheIdle ==
    ASSUME CacheInv, UNCHANGED <<now, store, cache, up>> PROVE CacheInv'
  BY DEF CacheInv, GoodHasBegun, CacheMirrorsStore

LEMMA CacheTick == ASSUME RegInv, CacheInv, Tick, up' = up PROVE CacheInv'
<1>1. now \in Int /\ now' \in Int /\ now <= now' /\ UNCHANGED <<store, cache>>
  BY DEF RegInv, MethodsTypeOK, Tick
<1>2. \A l \in License : /\ Live(l, now') => Live(l, now)
                         /\ NotBefore[l] <= now => NotBefore[l] <= now'
  BY <1>1, DeadStaysDead, LicenseAssumption
<1> QED
  BY <1>1, <1>2 DEF CacheInv, GoodHasBegun, CacheMirrorsStore

LEMMA CacheAdd ==
    ASSUME RegInv, CacheInv, NEW l \in License, Add(l), NotBefore[l] <= now, up' = up
    PROVE  CacheInv'
<1>1. CASE l \in store
  <2>1. UNCHANGED <<now, store, cache>>
    BY <1>1 DEF Add, regVars
  <2> QED
    BY <2>1, CacheIdle
<1>2. CASE l \notin store
  <2>1. store' = store \cup {l} /\ now' = now /\ WriteFiles({l})
    BY <1>2 DEF Add, addToStore
  <2>2. /\ \A m \in License : m # l => cache'[m] = cache[m]
        /\ UseCache /\ ~DiskMayFail => cache'[l] = "good"
    BY <2>1 DEF WriteFiles
  <2>3. GoodHasBegun'
    BY <2>1, <2>2 DEF CacheInv, GoodHasBegun
  <2>4. UseCache /\ ~DiskMayFail => CacheMirrorsStore'
    BY <2>1, <2>2 DEF CacheInv, CacheMirrorsStore
  <2> QED
    BY <2>3, <2>4 DEF CacheInv
<1> QED
  BY <1>1, <1>2

LEMMA CacheLookup ==
    ASSUME RegInv, CacheInv, NEW f \in Feature, NEW l \in License \cup {NoLicense},
           LicenseForFeature(f, l), up' = up
    PROVE  CacheInv'
<1>1. /\ now' = now /\ store' \subseteq store /\ Remembers
      /\ \A m \in License : Live(m, now) => cache'[m] = cache[m]
      /\ \A m \in License : cache'[m] \in {cache[m], "none"}
  BY LicenseForFeatureRegInv
<1>2. \A m \in License : Live(m, now) => (m \in store' <=> m \in store)
  BY <1>1 DEF Remembers
<1>3. GoodHasBegun'
  BY <1>1 DEF CacheInv, GoodHasBegun
<1>4. UseCache /\ ~DiskMayFail => CacheMirrorsStore'
  BY <1>1, <1>2 DEF CacheInv, CacheMirrorsStore
<1> QED
  BY <1>3, <1>4 DEF CacheInv

(* A restart loads each good file of a license that is live: its life has    *)
(* begun, and the ttl of the registry is the life LoadDir asks for.          *)
LEMMA CacheStart ==
    ASSUME TypeOK, CacheInv, NEW files \in SUBSET License, StartFrom(files)
    PROVE  CacheInv'
<1>1. now \in Int
  BY DEF TypeOK, MethodsTypeOK
<1>2. store' = Loadable(files) /\ now' = now /\ WriteFiles(Loadable(files))
  BY DEF StartFrom
<1>3. \A l \in License : /\ NotAfter[l] \in Int /\ NotBefore[l] \in Int
                         /\ TTL \in Nat /\ TTL = MinRemainingLife
  BY LicenseAssumption, ProxyAssumption
<1>4. \A l \in License : Live(l, now) /\ NotBefore[l] <= now
                            => Valid(l, now) /\ LongEnough(l)
  BY <1>1, <1>3 DEF Live, Valid, LongEnough
<1>5. \A l \in Loadable(files) : l \in License /\ NotBefore[l] <= now
  BY DEF Loadable, Valid
<1>6. \A l \in License : l \notin Loadable(files) => cache'[l] = cache[l]
  BY <1>2 DEF WriteFiles
<1>7. UseCache /\ ~DiskMayFail => \A l \in Loadable(files) : cache'[l] = "good"
  BY <1>2, <1>5 DEF WriteFiles
<1>8. GoodHasBegun'
  BY <1>2, <1>5, <1>6 DEF CacheInv, GoodHasBegun
<1>9. ASSUME UseCache, NEW l \in License, Live(l, now), cache[l] = "good"
      PROVE  l \in Loadable(files)
  <2>1. Valid(l, now) /\ LongEnough(l)
    BY <1>4, <1>9 DEF CacheInv, GoodHasBegun
  <2> QED
    BY <1>9, <2>1 DEF Loadable
<1>10. UseCache /\ ~DiskMayFail => CacheMirrorsStore'
  BY <1>2, <1>6, <1>7, <1>9 DEF CacheMirrorsStore
<1> QED
  BY <1>8, <1>10 DEF CacheInv

-----------------------------------------------------------------------------
(* The claim. *)

(* Joining and splitting again gives the features back, save that no         *)
(* features at all come back as one empty feature.                           *)
LEMMA SplitJoin ==
    /\ \A S : S # {} => Split(Join(S)) = S
    /\ \A S : S \ {""} \subseteq Join(S)
    /\ \A S : Split(S) # {} /\ S \subseteq Split(S) /\ Split(S) \ {""} \subseteq S
    /\ \A S : S \subseteq Split(Join(S))
    /\ \A S : S \subseteq ClaimFeature => /\ Split(S) \subseteq ClaimFeature
                                          /\ Join(S) \subseteq ClaimFeature
  BY DEF Split, Join, ClaimFeature

LEMMA AskedTyped == \A c \in Call : AskedSet(c) \subseteq Feature
  BY ProxyAssumption DEF AskedSet

(* The claim and its copy do not change, and one request moves on. *)
LEMMA ClaimKept ==
    ASSUME ClaimInv, UNCHANGED <<claim, view>>, NEW c \in Call, Others(c),
           call'[c].read \in {call[c].read, view, NoClaim},
           call'[c].pc = "update" => call'[c].read # NoClaim,
           call'[c].pc = "blank" =>
              \/ call[c].pc = "blank" \/ Claimed(c) \/ ~IsSpoke \/ HasClient
    PROVE  ClaimInv'
<1>1. /\ CopyOf(view)'
      /\ \A d \in Call : /\ CopyOf(call[d].read)'
                         /\ call'[d].pc = "update" => call'[d].read # NoClaim
  <2>1. CopyOf(view)' /\ CopyOf(call[c].read)'
    BY DEF ClaimInv, CopyOf, Others
  <2>2. \A d \in Call \ {c} : /\ CopyOf(call[d].read)'
                              /\ call'[d].pc = "update" => call'[d].read # NoClaim
    BY DEF ClaimInv, CopyOf, Others
  <2> QED
    BY <2>1, <2>2
<1>2. BlankMeansClaimed'
  BY DEF ClaimInv, BlankMeansClaimed, Claimed, Others
<1> QED
  BY <1>1, <1>2 DEF ClaimInv

(* The claim grows, or comes to be, by a write of one request. *)
LEMMA ClaimWritten ==
    ASSUME TypeOK, ClaimInv, NEW c \in Call, Others(c), UNCHANGED view,
           call'[c].read = call[c].read, call'[c].pc = "blank",
           claim' \in Claim,
           claim # NoClaim => /\ claim'.version = claim.version + 1
                              /\ Split(claim.value) \subseteq Split(claim'.value),
           AskedSet(c) \subseteq Split(claim'.value)
    PROVE  ClaimInv'
<1>1. claim' # NoClaim
  BY ClaimAssumption
<1>2. ASSUME NEW x \in ClaimState, CopyOf(x), x # NoClaim
      PROVE  /\ x.version <= claim'.version
             /\ x.version = claim'.version => x.value = claim'.value
             /\ Split(x.value) \subseteq Split(claim'.value)
  <2>1. /\ claim # NoClaim /\ x.version <= claim.version
        /\ Split(x.value) \subseteq Split(claim.value)
    BY <1>2 DEF CopyOf
  <2>2. claim.version \in Nat /\ x.version \in Nat
    BY <1>2, <2>1 DEF TypeOK, ClaimState, Claim
  <2> QED
    BY <2>1, <2>2
<1>3. view \in ClaimState /\ \A d \in Call : call[d].read \in ClaimState
  BY DEF TypeOK, CallState
<1>4. \A d \in Call : /\ call'[d].read = call[d].read
                      /\ call'[d].pc = "update" => call[d].pc = "update"
  BY DEF Others
<1>5. CopyOf(view)'
  BY <1>1, <1>2, <1>3 DEF ClaimInv, CopyOf
<1>6. \A d \in Call : CopyOf(call[d].read)'
  BY <1>1, <1>2, <1>3, <1>4 DEF ClaimInv, CopyOf
<1>7. BlankMeansClaimed'
  BY <1>1 DEF ClaimInv, BlankMeansClaimed, Claimed, Others
<1> QED
  BY <1>4, <1>5, <1>6, <1>7 DEF ClaimInv

(* UpdateClaim overwrites the claim with what it read and its own features:  *)
(* since it only goes through for the latest version, that adds features.    *)
LEMMA UpdateGrows ==
    ASSUME TypeOK, ClaimInv, NEW c \in Call, UpdateClaim(c), claim' # claim
    PROVE  /\ claim # NoClaim /\ claim' \in Claim
           /\ claim'.version = claim.version + 1
           /\ Split(claim'.value) = Split(claim.value) \cup AskedSet(c)
           /\ Split(claim.value) \ {""} \subseteq claim'.value
           /\ Goto(c, "blank")
<1>1. /\ call[c].pc = "update" /\ Goto(c, "blank")
      /\ claim.version = call[c].read.version
      /\ claim' = [value |-> Join(Split(call[c].read.value) \cup AskedSet(c)),
                   version |-> claim.version + 1]
  BY DEF UpdateClaim
<1>2. claim # NoClaim /\ call[c].read.value = claim.value
  BY <1>1 DEF ClaimInv, CopyOf
<1>3. claim \in Claim
  BY <1>2 DEF TypeOK, ClaimState
<1>4. claim.version \in Nat /\ claim.value \subseteq ClaimFeature
  BY <1>3 DEF Claim
<1> DEFINE S == Split(claim.value) \cup AskedSet(c)
<1>5. S \subseteq ClaimFeature /\ S # {}
  BY <1>4, SplitJoin, AskedTyped DEF ClaimFeature
<1>6. /\ Join(S) \subseteq ClaimFeature /\ Split(Join(S)) = S
      /\ S \ {""} \subseteq Join(S)
  BY <1>5, SplitJoin
<1>7. claim' = [value |-> Join(S), version |-> claim.version + 1]
  BY <1>1, <1>2
<1> HIDE DEF S
<1>8. claim' \in Claim /\ claim'.version = claim.version + 1 /\ claim'.value = Join(S)
  <2>1. claim.version + 1 \in Nat
    BY <1>4
  <2>2. Join(S) \in SUBSET ClaimFeature
    BY <1>6, Zenon
  <2> QED
    BY <1>7, <2>1, <2>2, Zenon DEF Claim
<1> QED
  BY <1>1, <1>2, <1>6, <1>8 DEF S

(* CreateClaim. *)
LEMMA CreateMakes ==
    ASSUME TypeOK, NEW c \in Call, CreateClaim(c), claim' # claim
    PROVE  /\ claim = NoClaim /\ claim' \in Claim
           /\ AskedSet(c) \subseteq Split(claim'.value)
           /\ Goto(c, "blank")
<1>1. /\ claim = NoClaim /\ Goto(c, "blank")
      /\ claim' = [value |-> Join(AskedSet(c)), version |-> 1]
  BY DEF CreateClaim
<1>2. /\ AskedSet(c) \subseteq ClaimFeature
      /\ Join(AskedSet(c)) \subseteq ClaimFeature
      /\ AskedSet(c) \subseteq Split(Join(AskedSet(c)))
  BY AskedTyped, SplitJoin DEF ClaimFeature
<1> QED
  BY <1>1, <1>2 DEF Claim

-----------------------------------------------------------------------------
(* The inductive invariant, one step of the process after another. *)

LEMMA InitIInv == ASSUME Init PROVE IInv
<1>1. /\ now = 0 /\ reg = EmptyReg /\ store = {} /\ rb = EmptyBook
      /\ cache = [l \in License |-> "none"]
      /\ call = [c \in Call |-> Idle]
      /\ claim \in {NoClaim, [value |-> {}, version |-> 1]}
      /\ view = claim /\ faults = 0
  BY DEF Init
<1>2. up = FALSE /\ up \in BOOLEAN
  BY Zenon DEF Init
<1>3. RegInv
  BY <1>1, EmptyRegInv DEF EmptyBook, FileState
<1>4. /\ call \in [Call -> CallState]
      /\ \A c \in Call : call[c] = Idle /\ call[c].i <= Len(Asked[c]) + 1
  BY <1>1, IdleTyped, LenTyped
<1>5. claim \in ClaimState /\ faults \in 0..MaxFaults
  BY <1>1, ProxyAssumption DEF ClaimState, Claim
<1>6. TypeOK
  BY <1>1, <1>2, <1>3, <1>4, <1>5 DEF TypeOK, RegInv
<1>7. \A c \in Call : CallInv(c)
  BY <1>4, IdleCall
<1>8. CacheInv
  BY <1>1, <1>2 DEF CacheInv, GoodHasBegun, CacheMirrorsStore
<1>9. ClaimInv
  <2>1. \A c \in Call : call[c].pc = "idle" /\ call[c].read = NoClaim
    BY <1>4, IdleTyped
  <2>2. claim # NoClaim => claim.version = 1
    BY <1>1
  <2>3. CopyOf(view)
    BY <1>1, <2>2 DEF CopyOf
  <2> QED
    BY <2>1, <2>3 DEF ClaimInv, CopyOf, BlankMeansClaimed
<1> QED
  BY <1>3, <1>4, <1>6, <1>7, <1>8, <1>9 DEF IInv, DownIsIdle

(* Steps that change neither a request nor the claim. *)
LEMMA NoRequestIInv ==
    ASSUME IInv, RegInv', Remembers, CacheInv', UNCHANGED proxyVars
    PROVE  IInv'
<1>1. UNCHANGED <<up, call, claim, view, faults>>
  BY DEF proxyVars
<1>2. up' \in BOOLEAN
  BY <1>1, Zenon DEF IInv, TypeOK
<1>3. TypeOK'
  BY <1>1, <1>2 DEF IInv, TypeOK, RegInv
<1>4. \A d \in Call : CallInv(d)'
  BY <1>1, OtherCall DEF IInv
<1>5. DownIsIdle'
  BY <1>1 DEF IInv, DownIsIdle
<1>6. ClaimInv'
  BY <1>1 DEF IInv, ClaimInv, CopyOf, BlankMeansClaimed, Claimed
<1> QED
  BY <1>3, <1>4, <1>5, <1>6 DEF IInv

LEMMA AdvanceIInv == ASSUME IInv, Advance PROVE IInv'
<1>1. Tick /\ UNCHANGED proxyVars /\ up' = up
  BY DEF Advance, proxyVars
<1>2. RegInv' /\ Remembers
  BY <1>1, TickRegInv DEF IInv
<1>3. CacheInv'
  BY <1>1, CacheTick DEF IInv
<1> QED
  BY <1>1, <1>2, <1>3, NoRequestIInv

LEMMA SyncerAddIInv == ASSUME IInv, NEW l \in License, SyncerAdd(l) PROVE IInv'
<1>1. Add(l) /\ UNCHANGED proxyVars /\ up' = up /\ NotBefore[l] <= now
  BY DEF SyncerAdd, Valid, proxyVars
<1>2. RegInv' /\ Remembers
  BY <1>1, AddRegInv DEF IInv
<1>3. CacheInv'
  BY <1>1, CacheAdd DEF IInv
<1> QED
  BY <1>1, <1>2, <1>3, NoRequestIInv

LEMMA StutterIInv == ASSUME IInv, UNCHANGED vars PROVE IInv'
<1>1. UNCHANGED regVars /\ UNCHANGED proxyVars
  BY DEF vars
<1>2. RegInv' /\ Remembers
  BY <1>1, IdleRegInv DEF IInv
<1>3. CacheInv'
  BY <1>1, CacheIdle DEF IInv, regVars, proxyVars
<1> QED
  BY <1>1, <1>2, <1>3, NoRequestIInv

LEMMA SyncViewIInv == ASSUME IInv, SyncView PROVE IInv'
<1>1. UNCHANGED regVars /\ UNCHANGED <<up, call, claim, faults>> /\ view' = claim
  BY DEF SyncView
<1>2. up' \in BOOLEAN
  BY <1>1, Zenon DEF IInv, TypeOK
<1>3. RegInv' /\ Remembers
  BY <1>1, IdleRegInv DEF IInv
<1>4. CacheInv'
  BY <1>1, CacheIdle DEF IInv, regVars
<1>5. TypeOK'
  BY <1>1, <1>2, <1>3 DEF IInv, TypeOK, RegInv
<1>6. \A d \in Call : CallInv(d)'
  BY <1>1, <1>3, OtherCall DEF IInv
<1>7. DownIsIdle'
  BY <1>1 DEF IInv, DownIsIdle
<1>8. CopyOf(view)'
  <2>1. claim # NoClaim => claim.version \in Nat
    BY DEF IInv, TypeOK, ClaimState, Claim
  <2> QED
    BY <1>1, <2>1 DEF CopyOf
<1>9. ClaimInv'
  BY <1>1, <1>8 DEF IInv, ClaimInv, CopyOf, BlankMeansClaimed, Claimed
<1> QED
  BY <1>3, <1>4, <1>5, <1>6, <1>7, <1>9 DEF IInv

(* The informers' first list is the claim itself. *)
LEMMA StartIInv == ASSUME IInv, Start PROVE IInv'
<1>1. MountedFiles \in SUBSET License /\ StartFrom(MountedFiles)
  BY ProxyAssumption DEF Start, MountedFiles
<1>2. TypeOK' /\ RegInv' /\ up' = TRUE
  BY <1>1, StartFromKeeps DEF IInv
<1>3. CacheInv'
  BY <1>1, CacheStart DEF IInv
<1>4. view' = claim /\ UNCHANGED <<call, claim>> /\ ~up
  BY <1>1 DEF StartFrom
<1>5. \A c \in Call : call'[c] = Idle /\ call'[c].pc = "idle" /\ call'[c].read = NoClaim
  BY <1>4, IdleTyped DEF IInv, DownIsIdle
<1>6. \A c \in Call : CallInv(c)'
  BY <1>5, IdleCallNext
<1>7. DownIsIdle'
  BY <1>5 DEF DownIsIdle
<1>8. CopyOf(view)'
  <2>1. claim # NoClaim => claim.version \in Nat
    BY DEF IInv, TypeOK, ClaimState, Claim
  <2> QED
    BY <1>4, <2>1 DEF CopyOf
<1>9. ClaimInv'
  BY <1>5, <1>8 DEF ClaimInv, CopyOf, BlankMeansClaimed
<1> QED
  BY <1>2, <1>3, <1>6, <1>7, <1>9 DEF IInv

LEMMA CrashIInv == ASSUME IInv, Crash PROVE IInv'
<1>1. /\ TypeOK' /\ RegInv' /\ up' = FALSE
      /\ \A c \in Call : call'[c] = Idle
      /\ \A l \in License : cache'[l] = "good" => cache[l] = "good"
      /\ UNCHANGED <<now, claim, view>>
  BY CrashKeeps DEF IInv
<1>2. \A c \in Call : call'[c].pc = "idle" /\ call'[c].read = NoClaim
  BY <1>1, IdleTyped
<1>3. \A c \in Call : CallInv(c)'
  BY <1>1, IdleCallNext
<1>4. CacheInv'
  BY <1>1 DEF IInv, CacheInv, GoodHasBegun, CacheMirrorsStore
<1>5. ClaimInv'
  BY <1>1, <1>2 DEF IInv, ClaimInv, CopyOf, BlankMeansClaimed
<1> QED
  BY <1>1, <1>3, <1>4, <1>5 DEF IInv, DownIsIdle

LEMMA CrashInStartIInv == ASSUME IInv, CrashInStart PROVE IInv'
<1>1. MountedFiles \in SUBSET License /\ CrashLoading(MountedFiles) /\ ~up
  BY ProxyAssumption DEF CrashInStart, CrashLoading, MountedFiles
<1>2. /\ TypeOK' /\ RegInv'
      /\ UNCHANGED <<now, reg, store, rb, up, call, claim, view>>
      /\ \A l \in License : cache'[l] = "good" =>
            cache[l] = "good" \/ l \in Loadable(MountedFiles)
  BY <1>1, CrashLoadingKeeps DEF IInv
<1>3. \A c \in Call : call'[c] = Idle
  BY <1>1, <1>2 DEF IInv, DownIsIdle
<1>4. \A c \in Call : CallInv(c)'
  BY <1>3, IdleCallNext
<1>5. CacheInv'
  BY <1>1, <1>2
  DEF IInv, CacheInv, GoodHasBegun, CacheMirrorsStore, Loadable, Valid
<1>6. ClaimInv'
  BY <1>2 DEF IInv, ClaimInv, CopyOf, BlankMeansClaimed, Claimed
<1> QED
  BY <1>2, <1>3, <1>4, <1>5, <1>6 DEF IInv, DownIsIdle

(* A step of one request. *)
LEMMA RequestIInv ==
    ASSUME IInv, NEW c \in Call, up \/ call[c].pc # "idle", UNCHANGED <<up, view>>,
           RegInv', Remembers, CacheInv', ClaimInv', CallInv(c)',
           Others(c), call' \in [Call -> CallState], call'[c].i <= Len(Asked[c]) + 1,
           claim' \in ClaimState, faults' \in 0..MaxFaults
    PROVE  IInv'
<1>1. TypeOK'
  BY RequestTypeOK DEF IInv, RegInv
<1>2. \A d \in Call : CallInv(d)'
  BY OtherCalls DEF IInv
<1>3. DownIsIdle'
  BY StaysUp DEF IInv
<1> QED
  BY <1>1, <1>2, <1>3 DEF IInv

(* The part of it that is the same for a step that leaves the registry be. *)
LEMMA RegistryKept ==
    ASSUME IInv, UNCHANGED <<regVars, up>>
    PROVE  RegInv' /\ Remembers /\ CacheInv' /\ UNCHANGED <<now, store, rb, cache>>
<1>1. UNCHANGED regVars /\ UNCHANGED <<now, store, cache, up>>
  BY DEF regVars
<1>2. RegInv' /\ Remembers
  BY <1>1, IdleRegInv DEF IInv
<1>3. CacheInv'
  BY <1>1, CacheIdle DEF IInv
<1> QED
  BY <1>2, <1>3 DEF regVars

LEMMA Typed ==
    ASSUME IInv
    PROVE  /\ call \in [Call -> CallState] /\ claim \in ClaimState
           /\ faults \in 0..MaxFaults /\ view \in ClaimState
           /\ \A c \in Call : /\ call[c] \in CallState
                              /\ call[c].i \in Nat \ {0}
                              /\ call[c].i <= Len(Asked[c]) + 1
                              /\ call[c].atStart \subseteq License
  BY DEF IInv, TypeOK, CallState

LEMMA AtTyped == \A c \in Call, i \in Nat : At(c, i) \in PC
  BY DEF At, WithoutLicense, PC, Busy, Ended

(* At the first lookup a request knows nothing but what it found. *)
LEMMA BeginIInv == ASSUME IInv, NEW c \in Call, Begin(c) PROVE IInv'
<1>1. /\ up /\ UNCHANGED <<regVars, up>> /\ UNCHANGED <<up, claim, view, faults>>
      /\ call' = [call EXCEPT ![c] = [Idle EXCEPT !.pc = At(c, 1), !.atStart = store]]
  BY DEF Begin
<1>2. store \subseteq License
  BY DEF IInv, RegInv, MethodsTypeOK
<1> DEFINE r == [Idle EXCEPT !.pc = At(c, 1), !.atStart = store]
<1>3. /\ r.pc = At(c, 1) /\ r.i = 1 /\ r.lic = NoLicense /\ r.read = NoClaim
      /\ r.atStart = store
  BY DEF Idle
<1>4. r \in CallState
  <2>1. At(c, 1) \in PC /\ store \in SUBSET License
    BY <1>2, AtTyped
  <2> QED
    BY <2>1, IdleTyped DEF CallState, PC
<1> HIDE DEF r
<1>5. call'[c] = r /\ Others(c) /\ call' \in [Call -> CallState]
  BY <1>1, <1>4, Typed DEF r, Others
<1>6. RegInv' /\ Remembers /\ CacheInv' /\ UNCHANGED <<now, store, rb, cache>>
  BY <1>1, RegistryKept
<1>7. \/ At(c, 1) = "lookup" /\ 1 <= Len(Asked[c])
      \/ At(c, 1) \in {"acquire", "claim", "blank"} /\ ~(1 <= Len(Asked[c]))
  BY DEF At, WithoutLicense
<1>8. CallInv(c)'
  <2>1. HoldsLicense(c)' /\ HeldIsKnown(c)'
    BY <1>3, <1>5, <1>7 DEF HoldsLicense, HeldIsKnown
  <2>2. LookedUp(c)'
    BY <1>3, <1>5, <1>6 DEF LookedUp
  <2>3. LooksUpAll(c)'
    BY <1>3, <1>5, <1>7, LenTyped DEF LooksUpAll
  <2> QED
    BY <2>1, <2>2, <2>3 DEF CallInv
<1>9. ClaimInv'
  <2>1. call'[c].read = NoClaim /\ call'[c].pc # "update"
    BY <1>3, <1>5, <1>7
  <2>2. call'[c].pc = "blank" => ~IsSpoke \/ HasClient
    BY <1>3, <1>5 DEF At, WithoutLicense
  <2> QED
    BY <1>1, <1>5, <2>1, <2>2, ClaimKept DEF IInv
<1>10. call'[c].i <= Len(Asked[c]) + 1
  BY <1>3, <1>5, LenTyped
<1> QED
  BY <1>1, <1>5, <1>6, <1>8, <1>9, <1>10, RequestIInv, Typed

LEMMA BeginFailsIInv == ASSUME IInv, NEW c \in Call, BeginFails(c) PROVE IInv'
<1>1. /\ up /\ UNCHANGED <<regVars, up>> /\ UNCHANGED <<up, claim, view>> /\ Fault
      /\ call' = [call EXCEPT ![c] = [Idle EXCEPT !.pc = "failed"]]
  BY DEF BeginFails
<1> DEFINE r == [Idle EXCEPT !.pc = "failed"]
<1>2. r \in CallState /\ r.pc = "failed" /\ r.i = 1 /\ r.read = NoClaim /\ r.atStart = {}
  BY DEF Idle, CallState, ClaimState, Ended
<1> HIDE DEF r
<1>3. call'[c] = r /\ Others(c) /\ call' \in [Call -> CallState]
  BY <1>1, <1>2, Typed DEF r, Others
<1>4. RegInv' /\ Remembers /\ CacheInv'
  BY <1>1, RegistryKept
<1>5. CallInv(c)'
  BY <1>2, <1>3 DEF CallInv, HoldsLicense, HeldIsKnown, LookedUp, LooksUpAll
<1>6. ClaimInv'
  BY <1>1, <1>2, <1>3, ClaimKept DEF IInv
<1>7. call'[c].i <= Len(Asked[c]) + 1
  BY <1>2, <1>3, LenTyped
<1>8. faults' \in 0..MaxFaults
  BY <1>1, FaultTyped DEF IInv
<1> QED
  BY <1>1, <1>3, <1>4, <1>5, <1>6, <1>7, <1>8, RequestIInv, Typed

(* A request that has done its lookups moves on without a license: to the    *)
(* license server, the claim, an error or a blank answer.                    *)
LEMMA MovesOnIInv ==
    ASSUME IInv, NEW c \in Call, UNCHANGED <<regVars, up>>, UNCHANGED <<up, view>>,
           call[c].pc \in {"acquire", "add", "claim", "update", "create", "blank"},
           call'[c].pc \notin {"add", "record", "served", "lookup"},
           call'[c].i = call[c].i, call'[c].atStart = call[c].atStart,
           Others(c), call' \in [Call -> CallState],
           claim' \in ClaimState, faults' \in 0..MaxFaults, ClaimInv'
    PROVE  IInv'
<1>1. RegInv' /\ Remembers /\ CacheInv'
  BY RegistryKept
<1>2. CallInv(c)'
  BY <1>1, MovedCall DEF IInv
<1>3. call'[c].i <= Len(Asked[c]) + 1
  BY Typed
<1> QED
  BY <1>1, <1>2, <1>3, RequestIInv

(* A lookup drops dead licenses only, so what the request found at its start *)
(* and is still live is still there; when it returns none, none of them      *)
(* covers the feature.                                                       *)
LEMMA LookupIInv == ASSUME IInv, NEW c \in Call, Lookup(c) PROVE IInv'
<1>1. PICK l \in License \cup {NoLicense} :
         /\ LicenseForFeature(Asked[c][call[c].i], l)
         /\ call' = [call EXCEPT
              ![c].pc = IF l # NoLicense THEN "record" ELSE At(c, call[c].i + 1),
              ![c].i = IF l # NoLicense THEN @ ELSE @ + 1,
              ![c].lic = l]
  BY DEF Lookup
<1>2. call[c].pc = "lookup" /\ UNCHANGED <<up, claim, view, faults>>
  BY DEF Lookup
<1> DEFINE i == call[c].i
           f == Asked[c][i]
           n == IF l # NoLicense THEN i ELSE i + 1
           p == IF l # NoLicense THEN "record" ELSE At(c, i + 1)
<1>3. i \in Nat \ {0} /\ i <= Len(Asked[c]) /\ f \in Feature
  BY <1>2, Typed, LenTyped, ProxyAssumption DEF IInv, CallInv, LooksUpAll
<1>4. /\ RegInv' /\ Remembers /\ now' = now
      /\ l # NoLicense => /\ l \in License /\ l \in store'
                          /\ f \in FeaturesOf[l] /\ Live(l, now)
      /\ l = NoLicense => \A m \in store : f \in FeaturesOf[m] => ~Live(m, now)
  BY <1>1, <1>3, LicenseForFeatureRegInv DEF IInv
<1>5. CacheInv'
  BY <1>1, <1>2, <1>3, CacheLookup DEF IInv
<1>6. n \in Nat \ {0} /\ n <= Len(Asked[c]) + 1 /\ p \in PC
  BY <1>3, LenTyped, AtTyped DEF PC, Busy
<1>7. /\ call'[c].pc = p /\ call'[c].i = n /\ call'[c].lic = l
      /\ call'[c].read = call[c].read /\ call'[c].atStart = call[c].atStart
      /\ Others(c) /\ call' \in [Call -> CallState]
  <2>1. call' = [call EXCEPT ![c].pc = p, ![c].i = n, ![c].lic = l]
    BY <1>1
  <2> HIDE DEF p, n
  <2> DEFINE r == [call[c] EXCEPT !.pc = p, !.i = n, !.lic = l]
  <2>2. call[c] \in CallState /\ call \in [Call -> CallState]
    BY Typed
  <2>3. /\ r.pc = p /\ r.i = n /\ r.lic = l
        /\ r.read = call[c].read /\ r.atStart = call[c].atStart
    BY <2>2 DEF CallState
  <2>4. r \in CallState
    BY <1>6, <2>2 DEF CallState, PC
  <2>5. call' = [call EXCEPT ![c] = r]
    BY <2>1, <2>2
  <2> HIDE DEF r
  <2> QED
    BY <2>2, <2>3, <2>4, <2>5 DEF Others
<1>8. p = "record" \/ (p = "lookup" /\ n <= Len(Asked[c]))
      \/ (p \in {"acquire", "claim", "blank"} /\ ~(n <= Len(Asked[c])))
  BY DEF At, WithoutLicense
<1>9. HoldsLicense(c)' /\ HeldIsKnown(c)'
  BY <1>4, <1>7, <1>8 DEF HoldsLicense, HeldIsKnown, At, WithoutLicense
<1>10. LookedUp(c)'
  <2>1. /\ \A m \in call[c].atStart : m \in License
        /\ \A m \in call[c].atStart : Live(m, now) => m \in store
        /\ \A j \in 1..(i - 1) : \A m \in call[c].atStart :
              Asked[c][j] \in FeaturesOf[m] => ~Live(m, now)
    BY Typed DEF IInv, CallInv, LookedUp
  <2>2. \A m \in call[c].atStart : Live(m, now') => m \in store'
    BY <1>4, <2>1 DEF Remembers
  <2>3. ASSUME NEW j \in 1..(n - 1), NEW m \in call[c].atStart,
               Asked[c][j] \in FeaturesOf[m]
        PROVE  ~Live(m, now)
    <3>1. CASE j \in 1..(i - 1)
      BY <2>1, <2>3, <3>1
    <3>2. CASE j = i /\ l = NoLicense
      BY <1>4, <2>1, <2>3, <3>2
    <3>3. j \in 1..(i - 1) \/ (j = i /\ l = NoLicense)
      BY <1>3
    <3> QED
      BY <3>1, <3>2, <3>3
  <2> HIDE DEF n
  <2> QED
    BY <1>4, <1>7, <2>2, <2>3 DEF LookedUp
<1>11. LooksUpAll(c)'
  BY <1>6, <1>7, <1>8, LenTyped DEF LooksUpAll
<1>12. ClaimInv'
  <2>1. call'[c].pc # "update" /\ (call'[c].pc = "blank" => ~IsSpoke \/ HasClient)
    BY <1>7 DEF At, WithoutLicense
  <2> QED
    BY <1>2, <1>7, <2>1, ClaimKept DEF IInv
<1>13. call[c].pc # "idle" /\ call'[c].i <= Len(Asked[c]) + 1
  BY <1>2, <1>6, <1>7
<1>14. CallInv(c)'
  BY <1>9, <1>10, <1>11 DEF CallInv
<1> QED
  BY <1>2, <1>4, <1>5, <1>7, <1>12, <1>13, <1>14, RequestIInv, Typed

LEMMA AcquireIInv == ASSUME IInv, NEW c \in Call, Acquire(c) PROVE IInv'
<1>1. /\ call[c].pc = "acquire" /\ UNCHANGED <<regVars, up>>
      /\ UNCHANGED <<up, claim, view, faults>>
  BY DEF Acquire
<1>2. CASE Goto(c, "failed")
  <2>1. "failed" \in PC
    BY DEF PC, Ended
  <2>2. /\ call' \in [Call -> CallState] /\ Others(c) /\ call'[c].pc = "failed"
        /\ call'[c].i = call[c].i /\ call'[c].read = call[c].read
        /\ call'[c].atStart = call[c].atStart
    BY <1>2, <2>1, GotoFacts, Typed
  <2>3. ClaimInv'
    BY <1>1, <2>2, ClaimKept DEF IInv
  <2> QED
    BY <1>1, <2>2, <2>3, MovesOnIInv, Typed
<1>3. CASE \E l \in Issued : /\ Valid(l, now)
                             /\ call' = [call EXCEPT ![c].pc = "add", ![c].lic = l]
  <2>1. PICK l \in Issued : /\ Valid(l, now)
                            /\ call' = [call EXCEPT ![c].pc = "add", ![c].lic = l]
    BY <1>3
  <2>2. l \in License /\ NotBefore[l] <= now
    BY <2>1, ProxyAssumption DEF Valid
  <2>3. /\ call' \in [Call -> CallState] /\ Others(c) /\ call'[c].pc = "add"
        /\ call'[c].i = call[c].i /\ call'[c].read = call[c].read
        /\ call'[c].atStart = call[c].atStart /\ call'[c].lic = l
    BY <2>1, <2>2, Typed DEF CallState, Others, Busy
  <2>4. RegInv' /\ Remembers /\ CacheInv' /\ UNCHANGED <<now, store, rb, cache>>
    BY <1>1, RegistryKept
  <2>5. CallInv(c)'
    <3>1. HoldsLicense(c)' /\ HeldIsKnown(c)'
      BY <2>2, <2>3, <2>4 DEF HoldsLicense, HeldIsKnown
    <3>2. LookedUp(c)' /\ LooksUpAll(c)'
      BY <1>1, <2>3, <2>4 DEF IInv, CallInv, LookedUp, LooksUpAll
    <3> QED
      BY <3>1, <3>2 DEF CallInv
  <2>6. ClaimInv'
    BY <1>1, <2>3, ClaimKept DEF IInv
  <2>7. call[c].pc # "idle" /\ call'[c].i <= Len(Asked[c]) + 1
    BY <1>1, <2>3, Typed
  <2> QED
    BY <1>1, <2>3, <2>4, <2>5, <2>6, <2>7, RequestIInv, Typed
<1> QED
  BY <1>2, <1>3 DEF Acquire

LEMMA AddAcquiredIInv == ASSUME IInv, NEW c \in Call, AddAcquired(c) PROVE IInv'
<1>1. /\ call[c].pc = "add" /\ Add(call[c].lic) /\ Goto(c, "record")
      /\ UNCHANGED <<up, claim, view, faults>>
  BY DEF AddAcquired
<1>2. call[c].lic \in License /\ NotBefore[call[c].lic] <= now
  BY <1>1 DEF IInv, CallInv, HoldsLicense
<1>3. RegInv' /\ Remembers /\ call[c].lic \in store' /\ now' = now
  BY <1>1, <1>2, AddRegInv DEF IInv
<1>4. CacheInv'
  BY <1>1, <1>2, CacheAdd DEF IInv
<1>5. "record" \in PC
  BY DEF PC, Busy
<1>6. /\ call' \in [Call -> CallState] /\ Others(c) /\ call'[c].pc = "record"
      /\ call'[c].i = call[c].i /\ call'[c].read = call[c].read
      /\ call'[c].atStart = call[c].atStart /\ call'[c].lic = call[c].lic
  BY <1>1, <1>5, GotoFacts, Typed
<1>7. CallInv(c)'
  <2>1. HoldsLicense(c)' /\ HeldIsKnown(c)' /\ LooksUpAll(c)'
    BY <1>2, <1>3, <1>6 DEF HoldsLicense, HeldIsKnown, LooksUpAll
  <2>2. LookedUp(c)'
    BY <1>3, <1>6, Typed DEF IInv, CallInv, LookedUp, Remembers
  <2> QED
    BY <2>1, <2>2 DEF CallInv
<1>8. ClaimInv'
  BY <1>1, <1>6, ClaimKept DEF IInv
<1>9. call[c].pc # "idle" /\ call'[c].i <= Len(Asked[c]) + 1
  BY <1>1, <1>6, Typed
<1> QED
  BY <1>1, <1>3, <1>4, <1>6, <1>7, <1>8, <1>9, RequestIInv, Typed

LEMMA RecordUseIInv == ASSUME IInv, NEW c \in Call, RecordUse(c) PROVE IInv'
<1>1. /\ call[c].pc = "record" /\ Record(call[c].lic, c) /\ Goto(c, "served")
      /\ UNCHANGED <<up, claim, view, faults>>
  BY DEF RecordUse
<1>2. call[c].lic \in License /\ c \in Usage
  BY <1>1, ProxyAssumption DEF IInv, CallInv, HoldsLicense
<1>3. RegInv' /\ Remembers /\ rb'[call[c].lic] # NoUsage
  BY <1>1, <1>2, RecordRegInv DEF IInv
<1>4. UNCHANGED <<now, store, cache>>
  BY <1>1 DEF Record
<1>5. CacheInv'
  BY <1>1, <1>4, CacheIdle DEF IInv
<1>6. "served" \in PC
  BY DEF PC, Ended
<1>7. /\ call' \in [Call -> CallState] /\ Others(c) /\ call'[c].pc = "served"
      /\ call'[c].i = call[c].i /\ call'[c].read = call[c].read
      /\ call'[c].atStart = call[c].atStart /\ call'[c].lic = call[c].lic
  BY <1>1, <1>6, GotoFacts, Typed
<1>8. CallInv(c)'
  <2>1. HoldsLicense(c)' /\ LooksUpAll(c)'
    BY <1>2, <1>7 DEF HoldsLicense, LooksUpAll
  <2>2. HeldIsKnown(c)'
    BY <1>1, <1>3, <1>4, <1>7 DEF IInv, CallInv, HeldIsKnown
  <2>3. LookedUp(c)'
    BY <1>4, <1>7 DEF IInv, CallInv, LookedUp
  <2> QED
    BY <2>1, <2>2, <2>3 DEF CallInv
<1>9. ClaimInv'
  BY <1>1, <1>7, ClaimKept DEF IInv
<1>10. call[c].pc # "idle" /\ call'[c].i <= Len(Asked[c]) + 1
  BY <1>1, <1>7, Typed
<1> QED
  BY <1>1, <1>3, <1>5, <1>7, <1>8, <1>9, <1>10, RequestIInv, Typed

LEMMA ClaimAPIErrorIInv == ASSUME IInv, NEW c \in Call, ClaimAPIError(c) PROVE IInv'
<1>1. /\ call[c].pc \in {"claim", "update", "create"} /\ Fault /\ Goto(c, "failed")
      /\ UNCHANGED <<regVars, up>> /\ UNCHANGED <<up, claim, view>>
  BY DEF ClaimAPIError
<1>2. faults' \in 0..MaxFaults /\ "failed" \in PC
  BY <1>1, FaultTyped DEF IInv, PC, Ended
<1>3. /\ call' \in [Call -> CallState] /\ Others(c) /\ call'[c].pc = "failed"
      /\ call'[c].i = call[c].i /\ call'[c].read = call[c].read
      /\ call'[c].atStart = call[c].atStart
  BY <1>1, <1>2, GotoFacts, Typed
<1>4. ClaimInv'
  BY <1>1, <1>3, ClaimKept DEF IInv
<1> QED
  BY <1>1, <1>2, <1>3, <1>4, MovesOnIInv, Typed

(* Features the informer's copy has are in the claim itself: it only grows. *)
LEMMA ReadClaimIInv == ASSUME IInv, NEW c \in Call, ReadClaim(c) PROVE IInv'
<1> DEFINE p == CASE view = NoClaim -> "create"
                  [] view # NoClaim /\ AskedSet(c) \subseteq Split(view.value) -> "blank"
                  [] OTHER -> "update"
<1>1. /\ call[c].pc = "claim" /\ UNCHANGED <<regVars, up>>
      /\ UNCHANGED <<up, claim, view, faults>>
      /\ call' = [call EXCEPT ![c].read = view, ![c].pc = p]
  BY DEF ReadClaim
<1>2. /\ p \in {"create", "blank", "update"}
      /\ p = "blank" => view # NoClaim /\ AskedSet(c) \subseteq Split(view.value)
      /\ p = "update" => view # NoClaim
  <2>1. CASE view = NoClaim
    BY <2>1
  <2>2. CASE view # NoClaim /\ AskedSet(c) \subseteq Split(view.value)
    BY <2>2
  <2>3. CASE view # NoClaim /\ ~(AskedSet(c) \subseteq Split(view.value))
    BY <2>3
  <2> QED
    BY <2>1, <2>2, <2>3
<1> HIDE DEF p
<1>3. /\ call' \in [Call -> CallState] /\ Others(c) /\ call'[c].pc = p
      /\ call'[c].i = call[c].i /\ call'[c].read = view
      /\ call'[c].atStart = call[c].atStart
  BY <1>1, <1>2, Typed DEF CallState, Others, Busy, Ended
<1>4. p = "blank" => Claimed(c)
  BY <1>2 DEF IInv, ClaimInv, CopyOf, Claimed
<1>5. ClaimInv'
  BY <1>1, <1>2, <1>3, <1>4, ClaimKept DEF IInv
<1>6. call'[c].pc \notin {"add", "record", "served", "lookup"}
  BY <1>2, <1>3
<1> QED
  BY <1>1, <1>3, <1>5, <1>6, MovesOnIInv, Typed

(* A request writes the claim or is refused. *)
LEMMA WriteClaimIInv ==
    ASSUME IInv, NEW c \in Call, call[c].pc \in {"update", "create"},
           UNCHANGED <<regVars, up>>, UNCHANGED <<up, view, faults>>,
           \/ Goto(c, "failed") /\ claim' = claim
           \/ /\ Goto(c, "blank") /\ claim' \in Claim
              /\ claim # NoClaim => /\ claim'.version = claim.version + 1
                                    /\ Split(claim.value) \subseteq Split(claim'.value)
              /\ AskedSet(c) \subseteq Split(claim'.value)
    PROVE  IInv'
<1>1. "failed" \in PC /\ "blank" \in PC
  BY DEF PC, Ended
<1>2. CASE Goto(c, "failed") /\ claim' = claim
  <2>1. /\ call' \in [Call -> CallState] /\ Others(c) /\ call'[c].pc = "failed"
        /\ call'[c].i = call[c].i /\ call'[c].read = call[c].read
        /\ call'[c].atStart = call[c].atStart
    BY <1>1, <1>2, GotoFacts, Typed
  <2>2. ClaimInv'
    BY <1>2, <2>1, ClaimKept DEF IInv
  <2> QED
    BY <1>2, <2>1, <2>2, MovesOnIInv, Typed
<1>3. CASE /\ Goto(c, "blank") /\ claim' \in Claim
           /\ claim # NoClaim => /\ claim'.version = claim.version + 1
                                 /\ Split(claim.value) \subseteq Split(claim'.value)
           /\ AskedSet(c) \subseteq Split(claim'.value)
  <2>1. /\ call' \in [Call -> CallState] /\ Others(c) /\ call'[c].pc = "blank"
        /\ call'[c].i = call[c].i /\ call'[c].read = call[c].read
        /\ call'[c].atStart = call[c].atStart
    BY <1>1, <1>3, GotoFacts, Typed
  <2>2. ClaimInv'
    BY <1>3, <2>1, ClaimWritten DEF IInv
  <2>3. claim' \in ClaimState
    BY <1>3 DEF ClaimState
  <2> QED
    BY <2>1, <2>2, <2>3, MovesOnIInv, Typed
<1> QED
  BY <1>2, <1>3

LEMMA UpdateClaimIInv == ASSUME IInv, NEW c \in Call, UpdateClaim(c) PROVE IInv'
<1>1. /\ call[c].pc \in {"update", "create"}
      /\ UNCHANGED <<regVars, up>> /\ UNCHANGED <<up, view, faults>>
  BY DEF UpdateClaim
<1>2. CASE claim' # claim
  BY <1>1, <1>2, UpdateGrows, WriteClaimIInv DEF IInv
<1>3. CASE claim' = claim
  <2>1. CASE claim.version # call[c].read.version
    <3>1. Goto(c, "failed")
      BY <2>1 DEF UpdateClaim
    <3> QED
      BY <1>1, <1>3, <3>1, WriteClaimIInv
  <2>2. CASE claim.version = call[c].read.version
    <3>1. claim' = [value |-> Join(Split(call[c].read.value) \cup AskedSet(c)),
                    version |-> claim.version + 1]
      BY <2>2 DEF UpdateClaim
    <3>2. call[c].read # NoClaim /\ claim # NoClaim
      BY DEF IInv, ClaimInv, CopyOf, UpdateClaim
    <3>3. claim.version \in Nat
      BY <3>2, Typed DEF ClaimState, Claim
    <3>4. claim'.version = claim.version + 1
      BY <3>1
    <3> QED
      BY <1>3, <3>3, <3>4
  <2> QED
    BY <2>1, <2>2
<1> QED
  BY <1>2, <1>3

LEMMA CreateClaimIInv == ASSUME IInv, NEW c \in Call, CreateClaim(c) PROVE IInv'
<1>1. /\ call[c].pc \in {"update", "create"}
      /\ UNCHANGED <<regVars, up>> /\ UNCHANGED <<up, view, faults>>
  BY DEF CreateClaim
<1>2. CASE claim' # claim
  BY <1>1, <1>2, CreateMakes, WriteClaimIInv DEF IInv
<1>3. CASE claim' = claim
  <2>1. claim # NoClaim
    <3>1. SUFFICES ASSUME claim = NoClaim PROVE FALSE
      OBVIOUS
    <3>2. claim' = [value |-> Join(AskedSet(c)), version |-> 1]
      BY <3>1 DEF CreateClaim
    <3>3. /\ AskedSet(c) \subseteq ClaimFeature
          /\ Join(AskedSet(c)) \in SUBSET ClaimFeature
      BY AskedTyped, SplitJoin DEF ClaimFeature
    <3> QED
      BY <1>3, <3>1, <3>2, <3>3, ClaimAssumption DEF Claim
  <2>2. Goto(c, "failed")
    BY <2>1 DEF CreateClaim
  <2> QED
    BY <1>1, <1>3, <2>2, WriteClaimIInv
<1> QED
  BY <1>2, <1>3

LEMMA NextIInv == ASSUME IInv, [Next]_vars PROVE IInv'
<1>1. ASSUME NEW c \in Call, Handle(c) PROVE IInv'
  BY <1>1, LookupIInv, AcquireIInv, AddAcquiredIInv, RecordUseIInv, ReadClaimIInv,
     UpdateClaimIInv, CreateClaimIInv DEF Handle
<1> QED
  BY <1>1, AdvanceIInv, StartIInv, CrashIInv, CrashInStartIInv, SyncViewIInv,
     SyncerAddIInv, BeginIInv, BeginFailsIInv, ClaimAPIErrorIInv, StutterIInv DEF Next

-----------------------------------------------------------------------------
(* The inductive invariant holds of the proxy server for any clients,        *)
(* licenses, flags and faults.                                               *)
THEOREM Invariance == Spec => []IInv
<1>1. Init => IInv
  BY InitIInv
<1>2. IInv /\ [Next]_vars => IInv'
  BY NextIInv
<1> QED
  BY <1>1, <1>2, PTL DEF Spec

(* Type correctness of the proxy server: of its registry, its requests and   *)
(* the ClusterClaim, through crashes and restarts.                           *)
THEOREM TypeCorrect == Spec => []TypeOK
<1>1. IInv => TypeOK
  BY DEF IInv
<1> QED
  BY <1>1, Invariance, PTL

(* Add and LicenseForFeature, called by requests and the syncer in any       *)
(* order, and LoadDir after a crash leave each stored license in all its     *)
(* queues and in no other.                                                   *)
THEOREM QueuesMatchStore == Spec => []StoredIsQueued
<1>1. IInv => StoredIsQueued
  BY DEF IInv, RegInv
<1> QED
  BY <1>1, Invariance, PTL

(* getLicense goes to the license server or the hub only when the registry   *)
(* has had nothing live for the request since it came.                       *)
THEOREM AcquiresOnlyWhenNeeded == Spec => []NoNeedlessAcquire
<1>1. IInv => NoNeedlessAcquire
  <2> SUFFICES ASSUME IInv, NEW c \in Call,
                      call[c].pc \in {"acquire", "add", "claim", "update", "create", "blank"},
                      NEW l \in call[c].atStart, NEW f \in FeaturesOf[l] \cap AskedSet(c)
               PROVE  ~Live(l, now)
    BY DEF NoNeedlessAcquire
  <2>1. PICK j \in DOMAIN Asked[c] : f = Asked[c][j]
    BY DEF AskedSet
  <2>2. j \in 1..Len(Asked[c])
    BY ProxyAssumption
  <2>3. call[c].i > Len(Asked[c]) /\ call[c].i \in Nat /\ Len(Asked[c]) \in Nat
    BY Typed, LenTyped DEF IInv, CallInv, LooksUpAll
  <2>4. j \in 1..(call[c].i - 1)
    BY <2>2, <2>3
  <2> QED
    BY <2>1, <2>4 DEF IInv, CallInv, LookedUp
<1> QED
  BY <1>1, Invariance, PTL

(* The license a request carries without a lock from LicenseForFeature or    *)
(* Add to Record, and then returns, stays registered and, once returned, in  *)
(* the usage book for as long as it is live.                                 *)
THEOREM ServedStaysKnown == Spec => []ServedLiveIsKnown
<1>1. IInv => ServedLiveIsKnown
  BY DEF IInv, CallInv, HeldIsKnown, ServedLiveIsKnown
<1> QED
  BY <1>1, Invariance, PTL

(* With a cache directory on a disk whose writes do not fail, addToStore,    *)
(* removeFromStore and LoadDir keep the files in step with the store.        *)
THEOREM CacheFollowsStore ==
    Spec => [](UseCache /\ ~DiskMayFail => CacheMirrorsStore)
<1>1. IInv => (UseCache /\ ~DiskMayFail => CacheMirrorsStore)
  BY DEF IInv, CacheInv
<1> QED
  BY <1>1, Invariance, PTL

(* A blank answer of a spoke's getLicense means the ClusterClaim has the     *)
(* features, though it was read from an informer that lags.                  *)
THEOREM BlankIsClaimed == Spec => []BlankMeansClaimed
<1>1. IInv => BlankMeansClaimed
  BY DEF IInv, ClaimInv
<1> QED
  BY <1>1, Invariance, PTL

(* Optimistic concurrency is enough: no interleaving of the requests' reads  *)
(* and writes of the ClusterClaim takes a feature out of it.                 *)
THEOREM ClaimNeverShrinks == Spec => ClaimKeepsFeatures
<1> DEFINE Step == claim # NoClaim => /\ claim' # NoClaim
                                      /\ Split(claim.value) \ {""} \subseteq claim'.value
<1>1. ASSUME IInv, [Next]_vars, claim # NoClaim PROVE Step
  <2>1. CASE claim' = claim
    BY <2>1 DEF Split
  <2>2. CASE \E c \in Call : UpdateClaim(c) /\ claim' # claim
    <3>1. PICK c \in Call : UpdateClaim(c) /\ claim' # claim
      BY <2>2
    <3>2. claim' \in Claim /\ Split(claim.value) \ {""} \subseteq claim'.value
      BY <1>1, <3>1, UpdateGrows DEF IInv
    <3> QED
      BY <3>2, ClaimAssumption
  <2>3. claim' = claim \/ \E c \in Call : UpdateClaim(c)
    BY <1>1 DEF Next, Advance, Start, StartFrom, Crash, CrashInStart, CrashLoading,
       SyncView, SyncerAdd, Begin, BeginFails, ClaimAPIError, Handle, Lookup, Acquire,
       AddAcquired, RecordUse, ReadClaim, CreateClaim, proxyVars, vars
  <2> QED
    BY <2>1, <2>2, <2>3
<1>2. IInv /\ [Next]_vars => [Step]_vars
  BY <1>1
<1> QED
  BY <1>2, Invariance, PTL DEF Spec, ClaimKeepsFeatures
=============================================================================
