------------------------- MODULE LicenseSyncerProofs ------------------------
(* For any licenses, plans and writes of the hub: the invariants of a        *)
(* managed spoke's process, its syncer and the pods that replace each other. *)
EXTENDS LicenseSyncer, ProxyServerProofs

(* A process that is down has no round. *)
DownHasNoRound == ~up => sync = IdleSync

(* What is in the queue or in a round has been seen, and what has been seen  *)
(* exists on the hub.                                                        *)
SeenExists ==
    /\ due => seen # NoSecret
    /\ sync.pc # "idle" => seen # NoSecret
    /\ seen # NoSecret => hubSecret # NoSecret

(* A secret that was read exists: neither writer deletes the spoke's secret. *)
ReadExists == sync.cur # NoSecret => spokeSecret # NoSecret

Known(p) == sync.src[p] # NoLicense /\ Live(sync.src[p], now) => sync.src[p] \in store

(* The entries a round is through with are known, as far as they are live,   *)
(* and those ahead of it are licenses.                                       *)
EntriesKnown ==
    sync.pc = "entries" => /\ \A p \in Plan \ sync.todo : Known(p)
                           /\ \A p \in sync.todo : sync.src[p] # NoLicense

SyncIInv == /\ SyncerTypeOK
            /\ RegInv
            /\ CacheInv
            /\ DownHasNoRound
            /\ SeenExists
            /\ ReadExists
            /\ EntriesKnown
            /\ CopiedIsKnown

-----------------------------------------------------------------------------
(* Types. *)

LEMMA DataTyped ==
    /\ NoData \in Data
    /\ \A s \in HubSecretState : Entries(s) \in Data
    /\ \A d \in Data : Plain(d) \in SpokeSecret /\ Charted(d) \in SpokeSecret
<1>1. NoData \in Data
  BY DEF NoData, Data
<1>2. \A s \in HubSecretState : Entries(s) \in Data
  BY <1>1 DEF Entries, HubSecretState, HubSecret
<1>3. \A k \in Key : k[2] \in Plan
  BY DEF Key
<1>4. \A d \in Data : Plain(d) \in SpokeSecret /\ Charted(d) \in SpokeSecret
  BY <1>3 DEF Plain, Charted, SpokeSecret, Data
<1> QED
  BY <1>1, <1>2, <1>4

LEMMA IdleSyncFacts ==
    /\ IdleSync \in SyncState /\ IdleSync.pc = "idle" /\ IdleSync.src = NoData
    /\ IdleSync.cur = NoSecret /\ ~IdleSync.done
<1>1. IdleSync \in SyncState
  BY DataTyped, Zenon DEF IdleSync, SyncState, SpokeSecretState
<1>2. IdleSync.pc = "idle" /\ IdleSync.src = NoData /\ IdleSync.cur = NoSecret
  BY DEF IdleSync
<1>3. ~IdleSync.done
  BY Zenon DEF IdleSync
<1> QED
  BY <1>1, <1>2, <1>3

LEMMA SyncTyped ==
    ASSUME SyncIInv
    PROVE  /\ TypeOK /\ sync \in SyncState /\ hubSecret \in HubSecretState
           /\ seen \in HubSecretState /\ spokeSecret \in SpokeSecretState
           /\ work \in Data /\ rolled \in Data
           /\ sync.src \in Data /\ sync.todo \subseteq Plan
           /\ \A p \in Plan : sync.src[p] \in License \cup {NoLicense}
  BY DEF SyncIInv, SyncerTypeOK, SyncState, Data

(* The process goes on or stops; TypeOK' is the proxy server's part. *)
LEMMA KeepsTyped ==
    ASSUME TypeOK', hubSecret' \in HubSecretState, seen' \in HubSecretState,
           due' \in BOOLEAN, sync' \in SyncState, spokeSecret' \in SpokeSecretState,
           work' \in Data, rolled' \in Data
    PROVE  SyncerTypeOK'
  BY DEF SyncerTypeOK

(* No round goes on, and the registry forgets nothing that is live. *)
LEMMA SyncKept ==
    ASSUME SyncIInv, TypeOK', RegInv', CacheInv', Remembers, up' = up,
           UNCHANGED <<seen, due, sync>>, hubSecret' \in HubSecretState,
           hubSecret # NoSecret => hubSecret' # NoSecret,
           spokeSecret' \in SpokeSecretState,
           spokeSecret # NoSecret => spokeSecret' # NoSecret,
           work' \in Data, rolled' \in Data
    PROVE  SyncIInv'
<1>1. due' \in BOOLEAN
  BY Zenon DEF SyncIInv, SyncerTypeOK
<1>2. SyncerTypeOK'
  BY <1>1, KeepsTyped, SyncTyped
<1>3. DownHasNoRound' /\ SeenExists' /\ ReadExists'
  BY DEF SyncIInv, DownHasNoRound, SeenExists, ReadExists
<1>4. \A p \in Plan : Known(p) => Known(p)'
  BY SyncTyped, DeadStaysDead DEF Known, Remembers
<1>5. EntriesKnown'
  BY <1>4 DEF SyncIInv, EntriesKnown
<1>6. CopiedIsKnown'
  BY <1>4 DEF SyncIInv, CopiedIsKnown, Known
<1> QED
  BY <1>2, <1>3, <1>5, <1>6 DEF SyncIInv

(* A process that dies takes its round with it. *)
LEMMA SyncDies ==
    ASSUME SyncIInv, TypeOK', RegInv', CacheInv', SyncerDies,
           UNCHANGED <<hubSecret, spokeSecret, work>>, rolled' \in Data
    PROVE  SyncIInv'
<1>1. seen' = NoSecret /\ sync' = IdleSync
  BY DEF SyncerDies
<1>2. ~due' /\ due' \in BOOLEAN
  BY Zenon DEF SyncerDies
<1>3. /\ sync' \in SyncState /\ sync'.pc = "idle" /\ sync'.cur = NoSecret
      /\ ~sync'.done
  BY <1>1, IdleSyncFacts
<1>4. SyncerTypeOK'
  BY <1>1, <1>2, <1>3, KeepsTyped, SyncTyped DEF HubSecretState
<1>5. DownHasNoRound' /\ SeenExists' /\ ReadExists' /\ EntriesKnown' /\ CopiedIsKnown'
  BY <1>1, <1>2, <1>3
  DEF DownHasNoRound, SeenExists, ReadExists, EntriesKnown, CopiedIsKnown
<1> QED
  BY <1>4, <1>5 DEF SyncIInv

-----------------------------------------------------------------------------
(* The inductive invariant, one step after another. *)

LEMMA SyncInitIInv == ASSUME SyncInit PROVE SyncIInv
<1>1. IInv
  BY InitIInv DEF SyncInit
<1>2. /\ hubSecret = NoSecret /\ seen = NoSecret /\ sync = IdleSync
      /\ spokeSecret = NoSecret /\ work = NoData /\ rolled = NoData
  BY DEF SyncInit
<1>3. ~due /\ due \in BOOLEAN
  BY Zenon DEF SyncInit
<1>4. sync \in SyncState /\ sync.pc = "idle" /\ sync.cur = NoSecret /\ ~sync.done
  BY <1>2, IdleSyncFacts
<1>5. SyncerTypeOK
  BY <1>1, <1>2, <1>3, <1>4, DataTyped
  DEF IInv, SyncerTypeOK, HubSecretState, SpokeSecretState
<1>6. DownHasNoRound /\ SeenExists /\ ReadExists /\ EntriesKnown /\ CopiedIsKnown
  BY <1>2, <1>3, <1>4
  DEF DownHasNoRound, SeenExists, ReadExists, EntriesKnown, CopiedIsKnown
<1> QED
  BY <1>1, <1>5, <1>6 DEF IInv, SyncIInv

(* The proxy server as a whole stays as it is. *)
LEMMA VarsKept ==
    ASSUME SyncIInv, UNCHANGED vars
    PROVE  TypeOK' /\ RegInv' /\ CacheInv' /\ Remembers /\ up' = up
           /\ UNCHANGED <<now, store>>
<1>1. UNCHANGED regVars /\ UNCHANGED <<up, call, claim, view, faults>>
  BY DEF vars, proxyVars
<1>2. RegInv' /\ Remembers
  BY <1>1, IdleRegInv DEF SyncIInv
<1>3. CacheInv'
  BY <1>1, CacheIdle DEF SyncIInv, regVars
<1>4. up' \in BOOLEAN
  BY <1>1, SyncTyped, Zenon DEF TypeOK
<1>5. TypeOK'
  BY <1>1, <1>2, <1>4, SyncTyped DEF TypeOK, RegInv
<1> QED
  BY <1>1, <1>2, <1>3, <1>5 DEF regVars

(* Only the registry changes. *)
LEMMA RegistryStep ==
    ASSUME SyncIInv, RegInv', UNCHANGED proxyVars PROVE TypeOK' /\ up' = up
<1>1. UNCHANGED <<up, call, claim, view, faults>>
  BY DEF proxyVars
<1>2. up' \in BOOLEAN
  BY <1>1, SyncTyped, Zenon DEF TypeOK
<1> QED
  BY <1>1, <1>2, SyncTyped DEF TypeOK, RegInv

LEMMA HubWritesIInv == ASSUME SyncIInv, NEW l \in License, HubWrites(l) PROVE SyncIInv'
<1> DEFINE v == IF hubSecret = NoSecret THEN 1 ELSE hubSecret.version + 1
           d == [Entries(hubSecret) EXCEPT ![PlanName[l]] = l]
<1>1. /\ v <= MaxVersion /\ hubSecret' = [data |-> d, version |-> v]
      /\ UNCHANGED vars
      /\ UNCHANGED <<seen, due, sync, spokeSecret, work, rolled>>
  BY DEF HubWrites, spokeSyncVars
<1>2. d \in Data
  BY DataTyped, SyncTyped, SyncerAssumption DEF Data
<1>3. v \in 1..MaxVersion
  BY <1>1, SyncTyped, SyncerAssumption DEF HubSecretState, HubSecret
<1> HIDE DEF d, v
<1>4. hubSecret' \in HubSecret
  BY <1>1, <1>2, <1>3 DEF HubSecret
<1>5. hubSecret' \in HubSecretState /\ hubSecret' # NoSecret
  BY <1>4, SecretAssumption DEF HubSecretState
<1> QED
  BY <1>1, <1>5, VarsKept, SyncKept, SyncTyped

LEMMA OutsideStepsIInv ==
    ASSUME SyncIInv, RenderWork \/ ApplyWork \/ UNCHANGED allVars PROVE SyncIInv'
<1>1. /\ UNCHANGED vars /\ UNCHANGED <<hubSecret, seen, due, sync, rolled>>
      /\ spokeSecret' \in {spokeSecret, Charted(work)}
      /\ work' \in {work, Entries(hubSecret)}
  BY DEF RenderWork, ApplyWork, allVars, syncVars, spokeSyncVars
<1>2. work' \in Data /\ Charted(work) \in SpokeSecret
  BY <1>1, SyncTyped, DataTyped
<1>3. /\ spokeSecret' \in SpokeSecretState
      /\ spokeSecret # NoSecret => spokeSecret' # NoSecret
  BY <1>1, <1>2, SyncTyped, SecretAssumption DEF SpokeSecretState
<1> QED
  BY <1>1, <1>2, <1>3, VarsKept, SyncKept, SyncTyped

LEMMA SyncAdvanceIInv == ASSUME SyncIInv, Advance, UNCHANGED syncVars PROVE SyncIInv'
<1>1. /\ Tick /\ UNCHANGED proxyVars
      /\ UNCHANGED <<hubSecret, seen, due, sync, spokeSecret, work, rolled>>
  BY DEF Advance, syncVars, spokeSyncVars
<1>2. RegInv' /\ Remembers
  BY <1>1, TickRegInv DEF SyncIInv
<1>3. TypeOK' /\ up' = up
  BY <1>1, <1>2, RegistryStep
<1>4. CacheInv'
  BY <1>1, <1>3, CacheTick DEF SyncIInv
<1> QED
  BY <1>1, <1>2, <1>3, <1>4, SyncKept, SyncTyped

LEMMA SpokeLookupIInv ==
    ASSUME SyncIInv, NEW f \in Feature, SpokeLookup(f) PROVE SyncIInv'
<1>1. /\ UNCHANGED proxyVars
      /\ UNCHANGED <<hubSecret, seen, due, sync, spokeSecret, work, rolled>>
  BY DEF SpokeLookup, syncVars, spokeSyncVars
<1>2. PICK l \in License \cup {NoLicense} : LicenseForFeature(f, l)
  BY DEF SpokeLookup
<1>3. RegInv' /\ Remembers
  BY <1>2, LicenseForFeatureRegInv DEF SyncIInv
<1>4. TypeOK' /\ up' = up
  BY <1>1, <1>3, RegistryStep
<1>5. CacheInv'
  BY <1>2, <1>4, CacheLookup DEF SyncIInv
<1> QED
  BY <1>1, <1>3, <1>4, <1>5, SyncKept, SyncTyped

LEMMA FilesTyped == ASSUME SyncIInv PROVE SecretFiles \in SUBSET License
  BY SyncTyped DEF SecretFiles, SpokeSecretState, SpokeSecret

(* A new process loads the mounted secret and the cache; no round is open. *)
LEMMA SpokeStartIInv == ASSUME SyncIInv, SpokeStart PROVE SyncIInv'
<1>1. /\ StartFrom(SecretFiles) /\ ~up
      /\ UNCHANGED <<hubSecret, seen, due, sync, spokeSecret, work, rolled>>
  BY DEF SpokeStart, StartFrom, syncVars, spokeSyncVars
<1>2. TypeOK' /\ RegInv' /\ up' = TRUE /\ CacheInv'
  BY <1>1, StartFromKeeps, CacheStart, FilesTyped, SyncTyped DEF SyncIInv
<1>3. sync = IdleSync /\ sync'.pc = "idle" /\ ~sync'.done
  BY <1>1, IdleSyncFacts DEF SyncIInv, DownHasNoRound
<1>4. due' \in BOOLEAN
  BY <1>1, Zenon DEF SyncIInv, SyncerTypeOK
<1>5. SyncerTypeOK'
  BY <1>1, <1>2, <1>4, KeepsTyped, SyncTyped
<1>6. DownHasNoRound' /\ SeenExists' /\ ReadExists' /\ EntriesKnown' /\ CopiedIsKnown'
  BY <1>1, <1>2, <1>3
  DEF SyncIInv, DownHasNoRound, SeenExists, ReadExists, EntriesKnown, CopiedIsKnown
<1> QED
  BY <1>2, <1>5, <1>6 DEF SyncIInv

LEMMA SpokeCrashIInv == ASSUME SyncIInv, SpokeCrash PROVE SyncIInv'
<1>1. Crash /\ SyncerDies /\ UNCHANGED <<hubSecret, spokeSecret, work, rolled>>
  BY DEF SpokeCrash
<1>2. /\ TypeOK' /\ RegInv' /\ up' = FALSE /\ now' = now
      /\ \A l \in License : cache'[l] = "good" => cache[l] = "good"
  BY <1>1, CrashKeeps, SyncTyped
<1>3. CacheInv'
  BY <1>2 DEF SyncIInv, CacheInv, GoodHasBegun, CacheMirrorsStore
<1> QED
  BY <1>1, <1>2, <1>3, SyncDies, SyncTyped

LEMMA RollOutIInv == ASSUME SyncIInv, RollOut PROVE SyncIInv'
<1>1. /\ Dies /\ SyncerDies /\ rolled' = work /\ cache' = [l \in License |-> "none"]
      /\ UNCHANGED <<now, claim, view, faults, hubSecret, spokeSecret, work>>
  BY DEF RollOut
<1>2. cache' \in [License -> FileState] /\ faults' \in 0..MaxFaults
  BY <1>1, SyncTyped DEF FileState, TypeOK
<1>3. TypeOK' /\ RegInv' /\ up' = FALSE
  BY <1>1, <1>2, DiesKeeps, SyncTyped
<1>4. CacheInv'
  BY <1>1, <1>3 DEF CacheInv, GoodHasBegun, CacheMirrorsStore
<1> QED
  BY <1>1, <1>3, <1>4, SyncDies, SyncTyped

LEMMA SpokeCrashInStartIInv == ASSUME SyncIInv, SpokeCrashInStart PROVE SyncIInv'
<1>1. /\ CrashLoading(SecretFiles) /\ ~up
      /\ UNCHANGED <<hubSecret, seen, due, sync, spokeSecret, work, rolled>>
  BY DEF SpokeCrashInStart, CrashLoading, syncVars, spokeSyncVars
<1>2. /\ TypeOK' /\ RegInv' /\ UNCHANGED <<now, reg, store, rb, up>>
      /\ \A l \in License : cache'[l] = "good" =>
            cache[l] = "good" \/ l \in Loadable(SecretFiles)
  BY <1>1, CrashLoadingKeeps, FilesTyped, SyncTyped DEF SyncIInv
<1>3. CacheInv'
  BY <1>1, <1>2
  DEF SyncIInv, CacheInv, GoodHasBegun, CacheMirrorsStore, Loadable, Valid
<1>4. Remembers
  BY <1>2, SyncTyped DEF Remembers, TypeOK, MethodsTypeOK
<1> QED
  BY <1>1, <1>2, <1>3, <1>4, SyncKept, SyncTyped

(* A step of the syncer itself, of a process that is up. *)
LEMMA SyncerStep ==
    ASSUME SyncIInv, up, up' = up, TypeOK', RegInv', CacheInv',
           UNCHANGED <<hubSecret, work, rolled>>,
           seen' \in {seen, hubSecret}, due' \in BOOLEAN, sync' \in SyncState,
           spokeSecret' \in SpokeSecretState,
           SeenExists', ReadExists', EntriesKnown', CopiedIsKnown'
    PROVE  SyncIInv'
<1>1. SyncerTypeOK'
  BY KeepsTyped, SyncTyped
<1>2. DownHasNoRound'
  BY DEF DownHasNoRound
<1> QED
  BY <1>1, <1>2 DEF SyncIInv

LEMMA NoticeHubIInv == ASSUME SyncIInv, NoticeHub PROVE SyncIInv'
<1>1. /\ up /\ seen # hubSecret /\ seen' = hubSecret /\ UNCHANGED vars
      /\ UNCHANGED <<hubSecret, sync, spokeSecret, work, rolled>>
  BY DEF NoticeHub
<1>2. due' \in BOOLEAN
  BY Zenon DEF NoticeHub
<1>3. TypeOK' /\ RegInv' /\ CacheInv' /\ up' = up /\ UNCHANGED <<now, store>>
  BY <1>1, VarsKept
<1>4. SeenExists' /\ ReadExists'
  BY <1>1 DEF SyncIInv, SeenExists, ReadExists
<1>5. EntriesKnown' /\ CopiedIsKnown'
  BY <1>1, <1>3 DEF SyncIInv, EntriesKnown, CopiedIsKnown, Known
<1> QED
  BY <1>1, <1>2, <1>3, <1>4, <1>5, SyncerStep, SyncTyped

LEMMA SyncBeginIInv == ASSUME SyncIInv, SyncBegin PROVE SyncIInv'
<1> DEFINE T == {p \in Plan : seen.data[p] # NoLicense}
<1>1. /\ up /\ due /\ UNCHANGED vars
      /\ UNCHANGED <<hubSecret, seen, spokeSecret, work, rolled>>
      /\ sync' = [IdleSync EXCEPT !.pc = "entries", !.src = seen.data, !.todo = T]
  BY DEF SyncBegin
<1>2. due' \in BOOLEAN /\ ~due'
  BY Zenon DEF SyncBegin
<1>3. TypeOK' /\ RegInv' /\ CacheInv' /\ up' = up
  BY <1>1, VarsKept
<1>4. seen # NoSecret
  BY <1>1 DEF SyncIInv, SeenExists
<1>5. seen.data \in Data /\ T \in SUBSET Plan
  BY <1>4, SyncTyped DEF HubSecretState, HubSecret
<1>6. T = {p \in Plan : seen.data[p] # NoLicense}
  OBVIOUS
<1> HIDE DEF T
<1>7. /\ sync'.pc = "entries" /\ sync'.src = seen.data /\ sync'.todo = T
      /\ sync'.cur = NoSecret
  BY <1>1 DEF IdleSync
<1>8. ~sync'.done
  BY <1>1, Zenon DEF IdleSync
<1>9. sync' \in SyncState
  BY <1>1, <1>5, IdleSyncFacts DEF SyncState
<1>10. SeenExists' /\ ReadExists' /\ EntriesKnown'
  BY <1>1, <1>2, <1>4, <1>6, <1>7
  DEF SyncIInv, SeenExists, ReadExists, EntriesKnown, Known
<1>11. CopiedIsKnown'
  BY <1>7, <1>8 DEF CopiedIsKnown
<1> QED
  BY <1>1, <1>2, <1>3, <1>9, <1>10, <1>11, SyncerStep, SyncTyped

(* A round that ends with an error. *)
LEMMA SyncErrorIInv ==
    ASSUME SyncIInv, up, up' = up, sync.pc # "idle", SyncError,
           TypeOK', UNCHANGED regVars,
           UNCHANGED <<hubSecret, seen, spokeSecret, work, rolled>>
    PROVE  SyncIInv'
<1>1. sync' = [sync EXCEPT !.pc = "idle"] /\ sync \in SyncState
  BY SyncTyped DEF SyncError
<1>2. due' \in BOOLEAN
  BY Zenon DEF SyncError
<1>3. sync'.pc = "idle" /\ sync'.src = sync.src /\ sync'.cur = sync.cur
  BY <1>1 DEF SyncState
<1>4. sync'.done = sync.done
  BY <1>1, Zenon DEF SyncState
<1>5. sync' \in SyncState
  BY <1>1 DEF SyncState
<1>6. RegInv' /\ UNCHANGED <<now, store, cache>>
  BY IdleRegInv DEF SyncIInv, regVars
<1>7. CacheInv'
  BY <1>6, CacheIdle DEF SyncIInv
<1>8. SeenExists' /\ ReadExists' /\ EntriesKnown'
  BY <1>3 DEF SyncIInv, SeenExists, ReadExists, EntriesKnown
<1>9. CopiedIsKnown'
  BY <1>3, <1>4, <1>6 DEF SyncIInv, CopiedIsKnown
<1> QED
  BY <1>2, <1>5, <1>6, <1>7, <1>8, <1>9, SyncerStep, SyncTyped

LEMMA RoundIsUp == ASSUME SyncIInv, sync.pc # "idle" PROVE up
  BY IdleSyncFacts DEF SyncIInv, DownHasNoRound

(* addLicense asks for the life that makes a license live, so an entry is    *)
(* known afterwards or was too short.                                        *)
LEMMA SyncEntryIInv == ASSUME SyncIInv, NEW p \in Plan, SyncEntry(p) PROVE SyncIInv'
<1>1. /\ sync.pc = "entries" /\ p \in sync.todo /\ UNCHANGED proxyVars
      /\ UNCHANGED <<hubSecret, seen, spokeSecret, work, rolled>>
  BY DEF SyncEntry
<1>2. up /\ sync \in SyncState
  BY <1>1, RoundIsUp, SyncTyped
<1> DEFINE l == sync.src[p]
<1>3. l \in License
  BY <1>1, SyncTyped DEF SyncIInv, EntriesKnown
<1> HIDE DEF l
<1>4. CASE ~Valid(l, now)
  <2>1. SyncError /\ UNCHANGED regVars
    BY <1>4 DEF SyncEntry, l
  <2>2. RegInv'
    BY <2>1, IdleRegInv DEF SyncIInv
  <2>3. TypeOK' /\ up' = up
    BY <1>1, <2>2, RegistryStep
  <2> QED
    BY <1>1, <1>2, <2>1, <2>3, SyncErrorIInv
<1>5. CASE Valid(l, now)
  <2>1. /\ IF LongEnough(l) THEN Add(l) ELSE UNCHANGED regVars
        /\ sync' = [sync EXCEPT !.todo = @ \ {p}]
        /\ due' = due
    BY <1>5 DEF SyncEntry, addLicense, l
  <2>2. /\ sync'.pc = "entries" /\ sync'.src = sync.src /\ sync'.todo = sync.todo \ {p}
        /\ sync'.cur = sync.cur
    BY <1>1, <1>2, <2>1 DEF SyncState
  <2>3. sync'.done = sync.done
    BY <1>2, <2>1, Zenon DEF SyncState
  <2>4. sync' \in SyncState
    BY <1>2, <2>1 DEF SyncState
  <2>5. due' \in BOOLEAN
    BY <2>1, Zenon DEF SyncIInv, SyncerTypeOK
  <2>6. /\ RegInv' /\ Remembers /\ now' = now
        /\ Live(l, now') => l \in store'
    <3>1. CASE LongEnough(l)
      BY <1>3, <2>1, <3>1, AddRegInv DEF SyncIInv
    <3>2. CASE ~LongEnough(l)
      <4>1. UNCHANGED regVars /\ now' = now /\ ~Live(l, now)
        BY <2>1, <3>2, ProxyAssumption DEF LongEnough, Live, regVars
      <4> QED
        BY <4>1, IdleRegInv DEF SyncIInv
    <3> QED
      BY <3>1, <3>2
  <2>7. TypeOK' /\ up' = up
    BY <1>1, <2>6, RegistryStep
  <2>8. CacheInv'
    <3>1. CASE LongEnough(l)
      BY <1>3, <1>5, <2>1, <2>7, <3>1, CacheAdd DEF SyncIInv, Valid
    <3>2. CASE ~LongEnough(l)
      BY <2>1, <2>7, <3>2, CacheIdle DEF SyncIInv, regVars
    <3> QED
      BY <3>1, <3>2
  <2>9. \A q \in Plan : (q = p \/ Known(q)) => Known(q)'
    BY <2>2, <2>6, SyncTyped, DeadStaysDead DEF Known, Remembers, l
  <2>10. EntriesKnown'
    BY <1>1, <2>2, <2>9 DEF SyncIInv, EntriesKnown
  <2>11. CopiedIsKnown'
    BY <1>1, <2>2, <2>3, <2>9 DEF SyncIInv, CopiedIsKnown, Known
  <2>12. SeenExists' /\ ReadExists'
    BY <1>1, <2>1, <2>2 DEF SyncIInv, SeenExists, ReadExists
  <2> QED
    BY <1>1, <1>2, <2>4, <2>5, <2>6, <2>7, <2>8, <2>10, <2>11, <2>12, SyncerStep, SyncTyped
<1> QED
  BY <1>4, <1>5

(* With no entry left, all are known, and stay so until the process dies. *)
LEMMA SyncReadIInv == ASSUME SyncIInv, SyncRead PROVE SyncIInv'
<1>1. /\ sync.pc = "entries" /\ sync.todo = {} /\ UNCHANGED vars
      /\ sync' = [sync EXCEPT !.pc = "patch", !.cur = spokeSecret]
      /\ UNCHANGED <<hubSecret, seen, due, spokeSecret, work, rolled>>
  BY DEF SyncRead, EntriesDone
<1>2. up /\ sync \in SyncState
  BY <1>1, RoundIsUp, SyncTyped
<1>3. TypeOK' /\ RegInv' /\ CacheInv' /\ up' = up /\ UNCHANGED <<now, store>>
  BY <1>1, VarsKept
<1>4. sync'.pc = "patch" /\ sync'.src = sync.src /\ sync'.cur = spokeSecret
  BY <1>1, <1>2 DEF SyncState
<1>5. sync' \in SyncState
  BY <1>1, <1>2, SyncTyped DEF SyncState
<1>6. due' \in BOOLEAN
  BY <1>1, Zenon DEF SyncIInv, SyncerTypeOK
<1>7. SeenExists' /\ ReadExists' /\ EntriesKnown'
  BY <1>1, <1>4 DEF SyncIInv, SeenExists, ReadExists, EntriesKnown
<1>8. CopiedIsKnown'
  BY <1>1, <1>3, <1>4 DEF SyncIInv, CopiedIsKnown, EntriesKnown, Known
<1> QED
  BY <1>1, <1>2, <1>3, <1>5, <1>6, <1>7, <1>8, SyncerStep, SyncTyped

LEMMA SyncPatchIInv == ASSUME SyncIInv, SyncPatch PROVE SyncIInv'
<1>1. /\ sync.pc = "patch" /\ UNCHANGED vars
      /\ UNCHANGED <<hubSecret, seen, work, rolled>>
  BY DEF SyncPatch
<1>2. up /\ sync \in SyncState
  BY <1>1, RoundIsUp, SyncTyped
<1>3. TypeOK' /\ RegInv' /\ CacheInv' /\ up' = up /\ UNCHANGED <<now, store>>
  BY <1>1, VarsKept
<1>4. CASE sync.cur = NoSecret /\ spokeSecret # NoSecret
  <2>1. SyncError /\ spokeSecret' = spokeSecret /\ UNCHANGED regVars
    BY <1>1, <1>4 DEF SyncPatch, vars
  <2> QED
    BY <1>1, <1>2, <1>3, <2>1, SyncErrorIInv
<1>5. CASE ~(sync.cur = NoSecret /\ spokeSecret # NoSecret)
  <2>1. /\ spokeSecret' = IF sync.cur = NoSecret THEN Plain(sync.src)
                          ELSE Patched(spokeSecret, sync.cur, Plain(sync.src))
        /\ sync' = [sync EXCEPT !.pc = "idle", !.done = TRUE]
        /\ due' = due
    BY <1>5 DEF SyncPatch
  <2>2. sync'.pc = "idle" /\ sync'.src = sync.src
    BY <1>2, <2>1 DEF SyncState
  <2>3. sync' \in SyncState
    BY <1>2, <2>1, Zenon DEF SyncState
  <2>4. due' \in BOOLEAN
    BY <2>1, Zenon DEF SyncIInv, SyncerTypeOK
  <2>5. spokeSecret' \in SpokeSecret
    <3>1. Plain(sync.src) \in SpokeSecret
      BY SyncTyped, DataTyped
    <3>2. sync.cur # NoSecret => spokeSecret \in SpokeSecret
      BY SyncTyped DEF SyncIInv, ReadExists, SpokeSecretState
    <3> QED
      BY <2>1, <3>1, <3>2 DEF Patched, SpokeSecret
  <2>6. SeenExists' /\ ReadExists' /\ EntriesKnown'
    BY <1>1, <2>1, <2>2, <2>5, SecretAssumption
    DEF SyncIInv, SeenExists, ReadExists, EntriesKnown
  <2>7. spokeSecret' \in SpokeSecretState
    BY <2>5 DEF SpokeSecretState
  <2>8. CopiedIsKnown'
    BY <1>1, <1>3, <2>2 DEF SyncIInv, CopiedIsKnown
  <2> QED
    BY <1>1, <1>2, <1>3, <2>3, <2>4, <2>6, <2>7, <2>8, SyncerStep, SyncTyped
<1> QED
  BY <1>4, <1>5

LEMMA SyncFailsIInv == ASSUME SyncIInv, SyncFails PROVE SyncIInv'
<1>1. /\ sync.pc # "idle" /\ Fault /\ SyncError
      /\ UNCHANGED <<regVars, up, call, claim, view, hubSecret, seen, spokeSecret,
                     work, rolled>>
  BY DEF SyncFails, EntriesDone
<1>2. up
  BY <1>1, RoundIsUp
<1>3. faults' \in 0..MaxFaults
  BY <1>1, FaultTyped, SyncTyped
<1>4. up' = up /\ up' \in BOOLEAN
  BY <1>1, SyncTyped, Zenon DEF TypeOK
<1>5. RegInv'
  BY <1>1, IdleRegInv DEF SyncIInv
<1>6. TypeOK'
  BY <1>1, <1>3, <1>4, <1>5, SyncTyped DEF TypeOK, RegInv
<1> QED
  BY <1>1, <1>2, <1>4, <1>6, SyncErrorIInv

LEMMA SyncNextIInv == ASSUME SyncIInv, [SyncNext]_allVars PROVE SyncIInv'
<1>1. ASSUME SpokeNext PROVE SyncIInv'
  BY <1>1, SpokeStartIInv, SpokeCrashIInv, SpokeCrashInStartIInv, OutsideStepsIInv,
     RollOutIInv, NoticeHubIInv, SyncBeginIInv, SyncReadIInv, SyncPatchIInv,
     SyncFailsIInv, SyncEntryIInv, SpokeLookupIInv DEF SpokeNext, Reconcile
<1> QED
  BY <1>1, SyncAdvanceIInv, HubWritesIInv, OutsideStepsIInv DEF SyncNext

-----------------------------------------------------------------------------
(* The inductive invariant holds of a managed spoke for any licenses, any    *)
(* writes of the hub and any crashes and roll-outs.                          *)
THEOREM SyncInvariance == SyncSpec => []SyncIInv
<1>1. SyncInit => SyncIInv
  BY SyncInitIInv
<1>2. SyncIInv /\ [SyncNext]_allVars => SyncIInv'
  BY SyncNextIInv
<1> QED
  BY <1>1, <1>2, PTL DEF SyncSpec

(* Type correctness of the spoke: the proxy server's state, both secrets and *)
(* the round of LicenseSyncer.Reconcile.                                     *)
THEOREM SyncTypeCorrect == SyncSpec => []SyncerTypeOK
<1>1. SyncIInv => SyncerTypeOK
  BY DEF SyncIInv
<1> QED
  BY <1>1, SyncInvariance, PTL

(* Once LicenseSyncer.Reconcile is past its loop, what it copies into the    *)
(* spoke's secret is in the registry as long as it is live, whatever order   *)
(* the entries came in and whatever requests dropped in between.             *)
THEOREM CopiedStaysKnown == SyncSpec => []CopiedIsKnown
<1>1. SyncIInv => CopiedIsKnown
  BY DEF SyncIInv
<1> QED
  BY <1>1, SyncInvariance, PTL

(* What ProxyServer shows of the queues and of the cache directory holds of  *)
(* a spoke with its syncer too: addLicense, a start from the mounted secret  *)
(* and a new pod's empty cache directory keep both in step with the store.   *)
THEOREM SpokeStoreConsistent ==
    SyncSpec => [](StoredIsQueued /\ (UseCache /\ ~DiskMayFail => CacheMirrorsStore))
<1>1. SyncIInv => StoredIsQueued /\ (UseCache /\ ~DiskMayFail => CacheMirrorsStore)
  BY DEF SyncIInv, RegInv, CacheInv
<1> QED
  BY <1>1, SyncInvariance, PTL
=============================================================================
