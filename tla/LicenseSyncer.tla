--------------------------- MODULE LicenseSyncer ----------------------------
(* A managed spoke's proxy server with its LicenseSyncer, which adds the     *)
(* licenses of the hub's secret to the registry and copies that secret into  *)
(* the one the pod mounts as its license directory.  The hub writes the same *)
(* spoke secret a second way: rendered into the addon's ManifestWork, whose  *)
(* change also replaces the pod.                                             *)
EXTENDS ProxyServer

CONSTANTS
    Plan,        \* plan names, the keys of the hub's secret
    PlanName,    \* License.PlanName
    NoSecret,    \* a secret that does not exist
    MaxVersion   \* bound on the writes of the hub's secret

ASSUME SyncerAssumption ==
    /\ IsACEManaged
    /\ PlanName \in [License -> Plan]
    /\ MaxVersion \in Nat

VARIABLES
    hubSecret,     \* the cluster's license secret on the hub
    seen,          \* the hub manager's informer copy of it
    due,           \* the secret is in the syncer's work queue
    sync,          \* the Reconcile in progress, or the last one
    spokeSecret,   \* the spoke's license secret: key -> license
    work,          \* the licenses in the addon's ManifestWork
    rolled         \* the licenses the running pod template was rendered with

spokeSyncVars == <<seen, due, sync, spokeSecret, work, rolled>>
syncVars == <<hubSecret, spokeSyncVars>>
allVars == <<vars, syncVars>>

Data == [Plan -> License \cup {NoLicense}]
NoData == [p \in Plan |-> NoLicense]
HubSecret == [data : Data, version : 1..MaxVersion]
HubSecretState == {NoSecret} \cup HubSecret

(* The syncer's keys are plan names; those of the chart have a prefix. *)
Key == {"", "r_"} \X Plan
SpokeSecret == [Key -> License \cup {NoLicense}]
SpokeSecretState == {NoSecret} \cup SpokeSecret

ASSUME SecretAssumption == NoSecret \notin HubSecret \cup SpokeSecret

Entries(secret) == IF secret = NoSecret THEN NoData ELSE secret.data
Plain(data) == [k \in Key |-> IF k[1] = "" THEN data[k[2]] ELSE NoLicense]

(* done: the round reached its end without error. *)
IdleSync == [pc |-> "idle", src |-> NoData, todo |-> {}, cur |-> NoSecret, done |-> FALSE]
SyncState == [pc : {"idle", "entries", "patch"}, src : Data, todo : SUBSET Plan,
              cur : SpokeSecretState, done : BOOLEAN]

SyncerTypeOK ==
    /\ TypeOK
    /\ hubSecret \in HubSecretState /\ seen \in HubSecretState
    /\ due \in BOOLEAN
    /\ sync \in SyncState
    /\ spokeSecret \in SpokeSecretState
    /\ work \in Data /\ rolled \in Data

(* The addon has just been installed, without licenses. *)
SyncInit == /\ Init
            /\ hubSecret = NoSecret
            /\ seen = NoSecret
            /\ due = FALSE
            /\ sync = IdleSync
            /\ spokeSecret = NoSecret
            /\ work = NoData
            /\ rolled = NoData

-----------------------------------------------------------------------------
(* The hub: its acquirer replaces the entry of a plan by a newer license. *)
HubWrites(l) ==
    /\ l \in Delivered
    /\ Valid(l, now)
    /\ Entries(hubSecret)[PlanName[l]] # l
    /\ LET v == IF hubSecret = NoSecret THEN 1 ELSE hubSecret.version + 1
       IN  /\ v <= MaxVersion
           /\ hubSecret' = [data |-> [Entries(hubSecret) EXCEPT ![PlanName[l]] = l],
                            version |-> v]
    /\ UNCHANGED <<vars, spokeSyncVars>>

(* The first rendering with licenses is kept. *)
MutRenderWork == /\ work = NoData /\ work # Entries(hubSecret)
                 /\ work' = Entries(hubSecret)
                 /\ UNCHANGED <<vars, hubSecret, seen, due, sync, spokeSecret, rolled>>

(* GetConfigValues: the secret's entries become values of the chart. *)
RenderWork == /\ work # Entries(hubSecret)
              /\ work' = Entries(hubSecret)
              /\ UNCHANGED <<vars, hubSecret, seen, due, sync, spokeSecret, rolled>>

(* The chart's keys of the secret. *)
Charted(data) == [k \in Key |-> IF k[1] = "r_" THEN data[k[2]] ELSE NoLicense]

(* The work agent makes the secret what the ManifestWork says, whole. *)
ApplyWork == /\ spokeSecret # Charted(work)
             /\ spokeSecret' = Charted(work)
             /\ UNCHANGED <<vars, hubSecret, seen, due, sync, work, rolled>>

-----------------------------------------------------------------------------
(* The spoke's process. *)

(* What a process that dies takes with it besides ProxyServer's state. *)
SyncerDies == /\ seen' = NoSecret
              /\ due' = FALSE
              /\ sync' = IdleSync

(* The pod template's checksum of the licenses has changed: a new pod, with  *)
(* a new cache directory, replaces the old one.                              *)
RollOut == /\ rolled # work
           /\ rolled' = work
           /\ Dies
           /\ SyncerDies
           /\ cache' = [l \in License |-> "none"]
           /\ UNCHANGED <<now, claim, view, faults, hubSecret, spokeSecret, work>>

SpokeCrash == /\ Crash
              /\ SyncerDies
              /\ UNCHANGED <<hubSecret, spokeSecret, work, rolled>>

(* The mounted secret's licenses are the files of the license directory. *)
SecretFiles ==
    IF spokeSecret = NoSecret THEN {}
    ELSE {spokeSecret[k] : k \in Key} \ {NoLicense}

SpokeStart == StartFrom(SecretFiles) /\ UNCHANGED syncVars

SpokeCrashInStart == CrashLoading(SecretFiles) /\ UNCHANGED syncVars

(* A request's lookup, which is all that requests do to the registry on a    *)
(* managed spoke; the rest of them is in ProxyServer.                        *)
SpokeLookup(f) == /\ up
                  /\ \E l \in License \cup {NoLicense} : LicenseForFeature(f, l)
                  /\ UNCHANGED <<proxyVars, syncVars>>

(* The informer's first list, or a watch event. *)
NoticeHub == /\ up
             /\ seen # hubSecret
             /\ seen' = hubSecret
             /\ due' = TRUE
             /\ UNCHANGED <<vars, hubSecret, sync, spokeSecret, work, rolled>>

-----------------------------------------------------------------------------
(* LicenseSyncer.Reconcile *)

SyncBegin == /\ up /\ due /\ sync.pc = "idle"
             /\ due' = FALSE
             /\ sync' = [IdleSync EXCEPT
                  !.pc = "entries", !.src = seen.data,
                  !.todo = {p \in Plan : seen.data[p] # NoLicense}]
             /\ UNCHANGED <<vars, hubSecret, seen, spokeSecret, work, rolled>>

(* The round stays failed. *)
MutSyncError == /\ sync' = [sync EXCEPT !.pc = "failed"]
                /\ due' = TRUE

(* An error ends the round and puts the secret back in the queue. *)
SyncError == /\ sync' = [sync EXCEPT !.pc = "idle"]
             /\ due' = TRUE

(* An entry that does not parse ends the round for good. *)
MutSyncEntry(p) ==
    /\ sync.pc = "entries" /\ p \in sync.todo
    /\ IF Valid(sync.src[p], now)
       THEN /\ IF LongEnough(sync.src[p]) THEN Add(sync.src[p]) ELSE UNCHANGED regVars
            /\ sync' = [sync EXCEPT !.todo = @ \ {p}]
            /\ UNCHANGED due
       ELSE /\ sync' = [sync EXCEPT !.pc = "idle"]
            /\ UNCHANGED <<due, regVars>>
    /\ UNCHANGED <<proxyVars, hubSecret, seen, spokeSecret, work, rolled>>

(* A license with exactly the required life left is not added. *)
MutAddLicense(l) ==
    IF NotAfter[l] - now > MinRemainingLife THEN Add(l) ELSE UNCHANGED regVars

(* addLicense of a license that parses. *)
addLicense(l) == IF LongEnough(l) THEN Add(l) ELSE UNCHANGED regVars

(* One turn of the loop over the entries, whose order differs from round to  *)
(* round.  One that does not parse, being expired, ends the round.           *)
SyncEntry(p) ==
    /\ sync.pc = "entries" /\ p \in sync.todo
    /\ IF Valid(sync.src[p], now)
       THEN /\ addLicense(sync.src[p])
            /\ sync' = [sync EXCEPT !.todo = @ \ {p}]
            /\ UNCHANGED due
       ELSE SyncError /\ UNCHANGED regVars
    /\ UNCHANGED <<proxyVars, hubSecret, seen, spokeSecret, work, rolled>>

EntriesDone == sync.pc = "entries" /\ sync.todo = {}

(* CreateOrPatch: the secret is read, not from an informer ... *)
SyncRead == /\ EntriesDone
            /\ sync' = [sync EXCEPT !.pc = "patch", !.cur = spokeSecret]
            /\ UNCHANGED <<vars, hubSecret, seen, due, spokeSecret, work, rolled>>

(* ... and a patch with the keys that change is applied to what it is by     *)
(* then.                                                                     *)
Patched(actual, cur, mod) ==
    [k \in Key |-> IF cur[k] = mod[k] THEN actual[k] ELSE mod[k]]

SyncPatch ==
    /\ sync.pc = "patch"
    /\ IF sync.cur = NoSecret /\ spokeSecret # NoSecret
       THEN SyncError /\ UNCHANGED spokeSecret
       ELSE /\ spokeSecret' = IF sync.cur = NoSecret THEN Plain(sync.src)
                              ELSE Patched(spokeSecret, sync.cur, Plain(sync.src))
            /\ sync' = [sync EXCEPT !.pc = "idle", !.done = TRUE]
            /\ UNCHANGED due
    /\ UNCHANGED <<vars, hubSecret, seen, work, rolled>>

(* A read or a write of the spoke's secret fails. *)
SyncFails == /\ EntriesDone \/ sync.pc = "patch"
             /\ Fault
             /\ SyncError
             /\ UNCHANGED <<regVars, up, call, claim, view, hubSecret, seen,
                            spokeSecret, work, rolled>>

Reconcile == SyncBegin \/ SyncRead \/ SyncPatch

-----------------------------------------------------------------------------
SpokeNext ==
    \/ SpokeStart \/ SpokeCrash \/ SpokeCrashInStart
    \/ RenderWork \/ ApplyWork \/ RollOut
    \/ NoticeHub \/ Reconcile \/ SyncFails
    \/ \E p \in Plan : SyncEntry(p)
    \/ \E f \in Feature : SpokeLookup(f)

SyncNext == \/ SpokeNext
            \/ Advance /\ UNCHANGED syncVars
            \/ \E l \in License : HubWrites(l)

(* Beyond the proxy server's: the addon manager resyncs, the work agent      *)
(* applies and the deployment controller rolls out; the syncer's worker runs *)
(* on and retries without end.  Go iterates over a map in random order, so   *)
(* an entry that is passed over in a round whose entries fail comes up in a  *)
(* later one: strong fairness for each entry.                                *)
SpokeFairness ==
    /\ WF_allVars(SpokeStart)
    /\ WF_allVars(RenderWork) /\ WF_allVars(ApplyWork) /\ WF_allVars(RollOut)
    /\ WF_allVars(NoticeHub) /\ WF_allVars(Reconcile)
    /\ WF_allVars(\E p \in Plan : SyncEntry(p))
    /\ \A p \in Plan : SF_allVars(SyncEntry(p))

SyncSpec == SyncInit /\ [][SyncNext]_allVars /\ SpokeFairness

-----------------------------------------------------------------------------
(* Once a round got past the entries, and until the process dies, every      *)
(* license it copied that is still live is in the registry, although the     *)
(* clock has moved on and requests have dropped licenses between the entries *)
(* and the copy and since.                                                   *)
CopiedIsKnown ==
    sync.pc = "patch" \/ sync.done =>
       \A p \in Plan : LET l == sync.src[p]
                       IN  l # NoLicense /\ Live(l, now) => l \in store

(* An expired entry ends every round before the copy is made; still each     *)
(* usable license of the hub's secret comes into the registry and is there   *)
(* again after each crash and each pod.                                      *)
RegistryFollowsHub ==
    <>[](up => \A p \in Plan : LET l == Entries(hubSecret)[p]
                               IN  l # NoLicense /\ Valid(l, now) /\ LongEnough(l)
                                      => l \in store)

(* Two writers of the spoke's secret, each with its own keys and its own     *)
(* delay, undo each other's writes; when the hub has settled every entry of  *)
(* its secret stays in the license directory, under one key or the other.    *)
MountFollowsHub ==
    <>[](\A p \in Plan : LET l == Entries(hubSecret)[p]
                         IN  l # NoLicense => l \in SecretFiles)
=============================================================================
