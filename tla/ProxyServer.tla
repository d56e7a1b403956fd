---------------------------- MODULE ProxyServer -----------------------------
(* The proxy server of one cluster: LicenseRequests handled concurrently,    *)
(* the registry and usage book they share, the license server (external)     *)
(* they fall back to, the ClusterClaim a spoke cluster asks its hub with,    *)
(* and a process that may die and load its licenses again from disk.         *)
EXTENDS RegistryMethods, Sequences

CONSTANTS
    Call,               \* clients, each with one LicenseRequest at a time
    Asked,              \* Asked[c]: the features c asks for, in order
    IsSpoke,            \* clustermeta.IsOpenClusterSpoke: a Klusterlet exists
    IsACEManaged,       \* clustermeta.IsACEManagedSpoke: and its claims too
    Flags,              \* the flags of `run` that are set
    Issued,             \* licenses the license server can answer with
    Delivered,          \* licenses the hub can deliver to this spoke
    Mounted,            \* license files in --license-dir
    MinRemainingLife,   \* life a license needs to be loaded or synced
    NoClaim,            \* the ClusterClaim does not exist
    MaxFaults           \* bound on crashes and failing API calls

ASSUME ProxyAssumption ==
    /\ Usage = Call
    /\ Asked \in [Call -> Seq(Feature)]
    /\ IsSpoke \in BOOLEAN /\ IsACEManaged \in BOOLEAN
    /\ IsACEManaged => IsSpoke
    /\ UseCache <=> "cache-dir" \in Flags
    /\ Issued \subseteq License
    /\ Delivered \subseteq License
    /\ Mounted \subseteq License
    /\ MaxFaults \in Nat
    \* New makes the registry with this ttl
    /\ TTL = MinRemainingLife

VARIABLES
    up,       \* the process serves requests
    call,     \* call[c]: the progress of c's request
    claim,    \* the ClusterClaim in the API server: its value and its version
    view,     \* the informer's copy of it, which reads go to
    faults    \* crashes and API failures so far

proxyVars == <<up, call, claim, view, faults>>
vars == <<regVars, proxyVars>>

ClaimFeature == Feature \cup {""}
Claim == [value : SUBSET ClaimFeature, version : Nat]
ClaimState == {NoClaim} \cup Claim

ASSUME ClaimAssumption == NoClaim \notin Claim

Busy == {"lookup", "acquire", "add", "record", "claim", "update", "create"}
Ended == {"served", "blank", "failed"}

Idle == [pc |-> "idle", i |-> 1, lic |-> NoLicense, read |-> NoClaim, atStart |-> {}]

AskedSet(c) == {Asked[c][i] : i \in DOMAIN Asked[c]}

CallState == [pc : Busy \cup Ended \cup {"idle"}, i : Nat \ {0},
              lic : License \cup {NoLicense}, read : ClaimState,
              atStart : SUBSET License]

TypeOK == /\ MethodsTypeOK
          /\ up \in BOOLEAN
          /\ call \in [Call -> CallState]
          /\ \A c \in Call : call[c].i <= Len(Asked[c]) + 1
          /\ claim \in ClaimState
          /\ view \in ClaimState
          /\ faults \in 0..MaxFaults

(* An installation starts with no claim, or with one that a request for no   *)
(* features has left empty.                                                  *)
Init == /\ now = 0
        /\ reg = EmptyReg
        /\ store = {}
        /\ rb = EmptyBook
        /\ cache = [l \in License |-> "none"]
        /\ up = FALSE
        /\ call = [c \in Call |-> Idle]
        /\ claim \in {NoClaim, [value |-> {}, version |-> 1]}
        /\ view = claim
        /\ faults = 0

Fault == faults < MaxFaults /\ faults' = faults + 1

Advance == Tick /\ UNCHANGED proxyVars

Goto(c, pc) == call' = [call EXCEPT ![c].pc = pc]

-----------------------------------------------------------------------------
(* Create and getLicense. *)

(* Storage.lc # nil. *)
HasClient == ~IsACEManaged /\ "baseURL" \in Flags

(* A spoke asks nobody. *)
MutWithoutLicense == IF HasClient THEN "acquire" ELSE "blank"

(* Where a request goes once no queue has a license for its features. *)
WithoutLicense == IF HasClient THEN "acquire"
                  ELSE IF IsSpoke THEN "claim" ELSE "blank"

At(c, i) == IF i <= Len(Asked[c]) THEN "lookup" ELSE WithoutLicense

(* A client asks, or asks again. *)
Begin(c) == /\ up
            /\ call[c].pc \in Ended \cup {"idle"}
            /\ call' = [call EXCEPT ![c] =
                  [Idle EXCEPT !.pc = At(c, 1), !.atStart = store]]
            /\ UNCHANGED <<regVars, up, claim, view, faults>>

(* Listing Klusterlets fails, which panics before any queue is looked at. *)
BeginFails(c) ==
    /\ up
    /\ call[c].pc \in Ended \cup {"idle"}
    /\ Fault
    /\ call' = [call EXCEPT ![c] = [Idle EXCEPT !.pc = "failed"]]
    /\ UNCHANGED <<regVars, up, claim, view>>

(* Only the first feature is looked up. *)
MutLookup(c) ==
    /\ call[c].pc = "lookup"
    /\ \E l \in License \cup {NoLicense} :
          /\ LicenseForFeature(Asked[c][call[c].i], l)
          /\ call' = [call EXCEPT
               ![c].pc = IF l # NoLicense THEN "record" ELSE WithoutLicense,
               ![c].lic = l]
    /\ UNCHANGED <<up, claim, view, faults>>

Lookup(c) ==
    /\ call[c].pc = "lookup"
    /\ \E l \in License \cup {NoLicense} :
          /\ LicenseForFeature(Asked[c][call[c].i], l)
          /\ call' = [call EXCEPT
               ![c].pc = IF l # NoLicense THEN "record" ELSE At(c, call[c].i + 1),
               ![c].i = IF l # NoLicense THEN @ ELSE @ + 1,
               ![c].lic = l]
    /\ UNCHANGED <<up, claim, view, faults>>

(* AcquireLicense over the network with no lock held, then ParseLicense.     *)
(* The answer is checked neither for the features nor for its remaining life.*)
Acquire(c) ==
    /\ call[c].pc = "acquire"
    /\ \/ \E l \in Issued :
             /\ Valid(l, now)
             /\ call' = [call EXCEPT ![c].pc = "add", ![c].lic = l]
       \/ Goto(c, "failed")
    /\ UNCHANGED <<regVars, up, claim, view, faults>>

(* A license just acquired is returned without recording its use. *)
MutAddAcquired(c) ==
    /\ call[c].pc = "add"
    /\ Add(call[c].lic)
    /\ Goto(c, "served")
    /\ UNCHANGED <<up, claim, view, faults>>

AddAcquired(c) ==
    /\ call[c].pc = "add"
    /\ Add(call[c].lic)
    /\ Goto(c, "record")
    /\ UNCHANGED <<up, claim, view, faults>>

(* The use is recorded, then the license returned. *)
RecordUse(c) ==
    /\ call[c].pc = "record"
    /\ Record(call[c].lic, c)
    /\ Goto(c, "served")
    /\ UNCHANGED <<up, claim, view, faults>>

-----------------------------------------------------------------------------
(* The ClusterClaim of a spoke.  Its value is a comma separated list, kept   *)
(* here as the set of its parts; strings.Split of an empty value has one     *)
(* part, the empty string.                                                   *)

Split(v) == IF v = {} THEN {""} ELSE v
Join(S) == IF S = {""} THEN {} ELSE S

ClaimAPIError(c) ==
    /\ call[c].pc \in {"claim", "update", "create"}
    /\ Fault
    /\ Goto(c, "failed")
    /\ UNCHANGED <<regVars, up, claim, view>>

ReadClaim(c) ==
    /\ call[c].pc = "claim"
    /\ call' = [call EXCEPT
         ![c].read = view,
         ![c].pc = CASE view = NoClaim -> "create"
                     [] view # NoClaim /\ AskedSet(c) \subseteq Split(view.value) -> "blank"
                     [] OTHER -> "update"]
    /\ UNCHANGED <<regVars, up, claim, view, faults>>

(* The update goes through whatever version was read. *)
MutUpdateClaim(c) ==
    /\ call[c].pc = "update"
    /\ claim' = [value |-> Join(Split(call[c].read.value) \cup AskedSet(c)),
                 version |-> claim.version + 1]
    /\ Goto(c, "blank")
    /\ UNCHANGED <<regVars, up, view, faults>>

(* The API server refuses the update of a version that is not the latest. *)
UpdateClaim(c) ==
    /\ call[c].pc = "update"
    /\ IF claim.version = call[c].read.version
       THEN /\ claim' = [value |-> Join(Split(call[c].read.value) \cup AskedSet(c)),
                         version |-> claim.version + 1]
            /\ Goto(c, "blank")
       ELSE /\ Goto(c, "failed")
            /\ UNCHANGED claim
    /\ UNCHANGED <<regVars, up, view, faults>>

(* A claim that exists already is taken as done. *)
MutCreateClaim(c) ==
    /\ call[c].pc = "create"
    /\ claim' = IF claim = NoClaim THEN [value |-> Join(AskedSet(c)), version |-> 1]
              ELSE claim
    /\ Goto(c, "blank")
    /\ UNCHANGED <<regVars, up, view, faults>>

CreateClaim(c) ==
    /\ call[c].pc = "create"
    /\ IF claim = NoClaim
       THEN /\ claim' = [value |-> Join(AskedSet(c)), version |-> 1]
            /\ Goto(c, "blank")
       ELSE /\ Goto(c, "failed")
            /\ UNCHANGED claim
    /\ UNCHANGED <<regVars, up, view, faults>>

(* The informer of the spoke manager catches up. *)
SyncView == /\ up
            /\ view # claim
            /\ view' = claim
            /\ UNCHANGED <<regVars, up, call, claim, faults>>

-----------------------------------------------------------------------------
(* Other sources of licenses. *)

LongEnough(l) == NotAfter[l] - now >= MinRemainingLife

(* LicenseSyncer.addLicense for one entry of the hub's secret. *)
SyncerAdd(l) == /\ up /\ IsACEManaged
                /\ l \in Delivered \ store
                /\ Valid(l, now) /\ LongEnough(l)
                /\ Add(l)
                /\ UNCHANGED proxyVars

(* The cache directory is not read. *)
MutLoadable(files) == {l \in files : Valid(l, now) /\ LongEnough(l)}

(* The files LoadDir adds, of the license directory's and of the cache; a    *)
(* file that does not parse is skipped.                                      *)
Loadable(files) ==
    {l \in files \cup {m \in License : UseCache /\ cache[m] = "good"} :
       Valid(l, now) /\ LongEnough(l)}

(* Each license is queued for one of its features only. *)
MutQueuesOf(S) ==
    [f \in Feature |-> [l \in License |->
       IF l \in S /\ f = (CHOOSE g \in FeaturesOf[l] : TRUE) THEN 1 ELSE 0]]

(* The queues after Add of each license of S to a fresh registry. *)
QueuesOf(S) ==
    [f \in Feature |-> [l \in License |->
       IF l \in S /\ f \in FeaturesOf[l] THEN 1 ELSE 0]]

(* New returns an error, which ends the process, when a flag is missing. *)
Configured == /\ HasClient => "token" \in Flags
              /\ IsACEManaged => {"cluster-name", "hub-kubeconfig", "license-dir"}
                                    \subseteq Flags

(* apiserver New with these license files: a fresh registry, LoadDir of the  *)
(* license directory and of the cache directory, each license added writing  *)
(* its cache file (again); the informers sync before requests are served.    *)
StartFrom(files) ==
    /\ ~up
    /\ Configured
    /\ up' = TRUE
    /\ store' = Loadable(files)
    /\ reg' = QueuesOf(Loadable(files))
    /\ WriteFiles(Loadable(files))
    /\ view' = claim
    /\ UNCHANGED <<now, rb, call, claim, faults>>

MountedFiles == IF "license-dir" \in Flags THEN Mounted ELSE {}

Start == StartFrom(MountedFiles)

(* Licenses some caller of Add may be writing the cache file of. *)
BeingAdded == {call[c].lic : c \in {d \in Call : call[d].pc = "add"}}
              \cup {l \in Delivered : IsACEManaged /\ Valid(l, now) /\ LongEnough(l)}

(* The process dies: its memory and its open requests are gone.  A cache     *)
(* file being written may be left torn, and when the whole pod goes the      *)
(* cache directory (an emptyDir volume) goes with it.                        *)
Dies == /\ up' = FALSE
        /\ store' = {}
        /\ reg' = EmptyReg
        /\ rb' = EmptyBook
        /\ call' = [c \in Call |-> Idle]

Crash == /\ up
         /\ Fault
         /\ Dies
         /\ \/ UNCHANGED cache
            \/ cache' = [l \in License |-> "none"]
            \/ \E l \in BeingAdded \ store :
                  UseCache /\ cache' = [cache EXCEPT ![l] = "torn"]
         /\ UNCHANGED <<now, claim, view>>

(* Dies while loading: the files loaded before l have been written again,    *)
(* those of the license directory first, and l's has just been truncated.    *)
CrashLoading(files) ==
    /\ ~up /\ Configured /\ UseCache
    /\ Fault
    /\ \E l \in Loadable(files), written \in SUBSET Loadable(files) :
          /\ l \notin files => Loadable(files) \cap files \subseteq written
          /\ cache' = [m \in License |-> CASE m = l -> "torn"
                                          [] m # l /\ m \in written -> "good"
                                          [] OTHER -> cache[m]]
    /\ UNCHANGED <<now, reg, store, rb, up, call, claim, view>>

CrashInStart == CrashLoading(MountedFiles)

Handle(c) == \/ Lookup(c) \/ Acquire(c) \/ AddAcquired(c) \/ RecordUse(c)
             \/ ReadClaim(c) \/ UpdateClaim(c) \/ CreateClaim(c)

Next == \/ Advance
        \/ Start \/ Crash \/ CrashInStart
        \/ SyncView
        \/ \E l \in License : SyncerAdd(l)
        \/ \E c \in Call : Begin(c) \/ BeginFails(c) \/ Handle(c) \/ ClaimAPIError(c)

(* The handlers run on, the process is restarted, the informer catches up,   *)
(* and clients without a license keep asking.                                *)
Fairness == /\ WF_vars(Start)
            /\ WF_vars(SyncView)
            /\ \A c \in Call : WF_vars(Handle(c)) /\ WF_vars(Begin(c))

Spec == Init /\ [][Next]_vars
FairSpec == Spec /\ Fairness

-----------------------------------------------------------------------------
(* A request goes to the license server, to the hub or home empty-handed     *)
(* only if each license for its features that the registry held when it came *)
(* is too short by now.  Other requests pop and add between its lookups.     *)
NoNeedlessAcquire ==
    \A c \in Call :
       call[c].pc \in {"acquire", "add", "claim", "update", "create", "blank"} =>
          \A l \in call[c].atStart :
             FeaturesOf[l] \cap AskedSet(c) # {} => ~Live(l, now)

(* A request holds its license with no lock between the lookup or the Add    *)
(* and the recording of its use, while others may drop the license.  As long *)
(* as a license that was returned is live, it is in the registry and its use *)
(* is in the book.                                                           *)
ServedLiveIsKnown ==
    \A c \in Call :
       /\ call[c].pc \in {"record", "served"}
       /\ Live(call[c].lic, now)
       => /\ call[c].lic \in store
          /\ call[c].pc = "served" => rb[call[c].lic] # NoUsage

(* While the process is up the cache directory holds exactly the licenses of *)
(* the store, as far as they are live: what is served survives a restart,    *)
(* and a restart brings back nothing else.  Crashes tear files, pods lose    *)
(* the directory, requests add and drop licenses.                            *)
CacheMirrorsStore ==
    up => \A l \in License : Live(l, now) => (l \in store <=> cache[l] = "good")

(* Requests read the claim from an informer that lags and write it later;    *)
(* whatever their order, no feature once claimed is dropped.                 *)
ClaimKeepsFeatures ==
    [][claim # NoClaim =>
         /\ claim' # NoClaim
         /\ Split(claim.value) \ {""} \subseteq claim'.value]_vars

(* The claim, split the way the hub splits it, has the features c asks for. *)
Claimed(c) == claim # NoClaim /\ AskedSet(c) \subseteq Split(claim.value)

(* A spoke's blank answer means that the hub has been asked for the features,*)
(* though the claim is read from an informer's copy and others write it.     *)
BlankMeansClaimed ==
    IsSpoke /\ ~HasClient =>
       \A c \in Call : call[c].pc = "blank" => Claimed(c)

(* Each client is served or has its features claimed, although conflicting   *)
(* updates fail and are only retried by the client asking again.             *)
AskIsAnswered ==
    \A c \in Call : <>(call[c].pc = "served" \/ Claimed(c))
=============================================================================
