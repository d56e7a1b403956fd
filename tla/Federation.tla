----------------------------- MODULE Federation -----------------------------
(* Hub and spoke together: a client's request to the spoke's proxy server    *)
(* becomes a ClusterClaim, the claim reaches the hub in the ManagedCluster's *)
(* status, the LicenseAcquirer puts licenses into the cluster's secret, and  *)
(* the LicenseSyncer adds them to the registry requests are answered from.   *)
(* The syncer is taken whole here, as what LicenseSyncer shows of it: each   *)
(* usable entry of the hub's secret comes into the registry.                 *)
EXTENDS ProxyServer

CONSTANTS
    HubTTL,      \* MinRemainingLife + LicenseAcquisitionBuffer
    Plan,        \* plan names
    PlanName,    \* License.PlanName
    Place,       \* where the sorted claim has a feature
    NoSecret,    \* the license secret does not exist
    NoTimer,     \* no delayed requeue is pending
    MaxVersion   \* bound on the writes of the secret

(* The hub takes the empty part of an empty claim for a feature. *)
ASSUME FederationAssumption ==
    /\ IsACEManaged
    /\ HubTTL \in Nat /\ HubTTL >= MinRemainingLife
    /\ "" \in Feature
    /\ PlanName \in [License -> Plan]
    /\ Place \in [Feature -> Nat]

VARIABLES
    hubReg, hubStore,                      \* the hub's registry for the cluster
    wanted, hubSecret, hubView, queued, timer, round  \* as in LicenseAcquirer

hubVars == <<hubReg, hubStore, wanted, hubSecret, hubView, queued, timer, round>>
fedVars == <<vars, hubVars>>

(* The hub's registry has no usage book, and nobody reads its cache files.   *)
Hub == INSTANCE LicenseAcquirer WITH
           reg <- hubReg, store <- hubStore, view <- hubView, secret <- hubSecret,
           TTL <- HubTTL, Claimable <- Feature, UseCache <- FALSE, Usage <- {},
           rb <- [l \in License |-> NoUsage], cache <- [l \in License |-> "none"]

FedInit == Init /\ Hub!Init

(* The klusterlet reports the claim in the ManagedCluster's status. *)
ReportClaim ==
    /\ claim # NoClaim
    /\ wanted # Split(claim.value)
    /\ wanted' = Split(claim.value)
    /\ queued' = TRUE
    /\ UNCHANGED <<vars, hubReg, hubStore, hubSecret, hubView, timer, round>>

(* The LicenseSyncer adds an entry of the hub's secret. *)
Deliver(l) == /\ hubSecret # NoSecret
              /\ l = hubSecret.data[PlanName[l]]
              /\ SyncerAdd(l)
              /\ UNCHANGED hubVars

SpokeStart == Start /\ UNCHANGED hubVars
SpokeSyncView == SyncView /\ UNCHANGED hubVars
Ask(c) == Begin(c) /\ UNCHANGED hubVars
Answer(c) == Handle(c) /\ UNCHANGED hubVars
SpokeFault == /\ \/ Crash \/ CrashInStart
                 \/ \E c \in Call : BeginFails(c) \/ ClaimAPIError(c)
              /\ UNCHANGED hubVars

SpokeUnchanged == UNCHANGED <<reg, store, rb, cache, up, call, claim, view>>

HubReconcile == Hub!Reconcile /\ SpokeUnchanged /\ UNCHANGED faults
HubWakes == (Hub!Resync \/ Hub!TimerFires) /\ SpokeUnchanged
HubSyncView == Hub!SyncView /\ SpokeUnchanged
HubFault == /\ Hub!WriteFails \/ Hub!Restart \/ \E f \in Feature : Hub!AcquireFails(f)
            /\ SpokeUnchanged

FedNext == \/ Advance /\ UNCHANGED hubVars
           \/ SpokeStart \/ SpokeSyncView \/ SpokeFault
           \/ \E c \in Call : Ask(c) \/ Answer(c)
           \/ \E l \in License : Deliver(l)
           \/ ReportClaim
           \/ HubReconcile \/ HubWakes \/ HubSyncView \/ HubFault

(* Each side's scheduling, a klusterlet that keeps reporting, a syncer that  *)
(* keeps delivering (RegistryFollowsHub of LicenseSyncer).                   *)
FedFairness ==
    /\ WF_fedVars(SpokeStart) /\ WF_fedVars(SpokeSyncView)
    /\ \A c \in Call : WF_fedVars(Ask(c)) /\ WF_fedVars(Answer(c))
    /\ \A l \in License : WF_fedVars(Deliver(l))
    /\ WF_fedVars(ReportClaim)
    /\ WF_fedVars(HubReconcile) /\ WF_fedVars(HubWakes) /\ WF_fedVars(HubSyncView)

FedSpec == FedInit /\ [][FedNext]_fedVars /\ FedFairness

-----------------------------------------------------------------------------
(* There is a license for each feature c asks for, every license the server  *)
(* can come to answer with for it would be accepted by the spoke, and the    *)
(* hub can write it into the secret without another one taking its place.    *)
Obtainable(c) ==
    \A f \in AskedSet(c) : /\ Hub!Offered(f) # {}
                           /\ \A l \in Hub!Offered(f) : LongEnough(l)
                           /\ ~Hub!Contested(f) /\ ~Hub!Blocked

(* A client of a spoke that has no licenses keeps being answered with one in *)
(* the end: its first, blank, answers lead to a claim, the claim to a        *)
(* license on the hub, and that back to the registry, whatever was lost to   *)
(* crashes, conflicts and expiries on the way, on either side.               *)
EndToEnd ==
    \A c \in Call : <>[]Obtainable(c) => []<>(call[c].pc = "served")
=============================================================================
