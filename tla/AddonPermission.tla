-------------------------- MODULE AddonPermission ---------------------------
(* The permission of one cluster's agent to read its license secret on the   *)
(* hub: SetupPermission, called by the addon framework's registration        *)
(* controller (external) on every sync of the ManagedClusterAddOn, just      *)
(* before that controller fills in the addon's registrations.  Around it:    *)
(* the agent, which declares its driver in those registrations, the two      *)
(* informers the addon is read from, and garbage collection of the role and  *)
(* the binding, which the addon owns.  Each installation comes with an agent *)
(* of its own, so copies of different installations may say different things.*)
EXTENDS Naturals

CONSTANTS
    NoAddon,     \* the ManagedClusterAddOn does not exist
    MaxUID,      \* bound on the times the addon is created
    MaxFaults    \* bound on failing API calls and restarts

VARIABLES
    agentDriver,   \* how the agent of each installation authenticates
    addon,         \* its uid, its owner, its registrations, the driver
    uids,          \* uids given out
    listed,        \* the framework's informer copy of it
    cached,        \* the copy of the manager's client
    role,          \* the uid of the role's owner, 0 without a role
    binding,       \* the uid of the binding's owner, and its subject
    queued,        \* the addon is in the controller's queue
    sync,          \* the sync in progress
    faults

vars == <<agentDriver, addon, uids, listed, cached, role, binding, queued, sync, faults>>

UID == 1..MaxUID
Driver == {"csr", "token"}
(* owned: it has its owner reference; regs: registrations are filled in. *)
Addon == [uid : UID, owned : BOOLEAN, regs : BOOLEAN, driver : Driver \cup {""}]

ASSUME PermissionAssumption ==
    /\ MaxUID \in Nat \ {0} /\ MaxFaults \in Nat
    /\ NoAddon \notin Addon

AddonState == {NoAddon} \cup Addon
Subject == {"", "User", "ServiceAccount"}
BindingState == [owner : 0..MaxUID, subject : Subject]
SyncState == [pc : {"idle", "get", "role", "binding", "status"},
              base : AddonState, subject : Subject]

NoBinding == [owner |-> 0, subject |-> ""]
IdleSync == [pc |-> "idle", base |-> NoAddon, subject |-> ""]

TypeOK == /\ agentDriver \in [UID -> Driver]
          /\ addon \in AddonState /\ listed \in AddonState /\ cached \in AddonState
          /\ uids \in 0..MaxUID
          /\ role \in 0..MaxUID
          /\ binding \in BindingState
          /\ queued \in BOOLEAN
          /\ sync \in SyncState
          /\ faults \in 0..MaxFaults

Init == /\ agentDriver \in [UID -> Driver]
        /\ addon = NoAddon
        /\ uids = 0
        /\ listed = NoAddon
        /\ cached = NoAddon
        /\ role = 0
        /\ binding = NoBinding
        /\ queued = FALSE
        /\ sync = IdleSync
        /\ faults = 0

-----------------------------------------------------------------------------
(* The hub's API server and the agent. *)

Install == /\ addon = NoAddon /\ uids < MaxUID
           /\ uids' = uids + 1
           /\ addon' = [uid |-> uids + 1, owned |-> FALSE, regs |-> FALSE, driver |-> ""]
           /\ UNCHANGED <<agentDriver, listed, cached, role, binding, queued, sync, faults>>

Uninstall == /\ addon # NoAddon /\ uids < MaxUID
             /\ addon' = NoAddon
             /\ UNCHANGED <<agentDriver, uids, listed, cached, role, binding, queued,
                            sync, faults>>

(* The addon manager makes the ClusterManagementAddOn its owner. *)
SetOwner == /\ addon # NoAddon /\ ~addon.owned
            /\ addon' = [addon EXCEPT !.owned = TRUE]
            /\ UNCHANGED <<agentDriver, uids, listed, cached, role, binding, queued,
                           sync, faults>>

(* The agent declares its driver, with or without registrations: a field of  *)
(* the status that is converted to one of each registration.                 *)
DeclareDriver == /\ addon # NoAddon /\ addon.driver = ""
                 /\ addon' = [addon EXCEPT !.driver = agentDriver[addon.uid]]
                 /\ UNCHANGED <<agentDriver, uids, listed, cached, role, binding,
                                queued, sync, faults>>

Owner == IF addon = NoAddon THEN 0 ELSE addon.uid
Gone(uid) == uid \notin {0, Owner}

CollectRole == /\ Gone(role)
               /\ role' = 0
               /\ UNCHANGED <<agentDriver, addon, uids, listed, cached, binding,
                              queued, sync, faults>>

CollectBinding == /\ Gone(binding.owner)
                  /\ binding' = NoBinding
                  /\ UNCHANGED <<agentDriver, addon, uids, listed, cached, role,
                                 queued, sync, faults>>

(* The informers are independent of each other; the framework's one queues   *)
(* the addon, on each change and again every ten minutes.                    *)
Notice == /\ listed # addon
          /\ listed' = addon
          /\ queued' = TRUE
          /\ UNCHANGED <<agentDriver, addon, uids, cached, role, binding, sync, faults>>

SyncCache == /\ cached # addon
             /\ cached' = addon
             /\ UNCHANGED <<agentDriver, addon, uids, listed, role, binding, queued,
                            sync, faults>>

Resync == /\ listed # NoAddon /\ ~queued
          /\ queued' = TRUE
          /\ UNCHANGED <<agentDriver, addon, uids, listed, cached, role, binding,
                         sync, faults>>

-----------------------------------------------------------------------------
(* The registration controller's sync. *)

(* Nothing is done before the addon has its owner.  (The framework then      *)
(* patches the supported configurations and ends the sync if that changed    *)
(* them; this addon has none, so it never does.)                             *)
Begin == /\ queued /\ sync.pc = "idle"
         /\ queued' = FALSE
         /\ sync' = IF listed # NoAddon /\ listed.owned
                    THEN [IdleSync EXCEPT !.pc = "get", !.base = listed]
                    ELSE IdleSync
         /\ UNCHANGED <<agentDriver, addon, uids, listed, cached, role, binding, faults>>

(* A failed sync puts the addon back in the queue. *)
Retry == sync' = IdleSync /\ queued' = TRUE

(* Any kubeClient registration will do. *)
MutSubjectFor(a) == IF a.regs THEN "User" ELSE "ServiceAccount"

(* The agent's user if a registration says it comes with a client            *)
(* certificate, else its service account.                                    *)
SubjectFor(a) == IF a.regs /\ a.driver = "csr" THEN "User" ELSE "ServiceAccount"

(* SetupPermission reads the addon ... *)
GetAddon == /\ sync.pc = "get"
            /\ \/ cached = NoAddon /\ Retry
               \/ /\ cached # NoAddon
                  /\ sync' = [sync EXCEPT !.pc = "role", !.subject = SubjectFor(cached)]
                  /\ UNCHANGED queued
            /\ UNCHANGED <<agentDriver, addon, uids, listed, cached, role, binding, faults>>

(* ... creates the role if there is none of its name ... *)
EnsureRole == /\ sync.pc = "role"
              /\ role' = IF role = 0 THEN sync.base.uid ELSE role
              /\ sync' = [sync EXCEPT !.pc = "binding"]
              /\ UNCHANGED <<agentDriver, addon, uids, listed, cached, binding,
                             queued, faults>>

(* The binding is only made before the registrations are filled in. *)
MutBound == IF binding = NoBinding /\ ~sync.base.regs
            THEN [owner |-> sync.base.uid, subject |-> sync.subject] ELSE binding

Bound == IF binding = NoBinding
         THEN [owner |-> sync.base.uid, subject |-> sync.subject] ELSE binding

(* ... and likewise the binding; one that exists is left as it is. *)
EnsureBinding == /\ sync.pc = "binding"
                 /\ binding' = Bound
                 /\ sync' = [sync EXCEPT !.pc = "status"]
                 /\ UNCHANGED <<agentDriver, addon, uids, listed, cached, role,
                                queued, faults>>

(* The driver is reset along with the registrations. *)
MutRegistered(a) == [a EXCEPT !.regs = TRUE, !.driver = "none"]

Registered(a) == [a EXCEPT !.regs = TRUE]

(* The framework fills in the registrations, unless the addon has changed.   *)
PatchStatus == /\ sync.pc = "status"
               /\ \/ /\ addon = sync.base
                     /\ addon' = Registered(addon)
                     /\ sync' = IdleSync
                     /\ UNCHANGED queued
                  \/ /\ addon # sync.base
                     /\ Retry
                     /\ UNCHANGED addon
               /\ UNCHANGED <<agentDriver, uids, listed, cached, role, binding, faults>>

SyncFails == /\ sync.pc # "idle"
             /\ faults < MaxFaults
             /\ faults' = faults + 1
             /\ Retry
             /\ UNCHANGED <<agentDriver, addon, uids, listed, cached, role, binding>>

(* The manager restarts; its informers list anew. *)
Restart == /\ faults < MaxFaults
           /\ faults' = faults + 1
           /\ sync' = IdleSync
           /\ listed' = addon /\ cached' = addon
           /\ queued' = (addon # NoAddon)
           /\ UNCHANGED <<agentDriver, addon, uids, role, binding>>

Controller == Begin \/ GetAddon \/ EnsureRole \/ EnsureBinding \/ PatchStatus

Next == \/ Install \/ Uninstall \/ SetOwner \/ DeclareDriver
        \/ CollectRole \/ CollectBinding
        \/ Notice \/ SyncCache \/ Resync
        \/ Controller \/ SyncFails \/ Restart

(* The controller and its resyncs, the informers, garbage collection, the    *)
(* addon manager and the agent run on.                                       *)
Fairness == /\ WF_vars(Controller) /\ WF_vars(Resync)
            /\ WF_vars(Notice) /\ WF_vars(SyncCache)
            /\ WF_vars(CollectRole) /\ WF_vars(CollectBinding)
            /\ WF_vars(SetOwner) /\ WF_vars(DeclareDriver)

Spec == Init /\ [][Next]_vars
FairSpec == Spec /\ Fairness

-----------------------------------------------------------------------------
(* The subject is chosen from one copy of the addon, bound later under the   *)
(* uid of another, and never revised, and either copy may be of an earlier   *)
(* installation.  Still the addon's own binding names the agent's user only  *)
(* if the agent of this or an earlier installation came with a certificate,  *)
(* and never in the first installation: registrations, which alone lead to   *)
(* the user, are only filled in once there is a binding.                     *)
UserHasReason ==
    Owner # 0 /\ binding.owner = Owner /\ binding.subject = "User" =>
       /\ Owner > 1
       /\ \E u \in 1..Owner : agentDriver[u] = "csr"

(* After the addon is removed and installed again, syncs from lagging copies *)
(* find the old role and binding and leave them, or make them once more for  *)
(* an addon that is gone, and garbage collection takes those away: in the    *)
(* end role and binding belong to the addon that is there, and without an    *)
(* addon there is neither.                                                   *)
BoundEventually == <>[](role = Owner /\ binding.owner = Owner)

(* "The implementation is expected to ensure the RBAC in the hub cluster":   *)
(* in the end the agent is permitted, whatever its driver.                   *)
AgentIsPermitted ==
    <>[](Owner # 0 =>
           binding.subject = IF agentDriver[Owner] = "csr" THEN "User" ELSE "ServiceAccount")
=============================================================================
