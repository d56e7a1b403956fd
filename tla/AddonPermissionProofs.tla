----------------------- MODULE AddonPermissionProofs ------------------------
(* For any number of installations, faults and restarts, and any drivers of  *)
(* the agents: types, and what the agent's user is bound for.                *)
EXTENDS AddonPermission, TLAPS

(* A sync that has begun has a copy of the addon to work from; one that has  *)
(* not carries nothing.                                                      *)
BaseKnown == IF sync.pc = "idle" THEN sync = IdleSync ELSE sync.base \in Addon

(* The addon that is there is the last one installed. *)
OwnerIsLast == Owner \in {0, uids}

(* A copy of the addon is of this or an earlier installation, and a driver   *)
(* it declares is that of the agent of its own installation.                 *)
Genuine(a) == a # NoAddon => a.uid <= uids /\ a.driver \in {"", agentDriver[a.uid]}

(* An installation so far came with a client certificate. *)
SomeCSR == \E u \in 1..uids : agentDriver[u] = "csr"

CopiesInv == /\ Genuine(addon) /\ Genuine(listed)
             /\ Genuine(cached) /\ Genuine(sync.base)
             /\ binding.owner <= uids
             /\ binding.owner = 0 => binding = NoBinding
             /\ sync.subject = "User" => SomeCSR
             /\ binding.subject = "User" => SomeCSR

(* During the first installation nothing says that registrations are filled  *)
(* in, and no sync gets as far as that, before there is the binding.         *)
Filled(a) == a # NoAddon /\ a.regs
FirstBinding ==
    Owner = 1 =>
       /\ binding.subject # "User"
       /\ \/ Filled(addon) \/ Filled(listed) \/ Filled(cached)
          \/ sync.pc = "status" \/ sync.subject = "User"
          => binding.owner = 1

(* UserHasReason alone is not inductive: the binding takes the subject the   *)
(* sync chose, and that depends on what the copies of the addon say.         *)
IInv == /\ TypeOK
        /\ BaseKnown
        /\ OwnerIsLast
        /\ CopiesInv
        /\ FirstBinding

LEMMA UIDFacts ==
    /\ 0 \in 0..MaxUID
    /\ \A u \in UID : u \in 0..MaxUID /\ u \in Nat /\ u > 0
    /\ \A u \in 0..MaxUID : u < MaxUID => u + 1 \in UID
  BY PermissionAssumption DEF UID

LEMMA IdleSyncFacts ==
    /\ IdleSync \in SyncState
    /\ IdleSync.pc = "idle" /\ IdleSync.base = NoAddon /\ IdleSync.subject = ""
  BY DEF IdleSync, SyncState, AddonState, Subject

LEMMA NoBindingFacts ==
    NoBinding \in BindingState /\ NoBinding.owner = 0 /\ NoBinding.subject = ""
  BY PermissionAssumption DEF NoBinding, BindingState, Subject

LEMMA AddonTyped ==
    ASSUME NEW a \in AddonState, a # NoAddon
    PROVE  a \in Addon /\ a.uid \in UID /\ a.uid \in Nat /\ a.uid > 0
  BY UIDFacts DEF AddonState, Addon

LEMMA StateTyped ==
    ASSUME IInv
    PROVE  /\ agentDriver \in [UID -> Driver]
           /\ addon \in AddonState /\ listed \in AddonState /\ cached \in AddonState
           /\ uids \in Nat /\ uids \in 0..MaxUID
           /\ binding \in BindingState /\ binding.owner \in Nat
           /\ sync \in SyncState /\ sync.base \in AddonState
           /\ faults \in 0..MaxFaults /\ role \in 0..MaxUID
  BY DEF IInv, TypeOK, BindingState, SyncState

(* An addon that is there is the last one installed. *)
LEMMA OwnerFacts ==
    ASSUME IInv
    PROVE  /\ Owner \in Nat
           /\ Owner = 0 <=> addon = NoAddon
           /\ addon # NoAddon => Owner = addon.uid /\ Owner = uids
<1>1. addon # NoAddon => addon.uid \in Nat /\ addon.uid > 0
  BY StateTyped, AddonTyped
<1> QED
  BY <1>1 DEF IInv, OwnerIsLast, Owner

LEMMA InitIInv == ASSUME Init PROVE IInv
<1>1. /\ addon = NoAddon /\ listed = NoAddon /\ cached = NoAddon
      /\ sync = IdleSync /\ binding = NoBinding
      /\ queued \in BOOLEAN
  BY Zenon DEF Init
<1>2. uids \in 0..MaxUID /\ role \in 0..MaxUID /\ faults \in 0..MaxFaults
  BY PermissionAssumption DEF Init
<1>3. TypeOK
  BY <1>1, <1>2, IdleSyncFacts, NoBindingFacts, Zenon DEF Init, TypeOK, AddonState
<1>0. uids = 0 /\ binding.owner = 0
  BY <1>1, NoBindingFacts DEF Init
<1>4. Owner = 0 /\ uids = 0 /\ binding.owner <= uids
  BY <1>0, <1>1 DEF Owner
<1>5. BaseKnown /\ OwnerIsLast
  BY <1>1, <1>4, IdleSyncFacts DEF BaseKnown, OwnerIsLast
<1>6. CopiesInv
  BY <1>1, <1>4, IdleSyncFacts, NoBindingFacts DEF CopiesInv, Genuine
<1>7. FirstBinding
  BY <1>4 DEF FirstBinding
<1> QED
  BY <1>3, <1>5, <1>6, <1>7 DEF IInv

-----------------------------------------------------------------------------
(* The API server, the agent, garbage collection and the informers. *)

(* Before the first installation there is nothing at all. *)
LEMMA NothingAtFirst ==
    ASSUME IInv, uids = 0
    PROVE  /\ listed = NoAddon /\ cached = NoAddon
           /\ sync = IdleSync /\ binding = NoBinding
<1>1. ASSUME NEW a \in AddonState, Genuine(a) PROVE a = NoAddon
  <2>1. a # NoAddon => a.uid \in Nat /\ a.uid > 0
    BY AddonTyped
  <2>2. a # NoAddon => a.uid <= 0
    BY <1>1 DEF Genuine
  <2> QED
    BY <2>1, <2>2
<1>2. listed = NoAddon /\ cached = NoAddon /\ sync.base = NoAddon
  BY <1>1, StateTyped DEF IInv, CopiesInv
<1>3. sync = IdleSync
  BY <1>2, PermissionAssumption DEF IInv, BaseKnown
<1>4. binding = NoBinding
  BY StateTyped DEF IInv, CopiesInv
<1> QED
  BY <1>2, <1>3, <1>4

LEMMA InstallIInv == ASSUME IInv, Install PROVE IInv'
<1>1. /\ uids < MaxUID /\ uids' = uids + 1
      /\ addon' = [uid |-> uids + 1, owned |-> FALSE, regs |-> FALSE, driver |-> ""]
      /\ UNCHANGED <<agentDriver, listed, cached, role, binding, sync, faults>>
  BY DEF Install
<1>2. queued' \in BOOLEAN
  BY Zenon DEF Install, IInv, TypeOK
<1>3. uids \in Nat /\ uids' \in 0..MaxUID /\ uids + 1 \in UID
  BY <1>1, StateTyped, UIDFacts
<1>4. addon' \in Addon /\ addon'.uid = uids + 1 /\ addon'.driver = ""
  BY <1>1, <1>3, Zenon DEF Addon
<1>5. addon'.regs = FALSE
  BY <1>1, Zenon
<1>6. addon' # NoAddon /\ addon' \in AddonState
  BY <1>4, PermissionAssumption DEF AddonState
<1>7. TypeOK'
  BY <1>1, <1>2, <1>3, <1>6 DEF IInv, TypeOK
<1>8. BaseKnown'
  BY <1>1 DEF IInv, BaseKnown
<1>9. OwnerIsLast' /\ Owner' = uids + 1
  BY <1>1, <1>4, <1>6 DEF OwnerIsLast, Owner
<1>10. CopiesInv'
  <2>1. SomeCSR => SomeCSR'
    <3>1. \A u \in 1..uids : u \in 1..(uids + 1)
      BY <1>3
    <3> QED
      BY <1>1, <3>1 DEF SomeCSR
  <2>2. ASSUME NEW a \in AddonState, Genuine(a)
        PROVE  a # NoAddon => a.uid <= uids + 1 /\ a.driver \in {"", agentDriver[a.uid]}
    <3> SUFFICES ASSUME a # NoAddon
                 PROVE  a.uid <= uids + 1 /\ a.driver \in {"", agentDriver[a.uid]}
      OBVIOUS
    <3>1. a.uid \in Nat
      BY AddonTyped
    <3>2. a.uid <= uids
      BY <2>2 DEF Genuine
    <3>3. a.uid <= uids + 1
      BY <1>3, <3>1, <3>2
    <3> QED
      BY <2>2, <3>3 DEF Genuine
  <2>3. Genuine(listed)' /\ Genuine(cached)' /\ Genuine(sync.base)'
    BY <1>1, <2>2, StateTyped DEF IInv, CopiesInv, Genuine
  <2>4. Genuine(addon)'
    <3>1. uids + 1 <= uids + 1
      BY <1>3
    <3> QED
      BY <1>1, <1>4, <3>1 DEF Genuine
  <2>5. binding.owner <= uids + 1
    BY <1>3, StateTyped DEF IInv, CopiesInv
  <2> QED
    BY <1>1, <2>1, <2>3, <2>4, <2>5 DEF IInv, CopiesInv
<1>11. FirstBinding'
  <2> SUFFICES ASSUME uids = 0
               PROVE  /\ binding'.subject # "User"
                      /\ ~Filled(addon)' /\ ~Filled(listed)' /\ ~Filled(cached)'
                      /\ sync'.pc # "status" /\ sync'.subject # "User"
    BY <1>3, <1>9 DEF FirstBinding
  <2>1. ~Filled(addon)'
    BY <1>5 DEF Filled
  <2> QED
    BY <1>1, <2>1, NothingAtFirst, IdleSyncFacts, NoBindingFacts DEF Filled
<1> QED
  BY <1>7, <1>8, <1>9, <1>10, <1>11 DEF IInv

(* The addon is gone, or is changed in place. *)
LEMMA AddonIInv ==
    ASSUME IInv, addon' \in AddonState,
           UNCHANGED <<agentDriver, uids, listed, cached, role, binding, queued,
                       sync, faults>>,
           addon' # NoAddon => addon # NoAddon /\ addon'.uid = addon.uid,
           Genuine(addon)', Filled(addon)' => Filled(addon)
    PROVE  IInv'
<1>1. TypeOK' /\ BaseKnown'
  BY DEF IInv, TypeOK, BaseKnown
<1>2. Owner' = 0 \/ Owner' = Owner
  BY OwnerFacts DEF Owner
<1>6. OwnerIsLast'
  BY <1>2 DEF IInv, OwnerIsLast
<1>4. CopiesInv'
  BY DEF IInv, CopiesInv, Genuine, SomeCSR
<1>5. FirstBinding'
  <2>2. CASE Owner' = 0
    BY <2>2 DEF FirstBinding
  <2>3. CASE Owner' = Owner
    BY <2>3 DEF IInv, FirstBinding, Filled
  <2> QED
    BY <1>2, <2>2, <2>3
<1> QED
  BY <1>1, <1>4, <1>5, <1>6 DEF IInv

LEMMA AddonStepsIInv == ASSUME IInv, Uninstall \/ SetOwner \/ DeclareDriver PROVE IInv'
<1>1. CASE Uninstall
  <2>1. addon' = NoAddon /\ ~Filled(addon)' /\ Genuine(addon)'
    BY <1>1 DEF Uninstall, Filled, Genuine
  <2> QED
    BY <1>1, <2>1, AddonIInv DEF Uninstall, AddonState
<1>2. CASE SetOwner
  <2>1. addon # NoAddon /\ addon \in Addon
    BY <1>2, StateTyped DEF SetOwner, AddonState
  <2>2. /\ addon' = [addon EXCEPT !.owned = TRUE]
        /\ UNCHANGED <<agentDriver, uids, listed, cached, role, binding, queued,
                       sync, faults>>
    BY <1>2 DEF SetOwner
  <2>3. addon' \in Addon /\ addon'.regs = addon.regs
    BY <2>1, <2>2, Zenon DEF Addon
  <2>4. addon'.uid = addon.uid /\ addon'.driver = addon.driver
    BY <2>1, <2>2 DEF Addon
  <2>5. Genuine(addon)' /\ addon' \in AddonState
    BY <2>1, <2>2, <2>3, <2>4 DEF IInv, CopiesInv, Genuine, AddonState
  <2>6. Filled(addon)' => Filled(addon)
    BY <2>1, <2>3, Zenon DEF Filled
  <2> QED
    BY <2>1, <2>2, <2>4, <2>5, <2>6, AddonIInv
<1>3. CASE DeclareDriver
  <2>1. addon # NoAddon /\ addon \in Addon /\ addon.uid \in UID
    BY <1>3, StateTyped, AddonTyped DEF DeclareDriver
  <2>2. /\ addon' = [addon EXCEPT !.driver = agentDriver[addon.uid]]
        /\ UNCHANGED <<agentDriver, uids, listed, cached, role, binding, queued,
                       sync, faults>>
    BY <1>3 DEF DeclareDriver
  <2>3. agentDriver[addon.uid] \in Driver
    BY <2>1, StateTyped
  <2>4. addon' \in Addon /\ addon'.regs = addon.regs
    BY <2>1, <2>2, <2>3 DEF Addon
  <2>5. addon'.uid = addon.uid /\ addon'.driver = agentDriver[addon.uid]
    BY <2>1, <2>2 DEF Addon
  <2>6. Filled(addon)' => Filled(addon)
    BY <2>1, <2>4, Zenon DEF Filled
  <2>7. Genuine(addon)'
    BY <2>1, <2>2, <2>5 DEF IInv, CopiesInv, Genuine
  <2> QED
    BY <2>1, <2>2, <2>4, <2>5, <2>6, <2>7, AddonIInv DEF AddonState
<1> QED
  BY <1>1, <1>2, <1>3

(* A binding the addon owns is not collected. *)
LEMMA CollectIInv == ASSUME IInv, CollectRole \/ CollectBinding PROVE IInv'
<1>1. CASE CollectRole
  <2>1. /\ role' = 0
        /\ UNCHANGED <<agentDriver, addon, uids, listed, cached, binding, queued,
                       sync, faults>>
    BY <1>1 DEF CollectRole
  <2>2. TypeOK'
    BY <2>1, UIDFacts DEF IInv, TypeOK
  <2> QED
    BY <2>1, <2>2 DEF IInv, BaseKnown, OwnerIsLast, Owner, CopiesInv, Genuine, SomeCSR,
       FirstBinding, Filled
<1>2. CASE CollectBinding
  <2>1. /\ binding' = NoBinding /\ binding.owner \notin {0, Owner}
        /\ UNCHANGED <<agentDriver, addon, uids, listed, cached, role, queued,
                       sync, faults>>
    BY <1>2 DEF CollectBinding, Gone
  <2>2. TypeOK' /\ BaseKnown' /\ OwnerIsLast' /\ Owner' = Owner
    BY <2>1, NoBindingFacts DEF IInv, TypeOK, BaseKnown, OwnerIsLast, Owner
  <2>3. CopiesInv'
    <3>1. NoBinding.owner <= uids
      <4>1. NoBinding.owner = 0
        BY NoBindingFacts
      <4>2. uids \in Nat
        BY StateTyped
      <4> QED
        BY <4>1, <4>2
    <3> QED
      BY <2>1, <3>1, NoBindingFacts DEF IInv, CopiesInv, Genuine, SomeCSR
  <2>4. Owner # 1
    BY <2>1, OwnerFacts, StateTyped DEF IInv, CopiesInv
  <2> QED
    BY <2>2, <2>3, <2>4 DEF IInv, FirstBinding
<1> QED
  BY <1>1, <1>2

(* The informers and the queue: copies are refreshed. *)
LEMMA InformersIInv ==
    ASSUME IInv, listed' \in {listed, addon}, cached' \in {cached, addon},
           queued' \in BOOLEAN, UNCHANGED <<agentDriver, addon, uids, role, binding>>,
           sync' \in {sync, IdleSync}, faults' \in 0..MaxFaults
    PROVE  IInv'
<1>1. TypeOK'
  BY IdleSyncFacts DEF IInv, TypeOK
<1>2. BaseKnown'
  BY IdleSyncFacts DEF IInv, BaseKnown
<1>3. OwnerIsLast' /\ Owner' = Owner
  BY DEF IInv, OwnerIsLast, Owner
<1>4. CopiesInv'
  BY IdleSyncFacts DEF IInv, CopiesInv, Genuine, SomeCSR
<1>5. FirstBinding'
  BY <1>3, IdleSyncFacts DEF IInv, FirstBinding, Filled
<1> QED
  BY <1>1, <1>2, <1>3, <1>4, <1>5 DEF IInv

LEMMA FaultTyped == ASSUME IInv, faults < MaxFaults PROVE faults + 1 \in 0..MaxFaults
  BY StateTyped, PermissionAssumption

LEMMA InformerStepsIInv ==
    ASSUME IInv, Notice \/ SyncCache \/ Resync \/ SyncFails \/ Restart \/ UNCHANGED vars
    PROVE  IInv'
<1>1. queued' \in BOOLEAN
  BY Zenon DEF Notice, SyncCache, Resync, SyncFails, Retry, Restart, vars, IInv, TypeOK
<1> QED
  BY <1>1, InformersIInv, StateTyped, FaultTyped
  DEF Notice, SyncCache, Resync, SyncFails, Retry, Restart, vars

-----------------------------------------------------------------------------
(* The registration controller's sync. *)

(* A step that goes on with the sync and leaves the addon's copies alone. *)
LEMMA OnwardIInv ==
    ASSUME IInv, UNCHANGED <<agentDriver, addon, uids, listed, cached, faults>>,
           queued' \in BOOLEAN, role' \in 0..MaxUID, sync' \in SyncState,
           sync'.pc # "idle", sync'.base \in Addon, Genuine(sync'.base),
           sync'.subject = "User" => SomeCSR,
           binding' = binding
              \/ /\ binding = NoBinding /\ binding' \in BindingState
                 /\ binding'.owner \in 1..uids /\ binding'.subject = sync.subject,
           Owner = 1 /\ (sync'.pc = "status" \/ sync'.subject = "User") => binding'.owner = 1
    PROVE  IInv'
<1>1. TypeOK' /\ BaseKnown'
  BY DEF IInv, TypeOK, BaseKnown
<1>2. OwnerIsLast' /\ Owner' = Owner
  BY DEF IInv, OwnerIsLast, Owner
<1>3. /\ binding'.owner <= uids /\ (binding'.owner = 0 => binding' = NoBinding)
      /\ binding'.subject = "User" => SomeCSR
  BY StateTyped DEF IInv, CopiesInv
<1>4. CopiesInv'
  BY <1>3 DEF IInv, CopiesInv, Genuine, SomeCSR
<1>5. ASSUME Owner = 1
      PROVE  binding'.subject # "User" /\ (binding.owner = 1 => binding'.owner = 1)
  <2>1. /\ binding.subject # "User"
        /\ sync.subject = "User" => binding.owner = 1
    BY <1>5 DEF IInv, FirstBinding
  <2>2. CASE binding' = binding
    BY <2>1, <2>2
  <2>3. CASE binding = NoBinding /\ binding'.subject = sync.subject
    <3>1. binding.owner = 0
      BY <2>3, NoBindingFacts
    <3>2. binding.owner # 1
      BY <3>1
    <3> QED
      BY <2>1, <2>3, <3>2
  <2> QED
    BY <2>2, <2>3
<1>6. FirstBinding'
  BY <1>2, <1>5 DEF IInv, FirstBinding, Filled
<1> QED
  BY <1>1, <1>2, <1>4, <1>6 DEF IInv

LEMMA BeginIInv == ASSUME IInv, Begin PROVE IInv'
<1>1. queued' \in BOOLEAN
  BY Zenon DEF Begin
<1>2. UNCHANGED <<agentDriver, addon, uids, listed, cached, role, binding, faults>>
  BY DEF Begin
<1>3. CASE sync' = IdleSync
  BY <1>1, <1>2, <1>3, InformersIInv, StateTyped
<1>4. CASE listed # NoAddon /\ sync' = [IdleSync EXCEPT !.pc = "get", !.base = listed]
  <2>1. sync' = [pc |-> "get", base |-> listed, subject |-> ""] /\ listed \in Addon
    BY <1>4, StateTyped DEF IdleSync, AddonState
  <2>2. /\ sync' \in SyncState /\ sync'.pc = "get"
        /\ sync'.base = listed /\ sync'.subject = ""
    BY <2>1 DEF SyncState, AddonState, Subject
  <2>3. Genuine(listed)
    BY DEF IInv, CopiesInv
  <2> QED
    BY <1>1, <1>2, <2>1, <2>2, <2>3, OnwardIInv, StateTyped
<1> QED
  BY <1>3, <1>4 DEF Begin

(* The user is chosen only from registrations of an agent with a certificate,*)
(* and in the first installation the binding is there by then.               *)
LEMMA GetAddonIInv == ASSUME IInv, GetAddon PROVE IInv'
<1>1. UNCHANGED <<agentDriver, addon, uids, listed, cached, role, binding, faults>>
  BY DEF GetAddon
<1>2. queued' \in BOOLEAN
  BY Zenon DEF GetAddon, Retry, IInv, TypeOK
<1>3. CASE sync' = IdleSync
  BY <1>1, <1>2, <1>3, InformersIInv, StateTyped
<1>4. CASE /\ cached # NoAddon
           /\ sync' = [sync EXCEPT !.pc = "role", !.subject = SubjectFor(cached)]
  <2>1. cached \in Addon /\ cached.uid \in UID /\ cached.uid \in Nat /\ cached.uid > 0
    BY <1>4, StateTyped, AddonTyped
  <2>2. SubjectFor(cached) \in Subject
    BY DEF SubjectFor, Subject
  <2>3. /\ sync' \in SyncState /\ sync'.pc = "role" /\ sync'.base = sync.base
        /\ sync'.subject = SubjectFor(cached)
    BY <1>4, <2>2, StateTyped DEF SyncState
  <2>4. ASSUME SubjectFor(cached) = "User" PROVE Filled(cached) /\ cached.driver = "csr"
    BY <1>4, <2>4 DEF SubjectFor, Filled
  <2>5. ASSUME SubjectFor(cached) = "User" PROVE SomeCSR
    <3>1. cached.uid <= uids /\ agentDriver[cached.uid] = "csr"
      BY <1>4, <2>4, <2>5 DEF IInv, CopiesInv, Genuine
    <3>2. cached.uid \in 1..uids
      BY <2>1, <3>1, StateTyped
    <3> QED
      BY <3>1, <3>2 DEF SomeCSR
  <2>6. sync.base \in Addon /\ Genuine(sync.base)
    BY DEF GetAddon, IInv, BaseKnown, CopiesInv
  <2>7. Owner = 1 /\ SubjectFor(cached) = "User" => binding.owner = 1
    BY <2>4 DEF IInv, FirstBinding
  <2> QED
    BY <1>1, <1>2, <2>3, <2>5, <2>6, <2>7, OnwardIInv, StateTyped
<1> QED
  BY <1>3, <1>4 DEF GetAddon, Retry

LEMMA EnsureRoleIInv == ASSUME IInv, EnsureRole PROVE IInv'
<1>1. /\ sync.pc = "role" /\ sync' = [sync EXCEPT !.pc = "binding"]
      /\ role' \in {role, sync.base.uid}
      /\ UNCHANGED <<agentDriver, addon, uids, listed, cached, binding, faults>>
  BY DEF EnsureRole
<1>2. queued' \in BOOLEAN
  BY Zenon DEF EnsureRole, IInv, TypeOK
<1>3. /\ sync' \in SyncState /\ sync'.pc = "binding" /\ sync'.base = sync.base
      /\ sync'.subject = sync.subject
  BY <1>1, StateTyped DEF SyncState
<1>4. sync.base \in Addon /\ Genuine(sync.base)
  BY <1>1 DEF IInv, BaseKnown, CopiesInv
<1>5. role' \in 0..MaxUID
  BY <1>1, <1>4, StateTyped, UIDFacts DEF Addon
<1>6. /\ sync.subject = "User" => SomeCSR
      /\ Owner = 1 /\ sync.subject = "User" => binding.owner = 1
  BY DEF IInv, CopiesInv, FirstBinding
<1> QED
  BY <1>1, <1>2, <1>3, <1>4, <1>5, <1>6, OnwardIInv

LEMMA EnsureBindingIInv == ASSUME IInv, EnsureBinding PROVE IInv'
<1>1. /\ sync.pc = "binding" /\ sync' = [sync EXCEPT !.pc = "status"]
      /\ binding' = Bound
      /\ UNCHANGED <<agentDriver, addon, uids, listed, cached, role, faults>>
  BY DEF EnsureBinding
<1>2. queued' \in BOOLEAN
  BY Zenon DEF EnsureBinding, IInv, TypeOK
<1>3. /\ sync' \in SyncState /\ sync'.pc = "status" /\ sync'.base = sync.base
      /\ sync'.subject = sync.subject /\ sync.subject \in Subject
  BY <1>1, StateTyped DEF SyncState
<1>4. sync.base \in Addon /\ Genuine(sync.base)
  BY <1>1 DEF IInv, BaseKnown, CopiesInv
<1>5. sync.base.uid \in 1..uids /\ sync.base.uid \in 0..MaxUID
  <2>1. sync.base # NoAddon /\ sync.base \in AddonState
    BY <1>4, PermissionAssumption DEF AddonState
  <2>2. sync.base.uid \in UID /\ sync.base.uid \in Nat /\ sync.base.uid > 0
    BY <2>1, AddonTyped
  <2> QED
    <3>1. sync.base.uid <= uids
      BY <1>4, <2>1 DEF Genuine
    <3> QED
      BY <2>2, <3>1, StateTyped, UIDFacts
<1>6. binding' = binding
         \/ /\ binding = NoBinding /\ binding' \in BindingState
            /\ binding'.owner = sync.base.uid /\ binding'.subject = sync.subject
  BY <1>1, <1>3, <1>5 DEF Bound, BindingState
<1>7. ASSUME Owner = 1 PROVE binding'.owner = 1
  <2>1. uids = 1
    BY <1>7, OwnerFacts
  <2>2. CASE binding = NoBinding
    BY <1>1, <1>5, <2>1, <2>2 DEF Bound
  <2>3. CASE binding # NoBinding
    BY <1>1, <2>1, <2>3, StateTyped DEF Bound, IInv, CopiesInv
  <2> QED
    BY <2>2, <2>3
<1>8. sync.subject = "User" => SomeCSR
  BY DEF IInv, CopiesInv
<1> QED
  BY <1>1, <1>2, <1>3, <1>4, <1>5, <1>6, <1>7, <1>8, OnwardIInv, StateTyped

(* By the time registrations are filled in, the binding is there. *)
LEMMA PatchStatusIInv == ASSUME IInv, PatchStatus PROVE IInv'
<1>1. /\ sync.pc = "status"
      /\ UNCHANGED <<agentDriver, uids, listed, cached, role, binding, faults>>
  BY DEF PatchStatus
<1>2. queued' \in BOOLEAN
  BY Zenon DEF PatchStatus, Retry, IInv, TypeOK
<1>3. sync' = IdleSync
  BY DEF PatchStatus, Retry
<1>4. CASE addon' = addon
  BY <1>1, <1>2, <1>3, <1>4, InformersIInv, StateTyped
<1>5. CASE addon = sync.base /\ addon' = Registered(addon)
  <2>1. addon \in Addon /\ addon # NoAddon
    BY <1>1, <1>5, PermissionAssumption DEF IInv, BaseKnown
  <2>2. addon' \in Addon /\ addon'.uid = addon.uid /\ addon'.driver = addon.driver
    BY <1>5, <2>1 DEF Registered, Addon
  <2>3. addon' # NoAddon /\ addon' \in AddonState
    BY <2>2, PermissionAssumption DEF AddonState
  <2>4. TypeOK' /\ BaseKnown'
    BY <1>1, <1>2, <1>3, <2>3, IdleSyncFacts DEF IInv, TypeOK, BaseKnown
  <2>5. OwnerIsLast' /\ Owner' = Owner
    BY <1>1, <2>1, <2>2, <2>3 DEF IInv, OwnerIsLast, Owner
  <2>6. CopiesInv'
    BY <1>1, <1>3, <2>1, <2>2, IdleSyncFacts DEF IInv, CopiesInv, Genuine, SomeCSR
  <2>7. FirstBinding'
    BY <1>1, <2>5 DEF IInv, FirstBinding
  <2> QED
    BY <2>4, <2>5, <2>6, <2>7 DEF IInv
<1> QED
  BY <1>4, <1>5 DEF PatchStatus

LEMMA NextIInv == ASSUME IInv, [Next]_vars PROVE IInv'
  BY InstallIInv, AddonStepsIInv, CollectIInv, InformerStepsIInv, BeginIInv,
     GetAddonIInv, EnsureRoleIInv, EnsureBindingIInv, PatchStatusIInv
  DEF Next, Controller

-----------------------------------------------------------------------------
(* Every step of the addon, its agents and SetupPermission keeps the         *)
(* inductive invariant.                                                      *)
THEOREM Invariance == Spec => []IInv
<1>1. Init => IInv
  BY InitIInv
<1>2. IInv /\ [Next]_vars => IInv'
  BY NextIInv
<1> QED
  BY <1>1, <1>2, PTL DEF Spec

(* The state of SetupPermission and of what surrounds it is well typed. *)
THEOREM TypeCorrect == Spec => []TypeOK
<1>1. IInv => TypeOK
  BY DEF IInv
<1> QED
  BY <1>1, Invariance, PTL

(* In a first installation SetupPermission never binds the agent's user, and *)
(* in a later one only if the agent of that or an earlier installation came  *)
(* with a client certificate, however old the copies it works from are.      *)
THEOREM UserBoundWithReason == Spec => []UserHasReason
<1>1. ASSUME IInv PROVE UserHasReason
  <2> SUFFICES ASSUME Owner # 0, binding.owner = Owner, binding.subject = "User"
               PROVE  Owner > 1 /\ \E u \in 1..Owner : agentDriver[u] = "csr"
    BY DEF UserHasReason
  <2>1. Owner \in Nat /\ Owner = uids
    BY <1>1, OwnerFacts
  <2>2. Owner # 1
    BY <1>1 DEF IInv, FirstBinding
  <2>3. SomeCSR
    BY <1>1 DEF IInv, CopiesInv
  <2> QED
    BY <2>1, <2>2, <2>3 DEF SomeCSR
<1> QED
  BY <1>1, Invariance, PTL
=============================================================================
