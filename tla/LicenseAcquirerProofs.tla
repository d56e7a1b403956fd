------------------------ MODULE LicenseAcquirerProofs -----------------------
(* For any licenses, plans and claims: the invariants of the hub's           *)
(* LicenseAcquirer, whatever arrives, fails or restarts during its rounds.   *)
EXTENDS LicenseAcquirer, RegistryMethodsProofs

(* Each license is kept under the name of its plan. *)
ByPlan(data) == \A p \in Plan : data[p] # NoLicense => PlanName[data[p]] = p

(* A feature that was found has a license among those of the round, and      *)
(* during the round each of these is in what the round is going to write, or *)
(* made room for another one of the round.                                   *)
FoundInv ==
    /\ \A f \in round.met : \E l \in round.got : f \in FeaturesOf[l]
    /\ round.pc # "idle" => \A l \in round.got : round.data[PlanName[l]] \in round.got

(* A copy of the secret is no newer than the secret, and as new only if it   *)
(* has the same data.                                                        *)
CopyOf(s, c) ==
    c # NoSecret => /\ s # NoSecret /\ c.version <= s.version
                    /\ c.version = s.version => c.data = s.data

(* What a round is going to write has an entry for each plan that the copy   *)
(* it started from has one for.                                              *)
BaseKept ==
    round.pc # "idle" /\ round.base # NoSecret =>
       \A p \in Plan : round.base.data[p] # NoLicense => round.data[p] # NoLicense

BaseInv == CopyOf(secret, view) /\ CopyOf(secret, round.base) /\ BaseKept

(* One of the licenses of a round expires first. *)
HasFirst ==
    round.got = {} \/ \E m \in round.got : \A l \in round.got : NotAfter[m] <= NotAfter[l]

PlanInv == /\ ByPlan(round.data)
           /\ secret # NoSecret => ByPlan(secret.data)
           /\ view # NoSecret => ByPlan(view.data)

IInv == /\ TypeOK
        /\ RegInv
        /\ PlanInv
        /\ FoundInv
        /\ BaseInv
        /\ HasFirst
        /\ WakesInTime
        /\ FoundIsDelivered

-----------------------------------------------------------------------------
(* Types. *)

LEMMA IdleRoundFacts ==
    /\ IdleRound \in RoundState
    /\ IdleRound.pc = "idle" /\ IdleRound.got = {} /\ IdleRound.met = {}
    /\ IdleRound.data = NoData /\ ByPlan(NoData) /\ IdleRound.base = NoSecret
<1>1. NoData \in Data
  BY DEF NoData, Data
<1>2. IdleRound \in RoundState
  BY <1>1, Zenon DEF IdleRound, RoundState, SecretState
<1> QED
  BY <1>2 DEF IdleRound, ByPlan, NoData

LEMMA RoundTyped ==
    ASSUME TypeOK
    PROVE  /\ round.pc \in {"idle", "feature", "acquire"}
           /\ round.todo \subseteq Feature /\ round.feature \subseteq Feature
           /\ round.data \in Data /\ round.base \in SecretState
           /\ round.got \subseteq License /\ round.met \subseteq Feature
  BY DEF TypeOK, RoundState

LEMMA FlagsTyped == ASSUME TypeOK PROVE round.err \in BOOLEAN /\ round.refused \in BOOLEAN
  BY Zenon DEF TypeOK, RoundState

(* sec.Data[l.PlanName] = l.Data. *)
LEMMA MergedTyped ==
    ASSUME TypeOK, NEW f \in Feature, NEW l \in License
    PROVE  /\ Merged(round, f, l) \in RoundState
           /\ Merged(round, f, l).pc = "feature"
           /\ Merged(round, f, l).base = round.base
           /\ Merged(round, f, l).met = round.met \cup {f}
           /\ Merged(round, f, l).got = round.got \cup {l}
           /\ Merged(round, f, l).data = [round.data EXCEPT ![PlanName[l]] = l]
<1>1. round \in RoundState
  BY DEF TypeOK
<1>2. PlanName[l] \in Plan
  BY AcquirerAssumption
<1>3. round.data \in Data
  BY RoundTyped
<1>4. [round.data EXCEPT ![PlanName[l]] = l] \in Data
  BY <1>2, <1>3 DEF Data
<1>5. /\ Merged(round, f, l).pc = "feature" /\ Merged(round, f, l).base = round.base
      /\ Merged(round, f, l).met = round.met \cup {f}
      /\ Merged(round, f, l).got = round.got \cup {l}
      /\ Merged(round, f, l).data = [round.data EXCEPT ![PlanName[l]] = l]
  BY <1>1 DEF Merged, RoundState
<1>6. Merged(round, f, l) \in RoundState
  BY <1>1, <1>4, RoundTyped DEF Merged, RoundState
<1> QED
  BY <1>5, <1>6

(* The license is entered under its plan, and nothing else changes. *)
LEMMA MergedData ==
    ASSUME NEW data \in Data, ByPlan(data), NEW l \in License
    PROVE  LET new == [data EXCEPT ![PlanName[l]] = l]
           IN  /\ ByPlan(new)
               /\ new[PlanName[l]] = l
               /\ \A p \in Plan : p # PlanName[l] => new[p] = data[p]
               /\ \A p \in Plan : data[p] # NoLicense => new[p] # NoLicense
<1> DEFINE new == [data EXCEPT ![PlanName[l]] = l]
<1>1. PlanName[l] \in Plan /\ NoLicense \notin License
  BY AcquirerAssumption, LicenseAssumption
<1>2. new[PlanName[l]] = l /\ \A p \in Plan : p # PlanName[l] => new[p] = data[p]
  BY <1>1 DEF Data
<1> HIDE DEF new
<1>3. ByPlan(new)
  BY <1>1, <1>2 DEF ByPlan
<1>4. \A p \in Plan : data[p] # NoLicense => new[p] # NoLicense
  BY <1>1, <1>2
<1> QED
  BY <1>2, <1>3, <1>4 DEF new

LEMMA StateTyped ==
    ASSUME IInv
    PROVE  /\ now \in Nat /\ wanted \subseteq Feature
           /\ secret \in SecretState /\ view \in SecretState
           /\ timer \in Nat \cup {NoTimer} /\ round \in RoundState
           /\ faults \in 0..MaxFaults
           /\ \A l \in License : NotAfter[l] \in Int
           /\ TTL \in Int
  BY LicenseAssumption DEF IInv, TypeOK, MethodsTypeOK

LEMMA FaultTyped == ASSUME IInv, Fault PROVE faults' \in 0..MaxFaults
  BY AcquirerAssumption DEF IInv, TypeOK, Fault

-----------------------------------------------------------------------------
(* The inductive invariant, one step after another. *)

LEMMA InitIInv == ASSUME Init PROVE IInv
<1>1. /\ now = 0 /\ reg = EmptyReg /\ store = {} /\ rb = EmptyBook
      /\ cache = [l \in License |-> "none"]
      /\ wanted = {} /\ secret = NoSecret /\ view = NoSecret
      /\ timer = NoTimer /\ round = IdleRound /\ faults = 0
  BY DEF Init
<1>2. queued = TRUE /\ queued \in BOOLEAN
  BY Zenon DEF Init
<1>3. RegInv
  BY <1>1, EmptyRegInv DEF EmptyBook, FileState
<1>4. TypeOK
  BY <1>1, <1>2, <1>3, IdleRoundFacts, AcquirerAssumption
  DEF TypeOK, RegInv, SecretState
<1>5. /\ round.pc = "idle" /\ round.got = {} /\ round.met = {} /\ ByPlan(round.data)
      /\ round.base = NoSecret
  BY <1>1, IdleRoundFacts
<1> QED
  BY <1>1, <1>3, <1>4, <1>5
  DEF IInv, PlanInv, FoundInv, BaseInv, BaseKept, CopyOf, HasFirst, WakesInTime,
      FoundIsDelivered

(* Steps of others: no round goes on and nothing is written.  What wakes the *)
(* acquirer up is only given up for its place in the queue.                  *)
LEMMA OutsideIInv ==
    ASSUME IInv, RegInv', now' \in Nat, now <= now', UNCHANGED <<secret, round>>,
           wanted' \subseteq Feature, view' \in {view, secret},
           queued' = TRUE \/ (queued' = queued /\ timer' = timer),
           timer' \in Nat \cup {NoTimer}, faults' \in 0..MaxFaults
    PROVE  IInv'
<1>1. queued' \in BOOLEAN
  BY Zenon DEF IInv, TypeOK
<1>2. TypeOK'
  BY <1>1, StateTyped DEF IInv, TypeOK, RegInv
<1>3. PlanInv'
  BY DEF IInv, PlanInv, ByPlan
<1>4. FoundInv' /\ HasFirst' /\ FoundIsDelivered'
  BY DEF IInv, FoundInv, HasFirst, FoundIsDelivered, Covers, Displaced
<1>6. BaseInv'
  <2>1. CopyOf(secret, secret)
    BY StateTyped DEF CopyOf, SecretState, Secret
  <2>2. CopyOf(secret, view') /\ CopyOf(secret, round.base) /\ BaseKept
    BY <2>1 DEF IInv, BaseInv
  <2> QED
    BY <2>2 DEF BaseInv, BaseKept, CopyOf
<1>5. WakesInTime'
  <2> SUFFICES ASSUME round.pc = "idle", ~queued', ~round.err
               PROVE  \/ \A l \in round.got : timer' # NoTimer /\ timer' <= NotAfter[l] - TTL
                      \/ \E l \in round.got : NotAfter[l] - TTL <= now'
    BY DEF WakesInTime
  <2>1. ~queued /\ timer' = timer
    OBVIOUS
  <2>2. \/ \A l \in round.got : timer # NoTimer /\ timer <= NotAfter[l] - TTL
        \/ \E l \in round.got : NotAfter[l] - TTL <= now
    BY <2>1 DEF IInv, WakesInTime
  <2>3. round.got \subseteq License
    BY RoundTyped DEF IInv
  <2> QED
    BY <2>1, <2>2, <2>3, StateTyped
<1> QED
  BY <1>2, <1>3, <1>4, <1>5, <1>6 DEF IInv

LEMMA OutsideStepsIInv ==
    ASSUME IInv, \/ Advance \/ Resync \/ TimerFires \/ SyncView
                 \/ \E f \in Feature : ClaimArrives(f)
                 \/ UNCHANGED vars
    PROVE  IInv'
<1>1. CASE Advance
  <2>1. Tick /\ UNCHANGED <<wanted, secret, view, queued, timer, round, faults>>
    BY <1>1 DEF Advance, acqVars
  <2>2. RegInv' /\ now' \in Nat /\ now <= now'
    BY <2>1, TickRegInv DEF IInv, Remembers
  <2> QED
    BY <2>1, <2>2, OutsideIInv, StateTyped
<1>2. ASSUME UNCHANGED regVars PROVE RegInv' /\ now' \in Nat /\ now <= now'
  BY <1>2, IdleRegInv DEF IInv, Remembers
<1>3. CASE Resync
  <2>1. UNCHANGED regVars /\ UNCHANGED <<wanted, secret, view, timer, round, faults>>
    BY <1>3 DEF Resync
  <2>2. queued' = TRUE
    BY <1>3, Zenon DEF Resync
  <2> QED
    BY <1>2, <2>1, <2>2, OutsideIInv, StateTyped
<1>4. CASE TimerFires
  <2>1. /\ UNCHANGED regVars /\ UNCHANGED <<wanted, secret, view, round, faults>>
        /\ timer' = NoTimer
    BY <1>4 DEF TimerFires
  <2>2. queued' = TRUE
    BY <1>4, Zenon DEF TimerFires
  <2> QED
    BY <1>2, <2>1, <2>2, OutsideIInv, StateTyped
<1>5. CASE SyncView
  <2>1. /\ UNCHANGED regVars /\ UNCHANGED <<wanted, secret, queued, timer, round, faults>>
        /\ view' = secret
    BY <1>5 DEF SyncView
  <2> QED
    BY <1>2, <2>1, OutsideIInv, StateTyped
<1>6. CASE \E f \in Feature : ClaimArrives(f)
  <2>1. PICK f \in Feature : ClaimArrives(f)
    BY <1>6
  <2>2. /\ UNCHANGED regVars /\ UNCHANGED <<secret, view, timer, round, faults>>
        /\ wanted' = wanted \cup {f}
    BY <2>1 DEF ClaimArrives
  <2>3. queued' = TRUE
    BY <2>1, Zenon DEF ClaimArrives
  <2> QED
    BY <1>2, <2>2, <2>3, OutsideIInv, StateTyped
<1>7. CASE UNCHANGED vars
  BY <1>2, <1>7, OutsideIInv, StateTyped DEF vars, acqVars
<1> QED
  BY <1>1, <1>3, <1>4, <1>5, <1>6, <1>7

(* A step of a round that goes on. *)
LEMMA InRoundIInv ==
    ASSUME IInv, RegInv', UNCHANGED <<wanted, secret, view, timer>>,
           queued' \in BOOLEAN, faults' \in 0..MaxFaults, round' \in RoundState,
           round'.pc # "idle", ByPlan(round'.data), HasFirst', FoundInv',
           round'.base \in {round.base, view}, BaseKept'
    PROVE  IInv'
<1>1. TypeOK'
  BY StateTyped DEF TypeOK, RegInv
<1>2. PlanInv'
  BY DEF IInv, PlanInv, ByPlan
<1>4. BaseInv'
  <2>1. CopyOf(secret, view) /\ CopyOf(secret, round'.base)
    BY DEF IInv, BaseInv
  <2> QED
    BY <2>1 DEF BaseInv, CopyOf
<1>3. WakesInTime' /\ FoundIsDelivered'
  BY DEF WakesInTime, FoundIsDelivered
<1> QED
  BY <1>1, <1>2, <1>3, <1>4 DEF IInv

LEMMA BeginIInv == ASSUME IInv, Begin PROVE IInv'
<1>1. /\ round.pc = "idle" /\ UNCHANGED regVars
      /\ UNCHANGED <<wanted, secret, view, timer, faults>>
  BY DEF Begin
<1>2. queued' \in BOOLEAN
  BY Zenon DEF Begin
<1>3. RegInv'
  BY <1>1, IdleRegInv DEF IInv
<1>4. CASE wanted = {}
  <2>1. round' = IdleRound
    BY <1>4 DEF Begin
  <2>2. /\ round' \in RoundState /\ round'.pc = "idle" /\ round'.got = {}
        /\ round'.met = {} /\ ByPlan(round'.data) /\ round'.base = NoSecret
    BY <2>1, IdleRoundFacts
  <2>3. TypeOK'
    BY <1>1, <1>2, <1>3, <2>2, StateTyped DEF TypeOK, RegInv
  <2>4. PlanInv' /\ FoundInv' /\ BaseInv' /\ HasFirst'
    BY <1>1, <2>2 DEF IInv, PlanInv, ByPlan, FoundInv, BaseInv, BaseKept, CopyOf, HasFirst
  <2>5. WakesInTime' /\ FoundIsDelivered'
    BY <2>2 DEF WakesInTime, FoundIsDelivered
  <2> QED
    BY <1>3, <2>3, <2>4, <2>5 DEF IInv
<1>5. CASE wanted # {}
  <2> DEFINE d == IF view = NoSecret THEN NoData ELSE view.data
  <2>1. round' = [IdleRound EXCEPT !.pc = "feature", !.todo = wanted, !.base = view,
                                   !.data = d]
    BY <1>5 DEF Begin
  <2>2. d \in Data /\ ByPlan(d)
    <3>1. CASE view = NoSecret
      BY <3>1, IdleRoundFacts DEF NoData, Data
    <3>2. CASE view # NoSecret
      BY <3>2, StateTyped DEF SecretState, Secret, IInv, PlanInv
    <3> QED
      BY <3>1, <3>2
  <2> HIDE DEF d
  <2>3. /\ round'.pc = "feature" /\ round'.met = {} /\ round'.got = {}
        /\ round'.data = d /\ round'.base = view
    BY <2>1 DEF IdleRound
  <2>4. round' \in RoundState
    BY <2>1, <2>2, IdleRoundFacts, StateTyped DEF RoundState
  <2>5. HasFirst' /\ FoundInv'
    BY <2>3 DEF HasFirst, FoundInv
  <2>6. BaseKept'
    BY <2>3 DEF BaseKept, d
  <2> QED
    BY <1>1, <1>2, <1>3, <2>2, <2>3, <2>4, <2>5, <2>6, InRoundIInv, StateTyped
<1> QED
  BY <1>4, <1>5

(* The loop body for a feature with a license, from the registry or new. *)
LEMMA MergedIInv ==
    ASSUME IInv, RegInv', NEW f \in Feature, NEW l \in License, f \in FeaturesOf[l],
           round.pc # "idle", round' = Merged(round, f, l),
           UNCHANGED <<wanted, secret, view, queued, timer, faults>>
    PROVE  IInv'
<1> DEFINE new == [round.data EXCEPT ![PlanName[l]] = l]
<1>1. /\ round' \in RoundState /\ round'.pc = "feature"
      /\ round'.met = round.met \cup {f} /\ round'.got = round.got \cup {l}
      /\ round'.data = new /\ round'.base = round.base
  BY MergedTyped DEF IInv
<1>2. round.data \in Data /\ ByPlan(round.data) /\ round.got \subseteq License
  BY RoundTyped DEF IInv, PlanInv
<1>3. /\ ByPlan(new) /\ new[PlanName[l]] = l
      /\ \A p \in Plan : p # PlanName[l] => new[p] = round.data[p]
      /\ \A p \in Plan : round.data[p] # NoLicense => new[p] # NoLicense
  BY <1>2, MergedData
<1> HIDE DEF new
<1>4. FoundInv'
  <2>1. \A g \in round.met \cup {f} : \E k \in round.got \cup {l} : g \in FeaturesOf[k]
    BY DEF IInv, FoundInv
  <2>2. ASSUME NEW k \in round.got \cup {l} PROVE new[PlanName[k]] \in round.got \cup {l}
    <3>1. CASE PlanName[k] = PlanName[l]
      BY <1>3, <3>1
    <3>2. CASE PlanName[k] # PlanName[l]
      <4>1. k \in round.got /\ PlanName[k] \in Plan
        BY <1>2, <3>2, AcquirerAssumption
      <4> QED
        BY <1>3, <3>2, <4>1 DEF IInv, FoundInv
    <3> QED
      BY <3>1, <3>2
  <2> QED
    BY <1>1, <2>1, <2>2 DEF FoundInv
<1>7. BaseKept'
  BY <1>1, <1>3 DEF IInv, BaseInv, BaseKept
<1>5. HasFirst'
  <2> SUFFICES \E m \in round.got \cup {l} : \A k \in round.got \cup {l} :
                  NotAfter[m] <= NotAfter[k]
    BY <1>1 DEF HasFirst
  <2>1. \A k \in round.got \cup {l} : NotAfter[k] \in Int
    BY <1>2, StateTyped
  <2>2. CASE round.got = {}
    BY <2>1, <2>2
  <2>3. CASE \E m \in round.got : \A k \in round.got : NotAfter[m] <= NotAfter[k]
    <3>1. PICK m \in round.got : \A k \in round.got : NotAfter[m] <= NotAfter[k]
      BY <2>3
    <3>2. CASE NotAfter[m] <= NotAfter[l]
      BY <3>1, <3>2
    <3>3. CASE NotAfter[l] <= NotAfter[m]
      <4>1. \A k \in round.got \cup {l} : NotAfter[l] <= NotAfter[k]
        BY <2>1, <3>1, <3>3
      <4> QED
        BY <4>1
    <3> QED
      BY <2>1, <3>2, <3>3
  <2> QED
    BY <2>2, <2>3 DEF IInv, HasFirst
<1>6. queued' \in BOOLEAN
  BY Zenon DEF IInv, TypeOK
<1> QED
  BY <1>1, <1>3, <1>4, <1>5, <1>6, <1>7, InRoundIInv, StateTyped

LEMMA LookupFeatureIInv == ASSUME IInv, NEW f \in Feature, LookupFeature(f) PROVE IInv'
<1>1. PICK l \in License \cup {NoLicense} :
         /\ LicenseForFeature(f, l)
         /\ round' = IF l # NoLicense THEN Merged(round, f, l)
                     ELSE [round EXCEPT !.pc = "acquire", !.feature = {f}]
  BY DEF LookupFeature
<1>2. round.pc = "feature" /\ UNCHANGED <<wanted, secret, view, queued, timer, faults>>
  BY DEF LookupFeature
<1>3. RegInv' /\ (l # NoLicense => l \in License /\ f \in FeaturesOf[l])
  BY <1>1, LicenseForFeatureRegInv DEF IInv
<1>4. CASE l # NoLicense
  BY <1>1, <1>2, <1>3, <1>4, MergedIInv
<1>5. CASE l = NoLicense
  <2>1. round' = [round EXCEPT !.pc = "acquire", !.feature = {f}]
    BY <1>1, <1>5
  <2>2. round \in RoundState
    BY StateTyped
  <2>3. /\ round' \in RoundState /\ round'.pc = "acquire" /\ round'.got = round.got
        /\ round'.met = round.met /\ round'.data = round.data /\ round'.base = round.base
    BY <2>1, <2>2 DEF RoundState
  <2>4. queued' \in BOOLEAN
    BY <1>2, Zenon DEF IInv, TypeOK
  <2>5. HasFirst' /\ ByPlan(round'.data) /\ FoundInv' /\ BaseKept'
    BY <1>2, <2>3 DEF IInv, HasFirst, PlanInv, FoundInv, BaseInv, BaseKept
  <2> QED
    BY <1>2, <1>3, <2>3, <2>4, <2>5, InRoundIInv, StateTyped
<1> QED
  BY <1>4, <1>5

LEMMA AcquireFeatureIInv ==
    ASSUME IInv, NEW f \in Feature, NEW l \in License, AcquireFeature(f, l) PROVE IInv'
<1>1. /\ round.pc # "idle" /\ f \in FeaturesOf[l] /\ Add(l)
      /\ round' = Merged(round, f, l)
      /\ UNCHANGED <<wanted, secret, view, queued, timer, faults>>
  BY DEF AcquireFeature, Offered
<1>2. RegInv'
  BY <1>1, AddRegInv DEF IInv
<1> QED
  BY <1>1, <1>2, MergedIInv

LEMMA FailedIInv ==
    ASSUME IInv, NEW f \in Feature, round.pc = "acquire", round' = Failed(round, f),
           UNCHANGED regVars, UNCHANGED <<wanted, secret, view, queued, timer>>,
           faults' \in 0..MaxFaults
    PROVE  IInv'
<1>1. round \in RoundState /\ RegInv'
  BY StateTyped, IdleRegInv DEF IInv
<1>2. /\ round'.pc = "feature" /\ round'.got = round.got
      /\ round'.met = round.met /\ round'.data = round.data /\ round'.base = round.base
  BY <1>1 DEF RoundState, Failed
<1>3. round' \in RoundState
  BY <1>1 DEF RoundState, Failed
<1>4. queued' \in BOOLEAN
  BY Zenon DEF IInv, TypeOK
<1>5. HasFirst' /\ ByPlan(round'.data) /\ FoundInv' /\ BaseKept'
  BY <1>2 DEF IInv, HasFirst, PlanInv, FoundInv, BaseInv, BaseKept
<1> QED
  BY <1>1, <1>2, <1>3, <1>4, <1>5, InRoundIInv

LEMMA AcquireFailuresIInv ==
    ASSUME IInv, NEW f \in Feature, AcquireRefused(f) \/ AcquireFails(f) PROVE IInv'
<1>1. CASE AcquireRefused(f)
  BY <1>1, FailedIInv, StateTyped DEF AcquireRefused
<1>2. CASE AcquireFails(f)
  BY <1>2, FailedIInv, FaultTyped DEF AcquireFails
<1> QED
  BY <1>1, <1>2

-----------------------------------------------------------------------------
(* The end of a round. *)

(* RequeueAfter: a timer in time for the first license to get short, or one  *)
(* of the round's licenses is short already.                                 *)
LEMMA TimerInTime ==
    ASSUME IInv
    PROVE  /\ TimerAfter(round.got) \in Nat \cup {NoTimer}
           /\ \/ \A l \in round.got : /\ TimerAfter(round.got) # NoTimer
                                      /\ TimerAfter(round.got) <= NotAfter[l] - TTL
              \/ \E l \in round.got : NotAfter[l] - TTL <= now
<1>1. /\ now \in Nat /\ timer \in Nat \cup {NoTimer} /\ TTL \in Int
      /\ NoTimer \notin Nat
      /\ \A l \in round.got : NotAfter[l] \in Int
  BY StateTyped, RoundTyped, AbsentAssumption DEF IInv
<1>2. CASE round.got = {}
  BY <1>1, <1>2 DEF TimerAfter
<1>3. CASE round.got # {}
  <2> DEFINE D == {NotAfter[l] : l \in round.got}
             due == Min(D) - TTL
  <2>1. PICK m \in round.got : \A l \in round.got : NotAfter[m] <= NotAfter[l]
    BY <1>3 DEF IInv, HasFirst
  <2>2. Min(D) \in D /\ \A x \in D : Min(D) <= x
    BY <2>1 DEF Min
  <2>3. PICK k \in round.got : Min(D) = NotAfter[k]
    BY <2>2
  <2>4. due \in Int /\ due = NotAfter[k] - TTL /\ \A l \in round.got : due <= NotAfter[l] - TTL
    <3>1. NotAfter[k] \in Int /\ due = NotAfter[k] - TTL
      BY <1>1, <2>3
    <3>2. \A l \in round.got : NotAfter[k] <= NotAfter[l]
      BY <2>2, <2>3
    <3> HIDE DEF due
    <3> QED
      BY <1>1, <3>1, <3>2
  <2>5. TimerAfter(round.got) =
           IF due > now /\ (timer = NoTimer \/ due < timer) THEN due ELSE timer
    BY <1>3 DEF TimerAfter
  <2> HIDE DEF due, D
  <2>6. CASE due <= now
    BY <1>1, <2>4, <2>5, <2>6
  <2>7. CASE due > now /\ (timer = NoTimer \/ due < timer)
    BY <1>1, <2>4, <2>5, <2>7
  <2>8. CASE due > now /\ timer # NoTimer /\ timer <= due
    BY <1>1, <2>4, <2>5, <2>8
  <2> QED
    BY <1>1, <2>4, <2>6, <2>7, <2>8
<1> QED
  BY <1>2, <1>3

(* A write that changes the secret leaves older copies behind. *)
LEMMA NewerCopyOf ==
    ASSUME secret \in SecretState, secret' \in SecretState,
           \/ secret' = secret
           \/ secret' # NoSecret /\ (secret # NoSecret => secret.version < secret'.version),
           NEW c \in SecretState, CopyOf(secret, c)
    PROVE  CopyOf(secret', c)
<1> SUFFICES ASSUME secret' # secret, c # NoSecret
             PROVE  /\ secret' # NoSecret /\ c.version < secret'.version
                    /\ c.version \in Nat /\ secret'.version \in Nat
  BY DEF CopyOf
<1>1. secret' # NoSecret /\ secret.version < secret'.version /\ c.version <= secret.version
  BY DEF CopyOf
<1>2. secret # NoSecret
  BY DEF CopyOf
<1>3. c.version \in Nat /\ secret.version \in Nat /\ secret'.version \in Nat
  BY <1>1, <1>2 DEF SecretState, Secret
<1> QED
  BY <1>1, <1>3

LEMMA FinishIInv ==
    ASSUME IInv, round.pc = "feature", NEW refused \in BOOLEAN, Finish(refused),
           UNCHANGED regVars, UNCHANGED <<wanted, view>>, faults' \in 0..MaxFaults,
           secret' \in SecretState, secret' # NoSecret => ByPlan(secret'.data),
           \/ secret' = secret
           \/ secret' # NoSecret /\ (secret # NoSecret => secret.version < secret'.version),
           ~refused => secret' # NoSecret /\ secret'.data = round.data
    PROVE  IInv'
<1>1. round \in RoundState /\ RegInv' /\ now' = now
  BY StateTyped, IdleRegInv DEF IInv, regVars
<1>2. round' = [round EXCEPT !.pc = "idle", !.err = @ \/ refused, !.refused = refused]
  BY DEF Finish
<1>3. /\ round'.pc = "idle" /\ round'.got = round.got
      /\ round'.met = round.met /\ round'.data = round.data /\ round'.base = round.base
  BY <1>1, <1>2 DEF RoundState
<1>4. /\ round'.refused = refused
      /\ round'.err = (round.err \/ refused)
  BY <1>1, <1>2, Zenon DEF RoundState
<1>5. round' \in RoundState
  BY <1>1, <1>2, FlagsTyped, Zenon DEF IInv, RoundState
<1>6. \/ queued' = TRUE /\ timer' = timer
      \/ ~round.err /\ ~refused /\ timer' = TimerAfter(round.got) /\ queued' = queued
  BY Zenon DEF Finish
<1>7. queued' \in BOOLEAN
  BY <1>6, Zenon DEF IInv, TypeOK
<1>8. timer' \in Nat \cup {NoTimer}
  BY <1>6, TimerInTime, StateTyped
<1>9. TypeOK'
  BY <1>1, <1>5, <1>7, <1>8, StateTyped DEF TypeOK, RegInv
<1>10. PlanInv' /\ FoundInv' /\ HasFirst'
  BY <1>3 DEF IInv, PlanInv, ByPlan, FoundInv, HasFirst
<1>11. FoundIsDelivered'
  <2> SUFFICES ASSUME ~refused
               PROVE  /\ \A l \in round.got : /\ secret' # NoSecret
                                              /\ secret'.data[PlanName[l]] \in round.got
                      /\ \A f \in round.met : Covers(secret'.data, f) \/ Displaced(f)'
    BY <1>3, <1>4, Zenon DEF FoundIsDelivered
  <2>1. secret' # NoSecret /\ secret'.data = round.data
    OBVIOUS
  <2>2. \A l \in round.got : round.data[PlanName[l]] \in round.got
    BY DEF IInv, FoundInv
  <2>3. ASSUME NEW f \in round.met PROVE Covers(secret'.data, f) \/ Displaced(f)'
    <3>1. PICK l \in round.got : f \in FeaturesOf[l]
      BY DEF IInv, FoundInv
    <3> DEFINE m == round.data[PlanName[l]]
    <3>2. m \in round.got /\ m \in License /\ m # NoLicense /\ PlanName[l] \in Plan
      BY <2>2, RoundTyped, AcquirerAssumption, LicenseAssumption DEF IInv
    <3>3. PlanName[m] = PlanName[l]
      BY <3>2 DEF IInv, PlanInv, ByPlan
    <3>4. secret'.data[PlanName[l]] = m
      BY <2>1
    <3> HIDE DEF m
    <3>5. CASE f \in FeaturesOf[m]
      BY <3>2, <3>4, <3>5 DEF Covers
    <3>6. CASE f \notin FeaturesOf[m]
      BY <1>3, <3>1, <3>2, <3>3, <3>4, <3>6 DEF Displaced
    <3> QED
      BY <3>5, <3>6
  <2> QED
    BY <2>1, <2>2, <2>3
<1>13. BaseInv'
  <2>1. ASSUME NEW c \in SecretState, CopyOf(secret, c) PROVE CopyOf(secret', c)
    BY <2>1, NewerCopyOf, StateTyped
  <2>2. CopyOf(secret', view) /\ CopyOf(secret', round.base)
    BY <2>1, StateTyped, RoundTyped DEF IInv, BaseInv
  <2> QED
    BY <1>3, <2>2 DEF BaseInv, BaseKept, CopyOf
<1>12. WakesInTime'
  <2> SUFFICES ASSUME ~queued'
               PROVE  \/ \A l \in round.got : timer' # NoTimer /\ timer' <= NotAfter[l] - TTL
                      \/ \E l \in round.got : NotAfter[l] - TTL <= now
    BY <1>1, <1>3, Zenon DEF WakesInTime
  <2>1. timer' = TimerAfter(round.got)
    BY <1>6, Zenon
  <2> QED
    BY <2>1, TimerInTime
<1> QED
  BY <1>1, <1>9, <1>10, <1>11, <1>12, <1>13 DEF IInv

(* A write that is not outdated leaves the round's data in the secret. *)
LEMMA StoreWrites ==
    ASSUME IInv, NEW data \in Data, Store(data)
    PROVE  /\ secret' \in Secret /\ secret'.data = data
           /\ secret' = secret \/ (secret # NoSecret => secret.version < secret'.version)
<1>1. CASE secret # NoSecret /\ secret.data = data
  BY <1>1, StateTyped DEF Store, SecretState
<1>2. CASE ~(secret # NoSecret /\ secret.data = data)
  <2> DEFINE v == IF secret = NoSecret THEN 1 ELSE secret.version + 1
  <2>1. v <= MaxVersion /\ secret' = [data |-> data, version |-> v]
    BY <1>2 DEF Store
  <2>2. secret # NoSecret => secret.version \in 1..MaxVersion
    BY StateTyped DEF SecretState, Secret
  <2>3. v \in 1..MaxVersion
    BY <2>1, <2>2, AcquirerAssumption
  <2>4. secret # NoSecret => secret.version < v
    BY <2>2
  <2> HIDE DEF v
  <2> QED
    BY <2>1, <2>3, <2>4 DEF Secret
<1> QED
  BY <1>1, <1>2

LEMMA WriteSecretIInv == ASSUME IInv, WriteSecret PROVE IInv'
<1>1. /\ round.pc = "feature" /\ UNCHANGED regVars /\ UNCHANGED <<wanted, view, faults>>
      /\ IF Refused THEN UNCHANGED secret ELSE Store(round.data)
  BY DEF WriteSecret, RoundDone
<1>2. Finish(Refused) /\ Refused \in BOOLEAN
  BY Zenon DEF WriteSecret, Refused, Outdated, Nameless
<1>3. faults' \in 0..MaxFaults /\ round.data \in Data /\ ByPlan(round.data)
  BY <1>1, StateTyped, RoundTyped DEF IInv, PlanInv
<1>4. CASE Refused
  <2>1. secret' = secret
    BY <1>1, <1>4
  <2>2. secret' \in SecretState /\ (secret' # NoSecret => ByPlan(secret'.data))
    BY <2>1, StateTyped DEF IInv, PlanInv
  <2> QED
    BY <1>1, <1>2, <1>3, <1>4, <2>1, <2>2, FinishIInv
<1>5. CASE ~Refused
  <2>1. /\ secret' \in Secret /\ secret'.data = round.data
        /\ secret' = secret \/ (secret # NoSecret => secret.version < secret'.version)
    BY <1>1, <1>3, <1>5, StoreWrites
  <2>2. secret' \in SecretState /\ secret' # NoSecret /\ ByPlan(secret'.data)
    BY <1>3, <2>1, AbsentAssumption DEF SecretState
  <2> QED
    BY <1>1, <1>2, <1>3, <1>5, <2>1, <2>2, FinishIInv
<1> QED
  BY <1>4, <1>5

LEMMA WriteFailsIInv == ASSUME IInv, WriteFails PROVE IInv'
<1>1. /\ round.pc = "feature" /\ Finish(TRUE) /\ UNCHANGED regVars
      /\ UNCHANGED <<wanted, view>> /\ secret' = secret /\ faults' \in 0..MaxFaults
  BY FaultTyped DEF WriteFails, RoundDone
<1>2. secret' \in SecretState /\ (secret' # NoSecret => ByPlan(secret'.data))
  BY <1>1, StateTyped DEF IInv, PlanInv
<1> QED
  BY <1>1, <1>2, FinishIInv

LEMMA RestartIInv == ASSUME IInv, Restart PROVE IInv'
<1>1. /\ store' = {} /\ reg' = EmptyReg /\ view' = secret /\ timer' = NoTimer
      /\ round' = IdleRound /\ UNCHANGED <<now, rb, cache, wanted, secret>> /\ Fault
  BY DEF Restart
<1>2. queued' = TRUE /\ queued' \in BOOLEAN
  BY Zenon DEF Restart
<1>3. /\ now' \in Nat /\ rb' \in [License -> Usage \cup {NoUsage}]
      /\ cache' \in [License -> FileState] /\ 0 \in 0..MaxCopies
  BY <1>1, RegistryAssumption DEF IInv, RegInv, MethodsTypeOK
<1>4. RegInv'
  BY <1>1, <1>3
  DEF RegInv, MethodsTypeOK, StoredIsQueued, QueuedLiveIsKnown, EmptyReg, Queued
<1>5. faults' \in 0..MaxFaults
  BY <1>1, FaultTyped
<1>6. /\ round' \in RoundState /\ round'.pc = "idle" /\ round'.got = {}
      /\ round'.met = {} /\ ByPlan(round'.data) /\ round'.base = NoSecret
  BY <1>1, IdleRoundFacts
<1>7. TypeOK'
  BY <1>1, <1>2, <1>4, <1>5, <1>6, StateTyped DEF TypeOK, RegInv
<1>8. PlanInv' /\ FoundInv' /\ HasFirst' /\ WakesInTime' /\ FoundIsDelivered'
  BY <1>1, <1>6 DEF IInv, PlanInv, ByPlan, FoundInv, HasFirst, WakesInTime,
     FoundIsDelivered
<1>9. BaseInv'
  <2>1. CopyOf(secret, secret)
    BY StateTyped DEF CopyOf, SecretState, Secret
  <2> QED
    BY <1>1, <1>6, <2>1 DEF BaseInv, BaseKept, CopyOf
<1> QED
  BY <1>4, <1>7, <1>8, <1>9 DEF IInv

LEMMA NextIInv == ASSUME IInv, [Next]_vars PROVE IInv'
  BY OutsideStepsIInv, BeginIInv, LookupFeatureIInv, AcquireFeatureIInv,
     AcquireFailuresIInv, WriteSecretIInv, WriteFailsIInv, RestartIInv
  DEF Next, Reconcile

-----------------------------------------------------------------------------
(* The inductive invariant holds of the acquirer for any licenses, claims    *)
(* and faults.                                                               *)
THEOREM Invariance == Spec => []IInv
<1>1. Init => IInv
  BY InitIInv
<1>2. IInv /\ [Next]_vars => IInv'
  BY NextIInv
<1> QED
  BY <1>1, <1>2, PTL DEF Spec

(* Type correctness of the acquirer: its registry, the secret and the        *)
(* informer's copy of it, and the round of Reconcile.                        *)
THEOREM TypeCorrect == Spec => []TypeOK
<1>1. IInv => TypeOK
  BY DEF IInv
<1> QED
  BY <1>1, Invariance, PTL

(* After a round of Reconcile without error the cluster comes back before    *)
(* the first license of the round gets short, unless one is short already    *)
(* and RequeueAfter is not positive.                                         *)
THEOREM RequeuedInTime == Spec => []WakesInTime
<1>1. IInv => WakesInTime
  BY DEF IInv
<1> QED
  BY <1>1, Invariance, PTL

(* When Update or Create of the license secret goes through, each plan of a  *)
(* license the round found has one of the round's licenses, and the secret   *)
(* covers all features the round found a license for, but for those whose    *)
(* license made room for one of the same plan name without the feature.      *)
THEOREM FoundAreDelivered == Spec => []FoundIsDelivered
<1>1. IInv => FoundIsDelivered
  BY DEF IInv
<1> QED
  BY <1>1, Invariance, PTL

(* A write that goes through started from the very secret it replaces. *)
LEMMA WritesOnCurrent ==
    ASSUME IInv, WriteSecret, ~Refused, secret # NoSecret
    PROVE  /\ secret' # NoSecret /\ secret'.data = round.data
           /\ \A p \in Plan : secret.data[p] # NoLicense => round.data[p] # NoLicense
<1>1. round.pc = "feature" /\ Store(round.data) /\ ~Outdated /\ round.data \in Data
  BY RoundTyped DEF WriteSecret, RoundDone, Refused, IInv
<1>2. secret' \in Secret /\ secret'.data = round.data
  BY <1>1, StoreWrites
<1>3. round.base # NoSecret /\ secret.version = round.base.version
  BY <1>1 DEF Outdated
<1>4. round.base.data = secret.data
  BY <1>3 DEF IInv, BaseInv, CopyOf
<1> QED
  BY <1>1, <1>2, <1>3, <1>4, AbsentAssumption DEF IInv, BaseInv, BaseKept

(* From whichever copy of the secret Reconcile starts and whatever it finds, *)
(* no plan loses its license but for another one of the plan.                *)
THEOREM PlansStay == Spec => PlansAreKept
<1> DEFINE Step ==
      secret # NoSecret =>
          /\ secret' # NoSecret
          /\ \A p \in Plan : secret.data[p] # NoLicense =>
                /\ secret'.data[p] # NoLicense
                /\ PlanName[secret'.data[p]] = p
<1>1. ASSUME IInv, [Next]_vars, secret # NoSecret PROVE Step
  <2>1. CASE secret' = secret
    BY <1>1, <2>1 DEF IInv, PlanInv, ByPlan
  <2>2. CASE WriteSecret /\ ~Refused
    <3>1. ByPlan(round.data)
      BY <1>1 DEF IInv, PlanInv
    <3> QED
      BY <1>1, <2>2, <3>1, WritesOnCurrent DEF ByPlan
  <2>3. secret' = secret \/ (WriteSecret /\ ~Refused)
    BY <1>1 DEF Next, Reconcile, Advance, Resync, TimerFires, SyncView, ClaimArrives,
       AcquireFails, Begin, LookupFeature, AcquireRefused, AcquireFeature, WriteSecret,
       WriteFails, Restart, acqVars, vars
  <2> QED
    BY <2>1, <2>2, <2>3
<1>2. IInv /\ [Next]_vars => [Step]_vars
  BY <1>1
<1> QED
  BY <1>2, Invariance, PTL DEF Spec, PlansAreKept
=============================================================================
