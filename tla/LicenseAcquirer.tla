-------------------------- MODULE LicenseAcquirer ---------------------------
(* The hub's LicenseAcquirer for one managed cluster: it reads the features  *)
(* the cluster claims, finds or acquires a license for each, writes them     *)
(* into the cluster's license secret keyed by plan, and comes back before    *)
(* the first of them gets short.  The registry is the hub's one for this     *)
(* cluster, with a ttl of MinRemainingLife + LicenseAcquisitionBuffer and no *)
(* usage book.  Around it: the work queue of controller-runtime, the         *)
(* informer that secrets are read from, the license server.                  *)
EXTENDS RegistryMethods, FiniteSets, FiniteSetsExt

CONSTANTS
    Plan,        \* plan names
    PlanName,    \* License.PlanName
    Place,       \* where the sorted claim has a feature
    Issued,      \* licenses the license server can answer with
    Claimable,   \* features the cluster may come to claim
    NoSecret,    \* the license secret does not exist
    NoTimer,     \* no delayed requeue is pending
    MaxVersion,  \* bound on the writes of the secret
    MaxFaults    \* bound on crashes and failing calls

ASSUME AcquirerAssumption ==
    /\ PlanName \in [License -> Plan]
    /\ Place \in [Feature -> Nat]
    /\ Issued \subseteq License
    /\ Claimable \subseteq Feature
    /\ MaxVersion \in Nat /\ MaxFaults \in Nat

VARIABLES
    wanted,   \* the license claim in the ManagedCluster's status
    secret,   \* the license secret: plan -> license, and its version
    view,     \* the informer's copy of it
    queued,   \* the cluster is in the work queue
    timer,    \* when the delayed requeue is due
    round,    \* the reconcile in progress, or the last one
    faults    \* crashes and failing calls so far

acqVars == <<wanted, secret, view, queued, timer, round, faults>>
vars == <<regVars, acqVars>>

Data == [Plan -> License \cup {NoLicense}]
Secret == [data : Data, version : 1..MaxVersion]
SecretState == {NoSecret} \cup Secret
NoData == [p \in Plan |-> NoLicense]

ASSUME AbsentAssumption == NoSecret \notin Secret /\ NoTimer \notin Nat

(* got: licenses merged; met: features they were found for; err: errList has *)
(* an error; base: the secret read; refused: the write did not go through.   *)
IdleRound == [pc |-> "idle", todo |-> {}, feature |-> {}, data |-> NoData,
              base |-> NoSecret, got |-> {}, met |-> {}, err |-> FALSE,
              refused |-> FALSE]
RoundState == [pc : {"idle", "feature", "acquire"}, todo : SUBSET Feature,
               feature : SUBSET Feature, data : Data, base : SecretState,
               got : SUBSET License, met : SUBSET Feature, err : BOOLEAN,
               refused : BOOLEAN]

TypeOK == /\ MethodsTypeOK
          /\ wanted \subseteq Feature
          /\ secret \in SecretState /\ view \in SecretState
          /\ queued \in BOOLEAN
          /\ timer \in Nat \cup {NoTimer}
          /\ round \in RoundState
          /\ faults \in 0..MaxFaults

Init == /\ now = 0
        /\ reg = EmptyReg
        /\ store = {}
        /\ rb = EmptyBook
        /\ cache = [l \in License |-> "none"]
        /\ wanted = {}
        /\ secret = NoSecret
        /\ view = NoSecret
        /\ queued = TRUE
        /\ timer = NoTimer
        /\ round = IdleRound
        /\ faults = 0

Fault == faults < MaxFaults /\ faults' = faults + 1

Advance == Tick /\ UNCHANGED acqVars

-----------------------------------------------------------------------------
(* What puts the cluster in the work queue. *)

(* The spoke's claim, extended, arrives in the ManagedCluster's status. *)
ClaimArrives(f) == /\ f \in Claimable \ wanted
                   /\ wanted' = wanted \cup {f}
                   /\ queued' = TRUE
                   /\ UNCHANGED <<regVars, secret, view, timer, round, faults>>

(* The informer's resync, hourly (resyncPeriod). *)
Resync == /\ ~queued
          /\ queued' = TRUE
          /\ UNCHANGED <<regVars, wanted, secret, view, timer, round, faults>>

TimerFires == /\ timer # NoTimer
              /\ timer <= now
              /\ timer' = NoTimer
              /\ queued' = TRUE
              /\ UNCHANGED <<regVars, wanted, secret, view, round, faults>>

SyncView == /\ view # secret
            /\ view' = secret
            /\ UNCHANGED <<regVars, wanted, secret, queued, timer, round, faults>>

-----------------------------------------------------------------------------
(* Reconcile. *)

(* Without a claim there is nothing to do and nothing is scheduled.  (A read *)
(* that fails here puts the cluster back in the queue with nothing changed.) *)
Begin == /\ round.pc = "idle"
         /\ queued
         /\ queued' = FALSE
         /\ round' = IF wanted = {} THEN IdleRound
                     ELSE [IdleRound EXCEPT
                             !.pc = "feature", !.todo = wanted, !.base = view,
                             !.data = IF view = NoSecret THEN NoData ELSE view.data]
         /\ UNCHANGED <<regVars, wanted, secret, view, timer, faults>>

(* An entry that is already in the secret is kept. *)
MutMerged(r, f, l) ==
    [r EXCEPT !.pc = "feature", !.todo = @ \ {f}, !.feature = {}, !.met = @ \cup {f},
              !.got = @ \cup {l},
              !.data[PlanName[l]] = IF @ = NoLicense THEN l ELSE @]

(* sec.Data[l.PlanName] = l.Data, whatever the plan's license was for, and   *)
(* the earliest expiry is noted.                                             *)
Merged(r, f, l) ==
    [r EXCEPT !.pc = "feature", !.todo = @ \ {f}, !.feature = {}, !.met = @ \cup {f},
              !.got = @ \cup {l}, !.data[PlanName[l]] = l]

(* The error goes to errList.  The exception for an invalid certificate      *)
(* never applies: Verify returns CertificateInvalidError by value, which     *)
(* errors.As does not match with a pointer.                                  *)
Failed(r, f) ==
    [r EXCEPT !.pc = "feature", !.todo = @ \ {f}, !.feature = {}, !.err = TRUE]

(* The features come in the order of the claim, which the spoke sorts. *)
LookupFeature(f) ==
    /\ round.pc = "feature"
    /\ f \in round.todo
    /\ \A g \in round.todo : Place[f] <= Place[g]
    /\ \E l \in License \cup {NoLicense} :
          /\ LicenseForFeature(f, l)
          /\ round' = IF l # NoLicense THEN Merged(round, f, l)
                      ELSE [round EXCEPT !.pc = "acquire", !.feature = {f}]
    /\ UNCHANGED <<wanted, secret, view, queued, timer, faults>>

Offered(f) == {l \in Issued : f \in FeaturesOf[l] /\ Valid(l, now)}

(* getNewLicense: the server's license for the feature is parsed and added.  *)
AcquireFeature(f, l) ==
    /\ round.pc = "acquire"
    /\ f \in round.feature
    /\ l \in Offered(f)
    /\ Add(l)
    /\ round' = Merged(round, f, l)
    /\ UNCHANGED <<wanted, secret, view, queued, timer, faults>>

(* The server has nothing for the feature (the empty feature that an empty   *)
(* claim splits into, for one), which is an error in every round.            *)
AcquireRefused(f) ==
    /\ round.pc = "acquire"
    /\ f \in round.feature
    /\ Offered(f) = {}
    /\ round' = Failed(round, f)
    /\ UNCHANGED <<regVars, wanted, secret, view, queued, timer, faults>>

(* The call fails, or answers with what ParseLicense rejects. *)
AcquireFails(f) ==
    /\ round.pc = "acquire"
    /\ f \in round.feature
    /\ Fault
    /\ round' = Failed(round, f)
    /\ UNCHANGED <<regVars, wanted, secret, view, queued, timer>>

(* The last of the licenses to expire decides. *)
MutTimerAfter(got) ==
    LET due == Max({NotAfter[l] : l \in got}) - TTL
    IN  IF got # {} /\ due > now /\ (timer = NoTimer \/ due < timer) THEN due ELSE timer

(* RequeueAfter is the time to the earliest expiry less ttl; when positive   *)
(* it sets the timer, unless an earlier one is pending.                      *)
TimerAfter(got) ==
    LET due == Min({NotAfter[l] : l \in got}) - TTL
    IN  IF got # {} /\ due > now /\ (timer = NoTimer \/ due < timer) THEN due ELSE timer

(* The end of a round: with an error the cluster goes back to the queue and  *)
(* RequeueAfter is ignored.                                                  *)
Finish(refused) ==
    /\ round' = [round EXCEPT !.pc = "idle", !.err = @ \/ refused, !.refused = refused]
    /\ IF round.err \/ refused
       THEN queued' = TRUE /\ UNCHANGED timer
       ELSE timer' = TimerAfter(round.got) /\ UNCHANGED queued

(* The API server refuses to create what exists and to update what has       *)
(* changed since it was read.                                                *)
Outdated == \/ round.base = NoSecret /\ secret # NoSecret
            \/ round.base # NoSecret /\ secret.version # round.base.version

(* It takes no data with an empty key, the plan name ParseLicense gives an   *)
(* old certificate for other features than those it knows a plan of.         *)
Nameless(data) == "" \in Plan /\ data[""] # NoLicense

(* The update does not carry the version that was read. *)
MutRefused == (round.base = NoSecret /\ secret # NoSecret) \/ Nameless(round.data)

Refused == Outdated \/ Nameless(round.data)

(* A write that changes nothing keeps the version. *)
Store(data) ==
    IF secret # NoSecret /\ secret.data = data
    THEN UNCHANGED secret
    ELSE LET v == IF secret = NoSecret THEN 1 ELSE secret.version + 1
         IN  v <= MaxVersion /\ secret' = [data |-> data, version |-> v]

RoundDone == round.pc = "feature" /\ round.todo = {}

(* The secret is only written when no feature failed. *)
MutWriteSecret ==
    /\ RoundDone
    /\ IF Refused \/ round.err THEN UNCHANGED secret ELSE Store(round.data)
    /\ Finish(Refused)
    /\ UNCHANGED <<regVars, wanted, view, faults>>

(* Update or Create of the secret with what the round has, errors or not. *)
WriteSecret ==
    /\ RoundDone
    /\ IF Refused THEN UNCHANGED secret ELSE Store(round.data)
    /\ Finish(Refused)
    /\ UNCHANGED <<regVars, wanted, view, faults>>

WriteFails == /\ RoundDone
              /\ Fault
              /\ Finish(TRUE)
              /\ UNCHANGED <<regVars, wanted, secret, view>>

(* The manager restarts.  Its registry starts empty (the cache directory is  *)
(* written and never read), and the informers' first list queues the cluster.*)
Restart == /\ Fault
           /\ store' = {}
           /\ reg' = EmptyReg
           /\ view' = secret
           /\ queued' = TRUE
           /\ timer' = NoTimer
           /\ round' = IdleRound
           /\ UNCHANGED <<now, rb, cache, wanted, secret>>

Reconcile == \/ Begin \/ WriteSecret
             \/ \E f \in Feature : \/ LookupFeature(f) \/ AcquireRefused(f)
                                   \/ \E l \in License : AcquireFeature(f, l)

Next == \/ Advance \/ Resync \/ TimerFires \/ SyncView
        \/ \E f \in Feature : ClaimArrives(f) \/ AcquireFails(f)
        \/ Reconcile \/ WriteFails \/ Restart

(* The controller's worker runs on, timers fire, informers catch up and      *)
(* resync.  An unanswered call to the license server is not covered.         *)
Fairness == /\ WF_vars(Reconcile)
            /\ WF_vars(TimerFires)
            /\ WF_vars(SyncView)
            /\ WF_vars(Resync)

Spec == Init /\ [][Next]_vars
FairSpec == Spec /\ Fairness

-----------------------------------------------------------------------------
Covers(data, f) == \E p \in Plan : data[p] # NoLicense /\ f \in FeaturesOf[data[p]]

(* At rest after a round without error, a requeue is due no later than the   *)
(* moment the first license of that round reaches its ttl - unless it has    *)
(* reached it: a RequeueAfter that is not positive schedules nothing, and    *)
(* then only the hourly resync brings the cluster back.                      *)
WakesInTime ==
    round.pc = "idle" /\ ~queued /\ ~round.err =>
       \/ \A l \in round.got : timer # NoTimer /\ timer <= NotAfter[l] - TTL
       \/ \E l \in round.got : NotAfter[l] - TTL <= now

(* The license found for f had to make room for a later one of the round     *)
(* that has the same plan name and does not cover f.                         *)
Displaced(f) ==
    \E l, m \in round.got : /\ PlanName[l] = PlanName[m]
                            /\ f \in FeaturesOf[l] \ FeaturesOf[m]
                            /\ secret.data[PlanName[m]] = m

(* A round whose write went through left in the secret, under every plan it  *)
(* found a license of, one of the licenses it found, never an older one; and *)
(* it left a license for every feature it found one for, although other      *)
(* features failed and the secret was read from an informer, unless a        *)
(* license of the same plan name without that feature took its place.        *)
FoundIsDelivered ==
    round.pc = "idle" /\ ~round.refused =>
       /\ \A l \in round.got : /\ secret # NoSecret
                                /\ secret.data[PlanName[l]] \in round.got
       /\ \A f \in round.met : Covers(secret.data, f) \/ Displaced(f)

(* The secret is written as a whole from a copy that may be old, in rounds   *)
(* that find licenses for some of the features only: still a plan that has a *)
(* license never loses it but for another license of the plan.               *)
PlansAreKept ==
    [][secret # NoSecret =>
          /\ secret' # NoSecret
          /\ \A p \in Plan : secret.data[p] # NoLicense =>
                /\ secret'.data[p] # NoLicense
                /\ PlanName[secret'.data[p]] = p]_vars

(* A license the server has for f may have to make room for one without f    *)
(* that it has for another claimed feature.                                  *)
Contested(f) ==
    \E g \in wanted : \E l \in Offered(f), m \in Offered(g) :
       PlanName[l] = PlanName[m] /\ f \notin FeaturesOf[m]

(* The server has a license without plan name for a claimed feature: rounds  *)
(* that come upon it cannot write anything.                                  *)
Blocked == \E f \in wanted : \E l \in Offered(f) : PlanName[l] = ""

(* Once the cluster's claims, the faults and the clock have settled, the     *)
(* secret holds an unexpired license for every claimed feature that the      *)
(* license server has one for, whatever becomes of the other features.  This *)
(* is for features whose licenses keep to themselves: licenses of one plan   *)
(* name that differ in their features take the one entry from each other,    *)
(* and a license without plan name stops all writes.                         *)
EventuallyCovered ==
    <>[](\A f \in wanted : Offered(f) # {} /\ ~Contested(f) /\ ~Blocked =>
           /\ secret # NoSecret
           /\ \E p \in Plan : LET l == secret.data[p]
                              IN  l # NoLicense /\ f \in FeaturesOf[l] /\ Valid(l, now))
=============================================================================
