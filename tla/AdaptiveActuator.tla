-------------------------- MODULE AdaptiveActuator --------------------------
(***************************************************************************)
(* The adaptive actuators (server/adaptive.rs): the shared generation's    *)
(* GenerationAdaptiveActuator and the legacy session's                     *)
(* AdaptiveCommitCoordinator.  Either turns the plans of the bitrate and   *)
(* resolution policies into encoder requests, has at most one commit task  *)
(* wait for their acknowledgement, and keeps at most one queued plan.      *)
(*                                                                         *)
(* The module runs the actuator against EncoderControl, beside the         *)
(* forced-IDR coordinator, which makes requests on its own.  The plans     *)
(* come from the policies (AdaptiveBitrate): here any plan may come.       *)
(*                                                                         *)
(* The shared actuator lives as long as its generation's encoder.  The     *)
(* legacy one lives as long as a feedback connection, and a client that    *)
(* drops the connection may claim feedback again on the same session: the  *)
(* new coordinator takes it that the encoder runs at the ceiling and at    *)
(* the native resolution, whatever the previous one asked for.             *)
(***************************************************************************)
EXTENDS EncoderControl, Sequences

CONSTANT CeilingRate   \* the bitrate the encoder starts with

Actuator == "actuator"
Recovery == "recovery"

ASSUME ActuatorAssumption ==
  CeilingRate \in Bitrates /\ Callers = {Actuator, Recovery}

VARIABLES
  act,            \* the actuator
  todo,           \* requests that start has still to make, in order
  commit,         \* the commit task: revisions it waits for, what it applied
  reportWaiting,  \* the session's watch holds a report not evaluated yet
  decision,       \* the last decision written to the Portal
  barrier,        \* ghost: a forced keyframe was planned and not started yet
  known           \* ghost: the kinds of requests whose last value this actuator
                  \* knows: it made the last one, or nobody made one before it

actuatorVars == <<act, todo, commit, reportWaiting, decision, barrier, known>>
vars == <<encoderVars, actuatorVars>>

Plan == [rate : Bitrates, tier : Tiers \cup {None}, force : BOOLEAN]
NoPlan == [rate |-> None, tier |-> None, force |-> FALSE]
Setting == [rate : Bitrates, tier : Tiers]
Kinds == {"bitrate", "keyframe", "resolution"}
NoCommit == [bitrate |-> 0, keyframe |-> 0, resolution |-> 0,
             rate |-> None, tier |-> None,
             appliedRate |-> None, appliedTier |-> None]
Initially == [rate |-> CeilingRate, tier |-> NativeTier]

\* AdaptiveCommitCoordinator::new, and that of the shared actuator.
NewActuator(mode, enabled, scaling) ==
  [mode |-> mode, enabled |-> enabled, scaling |-> scaling, running |-> TRUE,
   desired |-> Initially, requested |-> Initially, committed |-> Initially,
   pending |-> FALSE, queued |-> NoPlan]

\* enabled: adaptive_bitrate_actuation_enabled and a control handle; otherwise
\* the actuator is a shadow.  scaling: the native mode has a reduced tier.
Init ==
  /\ EncoderInit
  /\ \E mode \in {"shared", "legacy"}, enabled, scaling \in BOOLEAN :
       act = NewActuator(mode, enabled, scaling)
  /\ todo = <<>>
  /\ commit = NoCommit
  /\ reportWaiting = FALSE
  /\ decision = [rate |-> CeilingRate, applied |-> FALSE]
  /\ barrier = FALSE
  /\ known = Kinds

\* The loop's task is not inside start, which has no await.
AtRest == act.running /\ todo = <<>>

-----------------------------------------------------------------------------
\* start: the requests that plan needs of actuator a.  Both the last requested
\* and the last committed value count: after a timeout the old request is
\* still in the desired state.

\* Mutant: a request that timed out counts for nothing.
SettledIfCommitted(a, field, value) == value = a.committed[field]

Settled(a, field, value) == value = a.requested[field] /\ value = a.committed[field]

RateRequests(a, plan) ==
  IF Settled(a, "rate", plan.rate) THEN <<>>
  ELSE <<[kind |-> "bitrate", value |-> plan.rate]>>

TierRequests(a, plan) ==
  IF plan.tier = None \/ Settled(a, "tier", plan.tier) THEN <<>>
  ELSE <<[kind |-> "resolution", value |-> plan.tier]>>

\* GenerationAdaptiveActuator::start; the plan's force_keyframe is not read.
SharedRequests(a, plan) == RateRequests(a, plan) \o TierRequests(a, plan)

\* AdaptiveCommitCoordinator::start, with propose_resolution_update and
\* propose_adaptive_encoder_update: the IDR of a new resolution serves for the
\* forced one, and a forced one takes the bitrate along.
LegacyRequests(a, plan) ==
  LET tier == TierRequests(a, plan)
  IN tier \o (IF plan.force /\ tier = <<>>
              THEN <<[kind |-> "bitrate", value |-> plan.rate],
                     [kind |-> "keyframe", value |-> None]>>
              ELSE RateRequests(a, plan))

RequestsOf(a, plan) ==
  IF ~a.enabled THEN <<>>
  ELSE IF a.mode = "shared" THEN SharedRequests(a, plan) ELSE LegacyRequests(a, plan)

Among(requests, kind) == \E i \in DOMAIN requests : requests[i].kind = kind

\* The requests are made one after the other, and the commit task is spawned
\* after the last of them.
Started(a, plan) ==
  LET requests == RequestsOf(a, plan)
  IN /\ todo' = requests
     /\ act' = [a EXCEPT
          !.queued = NoPlan,
          !.requested = [rate |-> IF Among(requests, "bitrate") THEN plan.rate ELSE @.rate,
                         tier |-> IF Among(requests, "resolution") THEN plan.tier ELSE @.tier]]
     /\ commit' = IF requests = <<>> THEN NoCommit
                  ELSE [NoCommit EXCEPT !.rate = plan.rate, !.tier = plan.tier]
     /\ known' = {kind \in Kinds : kind \in known \/ Among(requests, kind)}

-----------------------------------------------------------------------------
\* submit.  A plan that cannot start replaces the queued one and inherits the
\* recovery barrier it carries; in the legacy coordinator a plan that does
\* start inherits the barrier of a plan whose start was put off.

\* Mutant: the latest plan replaces the queued one altogether.
InheritingNothing(plan, queued) == plan

Inheriting(plan, queued) == [plan EXCEPT !.force = @ \/ queued.force]

WithDesired(plan) ==
  [act EXCEPT !.desired = [rate |-> plan.rate,
                           tier |-> IF plan.tier = None THEN @.tier ELSE plan.tier]]

StartNow(plan) == IF act.mode = "legacy" THEN Inheriting(plan, act.queued) ELSE plan

Submit(plan) ==
  IF act.pending
  THEN /\ act' = [WithDesired(plan) EXCEPT !.queued = Inheriting(plan, act.queued)]
       /\ barrier' = (barrier \/ plan.force)
       /\ UNCHANGED <<todo, commit, known>>
  ELSE /\ Started(WithDesired(plan), StartNow(plan))
       /\ barrier' = ((barrier \/ plan.force) /\ ~StartNow(plan).force)

\* Mutant: only what was committed is compared.
BitrateIsCommitted(rate) ==
  /\ act.enabled /\ ~act.pending
  /\ rate = act.committed.rate

\* bitrate_is_applied: the shared one is asked before the new target is known.
BitrateIsApplied(rate) ==
  /\ act.enabled /\ ~act.pending
  /\ IF act.mode = "shared" THEN act.desired.rate = act.committed.rate
     ELSE rate = act.requested.rate /\ rate = act.committed.rate

ReportArrives ==
  /\ act.running /\ ~reportWaiting
  /\ reportWaiting' = TRUE
  /\ UNCHANGED <<encoderVars, act, todo, commit, decision, barrier, known>>

\* The plans the policies make: a resolution in every legacy plan, and in the
\* shared ones unless no viewer contributes.
Offered(plan) == IF act.scaling THEN act.mode = "legacy" => plan.tier # None
                 ELSE plan.tier = None

\* One window evaluated: the decision is written, then the plan submitted.  The
\* shared loop also evaluates on its tick.
Evaluate(plan) ==
  /\ AtRest /\ Offered(plan)
  /\ act.mode = "legacy" => reportWaiting
  /\ reportWaiting' = FALSE
  /\ decision' = [rate |-> plan.rate, applied |-> BitrateIsApplied(plan.rate)]
  /\ Submit(plan)
  /\ UNCHANGED encoderVars

-----------------------------------------------------------------------------
\* The requests of start, against the encoder.

Allocate ==
  /\ act.running /\ todo # <<>>
  /\ AllocateRevision(Actuator, Head(todo))
  /\ UNCHANGED actuatorVars

Publish ==
  /\ PublishDesired(Actuator)
  /\ commit' = [commit EXCEPT ![Head(todo).kind] = drafts[Actuator].revision]
  /\ todo' = Tail(todo)
  /\ act' = [act EXCEPT !.pending = (Tail(todo) = <<>>)]
  /\ UNCHANGED <<reportWaiting, decision, barrier, known>>

RecoveryRequests ==
  /\ \/ AllocateRevision(Recovery, [kind |-> "keyframe", value |-> None])
     \/ PublishDesired(Recovery)
  /\ UNCHANGED actuatorVars

EncoderActs == WorkerStep /\ UNCHANGED actuatorVars

-----------------------------------------------------------------------------
\* The commit task: bitrate, then the forced keyframe, then the resolution.

Committing == act.pending /\ todo = <<>>
Before(kind) == CASE kind = "bitrate" -> {}
                  [] kind = "keyframe" -> {"bitrate"}
                  [] kind = "resolution" -> {"bitrate", "keyframe"}
Turn(kind) ==
  Committing /\ commit[kind] # 0 /\ \A k \in Before(kind) : commit[k] = 0

VerdictOn(kind) ==
  CASE kind = "bitrate" -> BitrateVerdict(commit.bitrate)
    [] kind = "keyframe" -> KeyframeVerdict(commit.keyframe)
    [] kind = "resolution" -> ResolutionVerdict(commit.resolution)

WaitSucceeds(kind) ==
  /\ Turn(kind) /\ VerdictOn(kind) = "ok"
  /\ commit' = [commit EXCEPT ![kind] = 0,
                  !.appliedRate = IF kind = "bitrate" THEN commit.rate ELSE @,
                  !.appliedTier = IF kind = "resolution" THEN commit.tier ELSE @]
  /\ UNCHANGED <<encoderVars, act, todo, reportWaiting, decision, barrier, known>>

\* Superseded, timed out, or the status closed.  One failure discards the
\* shared acknowledgement; the legacy task skips the keyframe of a bitrate that
\* failed and goes on.
WaitFails(kind) ==
  /\ Turn(kind)
  /\ commit' =
       IF act.mode = "shared" THEN NoCommit
       ELSE [commit EXCEPT ![kind] = 0,
               !.keyframe = IF kind = "resolution" THEN @ ELSE 0]
  /\ UNCHANGED <<encoderVars, act, todo, reportWaiting, decision, barrier, known>>

-----------------------------------------------------------------------------
\* complete, then start_queued.  The legacy loop leaves the queued plan alone
\* when a newer report waits, whose evaluation will replace it.

Completed ==
  [act EXCEPT !.pending = FALSE,
     !.committed = [rate |-> IF commit.appliedRate = None THEN @.rate ELSE commit.appliedRate,
                    tier |-> IF commit.appliedTier = None THEN @.tier ELSE commit.appliedTier]]

\* Mutant: the queued plan always waits for the next report.
CompleteOnly ==
  /\ Committing
  /\ \A kind \in Kinds : commit[kind] = 0
  /\ act' = Completed
  /\ commit' = NoCommit
  /\ UNCHANGED <<encoderVars, todo, reportWaiting, decision, barrier, known>>

Complete ==
  /\ Committing
  /\ \A kind \in Kinds : commit[kind] = 0
  /\ IF act.queued = NoPlan \/ (act.mode = "legacy" /\ reportWaiting)
     THEN /\ act' = Completed
          /\ commit' = NoCommit
          /\ UNCHANGED <<todo, barrier, known>>
     ELSE /\ Started(Completed, act.queued)
          /\ barrier' = (barrier /\ ~act.queued.force)
  /\ UNCHANGED <<encoderVars, reportWaiting, decision>>

\* The loop ends, with an error or with the session: abort_and_drain.
AbortAndDrain ==
  /\ AtRest
  /\ act' = [act EXCEPT !.running = FALSE, !.pending = FALSE, !.queued = NoPlan]
  /\ commit' = NoCommit
  /\ barrier' = FALSE
  /\ UNCHANGED <<encoderVars, todo, reportWaiting, decision, known>>

\* The legacy client claims feedback again while its session, and with it the
\* encoder, is the same: release_feedback has cleared the flag.
ClaimAgain ==
  /\ ~act.running /\ act.mode = "legacy"
  /\ act' = NewActuator(act.mode, act.enabled, act.scaling)
  /\ reportWaiting' = FALSE
  /\ decision' = [rate |-> CeilingRate, applied |-> FALSE]
  /\ known' = {}
  /\ UNCHANGED <<encoderVars, todo, commit, barrier>>

Next ==
  \/ ReportArrives
  \/ \E plan \in Plan : Evaluate(plan)
  \/ Allocate
  \/ Publish
  \/ RecoveryRequests
  \/ EncoderActs
  \/ \E kind \in Kinds : WaitSucceeds(kind) \/ WaitFails(kind)
  \/ Complete
  \/ AbortAndDrain
  \/ ClaimAgain

Spec == Init /\ [][Next]_vars

-----------------------------------------------------------------------------
ActuatorTypeOK ==
  /\ EncoderTypeOK
  /\ act \in [mode : {"shared", "legacy"}, enabled : BOOLEAN, scaling : BOOLEAN,
              running : BOOLEAN, desired : Setting, requested : Setting,
              committed : Setting, pending : BOOLEAN, queued : Plan \cup {NoPlan}]
  /\ todo \in Seq(Requests)
  /\ commit \in [bitrate : 0..MaxRevisions, keyframe : 0..MaxRevisions,
                 resolution : 0..MaxRevisions,
                 rate : Bitrates \cup {None}, tier : Tiers \cup {None},
                 appliedRate : Bitrates \cup {None}, appliedTier : Tiers \cup {None}]
  /\ reportWaiting \in BOOLEAN
  /\ decision \in [rate : Bitrates, applied : BOOLEAN]
  /\ barrier \in BOOLEAN
  /\ known \subseteq Kinds

\* Told(wanted, part, initial): the last word the encoder was given.
Told(wanted, part, initial) ==
  IF part = Unset THEN wanted = initial ELSE wanted = part.value

\* An actuator with nothing left to do.
Idle == act.running /\ act.enabled /\ todo = <<>> /\ ~act.pending /\ act.queued = NoPlan

\* "After a timeout, returning to the old committed target must overwrite the
\* still-pending stale request rather than allowing it to apply later"
\* (adaptive.rs:1763): whatever timed out on the way, an idle actuator has asked
\* the encoder for the target the policies want.  A coordinator made for a
\* feedback connection that is not the session's first can promise this of the
\* bitrate, or the resolution, only from the first request of its own on.  The
\* shared actuator's resolution is left out: a plan made while no viewer
\* contributes names none, and may replace a queued plan whose resolution is
\* then never asked for.
NothingStaleRequested ==
  Idle =>
    /\ "bitrate" \in known => Told(act.desired.rate, desired.bitrate, CeilingRate)
    /\ act.mode = "legacy" /\ "resolution" \in known =>
         Told(act.desired.tier, desired.resolution, NativeTier)

\* "A recovery barrier requested by any coalesced desired update must survive
\* until that desired state is actuated" (adaptive.rs:1725): coalescing and
\* putting off the queued plan never drop the forced keyframe.
RecoveryBarrierSurvives ==
  barrier => act.queued.force

\* A queued plan has somebody to start it: the completion of the running
\* commit, or the evaluation of a report that has arrived already.
NoStrandedPlan ==
  act.queued # NoPlan => act.pending \/ (act.mode = "legacy" /\ reportWaiting)

LastAskedFor(rate) == Told(rate, desired.bitrate, CeilingRate)

\* A legacy decision that says "applied" names the bitrate the encoder was last
\* asked for, so that no older request can still take the encoder elsewhere: for
\* the bitrates this coordinator has asked for, or that nobody has changed.  It
\* does not hold of the first decisions after feedback is claimed again.
AppliedIsTrue ==
  [][decision' # decision /\ decision'.applied /\ act.mode = "legacy"
       /\ "bitrate" \in known
     => LastAskedFor(decision'.rate)]_vars
=============================================================================
