-------------------------- MODULE AdaptiveBitrate --------------------------
(***************************************************************************)
(* The adaptive policies of a shared generation (server/adaptive.rs): a    *)
(* bitrate controller and a recovery state per viewer, the aggregate       *)
(* target over the viewers that contribute, and the two-tier resolution    *)
(* policy fed with the worst of their evaluations.                         *)
(*                                                                         *)
(* A feedback connection claims its session's feedback slot and registers  *)
(* a contributor, its reports land in a cumulative slot, and the           *)
(* coordinator's loop evaluates every slot that has news, on a             *)
(* notification or on its tick.  A viewer here is a GenerationContributorKey, *)
(* one session of one viewer.  Telemetry, latencies and queues are         *)
(* abstracted to the severity they amount to; instants to whether a        *)
(* deadline has passed.                                                    *)
(***************************************************************************)
EXTENDS Naturals, FiniteSets, FiniteSetsExt

None == "none"

CONSTANTS
  Viewers,
  Floor, Ceiling, Quantum, MaxStep,  \* kbps
  ModerateWindows, CleanWindows, CooldownWindows,     \* controller
  FloorBreachWindows, RecoveryCleanWindows,
  RecoveryPressureWindows, MaxAttempts,               \* isolated recovery
  ScaleModerateWindows, ScaleCleanWindows,            \* resolution policy
  MaxClaims,          \* bound: feedback connections
  MaxEvents           \* bound: reports and rises of host pressure

ASSUME AdaptiveAssumption ==
  /\ {Floor, Ceiling, Quantum, MaxStep, ModerateWindows, CleanWindows,
      CooldownWindows, FloorBreachWindows, RecoveryCleanWindows,
      RecoveryPressureWindows, MaxAttempts, ScaleModerateWindows,
      ScaleCleanWindows} \subseteq Nat \ {0}
  /\ Floor <= (Ceiling \div Quantum) * Quantum
  /\ MaxClaims \in Nat /\ MaxEvents \in Nat

VARIABLES
  contributors,  \* per viewer: its GenerationContributor, or Absent
  leases,        \* FeedbackLeases alive; fresh: not registered yet
  handles,       \* GenerationFeedbackRegistrations alive
  authorization, \* per viewer: authorization_revision at its last claim
  target,        \* target_kbps of the aggregate
  policy,        \* MotionResolutionPolicy
  recovering,    \* recovering_viewers, the host-wide count
  detached,      \* feedback connections told to detach
  shadow,        \* encoder_actuation_available is false
  claims,        \* bound counter, and the identities of feedback connections
  events         \* bound counter

connectionVars == <<leases, handles, authorization, claims>>
vars == <<contributors, connectionVars, target, policy, recovering, detached, shadow,
          events>>

Severities == {"clean", "insufficient", "moderate", "severe", "stale"}
Pressures == {"clean", "moderate", "severe"}   \* what telemetry amounts to

\* bare: clean, but without sequence progress or complete latencies.  resync:
\* RESYNC_ACTIVE or dropped units, which add up over reports; the other classes
\* are those of the latest report only.
Reports == {"clean", "bare", "moderate", "resync"}

Rank(severity) == CASE severity = "clean" -> 0 [] severity = "insufficient" -> 1
                    [] severity = "moderate" -> 2 [] severity = "severe" -> 3
                    [] severity = "stale" -> 4
Worst(a, b) == IF Rank(b) > Rank(a) THEN b ELSE a

-----------------------------------------------------------------------------
\* ShadowBitrateController.

QuantizeDown(kbps) == (kbps \div Quantum) * Quantum

NewController ==
  [target |-> QuantizeDown(Ceiling), moderate |-> 0, clean |-> 0,
   cooldown |-> 0, heard |-> FALSE, host |-> "clean"]

SignalOf(report) == CASE report \in {"clean", "bare"} -> "clean"
                      [] report = "moderate" -> "moderate"
                      [] report = "resync" -> "severe"

\* classify: stale says the report's interval or its arrival is out of bounds,
\* as the first arrival always is; host is the pressure that the host's own
\* telemetry has shown since previous_telemetry.
Classify(report, stale, host) ==
  LET pressure ==
        IF stale THEN IF host = "clean" THEN "stale" ELSE host
        ELSE Worst(host, SignalOf(report))
  IN [fresh |-> ~stale, pressure |-> pressure,
      severity |-> IF ~stale /\ pressure = "clean" /\ report = "bare"
                   THEN "insufficient" ELSE pressure]

Lowered(kbps, numerator, denominator) ==
  LET next == Max({Floor, QuantizeDown((kbps * numerator) \div denominator)})
  IN IF next < kbps THEN next ELSE kbps

Raised(kbps) ==
  LET step == Min({MaxStep, Max({Quantum, kbps \div 20})})
      next == QuantizeDown(Min({kbps + step, NewController.target}))
  IN IF next > kbps THEN next ELSE kbps

\* Mutant: a stale or bare report does not interrupt the clean windows.
WindowsUninterrupted(c, severity) ==
  LET quiet == [c EXCEPT !.cooldown = IF @ > 0 THEN @ - 1 ELSE 0, !.clean = 0]
  IN CASE severity = "severe" -> [quiet EXCEPT !.target = Lowered(@, 3, 4)]
       [] severity = "moderate" -> [quiet EXCEPT !.target = Lowered(@, 4, 5)]
       [] severity = "clean" /\ c.clean + 1 >= CleanWindows ->
            [quiet EXCEPT !.target = Raised(@)]
       [] severity = "clean" -> [quiet EXCEPT !.clean = c.clean + 1]
       [] OTHER -> [quiet EXCEPT !.clean = c.clean]

\* The windows and the target after one evaluation of that severity.
Windows(c, severity) ==
  LET cooled == [c EXCEPT !.cooldown = IF @ > 0 THEN @ - 1 ELSE 0]
      quiet == [cooled EXCEPT !.moderate = 0, !.clean = 0]
      slower(numerator, denominator) ==
        [quiet EXCEPT !.cooldown = CooldownWindows,
                      !.target = Lowered(@, numerator, denominator)]
  IN CASE severity = "severe" -> slower(3, 4)
       [] severity = "moderate" ->
            IF c.moderate + 1 >= ModerateWindows THEN slower(4, 5)
            ELSE [quiet EXCEPT !.moderate = c.moderate + 1]
       [] severity = "clean" ->
            IF c.clean + 1 >= CleanWindows /\ cooled.cooldown = 0
            THEN [quiet EXCEPT !.target = Raised(@)]
            ELSE [quiet EXCEPT !.clean = Min({c.clean + 1, CleanWindows})]
       [] OTHER -> quiet

\* previous_telemetry is left alone, so that its pressure counts again, when
\* the report was stale, the host's pressure is real, and the target neither
\* went down nor is the floor.
Held(c, next, e) == ~e.fresh /\ next.target >= c.target /\ next.target # Floor

Controlled(c, e) ==
  LET next == Windows(c, e.severity)
  IN [next EXCEPT !.heard = TRUE,
                  !.host = IF Held(c, next, e) THEN c.host ELSE "clean"]

-----------------------------------------------------------------------------
\* ContributorRecoveryState.  waited: the back-off of the attempt is over.

Active(breaches) ==
  [phase |-> "active", breaches |-> breaches, attempt |-> 0, waited |-> FALSE,
   clean |-> 0, pressure |-> 0]
Recovering(attempt) == [Active(0) EXCEPT !.phase = "recovering", !.attempt = attempt]
Detaching == [Active(0) EXCEPT !.phase = "detaching"]

ObserveActive(r, e, atFloor) ==
  LET breaches == IF e.fresh /\ e.pressure = "severe" /\ atFloor
                  THEN r.breaches + 1 ELSE 0
  IN IF breaches < FloorBreachWindows THEN Active(breaches) ELSE Recovering(1)

\* Mutant: the pressure of a stale window counts.
ObserveRecoveringStale(r, e) ==
  CASE e.severity = "clean" ->
         IF r.clean + 1 >= RecoveryCleanWindows THEN Active(0)
         ELSE [r EXCEPT !.clean = @ + 1, !.pressure = 0]
    [] e.pressure \in {"moderate", "severe"} ->
         IF r.pressure + 1 < RecoveryPressureWindows
         THEN [r EXCEPT !.pressure = @ + 1, !.clean = 0]
         ELSE IF r.attempt >= MaxAttempts THEN Detaching
         ELSE Recovering(r.attempt + 1)
    [] OTHER -> r

ObserveRecovering(r, e) ==
  CASE e.fresh /\ e.severity = "clean" ->
         IF r.clean + 1 >= RecoveryCleanWindows THEN Active(0)
         ELSE [r EXCEPT !.clean = @ + 1, !.pressure = 0]
    [] e.fresh /\ e.pressure \in {"moderate", "severe"} ->
         IF r.pressure + 1 < RecoveryPressureWindows
         THEN [r EXCEPT !.pressure = @ + 1, !.clean = 0]
         ELSE IF r.attempt >= MaxAttempts THEN Detaching
         ELSE Recovering(r.attempt + 1)
    [] OTHER -> [r EXCEPT !.clean = 0, !.pressure = 0]

Observe(r, e, atFloor) ==
  CASE r.phase = "active" -> ObserveActive(r, e, atFloor)
    [] r.phase = "recovering" -> IF r.waited THEN ObserveRecovering(r, e) ELSE r
    [] r.phase = "detaching" -> r

-----------------------------------------------------------------------------
\* MotionResolutionPolicy.  settled: still for long enough; cooled: the last
\* transition is long enough ago.

NewPolicy ==
  [tier |-> "native", motion |-> FALSE, still |-> FALSE, settled |-> FALSE,
   cooled |-> TRUE, pressure |-> FALSE, moderate |-> 0, clean |-> 0]

UpdateMotion(p, moving) ==
  IF moving THEN [p EXCEPT !.motion = TRUE, !.still = FALSE, !.settled = FALSE]
  ELSE [p EXCEPT !.motion = FALSE, !.still = TRUE,
                 !.settled = @ /\ p.still /\ ~p.motion]

UpdateFeedback(p, severity, fresh) ==
  LET quiet == [p EXCEPT !.moderate = 0, !.clean = 0]
  IN CASE ~fresh \/ severity \in {"insufficient", "stale"} -> quiet
       [] fresh /\ severity = "severe" -> [quiet EXCEPT !.pressure = TRUE]
       [] fresh /\ severity = "moderate" ->
            IF p.moderate + 1 >= ScaleModerateWindows
            THEN [quiet EXCEPT !.pressure = TRUE]
            ELSE [quiet EXCEPT !.moderate = p.moderate + 1]
       [] fresh /\ severity = "clean" ->
            LET clean == Min({p.clean + 1, ScaleCleanWindows})
            IN [quiet EXCEPT !.clean = clean,
                             !.pressure = @ /\ clean < ScaleCleanWindows]

EvaluateTarget(p) ==
  CASE p.motion \/ p.pressure ->
         IF p.tier = "reduced" THEN p
         ELSE [p EXCEPT !.tier = "reduced", !.cooled = FALSE]
    [] OTHER ->
         IF p.tier = "reduced" /\ p.settled /\ p.cooled
            /\ p.clean >= ScaleCleanWindows
         THEN [p EXCEPT !.tier = "native", !.clean = 0, !.cooled = FALSE]
         ELSE p

\* observe_window: evidence says the aggregate is clean with evidence.
ObserveWindow(p, e, evidence, moving) ==
  LET severity == IF e.pressure = "clean" /\ ~evidence THEN "insufficient"
                  ELSE e.pressure
      moved == IF e.fresh THEN UpdateMotion(p, moving) ELSE p
  IN EvaluateTarget(UpdateFeedback(moved, severity, e.fresh))

-----------------------------------------------------------------------------
\* Contributors.  id: the connection that registered it, whose channels it
\* holds.  strikes and streak are ghosts: the fresh pressured windows since the
\* viewer was last well, and the fresh clean windows in a row.

NoEvaluation == [fresh |-> FALSE, pressure |-> "stale", severity |-> "stale"]
Absent ==
  [id |-> 0, revision |-> 0, news |-> FALSE, latest |-> "clean", stale |-> FALSE,
   resync |-> FALSE,
   controller |-> NewController, evaluation |-> NoEvaluation, recent |-> FALSE,
   recovery |-> Active(0), strikes |-> 0, streak |-> 0]
Joined(l) == [Absent EXCEPT !.id = l.id, !.revision = l.revision]

Registered(cs) == {v \in Viewers : cs[v].id # 0}
RecoveringCount(cs) ==
  Cardinality({v \in Registered(cs) : cs[v].recovery.phase # "active"})

Init ==
  /\ contributors = [v \in Viewers |-> Absent]
  /\ leases = {}
  /\ handles = {}
  /\ authorization = [v \in Viewers |-> 0]
  /\ claims = 0
  /\ target = QuantizeDown(Ceiling)
  /\ policy = NewPolicy
  /\ recovering = 0
  /\ detached = {}
  /\ shadow \in BOOLEAN
  /\ events = 0

FeedbackClaimed(v) == \E l \in leases : l.viewer = v

\* claim_feedback, of a session whose revision is still what it was at the last
\* claim or has been raised by a change of its grants since.  Revisions are
\* compared for equality only, so the first one may be 1.
ClaimFeedback(v, raised) ==
  LET revision == authorization[v] + (IF raised THEN 1 ELSE 0)
  IN /\ claims < MaxClaims /\ ~FeedbackClaimed(v)
     /\ authorization[v] = 0 => raised
     /\ claims' = claims + 1
     /\ authorization' = [authorization EXCEPT ![v] = revision]
     /\ leases' = leases \cup
          {[viewer |-> v, id |-> claims + 1, revision |-> revision, fresh |-> TRUE]}
     /\ UNCHANGED <<contributors, handles, target, policy, recovering, detached,
                    shadow, events>>

\* register puts its contributor in the place of any other of that key.
Register(l) ==
  /\ l.fresh
  /\ contributors' = [contributors EXCEPT ![l.viewer] = Joined(l)]
  /\ leases' = (leases \ {l}) \cup {[l EXCEPT !.fresh = FALSE]}
  /\ handles' = handles \cup {[viewer |-> l.viewer, id |-> l.id, revision |-> l.revision]}
  /\ recovering' = RecoveringCount(contributors')
  /\ UNCHANGED <<authorization, claims, target, policy, detached, shadow, events>>

Matches(h) == contributors[h.viewer].revision = h.revision

\* Mutant: the count is not brought up to date.
UnregisterUncounted(h) ==
  /\ handles' = handles \ {h}
  /\ contributors' = IF Matches(h) THEN [contributors EXCEPT ![h.viewer] = Absent]
                     ELSE contributors
  /\ UNCHANGED <<leases, authorization, claims, target, policy, recovering, detached,
                 shadow, events>>

\* Drop of a registration, at the end of its feedback session, and unregister.
Unregister(h) ==
  /\ handles' = handles \ {h}
  /\ contributors' = IF Matches(h) THEN [contributors EXCEPT ![h.viewer] = Absent]
                     ELSE contributors
  /\ recovering' = IF Matches(h) THEN RecoveringCount(contributors') ELSE recovering
  /\ UNCHANGED <<leases, authorization, claims, target, policy, detached, shadow, events>>

\* Mutant: the lease is dropped while its feedback session still runs.
ReleaseFeedbackEarly(l) ==
  /\ leases' = leases \ {l}
  /\ UNCHANGED <<contributors, handles, authorization, claims, target, policy,
                 recovering, detached, shadow, events>>

\* Drop of a lease, and release_feedback: before its registration, when the hello
\* cannot be written or register fails, or after it has been dropped.
ReleaseFeedback(l) ==
  /\ \A h \in handles : h.id # l.id
  /\ leases' = leases \ {l}
  /\ UNCHANGED <<contributors, handles, authorization, claims, target, policy,
                 recovering, detached, shadow, events>>

\* observe: the report joins those not evaluated yet; together they may be stale
\* or not.  A registration that does not match gets an error, which ends it.
ObserveReport(h, report, stale) ==
  /\ events < MaxEvents /\ Matches(h)
  /\ events' = events + 1
  /\ contributors' = [contributors EXCEPT
       ![h.viewer].news = TRUE,
       ![h.viewer].latest = report,
       ![h.viewer].stale = stale,
       ![h.viewer].resync = @ \/ report = "resync"]
  /\ UNCHANGED <<connectionVars, target, policy, recovering, detached, shadow>>

Contributing(c) ==
  c.id # 0 /\ c.recovery.phase = "active" /\ c.recent /\ c.evaluation.fresh

-----------------------------------------------------------------------------
\* The environment: the host's telemetry, and time.

HostPressure(v, pressure) ==
  /\ events < MaxEvents /\ v \in Registered(contributors)
  /\ Rank(pressure) > Rank(contributors[v].controller.host)
  /\ events' = events + 1
  /\ contributors' = [contributors EXCEPT ![v].controller.host = pressure]
  /\ UNCHANGED <<connectionVars, target, policy, recovering, detached, shadow>>

BackoffElapses(v) ==
  /\ contributors[v].recovery.phase = "recovering"
  /\ ~contributors[v].recovery.waited
  /\ contributors' = [contributors EXCEPT ![v].recovery.waited = TRUE]
  /\ UNCHANGED <<connectionVars, target, policy, recovering, detached, shadow, events>>

\* received_at gets too old for the contributor to count.
ReportAges(v) ==
  /\ Contributing(contributors[v])
  /\ contributors' = [contributors EXCEPT ![v].recent = FALSE]
  /\ UNCHANGED <<connectionVars, target, policy, recovering, detached, shadow, events>>

PolicyTime ==
  /\ policy' \in {[policy EXCEPT !.settled = policy.still], [policy EXCEPT !.cooled = TRUE]}
  /\ policy.tier = "reduced" /\ policy' # policy
  /\ UNCHANGED <<contributors, connectionVars, target, recovering, detached, shadow,
                 events>>

-----------------------------------------------------------------------------
\* evaluate.

Strikes(c, e, recovery) ==
  IF recovery.phase = "active" /\ recovery.breaches = 0 THEN 0
  ELSE IF e.fresh /\ e.pressure \in {"moderate", "severe"} THEN c.strikes + 1
  ELSE c.strikes

\* One contributor with news.
Evaluated(c) ==
  LET report == IF c.resync THEN "resync" ELSE c.latest
      e == Classify(report, c.stale \/ ~c.controller.heard, c.controller.host)
      controller == Controlled(c.controller, e)
      recovery == Observe(c.recovery, e, controller.target = Floor)
  IN [c EXCEPT !.news = FALSE, !.latest = "clean", !.stale = FALSE, !.resync = FALSE,
               !.controller = controller, !.evaluation = e, !.recent = TRUE,
               !.recovery = recovery, !.strikes = Strikes(c, e, recovery),
               !.streak = IF e.fresh /\ e.severity = "clean"
                          THEN Min({@ + 1, CleanWindows}) ELSE 0]

NewTarget(cs, active) ==
  IF active = {} THEN target
  ELSE Max({Floor, Min({cs[v].controller.target : v \in active})})

AllClean(cs, active) ==
  active # {} /\ \A v \in active : cs[v].evaluation.severity = "clean"

\* The evaluation of highest rank; all of that rank are alike.
WorstOf(cs, active) ==
  cs[CHOOSE v \in active : \A w \in active :
       Rank(cs[w].evaluation.pressure) <= Rank(cs[v].evaluation.pressure)].evaluation

\* The loop's turn, on a notification or on its tick.  moving: the report that
\* leads the aggregate shows enough sequence progress.
Evaluate(moving) ==
  LET changed == {v \in Viewers : contributors[v].news}
      cs == [v \in Viewers |-> IF v \in changed THEN Evaluated(contributors[v])
                               ELSE contributors[v]]
      active == {v \in Viewers : Contributing(cs[v])}
      quiet == changed = {} /\ NewTarget(cs, active) = target
  IN /\ contributors' = cs
     /\ recovering' = RecoveringCount(cs)
     /\ target' = NewTarget(cs, active)
     /\ policy' = IF shadow \/ quiet \/ active = {} THEN policy
                  ELSE ObserveWindow(policy, WorstOf(cs, active), AllClean(cs, active), moving)
     /\ detached' = IF shadow THEN detached
                    ELSE detached \cup {cs[v].id :
                           v \in {w \in changed : cs[w].recovery.phase = "detaching"}}
     /\ UNCHANGED <<connectionVars, shadow, events>>

Next ==
  \/ \E v \in Viewers, raised \in BOOLEAN : ClaimFeedback(v, raised)
  \/ \E l \in leases : Register(l) \/ ReleaseFeedback(l)
  \/ \E h \in handles : Unregister(h)
  \/ \E h \in handles, report \in Reports, stale \in BOOLEAN : ObserveReport(h, report, stale)
  \/ \E v \in Viewers, pressure \in Pressures : HostPressure(v, pressure)
  \/ \E v \in Viewers : BackoffElapses(v) \/ ReportAges(v)
  \/ PolicyTime
  \/ \E moving \in BOOLEAN : Evaluate(moving)

Spec == Init /\ [][Next]_vars

-----------------------------------------------------------------------------
\* The count that the appliance publishes is that of the contributors not
\* active, after registrations, drops and evaluations in any order
\* (update_recovering_count at every change).
RecoveringCountExact == recovering = RecoveringCount(contributors)

\* A registration has its own contributor in the coordinator as long as it lives,
\* and no contributor outlives its registration: no feedback connection takes or
\* removes another's, though the key and even the revision may be the same.  The
\* code keeps them apart by feedback_claimed and by dropping the registration
\* before the lease (adaptive.rs:1986).
RegistrationOwnsContributor ==
  /\ \A h \in handles : contributors[h.viewer].id = h.id
  /\ \A v \in Registered(contributors) :
       \E h \in handles : h.viewer = v /\ h.id = contributors[v].id

\* A viewer is detached only for fresh pressure: at the floor, and then through
\* every attempt of isolated recovery; never by a shadow, which has not given
\* it a chance (adaptive.rs:600).
DetachIsEarned ==
  \A v \in Viewers : contributors[v].id \in detached =>
     /\ ~shadow
     /\ contributors[v].strikes >=
          FloorBreachWindows + MaxAttempts * RecoveryPressureWindows

\* A controller raises its target only after CleanWindows fresh clean windows
\* in a row; stale or bare reports count for nothing, however many they are.
RaiseIsEarned ==
  [][\A v \in Viewers :
       /\ contributors'[v].id = contributors[v].id
       /\ contributors'[v].controller.target > contributors[v].controller.target
       => contributors'[v].streak >= CleanWindows]_vars
=============================================================================
