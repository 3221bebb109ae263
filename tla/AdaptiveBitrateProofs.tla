----------------------- MODULE AdaptiveBitrateProofs -----------------------
(***************************************************************************)
(* Theorems about the adaptive policies of a shared generation, for every  *)
(* set of viewers and every choice of windows, steps and attempts: the     *)
(* count of recovering viewers, whose contributor a registration owns, and *)
(* what a viewer has shown before its target is raised or it is detached.  *)
(***************************************************************************)
EXTENDS AdaptiveBitrate, FiniteSetTheorems, TLAPS

-----------------------------------------------------------------------------
\* Types.

Recoveries ==
  [phase : {"active", "recovering", "detaching"}, breaches : Nat, attempt : Nat,
   waited : BOOLEAN, clean : Nat, pressure : Nat]
Evaluations ==
  [fresh : BOOLEAN, pressure : Severities, severity : Severities]
Controllers ==
  [target : Int, moderate : Nat, clean : Nat, cooldown : Nat, heard : BOOLEAN,
   host : Pressures]
Contributors ==
  [id : Nat, revision : Nat, news : BOOLEAN, latest : Reports, stale : BOOLEAN,
   resync : BOOLEAN, controller : Controllers, evaluation : Evaluations,
   recent : BOOLEAN, recovery : Recoveries, strikes : Nat, streak : Nat]

-----------------------------------------------------------------------------
\* The invariant.

\* One lease per viewer at a time, and an identity of its own for each.
LeasesInv ==
  /\ claims \in Nat
  /\ authorization \in [Viewers -> Nat]
  /\ leases \subseteq [viewer : Viewers, id : 1..claims, revision : Nat, fresh : BOOLEAN]
  /\ \A l, m \in leases : l.viewer = m.viewer \/ l.id = m.id => l = m

\* A registration lives under the lease it was made with, and has the contributor
\* it made; no contributor outlives its registration.
RegistrationsInv ==
  /\ LeasesInv
  /\ handles \subseteq [viewer : Viewers, id : 1..claims, revision : Nat]
  /\ \A h \in handles :
       \E l \in leases : l.viewer = h.viewer /\ l.id = h.id /\ ~l.fresh
  /\ \A h \in handles : contributors[h.viewer].id = h.id /\ Matches(h)
  /\ \A v \in Viewers : contributors[v] # Absent => \E h \in handles : h.viewer = v

\* The fresh windows of pressure behind each phase of a viewer's recovery.
Earned(c) ==
  /\ c.recovery.phase = "active" => c.recovery.breaches \leq c.strikes
  /\ c.recovery.phase = "recovering" =>
       /\ c.recovery.attempt \in 1..MaxAttempts
       /\ c.strikes >= FloorBreachWindows
            + (c.recovery.attempt - 1) * RecoveryPressureWindows + c.recovery.pressure
  /\ c.recovery.phase = "detaching" =>
       c.strikes >= FloorBreachWindows + MaxAttempts * RecoveryPressureWindows

\* The controller has not counted a clean window that was none.
CleanCounted(c) == c.controller.clean \leq c.streak

DetachedInv ==
  /\ detached \subseteq 1..claims
  /\ shadow => detached = {}
  /\ \A l \in leases : l.fresh => l.id \notin detached
  /\ \A v \in Viewers :
       contributors[v].id \in detached =>
         contributors[v].recovery.phase = "detaching"

AdaptiveInv ==
  /\ contributors \in [Viewers -> Contributors]
  /\ RegistrationsInv
  /\ RecoveringCountExact
  /\ \A v \in Viewers : Earned(contributors[v]) /\ CleanCounted(contributors[v])
  /\ DetachedInv

-----------------------------------------------------------------------------
\* The pure functions.

LEMMA MinOfTwo ==
  ASSUME NEW a \in Int, NEW b \in Int
  PROVE  Min({a, b}) = IF a \leq b THEN a ELSE b
<1>1. \E x \in {a, b} : \A y \in {a, b} : x =< y
  OBVIOUS
<1>2. Min({a, b}) \in {a, b} /\ \A y \in {a, b} : Min({a, b}) =< y
  BY <1>1 DEF Min
<1> QED BY <1>2

LEMMA MaxOfTwo ==
  ASSUME NEW a \in Int, NEW b \in Int
  PROVE  Max({a, b}) = IF a >= b THEN a ELSE b
<1>1. \E x \in {a, b} : \A y \in {a, b} : x >= y
  OBVIOUS
<1>2. Max({a, b}) \in {a, b} /\ \A y \in {a, b} : Max({a, b}) >= y
  BY <1>1 DEF Max
<1> QED BY <1>2

LEMMA Parameters ==
  /\ Floor \in Nat \ {0} /\ Ceiling \in Nat \ {0} /\ Quantum \in Nat \ {0}
  /\ MaxStep \in Nat \ {0} /\ ModerateWindows \in Nat \ {0}
  /\ CleanWindows \in Nat \ {0} /\ CooldownWindows \in Nat \ {0}
  /\ FloorBreachWindows \in Nat \ {0} /\ RecoveryCleanWindows \in Nat \ {0}
  /\ RecoveryPressureWindows \in Nat \ {0} /\ MaxAttempts \in Nat \ {0}
  BY AdaptiveAssumption

LEMMA QuantizedType ==
  ASSUME NEW kbps \in Int
  PROVE  QuantizeDown(kbps) \in Int
<1>1. kbps \div Quantum \in Int
  BY Parameters
<1> QED BY <1>1, Parameters DEF QuantizeDown

\* A controller that slows down does not end higher, whatever the floor.
LEMMA LoweredIsLower ==
  ASSUME NEW kbps \in Int, NEW n \in Nat, NEW d \in Nat \ {0}
  PROVE  Lowered(kbps, n, d) \in Int /\ Lowered(kbps, n, d) \leq kbps
<1> DEFINE slower == QuantizeDown((kbps * n) \div d)
<1>1. (kbps * n) \div d \in Int
  <2>1. kbps * n \in Int
    OBVIOUS
  <2> QED BY <2>1
<1>2. slower \in Int
  BY <1>1, QuantizedType
<1> HIDE DEF slower
<1>3. Max({Floor, slower}) \in Int
  BY <1>2, MaxOfTwo, Parameters
<1>4. Lowered(kbps, n, d) =
        IF Max({Floor, slower}) < kbps THEN Max({Floor, slower}) ELSE kbps
  BY DEF Lowered, slower
<1> QED BY <1>3, <1>4

LEMMA RaisedType ==
  ASSUME NEW kbps \in Int
  PROVE  Raised(kbps) \in Int
<1> DEFINE least == Max({Quantum, kbps \div 20})
           step == Min({MaxStep, least})
           next == QuantizeDown(Min({kbps + step, NewController.target}))
<1>1. least \in Int
  BY MaxOfTwo, Parameters
<1>2. step \in Int
  <2> HIDE DEF least
  <2> QED BY <1>1, MinOfTwo, Parameters
<1>3. NewController.target \in Int
  BY QuantizedType, Parameters DEF NewController
<1>4. Min({kbps + step, NewController.target}) \in Int
  <2> HIDE DEF step
  <2> QED BY <1>2, <1>3, MinOfTwo
<1>5. next \in Int
  BY <1>4, QuantizedType
<1> QED BY <1>5 DEF Raised

LEMMA AbsentIsWell ==
  /\ Absent \in Contributors
  /\ Earned(Absent) /\ CleanCounted(Absent)
  /\ Absent.id = 0 /\ Absent.recovery.phase = "active"
<1>1. NewController \in Controllers
  BY QuantizedType, Parameters DEF NewController, Controllers, Pressures
<1>2. NoEvaluation \in Evaluations
  BY DEF NoEvaluation, Evaluations, Severities
<1>3. Active(0) \in Recoveries /\ Active(0).phase = "active" /\ Active(0).breaches = 0
  BY DEF Active, Recoveries
<1>4. Absent \in Contributors
  BY <1>1, <1>2, <1>3 DEF Absent, Contributors, Reports
<1>5. NewController.clean = 0
  BY DEF NewController
<1> QED BY <1>3, <1>4, <1>5 DEF Absent, Earned, CleanCounted

\* Clean is said of a fresh window only, and of one without pressure.
LEMMA ClassifyIsTyped ==
  ASSUME NEW report \in Reports, NEW stale \in BOOLEAN, NEW host \in Pressures
  PROVE  /\ Classify(report, stale, host) \in Evaluations
         /\ Classify(report, stale, host).severity = "clean" =>
              /\ Classify(report, stale, host).fresh
              /\ Classify(report, stale, host).pressure = "clean"
<1>1. SignalOf(report) \in Pressures
  BY DEF SignalOf, Reports, Pressures
<1>2. Worst(host, SignalOf(report)) \in Pressures
  BY <1>1 DEF Worst, Pressures
<1> DEFINE pressure == IF stale THEN IF host = "clean" THEN "stale" ELSE host
                       ELSE Worst(host, SignalOf(report))
           severity == IF ~stale /\ pressure = "clean" /\ report = "bare"
                       THEN "insufficient" ELSE pressure
<1>3. pressure \in Severities /\ (stale => pressure # "clean")
  BY <1>2 DEF Pressures, Severities
<1>4. severity \in Severities /\ (severity = "clean" => ~stale /\ pressure = "clean")
  <2> HIDE DEF pressure
  <2> QED BY <1>3 DEF Severities
<1>5. Classify(report, stale, host) =
        [fresh |-> ~stale, pressure |-> pressure, severity |-> severity]
  BY DEF Classify
<1> HIDE DEF pressure, severity
<1>6. CASE stale = TRUE
  <2>1. Classify(report, stale, host) =
          [fresh |-> FALSE, pressure |-> pressure, severity |-> severity]
    BY <1>5, <1>6, Zenon
  <2> QED BY <1>3, <1>4, <1>6, <2>1 DEF Evaluations
<1>7. CASE stale = FALSE
  <2>1. Classify(report, stale, host) =
          [fresh |-> TRUE, pressure |-> pressure, severity |-> severity]
    BY <1>5, <1>7, Zenon
  <2> QED BY <1>3, <1>4, <2>1 DEF Evaluations
<1> QED BY <1>6, <1>7

\* The target rises only at the end of the clean windows, and a window that is
\* not clean starts them again.
LEMMA WindowsStep ==
  ASSUME NEW c \in Controllers, NEW severity \in Severities
  PROVE  /\ Windows(c, severity) \in Controllers
         /\ Windows(c, severity).target > c.target =>
              severity = "clean" /\ c.clean + 1 >= CleanWindows
         /\ \/ Windows(c, severity).clean = 0
            \/ /\ severity = "clean"
               /\ Windows(c, severity).clean = Min({c.clean + 1, CleanWindows})
<1> DEFINE cooled == [c EXCEPT !.cooldown = IF @ > 0 THEN @ - 1 ELSE 0]
           quiet == [cooled EXCEPT !.moderate = 0, !.clean = 0]
           slower(n, d) == [quiet EXCEPT !.cooldown = CooldownWindows,
                                         !.target = Lowered(@, n, d)]
<1>1. quiet \in Controllers /\ quiet.target = c.target /\ quiet.clean = 0
  <2>1. (IF c.cooldown > 0 THEN c.cooldown - 1 ELSE 0) \in Nat
    BY DEF Controllers
  <2>2. cooled \in Controllers /\ cooled.target = c.target
    BY <2>1 DEF Controllers
  <2> HIDE DEF cooled
  <2> QED BY <2>2 DEF Controllers
<1> HIDE DEF quiet
<1>2. ASSUME NEW n \in Nat, NEW d \in Nat \ {0}
      PROVE  /\ slower(n, d) \in Controllers
             /\ slower(n, d).target \leq c.target /\ slower(n, d).clean = 0
  <2>1. Lowered(quiet.target, n, d) \in Int /\ Lowered(quiet.target, n, d) \leq c.target
    BY <1>1, LoweredIsLower DEF Controllers
  <2> QED BY <1>1, <2>1, Parameters DEF Controllers
<1>3. /\ c.target \in Int /\ c.clean \in Nat /\ c.moderate \in Nat
      /\ 3 \in Nat /\ 4 \in Nat /\ 4 \in Nat \ {0} /\ 5 \in Nat \ {0}
  BY DEF Controllers
<1>4. CASE severity = "severe"
  <2>1. Windows(c, severity) = slower(3, 4)
    BY <1>4 DEF Windows, quiet
  <2>2. slower(3, 4) \in Controllers /\ slower(3, 4).target \leq c.target
        /\ slower(3, 4).clean = 0
    BY <1>2, <1>3, Zenon
  <2>3. slower(3, 4).target \in Int
    BY <2>2 DEF Controllers
  <2> HIDE DEF slower
  <2> QED BY <1>3, <2>1, <2>2, <2>3
<1>5. CASE severity = "moderate"
  <2>1. CASE c.moderate + 1 >= ModerateWindows
    <3>1. Windows(c, severity) = slower(4, 5)
      BY <1>5, <2>1 DEF Windows, quiet
    <3>2. slower(4, 5) \in Controllers /\ slower(4, 5).target \leq c.target
          /\ slower(4, 5).clean = 0
      BY <1>2, <1>3, Zenon
    <3>3. slower(4, 5).target \in Int
      BY <3>2 DEF Controllers
    <3> HIDE DEF slower
    <3> QED BY <1>3, <3>1, <3>2, <3>3
  <2>2. CASE ~(c.moderate + 1 >= ModerateWindows)
    <3>1. Windows(c, severity) = [quiet EXCEPT !.moderate = c.moderate + 1]
      BY <1>5, <2>2 DEF Windows, quiet
    <3> QED BY <1>1, <1>3, <3>1 DEF Controllers
  <2> QED BY <2>1, <2>2
<1>6. CASE severity = "clean"
  <2>1. CASE c.clean + 1 >= CleanWindows /\ cooled.cooldown = 0
    <3>1. Windows(c, severity) = [quiet EXCEPT !.target = Raised(@)]
      BY <1>6, <2>1 DEF Windows, quiet
    <3>2. Raised(quiet.target) \in Int
      BY <1>1, RaisedType DEF Controllers
    <3> QED BY <1>1, <1>6, <2>1, <3>1, <3>2 DEF Controllers
  <2>2. CASE ~(c.clean + 1 >= CleanWindows /\ cooled.cooldown = 0)
    <3>1. Windows(c, severity) = [quiet EXCEPT !.clean = Min({c.clean + 1, CleanWindows})]
      BY <1>6, <2>2 DEF Windows, quiet
    <3>2. Min({c.clean + 1, CleanWindows}) \in Nat
      BY <1>3, Parameters, MinOfTwo
    <3> QED BY <1>1, <1>3, <1>6, <3>1, <3>2 DEF Controllers
  <2> QED BY <2>1, <2>2
<1>7. CASE severity \in {"insufficient", "stale"}
  <2>1. Windows(c, severity) = quiet
    BY <1>7 DEF Windows, quiet
  <2> QED BY <1>1, <1>3, <2>1
<1> QED BY <1>4, <1>5, <1>6, <1>7 DEF Severities

LEMMA ControlledStep ==
  ASSUME NEW c \in Controllers, NEW e \in Evaluations
  PROVE  /\ Controlled(c, e) \in Controllers
         /\ Controlled(c, e).target = Windows(c, e.severity).target
         /\ Controlled(c, e).clean = Windows(c, e.severity).clean
<1> DEFINE next == Windows(c, e.severity)
           host == IF Held(c, next, e) THEN c.host ELSE "clean"
<1>1. next \in Controllers
  BY WindowsStep DEF Evaluations
<1>2. host \in Pressures
  BY DEF Controllers, Pressures
<1>3. Controlled(c, e) = [next EXCEPT !.heard = TRUE, !.host = host]
  BY DEF Controlled
<1> HIDE DEF next, host
<1>4. /\ Controlled(c, e) \in Controllers
      /\ Controlled(c, e).target = next.target /\ Controlled(c, e).clean = next.clean
  BY <1>1, <1>2, <1>3 DEF Controllers
<1> QED BY <1>4 DEF next

LEMMA NextAttempt ==
  ASSUME NEW a \in Nat, NEW r \in Nat
  PROVE  /\ a * r \in Nat /\ (a + 1) * r = a * r + r
         /\ (1 - 1) * r = 0 /\ (a + 1) - 1 = a
  OBVIOUS

\* What is left of a recovery has been earned: every breach and every window of
\* pressure that Observe counts is fresh, and is a strike.
LEMMA ObserveKeepsEarned ==
  ASSUME NEW c \in Contributors, Earned(c),
         NEW e \in Evaluations, e.severity = "clean" => e.pressure = "clean",
         NEW atFloor \in BOOLEAN,
         NEW d \in Contributors,
         d.recovery = Observe(c.recovery, e, atFloor),
         d.strikes = Strikes(c, e, d.recovery)
  PROVE  Earned(d)
<1> DEFINE r == c.recovery
           W == RecoveryPressureWindows
           pressed == e.fresh /\ e.pressure \in {"moderate", "severe"}
<1>1. /\ r \in Recoveries /\ c.strikes \in Nat
      /\ W \in Nat \ {0} /\ FloorBreachWindows \in Nat \ {0} /\ MaxAttempts \in Nat \ {0}
  BY Parameters DEF Contributors
<1>2. /\ r.phase \in {"active", "recovering", "detaching"} /\ r.breaches \in Nat
      /\ r.attempt \in Nat /\ r.pressure \in Nat /\ r.waited \in BOOLEAN
  BY <1>1 DEF Recoveries
<1>3. \A n \in Nat : /\ Active(n).phase = "active" /\ Active(n).breaches = n
                     /\ Recovering(n).phase = "recovering" /\ Recovering(n).attempt = n
                     /\ Recovering(n).pressure = 0
  BY DEF Active, Recovering
<1>4. Detaching.phase = "detaching"
  BY DEF Detaching, Active
<1>5. d.recovery.phase # "active" =>
        d.strikes = IF pressed THEN c.strikes + 1 ELSE c.strikes
  BY DEF Strikes
<1>6. CASE r.phase = "active"
  <2> DEFINE breaches == IF e.fresh /\ e.pressure = "severe" /\ atFloor
                         THEN r.breaches + 1 ELSE 0
  <2>1. d.recovery = IF breaches < FloorBreachWindows THEN Active(breaches)
                     ELSE Recovering(1)
    BY <1>6 DEF Observe, ObserveActive
  <2>2. breaches \in Nat /\ (breaches # 0 => pressed /\ breaches = r.breaches + 1)
    BY <1>2
  <2>3. r.breaches \leq c.strikes
    BY <1>6 DEF Earned
  <2>4. breaches # 0 => breaches \leq c.strikes + 1
    BY <1>1, <1>2, <2>2, <2>3
  <2> HIDE DEF breaches, r
  <2>5. CASE breaches < FloorBreachWindows
    <3>1. d.recovery = Active(breaches)
      BY <2>1, <2>5
    <3>2. d.recovery.phase = "active" /\ d.recovery.breaches = breaches
      BY <1>3, <2>2, <3>1
    <3>3. d.strikes = IF breaches = 0 THEN 0
                      ELSE IF pressed THEN c.strikes + 1 ELSE c.strikes
      BY <3>2 DEF Strikes
    <3>4. breaches \leq d.strikes
      BY <1>1, <2>2, <2>4, <3>3
    <3> QED BY <3>2, <3>4 DEF Earned
  <2>6. CASE ~(breaches < FloorBreachWindows)
    <3>1. d.recovery = Recovering(1)
      BY <2>1, <2>6
    <3>2. /\ d.recovery.phase = "recovering" /\ d.recovery.attempt = 1
          /\ d.recovery.pressure = 0
      BY <1>3, <3>1
    <3>3. breaches # 0
      BY <1>1, <2>2, <2>6
    <3>4. d.strikes >= FloorBreachWindows
      BY <1>1, <1>5, <2>2, <2>4, <2>6, <3>2, <3>3
    <3>5. (1 - 1) * W = 0
      BY <1>1, NextAttempt
    <3>6. d.strikes >= FloorBreachWindows + (d.recovery.attempt - 1) * W + d.recovery.pressure
      BY <1>1, <3>2, <3>4, <3>5
    <3> QED BY <1>1, <3>2, <3>6 DEF Earned
  <2> QED BY <2>5, <2>6
<1>7. CASE r.phase = "recovering"
  <2> DEFINE base == FloorBreachWindows + (r.attempt - 1) * W
  <2>1. r.attempt \in 1..MaxAttempts /\ c.strikes >= base + r.pressure
    BY <1>7 DEF Earned
  <2>2. PICK a \in Nat : r.attempt = a + 1
    BY <1>2, <2>1
  <2>3. /\ (r.attempt - 1) * W \in Nat
        /\ r.attempt * W = (r.attempt - 1) * W + W
    BY <1>1, <2>2, NextAttempt
  <2>4. base \in Nat
    BY <1>1, <2>3
  <2> HIDE DEF r
  <2>5. CASE ~r.waited \/ ~e.fresh
             \/ (e.severity # "clean" /\ e.pressure \notin {"moderate", "severe"})
    <3>1. \/ d.recovery = r
          \/ d.recovery = [r EXCEPT !.clean = 0, !.pressure = 0]
      <4>1. CASE ~r.waited
        BY <1>7, <4>1 DEF Observe, r
      <4>2. CASE r.waited
        <5>1. d.recovery = ObserveRecovering(r, e)
          BY <1>7, <4>2 DEF Observe, r
        <5> QED BY <2>5, <4>2, <5>1 DEF ObserveRecovering
      <4> QED BY <4>1, <4>2
    <3>2. /\ d.recovery.phase = "recovering" /\ d.recovery.attempt = r.attempt
          /\ d.recovery.pressure \in Nat /\ d.recovery.pressure \leq r.pressure
      <4>1. CASE d.recovery = r
        BY <1>2, <1>7, <4>1 DEF r
      <4>2. CASE d.recovery = [r EXCEPT !.clean = 0, !.pressure = 0]
        <5>1. r.phase = "recovering"
          BY <1>7
        <5>2. /\ d.recovery.phase = r.phase /\ d.recovery.attempt = r.attempt
              /\ d.recovery.pressure = 0
          BY <1>1, <4>2 DEF Recoveries
        <5> QED BY <1>2, <5>1, <5>2
      <4> QED BY <3>1, <4>1, <4>2
    <3>3. d.strikes >= c.strikes
      BY <1>1, <1>5, <3>2
    <3>4. d.strikes >= base + d.recovery.pressure
      BY <1>1, <1>2, <1>5, <2>1, <2>4, <3>2, <3>3
    <3> QED BY <2>1, <3>2, <3>4 DEF Earned
  <2>6. CASE r.waited /\ e.fresh /\ e.severity = "clean"
    <3>1. d.recovery = IF r.clean + 1 >= RecoveryCleanWindows THEN Active(0)
                       ELSE [r EXCEPT !.clean = @ + 1, !.pressure = 0]
      <4>1. d.recovery = ObserveRecovering(r, e)
        BY <1>7, <2>6 DEF Observe, r
      <4> QED BY <2>6, <4>1 DEF ObserveRecovering
    <3>2. CASE d.recovery = Active(0)
      <4>1. d.recovery.phase = "active" /\ d.recovery.breaches = 0
        BY <1>3, <3>2
      <4>2. d.strikes = 0
        BY <4>1 DEF Strikes
      <4> QED BY <4>1, <4>2 DEF Earned
    <3>3. CASE d.recovery = [r EXCEPT !.clean = @ + 1, !.pressure = 0]
      <4>1. /\ d.recovery.phase = "recovering" /\ d.recovery.attempt = r.attempt
            /\ d.recovery.pressure = 0
        BY <1>1, <1>7, <3>3 DEF Recoveries
      <4>2. d.strikes >= base + d.recovery.pressure
        BY <1>1, <1>2, <1>5, <2>1, <2>4, <4>1
      <4> QED BY <2>1, <4>1, <4>2 DEF Earned
    <3> QED BY <3>1, <3>2, <3>3
  <2>7. CASE r.waited /\ e.fresh /\ e.severity # "clean"
             /\ e.pressure \in {"moderate", "severe"}
    <3>1. d.recovery = IF r.pressure + 1 < W
                       THEN [r EXCEPT !.pressure = @ + 1, !.clean = 0]
                       ELSE IF r.attempt >= MaxAttempts THEN Detaching
                       ELSE Recovering(r.attempt + 1)
      BY <1>7, <2>7 DEF Observe, ObserveRecovering, r
    <3>2. CASE r.pressure + 1 < W
      <4>1. /\ d.recovery.phase = "recovering" /\ d.recovery.attempt = r.attempt
            /\ d.recovery.pressure = r.pressure + 1
        BY <1>1, <1>7, <3>1, <3>2 DEF Recoveries
      <4>2. d.strikes = c.strikes + 1
        BY <1>5, <2>7, <4>1
      <4>3. d.strikes >= base + d.recovery.pressure
        BY <1>1, <1>2, <2>1, <2>4, <4>1, <4>2
      <4> QED BY <2>1, <4>1, <4>3 DEF Earned
    <3>3. CASE ~(r.pressure + 1 < W) /\ r.attempt >= MaxAttempts
      <4>1. d.recovery.phase = "detaching" /\ r.attempt = MaxAttempts
        <5> HIDE DEF base
        <5>1. r.attempt = MaxAttempts
          BY <1>1, <1>2, <2>1, <3>3
        <5>2. d.recovery = Detaching
          BY <3>1, <3>3
        <5> QED BY <1>4, <5>1, <5>2
      <4>2. d.strikes = c.strikes + 1
        BY <1>5, <2>7, <4>1
      <4>3. c.strikes + 1 >= FloorBreachWindows + r.attempt * W
        BY <1>1, <1>2, <2>1, <2>3, <2>4, <3>3
      <4>4. d.strikes >= FloorBreachWindows + MaxAttempts * W
        BY <4>1, <4>2, <4>3
      <4> QED BY <4>1, <4>4 DEF Earned
    <3>4. CASE ~(r.pressure + 1 < W) /\ ~(r.attempt >= MaxAttempts)
      <4>1. d.recovery = Recovering(r.attempt + 1) /\ r.attempt + 1 \in Nat
        BY <1>2, <3>1, <3>4
      <4>2. /\ d.recovery.phase = "recovering" /\ d.recovery.attempt = r.attempt + 1
            /\ d.recovery.pressure = 0 /\ (r.attempt + 1) - 1 = r.attempt
        BY <1>2, <1>3, <4>1
      <4>3. d.strikes = c.strikes + 1
        BY <1>5, <2>7, <4>2
      <4>4. c.strikes + 1 >= FloorBreachWindows + r.attempt * W
        BY <1>1, <1>2, <2>1, <2>3, <2>4, <3>4
      <4>5. r.attempt * W \in Nat
        BY <1>1, <1>2, NextAttempt
      <4>6. d.strikes >= FloorBreachWindows + (d.recovery.attempt - 1) * W
                           + d.recovery.pressure
        BY <1>1, <4>2, <4>3, <4>4, <4>5
      <4>7. d.recovery.attempt \in 1..MaxAttempts
        BY <1>1, <1>2, <3>4, <4>2
      <4> QED BY <4>2, <4>6, <4>7 DEF Earned
    <3> QED BY <3>2, <3>3, <3>4
  <2> QED BY <2>5, <2>6, <2>7
<1>8. CASE r.phase = "detaching"
  <2>1. d.recovery = r
    BY <1>8 DEF Observe
  <2>2. FloorBreachWindows + MaxAttempts * W \in Nat
    BY <1>1, NextAttempt
  <2>3. d.strikes >= c.strikes
    BY <1>1, <1>5, <1>8, <2>1
  <2>4. d.strikes \in Nat
    BY DEF Contributors
  <2>5. c.strikes >= FloorBreachWindows + MaxAttempts * W
    BY <1>8 DEF Earned
  <2>6. d.strikes >= FloorBreachWindows + MaxAttempts * W
    BY <1>1, <2>2, <2>3, <2>4, <2>5
  <2> QED BY <1>8, <2>1, <2>6 DEF Earned
<1> QED BY <1>2, <1>6, <1>7, <1>8

LEMMA ObserveType ==
  ASSUME NEW r \in Recoveries, NEW e, NEW atFloor
  PROVE  Observe(r, e, atFloor) \in Recoveries
<1>1. \A n \in Nat : Active(n) \in Recoveries /\ Recovering(n) \in Recoveries
  BY DEF Active, Recovering, Recoveries
<1>2. Detaching \in Recoveries
  BY DEF Detaching, Active, Recoveries
<1>3. /\ r.phase \in {"active", "recovering", "detaching"} /\ r.breaches \in Nat
      /\ r.attempt \in Nat /\ r.clean \in Nat /\ r.pressure \in Nat
  BY DEF Recoveries
<1>4. ObserveActive(r, e, atFloor) \in Recoveries
  <2> DEFINE breaches == IF e.fresh /\ e.pressure = "severe" /\ atFloor
                         THEN r.breaches + 1 ELSE 0
  <2>1. breaches \in Nat
    BY <1>3
  <2>2. ObserveActive(r, e, atFloor) \in {Active(breaches), Recovering(1)}
    BY DEF ObserveActive
  <2> HIDE DEF breaches
  <2> QED BY <1>1, <2>1, <2>2
<1>5. ObserveRecovering(r, e) \in Recoveries
  <2>1. ASSUME NEW n \in Nat, NEW m \in Nat
        PROVE  /\ [r EXCEPT !.clean = n, !.pressure = m] \in Recoveries
               /\ [r EXCEPT !.pressure = n, !.clean = m] \in Recoveries
    BY DEF Recoveries
  <2>2. 0 \in Nat /\ r.clean + 1 \in Nat /\ r.pressure + 1 \in Nat /\ r.attempt + 1 \in Nat
    BY <1>3
  <2>3. /\ [r EXCEPT !.clean = r.clean + 1, !.pressure = 0] \in Recoveries
        /\ [r EXCEPT !.pressure = r.pressure + 1, !.clean = 0] \in Recoveries
        /\ [r EXCEPT !.clean = 0, !.pressure = 0] \in Recoveries
    BY <2>1, <2>2, Zenon
  <2>4. ObserveRecovering(r, e) \in
          {Active(0), Detaching, Recovering(r.attempt + 1),
           [r EXCEPT !.clean = r.clean + 1, !.pressure = 0],
           [r EXCEPT !.pressure = r.pressure + 1, !.clean = 0],
           [r EXCEPT !.clean = 0, !.pressure = 0]}
    BY DEF ObserveRecovering
  <2> QED BY <1>1, <1>2, <2>2, <2>3, <2>4, Zenon
<1> QED BY <1>3, <1>4, <1>5 DEF Observe

\* What one evaluation does to a contributor.
LEMMA EvaluatedStep ==
  ASSUME NEW c \in Contributors, Earned(c), CleanCounted(c)
  PROVE  /\ Evaluated(c) \in Contributors
         /\ Evaluated(c).id = c.id /\ Evaluated(c).revision = c.revision
         /\ Earned(Evaluated(c)) /\ CleanCounted(Evaluated(c))
         /\ Evaluated(c).controller.target > c.controller.target =>
              Evaluated(c).streak >= CleanWindows
         /\ c.recovery.phase = "detaching" => Evaluated(c).recovery.phase = "detaching"
<1> DEFINE report == IF c.resync THEN "resync" ELSE c.latest
           stale == c.stale \/ ~c.controller.heard
           e == Classify(report, stale, c.controller.host)
           controller == Controlled(c.controller, e)
           recovery == Observe(c.recovery, e, controller.target = Floor)
           strikes == Strikes(c, e, recovery)
           streak == IF e.fresh /\ e.severity = "clean"
                     THEN Min({c.streak + 1, CleanWindows}) ELSE 0
           d == Evaluated(c)
<1>1. /\ c.controller \in Controllers /\ c.recovery \in Recoveries
      /\ c.latest \in Reports /\ c.streak \in Nat /\ c.strikes \in Nat
      /\ c.resync \in BOOLEAN /\ c.stale \in BOOLEAN
      /\ c.id \in Nat /\ c.revision \in Nat
  BY DEF Contributors
<1>2. /\ c.controller.host \in Pressures /\ c.controller.heard \in BOOLEAN
      /\ c.controller.target \in Int /\ c.controller.clean \in Nat
  BY <1>1 DEF Controllers
<1>3. report \in Reports /\ stale \in BOOLEAN
  BY <1>1, <1>2 DEF Reports
<1>4. /\ e \in Evaluations
      /\ e.severity = "clean" => e.fresh /\ e.pressure = "clean"
  <2> HIDE DEF report, stale
  <2> QED BY <1>2, <1>3, ClassifyIsTyped
<1> HIDE DEF report, stale, e
<1>5. /\ controller \in Controllers
      /\ controller.target = Windows(c.controller, e.severity).target
      /\ controller.clean = Windows(c.controller, e.severity).clean
  BY <1>1, <1>4, ControlledStep
<1>6. (controller.target = Floor) \in BOOLEAN
  OBVIOUS
<1> HIDE DEF controller
<1>7. recovery \in Recoveries
  BY <1>1, ObserveType
<1> HIDE DEF recovery
<1>8. strikes \in Nat
  BY <1>1 DEF Strikes
<1>9. streak \in Nat
  BY <1>1, MinOfTwo, Parameters
<1> HIDE DEF strikes, streak
<1>10. d = [c EXCEPT !.news = FALSE, !.latest = "clean", !.stale = FALSE,
                     !.resync = FALSE, !.controller = controller, !.evaluation = e,
                     !.recent = TRUE, !.recovery = recovery, !.strikes = strikes,
                     !.streak = streak]
  BY DEF Evaluated, report, stale, e, controller, recovery, strikes, streak
<1> HIDE DEF d
<1>11. /\ d \in Contributors /\ d.id = c.id /\ d.revision = c.revision
       /\ d.controller = controller
       /\ d.recovery = recovery /\ d.strikes = strikes /\ d.streak = streak
  BY <1>4, <1>5, <1>7, <1>8, <1>9, <1>10 DEF Contributors, Reports
<1>12. Earned(d)
  <2>1. d.recovery = Observe(c.recovery, e, controller.target = Floor)
    BY <1>11 DEF recovery
  <2>2. d.strikes = Strikes(c, e, d.recovery)
    BY <1>11 DEF strikes
  <2>3. ASSUME NEW b \in BOOLEAN, b = (controller.target = Floor)
        PROVE  Earned(d)
    <3>1. d.recovery = Observe(c.recovery, e, b)
      BY <2>1, <2>3
    <3> QED BY <1>4, <1>11, <2>2, <3>1, ObserveKeepsEarned
  <2> QED BY <1>6, <2>3
<1>13. /\ controller.target > c.controller.target =>
             e.severity = "clean" /\ c.controller.clean + 1 >= CleanWindows
       /\ \/ controller.clean = 0
          \/ /\ e.severity = "clean"
             /\ controller.clean = Min({c.controller.clean + 1, CleanWindows})
  <2>1. e.severity \in Severities
    BY <1>4 DEF Evaluations
  <2> QED BY <1>1, <1>5, <2>1, WindowsStep
<1>14. c.controller.clean \leq c.streak
  BY DEF CleanCounted
<1>15. e.severity = "clean" => streak = IF c.streak + 1 \leq CleanWindows
                                        THEN c.streak + 1 ELSE CleanWindows
  BY <1>1, <1>4, MinOfTwo, Parameters DEF streak
<1>16. Min({c.controller.clean + 1, CleanWindows}) =
         IF c.controller.clean + 1 \leq CleanWindows
         THEN c.controller.clean + 1 ELSE CleanWindows
  BY <1>2, MinOfTwo, Parameters
<1>17. controller.clean \leq streak
  BY <1>1, <1>2, <1>9, <1>13, <1>14, <1>15, <1>16, Parameters
<1>18. controller.target > c.controller.target => streak >= CleanWindows
  BY <1>1, <1>2, <1>13, <1>14, <1>15, Parameters
<1>19. c.recovery.phase = "detaching" => recovery.phase = "detaching"
  BY DEF recovery, Observe
<1> QED BY <1>11, <1>12, <1>17, <1>18, <1>19 DEF d, CleanCounted

-----------------------------------------------------------------------------
\* What the invariant says of a state.

\* Two registrations of one viewer are the same.
LEMMA OneRegistration ==
  ASSUME RegistrationsInv, NEW h \in handles, NEW k \in handles, h.viewer = k.viewer
  PROVE  h = k
<1>1. h.id = k.id /\ h.revision = k.revision
  BY DEF RegistrationsInv, Matches
<1>2. /\ h \in [viewer : Viewers, id : 1..claims, revision : Nat]
      /\ k \in [viewer : Viewers, id : 1..claims, revision : Nat]
  BY DEF RegistrationsInv
<1> QED BY <1>1, <1>2

\* An identity is one registration's: it names one viewer, and 0 is that of the
\* viewers without a contributor.
LEMMA IdentitiesAreOwn ==
  ASSUME RegistrationsInv, contributors \in [Viewers -> Contributors]
  PROVE  /\ \A v \in Viewers : /\ contributors[v].id \in 0..claims
                               /\ contributors[v].id = 0 <=> contributors[v] = Absent
         /\ \A v, w \in Viewers :
              contributors[v].id # 0 /\ contributors[v].id = contributors[w].id
              => v = w
         /\ \A v \in Viewers, l \in leases :
              contributors[v].id # 0 /\ contributors[v].id = l.id => ~l.fresh
<1>1. \A v \in Viewers : contributors[v] # Absent =>
        \E l \in leases : l.viewer = v /\ l.id = contributors[v].id /\ ~l.fresh
  BY DEF RegistrationsInv
<1>2. \A l \in leases : l.id \in 1..claims
  BY DEF RegistrationsInv, LeasesInv
<1>3. \A v \in Viewers : contributors[v] # Absent => contributors[v].id \in 1..claims
  BY <1>1, <1>2
<1>4. claims \in Nat /\ \A l, m \in leases : l.viewer = m.viewer \/ l.id = m.id => l = m
  BY DEF RegistrationsInv, LeasesInv
<1>5. \A v \in Viewers : /\ contributors[v].id \in 0..claims
                         /\ contributors[v].id = 0 <=> contributors[v] = Absent
  BY <1>3, <1>4, AbsentIsWell
<1>6. ASSUME NEW v \in Viewers, NEW w \in Viewers, contributors[v].id # 0,
             contributors[v].id = contributors[w].id
      PROVE  v = w
  <2>1. PICK l \in leases : l.viewer = v /\ l.id = contributors[v].id
    BY <1>1, <1>5, <1>6
  <2>2. PICK m \in leases : m.viewer = w /\ m.id = contributors[w].id
    BY <1>1, <1>5, <1>6
  <2> QED BY <1>4, <1>6, <2>1, <2>2
<1>7. ASSUME NEW v \in Viewers, NEW l \in leases, contributors[v].id # 0,
             contributors[v].id = l.id
      PROVE  ~l.fresh
  <2>1. PICK m \in leases : m.id = contributors[v].id /\ ~m.fresh
    BY <1>1, <1>5, <1>7
  <2> QED BY <1>4, <1>7, <2>1
<1> QED BY <1>5, <1>6, <1>7

\* The count looks at who is registered and active, and at nothing else.
LEMMA CountLooksAtPhases ==
  ASSUME NEW cs, NEW ds,
         \A v \in Viewers : /\ cs[v].id = ds[v].id
                            /\ cs[v].recovery.phase = ds[v].recovery.phase
  PROVE  RecoveringCount(cs) = RecoveringCount(ds)
<1>1. {v \in Registered(cs) : cs[v].recovery.phase # "active"}
        = {v \in Registered(ds) : ds[v].recovery.phase # "active"}
  BY DEF Registered
<1> QED BY <1>1 DEF RecoveringCount

-----------------------------------------------------------------------------
\* The steps.

LEMMA InitAdaptive == Init => AdaptiveInv
<1> SUFFICES ASSUME Init PROVE AdaptiveInv
  OBVIOUS
<1>1. \A v \in Viewers : contributors[v] = Absent
  BY DEF Init
<1>2. contributors \in [Viewers -> Contributors]
  BY AbsentIsWell DEF Init
<1>3. RegistrationsInv
  BY <1>1 DEF Init, RegistrationsInv, LeasesInv
<1>4. RecoveringCountExact
  <2>1. {v \in Registered(contributors) : contributors[v].recovery.phase # "active"} = {}
    BY <1>1, AbsentIsWell
    DEF Registered
  <2> QED BY <2>1, FS_EmptySet DEF RecoveringCountExact, RecoveringCount, Init
<1>5. DetachedInv
  BY <1>1, AbsentIsWell DEF Init, DetachedInv
<1> QED BY <1>1, <1>2, <1>3, <1>4, <1>5, AbsentIsWell DEF AdaptiveInv

LEMMA ClaimFeedbackStep ==
  ASSUME AdaptiveInv, NEW v \in Viewers, NEW raised \in BOOLEAN,
         ClaimFeedback(v, raised)
  PROVE  AdaptiveInv' /\ contributors' = contributors
<1> DEFINE revision == authorization[v] + (IF raised THEN 1 ELSE 0)
           new == [viewer |-> v, id |-> claims + 1, revision |-> revision, fresh |-> TRUE]
<1>1. RegistrationsInv /\ LeasesInv /\ DetachedInv
  BY DEF AdaptiveInv, RegistrationsInv
<1>2. /\ claims' = claims + 1
      /\ authorization' = [authorization EXCEPT ![v] = revision]
      /\ leases' = leases \cup {new}
      /\ ~FeedbackClaimed(v)
      /\ UNCHANGED <<contributors, handles, recovering, detached, shadow>>
  BY DEF ClaimFeedback
<1>3. revision \in Nat
  BY <1>1 DEF LeasesInv
<1> HIDE DEF revision
<1>4. claims \in Nat /\ claims' \in Nat /\ 1..claims \subseteq 1..claims'
  BY <1>1, <1>2 DEF LeasesInv
<1>5. /\ new \in [viewer : Viewers, id : 1..claims', revision : Nat, fresh : BOOLEAN]
      /\ new.viewer = v /\ new.id = claims + 1
  BY <1>2, <1>3, <1>4
<1> HIDE DEF new
<1>6. \A l \in leases : /\ l \in [viewer : Viewers, id : 1..claims, revision : Nat, fresh : BOOLEAN]
                        /\ l.viewer # v /\ l.id # claims + 1
  BY <1>1, <1>2, <1>4 DEF LeasesInv, FeedbackClaimed
<1>7. LeasesInv'
  <2>1. leases' \subseteq [viewer : Viewers, id : 1..claims', revision : Nat, fresh : BOOLEAN]
    BY <1>2, <1>4, <1>5, <1>6
  <2>2. \A l, m \in leases' : l.viewer = m.viewer \/ l.id = m.id => l = m
    BY <1>1, <1>2, <1>5, <1>6 DEF LeasesInv
  <2>3. authorization' \in [Viewers -> Nat]
    BY <1>1, <1>2, <1>3 DEF LeasesInv
  <2> QED BY <1>4, <2>1, <2>2, <2>3 DEF LeasesInv
<1>8. RegistrationsInv'
  <2>1. handles' \subseteq [viewer : Viewers, id : 1..claims', revision : Nat]
    BY <1>1, <1>2, <1>4 DEF RegistrationsInv
  <2> QED BY <1>1, <1>2, <1>7, <2>1 DEF RegistrationsInv, Matches
<1>9. DetachedInv'
  <2>1. new.id \notin detached
    BY <1>1, <1>4, <1>5 DEF DetachedInv
  <2> QED BY <1>1, <1>2, <1>4, <2>1 DEF DetachedInv
<1> QED BY <1>2, <1>8, <1>9 DEF AdaptiveInv, RecoveringCountExact

LEMMA RegisterStep ==
  ASSUME AdaptiveInv, NEW l \in leases, Register(l)
  PROVE  /\ AdaptiveInv'
         /\ contributors' = [contributors EXCEPT ![l.viewer] = Joined(l)]
         /\ contributors[l.viewer].id # Joined(l).id
<1> DEFINE v == l.viewer
           d == Joined(l)
           used == [l EXCEPT !.fresh = FALSE]
           new == [viewer |-> l.viewer, id |-> l.id, revision |-> l.revision]
<1>1. /\ RegistrationsInv /\ LeasesInv /\ contributors \in [Viewers -> Contributors]
      /\ DetachedInv
  BY DEF AdaptiveInv, RegistrationsInv
<1>2. /\ contributors' = [contributors EXCEPT ![v] = d]
      /\ leases' = (leases \ {l}) \cup {used}
      /\ handles' = handles \cup {new}
      /\ l.fresh
      /\ UNCHANGED <<authorization, claims, detached, shadow>>
  BY DEF Register
<1>3. /\ l \in [viewer : Viewers, id : 1..claims, revision : Nat, fresh : BOOLEAN]
      /\ claims \in Nat
  BY <1>1 DEF LeasesInv
<1>4. /\ d \in Contributors /\ d.id = l.id /\ d.revision = l.revision
      /\ d.recovery.phase = "active" /\ Earned(d) /\ CleanCounted(d)
  <2>1. d = [Absent EXCEPT !.id = l.id, !.revision = l.revision]
    BY DEF Joined
  <2>2. l.id \in Nat /\ l.revision \in Nat
    BY <1>3
  <2> QED BY <2>1, <2>2, AbsentIsWell DEF Contributors, Earned, CleanCounted
<1>5. /\ used \in [viewer : Viewers, id : 1..claims, revision : Nat, fresh : BOOLEAN]
      /\ used.viewer = v /\ used.id = l.id /\ ~used.fresh
  BY <1>3
<1>6. /\ new \in [viewer : Viewers, id : 1..claims, revision : Nat]
      /\ new.viewer = v /\ new.id = l.id /\ new.revision = l.revision
  BY <1>3
<1>7. v \in Viewers
  BY <1>3
<1> HIDE DEF d, used, new, v
<1>8. /\ contributors' \in [Viewers -> Contributors] /\ contributors'[v] = d
      /\ \A w \in Viewers \ {v} : contributors'[w] = contributors[w]
  BY <1>1, <1>2, <1>4, <1>7
<1>9. \A h \in handles : h.viewer \in Viewers /\ h.viewer # v
  <2> SUFFICES ASSUME NEW h \in handles, h.viewer = v PROVE FALSE
    BY <1>1 DEF RegistrationsInv
  <2>1. PICK m \in leases : m.viewer = v /\ ~m.fresh
    BY <1>1 DEF RegistrationsInv
  <2>2. m = l
    BY <1>1, <2>1 DEF LeasesInv, v
  <2> QED BY <1>2, <2>1, <2>2
<1>10. contributors[v] = Absent
  BY <1>1, <1>7, <1>9 DEF RegistrationsInv
<1>11. LeasesInv'
  <2>1. \A m \in leases \ {l} : m.viewer # v /\ m.id # l.id
    BY <1>1 DEF LeasesInv, v
  <2> QED BY <1>1, <1>2, <1>5, <2>1 DEF LeasesInv
<1>12. RegistrationsInv'
  <2>1. handles' \subseteq [viewer : Viewers, id : 1..claims', revision : Nat]
    BY <1>1, <1>2, <1>6 DEF RegistrationsInv
  <2>2. ASSUME NEW h \in handles
        PROVE  /\ contributors'[h.viewer] = contributors[h.viewer]
               /\ \E m \in leases' : m.viewer = h.viewer /\ m.id = h.id /\ ~m.fresh
    <3>1. PICK m \in leases : m.viewer = h.viewer /\ m.id = h.id /\ ~m.fresh
      BY <1>1 DEF RegistrationsInv
    <3>2. m # l
      BY <1>2, <3>1
    <3> QED BY <1>2, <1>8, <1>9, <3>1, <3>2
  <2>3. \A h \in handles' :
          \E m \in leases' : m.viewer = h.viewer /\ m.id = h.id /\ ~m.fresh
    BY <1>2, <1>5, <1>6, <2>2
  <2>4. \A h \in handles' : /\ contributors'[h.viewer].id = h.id
                            /\ contributors'[h.viewer].revision = h.revision
    BY <1>1, <1>2, <1>4, <1>6, <1>8, <2>2 DEF RegistrationsInv, Matches
  <2>5. ASSUME NEW w \in Viewers, contributors'[w] # Absent
        PROVE  \E h \in handles' : h.viewer = w
    <3>1. CASE w = v
      BY <1>2, <1>6, <3>1
    <3>2. CASE w # v
      BY <1>1, <1>2, <1>8, <2>5, <3>2 DEF RegistrationsInv
    <3> QED BY <3>1, <3>2
  <2> QED BY <1>11, <2>1, <2>3, <2>4, <2>5 DEF RegistrationsInv, Matches
<1>13. RecoveringCountExact'
  BY DEF Register, RecoveringCountExact
<1>14. DetachedInv'
  <2>1. d.id \notin detached
    BY <1>1, <1>2, <1>4 DEF DetachedInv
  <2> QED BY <1>1, <1>2, <1>5, <1>8, <2>1 DEF DetachedInv
<1>15. \A w \in Viewers : Earned(contributors'[w]) /\ CleanCounted(contributors'[w])
  BY <1>4, <1>8 DEF AdaptiveInv
<1>16. contributors[v].id # d.id
  BY <1>3, <1>4, <1>10, AbsentIsWell
<1> QED BY <1>2, <1>8, <1>12, <1>13, <1>14, <1>15, <1>16 DEF AdaptiveInv, d, v

LEMMA UnregisterStep ==
  ASSUME AdaptiveInv, NEW h \in handles, Unregister(h)
  PROVE  /\ AdaptiveInv'
         /\ contributors' = [contributors EXCEPT ![h.viewer] = Absent]
         /\ contributors[h.viewer].id # 0 /\ h.viewer \in Viewers
<1>1. RegistrationsInv /\ contributors \in [Viewers -> Contributors] /\ DetachedInv
  BY DEF AdaptiveInv
<1>2. /\ h.viewer \in Viewers /\ h.id \in 1..claims /\ contributors[h.viewer].id = h.id
      /\ Matches(h)
  BY <1>1 DEF RegistrationsInv
<1>3. /\ handles' = handles \ {h}
      /\ contributors' = [contributors EXCEPT ![h.viewer] = Absent]
      /\ recovering' = RecoveringCount(contributors')
      /\ UNCHANGED <<leases, authorization, claims, detached, shadow>>
  BY <1>2 DEF Unregister
<1>4. /\ contributors' \in [Viewers -> Contributors] /\ contributors'[h.viewer] = Absent
      /\ \A w \in Viewers \ {h.viewer} : contributors'[w] = contributors[w]
  BY <1>1, <1>2, <1>3, AbsentIsWell
<1>5. RegistrationsInv'
  <2>1. \A k \in handles' : k \in handles /\ k.viewer \in Viewers \ {h.viewer}
    BY <1>1, <1>3, OneRegistration DEF RegistrationsInv
  <2>2. \A w \in Viewers : contributors'[w] # Absent =>
          \E k \in handles' : k.viewer = w
    BY <1>1, <1>3, <1>4 DEF RegistrationsInv
  <2>3. LeasesInv'
    BY <1>1, <1>3 DEF RegistrationsInv, LeasesInv
  <2> QED BY <1>1, <1>3, <1>4, <2>1, <2>2, <2>3 DEF RegistrationsInv, Matches
<1>6. RecoveringCountExact'
  BY <1>3 DEF RecoveringCountExact
<1>7. \A w \in Viewers : Earned(contributors'[w]) /\ CleanCounted(contributors'[w])
  BY <1>4, AbsentIsWell DEF AdaptiveInv
<1>8. DetachedInv'
  <2>1. 0 \notin detached
    BY <1>1 DEF DetachedInv
  <2> QED BY <1>1, <1>3, <1>4, <2>1, AbsentIsWell DEF DetachedInv
<1> QED BY <1>2, <1>3, <1>4, <1>5, <1>6, <1>7, <1>8 DEF AdaptiveInv

LEMMA ReleaseFeedbackStep ==
  ASSUME AdaptiveInv, NEW l \in leases, ReleaseFeedback(l)
  PROVE  AdaptiveInv' /\ contributors' = contributors
<1>1. RegistrationsInv /\ LeasesInv /\ DetachedInv
  BY DEF AdaptiveInv, RegistrationsInv
<1>2. /\ leases' = leases \ {l} /\ \A h \in handles : h.id # l.id
      /\ UNCHANGED <<contributors, handles, authorization, claims, recovering,
                     detached, shadow>>
  BY DEF ReleaseFeedback
<1>3. LeasesInv'
  BY <1>1, <1>2 DEF LeasesInv
<1>4. \A h \in handles' :
        \E m \in leases' : m.viewer = h.viewer /\ m.id = h.id /\ ~m.fresh
  BY <1>1, <1>2 DEF RegistrationsInv
<1>5. RegistrationsInv'
  BY <1>1, <1>2, <1>3, <1>4 DEF RegistrationsInv, Matches
<1>6. DetachedInv'
  BY <1>1, <1>2 DEF DetachedInv
<1> QED BY <1>2, <1>5, <1>6 DEF AdaptiveInv, RecoveringCountExact

\* While no feedback connection comes or goes, contributors may change as long as
\* they keep their identities and revisions.
LEMMA RegistrationsStay ==
  ASSUME RegistrationsInv, UNCHANGED connectionVars,
         \A v \in Viewers : /\ contributors'[v].id = contributors[v].id
                            /\ contributors'[v].revision = contributors[v].revision,
         \A v \in Viewers : contributors[v] = Absent => contributors'[v] = Absent
  PROVE  RegistrationsInv'
<1>1. UNCHANGED <<leases, handles, authorization, claims>>
  BY DEF connectionVars
<1>2. \A h \in handles : /\ h.viewer \in Viewers /\ (Matches(h)' <=> Matches(h))
                         /\ contributors'[h.viewer].id = contributors[h.viewer].id
  BY <1>1 DEF RegistrationsInv, Matches
<1>3. \A v \in Viewers : contributors'[v] # Absent => \E h \in handles : h.viewer = v
  BY DEF RegistrationsInv
<1>4. LeasesInv'
  BY <1>1 DEF RegistrationsInv, LeasesInv
<1> QED BY <1>1, <1>2, <1>3, <1>4 DEF RegistrationsInv, Matches

\* A step of one contributor that leaves its phase and its target alone.
LEMMA OneContributorMoves ==
  ASSUME AdaptiveInv, NEW v \in Viewers, contributors[v].id # 0,
         NEW d \in Contributors, contributors' = [contributors EXCEPT ![v] = d],
         d.id = contributors[v].id, d.revision = contributors[v].revision,
         d.recovery.phase = contributors[v].recovery.phase,
         d.controller.target = contributors[v].controller.target,
         Earned(d), CleanCounted(d),
         UNCHANGED <<connectionVars, recovering, detached, shadow>>
  PROVE  /\ AdaptiveInv'
         /\ \A w \in Viewers :
              contributors'[w].controller.target = contributors[w].controller.target
<1>1. RegistrationsInv /\ contributors \in [Viewers -> Contributors] /\ DetachedInv
  BY DEF AdaptiveInv
<1>2. /\ contributors' \in [Viewers -> Contributors] /\ contributors'[v] = d
      /\ \A w \in Viewers \ {v} : contributors'[w] = contributors[w]
  BY <1>1
<1>3. contributors[v] # Absent
  BY AbsentIsWell
<1>4. \A w \in Viewers :
        /\ contributors'[w].id = contributors[w].id
        /\ contributors'[w].revision = contributors[w].revision
        /\ contributors'[w].recovery.phase = contributors[w].recovery.phase
        /\ contributors'[w].controller.target = contributors[w].controller.target
        /\ contributors[w] = Absent => contributors'[w] = Absent
        /\ Earned(contributors'[w]) /\ CleanCounted(contributors'[w])
  BY <1>2, <1>3 DEF AdaptiveInv
<1>5. RegistrationsInv'
  BY <1>1, <1>4, RegistrationsStay
<1>6. RecoveringCountExact'
  <2>1. RecoveringCount(contributors') = RecoveringCount(contributors)
    BY <1>4, CountLooksAtPhases
  <2> QED BY <2>1 DEF AdaptiveInv, RecoveringCountExact
<1>7. DetachedInv'
  BY <1>1, <1>4 DEF DetachedInv, connectionVars
<1> QED BY <1>2, <1>4, <1>5, <1>6, <1>7 DEF AdaptiveInv

LEMMA ObserveReportStep ==
  ASSUME AdaptiveInv, NEW h \in handles, NEW report \in Reports, NEW stale \in BOOLEAN,
         ObserveReport(h, report, stale)
  PROVE  /\ AdaptiveInv'
         /\ \A w \in Viewers :
              contributors'[w].controller.target = contributors[w].controller.target
<1> DEFINE v == h.viewer
           c == contributors[v]
           resync == c.resync \/ report = "resync"
           d == [c EXCEPT !.news = TRUE, !.latest = report, !.stale = stale,
                          !.resync = resync]
<1>1. /\ v \in Viewers /\ h.id \in 1..claims
      /\ contributors \in [Viewers -> Contributors]
  BY DEF AdaptiveInv, RegistrationsInv
<1>2. c \in Contributors /\ Earned(c) /\ CleanCounted(c)
  BY <1>1 DEF AdaptiveInv
<1>3. c.id # 0
  BY <1>1 DEF AdaptiveInv, RegistrationsInv
<1>4. /\ contributors' = [contributors EXCEPT ![v] = d]
      /\ UNCHANGED <<connectionVars, recovering, detached, shadow>>
  BY <1>1, <1>2 DEF ObserveReport
<1>5. resync \in BOOLEAN
  OBVIOUS
<1> HIDE DEF c, resync
<1>6. /\ d \in Contributors /\ d.id = c.id /\ d.revision = c.revision
      /\ d.recovery = c.recovery
      /\ d.strikes = c.strikes /\ d.streak = c.streak /\ d.controller = c.controller
  BY <1>2, <1>5 DEF Contributors
<1> HIDE DEF d
<1>7. Earned(d) /\ CleanCounted(d)
  BY <1>2, <1>6 DEF Earned, CleanCounted
<1> HIDE DEF v
<1> QED BY <1>1, <1>3, <1>4, <1>6, <1>7, OneContributorMoves DEF c

LEMMA HostPressureStep ==
  ASSUME AdaptiveInv, NEW v \in Viewers, NEW pressure \in Pressures,
         HostPressure(v, pressure)
  PROVE  /\ AdaptiveInv'
         /\ \A w \in Viewers :
              contributors'[w].controller.target = contributors[w].controller.target
<1> DEFINE c == contributors[v]
           k == [c.controller EXCEPT !.host = pressure]
           d == [c EXCEPT !.controller = k]
<1>1. contributors \in [Viewers -> Contributors] /\ c \in Contributors /\ Earned(c)
      /\ CleanCounted(c)
  BY DEF AdaptiveInv
<1>2. c.id # 0
  BY DEF HostPressure, Registered
<1>3. /\ contributors' = [contributors EXCEPT ![v] = d]
      /\ UNCHANGED <<connectionVars, recovering, detached, shadow>>
  BY <1>1 DEF HostPressure
<1>4. c.controller \in Controllers
  BY <1>1 DEF Contributors
<1> HIDE DEF c
<1>5. k \in Controllers /\ k.target = c.controller.target /\ k.clean = c.controller.clean
  BY <1>4 DEF Controllers
<1> HIDE DEF k
<1>6. /\ d \in Contributors /\ d.id = c.id /\ d.revision = c.revision
      /\ d.recovery = c.recovery
      /\ d.strikes = c.strikes /\ d.streak = c.streak /\ d.controller = k
  BY <1>1, <1>5 DEF Contributors
<1> HIDE DEF d
<1>7. Earned(d) /\ CleanCounted(d)
  BY <1>1, <1>5, <1>6 DEF Earned, CleanCounted
<1> QED BY <1>2, <1>3, <1>5, <1>6, <1>7, OneContributorMoves DEF c

LEMMA BackoffStep ==
  ASSUME AdaptiveInv, NEW v \in Viewers, BackoffElapses(v)
  PROVE  /\ AdaptiveInv'
         /\ \A w \in Viewers :
              contributors'[w].controller.target = contributors[w].controller.target
<1> DEFINE c == contributors[v]
           r == [c.recovery EXCEPT !.waited = TRUE]
           d == [c EXCEPT !.recovery = r]
<1>1. contributors \in [Viewers -> Contributors] /\ c \in Contributors /\ Earned(c)
      /\ CleanCounted(c) /\ RegistrationsInv
  BY DEF AdaptiveInv
<1>2. c.id # 0
  BY <1>1, IdentitiesAreOwn, AbsentIsWell DEF BackoffElapses
<1>3. /\ contributors' = [contributors EXCEPT ![v] = d]
      /\ UNCHANGED <<connectionVars, recovering, detached, shadow>>
  BY <1>1 DEF BackoffElapses
<1>4. c.recovery \in Recoveries
  BY <1>1 DEF Contributors
<1> HIDE DEF c
<1>5. /\ r \in Recoveries /\ r.phase = c.recovery.phase
      /\ r.breaches = c.recovery.breaches /\ r.attempt = c.recovery.attempt
      /\ r.pressure = c.recovery.pressure
  BY <1>4 DEF Recoveries
<1> HIDE DEF r
<1>6. /\ d \in Contributors /\ d.id = c.id /\ d.revision = c.revision
      /\ d.recovery = r
      /\ d.strikes = c.strikes /\ d.streak = c.streak /\ d.controller = c.controller
  BY <1>1, <1>5 DEF Contributors
<1> HIDE DEF d
<1>7. Earned(d) /\ CleanCounted(d)
  BY <1>1, <1>5, <1>6 DEF Earned, CleanCounted
<1> QED BY <1>2, <1>3, <1>5, <1>6, <1>7, OneContributorMoves DEF c

LEMMA ReportAgesStep ==
  ASSUME AdaptiveInv, NEW v \in Viewers, ReportAges(v)
  PROVE  /\ AdaptiveInv'
         /\ \A w \in Viewers :
              contributors'[w].controller.target = contributors[w].controller.target
<1> DEFINE c == contributors[v]
           d == [c EXCEPT !.recent = FALSE]
<1>1. contributors \in [Viewers -> Contributors] /\ c \in Contributors /\ Earned(c)
      /\ CleanCounted(c)
  BY DEF AdaptiveInv
<1>2. c.id # 0
  BY DEF ReportAges, Contributing
<1>3. /\ contributors' = [contributors EXCEPT ![v] = d]
      /\ UNCHANGED <<connectionVars, recovering, detached, shadow>>
  BY <1>1 DEF ReportAges
<1> HIDE DEF c
<1>4. /\ d \in Contributors /\ d.id = c.id /\ d.revision = c.revision
      /\ d.recovery = c.recovery
      /\ d.strikes = c.strikes /\ d.streak = c.streak /\ d.controller = c.controller
  BY <1>1 DEF Contributors
<1> HIDE DEF d
<1>5. Earned(d) /\ CleanCounted(d)
  BY <1>1, <1>4 DEF Earned, CleanCounted
<1> QED BY <1>2, <1>3, <1>4, <1>5, OneContributorMoves DEF c

LEMMA IdleStep ==
  ASSUME AdaptiveInv,
         UNCHANGED <<contributors, connectionVars, recovering, detached, shadow>>
  PROVE  AdaptiveInv'
<1>1. RegistrationsInv'
  BY RegistrationsStay DEF AdaptiveInv
<1> QED BY <1>1 DEF AdaptiveInv, RecoveringCountExact, DetachedInv, connectionVars

LEMMA EvaluateStep ==
  ASSUME AdaptiveInv, NEW moving \in BOOLEAN, Evaluate(moving)
  PROVE  /\ AdaptiveInv'
         /\ \A v \in Viewers :
              contributors'[v].controller.target > contributors[v].controller.target
              => contributors'[v].streak >= CleanWindows
<1> DEFINE changed == {v \in Viewers : contributors[v].news}
<1>1. RegistrationsInv /\ contributors \in [Viewers -> Contributors] /\ DetachedInv
  BY DEF AdaptiveInv
<1>2. /\ contributors' = [v \in Viewers |-> IF v \in changed THEN Evaluated(contributors[v])
                                            ELSE contributors[v]]
      /\ recovering' = RecoveringCount(contributors')
      /\ detached' = IF shadow THEN detached
                     ELSE detached \cup {contributors'[v].id :
                            v \in {w \in changed : contributors'[w].recovery.phase = "detaching"}}
      /\ UNCHANGED <<connectionVars, shadow>>
  BY DEF Evaluate
<1>3. \A v \in Viewers :
        /\ contributors'[v] \in Contributors
        /\ contributors'[v].id = contributors[v].id
        /\ contributors'[v].revision = contributors[v].revision
        /\ Earned(contributors'[v]) /\ CleanCounted(contributors'[v])
        /\ contributors'[v].controller.target > contributors[v].controller.target
             => contributors'[v].streak >= CleanWindows
        /\ contributors[v].recovery.phase = "detaching" =>
             contributors'[v].recovery.phase = "detaching"
  <2> SUFFICES ASSUME NEW v \in Viewers
               PROVE  /\ contributors'[v] \in Contributors
                      /\ contributors'[v].id = contributors[v].id
                      /\ contributors'[v].revision = contributors[v].revision
                      /\ Earned(contributors'[v]) /\ CleanCounted(contributors'[v])
                      /\ contributors'[v].controller.target > contributors[v].controller.target
                           => contributors'[v].streak >= CleanWindows
                      /\ contributors[v].recovery.phase = "detaching" =>
                           contributors'[v].recovery.phase = "detaching"
    OBVIOUS
  <2>1. /\ contributors[v] \in Contributors
        /\ Earned(contributors[v]) /\ CleanCounted(contributors[v])
    BY <1>1 DEF AdaptiveInv
  <2>2. CASE v \in changed
    <3>1. contributors'[v] = Evaluated(contributors[v])
      BY <1>2, <2>2
    <3> HIDE DEF changed
    <3> QED BY <2>1, <3>1, EvaluatedStep
  <2>3. CASE v \notin changed
    <3>1. contributors'[v] = contributors[v]
      BY <1>2, <2>3
    <3>2. contributors[v].controller.target \in Int
      BY <2>1 DEF Contributors, Controllers
    <3> QED BY <2>1, <3>1, <3>2
  <2> QED BY <2>2, <2>3
<1>4. \A v \in Viewers : contributors[v] = Absent => contributors'[v] = Absent
  <2>1. Absent.news = FALSE
    BY DEF Absent
  <2> QED BY <1>2, <2>1
<1>5. contributors' \in [Viewers -> Contributors]
  BY <1>2, <1>3
<1>6. RegistrationsInv'
  BY <1>1, <1>2, <1>3, <1>4, RegistrationsStay
<1>7. RecoveringCountExact'
  BY <1>2 DEF RecoveringCountExact
<1>8. DetachedInv'
  <2>1. CASE shadow
    BY <1>1, <1>2, <1>3, <2>1 DEF DetachedInv, connectionVars
  <2>2. CASE ~shadow
    <3> DEFINE D == {w \in changed : contributors'[w].recovery.phase = "detaching"}
    <3>1. detached' = detached \cup {contributors'[v].id : v \in D}
      BY <1>2, <2>2
    <3>2. ASSUME NEW v \in D
          PROVE  /\ v \in Viewers /\ contributors'[v].id \in 1..claims
                 /\ \A w \in Viewers : contributors'[w].id = contributors'[v].id
                      => contributors'[w].recovery.phase = "detaching"
                 /\ \A l \in leases : l.fresh => l.id # contributors'[v].id
      <4>1. v \in Viewers /\ contributors[v].news /\ contributors'[v].recovery.phase = "detaching"
        OBVIOUS
      <4>2. contributors[v] # Absent
        <5>1. Absent.news = FALSE
          BY DEF Absent
        <5> QED BY <4>1, <5>1
      <4>3. contributors[v].id # 0 /\ contributors[v].id \in 0..claims
        BY <1>1, <4>1, <4>2, IdentitiesAreOwn
      <4>4. claims \in Nat
        BY <1>1 DEF RegistrationsInv, LeasesInv
      <4>5. contributors'[v].id \in 1..claims
        BY <1>3, <4>1, <4>3, <4>4
      <4>6. \A w \in Viewers : contributors[w].id = contributors[v].id => w = v
        BY <1>1, <4>1, <4>3, IdentitiesAreOwn
      <4>7. \A l \in leases : l.fresh => l.id # contributors[v].id
        BY <1>1, <4>1, <4>3, IdentitiesAreOwn
      <4> QED BY <1>3, <4>1, <4>5, <4>6, <4>7
    <3> HIDE DEF D
    <3>3. detached' \subseteq 1..claims'
      BY <1>1, <1>2, <3>1, <3>2 DEF DetachedInv, connectionVars
    <3>4. ASSUME NEW v \in Viewers, contributors'[v].id \in detached'
          PROVE  contributors'[v].recovery.phase = "detaching"
      <4>1. CASE contributors'[v].id \in detached
        BY <1>1, <1>3, <4>1 DEF DetachedInv
      <4>2. CASE contributors'[v].id \notin detached
        <5>1. PICK w \in D : contributors'[v].id = contributors'[w].id
          BY <3>1, <3>4, <4>2
        <5> QED BY <3>2, <5>1
      <4> QED BY <4>1, <4>2
    <3>5. \A l \in leases' : l.fresh => l.id \notin detached'
      BY <1>1, <1>2, <3>1, <3>2 DEF DetachedInv, connectionVars
    <3> QED BY <1>2, <2>2, <3>3, <3>4, <3>5 DEF DetachedInv
  <2> QED BY <2>1, <2>2
<1> QED BY <1>3, <1>5, <1>6, <1>7, <1>8 DEF AdaptiveInv

\* RaiseIsEarned's action.
RaiseStep ==
  \A v \in Viewers :
    /\ contributors'[v].id = contributors[v].id
    /\ contributors'[v].controller.target > contributors[v].controller.target
    => contributors'[v].streak >= CleanWindows

LEMMA NextAdaptive ==
  ASSUME AdaptiveInv, [Next]_vars
  PROVE  AdaptiveInv' /\ RaiseStep
<1>0. \A v \in Viewers : /\ contributors[v].controller.target \in Int
                         /\ contributors[v].id \in 0..claims
  <2>1. \A v \in Viewers : contributors[v].controller.target \in Int
    BY DEF AdaptiveInv, Contributors, Controllers
  <2> QED BY <2>1, IdentitiesAreOwn DEF AdaptiveInv
<1>1. ASSUME \A w \in Viewers :
               contributors'[w].controller.target = contributors[w].controller.target
      PROVE  RaiseStep
  BY <1>0, <1>1 DEF RaiseStep
<1>2. ASSUME NEW l \in leases, Register(l)
      PROVE  AdaptiveInv' /\ RaiseStep
  <2>1. /\ AdaptiveInv'
        /\ contributors' = [contributors EXCEPT ![l.viewer] = Joined(l)]
        /\ contributors[l.viewer].id # Joined(l).id
    BY <1>2, RegisterStep
  <2>2. contributors \in [Viewers -> Contributors]
    BY DEF AdaptiveInv
  <2>3. \A w \in Viewers : \/ contributors'[w] = contributors[w]
                           \/ contributors'[w].id # contributors[w].id
    BY <2>1, <2>2
  <2> QED BY <1>0, <2>1, <2>3 DEF RaiseStep
<1>3. ASSUME NEW h \in handles, Unregister(h)
      PROVE  AdaptiveInv' /\ RaiseStep
  <2>1. /\ AdaptiveInv'
        /\ contributors' = [contributors EXCEPT ![h.viewer] = Absent]
        /\ contributors[h.viewer].id # 0
    BY <1>3, UnregisterStep
  <2>2. contributors \in [Viewers -> Contributors]
    BY DEF AdaptiveInv
  <2>3. \A w \in Viewers : \/ contributors'[w] = contributors[w]
                           \/ contributors'[w].id # contributors[w].id
    BY <2>1, <2>2, AbsentIsWell
  <2> QED BY <1>0, <2>1, <2>3 DEF RaiseStep
<1>9. ASSUME NEW v \in Viewers, NEW raised \in BOOLEAN, ClaimFeedback(v, raised)
      PROVE  AdaptiveInv' /\ RaiseStep
  BY <1>1, <1>9, ClaimFeedbackStep
<1>10. ASSUME NEW l \in leases, ReleaseFeedback(l)
      PROVE  AdaptiveInv' /\ RaiseStep
  BY <1>1, <1>10, ReleaseFeedbackStep
<1>4. ASSUME NEW h \in handles, NEW report \in Reports, NEW stale \in BOOLEAN,
             ObserveReport(h, report, stale)
      PROVE  AdaptiveInv' /\ RaiseStep
  BY <1>1, <1>4, ObserveReportStep
<1>5. ASSUME NEW v \in Viewers, NEW pressure \in Pressures, HostPressure(v, pressure)
      PROVE  AdaptiveInv' /\ RaiseStep
  BY <1>1, <1>5, HostPressureStep
<1>6. ASSUME NEW v \in Viewers, BackoffElapses(v) \/ ReportAges(v)
      PROVE  AdaptiveInv' /\ RaiseStep
  BY <1>1, <1>6, BackoffStep, ReportAgesStep
<1>7. ASSUME PolicyTime \/ UNCHANGED vars
      PROVE  AdaptiveInv' /\ RaiseStep
  <2>1. UNCHANGED <<contributors, connectionVars, recovering, detached, shadow>>
    BY <1>7 DEF PolicyTime, vars
  <2> QED BY <1>1, <2>1, IdleStep
<1>8. ASSUME NEW moving \in BOOLEAN, Evaluate(moving)
      PROVE  AdaptiveInv' /\ RaiseStep
  BY <1>8, EvaluateStep DEF RaiseStep
<1> QED BY <1>2, <1>3, <1>4, <1>5, <1>6, <1>7, <1>8, <1>9, <1>10 DEF Next

-----------------------------------------------------------------------------
\* The theorems.

\* The contributors, their claims, the count and the detachments stay in
\* step through claims, drops, reports, host pressure and evaluations in
\* any order (GenerationAdaptiveCoordinator of server/adaptive.rs).
THEOREM AdaptiveInvariant == Spec => []AdaptiveInv
<1>1. Init => AdaptiveInv
  BY InitAdaptive
<1>2. AdaptiveInv /\ [Next]_vars => AdaptiveInv'
  BY NextAdaptive
<1> QED BY <1>1, <1>2, PTL DEF Spec

\* The count published with the appliance's status is that of the contributors
\* in recovery or told to detach (update_recovering_count).
THEOREM CountIsExact == Spec => []RecoveringCountExact
<1>1. AdaptiveInv => RecoveringCountExact
  BY DEF AdaptiveInv
<1> QED BY <1>1, AdaptiveInvariant, PTL

\* A feedback connection that is claimed again after another, under the same
\* revision or a later one, never loses its contributor to the older one's drop,
\* and no contributor outlives its registration (feedback_claimed, and the order
\* of the drops in serve_media_feedback).
THEOREM RegistrationsOwnContributors == Spec => []RegistrationOwnsContributor
<1>1. AdaptiveInv => RegistrationOwnsContributor
  <2> SUFFICES ASSUME AdaptiveInv PROVE RegistrationOwnsContributor
    OBVIOUS
  <2>1. \A v \in Registered(contributors) : v \in Viewers /\ contributors[v] # Absent
    BY AbsentIsWell DEF Registered
  <2> QED BY <2>1 DEF AdaptiveInv, RegistrationsInv, RegistrationOwnsContributor
<1> QED BY <1>1, AdaptiveInvariant, PTL

\* A viewer is told to detach only after FloorBreachWindows fresh severe windows
\* at the floor and RecoveryPressureWindows fresh ones in each of MaxAttempts
\* attempts, and never in shadow mode (evaluate, ContributorRecoveryState).
THEOREM DetachmentIsEarned == Spec => []DetachIsEarned
<1>1. AdaptiveInv => DetachIsEarned
  <2> SUFFICES ASSUME AdaptiveInv, NEW v \in Viewers, contributors[v].id \in detached
               PROVE  /\ ~shadow
                      /\ contributors[v].strikes >=
                           FloorBreachWindows + MaxAttempts * RecoveryPressureWindows
    BY DEF DetachIsEarned
  <2>1. ~shadow /\ contributors[v].recovery.phase = "detaching"
    BY DEF AdaptiveInv, DetachedInv
  <2>2. Earned(contributors[v])
    BY DEF AdaptiveInv
  <2> QED BY <2>1, <2>2 DEF Earned
<1> QED BY <1>1, AdaptiveInvariant, PTL

\* A viewer's target rises only at the end of CleanWindows fresh clean windows in
\* a row (ShadowBitrateController::observe).
THEOREM RaisesAreEarned == Spec => RaiseIsEarned
<1>1. AdaptiveInv /\ [Next]_vars => [RaiseStep]_vars
  BY NextAdaptive
<1>2. Spec => [][RaiseStep]_vars
  BY <1>1, AdaptiveInvariant, PTL DEF Spec
<1> QED BY <1>2 DEF RaiseStep, RaiseIsEarned
=============================================================================
