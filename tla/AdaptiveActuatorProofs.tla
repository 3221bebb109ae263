----------------------- MODULE AdaptiveActuatorProofs -----------------------
(***************************************************************************)
(* Theorems about the adaptive actuators against the encoder's control     *)
(* handle, for every set of bitrates and resolutions and every number of   *)
(* requests: the encoder is never left with a stale request, a recovery    *)
(* barrier is not lost in coalescing, and no plan is stranded.             *)
(***************************************************************************)
EXTENDS AdaptiveActuator, TLAPS

-----------------------------------------------------------------------------
\* The invariant.

\* The only request the actuator has a revision for is the next of start's; the
\* forced-IDR coordinator asks for keyframes.
DraftsInOrder ==
  /\ drafts[Actuator] # NoDraft =>
       todo # <<>> /\ drafts[Actuator].request = Head(todo)
  /\ drafts[Recovery] # NoDraft => drafts[Recovery].request.kind = "keyframe"

StartsAlone ==
  /\ todo # <<>> => act.running /\ act.queued = NoPlan
  /\ act.pending => act.running
  /\ ~act.running => ~barrier

\* What start still has to request of one kind is what the actuator remembers
\* as requested; once it has, the encoder was told that, unless the actuator never
\* asked and its predecessor may have.
InStep(kind, wanted, part, initial) ==
  /\ \A j \in DOMAIN todo : todo[j].kind = kind => todo[j].value = wanted
  /\ kind \in known /\ ~Among(todo, kind) => Told(wanted, part, initial)

RequestsInStep ==
  /\ InStep("bitrate", act.requested.rate, desired.bitrate, CeilingRate)
  /\ InStep("resolution", act.requested.tier, desired.resolution, NativeTier)

\* The policies' target is requested, or it is the queued plan's.
TargetFollowed ==
  act.running /\ act.enabled =>
    /\ act.desired.rate =
         IF act.queued = NoPlan THEN act.requested.rate ELSE act.queued.rate
    /\ act.mode = "legacy" =>
         act.desired.tier = IF act.queued.tier = None THEN act.requested.tier
                            ELSE act.queued.tier

\* A legacy plan names a tier exactly if the native mode has a reduced one.
QueuedOffered == act.queued # NoPlan => Offered(act.queued)

ActuatorInv ==
  /\ DraftsInOrder /\ StartsAlone /\ RequestsInStep
  /\ TargetFollowed /\ QueuedOffered
  /\ NoStrandedPlan /\ RecoveryBarrierSurvives

-----------------------------------------------------------------------------
\* What start asks for.

ActuatorRecords ==
  [ mode : {"shared", "legacy"}, enabled : BOOLEAN, scaling : BOOLEAN,
    running : BOOLEAN, desired : Setting, requested : Setting,
    committed : Setting, pending : BOOLEAN, queued : Plan \cup {NoPlan} ]

\* The queued plan, if there is one, is a plan.
LEMMA PlanFields ==
  ASSUME NEW plan \in Plan \cup {NoPlan}
  PROVE  /\ plan.tier \in Tiers \cup {None} /\ plan.force \in BOOLEAN
         /\ plan # NoPlan => plan \in Plan /\ plan.rate \in Bitrates
<1>1. NoPlan.tier = None /\ NoPlan.force = FALSE BY DEF NoPlan
<1> QED BY <1>1 DEF Plan

Elements(s) == {s[i] : i \in DOMAIN s}

LEMMA ConcatElements ==
  ASSUME NEW S, NEW s \in Seq(S), NEW t \in Seq(S)
  PROVE  s \o t \in Seq(S) /\ Elements(s \o t) = Elements(s) \cup Elements(t)
<1>1. s \o t \in Seq(S) /\ Len(s \o t) = Len(s) + Len(t) OBVIOUS
<1>2. \A i \in DOMAIN s : i \in DOMAIN (s \o t) /\ (s \o t)[i] = s[i] OBVIOUS
<1>3. \A i \in DOMAIN t : /\ Len(s) + i \in DOMAIN (s \o t)
                          /\ (s \o t)[Len(s) + i] = t[i]
  OBVIOUS
<1>4. ASSUME NEW i \in DOMAIN (s \o t)
      PROVE  i \in DOMAIN s \/ \E j \in DOMAIN t : i = Len(s) + j
  <2>1. i \in 1..(Len(s) + Len(t)) BY <1>1
  <2>2. CASE i \leq Len(s) BY <2>1, <2>2
  <2>3. CASE i > Len(s)
    <3>1. i - Len(s) \in DOMAIN t /\ i = Len(s) + (i - Len(s)) BY <2>1, <2>3
    <3> QED BY <3>1
  <2> QED BY <2>1, <2>2, <2>3
<1>5. Elements(s \o t) \subseteq Elements(s) \cup Elements(t)
  BY <1>2, <1>3, <1>4 DEF Elements
<1>6. Elements(s) \cup Elements(t) \subseteq Elements(s \o t)
  BY <1>2, <1>3 DEF Elements
<1> QED BY <1>1, <1>5, <1>6

LEMMA EmptyElements ==
  ASSUME NEW S, NEW s, s = <<>>
  PROVE  s \in Seq(S) /\ Elements(s) = {}
BY DEF Elements

LEMMA OneElement ==
  ASSUME NEW S, NEW s, NEW x \in S, s = <<x>>
  PROVE  s \in Seq(S) /\ Elements(s) = {x}
<1>1. \A i : i \in DOMAIN s <=> i = 1 OBVIOUS
<1>2. s[1] = x OBVIOUS
<1> QED BY <1>1, <1>2 DEF Elements

LEMMA TwoElements ==
  ASSUME NEW S, NEW s, NEW x \in S, NEW y \in S, s = <<x, y>>
  PROVE  s \in Seq(S) /\ Elements(s) = {x, y}
<1>1. \A i : i \in DOMAIN s <=> i = 1 \/ i = 2 OBVIOUS
<1>2. s[1] = x /\ s[2] = y OBVIOUS
<1> QED BY <1>1, <1>2 DEF Elements

LEMMA RequestsAsked ==
  ASSUME NEW a \in ActuatorRecords, NEW plan \in Plan
  PROVE  LET rs == RequestsOf(a, plan) IN
         /\ rs \in Seq(Requests)
         /\ \A r \in Elements(rs) :
              /\ r.kind = "bitrate" => r.value = plan.rate
              /\ r.kind = "resolution" => r.value = plan.tier /\ plan.tier \in Tiers
         /\ ~a.enabled => rs = <<>>
         /\ a.enabled /\ ~Among(rs, "bitrate") => plan.rate = a.requested.rate
         /\ a.enabled /\ ~Among(rs, "resolution") =>
              plan.tier = None \/ plan.tier = a.requested.tier
<1> DEFINE b == [kind |-> "bitrate", value |-> plan.rate]
           t == [kind |-> "resolution", value |-> plan.tier]
           k == [kind |-> "keyframe", value |-> None]
           noRate == plan.rate = a.requested.rate
           noTier == plan.tier = None \/ plan.tier = a.requested.tier
           rates == RateRequests(a, plan)
           tiers == TierRequests(a, plan)
           rs == RequestsOf(a, plan)
<1>1. b \in Requests /\ k \in Requests BY DEF Requests, Plan
<1>2. plan.tier # None => plan.tier \in Tiers /\ t \in Requests BY DEF Requests, Plan
<1>3. rates = <<b>> \/ (rates = <<>> /\ noRate)
  BY DEF RateRequests, Settled, ActuatorRecords, Setting
<1>4. (tiers = <<t>> /\ plan.tier # None) \/ (tiers = <<>> /\ noTier)
  BY DEF TierRequests, Settled, ActuatorRecords, Setting
<1>5. /\ b.kind = "bitrate" /\ b.value = plan.rate
      /\ t.kind = "resolution" /\ t.value = plan.tier
      /\ k.kind = "keyframe"
  OBVIOUS
<1>6. /\ SharedRequests(a, plan) = rates \o tiers
      /\ \/ LegacyRequests(a, plan) = tiers \o rates
         \/ LegacyRequests(a, plan) = tiers \o <<b, k>>
  BY DEF SharedRequests, LegacyRequests
<1> HIDE DEF b, t, k, noRate, noTier, rates, tiers
<1>7. /\ rates \in Seq(Requests) /\ Elements(rates) \subseteq {b}
      /\ b \in Elements(rates) \/ noRate
  <2>1. CASE rates = <<b>> BY <1>1, <2>1, OneElement
  <2>2. CASE rates = <<>> /\ noRate BY <2>2, EmptyElements
  <2> QED BY <1>3, <2>1, <2>2
<1>8. /\ tiers \in Seq(Requests) /\ Elements(tiers) \subseteq {t}
      /\ t \in Elements(tiers) \/ noTier
      /\ t \in Elements(tiers) => plan.tier \in Tiers
  <2>1. CASE tiers = <<t>> /\ plan.tier # None BY <1>2, <2>1, OneElement
  <2>2. CASE tiers = <<>> /\ noTier BY <2>2, EmptyElements
  <2> QED BY <1>4, <2>1, <2>2
<1>9. \A s : s = <<b, k>> => s \in Seq(Requests) /\ Elements(s) = {b, k}
  BY <1>1, TwoElements
<1>10. ASSUME NEW s, \/ s = <<>> /\ ~a.enabled
                     \/ s = rates \o tiers \/ s = tiers \o rates \/ s = tiers \o <<b, k>>
       PROVE  /\ s \in Seq(Requests)
              /\ Elements(s) \subseteq {b, k, t}
              /\ t \in Elements(s) => plan.tier \in Tiers
              /\ a.enabled => /\ b \in Elements(s) \/ noRate
                              /\ t \in Elements(s) \/ noTier
  <2>1. \A u, v \in Seq(Requests) :
          /\ u \o v \in Seq(Requests)
          /\ Elements(u \o v) = Elements(u) \cup Elements(v)
    BY ConcatElements
  <2>2. CASE s = <<>> /\ ~a.enabled BY <2>2, EmptyElements
  <2>3. CASE s = rates \o tiers BY <1>5, <1>7, <1>8, <2>3, <2>1
  <2>4. CASE s = tiers \o rates BY <1>5, <1>7, <1>8, <2>4, <2>1
  <2>5. CASE s = tiers \o <<b, k>>
    <3>1. PICK u : u = <<b, k>> OBVIOUS
    <3>2. u \in Seq(Requests) /\ Elements(u) = {b, k} /\ s = tiers \o u
      BY <1>9, <2>5, <3>1
    <3> QED BY <1>5, <1>8, <2>1, <3>2
  <2> QED BY <1>10, <2>2, <2>3, <2>4, <2>5
<1>11. ~a.enabled => rs = <<>> BY DEF RequestsOf
<1>12. a.enabled => rs = SharedRequests(a, plan) \/ rs = LegacyRequests(a, plan)
  BY DEF RequestsOf
<1> HIDE DEF rs
<1>13. /\ rs \in Seq(Requests)
       /\ Elements(rs) \subseteq {b, k, t}
       /\ t \in Elements(rs) => plan.tier \in Tiers
       /\ a.enabled => /\ b \in Elements(rs) \/ noRate
                       /\ t \in Elements(rs) \/ noTier
  BY <1>6, <1>10, <1>11, <1>12
<1>14. \A kind : Among(rs, kind) <=> \E r \in Elements(rs) : r.kind = kind
  BY DEF Among, Elements
<1> QED BY <1>5, <1>11, <1>13, <1>14 DEF rs, noRate, noTier

\* What start leaves behind.
LEMMA StartedFields ==
  ASSUME NEW a \in ActuatorRecords, NEW plan \in Plan, Started(a, plan)
  PROVE  LET rs == RequestsOf(a, plan) IN
         /\ todo' = rs /\ act' \in ActuatorRecords
         /\ act'.mode = a.mode /\ act'.enabled = a.enabled /\ act'.scaling = a.scaling
         /\ act'.running = a.running /\ act'.pending = a.pending
         /\ act'.desired = a.desired /\ act'.queued = NoPlan
         /\ act'.requested.rate =
              IF Among(rs, "bitrate") THEN plan.rate ELSE a.requested.rate
         /\ act'.requested.tier =
              IF Among(rs, "resolution") THEN plan.tier ELSE a.requested.tier
         /\ known' \subseteq Kinds
         /\ \A kind \in known' : kind \in known \/ Among(rs, kind)
<1> DEFINE rs == RequestsOf(a, plan)
           r == [rate |-> IF Among(rs, "bitrate") THEN plan.rate ELSE a.requested.rate,
                 tier |-> IF Among(rs, "resolution") THEN plan.tier ELSE a.requested.tier]
<1>1. todo' = rs /\ act' = [a EXCEPT !.queued = NoPlan, !.requested = r]
  BY DEF Started
<1>2. Among(rs, "resolution") => plan.tier \in Tiers
  BY RequestsAsked DEF Among, Elements
<1>3. /\ plan.rate \in Bitrates
      /\ a.requested.rate \in Bitrates /\ a.requested.tier \in Tiers
  BY DEF Plan, ActuatorRecords, Setting
<1>4. r \in Setting BY <1>2, <1>3 DEF Setting
<1>5. /\ r.rate = IF Among(rs, "bitrate") THEN plan.rate ELSE a.requested.rate
      /\ r.tier = IF Among(rs, "resolution") THEN plan.tier ELSE a.requested.tier
  OBVIOUS
<1>7. known' \subseteq Kinds /\ \A kind \in known' : kind \in known \/ Among(rs, kind)
  BY DEF Started
<1> HIDE DEF rs, r
<1>6. /\ act' \in ActuatorRecords
      /\ act'.mode = a.mode /\ act'.enabled = a.enabled /\ act'.scaling = a.scaling
      /\ act'.running = a.running /\ act'.pending = a.pending
      /\ act'.desired = a.desired /\ act'.queued = NoPlan /\ act'.requested = r
  BY <1>1, <1>4 DEF ActuatorRecords
<1> QED BY <1>1, <1>5, <1>6, <1>7 DEF rs

-----------------------------------------------------------------------------
\* Types.

Commits == [ bitrate : 0..MaxRevisions, keyframe : 0..MaxRevisions,
             resolution : 0..MaxRevisions,
             rate : Bitrates \cup {None}, tier : Tiers \cup {None},
             appliedRate : Bitrates \cup {None}, appliedTier : Tiers \cup {None} ]

LEMMA Constants ==
  /\ MaxRevisions \in Nat /\ 0 \in 0..MaxRevisions
  /\ NativeTier \in Tiers /\ CeilingRate \in Bitrates
  /\ Actuator \in Callers /\ Recovery \in Callers /\ Actuator # Recovery
  /\ \A v \in Bitrates \cup Tiers : v # None
BY EncoderAssumption, ActuatorAssumption DEF Actuator, Recovery

LEMMA NewActuatorFields ==
  ASSUME NEW mode \in {"shared", "legacy"}, NEW enabled \in BOOLEAN, NEW scaling \in BOOLEAN
  PROVE  LET a == NewActuator(mode, enabled, scaling) IN
         /\ a \in ActuatorRecords /\ a.mode = mode
         /\ a.running /\ ~a.pending /\ a.queued = NoPlan
         /\ a.desired = Initially /\ a.requested = Initially
<1>1. Initially \in Setting BY Constants DEF Initially, Setting
<1> QED BY <1>1 DEF NewActuator, ActuatorRecords

LEMMA InitTypes == Init => ActuatorTypeOK
<1> SUFFICES ASSUME Init PROVE ActuatorTypeOK
  OBVIOUS
<1> USE Constants
<1>1. Unset \in Revised(Bitrates) /\ Unset \in Revised(Tiers)
      /\ [revision |-> 0, value |-> NativeTier] \in Revised(Tiers)
  BY DEF Unset, Revised
<1>2. NoDraft \in Draft BY DEF NoDraft, Draft, Requests
<1>3. EncoderTypeOK
  BY <1>1, <1>2 DEF Init, EncoderInit, EncoderTypeOK, Desired, Status, Worker
<1>5. act \in ActuatorRecords
  <2>1. PICK mode \in {"shared", "legacy"}, enabled \in BOOLEAN, scaling \in BOOLEAN :
          act = NewActuator(mode, enabled, scaling)
    BY DEF Init
  <2> QED BY <2>1, NewActuatorFields
<1>6. commit \in Commits BY DEF Init, NoCommit, Commits
<1>7. todo \in Seq(Requests) /\ reportWaiting \in BOOLEAN /\ barrier \in BOOLEAN
  <2>1. todo = <<>> /\ reportWaiting = FALSE /\ barrier = FALSE BY DEF Init
  <2> QED BY <2>1, EmptyElements
<1>8. decision \in [rate : Bitrates, applied : BOOLEAN] BY DEF Init
<1>9. known \subseteq Kinds BY DEF Init
<1> QED BY <1>3, <1>5, <1>6, <1>7, <1>8, <1>9 DEF ActuatorTypeOK, ActuatorRecords, Commits

\* What type correctness says of the actuator's parts.
LEMMA TypeParts ==
  ActuatorTypeOK <=>
    /\ EncoderTypeOK /\ act \in ActuatorRecords /\ todo \in Seq(Requests)
    /\ commit \in Commits /\ reportWaiting \in BOOLEAN
    /\ decision \in [rate : Bitrates, applied : BOOLEAN] /\ barrier \in BOOLEAN
    /\ known \subseteq Kinds
BY DEF ActuatorTypeOK, ActuatorRecords, Commits

LEMMA NextTypes ==
  ASSUME EncoderTypeOK', act' \in ActuatorRecords, todo' \in Seq(Requests),
         commit' \in Commits, reportWaiting' \in BOOLEAN,
         decision' \in [rate : Bitrates, applied : BOOLEAN], barrier' \in BOOLEAN,
         known' \subseteq Kinds
  PROVE  ActuatorTypeOK'
BY DEF ActuatorTypeOK, ActuatorRecords, Commits

\* The handle's requests and the pipeline thread keep the encoder's types.
LEMMA AllocationTypes ==
  ASSUME EncoderTypeOK, NEW c \in Callers, NEW request \in Requests,
         AllocateRevision(c, request)
  PROVE  EncoderTypeOK'
<1>1. nextRevision + 1 \in 0..MaxRevisions
  BY Constants DEF EncoderTypeOK, AllocateRevision
<1>2. [revision |-> nextRevision + 1, request |-> request] \in Draft BY <1>1 DEF Draft
<1> QED BY <1>1, <1>2 DEF EncoderTypeOK, AllocateRevision

LEMMA PublicationTypes ==
  ASSUME EncoderTypeOK, NEW c \in Callers, PublishDesired(c)
  PROVE  EncoderTypeOK'
<1> DEFINE d == drafts[c]
           revised == [revision |-> d.revision, value |-> d.request.value]
<1>1. d \in Draft BY DEF EncoderTypeOK
<1>2. NoDraft \in Draft BY Constants DEF NoDraft, Draft, Requests
<1>3. drafts' \in [Callers -> Draft] BY <1>2 DEF EncoderTypeOK, PublishDesired
<1>4. d.request.kind = "bitrate" => revised \in Revised(Bitrates)
  <2>1. d.request \in Requests BY <1>1 DEF Draft
  <2>2. d.request.kind = "bitrate" => d.request.value \in Bitrates
    BY <2>1 DEF Requests, NoRequest, None
  <2> QED BY <1>1, <2>2 DEF Draft, Revised
<1>5. d.request.kind = "resolution" => revised \in Revised(Tiers)
  <2>1. d.request \in Requests BY <1>1 DEF Draft
  <2>2. d.request.kind = "resolution" => d.request.value \in Tiers
    BY <2>1 DEF Requests, NoRequest, None
  <2> QED BY <1>1, <2>2 DEF Draft, Revised
<1>6. d.revision \in 0..MaxRevisions BY <1>1 DEF Draft
<1>7. /\ desired.bitrate \in Revised(Bitrates) /\ desired.resolution \in Revised(Tiers)
      /\ desired.keyframe \in 0..MaxRevisions
  BY DEF EncoderTypeOK, Desired
<1>8. desired' = [revision |-> d.revision,
                  bitrate |-> IF d.request.kind = "bitrate" THEN revised
                              ELSE desired.bitrate,
                  resolution |-> IF d.request.kind = "resolution" THEN revised
                                 ELSE desired.resolution,
                  keyframe |-> IF d.request.kind = "keyframe" THEN d.revision
                               ELSE desired.keyframe]
  BY DEF PublishDesired, Desire
<1> HIDE DEF d, revised
<1>9. desired' \in Desired BY <1>4, <1>5, <1>6, <1>7, <1>8 DEF Desired
<1> QED BY <1>3, <1>9 DEF EncoderTypeOK, PublishDesired

LEMMA WorkerTypes ==
  ASSUME EncoderTypeOK, WorkerStep
  PROVE  EncoderTypeOK'
<1>1. /\ desired \in Desired /\ status \in Status /\ worker \in Worker
      /\ Unset \in Revised(Tiers)
  BY Constants DEF EncoderTypeOK, Unset, Revised
<1>2. CASE ApplyEncoderControl
  <2>1. status' \in Status
    BY <1>1, <1>2 DEF ApplyEncoderControl, Status, Desired, Revised
  <2>2. worker' \in Worker BY <1>1, <1>2 DEF ApplyEncoderControl, Worker, Desired
  <2> QED BY <1>2, <2>1, <2>2 DEF ApplyEncoderControl, EncoderTypeOK
<1>3. ASSUME NEW idr \in BOOLEAN, PublishSample(idr) PROVE EncoderTypeOK'
  <2>1. status' \in Status BY <1>1, <1>3 DEF PublishSample, Status, Worker
  <2>2. worker' \in Worker BY Constants, <1>1, <1>3 DEF PublishSample, Worker
  <2> QED BY <1>3, <2>1, <2>2 DEF PublishSample, EncoderTypeOK
<1>4. CASE PipelineFails
  <2>1. worker' \in Worker BY <1>1, <1>4 DEF PipelineFails, Worker
  <2> QED BY <1>4, <2>1 DEF PipelineFails, EncoderTypeOK
<1> QED BY <1>2, <1>3, <1>4 DEF WorkerStep

\* The plans submit starts or queues, and the actuator it does so with.
LEMMA SubmittedFields ==
  ASSUME ActuatorTypeOK, NEW plan \in Plan
  PROVE  /\ LET a == WithDesired(plan) IN
            /\ a \in ActuatorRecords
            /\ a.mode = act.mode /\ a.enabled = act.enabled /\ a.scaling = act.scaling
            /\ a.running = act.running /\ a.pending = act.pending
            /\ a.requested = act.requested /\ a.desired.rate = plan.rate
            /\ a.desired.tier = IF plan.tier = None THEN act.desired.tier ELSE plan.tier
         /\ \A p \in {Inheriting(plan, act.queued), StartNow(plan)} :
              p \in Plan /\ p.rate = plan.rate /\ p.tier = plan.tier
         /\ plan.force \/ act.queued.force => Inheriting(plan, act.queued).force
         /\ act.mode = "shared" => StartNow(plan) = plan
         /\ act.mode = "legacy" => StartNow(plan) = Inheriting(plan, act.queued)
<1>1. act \in ActuatorRecords BY TypeParts
<1>2. act.queued.force \in BOOLEAN /\ plan.force \in BOOLEAN
      /\ plan.rate \in Bitrates /\ plan.tier \in Tiers \cup {None}
      /\ act.mode \in {"shared", "legacy"}
  BY <1>1, PlanFields DEF ActuatorRecords, Plan
<1> DEFINE p == Inheriting(plan, act.queued)
           d == [rate |-> plan.rate,
                 tier |-> IF plan.tier = None THEN act.desired.tier ELSE plan.tier]
<1>3. p \in Plan /\ p.rate = plan.rate /\ p.tier = plan.tier
      /\ p.force = (plan.force \/ act.queued.force)
  BY <1>2 DEF Inheriting, Plan
<1>4. /\ d \in Setting /\ d.rate = plan.rate
      /\ d.tier = IF plan.tier = None THEN act.desired.tier ELSE plan.tier
  BY <1>1, <1>2 DEF ActuatorRecords, Setting
<1>5. WithDesired(plan) = [act EXCEPT !.desired = d]
  BY <1>1 DEF WithDesired, ActuatorRecords
<1>6. StartNow(plan) = IF act.mode = "legacy" THEN p ELSE plan BY DEF StartNow
<1> HIDE DEF p, d
<1>7. LET a == WithDesired(plan) IN
      /\ a \in ActuatorRecords
      /\ a.mode = act.mode /\ a.enabled = act.enabled /\ a.scaling = act.scaling
      /\ a.running = act.running /\ a.pending = act.pending
      /\ a.requested = act.requested /\ a.desired = d
  BY <1>1, <1>4, <1>5 DEF ActuatorRecords
<1> QED BY <1>2, <1>3, <1>4, <1>6, <1>7 DEF p

\* A plan that has to wait.
LEMMA QueuedFields ==
  ASSUME ActuatorTypeOK, NEW plan \in Plan,
         act' = [WithDesired(plan) EXCEPT !.queued = Inheriting(plan, act.queued)]
  PROVE  /\ act' \in ActuatorRecords
         /\ act'.mode = act.mode /\ act'.enabled = act.enabled
         /\ act'.scaling = act.scaling /\ act'.running = act.running
         /\ act'.pending = act.pending /\ act'.requested = act.requested
         /\ act'.desired = WithDesired(plan).desired
         /\ act'.queued = Inheriting(plan, act.queued)
<1> DEFINE a == WithDesired(plan)
           p == Inheriting(plan, act.queued)
<1>1. /\ a \in ActuatorRecords /\ p \in Plan
      /\ a.mode = act.mode /\ a.enabled = act.enabled /\ a.scaling = act.scaling
      /\ a.running = act.running /\ a.pending = act.pending /\ a.requested = act.requested
  BY SubmittedFields
<1>2. act' = [a EXCEPT !.queued = p] OBVIOUS
<1> HIDE DEF a, p
<1>3. /\ act' \in ActuatorRecords
      /\ act'.mode = a.mode /\ act'.enabled = a.enabled
      /\ act'.scaling = a.scaling /\ act'.running = a.running
      /\ act'.pending = a.pending /\ act'.requested = a.requested
      /\ act'.desired = a.desired /\ act'.queued = p
  BY <1>1, <1>2 DEF ActuatorRecords
<1> QED BY <1>1, <1>3 DEF a, p

LEMMA CompletedFields ==
  ASSUME ActuatorTypeOK
  PROVE  /\ Completed \in ActuatorRecords
         /\ Completed.mode = act.mode /\ Completed.enabled = act.enabled
         /\ Completed.scaling = act.scaling /\ Completed.running = act.running
         /\ Completed.pending = FALSE /\ Completed.requested = act.requested
         /\ Completed.desired = act.desired /\ Completed.queued = act.queued
<1>1. act \in ActuatorRecords /\ commit \in Commits BY TypeParts
<1>2. [rate |-> IF commit.appliedRate = None THEN act.committed.rate
                ELSE commit.appliedRate,
       tier |-> IF commit.appliedTier = None THEN act.committed.tier
                ELSE commit.appliedTier] \in Setting
  BY <1>1 DEF ActuatorRecords, Setting, Commits
<1> QED BY <1>1, <1>2 DEF Completed, ActuatorRecords

LEMMA StartedTypes ==
  ASSUME ActuatorTypeOK, NEW a \in ActuatorRecords, NEW plan \in Plan, Started(a, plan)
  PROVE  /\ act' \in ActuatorRecords /\ todo' \in Seq(Requests) /\ commit' \in Commits
         /\ known' \subseteq Kinds
<1>1. NoCommit \in Commits BY Constants DEF NoCommit, Commits
<1>2. [NoCommit EXCEPT !.rate = plan.rate, !.tier = plan.tier] \in Commits
  BY <1>1 DEF Commits, Plan
<1>3. commit' \in Commits BY <1>1, <1>2 DEF Started
<1> QED BY <1>3, StartedFields, RequestsAsked

LEMMA EvaluateTypes ==
  ASSUME ActuatorTypeOK, NEW plan \in Plan, Evaluate(plan)
  PROVE  ActuatorTypeOK'
<1> DEFINE a == WithDesired(plan)
<1>1. /\ UNCHANGED encoderVars /\ reportWaiting' = FALSE /\ Submit(plan)
      /\ decision' = [rate |-> plan.rate, applied |-> BitrateIsApplied(plan.rate)]
  BY DEF Evaluate
<1>2. decision' \in [rate : Bitrates, applied : BOOLEAN]
  <2>1. BitrateIsApplied(plan.rate) \in BOOLEAN BY DEF BitrateIsApplied
  <2> QED BY <1>1, <2>1 DEF Plan
<1>3. EncoderTypeOK' BY <1>1, TypeParts DEF encoderVars, EncoderTypeOK
<1>4. a \in ActuatorRecords /\ StartNow(plan) \in Plan BY SubmittedFields
<1>5. barrier' \in BOOLEAN
  BY <1>1, TypeParts DEF Submit
<1>6. CASE act.pending
  <2>1. act' \in ActuatorRecords /\ UNCHANGED <<todo, commit, known>>
    BY <1>1, <1>6, QueuedFields DEF Submit
  <2> QED BY <1>1, <1>2, <1>3, <1>5, <2>1, TypeParts, NextTypes
<1>7. CASE ~act.pending
  <2>1. Started(a, StartNow(plan)) BY <1>1, <1>7 DEF Submit
  <2>2. /\ act' \in ActuatorRecords /\ todo' \in Seq(Requests) /\ commit' \in Commits
        /\ known' \subseteq Kinds
    BY <1>4, <2>1, StartedTypes
  <2> QED BY <1>1, <1>2, <1>3, <1>5, <2>2, TypeParts, NextTypes
<1> QED BY <1>6, <1>7

LEMMA PublishTypes ==
  ASSUME ActuatorTypeOK, todo # <<>>, Publish
  PROVE  ActuatorTypeOK'
<1> DEFINE kind == Head(todo).kind
           revision == drafts[Actuator].revision
<1>1. EncoderTypeOK' BY Constants, PublicationTypes, TypeParts DEF Publish
<1>2. act' \in ActuatorRecords
  <2>1. PICK p \in BOOLEAN : act' = [act EXCEPT !.pending = p] BY DEF Publish
  <2> QED BY <2>1, TypeParts DEF ActuatorRecords
<1>3. todo' \in Seq(Requests)
  <2>1. todo \in Seq(Requests) /\ todo' = Tail(todo) BY TypeParts DEF Publish
  <2> QED BY <2>1
<1>4. commit' \in Commits
  <2>1. revision \in 0..MaxRevisions /\ commit \in Commits
    BY Constants, TypeParts DEF EncoderTypeOK, Draft
  <2>2. commit' = [commit EXCEPT ![kind] = revision] BY DEF Publish
  <2>3. kind \in {None, "bitrate", "keyframe", "resolution"}
    <3>1. Head(todo) \in Requests BY TypeParts
    <3>2. \A r \in Requests : r.kind \in {None, "bitrate", "keyframe", "resolution"}
      BY DEF Requests, NoRequest
    <3> QED BY <3>1, <3>2
  <2> HIDE DEF kind, revision
  <2>4. CASE kind = None
    <3>1. commit' = commit BY <2>1, <2>2, <2>4 DEF Commits, None
    <3> QED BY <2>1, <3>1
  <2>5. CASE kind = "bitrate"
    <3>1. commit' = [commit EXCEPT !.bitrate = revision] BY <2>2, <2>5
    <3> QED BY <2>1, <3>1 DEF Commits
  <2>6. CASE kind = "keyframe"
    <3>1. commit' = [commit EXCEPT !.keyframe = revision] BY <2>2, <2>6
    <3> QED BY <2>1, <3>1 DEF Commits
  <2>7. CASE kind = "resolution"
    <3>1. commit' = [commit EXCEPT !.resolution = revision] BY <2>2, <2>7
    <3> QED BY <2>1, <3>1 DEF Commits
  <2> QED BY <2>3, <2>4, <2>5, <2>6, <2>7
<1>5. UNCHANGED <<reportWaiting, decision, barrier, known>> BY DEF Publish
<1> QED BY <1>1, <1>2, <1>3, <1>4, <1>5, TypeParts, NextTypes

\* The waits of the commit task keep a request's revision or clear it.
LEMMA WaitTypes ==
  ASSUME ActuatorTypeOK, NEW kind \in Kinds, WaitSucceeds(kind) \/ WaitFails(kind)
  PROVE  ActuatorTypeOK'
<1>1. commit \in Commits /\ NoCommit \in Commits /\ 0 \in 0..MaxRevisions
  BY Constants, TypeParts DEF NoCommit, Commits
<1>2. CASE WaitSucceeds(kind)
  <2>1. PICK r \in Bitrates \cup {None}, t \in Tiers \cup {None} :
          commit' = [commit EXCEPT ![kind] = 0, !.appliedRate = r, !.appliedTier = t]
    <3>1. /\ commit.rate \in Bitrates \cup {None}
          /\ commit.appliedRate \in Bitrates \cup {None}
          /\ commit.tier \in Tiers \cup {None}
          /\ commit.appliedTier \in Tiers \cup {None}
      BY <1>1 DEF Commits
    <3>2. commit' = [commit EXCEPT ![kind] = 0,
             !.appliedRate = IF kind = "bitrate" THEN commit.rate ELSE commit.appliedRate,
             !.appliedTier = IF kind = "resolution" THEN commit.tier
                             ELSE commit.appliedTier]
      BY <1>1, <1>2 DEF WaitSucceeds, Kinds, Commits
    <3> QED BY <3>1, <3>2
  <2>2. ASSUME kind = "bitrate" PROVE commit' \in Commits
    <3>1. commit' = [commit EXCEPT !.bitrate = 0, !.appliedRate = r, !.appliedTier = t]
      BY <2>1, <2>2
    <3> QED BY <1>1, <3>1 DEF Commits
  <2>3. ASSUME kind = "keyframe" PROVE commit' \in Commits
    <3>1. commit' = [commit EXCEPT !.keyframe = 0, !.appliedRate = r, !.appliedTier = t]
      BY <2>1, <2>3
    <3> QED BY <1>1, <3>1 DEF Commits
  <2>4. ASSUME kind = "resolution" PROVE commit' \in Commits
    <3>1. commit' = [commit EXCEPT !.resolution = 0, !.appliedRate = r, !.appliedTier = t]
      BY <2>1, <2>4
    <3> QED BY <1>1, <3>1 DEF Commits
  <2>5. commit' \in Commits BY <2>2, <2>3, <2>4 DEF Kinds
  <2>6. UNCHANGED <<encoderVars, act, todo, reportWaiting, decision, barrier, known>>
    BY <1>2 DEF WaitSucceeds
  <2> QED BY <2>5, <2>6, TypeParts, NextTypes DEF encoderVars, EncoderTypeOK
<1>3. CASE WaitFails(kind)
  <2>1. PICK k \in 0..MaxRevisions :
          \/ commit' = NoCommit
          \/ commit' = [commit EXCEPT ![kind] = 0, !.keyframe = k]
    <3>1. commit.keyframe \in 0..MaxRevisions BY <1>1 DEF Commits
    <3>2. commit' = NoCommit \/
          commit' = [commit EXCEPT ![kind] = 0,
                       !.keyframe = IF kind = "resolution" THEN commit.keyframe ELSE 0]
      BY <1>1, <1>3 DEF WaitFails, Kinds, Commits
    <3> QED BY <1>1, <3>1, <3>2
  <2>2. ASSUME kind = "bitrate" PROVE commit' \in Commits
    <3>1. commit' = NoCommit \/ commit' = [commit EXCEPT !.bitrate = 0, !.keyframe = k]
      BY <2>1, <2>2
    <3> QED BY <1>1, <3>1 DEF Commits
  <2>3. ASSUME kind = "keyframe" PROVE commit' \in Commits
    <3>1. commit' = NoCommit \/ commit' = [commit EXCEPT !.keyframe = k]
      BY <1>1, <2>1, <2>3 DEF Commits
    <3> QED BY <1>1, <3>1 DEF Commits
  <2>4. ASSUME kind = "resolution" PROVE commit' \in Commits
    <3>1. commit' = NoCommit \/ commit' = [commit EXCEPT !.resolution = 0, !.keyframe = k]
      BY <2>1, <2>4
    <3> QED BY <1>1, <3>1 DEF Commits
  <2>5. commit' \in Commits BY <2>2, <2>3, <2>4 DEF Kinds
  <2>6. UNCHANGED <<encoderVars, act, todo, reportWaiting, decision, barrier, known>>
    BY <1>3 DEF WaitFails
  <2> QED BY <2>5, <2>6, TypeParts, NextTypes DEF encoderVars, EncoderTypeOK
<1> QED BY <1>2, <1>3

LEMMA CompleteTypes ==
  ASSUME ActuatorTypeOK, Complete
  PROVE  ActuatorTypeOK'
<1>1. UNCHANGED <<encoderVars, reportWaiting, decision>> BY DEF Complete
<1>2. EncoderTypeOK' BY <1>1, TypeParts DEF encoderVars, EncoderTypeOK
<1>3. NoCommit \in Commits BY Constants DEF NoCommit, Commits
<1>4. CASE act' = Completed /\ commit' = NoCommit /\ UNCHANGED <<todo, barrier, known>>
  BY <1>1, <1>2, <1>3, <1>4, CompletedFields, TypeParts, NextTypes
<1>5. CASE /\ act.queued # NoPlan
           /\ Started(Completed, act.queued)
           /\ barrier' = (barrier /\ ~act.queued.force)
  <2>1. act.queued \in Plan /\ act.queued.force \in BOOLEAN
    BY <1>5, TypeParts, PlanFields DEF ActuatorRecords
  <2>2. barrier' \in BOOLEAN BY <1>5, <2>1, TypeParts
  <2> QED BY <1>1, <1>2, <1>5, <2>1, <2>2, CompletedFields, StartedTypes, TypeParts,
             NextTypes
<1> QED BY <1>4, <1>5 DEF Complete

LEMMA StepTypes ==
  ASSUME ActuatorTypeOK, DraftsInOrder, [Next]_vars
  PROVE  ActuatorTypeOK'
<1> USE Constants
<1>1. CASE ReportArrives
  BY <1>1, TypeParts, NextTypes DEF ReportArrives, encoderVars, EncoderTypeOK
<1>2. ASSUME NEW plan \in Plan, Evaluate(plan) PROVE ActuatorTypeOK'
  BY <1>2, EvaluateTypes
<1>3. CASE Allocate
  <2>1. Head(todo) \in Requests BY <1>3, TypeParts DEF Allocate
  <2>2. EncoderTypeOK' BY <1>3, <2>1, AllocationTypes, TypeParts DEF Allocate
  <2> QED BY <1>3, <2>2, TypeParts, NextTypes DEF Allocate, actuatorVars
<1>4. CASE Publish
  BY <1>4, PublishTypes DEF DraftsInOrder, Publish, PublishDesired
<1>5. CASE RecoveryRequests
  <2>1. [kind |-> "keyframe", value |-> None] \in Requests BY DEF Requests
  <2>2. EncoderTypeOK'
    BY <1>5, <2>1, AllocationTypes, PublicationTypes, TypeParts DEF RecoveryRequests
  <2> QED BY <1>5, <2>2, TypeParts, NextTypes DEF RecoveryRequests, actuatorVars
<1>6. CASE EncoderActs
  BY <1>6, WorkerTypes, TypeParts, NextTypes DEF EncoderActs, actuatorVars
<1>7. ASSUME NEW kind \in Kinds, WaitSucceeds(kind) \/ WaitFails(kind)
      PROVE  ActuatorTypeOK'
  BY <1>7, WaitTypes
<1>8. CASE Complete
  BY <1>8, CompleteTypes
<1>9. CASE AbortAndDrain
  <2>1. NoCommit \in Commits BY DEF NoCommit, Commits
  <2>2. act' \in ActuatorRecords BY <1>9, TypeParts DEF AbortAndDrain, ActuatorRecords
  <2> QED BY <1>9, <2>1, <2>2, TypeParts, NextTypes
          DEF AbortAndDrain, encoderVars, EncoderTypeOK
<1>10. CASE UNCHANGED vars
  BY <1>10, TypeParts, NextTypes DEF vars, actuatorVars, encoderVars, EncoderTypeOK
<1>11. CASE ClaimAgain
  <2>1. act' \in ActuatorRecords
    BY <1>11, NewActuatorFields, TypeParts DEF ClaimAgain, ActuatorRecords
  <2>2. decision' \in [rate : Bitrates, applied : BOOLEAN] BY <1>11 DEF ClaimAgain
  <2> QED BY <1>11, <2>1, <2>2, TypeParts, NextTypes
          DEF ClaimAgain, encoderVars, EncoderTypeOK
<1> QED BY <1>1, <1>2, <1>3, <1>4, <1>5, <1>6, <1>7, <1>8, <1>9, <1>10, <1>11 DEF Next

-----------------------------------------------------------------------------
\* The steps keep the invariant.

\* The commit task's progress and the status do not matter to it.
LEMMA NothingAsked ==
  ASSUME ActuatorInv, UNCHANGED <<act, todo, barrier, known, drafts, desired>>,
         reportWaiting => reportWaiting'
  PROVE  ActuatorInv'
<1>1. DraftsInOrder' /\ StartsAlone' BY DEF ActuatorInv, DraftsInOrder, StartsAlone
<1>2. RequestsInStep' BY DEF ActuatorInv, RequestsInStep, InStep, Told, Among
<1>3. TargetFollowed' BY DEF ActuatorInv, TargetFollowed
<1>4. QueuedOffered' BY DEF ActuatorInv, QueuedOffered, Offered
<1>5. NoStrandedPlan' BY DEF ActuatorInv, NoStrandedPlan
<1>6. RecoveryBarrierSurvives' BY DEF ActuatorInv, RecoveryBarrierSurvives
<1> QED BY <1>1, <1>2, <1>3, <1>4, <1>5, <1>6 DEF ActuatorInv

\* start, with a plan that is the policies' target, in an actuator at rest.
LEMMA StartKeeps ==
  ASSUME ActuatorTypeOK, ActuatorInv, todo = <<>>, UNCHANGED <<drafts, desired>>,
         NEW a \in ActuatorRecords, NEW plan \in Plan, Started(a, plan),
         a.mode = act.mode, a.enabled = act.enabled, a.running, a.requested = act.requested,
         a.enabled => a.desired.rate = plan.rate,
         a.enabled /\ a.mode = "legacy" =>
           a.desired.tier = IF plan.tier = None THEN a.requested.tier ELSE plan.tier,
         ~barrier'
  PROVE  ActuatorInv'
<1> DEFINE rs == RequestsOf(a, plan)
<1>1. /\ todo' = rs
      /\ act'.mode = a.mode /\ act'.enabled = a.enabled /\ act'.running
      /\ act'.desired = a.desired /\ act'.queued = NoPlan
      /\ act'.requested.rate =
           IF Among(rs, "bitrate") THEN plan.rate ELSE act.requested.rate
      /\ act'.requested.tier =
           IF Among(rs, "resolution") THEN plan.tier ELSE act.requested.tier
      /\ \A kind \in known' : kind \in known \/ Among(rs, kind)
  BY StartedFields
<1>2. /\ \A r \in Elements(rs) :
           /\ r.kind = "bitrate" => r.value = plan.rate
           /\ r.kind = "resolution" => r.value = plan.tier
      /\ a.enabled /\ ~Among(rs, "bitrate") => plan.rate = act.requested.rate
      /\ a.enabled /\ ~Among(rs, "resolution") =>
           plan.tier = None \/ plan.tier = act.requested.tier
      /\ Among(rs, "resolution") => plan.tier # None
  <2>1. \A r \in Elements(rs) : r.kind = "resolution" => plan.tier # None
    BY RequestsAsked, Constants
  <2>2. Among(rs, "resolution") => \E r \in Elements(rs) : r.kind = "resolution"
    BY DEF Among, Elements
  <2> QED BY <2>1, <2>2, RequestsAsked
<1> HIDE DEF rs
<1>3. /\ "bitrate" \in known => Told(act.requested.rate, desired.bitrate, CeilingRate)
      /\ "resolution" \in known => Told(act.requested.tier, desired.resolution, NativeTier)
  <2>1. \A kind : ~Among(todo, kind) BY DEF Among
  <2> QED BY <2>1 DEF ActuatorInv, RequestsInStep, InStep
<1>4. DraftsInOrder' BY DEF ActuatorInv, DraftsInOrder
<1>5. StartsAlone' BY <1>1 DEF StartsAlone
<1>6. RequestsInStep'
  <2>1. \A j \in DOMAIN rs : rs[j] \in Elements(rs) BY DEF Elements
  <2>2. \A kind, j \in DOMAIN rs : rs[j].kind = kind => Among(rs, kind) BY DEF Among
  <2>3. InStep("bitrate", act.requested.rate, desired.bitrate, CeilingRate)'
    BY <1>1, <1>2, <1>3, <2>1, <2>2 DEF InStep, Told, Among
  <2>4. InStep("resolution", act.requested.tier, desired.resolution, NativeTier)'
    BY <1>1, <1>2, <1>3, <2>1, <2>2 DEF InStep, Told, Among
  <2> QED BY <2>3, <2>4 DEF RequestsInStep
<1>7. TargetFollowed'
  <2>1. NoPlan.tier = None BY DEF NoPlan
  <2> QED BY <1>1, <1>2, <2>1 DEF TargetFollowed
<1>8. QueuedOffered' /\ NoStrandedPlan' BY <1>1 DEF QueuedOffered, NoStrandedPlan
<1>9. RecoveryBarrierSurvives' BY DEF RecoveryBarrierSurvives
<1> QED BY <1>4, <1>5, <1>6, <1>7, <1>8, <1>9 DEF ActuatorInv

\* A plan without a tier is offered only where the tier is never changed.
LEMMA TargetKept ==
  ASSUME ActuatorTypeOK, ActuatorInv, act.running, act.enabled, act.mode = "legacy",
         NEW plan \in Plan, Offered(plan), plan.tier = None
  PROVE  act.desired.tier = act.requested.tier
<1>1. ~act.scaling BY DEF Offered
<1>2. act.queued.tier = None
  <2>1. NoPlan.tier = None BY DEF NoPlan
  <2> QED BY <1>1, <2>1 DEF ActuatorInv, QueuedOffered, Offered
<1> QED BY <1>2 DEF ActuatorInv, TargetFollowed

LEMMA EvaluateKeeps ==
  ASSUME ActuatorTypeOK, ActuatorInv, NEW plan \in Plan, Evaluate(plan)
  PROVE  ActuatorInv'
<1> DEFINE a == WithDesired(plan)
           p == Inheriting(plan, act.queued)
           s == StartNow(plan)
<1>1. /\ act.running /\ todo = <<>> /\ Offered(plan)
      /\ act.mode = "legacy" => reportWaiting
      /\ UNCHANGED <<drafts, desired>> /\ Submit(plan)
  BY DEF Evaluate, AtRest, encoderVars
<1>2. /\ a \in ActuatorRecords
      /\ a.mode = act.mode /\ a.enabled = act.enabled /\ a.scaling = act.scaling
      /\ a.running = act.running /\ a.pending = act.pending
      /\ a.requested = act.requested /\ a.desired.rate = plan.rate
      /\ a.desired.tier = IF plan.tier = None THEN act.desired.tier ELSE plan.tier
      /\ p \in Plan /\ p.rate = plan.rate /\ p.tier = plan.tier
      /\ s \in Plan /\ s.rate = plan.rate /\ s.tier = plan.tier
      /\ plan.force \/ act.queued.force => p.force
      /\ act.mode = "shared" => s = plan
      /\ act.mode = "legacy" => s = p
  BY SubmittedFields
<1>3. act.enabled /\ act.mode = "legacy" =>
        a.desired.tier = IF plan.tier = None THEN act.requested.tier ELSE plan.tier
  BY <1>1, <1>2, TargetKept
<1>4. p # NoPlan
  <2>1. p.rate # NoPlan.rate BY <1>2, Constants DEF Plan, NoPlan
  <2> QED BY <2>1
<1>5. act.mode \in {"shared", "legacy"} BY TypeParts DEF ActuatorRecords
<1>6. CASE act.pending
  <2>1. /\ act' = [a EXCEPT !.queued = p] /\ UNCHANGED <<todo, commit, known>>
        /\ barrier' = (barrier \/ plan.force)
    BY <1>1, <1>6 DEF Submit
  <2>2. /\ act'.mode = act.mode /\ act'.enabled = act.enabled
        /\ act'.scaling = act.scaling /\ act'.running = act.running
        /\ act'.pending = act.pending /\ act'.requested = act.requested
        /\ act'.desired = a.desired /\ act'.queued = p
    BY <2>1, QueuedFields
  <2> HIDE DEF a, p, s
  <2>3. DraftsInOrder' BY <1>1, <2>1 DEF ActuatorInv, DraftsInOrder
  <2>4. StartsAlone' BY <1>1, <2>1, <2>2 DEF StartsAlone
  <2>5. RequestsInStep'
    BY <1>1, <2>1, <2>2 DEF ActuatorInv, RequestsInStep, InStep, Told, Among
  <2>6. TargetFollowed' BY <1>2, <1>3, <1>4, <2>2 DEF TargetFollowed
  <2>7. QueuedOffered' BY <1>1, <1>2, <2>2 DEF QueuedOffered, Offered
  <2>8. NoStrandedPlan' BY <1>6, <2>2 DEF NoStrandedPlan
  <2>9. RecoveryBarrierSurvives'
    BY <1>2, <2>1, <2>2 DEF ActuatorInv, RecoveryBarrierSurvives
  <2> QED BY <2>3, <2>4, <2>5, <2>6, <2>7, <2>8, <2>9 DEF ActuatorInv
<1>7. CASE ~act.pending
  <2>1. Started(a, s) /\ barrier' = ((barrier \/ plan.force) /\ ~s.force)
    BY <1>1, <1>7 DEF Submit
  <2> HIDE DEF a, p, s
  <2>2. ~barrier'
    <3>1. CASE act.mode = "legacy"
      BY <1>2, <2>1, <3>1 DEF ActuatorInv, RecoveryBarrierSurvives
    <3>2. CASE act.mode = "shared"
      <4>1. ~NoPlan.force BY DEF NoPlan
      <4>2. ~barrier
        BY <1>7, <3>2, <4>1 DEF ActuatorInv, RecoveryBarrierSurvives, NoStrandedPlan
      <4> QED BY <1>2, <2>1, <3>2, <4>2
    <3> QED BY <1>5, <3>1, <3>2
  <2> QED BY <1>1, <1>2, <1>3, <2>1, <2>2, StartKeeps
<1> QED BY <1>6, <1>7

LEMMA CompleteKeeps ==
  ASSUME ActuatorTypeOK, ActuatorInv, Complete
  PROVE  ActuatorInv'
<1>1. /\ act.pending /\ todo = <<>> /\ act.running
      /\ UNCHANGED <<drafts, desired, reportWaiting>>
  BY DEF Complete, Committing, ActuatorInv, StartsAlone, encoderVars
<1> DEFINE a == Completed
<1>2. /\ a \in ActuatorRecords
      /\ a.mode = act.mode /\ a.enabled = act.enabled /\ a.scaling = act.scaling
      /\ a.running = act.running /\ a.pending = FALSE
      /\ a.requested = act.requested /\ a.desired = act.desired /\ a.queued = act.queued
  BY CompletedFields
<1>3. CASE /\ act.queued = NoPlan \/ (act.mode = "legacy" /\ reportWaiting)
           /\ act' = a /\ UNCHANGED <<todo, barrier, known>>
  <2> HIDE DEF a
  <2>1. DraftsInOrder' /\ StartsAlone'
    BY <1>1, <1>2, <1>3 DEF ActuatorInv, DraftsInOrder, StartsAlone
  <2>2. RequestsInStep'
    BY <1>1, <1>2, <1>3 DEF ActuatorInv, RequestsInStep, InStep, Told, Among
  <2>3. TargetFollowed' BY <1>2, <1>3 DEF ActuatorInv, TargetFollowed
  <2>4. QueuedOffered' BY <1>2, <1>3 DEF ActuatorInv, QueuedOffered, Offered
  <2>5. NoStrandedPlan' BY <1>1, <1>2, <1>3 DEF NoStrandedPlan
  <2>6. RecoveryBarrierSurvives'
    BY <1>2, <1>3 DEF ActuatorInv, RecoveryBarrierSurvives
  <2> QED BY <2>1, <2>2, <2>3, <2>4, <2>5, <2>6 DEF ActuatorInv
<1>4. CASE /\ act.queued # NoPlan /\ Started(a, act.queued)
           /\ barrier' = (barrier /\ ~act.queued.force)
  <2> HIDE DEF a
  <2>1. act.queued \in Plan BY <1>4, TypeParts, PlanFields DEF ActuatorRecords
  <2>2. ~barrier' BY <1>4 DEF ActuatorInv, RecoveryBarrierSurvives
  <2>3. /\ a.enabled => a.desired.rate = act.queued.rate
        /\ a.enabled /\ a.mode = "legacy" =>
             a.desired.tier = IF act.queued.tier = None THEN a.requested.tier
                              ELSE act.queued.tier
    BY <1>1, <1>2, <1>4 DEF ActuatorInv, TargetFollowed
  <2> QED BY <1>1, <1>2, <1>4, <2>1, <2>2, <2>3, StartKeeps
<1> QED BY <1>3, <1>4 DEF Complete

\* What a published request does to the desired state.
LEMMA PublishedParts ==
  ASSUME NEW c \in Callers, EncoderTypeOK, PublishDesired(c)
  PROVE  LET request == drafts[c].request IN
         /\ drafts[c] # NoDraft /\ drafts'[c] = NoDraft
         /\ \A d \in Callers \ {c} : drafts'[d] = drafts[d]
         /\ IF request.kind = "bitrate" THEN desired'.bitrate.value = request.value
            ELSE desired'.bitrate = desired.bitrate
         /\ IF request.kind = "resolution" THEN desired'.resolution.value = request.value
            ELSE desired'.resolution = desired.resolution
<1>1. drafts \in [Callers -> Draft] BY DEF EncoderTypeOK
<1> QED BY <1>1 DEF PublishDesired, Desire

\* Publishing the first of todo keeps the remembered request in step with what
\* was asked and what is still to be asked.
LEMMA HeadPublished ==
  ASSUME todo \in Seq(Requests), todo # <<>>, todo' = Tail(todo),
         NEW kind \in {"bitrate", "resolution"}, NEW wanted, wanted # None,
         NEW initial, NEW part, NEW next,
         InStep(kind, wanted, part, initial),
         IF Head(todo).kind = kind THEN next.value = Head(todo).value ELSE next = part
  PROVE  /\ \A j \in DOMAIN todo' : todo'[j].kind = kind => todo'[j].value = wanted
         /\ kind \in known /\ ~Among(todo', kind) => Told(wanted, next, initial)
<1>1. /\ 1 \in DOMAIN todo /\ Head(todo) = todo[1]
      /\ \A j \in DOMAIN todo' : j + 1 \in DOMAIN todo /\ todo'[j] = todo[j + 1]
      /\ \A j \in DOMAIN todo : j = 1 \/ (j - 1 \in DOMAIN todo' /\ todo[j] = todo'[j - 1])
  OBVIOUS
<1>2. \A j \in DOMAIN todo' : todo'[j].kind = kind => todo'[j].value = wanted
  BY <1>1 DEF InStep
<1>3. ASSUME kind \in known, ~Among(todo', kind) PROVE Told(wanted, next, initial)
  <2>1. CASE Head(todo).kind = kind
    <3>1. next.value = wanted BY <1>1, <2>1 DEF InStep
    <3>2. Unset.value = None BY DEF Unset
    <3> QED BY <3>1, <3>2 DEF Told
  <2>2. CASE Head(todo).kind # kind
    <3>1. ~Among(todo, kind) BY <1>1, <1>3, <2>2 DEF Among
    <3> QED BY <1>3, <2>2, <3>1 DEF InStep
  <2> QED BY <2>1, <2>2
<1> QED BY <1>2, <1>3

LEMMA PublishKeeps ==
  ASSUME ActuatorTypeOK, ActuatorInv, Publish
  PROVE  ActuatorInv'
<1>1. /\ PublishDesired(Actuator) /\ todo' = Tail(todo)
      /\ UNCHANGED <<reportWaiting, barrier, known>>
  BY DEF Publish
<1>2. /\ todo \in Seq(Requests) /\ todo # <<>> /\ drafts[Actuator].request = Head(todo)
      /\ act.running /\ act.queued = NoPlan
  BY <1>1, TypeParts DEF PublishDesired, ActuatorInv, DraftsInOrder, StartsAlone
<1>3. /\ drafts'[Actuator] = NoDraft /\ drafts'[Recovery] = drafts[Recovery]
      /\ IF Head(todo).kind = "bitrate" THEN desired'.bitrate.value = Head(todo).value
         ELSE desired'.bitrate = desired.bitrate
      /\ IF Head(todo).kind = "resolution"
         THEN desired'.resolution.value = Head(todo).value
         ELSE desired'.resolution = desired.resolution
  BY <1>1, <1>2, PublishedParts, Constants, TypeParts
<1>4. /\ act'.mode = act.mode /\ act'.enabled = act.enabled
      /\ act'.scaling = act.scaling /\ act'.running = act.running
      /\ act'.desired = act.desired /\ act'.requested = act.requested
      /\ act'.queued = act.queued
  <2>1. PICK p : act' = [act EXCEPT !.pending = p] BY DEF Publish
  <2> QED BY <2>1, TypeParts DEF ActuatorRecords
<1>5. act.requested.rate # None /\ act.requested.tier # None
  BY TypeParts, Constants DEF ActuatorRecords, Setting
<1>6. DraftsInOrder' BY <1>3 DEF ActuatorInv, DraftsInOrder
<1>7. StartsAlone' BY <1>2, <1>4 DEF StartsAlone
<1>8. RequestsInStep'
  <2>1. /\ InStep("bitrate", act.requested.rate, desired.bitrate, CeilingRate)
        /\ InStep("resolution", act.requested.tier, desired.resolution, NativeTier)
    BY DEF ActuatorInv, RequestsInStep
  <2>2. /\ \A j \in DOMAIN todo' :
             todo'[j].kind = "bitrate" => todo'[j].value = act.requested.rate
        /\ "bitrate" \in known /\ ~Among(todo', "bitrate") =>
             Told(act.requested.rate, desired'.bitrate, CeilingRate)
    <3>1. IF Head(todo).kind = "bitrate" THEN desired'.bitrate.value = Head(todo).value
          ELSE desired'.bitrate = desired.bitrate
      BY <1>3
    <3> QED BY <1>1, <1>2, <1>5, <2>1, <3>1, HeadPublished
  <2>3. /\ \A j \in DOMAIN todo' :
             todo'[j].kind = "resolution" => todo'[j].value = act.requested.tier
        /\ "resolution" \in known /\ ~Among(todo', "resolution") =>
             Told(act.requested.tier, desired'.resolution, NativeTier)
    <3>1. IF Head(todo).kind = "resolution"
          THEN desired'.resolution.value = Head(todo).value
          ELSE desired'.resolution = desired.resolution
      BY <1>3
    <3> QED BY <1>1, <1>2, <1>5, <2>1, <3>1, HeadPublished
  <2> QED BY <1>1, <1>4, <2>2, <2>3 DEF RequestsInStep, InStep, Told, Among
<1>9. TargetFollowed' BY <1>4 DEF ActuatorInv, TargetFollowed
<1>10. QueuedOffered' /\ NoStrandedPlan' BY <1>2, <1>4 DEF QueuedOffered, NoStrandedPlan
<1>11. RecoveryBarrierSurvives' BY <1>1, <1>4 DEF ActuatorInv, RecoveryBarrierSurvives
<1> QED BY <1>6, <1>7, <1>8, <1>9, <1>10, <1>11 DEF ActuatorInv

\* The forced-IDR coordinator asks for keyframes beside the actuator.
LEMMA RecoveryKeeps ==
  ASSUME ActuatorTypeOK, ActuatorInv, RecoveryRequests
  PROVE  ActuatorInv'
<1> DEFINE request == [kind |-> "keyframe", value |-> None]
<1>1. UNCHANGED <<act, todo, barrier, known, reportWaiting>>
  BY DEF RecoveryRequests, actuatorVars
<1>2. /\ drafts'[Actuator] = drafts[Actuator]
      /\ drafts'[Recovery] = NoDraft \/ drafts'[Recovery].request.kind = "keyframe"
      /\ desired'.bitrate = desired.bitrate /\ desired'.resolution = desired.resolution
  <2>1. CASE AllocateRevision(Recovery, request)
    <3>1. drafts \in [Callers -> Draft] BY TypeParts DEF EncoderTypeOK
    <3> QED BY <2>1, <3>1, Constants DEF AllocateRevision
  <2>2. CASE PublishDesired(Recovery)
    <3>1. drafts[Recovery].request.kind = "keyframe"
      BY <2>2 DEF ActuatorInv, DraftsInOrder, PublishDesired
    <3> QED BY <2>2, <3>1, PublishedParts, Constants, TypeParts
  <2> QED BY <2>1, <2>2 DEF RecoveryRequests
<1>3. DraftsInOrder' BY <1>1, <1>2 DEF ActuatorInv, DraftsInOrder
<1>4. StartsAlone' BY <1>1 DEF ActuatorInv, StartsAlone
<1>5. RequestsInStep'
  BY <1>1, <1>2 DEF ActuatorInv, RequestsInStep, InStep, Told, Among
<1>6. TargetFollowed' BY <1>1 DEF ActuatorInv, TargetFollowed
<1>7. QueuedOffered' BY <1>1 DEF ActuatorInv, QueuedOffered, Offered
<1>8. NoStrandedPlan' BY <1>1 DEF ActuatorInv, NoStrandedPlan
<1>9. RecoveryBarrierSurvives' BY <1>1 DEF ActuatorInv, RecoveryBarrierSurvives
<1> QED BY <1>3, <1>4, <1>5, <1>6, <1>7, <1>8, <1>9 DEF ActuatorInv

LEMMA StepKeepsActuator ==
  ASSUME ActuatorTypeOK, ActuatorInv, [Next]_vars
  PROVE  ActuatorInv'
<1>1. CASE ReportArrives
  BY <1>1, NothingAsked DEF ReportArrives, encoderVars
<1>2. ASSUME NEW plan \in Plan, Evaluate(plan) PROVE ActuatorInv'
  BY <1>2, EvaluateKeeps
<1>3. CASE Allocate
  <2>1. /\ UNCHANGED <<act, todo, barrier, known, reportWaiting, desired>>
        /\ drafts'[Actuator].request = Head(todo)
        /\ drafts'[Recovery] = drafts[Recovery] /\ todo # <<>>
    <3>1. drafts \in [Callers -> Draft] BY TypeParts DEF EncoderTypeOK
    <3> QED BY <1>3, <3>1, Constants DEF Allocate, AllocateRevision, actuatorVars
  <2>2. DraftsInOrder' BY <2>1 DEF ActuatorInv, DraftsInOrder
  <2>3. StartsAlone' BY <2>1 DEF ActuatorInv, StartsAlone
  <2>4. RequestsInStep' BY <2>1 DEF ActuatorInv, RequestsInStep, InStep, Told, Among
  <2>5. TargetFollowed' BY <2>1 DEF ActuatorInv, TargetFollowed
  <2>6. QueuedOffered' BY <2>1 DEF ActuatorInv, QueuedOffered, Offered
  <2>7. NoStrandedPlan' BY <2>1 DEF ActuatorInv, NoStrandedPlan
  <2>8. RecoveryBarrierSurvives' BY <2>1 DEF ActuatorInv, RecoveryBarrierSurvives
  <2> QED BY <2>2, <2>3, <2>4, <2>5, <2>6, <2>7, <2>8 DEF ActuatorInv
<1>4. CASE Publish BY <1>4, PublishKeeps
<1>5. CASE RecoveryRequests BY <1>5, RecoveryKeeps
<1>6. CASE EncoderActs
  <2>1. UNCHANGED <<drafts, desired>>
    BY <1>6 DEF EncoderActs, WorkerStep, ApplyEncoderControl, PublishSample, PipelineFails
  <2> QED BY <1>6, <2>1, NothingAsked DEF EncoderActs, actuatorVars
<1>7. ASSUME NEW kind \in Kinds, WaitSucceeds(kind) \/ WaitFails(kind)
      PROVE  ActuatorInv'
  <2>1. UNCHANGED <<act, todo, barrier, known, drafts, desired, reportWaiting>>
    BY <1>7 DEF WaitSucceeds, WaitFails, encoderVars
  <2> QED BY <2>1, NothingAsked
<1>8. CASE Complete BY <1>8, CompleteKeeps
<1>9. CASE AbortAndDrain
  <2>1. /\ todo = <<>> /\ ~barrier' /\ UNCHANGED <<drafts, desired, todo, known>>
        /\ ~act'.running /\ act'.queued = NoPlan /\ ~act'.pending
        /\ act'.requested = act.requested
    BY <1>9, TypeParts DEF AbortAndDrain, AtRest, encoderVars, ActuatorRecords
  <2>2. DraftsInOrder' BY <2>1 DEF ActuatorInv, DraftsInOrder
  <2>3. StartsAlone' BY <2>1 DEF StartsAlone
  <2>4. RequestsInStep' BY <2>1 DEF ActuatorInv, RequestsInStep, InStep, Told, Among
  <2>5. TargetFollowed' /\ QueuedOffered' /\ NoStrandedPlan' /\ RecoveryBarrierSurvives'
    BY <2>1 DEF TargetFollowed, QueuedOffered, NoStrandedPlan, RecoveryBarrierSurvives
  <2> QED BY <2>2, <2>3, <2>4, <2>5 DEF ActuatorInv
<1>10. CASE UNCHANGED vars
  BY <1>10, NothingAsked DEF vars, encoderVars, actuatorVars
<1>11. CASE ClaimAgain
  <2>1. /\ UNCHANGED <<drafts, desired, todo, barrier>> /\ known' = {}
        /\ act'.running /\ act'.queued = NoPlan /\ ~act'.pending
        /\ act'.desired = Initially /\ act'.requested = Initially
    BY <1>11, NewActuatorFields, TypeParts DEF ClaimAgain, encoderVars, ActuatorRecords
  <2>2. todo = <<>> BY <1>11 DEF ClaimAgain, ActuatorInv, StartsAlone
  <2>3. DraftsInOrder' BY <2>1 DEF ActuatorInv, DraftsInOrder
  <2>4. StartsAlone' BY <2>1, <2>2 DEF StartsAlone
  <2>5. RequestsInStep' BY <2>1, <2>2 DEF RequestsInStep, InStep
  <2>6. TargetFollowed'
    <3>1. NoPlan.tier = None BY DEF NoPlan
    <3> QED BY <2>1, <3>1 DEF TargetFollowed
  <2>7. QueuedOffered' /\ NoStrandedPlan' BY <2>1 DEF QueuedOffered, NoStrandedPlan
  <2>8. RecoveryBarrierSurvives'
    BY <1>11, <2>1 DEF ActuatorInv, ClaimAgain, StartsAlone, RecoveryBarrierSurvives
  <2> QED BY <2>3, <2>4, <2>5, <2>6, <2>7, <2>8 DEF ActuatorInv
<1> QED BY <1>1, <1>2, <1>3, <1>4, <1>5, <1>6, <1>7, <1>8, <1>9, <1>10, <1>11 DEF Next

LEMMA InitActuator == Init => ActuatorInv
<1> SUFFICES ASSUME Init PROVE ActuatorInv
  OBVIOUS
<1>1. /\ todo = <<>> /\ ~barrier /\ act.running /\ ~act.pending /\ act.queued = NoPlan
      /\ act.desired = Initially /\ act.requested = Initially
      /\ drafts[Actuator] = NoDraft /\ drafts[Recovery] = NoDraft
      /\ desired.bitrate = Unset /\ desired.resolution = Unset
  BY Constants, NewActuatorFields DEF Init, EncoderInit
<1>2. DraftsInOrder /\ StartsAlone BY <1>1 DEF DraftsInOrder, StartsAlone
<1>3. RequestsInStep BY <1>1 DEF RequestsInStep, InStep, Told, Initially
<1>4. TargetFollowed
  <2>1. NoPlan.tier = None BY DEF NoPlan
  <2> QED BY <1>1, <2>1 DEF TargetFollowed
<1>5. QueuedOffered /\ NoStrandedPlan /\ RecoveryBarrierSurvives
  BY <1>1 DEF QueuedOffered, NoStrandedPlan, RecoveryBarrierSurvives
<1> QED BY <1>2, <1>3, <1>4, <1>5 DEF ActuatorInv

-----------------------------------------------------------------------------
\* The theorems.

\* Whatever times out, is superseded or coalesced, the actuator's bookkeeping
\* and the requests of its start (adaptive.rs) stay in step with the encoder's
\* desired state; the type invariant rests on the order of its requests.
THEOREM ActuatorInvariant == Spec => [](ActuatorTypeOK /\ ActuatorInv)
<1>1. Init => ActuatorTypeOK /\ ActuatorInv
  BY InitTypes, InitActuator
<1>2. ActuatorTypeOK /\ ActuatorInv /\ [Next]_vars => (ActuatorTypeOK /\ ActuatorInv)'
  <2>1. ActuatorInv => DraftsInOrder BY DEF ActuatorInv
  <2> QED BY <2>1, StepTypes, StepKeepsActuator
<1> QED BY <1>1, <1>2, PTL DEF Spec

\* Every variable of the actuator and of the control handle stays in its type.
THEOREM ActuatorTypes == Spec => []ActuatorTypeOK
BY ActuatorInvariant, PTL

\* An actuator with nothing left to do has asked the encoder for the target the
\* policies want, as far as it can know what was asked before it: "returning to the old committed target must overwrite the
\* still-pending stale request" (adaptive.rs:1763).
THEOREM NoStaleRequest == Spec => []NothingStaleRequested
<1>1. ActuatorInv => NothingStaleRequested
  <2> SUFFICES ASSUME ActuatorInv, act.running, act.enabled, todo = <<>>,
                      ~act.pending, act.queued = NoPlan
               PROVE  /\ "bitrate" \in known =>
                           Told(act.desired.rate, desired.bitrate, CeilingRate)
                      /\ act.mode = "legacy" /\ "resolution" \in known =>
                           Told(act.desired.tier, desired.resolution, NativeTier)
    BY DEF NothingStaleRequested, Idle
  <2>1. NoPlan.tier = None BY DEF NoPlan
  <2>2. /\ act.desired.rate = act.requested.rate
        /\ act.mode = "legacy" => act.desired.tier = act.requested.tier
    BY <2>1 DEF ActuatorInv, TargetFollowed
  <2>3. \A kind : ~Among(todo, kind) BY DEF Among
  <2> QED BY <2>2, <2>3 DEF ActuatorInv, RequestsInStep, InStep
<1> QED BY <1>1, ActuatorInvariant, PTL

\* A forced keyframe that was planned is started or carried by the queued plan:
\* submit and start_queued never coalesce it away (adaptive.rs:1725).
THEOREM RecoveryBarrierKept == Spec => []RecoveryBarrierSurvives
<1>1. ActuatorInv => RecoveryBarrierSurvives BY DEF ActuatorInv
<1> QED BY <1>1, ActuatorInvariant, PTL

\* A queued plan is started by the completion of the commit that runs, or
\* replaced when the waiting report is evaluated.
THEOREM QueuedPlanHasAStarter == Spec => []NoStrandedPlan
<1>1. ActuatorInv => NoStrandedPlan BY DEF ActuatorInv
<1> QED BY <1>1, ActuatorInvariant, PTL

\* bitrate_is_applied answers truly in the legacy coordinator: the decision that
\* claims a bitrate names the last one the encoder was asked for, when the
\* coordinator asked for it or nobody changed it.
THEOREM AppliedDecisionsAreTrue == Spec => AppliedIsTrue
<1>1. ASSUME ActuatorTypeOK, ActuatorInv, [Next]_vars
      PROVE  [decision' # decision /\ decision'.applied /\ act.mode = "legacy"
                /\ "bitrate" \in known
              => Told(decision'.rate, desired.bitrate, CeilingRate)]_vars
  <2> SUFFICES ASSUME decision' # decision, decision'.applied, act.mode = "legacy",
                      "bitrate" \in known
               PROVE  Told(decision'.rate, desired.bitrate, CeilingRate)
    OBVIOUS
  <2>0. ~ClaimAgain BY DEF ClaimAgain
  <2>1. PICK plan \in Plan : Evaluate(plan)
    BY <1>1, <2>0 DEF Next, ReportArrives, Allocate, Publish, RecoveryRequests,
           EncoderActs, WaitSucceeds, WaitFails, Complete, AbortAndDrain, actuatorVars, vars
  <2>2. todo = <<>> /\ decision' = [rate |-> plan.rate,
                                    applied |-> BitrateIsApplied(plan.rate)]
    BY <2>1 DEF Evaluate, AtRest
  <2>3. plan.rate = act.requested.rate
    <3>1. decision'.applied = BitrateIsApplied(plan.rate) BY <2>2
    <3> QED BY <3>1 DEF BitrateIsApplied
  <2>4. ~Among(todo, "bitrate") BY <2>2 DEF Among
  <2> QED BY <1>1, <2>2, <2>3, <2>4 DEF ActuatorInv, RequestsInStep, InStep
<1> QED BY <1>1, ActuatorInvariant, PTL DEF Spec, AppliedIsTrue, LastAskedFor
=============================================================================
