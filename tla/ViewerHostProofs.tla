-------------------------- MODULE ViewerHostProofs --------------------------
(***************************************************************************)
(* Theorems about the tasks that call the registry and the device they     *)
(* share: a host only ever makes calls of the registry, so that what holds *)
(* of the registry holds of it; and where resets work, the device is       *)
(* neutral before a successor holds the slot, which is what FocusSlot      *)
(* promises.                                                               *)
(***************************************************************************)
EXTENDS ViewerHost, RegistryFocusProofs

-----------------------------------------------------------------------------
\* The tasks make calls of the registry, and nothing else changes it.

\* No task waits for a transition that the arbiter has not begun yet.
TransitionsIssued ==
  /\ focus.tid \leq focus.nextTid /\ mutation.tid \leq focus.nextTid
  /\ \A l \in leases : l.transition \leq focus.nextTid

SessionsBounded == nextSession \leq MaxSession

RegistryFacts ==
  /\ RegistryInv /\ FocusInv /\ SidecarInv /\ GenerationsIssued /\ LeasesOwned
  /\ TransitionsIssued /\ SessionsBounded

LEMMA LeasesKept ==
  ASSUME [Next]_vars
  PROVE  \/ UNCHANGED leases
         \/ \E p \in Peers : ClaimV2(p)
         \/ \E l \in leases : RetireReplaced(l) \/ ReleaseV2(l)
BY DEF Next, vars, leaseVars, LegacyStep, Claim, ClaimLegacySidecar,
       ReleaseLegacySidecar, ReleaseLegacy, ExpectMoq, AdmissionStep, Authorize,
       CheckCommitted, ClaimV2Rejected, MediaStep, ClaimMoq, BindV2Generation,
       ExpectMoqV2, LeaseStep, CommandStep, RequestFocus, FocusCommandRefused,
       ApproveFocus, DenyFocus, ReleaseFocus, PreemptFocus, FocusCommandApplied,
       FocusStep, InvalidateV2Focus, CompleteV2FocusTransition, ExpireV2Focus,
       SidecarStep, ClaimInputV2, ReleaseInputV2, ClaimFeedbackV2, ReleaseFeedbackV2,
       BeginDetach, DisconnectV2Viewer, AuthorizationStep, RevokeViewer,
       ReplaceViewerGrants, RedeemInvitation, CommitMutation, ApplyMutationElsewhere,
       ApplyAuthorizationMutation, NeutralizeMutation, NeutralizeMutationFails,
       CompleteAuthorizationNeutralization

\* The transition that an admission leaves to the new viewer's task.
LEMMA AdmittedTransition ==
  ASSUME TypeOK, NEW p \in Peers, ClaimV2(p)
  PROVE  ReplacementTransition(p) \in Nat /\ ReplacementTransition(p) \leq focus'.nextTid
<1> DEFINE c == Candidate(viewers[p])
<1>1. focus \in Arbiters /\ c \in Candidates BY CandidateType DEF TypeOK
<1>2. focus.nextTid \in Nat BY <1>1 DEF Arbiters
<1>3. CASE ReplacementTransition(p) = 0
  <2>1. focus'.nextTid \in Nat BY ClaimTypes DEF TypeOK, Arbiters
  <2> QED BY <1>3, <2>1
<1>4. CASE ReplacementTransition(p) # 0
  <2>1. p \in Roster(viewers) /\ HeldBy(focus, c) /\ ReplacementTransition(p) = focus.nextTid + 1
    BY <1>4 DEF ReplacementTransition
  <2>2. focus' = RetireCandidate(BeginNeutralization(focus, NoCandidate), c)
    BY <2>1 DEF ClaimV2, AdmittedFocus, BeginInvalidation
  <2>3. BeginNeutralization(focus, NoCandidate) \in Arbiters
        /\ BeginNeutralization(focus, NoCandidate).nextTid = focus.nextTid + 1
    BY <1>1, NoneTypes, ArbiterOperators DEF BeginNeutralization, Arbiters
  <2>4. focus'.nextTid = focus.nextTid + 1
    BY <1>1, <2>2, <2>3, BookkeepingHolds DEF SameHold, SameSlot
  <2> QED BY <1>2, <2>1, <2>4
<1> QED BY <1>3, <1>4

LEMMA LeaseTransitions ==
  ASSUME TypeOK, [Next]_vars, \A l \in leases : l.transition \leq focus.nextTid,
         focus'.nextTid \in Nat, focus.nextTid \leq focus'.nextTid
  PROVE  \A l \in leases' : l.transition \leq focus'.nextTid
<1>1. focus.nextTid \in Nat /\ \A l \in leases : l.transition \in Nat
  BY DEF TypeOK, Arbiters
<1>2. \A l \in leases : l.transition \leq focus'.nextTid BY <1>1
<1>3. ASSUME NEW p \in Peers, ClaimV2(p)
      PROVE  \A l \in leases' : l \in leases \/ l.transition = ReplacementTransition(p)
  BY <1>3 DEF ClaimV2
<1>4. ASSUME NEW l \in leases, RetireReplaced(l)
      PROVE  \A m \in leases' : m \in leases \/ m.transition = l.transition
  <2>1. [l EXCEPT !.replaced = 0].transition = l.transition BY DEF TypeOK
  <2> QED BY <1>4, <2>1 DEF RetireReplaced
<1>5. ASSUME NEW l \in leases, ReleaseV2(l) PROVE leases' \subseteq leases
  BY <1>5 DEF ReleaseV2
<1> QED BY <1>2, <1>3, <1>4, <1>5, LeasesKept, AdmittedTransition

\* What the mutation being served waits for is a transition it began itself.
LEMMA MutationTransition ==
  ASSUME TypeOK, [Next]_vars
  PROVE  mutation'.tid \in {mutation.tid, 0, focus'.tid}
<1>1. ASSUME NEW p, NEW revoked, NEW g, CommitMutation(p, revoked, g)
      PROVE  mutation'.tid = 0
  <2>1. NoMutation \in [stage : {"idle"}, peer : {<<>>}, handle : {<<>>},
                        previous : {{}}, current : {{}}, revoked : BOOLEAN,
                        arev : Nat, tid : {0}]
    BY DEF NoMutation
  <2> QED BY <1>1, <2>1 DEF CommitMutation
<1>2. NoMutation.tid = 0 BY DEF NoMutation
<1>3. ASSUME NeutralizeMutation PROVE mutation'.tid = mutation.tid
  BY <1>3, ServedMutation DEF NeutralizeMutation, Mutations
<1>4. ASSUME ApplyAuthorizationMutation PROVE mutation'.tid \in {0, focus'.tid}
  <2> DEFINE c == Candidate(viewers[mutation.peer])
             transition == (mutation.revoked \/ InputReduced(mutation)) /\ HeldBy(focus, c)
             f == IF mutation.revoked \/ InputReduced(mutation)
                  THEN BeginInvalidation(focus, c) ELSE focus
             tid == IF transition THEN f.tid ELSE 0
  <2>1. mutation \in Mutations BY <1>4, ServedMutation DEF ApplyAuthorizationMutation
  <2>2. c \in Candidates BY <2>1, CandidateType DEF Mutations
  <2>3. focus \in Arbiters BY DEF TypeOK
  <2>4. f \in Arbiters
    <3>1. 0 \in Nat /\ FALSE \in BOOLEAN OBVIOUS
    <3> QED BY <2>2, <2>3, <3>1, ArbiterCommands
  <2>5. focus' = IF mutation.revoked THEN RetireCandidate(f, c) ELSE f
    BY <1>4 DEF ApplyAuthorizationMutation
  <2>6. mutation' = NoMutation \/ mutation' = [mutation EXCEPT !.stage = "neutralize", !.tid = tid]
    BY <1>4 DEF ApplyAuthorizationMutation
  <2>7. tid \in {0, f.tid} OBVIOUS
  <2> HIDE DEF f, c, tid
  <2>8. focus'.tid = f.tid BY <2>2, <2>4, <2>5, BookkeepingHolds DEF SameHold, SameSlot
  <2>9. [mutation EXCEPT !.stage = "neutralize", !.tid = tid].tid = tid BY <2>1 DEF Mutations
  <2> QED BY <1>2, <2>6, <2>7, <2>8, <2>9
<1> QED BY <1>1, <1>2, <1>3, <1>4
        DEF Next, vars, authVars, LegacyStep, Claim, ClaimLegacySidecar,
            ReleaseLegacySidecar, ReleaseLegacy, ExpectMoq, AdmissionStep, Authorize,
            CheckCommitted, ClaimV2, ClaimV2Rejected, MediaStep, ClaimMoq,
            BindV2Generation, ExpectMoqV2, LeaseStep, RetireReplaced, ReleaseV2,
            CommandStep, RequestFocus, FocusCommandRefused, ApproveFocus, DenyFocus,
            ReleaseFocus, PreemptFocus, FocusCommandApplied, FocusStep,
            InvalidateV2Focus, CompleteV2FocusTransition, ExpireV2Focus, SidecarStep,
            ClaimInputV2, ReleaseInputV2, ClaimFeedbackV2, ReleaseFeedbackV2,
            BeginDetach, DisconnectV2Viewer, AuthorizationStep, RevokeViewer,
            ReplaceViewerGrants, RedeemInvitation, ApplyMutationElsewhere,
            NeutralizeMutationFails, CompleteAuthorizationNeutralization

LEMMA TransitionsStep ==
  ASSUME TypeOK, TypeOK', TransitionsIssued, [Next]_vars
  PROVE  TransitionsIssued' /\ focus.nextTid \leq focus'.nextTid
<1>1. /\ focus.tid \in Nat /\ focus.nextTid \in Nat /\ focus'.tid \in Nat
      /\ focus'.nextTid \in Nat
  BY DEF TypeOK, Arbiters
<1>2. mutation.tid \in Nat BY DEF TypeOK, Mutations, NoMutation
<1>3. SlotMove(focus, focus') BY StepMoves
<1>4. focus.nextTid \leq focus'.nextTid /\ focus'.tid \in {focus.tid, 0, focus'.nextTid}
  BY <1>1, <1>3 DEF SlotMove, SameHold, SameSlot
<1>5. focus'.tid \leq focus'.nextTid BY <1>1, <1>4 DEF TransitionsIssued
<1>6. mutation'.tid \leq focus'.nextTid
  BY <1>1, <1>2, <1>4, <1>5, MutationTransition DEF TransitionsIssued
<1>7. \A l \in leases' : l.transition \leq focus'.nextTid
  BY <1>1, <1>4, LeaseTransitions DEF TransitionsIssued
<1> QED BY <1>4, <1>5, <1>6, <1>7 DEF TransitionsIssued

LEMMA SessionsStep ==
  ASSUME TypeOK, SessionsBounded, [Next]_vars
  PROVE  SessionsBounded'
BY SessionsIssued, RegistryAssumption DEF SessionsBounded, FreshSession, TypeOK

LEMMA FactsInit == Init => RegistryFacts
<1> SUFFICES ASSUME Init PROVE RegistryFacts
  OBVIOUS
<1>1. Roster(viewers) = {} BY DEF Init, Roster, NoViewer
<1>2. FocusInv
  BY <1>1 DEF Init, FocusInv, OwnHandles, GrantsDiffer, DetachingAllowed, FocusSound,
              NewArbiter, NoMutation, IsHeld, HasProposal, NoProposal
<1>3. GenerationsIssued /\ LeasesOwned
  BY DEF Init, NewArbiter, GenerationsIssued, LeasesOwned
<1>4. TransitionsIssued /\ SessionsBounded
  BY RegistryAssumption DEF Init, NewArbiter, NoMutation, TransitionsIssued, SessionsBounded
<1> QED BY <1>2, <1>3, <1>4, InitInv, SidecarInit DEF RegistryFacts

LEMMA NextPublishable == FocusInv' => Publishable'
<1>1. FocusInv => Publishable BY HostAssumption, SoundPublishable
<1> QED BY <1>1, PTL

LEMMA FactsStep ==
  ASSUME RegistryFacts, [Next]_vars
  PROVE  RegistryFacts'
<1>1. /\ TypeOK /\ RegistryInv /\ FocusInv /\ SidecarInv /\ GenerationsIssued
      /\ LeasesOwned /\ TransitionsIssued /\ SessionsBounded
  BY DEF RegistryFacts, RegistryInv
<1>2. RegistryInv' BY <1>1, StepInv
<1>3. FocusInv'
  BY <1>1, StepSound, HandlesStep, GrantsDifferStep, DetachingStep DEF FocusInv
<1>4. SidecarInv' BY <1>1, SidecarStepInv
<1>5. GenerationsIssued' BY <1>1, GenerationsStep
<1>6. LeasesOwned'
  <2>1. Publishable' BY <1>3, NextPublishable
  <2> QED BY <1>1, <2>1, LeasesOwnedStep
<1>7. TransitionsIssued'
  <2>1. TypeOK' BY <1>2 DEF RegistryInv
  <2> QED BY <1>1, <2>1, TransitionsStep
<1>8. SessionsBounded' BY <1>1, SessionsStep
<1> QED BY <1>2, <1>3, <1>4, <1>5, <1>6, <1>7, <1>8 DEF RegistryFacts

LEMMA HostCalls ==
  ASSUME RegistryFacts, [HostNext]_hostVars
  PROVE  [Next]_vars
<1>1. MediaPeers = Peers BY HostAssumption
<1>2. /\ leases \subseteq {x \in leases : x.peer \in MediaPeers}
      /\ leases \subseteq {x \in leases : ~x.orphan}
  BY <1>1 DEF RegistryFacts, RegistryInv, TypeOK, LeasesOwned
<1>3. ASSUME NEW p \in Peers, HostAdmission(p) PROVE Next
  BY <1>3 DEF HostAdmission, Next, AdmissionStep, AuthorizationStep
<1>4. ASSUME ControlStep PROVE Next \/ UNCHANGED vars
  <2>1. PICK l \in leases :
          \/ \E g \in Generations : ControlBind(l, g)
          \/ ControlOffer(l) \/ ControlServe(l) \/ ControlFail(l) \/ ControlLeave(l)
          \/ ControlRelease(l)
    BY <1>4 DEF ControlStep
  <2>2. ASSUME NEW g \in Generations, ControlBind(l, g) PROVE Next
    BY <1>2, <2>2 DEF ControlBind, Next, MediaStep
  <2>3. CASE ControlOffer(l) BY <2>3 DEF ControlOffer, Next, LeaseStep
  <2>6. CASE ControlServe(l) BY <2>6 DEF ControlServe
  <2>4. CASE ControlFail(l) \/ ControlRelease(l)
    BY <2>4 DEF ControlFail, ControlRelease, Next, LeaseStep
  <2>5. CASE ControlLeave(l) BY <1>2, <2>5 DEF ControlLeave, Next, FocusStep
  <2> QED BY <2>1, <2>2, <2>3, <2>4, <2>5, <2>6
<1>5. CASE ForwardStep
  BY <1>5 DEF ForwardStep, ForwardCommand, FocusCommand, ForwardTick, ForwardEnd,
              Next, CommandStep, FocusStep
<1>6. CASE JobStep
  <2>1. ASSUME NEW j \in jobs, JobComplete(j) PROVE Next \/ UNCHANGED vars
    <3>1. CompleteV2FocusTransition(j.tid) => j.tid = focus.tid
      BY DEF CompleteV2FocusTransition, CompletesTransition
    <3> QED BY <2>1, <3>1 DEF JobComplete, Next, FocusStep
  <2> QED BY <1>6, <2>1 DEF JobStep, JobReset, JobResetFails, AdminComplete,
                            AdminResetFails, Next, AuthorizationStep
<1>7. CASE InputStep
  BY <1>7 DEF InputStep, InputClaim, InputHello, InputHelloFails, InputCheck, InputApply, InputLeave, InputReset,
              InputResetFails, InputRelease, Next, SidecarStep
<1>8. CASE HostMutation \/ AdminApply
  BY <1>8 DEF HostMutation, AdminApply, Next, AuthorizationStep
<1> QED BY <1>3, <1>4, <1>5, <1>6, <1>7, <1>8 DEF HostNext, hostVars

\* Whatever the control, forward, input and admin tasks do, and in whichever
\* order they run, they take the registry through its own steps: every theorem
\* about SessionRegistry is one about the host.
THEOREM HostRunsTheRegistry == HostSpec => Spec /\ []RegistryFacts
<1>1. HostInit => Init /\ RegistryFacts BY FactsInit DEF HostInit
<1>2. RegistryFacts /\ [HostNext]_hostVars => [Next]_vars /\ RegistryFacts'
  BY HostCalls, FactsStep
<1> QED BY <1>1, <1>2, PTL DEF HostSpec, Spec

-----------------------------------------------------------------------------
\* The tasks and their input streams.

\* An input stream is in one stage of its life, and its lease is alive in all.
StreamsInStage ==
  /\ opening \subseteq inputs /\ applying \subseteq inputs
  /\ draining \subseteq inputs /\ drained \subseteq inputs
  /\ opening \cap (applying \cup draining \cup drained) = {}
  /\ applying \cap draining = {} /\ applying \cap drained = {}
  /\ draining \cap drained = {}

JobTypes == [kind : {"control", "forward", "admin"}, session : Nat, tid : Nat,
             stage : {"reset", "complete"}]

TasksTyped ==
  /\ control \in [Sessions -> {"none", "claimed", "bound", "offered", "serving", "leaving", "left"}]
  /\ forward \subseteq Sessions
  /\ jobs \subseteq JobTypes
  /\ held \subseteq Nat

TasksInv == RegistryFacts /\ TasksTyped /\ StreamsInStage

\* The steps of the control, forward and admin tasks, which call the registry
\* and leave the device alone.
CallStep ==
  \/ \E p \in Peers : HostAdmission(p)
  \/ ControlStep \/ ForwardStep \/ HostMutation \/ AdminApply

LEMMA CallsLeaveStreams ==
  ASSUME CallStep
  PROVE  UNCHANGED <<inputs, opening, applying, draining, drained, held>>
BY DEF CallStep, inputVars, leaseVars, vars,
       HostAdmission, Authorize, CheckCommitted, ClaimV2Rejected, RedeemInvitation, ClaimV2,
       ControlStep, ControlBind, BindV2Generation, ControlOffer, ControlServe, RetireReplaced,
       ControlFail, ReleaseV2, ControlLeave, InvalidateV2Focus, ControlRelease,
       ForwardStep, ForwardCommand, FocusCommand, RequestFocus, FocusCommandRefused,
       ApproveFocus, DenyFocus, ReleaseFocus, PreemptFocus, FocusCommandApplied,
       ForwardTick, ExpireV2Focus, ForwardEnd, HostMutation, RevokeViewer,
       ReplaceViewerGrants, CommitMutation, ApplyMutationElsewhere,
       CompleteAuthorizationNeutralization, AdminApply, ApplyAuthorizationMutation

LEMMA JobsLeaveStreams ==
  ASSUME JobStep
  PROVE  /\ UNCHANGED <<inputs, opening, applying, draining, drained>>
         /\ \/ UNCHANGED held
            \/ \E j \in jobs : JobReset(j)
BY DEF JobStep, JobReset, JobComplete, CompleteV2FocusTransition, JobResetFails,
       AdminComplete, NeutralizeMutation, AdminResetFails, NeutralizeMutationFails,
       inputVars, leaseVars, vars

LEMMA InputsLeaveTasks == ASSUME InputStep PROVE UNCHANGED <<control, forward, jobs>>
BY DEF InputStep, InputClaim, InputHello, InputHelloFails, InputCheck, InputApply, InputLeave, InputReset,
       InputResetFails, InputRelease, taskVars

LEMMA StreamsStep ==
  ASSUME TypeOK, StreamsInStage, [HostNext]_hostVars
  PROVE  StreamsInStage'
<1>1. CASE UNCHANGED <<inputs, opening, applying, draining, drained>> BY <1>1 DEF StreamsInStage
<1>2. CASE InputStep
  <2>1. ASSUME NEW p \in InputPeers, InputClaim(p) PROVE StreamsInStage'
    <3>1. /\ inputs \subseteq inputs' /\ UNCHANGED <<applying, draining, drained>>
          /\ opening' = opening \cup (inputs' \ inputs)
      BY <2>1 DEF InputClaim, ClaimInputV2
    <3> QED BY <3>1 DEF StreamsInStage
  <2>2. ASSUME NEW i \in inputs, InputRelease(i) \/ InputHelloFails(i)
        PROVE  StreamsInStage'
    BY <2>2 DEF InputRelease, InputHelloFails, ReleaseInputV2, StreamsInStage
  <2>3. ASSUME NEW i \in inputs, NEW down \in BOOLEAN,
               \/ InputHello(i) \/ InputCheck(i) \/ InputLeave(i) \/ InputReset(i)
               \/ InputResetFails(i) \/ InputApply(i, down)
        PROVE  StreamsInStage'
    BY <2>3 DEF InputHello, InputCheck, InputLeave, InputReset, InputResetFails, InputApply, Streaming,
                OperationFree, StreamsInStage, vars, leaseVars
  <2> QED BY <1>2, <2>1, <2>2, <2>3 DEF InputStep
<1> QED BY <1>1, <1>2, CallsLeaveStreams, JobsLeaveStreams
        DEF HostNext, CallStep, hostVars, inputVars, vars, leaseVars

\* A job is added by the call that began or inherited its transition, or
\* moves on when its reset is done.
FreshJob(k) ==
  /\ k \in [kind : {"control", "forward", "admin"}, session : Nat, tid : Nat,
            stage : {"reset"}]
  /\ k.tid \leq focus'.nextTid
  /\ k.kind = "admin" =>
       /\ mutation.stage = "committed" /\ mutation'.stage = "neutralize"
       /\ k.tid = mutation'.tid
       /\ jobs' = jobs \cup {k}

LEMMA BegunJob ==
  ASSUME TypeOK', TransitionsIssued', NEW kind \in {"control", "forward"},
         NEW session \in Nat, JobIfBegun(kind, session), NEW k \in jobs' \ jobs
  PROVE  FreshJob(k)
<1>1. k = Job(kind, session, focus'.tid) BY DEF JobIfBegun
<1>2. focus'.tid \in Nat /\ focus'.tid \leq focus'.nextTid
  BY DEF TransitionsIssued, TypeOK, Arbiters
<1> QED BY <1>1, <1>2 DEF FreshJob, Job

LEMMA NewJobs ==
  ASSUME TypeOK, TypeOK', TransitionsIssued, TransitionsIssued',
         focus.nextTid \leq focus'.nextTid, forward \subseteq Sessions,
         [HostNext]_hostVars, NEW k \in jobs' \ jobs
  PROVE  FreshJob(k) \/ \E j \in jobs : JobReset(j) /\ k = [j EXCEPT !.stage = "complete"]
<1>1. \A l \in leases : l.session \in Nat /\ l.transition \in Nat
  BY DEF TypeOK
<1>2. ASSUME NEW l \in leases, NEW g \in Generations, ControlBind(l, g) PROVE FreshJob(k)
  <2>1. k = Job("control", l.session, l.transition) BY <1>2 DEF ControlBind
  <2>2. l.transition \leq focus'.nextTid
    <3>1. focus.nextTid \in Nat /\ focus'.nextTid \in Nat BY DEF TypeOK, Arbiters
    <3>2. l.transition \leq focus.nextTid BY DEF TransitionsIssued
    <3> QED BY <1>1, <3>1, <3>2
  <2> QED BY <1>1, <2>1, <2>2 DEF FreshJob, Job
<1>3. ASSUME NEW l \in leases, ControlLeave(l) PROVE FreshJob(k)
  BY <1>1, <1>3, BegunJob DEF ControlLeave
<1>4. ASSUME NEW l \in leases, ForwardCommand(l) PROVE FreshJob(k)
  BY <1>1, <1>4, BegunJob DEF ForwardCommand
<1>5. ASSUME NEW s \in forward, ForwardTick(s) PROVE FreshJob(k)
  <2>1. s \in Nat BY RegistryAssumption DEF Sessions
  <2> QED BY <1>5, <2>1, BegunJob DEF ForwardTick
<1>6. ASSUME AdminApply PROVE FreshJob(k)
  <2>1. /\ mutation'.stage = "neutralize" /\ k = Job("admin", 0, mutation'.tid)
        /\ jobs' = jobs \cup {k}
    BY <1>6 DEF AdminApply
  <2>2. mutation'.tid \in Nat /\ mutation'.tid \leq focus'.nextTid
    BY DEF TransitionsIssued, TypeOK, Mutations, NoMutation
  <2> QED BY <1>6, <2>1, <2>2 DEF FreshJob, Job, AdminApply, ApplyAuthorizationMutation
<1>7. ASSUME NEW j \in jobs, JobReset(j) PROVE k = [j EXCEPT !.stage = "complete"]
  BY <1>7 DEF JobReset
<1> QED BY <1>2, <1>3, <1>4, <1>5, <1>6, <1>7, InputsLeaveTasks
        DEF HostNext, hostVars, taskVars, HostAdmission, ControlStep, ControlOffer, ControlServe,
            ControlFail, ControlRelease, ForwardStep, ForwardEnd, JobStep, JobComplete,
            JobResetFails, AdminComplete, AdminResetFails, HostMutation

LEMMA TasksTypedStep ==
  ASSUME RegistryFacts, RegistryFacts', focus.nextTid \leq focus'.nextTid,
         TasksTyped, StreamsInStage, [HostNext]_hostVars
  PROVE  TasksTyped'
<1> DEFINE Stages == {"none", "claimed", "bound", "offered", "serving", "leaving", "left"}
<1>1. TypeOK /\ TypeOK' /\ TransitionsIssued /\ TransitionsIssued'
  BY DEF RegistryFacts, RegistryInv
<1>2. \A l \in leases : l.session \in Sessions
  <2>1. /\ \A l \in leases : l.session \in Nat \ {0} /\ l.session \leq nextSession
        /\ nextSession \in Nat /\ nextSession \leq MaxSession
    BY <1>1 DEF RegistryFacts, RegistryInv, LeasesCounted, SessionsBounded, TypeOK
  <2> QED BY <2>1, RegistryAssumption DEF Sessions
<1>3. \/ UNCHANGED control
      \/ \E s, x : x \in Stages /\ control' = [control EXCEPT ![s] = x]
  BY InputsLeaveTasks
  DEF HostNext, hostVars, taskVars, HostAdmission, ControlStep, ControlBind, ControlOffer, ControlServe,
      ControlFail, ControlLeave, ControlRelease, ForwardStep, ForwardCommand, ForwardTick,
      ForwardEnd, JobStep, JobReset, JobComplete, JobResetFails, AdminComplete,
      AdminResetFails, HostMutation, AdminApply
<1>4. control' \in [Sessions -> Stages] BY <1>3 DEF TasksTyped
<1>5. forward' \subseteq Sessions
  <2>1. \/ forward' \subseteq forward
        \/ \E l \in leases : forward' = forward \cup {l.session}
    BY InputsLeaveTasks
    DEF HostNext, hostVars, taskVars, HostAdmission, ControlStep, ControlBind, ControlOffer, ControlServe,
        ControlFail, ControlLeave, ControlRelease, ForwardStep, ForwardCommand, ForwardTick,
        ForwardEnd, JobStep, JobReset, JobComplete, JobResetFails, AdminComplete,
        AdminResetFails, HostMutation, AdminApply
  <2> QED BY <1>2, <2>1 DEF TasksTyped
<1>6. jobs' \subseteq JobTypes
  <2> SUFFICES ASSUME NEW k \in jobs' \ jobs PROVE k \in JobTypes
    BY DEF TasksTyped
  <2>1. FreshJob(k) => k \in JobTypes BY DEF FreshJob, JobTypes
  <2>2. \A j \in jobs : [j EXCEPT !.stage = "complete"] \in JobTypes
    BY DEF TasksTyped, JobTypes
  <2> QED BY <1>1, <2>1, <2>2, NewJobs DEF TasksTyped
<1>7. held' \subseteq Nat
  <2>1. \A i \in inputs : i.gen \in Nat BY <1>1 DEF TypeOK
  <2>2. CASE InputStep
    <3>1. ASSUME NEW i \in inputs, NEW down \in BOOLEAN, InputApply(i, down)
          PROVE  held' \subseteq Nat
      BY <2>1, <3>1 DEF InputApply, TasksTyped
    <3>2. ASSUME NEW i \in inputs, InputReset(i) PROVE held' \subseteq Nat
      BY <3>2 DEF InputReset
    <3>3. ASSUME UNCHANGED held PROVE held' \subseteq Nat BY <3>3 DEF TasksTyped
    <3> QED BY <2>2, <3>1, <3>2, <3>3
            DEF InputStep, InputClaim, InputHello, InputHelloFails, InputCheck, InputLeave, InputResetFails,
                InputRelease, inputVars
  <2>3. CASE UNCHANGED held BY <2>3 DEF TasksTyped
  <2>4. ASSUME NEW j \in jobs, JobReset(j) PROVE held' \subseteq Nat BY <2>4 DEF JobReset
  <2> QED BY <2>2, <2>3, <2>4, CallsLeaveStreams, JobsLeaveStreams
          DEF HostNext, CallStep, hostVars, inputVars
<1> QED BY <1>4, <1>5, <1>6, <1>7 DEF TasksTyped

LEMMA TasksInit == HostInit => TasksInv
BY FactsInit DEF HostInit, TasksInv, TasksTyped, StreamsInStage

LEMMA TasksStep ==
  ASSUME TasksInv, [HostNext]_hostVars
  PROVE  TasksInv' /\ [Next]_vars /\ focus.nextTid \leq focus'.nextTid
<1>1. RegistryFacts /\ TypeOK BY DEF TasksInv, RegistryFacts, RegistryInv
<1>2. [Next]_vars BY <1>1, HostCalls
<1>3. RegistryFacts' BY <1>1, <1>2, FactsStep
<1>4. TypeOK' BY <1>3 DEF RegistryFacts, RegistryInv
<1>5. focus.nextTid \leq focus'.nextTid BY <1>1, <1>2, <1>4, TransitionsStep DEF RegistryFacts
<1> QED BY <1>1, <1>2, <1>3, <1>5, StreamsStep, TasksTypedStep DEF TasksInv

\* Sessions, jobs and streams keep their types, and a stream that is being
\* applied, drained or released still has its lease, in one stage of its life.
THEOREM HostInvariant == HostSpec => []TasksInv
<1>1. TasksInv /\ [HostNext]_hostVars => TasksInv' BY TasksStep
<1> QED BY <1>1, TasksInit, PTL DEF HostSpec

THEOREM HostTypes == HostSpec => []HostTypeOK
<1>1. TasksInv => HostTypeOK
  BY DEF TasksInv, RegistryFacts, RegistryInv, TasksTyped, JobTypes, StreamsInStage, HostTypeOK
<1> QED BY <1>1, HostInvariant, PTL

-----------------------------------------------------------------------------
\* The handoff of the device.  A transition ends in one of three ways: its own
\* task completes it, the admin task does, or the former holder's input stream
\* gives its lease back.  Each of them has reset the device since the
\* transition began, and whoever else injects is fenced off by then.

Quiet == held = {} /\ applying = {}

\* The keys that are down, and the event on its way to the device, are those of
\* the generation that holds the slot or is being neutralized.
KeysCurrent ==
  /\ held \subseteq {focus.gen}
  /\ \A i \in applying : i.gen = focus.gen /\ i.session = focus.who.session
  /\ focus.phase = "vacant" => Quiet

JobsBegun == \A j \in jobs : j.tid \leq focus.nextTid

TransitionsReset ==
  \A j \in jobs : j.stage = "complete" /\ CompletesTransition(focus, j.tid) => Quiet

\* The admin task completes the transition of the request it serves.
AdminServes ==
  /\ \A j \in jobs : j.kind = "admin" =>
       mutation.stage = "neutralize" /\ j.tid = mutation.tid
  /\ \A j, k \in jobs : j.kind = "admin" /\ k.kind = "admin" => j = k

\* The streams that can inject, and reset the device before their lease goes.
Guarded == inputs \ (opening \cup drained)

\* Keys are down, or about to go down, only while the session in the slot has such
\* a stream; a session has one stream, so a lease that is dropped by another,
\* after its reset or before its hello, finds the device at rest.
KeysGuarded == Quiet \/ \E i \in Guarded : i.session = focus.who.session

GenerationsPositive == focus.phase = "vacant" \/ focus.gen # 0

HandoffInv ==
  /\ KeysCurrent /\ JobsBegun /\ TransitionsReset /\ AdminServes /\ KeysGuarded
  /\ GenerationsPositive

\* No call but a completion ends a transition.
LEMMA InvalidationKeeps ==
  ASSUME NEW f \in Arbiters, NEW c \in Candidates, IsNeutralizing(f)
  PROVE  /\ IsNeutralizing(TrackCommand(f, c))
         /\ IsNeutralizing(RetireCandidate(f, c))
         /\ IsNeutralizing(BeginInvalidation(f, c))
         /\ IsNeutralizing(RetireCandidate(BeginInvalidation(f, c), c))
<1>1. ClearProposal(f) \in Arbiters /\ IsNeutralizing(ClearProposal(f))
  BY NoneTypes, ArbiterOperators, BookkeepingHolds DEF SameHold, SameSlot, IsNeutralizing
<1>2. BeginInvalidation(f, c) \in {f, ClearProposal(f)}
  BY DEF BeginInvalidation, HeldBy, IsHeld, IsNeutralizing
<1> QED BY <1>1, <1>2, BookkeepingHolds DEF SameHold, SameSlot, IsNeutralizing

LEMMA CommandKeeps ==
  ASSUME TypeOK, IsNeutralizing(focus), NEW l \in leases, FocusCommand(l)
  PROVE  IsNeutralizing(focus')
<1> DEFINE c == Candidate(viewers[l.peer])
<1>1. focus \in Arbiters /\ c \in Candidates
  <2>1. l.peer \in Peers BY DEF TypeOK
  <2> QED BY <2>1, CandidateType DEF TypeOK
<1>2. ~IsHeld(focus) /\ focus.phase # "vacant" BY DEF IsNeutralizing, IsHeld
<1>3. ClearProposal(focus).phase = focus.phase BY <1>1, ClearedFields
<1>4. ASSUME NEW due \in BOOLEAN PROVE ~RequestFocus(l, due)
  BY <1>2, <1>3 DEF RequestFocus, RequestOK, IsHeld
<1>5. ~ApproveFocus(l) /\ ~DenyFocus(l) /\ ~ReleaseFocus(l) /\ ~PreemptFocus(l)
  BY <1>2 DEF ApproveFocus, DenyFocus, ReleaseFocus, PreemptFocus, ApproveOK, PreemptOK,
              EnsureHolder, HeldBy
<1>6. PICK due \in BOOLEAN : FocusCommandRefused(l, due)
  BY <1>4, <1>5 DEF FocusCommand
<1>7. focus' = TrackCommand(focus, c) BY <1>2, <1>6 DEF FocusCommandRefused, HeldBy
<1> QED BY <1>1, <1>7, InvalidationKeeps

LEMMA CallKeeps ==
  ASSUME TypeOK, IsNeutralizing(focus), CallStep
  PROVE  IsNeutralizing(focus')
<1>1. focus \in Arbiters BY DEF TypeOK
<1>2. ~IsHeld(focus) BY DEF IsNeutralizing, IsHeld
<1>3. ASSUME UNCHANGED focus PROVE IsNeutralizing(focus') BY <1>3
<1>4. ASSUME NEW p \in Peers, ClaimV2(p) PROVE IsNeutralizing(focus')
  <2>1. Candidate(viewers[p]) \in Candidates BY CandidateType
  <2> QED BY <1>1, <1>4, <2>1, InvalidationKeeps DEF ClaimV2, AdmittedFocus
<1>5. ASSUME NEW l \in leases, ReleaseV2(l) PROVE IsNeutralizing(focus')
  <2>1. l.peer \in Peers BY DEF TypeOK
  <2>2. Candidate(viewers[l.peer]) \in Candidates BY <2>1, CandidateType
  <2> QED BY <1>1, <1>3, <1>5, <2>2, InvalidationKeeps DEF ReleaseV2
<1>6. ASSUME NEW l \in leases, InvalidateV2Focus(l.peer, l.session)
      PROVE  IsNeutralizing(focus')
  <2>1. l.peer \in Peers BY DEF TypeOK
  <2>2. Candidate(viewers[l.peer]) \in Candidates BY <2>1, CandidateType
  <2> QED BY <1>1, <1>6, <2>2, InvalidationKeeps DEF InvalidateV2Focus
<1>7. ASSUME ExpireV2Focus PROVE IsNeutralizing(focus')
  <2>1. focus' = ClearProposal(focus)
    BY <1>2, <1>7 DEF ExpireV2Focus, ActivationExpiryOK, EnsureHolder, HeldBy
  <2> QED BY <1>1, <2>1, ClearedFields DEF IsNeutralizing
<1>8. ASSUME ApplyAuthorizationMutation PROVE IsNeutralizing(focus')
  <2> DEFINE c == Candidate(viewers[mutation.peer])
             f == IF mutation.revoked \/ InputReduced(mutation)
                  THEN BeginInvalidation(focus, c) ELSE focus
  <2>1. c \in Candidates
    <3>1. mutation.peer \in Peers
      BY <1>8, ServedMutation DEF ApplyAuthorizationMutation, Mutations
    <3> QED BY <3>1, CandidateType
  <2>2. focus' = IF mutation.revoked THEN RetireCandidate(f, c) ELSE f
    BY <1>8 DEF ApplyAuthorizationMutation
  <2> HIDE DEF c
  <2> QED BY <1>1, <2>1, <2>2, InvalidationKeeps
<1>9. CASE \E p \in Peers : HostAdmission(p)
  BY <1>3, <1>4, <1>9 DEF HostAdmission, Authorize, CheckCommitted, ClaimV2Rejected,
                          RedeemInvitation, v2Vars
<1>10. CASE ControlStep
  BY <1>3, <1>5, <1>6, <1>10
  DEF ControlStep, ControlBind, BindV2Generation, ControlOffer, ControlServe, RetireReplaced, ControlFail,
      ControlLeave, ControlRelease, v2Vars, vars
<1>11. CASE ForwardStep
  BY <1>3, <1>7, <1>11, CommandKeeps
  DEF ForwardStep, ForwardCommand, ForwardTick, ForwardEnd, v2Vars, vars
<1>12. CASE HostMutation \/ AdminApply
  BY <1>3, <1>8, <1>12
  DEF HostMutation, RevokeViewer, ReplaceViewerGrants, CommitMutation, ApplyMutationElsewhere,
      CompleteAuthorizationNeutralization, AdminApply, v2Vars
<1> QED BY <1>9, <1>10, <1>11, <1>12 DEF CallStep

LEMMA InputStreamLeavesSlot ==
  ASSUME IsNeutralizing(focus), InputStep
  PROVE  \/ UNCHANGED focus
         \/ \E i \in inputs \ Guarded : focus.who.session = i.session
<1>1. ASSUME NEW p \in InputPeers PROVE ~ClaimInputV2(p)
  BY DEF ClaimInputV2, IsFocusOwner, EnsureHolder, HeldBy, IsHeld, IsNeutralizing
<1> QED BY <1>1 DEF InputStep, InputClaim, InputHello, InputHelloFails, InputCheck, InputApply, InputLeave, InputReset,
                    InputResetFails, InputRelease, ReleaseInputV2, Guarded, vars, v2Vars

\* Whoever ends a transition finds the device at rest.
LEMMA EndsQuiet ==
  ASSUME TypeOK, SidecarInv, HandoffInv, [HostNext]_hostVars, IsNeutralizing(focus),
         ~IsNeutralizing(focus')
  PROVE  Quiet
<1>1. focus' # focus OBVIOUS
<1>2. ~CallStep BY CallKeeps
<1>3. CASE JobStep
  <2>1. ASSUME NEW j \in jobs, JobComplete(j) PROVE Quiet
    <3>1. CompletesTransition(focus, j.tid) /\ j.stage = "complete"
      BY <1>1, <2>1 DEF JobComplete, CompleteV2FocusTransition, vars, v2Vars
    <3> QED BY <3>1 DEF HandoffInv, TransitionsReset
  <2>2. ASSUME NEW j \in jobs, AdminComplete(j) PROVE Quiet
    <3>1. j.stage = "complete" /\ j.tid = mutation.tid
      BY <2>2 DEF AdminComplete, HandoffInv, AdminServes
    <3>2. CompletesTransition(focus, j.tid)
      BY <1>1, <2>2, <3>1 DEF AdminComplete, NeutralizeMutation, CompleteFocus,
                              CompleteTransition
    <3> QED BY <3>1, <3>2 DEF HandoffInv, TransitionsReset
  <2> QED BY <1>1, <1>3, <2>1, <2>2
          DEF JobStep, JobReset, JobResetFails, AdminResetFails, NeutralizeMutationFails,
              vars, v2Vars
<1>4. CASE InputStep
  <2>1. PICK i \in inputs \ Guarded : focus.who.session = i.session
    BY <1>1, <1>4, InputStreamLeavesSlot
  <2>2. \A j \in Guarded : j.session # i.session
    BY <2>1 DEF SidecarInv, Matches, Guarded
  <2> QED BY <2>1, <2>2 DEF HandoffInv, KeysGuarded
<1> QED BY <1>1, <1>2, <1>3, <1>4 DEF HostNext, CallStep, hostVars, vars, v2Vars

\* A step either leaves the device and the streams at it alone, or it leaves
\* the registry alone.
LEMMA DeviceOrSlot ==
  ASSUME [HostNext]_hostVars
  PROVE  \/ UNCHANGED <<applying, held>> /\ Guarded \subseteq Guarded'
         \/ UNCHANGED focus /\ (InputStep \/ \E j \in jobs : JobReset(j))
<1>1. ASSUME InputStep
      PROVE  \/ UNCHANGED <<applying, held>> /\ Guarded \subseteq Guarded'
             \/ UNCHANGED focus
  BY <1>1 DEF InputStep, InputClaim, InputHello, InputHelloFails, InputCheck, InputApply, InputLeave, InputReset,
              InputResetFails, InputRelease, ReleaseInputV2, ClaimInputV2, Guarded,
              inputVars, vars, leaseVars, v2Vars
<1>2. \A j \in jobs : JobReset(j) => UNCHANGED focus BY DEF JobReset, vars, v2Vars
<1> QED BY <1>1, <1>2, CallsLeaveStreams, JobsLeaveStreams
        DEF HostNext, CallStep, hostVars, inputVars, vars, leaseVars, Guarded

\* The registry's step, seen from the device.
LEMMA SlotStepKeeps ==
  ASSUME TypeOK, TypeOK', SidecarInv, HandoffInv, [HostNext]_hostVars,
         SlotMove(focus, focus'),
         UNCHANGED <<applying, held>>, Guarded \subseteq Guarded'
  PROVE  KeysCurrent' /\ KeysGuarded'
<1>1. Quiet' <=> Quiet BY DEF Quiet
<1>2. focus.phase \in {"vacant", "held", "neutralizing"} BY DEF TypeOK, Arbiters
<1>3. ASSUME Quiet PROVE KeysCurrent' /\ KeysGuarded'
  BY <1>1, <1>3 DEF Quiet, KeysCurrent, KeysGuarded
<1>4. ASSUME ~Quiet
      PROVE  focus'.phase # "vacant" /\ focus'.gen = focus.gen /\ focus'.who = focus.who
  <2>1. focus.phase # "vacant" BY <1>4 DEF HandoffInv, KeysCurrent
  <2>2. IsNeutralizing(focus) => IsNeutralizing(focus') BY <1>4, EndsQuiet
  <2> QED BY <1>2, <2>1, <2>2 DEF SlotMove, SameHold, SameSlot, IsHeld, IsNeutralizing
<1>5. ASSUME ~Quiet PROVE KeysCurrent' /\ KeysGuarded'
  BY <1>1, <1>4, <1>5 DEF HandoffInv, KeysCurrent, KeysGuarded
<1> QED BY <1>3, <1>5

\* The device's step, seen from the registry.
LEMMA DeviceStepKeeps ==
  ASSUME TypeOK, SidecarInv, StreamsInStage, HandoffInv, ~ResetCanFail, UNCHANGED focus,
         InputStep \/ \E j \in jobs : JobReset(j)
  PROVE  KeysCurrent' /\ KeysGuarded' /\ (Quiet => Quiet' \/ IsHeld(focus))
<1>1. KeysCurrent /\ KeysGuarded BY DEF HandoffInv
<1>2. ASSUME Quiet' PROVE KeysCurrent' /\ KeysGuarded' /\ (Quiet => Quiet' \/ IsHeld(focus))
  BY <1>2 DEF Quiet, KeysCurrent, KeysGuarded
<1>3. ASSUME UNCHANGED <<applying, held>>, Guarded \subseteq Guarded'
      PROVE  KeysCurrent' /\ KeysGuarded' /\ (Quiet => Quiet' \/ IsHeld(focus))
  BY <1>1, <1>3 DEF KeysCurrent, KeysGuarded, Quiet
<1>4. ASSUME NEW j \in jobs, JobReset(j) PROVE Quiet'
  BY <1>4 DEF JobReset, OperationFree, Quiet
<1>5. ASSUME NEW i \in inputs, InputReset(i) PROVE Quiet'
  BY <1>5 DEF InputReset, OperationFree, Quiet
<1>6. ASSUME NEW i \in inputs, InputCheck(i)
      PROVE  KeysCurrent' /\ KeysGuarded' /\ (Quiet => Quiet' \/ IsHeld(focus))
  <2>1. /\ IsHeld(focus) /\ focus.gen = i.gen /\ focus.who.session = i.session
        /\ applying' = {i} /\ i \in Guarded /\ UNCHANGED <<held, inputs, opening, drained>>
    BY <1>6 DEF InputCheck, IsFocusOwner, EnsureHolder, HeldBy, IsViewer, Candidate, Streaming,
                Guarded, vars, leaseVars
  <2>2. Guarded' = Guarded BY <2>1 DEF Guarded
  <2>3. KeysCurrent' BY <1>1, <2>1 DEF KeysCurrent, IsHeld
  <2> QED BY <2>1, <2>2, <2>3 DEF KeysGuarded
<1>7. ASSUME NEW i \in inputs, NEW down \in BOOLEAN, InputApply(i, down)
      PROVE  KeysCurrent' /\ KeysGuarded' /\ (Quiet => Quiet' \/ IsHeld(focus))
  <2>1. i \in applying /\ i.gen = focus.gen /\ ~Quiet
    BY <1>1, <1>7 DEF InputApply, KeysCurrent, Quiet
  <2>2. /\ applying' = {} /\ UNCHANGED <<inputs, opening, drained>>
        /\ held' \subseteq held \cup {i.gen}
    BY <1>7 DEF InputApply, vars, leaseVars
  <2>3. KeysCurrent' BY <1>1, <2>1, <2>2 DEF KeysCurrent
  <2>4. KeysGuarded' BY <1>1, <2>1, <2>2 DEF KeysGuarded, Guarded
  <2> QED BY <2>1, <2>3, <2>4
<1>8. ASSUME NEW i \in inputs PROVE ~InputResetFails(i) BY DEF InputResetFails
<1>9. CASE InputStep
  BY <1>2, <1>3, <1>5, <1>6, <1>7, <1>8, <1>9
  DEF InputStep, InputClaim, InputHello, InputHelloFails, InputLeave, InputRelease,
      ClaimInputV2, ReleaseInputV2, Guarded, inputVars, vars, leaseVars
<1> QED BY <1>2, <1>4, <1>9

LEMMA DeviceKeeps ==
  ASSUME TasksInv, TypeOK', HandoffInv, ~ResetCanFail, [HostNext]_hostVars,
         SlotMove(focus, focus')
  PROVE  KeysCurrent' /\ KeysGuarded'
<1>1. TypeOK /\ SidecarInv /\ StreamsInStage BY DEF TasksInv, RegistryFacts, RegistryInv
<1> QED BY <1>1, DeviceOrSlot, SlotStepKeeps, DeviceStepKeeps

\* A transition that a task has reset for stays reset for: no key goes down
\* while the slot is neutralizing, and a later transition has a later number.
LEMMA ResetStays ==
  ASSUME TasksInv, TypeOK', HandoffInv, ~ResetCanFail, [HostNext]_hostVars,
         SlotMove(focus, focus'), NEW j \in jobs, j.stage = "complete",
         CompletesTransition(focus', j.tid)
  PROVE  Quiet'
<1>1. TypeOK /\ SidecarInv /\ StreamsInStage BY DEF TasksInv, RegistryFacts, RegistryInv
<1>2. j.tid \leq focus.nextTid /\ j.tid \in Nat /\ focus.nextTid \in Nat
  BY <1>1 DEF HandoffInv, JobsBegun, TasksInv, TasksTyped, JobTypes, TypeOK, Arbiters
<1>3. CompletesTransition(focus, j.tid)
  BY <1>2 DEF SlotMove, SameHold, SameSlot, CompletesTransition, IsHeld, IsNeutralizing
<1>4. Quiet BY <1>3 DEF HandoffInv, TransitionsReset
<1>5. ~IsHeld(focus) BY <1>3 DEF CompletesTransition, IsHeld, IsNeutralizing
<1>6. CASE UNCHANGED <<applying, held>> BY <1>4, <1>6 DEF Quiet
<1> QED BY <1>1, <1>4, <1>5, <1>6, DeviceOrSlot, DeviceStepKeeps

LEMMA JobsKeep ==
  ASSUME TasksInv, RegistryFacts', HandoffInv, ~ResetCanFail, [HostNext]_hostVars,
         SlotMove(focus, focus'), focus.nextTid \leq focus'.nextTid
  PROVE  JobsBegun' /\ TransitionsReset'
<1>1. TypeOK /\ TypeOK' /\ TransitionsIssued /\ TransitionsIssued' /\ forward \subseteq Sessions
  BY DEF TasksInv, TasksTyped, RegistryFacts, RegistryInv
<1>2. focus.nextTid \in Nat /\ focus'.nextTid \in Nat BY <1>1 DEF TypeOK, Arbiters
<1>3. \A j \in jobs : j \in JobTypes /\ j.tid \in Nat /\ j.tid \leq focus.nextTid
  BY DEF TasksInv, TasksTyped, JobTypes, HandoffInv, JobsBegun
<1>4. \A j \in jobs : [j EXCEPT !.stage = "complete"].tid = j.tid BY <1>3 DEF JobTypes
<1>5. ASSUME NEW k \in jobs' PROVE k.tid \leq focus'.nextTid
  <2>1. CASE k \in jobs BY <1>2, <1>3, <2>1
  <2>2. CASE k \notin jobs
    <3>1. CASE FreshJob(k) BY <3>1 DEF FreshJob
    <3>2. ASSUME NEW j \in jobs, k = [j EXCEPT !.stage = "complete"]
          PROVE  k.tid \leq focus'.nextTid
      BY <1>2, <1>3, <1>4, <3>2
    <3> QED BY <1>1, <2>2, <3>1, <3>2, NewJobs
  <2> QED BY <2>1, <2>2
<1>6. ASSUME NEW k \in jobs', k.stage = "complete", CompletesTransition(focus', k.tid)
      PROVE  Quiet'
  <2>1. CASE k \in jobs BY <1>1, <1>6, <2>1, ResetStays
  <2>2. CASE k \notin jobs
    <3>1. ~FreshJob(k) BY <1>6 DEF FreshJob
    <3>2. PICK j \in jobs : JobReset(j) BY <1>1, <2>2, <3>1, NewJobs
    <3> QED BY <3>2 DEF JobReset, OperationFree, Quiet
  <2> QED BY <2>1, <2>2
<1> QED BY <1>5, <1>6 DEF JobsBegun, TransitionsReset

\* The request being served is the admin task's while its job is not done.
LEMMA RequestKept ==
  ASSUME [HostNext]_hostVars, mutation.stage = "neutralize"
  PROVE  \/ UNCHANGED mutation /\ ~AdminApply
         \/ \E j \in jobs : j.kind = "admin" /\ jobs' = jobs \ {j}
BY DEF HostNext, hostVars, vars, authVars, HostAdmission, Authorize, CheckCommitted,
       ClaimV2Rejected, RedeemInvitation, ClaimV2, ControlStep, ControlBind,
       BindV2Generation, ControlOffer, ControlServe, RetireReplaced, ControlFail, ReleaseV2,
       ControlLeave, InvalidateV2Focus, ControlRelease, ForwardStep, ForwardCommand,
       FocusCommand, RequestFocus, FocusCommandRefused, ApproveFocus, DenyFocus,
       ReleaseFocus, PreemptFocus, FocusCommandApplied, ForwardTick, ExpireV2Focus,
       ForwardEnd, JobStep, JobReset, JobComplete, CompleteV2FocusTransition,
       JobResetFails, AdminComplete, AdminResetFails, InputStep, InputClaim,
       ClaimInputV2, InputHello, InputHelloFails, InputCheck, InputApply, InputLeave, InputReset, InputResetFails,
       InputRelease, ReleaseInputV2, HostMutation, RevokeViewer, ReplaceViewerGrants,
       CommitMutation, ApplyMutationElsewhere, CompleteAuthorizationNeutralization,
       AdminApply, ApplyAuthorizationMutation

LEMMA AdminKeeps ==
  ASSUME TasksInv, RegistryFacts', HandoffInv, focus.nextTid \leq focus'.nextTid,
         [HostNext]_hostVars
  PROVE  AdminServes'
<1>1. TypeOK /\ TypeOK' /\ TransitionsIssued /\ TransitionsIssued' /\ forward \subseteq Sessions
  BY DEF TasksInv, TasksTyped, RegistryFacts, RegistryInv
<1>2. AdminServes BY DEF HandoffInv
<1>3. CASE mutation.stage # "neutralize"
  <2>1. \A j \in jobs : j.kind # "admin" BY <1>2, <1>3 DEF AdminServes
  <2>2. \A j \in jobs : [j EXCEPT !.stage = "complete"].kind = j.kind
    BY DEF TasksInv, TasksTyped, JobTypes
  <2>3. ASSUME NEW k \in jobs', k.kind = "admin" PROVE FreshJob(k)
    <3>1. k \in jobs' \ jobs BY <2>1, <2>3
    <3>2. SUFFICES ASSUME ~FreshJob(k) PROVE FALSE
      OBVIOUS
    <3>3. PICK j \in jobs : k = [j EXCEPT !.stage = "complete"]
      BY <1>1, <3>1, <3>2, NewJobs
    <3>4. k.kind = j.kind BY <2>2, <3>3
    <3> QED BY <2>1, <2>3, <3>4
  <2>4. \A k \in jobs' : k.kind = "admin" =>
          mutation'.stage = "neutralize" /\ k.tid = mutation'.tid /\ jobs' = jobs \cup {k}
    BY <2>3 DEF FreshJob
  <2>5. \A j, k \in jobs' : j.kind = "admin" /\ k.kind = "admin" => j = k
    BY <2>1, <2>4
  <2> QED BY <2>4, <2>5 DEF AdminServes
<1>4. ASSUME NEW i \in jobs, i.kind = "admin", jobs' = jobs \ {i} PROVE AdminServes'
  BY <1>2, <1>4 DEF AdminServes
<1>5. CASE mutation.stage = "neutralize" /\ UNCHANGED mutation
  <2>1. \A k \in jobs' \ jobs : k.kind = "admin" =>
          \E j \in jobs : JobReset(j) /\ k = [j EXCEPT !.stage = "complete"]
    BY <1>1, <1>5, NewJobs DEF FreshJob
  <2>2. \A j \in jobs : /\ [j EXCEPT !.stage = "complete"].kind = j.kind
                        /\ [j EXCEPT !.stage = "complete"].tid = j.tid
    BY DEF TasksInv, TasksTyped, JobTypes
  <2>3. CASE \A k \in jobs' \ jobs : k.kind # "admin"
    BY <1>2, <1>5, <2>3 DEF AdminServes
  <2>4. ASSUME NEW k \in jobs' \ jobs, k.kind = "admin" PROVE AdminServes'
    <3>1. PICK j \in jobs : JobReset(j) /\ k = [j EXCEPT !.stage = "complete"]
      BY <2>1, <2>4
    <3>2. j.kind = "admin" /\ k.tid = j.tid BY <2>2, <2>4, <3>1
    <3>3. jobs' = (jobs \ {j}) \cup {k} BY <3>1 DEF JobReset
    <3> HIDE DEF AdminServes
    <3>4. \A i \in jobs' : i.kind = "admin" => i = k
      BY <1>2, <3>2, <3>3 DEF AdminServes
    <3>5. mutation'.stage = "neutralize" /\ k.tid = mutation'.tid
      BY <1>2, <1>5, <3>2 DEF AdminServes
    <3> QED BY <3>4, <3>5 DEF AdminServes
  <2> QED BY <2>3, <2>4
<1> QED BY <1>3, <1>4, <1>5, RequestKept

LEMMA HandoffInit == HostInit => HandoffInv
BY DEF HostInit, Init, NewArbiter, HandoffInv, KeysCurrent, Quiet, JobsBegun,
       TransitionsReset, AdminServes, KeysGuarded, GenerationsPositive

LEMMA HandoffStep ==
  ASSUME TasksInv, HandoffInv, ~ResetCanFail, [HostNext]_hostVars
  PROVE  HandoffInv'
<1>1. TasksInv' /\ [Next]_vars /\ focus.nextTid \leq focus'.nextTid BY TasksStep
<1>2. RegistryFacts' BY <1>1 DEF TasksInv
<1>3. TypeOK /\ TypeOK' BY <1>2 DEF TasksInv, RegistryFacts, RegistryInv
<1>4. SlotMove(focus, focus') BY <1>1, <1>3, StepMoves
<1>5. GenerationsPositive'
  <2>1. focus.nextGen \in Nat /\ focus.phase \in {"vacant", "held", "neutralizing"}
    BY <1>3 DEF TypeOK, Arbiters
  <2>2. focus.phase = "vacant" \/ focus.gen # 0 BY DEF HandoffInv, GenerationsPositive
  <2> QED BY <1>4, <2>1, <2>2
          DEF SlotMove, SameHold, SameSlot, IsHeld, IsNeutralizing, GenerationsPositive
<1>6. KeysCurrent' /\ KeysGuarded' BY <1>3, <1>4, DeviceKeeps
<1>7. JobsBegun' /\ TransitionsReset' BY <1>1, <1>2, <1>4, JobsKeep
<1>8. AdminServes' BY <1>1, <1>2, AdminKeeps
<1> QED BY <1>5, <1>6, <1>7, <1>8 DEF HandoffInv

\* Where resets work, the slot is handed over with the device at rest, however
\* the completions of a transition race each other and the events on their way
\* to the device.
THEOREM HandoffInvariant ==
  ASSUME ~ResetCanFail PROVE HostSpec => [](TasksInv /\ HandoffInv)
<1>1. HostInit => TasksInv /\ HandoffInv BY TasksInit, HandoffInit
<1>2. TasksInv /\ HandoffInv /\ [HostNext]_hostVars => (TasksInv /\ HandoffInv)'
  BY TasksStep, HandoffStep
<1> QED BY <1>1, <1>2, PTL DEF HostSpec

\* No successor holds the slot, and nobody may be granted it, while keys of an
\* earlier holder are down.  A reset that fails can break it: the stream that
\* failed to reset still completes the transition when it drops its lease.
THEOREM DeviceNeutralBeforeSuccessor ==
  ASSUME ~ResetCanFail PROVE HostSpec => []NeutralBeforeSuccessor
<1>1. HandoffInv => NeutralBeforeSuccessor
  BY DEF HandoffInv, KeysCurrent, Quiet, NeutralBeforeSuccessor
<1> QED BY <1>1, HandoffInvariant, PTL

-----------------------------------------------------------------------------
\* The host implements FocusSlot.

\* A step that touches only keys, or nothing, leaves the slot as it is; a move
\* of the slot leaves the keys as they are.
LEMMA SlotRefines ==
  ASSUME TasksInv, HandoffInv, TypeOK', HandoffInv', SlotMove(focus, focus'),
         [HostNext]_hostVars
  PROVE  [Slot!Next]_(Slot!slotVars)
<1>1. focus.nextGen \in Nat /\ focus'.phase \in {"vacant", "held", "neutralizing"}
      /\ focus.phase \in {"vacant", "held", "neutralizing"}
  BY DEF TasksInv, RegistryFacts, RegistryInv, TypeOK, Arbiters
<1>2. /\ focus.phase = "vacant" => held = {}
      /\ focus.phase = "vacant" \/ focus.gen # 0
      /\ held' \subseteq {focus'.gen} /\ (focus'.phase = "vacant" => held' = {})
      /\ focus'.phase = "vacant" \/ focus'.gen # 0
  BY DEF HandoffInv, KeysCurrent, Quiet, GenerationsPositive
<1>3. TypeOK /\ SidecarInv BY DEF TasksInv, RegistryFacts, RegistryInv
<1>4. IsNeutralizing(focus) /\ ~IsNeutralizing(focus') => held = {}
  BY <1>3, EndsQuiet DEF Quiet
<1>5. UNCHANGED held \/ UNCHANGED focus BY DeviceOrSlot
<1>6. CASE SameSlot(focus, focus')
  <2>1. Slot!Touch BY <1>1, <1>2, <1>6 DEF Slot!Touch, SameSlot, IsHeld, IsNeutralizing
  <2> QED BY <2>1 DEF Slot!Next
<1>7. CASE ~SameSlot(focus, focus')
  <2>1. UNCHANGED held BY <1>5, <1>7 DEF SameSlot
  <2>2. CASE ~IsHeld(focus) /\ IsHeld(focus')
    <3>1. Slot!Grant
      BY <1>1, <1>2, <1>4, <1>7, <2>1, <2>2
      DEF SlotMove, SameHold, Slot!Grant, IsHeld, IsNeutralizing
    <3> QED BY <3>1 DEF Slot!Next
  <2>3. CASE IsHeld(focus) /\ IsNeutralizing(focus')
    <3>1. Slot!Close
      BY <1>2, <1>7, <2>1, <2>3 DEF SlotMove, SameHold, Slot!Close, IsHeld, IsNeutralizing
    <3> QED BY <3>1 DEF Slot!Next
  <2>4. CASE IsNeutralizing(focus) /\ focus'.phase = "vacant"
    <3>1. Slot!Free
      BY <1>2, <1>4, <1>7, <2>1, <2>4
      DEF SlotMove, SameHold, Slot!Free, IsHeld, IsNeutralizing
    <3> QED BY <3>1 DEF Slot!Next
  <2> QED BY <1>7, <2>2, <2>3, <2>4 DEF SlotMove, SameHold
<1> QED BY <1>6, <1>7

\* What the registry, its tasks and the device do to the slot is what
\* FocusSlot promises to whoever injects input: one owner at a time, every
\* generation once, and no keys left down when the slot is free or owned anew.
THEOREM HostImplementsFocusSlot ==
  ASSUME ~ResetCanFail PROVE HostSpec => SlotSpec
<1>1. HostInit => Slot!Init
  BY DEF HostInit, Init, NewArbiter, IsHeld, IsNeutralizing, Slot!Init
<1>2. TasksInv /\ HandoffInv /\ (TasksInv /\ HandoffInv)' /\ [HostNext]_hostVars
        => [Slot!Next]_(Slot!slotVars)
  <2>1. TasksInv /\ [HostNext]_hostVars => SlotMove(focus, focus')
    <3>1. TasksInv => TypeOK BY DEF TasksInv, RegistryFacts, RegistryInv
    <3> QED BY <3>1, TasksStep, StepMoves
  <2>2. TasksInv' => TypeOK' BY DEF TasksInv, RegistryFacts, RegistryInv
  <2> QED BY <2>1, <2>2, SlotRefines
<1> QED BY <1>1, <1>2, HandoffInvariant, PTL DEF HostSpec, SlotSpec, Slot!Spec
=============================================================================
