----------------------------- MODULE ViewerHost -----------------------------
(***************************************************************************)
(* The tasks that call the session registry, and the virtual input device  *)
(* they share: the control task of a viewer (serve_control_moq_v2), the    *)
(* forward task it spawns for commands and ticks                           *)
(* (forward_control_v2_requests), the input task (serve_input_v2), and the *)
(* admin task (apply_mutation).  Every registry step is a step of          *)
(* SessionRegistry; this module adds which task takes it and when, and     *)
(* what reaches the device.                                                *)
(*                                                                         *)
(* A transition away from a holder is completed in two steps by the task   *)
(* that began it: a reset of the device under the operation lock, then the *)
(* call that completes the transition (neutralize_focus_transition).  The  *)
(* task is busy meanwhile; everybody else is not.                          *)
(***************************************************************************)
EXTENDS SessionRegistry

CONSTANTS
  ControlCanFail   \* can a control task fail before its viewer is served?

\* Every control task binds its viewer to a generation.  The feedback tasks,
\* which alone detach viewers, are not composed here.
ASSUME HostAssumption ==
  /\ ControlCanFail \in BOOLEAN
  /\ MediaPeers = Peers /\ ~DetachViewers

VARIABLES
  control,   \* per session: none, claimed, bound, offered, serving, leaving, left
  forward,   \* sessions whose forward task is running
  jobs,      \* neutralizations a task is in the middle of
  opening,   \* input streams whose hello is not written yet
  applying,  \* the input streams (0 or 1) between owner check and apply
  draining,  \* input streams that left their loop and owe a reset
  drained,   \* input streams that reset the device and owe the lease drop
  held       \* focus generations with keys down on the device

taskVars == <<control, forward, jobs>>
inputVars == <<opening, applying, draining, drained, held>>
hostVars == <<vars, taskVars, inputVars>>

Sessions == 1..MaxSession

Job(kind, session, tid) ==
  [kind |-> kind, session |-> session, tid |-> tid, stage |-> "reset"]
Busy(kind, session) == \E j \in jobs : j.kind = kind /\ j.session = session

\* A call that began a transition leaves its task the job of completing it.
JobIfBegun(kind, session) ==
  jobs' = IF IsNeutralizing(focus') /\ focus'.tid > focus.nextTid
          THEN jobs \cup {Job(kind, session, focus'.tid)}
          ELSE jobs

----------------------------------------------------------------------------
\* Control task.

HostAdmission(p) ==
  \/ /\ \/ Authorize(p) \/ CheckCommitted(p) \/ ClaimV2Rejected(p)
        \/ \E g \in SUBSET InputGrants : RedeemInvitation(p, g)
     /\ UNCHANGED <<taskVars, inputVars>>
  \/ /\ ClaimV2(p)
     /\ control' = [control EXCEPT ![nextSession + 1] = "claimed"]
     /\ UNCHANGED <<forward, jobs, inputVars>>

\* The generation is acquired and bound; a replaced holder's transition is
\* then neutralized by this task.  A viewer that was evicted meanwhile makes
\* the binding fail, and the task returns.
ControlBind(l, g) ==
  /\ control[l.session] = "claimed"
  /\ BindV2Generation(l, g)
  /\ IF IsViewer(l.peer, l.session)
     THEN /\ control' = [control EXCEPT ![l.session] = "bound"]
          /\ jobs' = IF l.transition # 0
                     THEN jobs \cup {Job("control", l.session, l.transition)}
                     ELSE jobs
     ELSE /\ control' = [control EXCEPT ![l.session] = "leaving"]
          /\ UNCHANGED jobs
  /\ UNCHANGED <<forward, inputVars>>

\* Mutant of ControlOffer: the predecessor is not told that it was replaced.
ControlOfferKeepsReplaced(l) ==
  /\ l \in leases
  /\ control[l.session] = "bound" /\ ~Busy("control", l.session)
  /\ control' = [control EXCEPT ![l.session] = "offered"]
  /\ UNCHANGED <<vars, forward, jobs, inputVars>>

\* The predecessor is retired, the media attachment expected, and the hello on
\* its way to the client.
ControlOffer(l) ==
  /\ l \in leases
  /\ control[l.session] = "bound" /\ ~Busy("control", l.session)
  /\ l.replaced # 0 => RetireReplaced(l)
  /\ l.replaced = 0 => UNCHANGED vars
  /\ control' = [control EXCEPT ![l.session] = "offered"]
  /\ UNCHANGED <<forward, jobs, inputVars>>

\* The client has attached; the forward task gives up at once if its viewer is
\* gone.
ControlServe(l) ==
  /\ l \in leases
  /\ control[l.session] = "offered"
  /\ control' = [control EXCEPT ![l.session] = "serving"]
  /\ forward' = IF IsViewer(l.peer, l.session)
                THEN forward \cup {l.session} ELSE forward
  /\ UNCHANGED <<vars, jobs, inputVars>>

\* The generation cannot be started, or the attachment never comes: the task
\* returns and its lease is dropped.
ControlFail(l) ==
  /\ control[l.session] \in {"claimed", "bound", "offered"}
  /\ ~Busy("control", l.session)
  /\ \/ ControlCanFail
     \/ control[l.session] # "claimed" /\ ~IsViewer(l.peer, l.session)
  /\ ReleaseV2(l)
  /\ control' = [control EXCEPT ![l.session] = "left"]
  /\ UNCHANGED <<forward, jobs, inputVars>>

\* The session ends because its forward task did, or because a connection
\* closed; in that case the forward task runs on.
ControlLeave(l) ==
  /\ l \in leases
  /\ control[l.session] = "serving"
  /\ control' = [control EXCEPT ![l.session] = "leaving"]
  /\ \/ /\ InvalidateV2Focus(l.peer, l.session)
        /\ JobIfBegun("control", l.session)
     \/ /\ ~(IsViewer(l.peer, l.session)
              /\ InvalidationChanges(focus, Candidate(viewers[l.peer])))
        /\ UNCHANGED <<vars, jobs>>
  /\ UNCHANGED <<forward, inputVars>>

ControlRelease(l) ==
  /\ control[l.session] = "leaving" /\ ~Busy("control", l.session)
  /\ ReleaseV2(l)
  /\ control' = [control EXCEPT ![l.session] = "left"]
  /\ UNCHANGED <<forward, jobs, inputVars>>

----------------------------------------------------------------------------
\* Forward task.

FocusCommand(l) ==
  \/ \E due \in BOOLEAN : RequestFocus(l, due) \/ FocusCommandRefused(l, due)
  \/ ApproveFocus(l) \/ DenyFocus(l) \/ ReleaseFocus(l) \/ PreemptFocus(l)

ForwardReady(s) == s \in forward /\ ~Busy("forward", s)

ForwardCommand(l) ==
  /\ ForwardReady(l.session)
  /\ FocusCommand(l)
  /\ JobIfBegun("forward", l.session)
  /\ UNCHANGED <<control, forward, inputVars>>

ForwardTick(s) ==
  /\ ForwardReady(s)
  /\ ExpireV2Focus
  /\ JobIfBegun("forward", s)
  /\ UNCHANGED <<control, forward, inputVars>>

\* The session's snapshot channel reads None: the viewer is gone and its
\* successor, if any, has retired it.
Evicted(s) ==
  /\ \A p \in Peers : viewers[p].session # s
  /\ \A l \in leases : l.replaced # s

\* The client closes the stream, or the forward task sees its eviction.
ForwardEnd(s) ==
  /\ ForwardReady(s)
  /\ forward' = forward \ {s}
  /\ UNCHANGED <<vars, control, jobs, inputVars>>

----------------------------------------------------------------------------
\* neutralize_focus_transition, in its two steps.

\* Mutant of OperationFree: a reset does not wait for the operation lock.
OperationIgnored == TRUE

\* The operation lock is free.
OperationFree == applying = {}

JobReset(j) ==
  /\ j \in jobs /\ j.stage = "reset" /\ OperationFree
  /\ held' = {}
  /\ jobs' = (jobs \ {j}) \cup {[j EXCEPT !.stage = "complete"]}
  /\ UNCHANGED <<vars, control, forward, opening, applying, draining, drained>>

\* The reset fails: the task returns with the error, the transition stays.
JobResetFails(j) ==
  /\ ResetCanFail
  /\ j \in jobs /\ j.stage = "reset" /\ j.kind # "admin" /\ OperationFree
  /\ jobs' = jobs \ {j}
  /\ forward' = IF j.kind = "forward" THEN forward \ {j.session} ELSE forward
  /\ control' = IF j.kind = "control"
                THEN [control EXCEPT ![j.session] = "leaving"] ELSE control
  /\ UNCHANGED <<vars, inputVars>>

\* Mutant of JobComplete: the task forgets the transition after its reset.
JobForgotten(j) ==
  /\ j \in jobs /\ j.stage = "complete" /\ j.kind # "admin"
  /\ jobs' = jobs \ {j}
  /\ UNCHANGED <<vars, control, forward, inputVars>>

JobComplete(j) ==
  /\ j \in jobs /\ j.stage = "complete" /\ j.kind # "admin"
  /\ \/ CompleteV2FocusTransition(j.tid)
     \/ ~CompletesTransition(focus, j.tid) /\ UNCHANGED vars
  /\ jobs' = jobs \ {j}
  /\ UNCHANGED <<control, forward, inputVars>>

----------------------------------------------------------------------------
\* Input task.

Streaming(i) == i \in inputs \ (opening \cup draining \cup drained \cup applying)

\* The stream has its lease before its hello is written; a claim that is refused
\* leaves none.
InputClaim(p) ==
  /\ ClaimInputV2(p)
  /\ opening' = opening \cup (inputs' \ inputs)
  /\ UNCHANGED <<taskVars, applying, draining, drained, held>>

\* From its hello on a stream has its guard, which resets before the lease goes.
InputHello(i) ==
  /\ i \in opening
  /\ opening' = opening \ {i}
  /\ UNCHANGED <<vars, taskVars, applying, draining, drained, held>>

\* The hello cannot be written: the lease is dropped without a reset.
InputHelloFails(i) ==
  /\ i \in opening
  /\ ReleaseInputV2(i)
  /\ opening' = opening \ {i}
  /\ UNCHANGED <<taskVars, applying, draining, drained, held>>

\* apply_v2 holds the operation lock from the owner check to the injection;
\* the registry may change in between.
InputCheck(i) ==
  /\ Streaming(i) /\ OperationFree
  /\ IsFocusOwner(i.peer, i.session, i.gen)
  /\ applying' = {i}
  /\ UNCHANGED <<vars, taskVars, opening, draining, drained, held>>

InputApply(i, down) ==
  /\ i \in applying
  /\ held' = IF down THEN held \cup {i.gen} ELSE held \ {i.gen}
  /\ applying' = {}
  /\ UNCHANGED <<vars, taskVars, opening, draining, drained>>

\* Mutant of InputLeave: the lease is dropped without a reset.
InputLeaveUnreset(i) ==
  /\ Streaming(i)
  /\ drained' = drained \cup {i}
  /\ UNCHANGED <<vars, taskVars, opening, applying, draining, held>>

\* The loop ends: focus lost, an event refused, or the client gone.
InputLeave(i) ==
  /\ Streaming(i)
  /\ draining' = draining \cup {i}
  /\ UNCHANGED <<vars, taskVars, opening, applying, drained, held>>

InputReset(i) ==
  /\ i \in draining /\ OperationFree
  /\ draining' = draining \ {i}
  /\ drained' = drained \cup {i}
  /\ held' = {}
  /\ UNCHANGED <<vars, taskVars, opening, applying>>

\* The guard drops the lease whether or not its reset worked.
InputResetFails(i) ==
  /\ ResetCanFail
  /\ i \in draining /\ OperationFree
  /\ draining' = draining \ {i}
  /\ drained' = drained \cup {i}
  /\ UNCHANGED <<vars, taskVars, opening, applying, held>>

\* Mutant of InputRelease: the guard drops the lease a second time.
InputReleaseTwice(i) ==
  /\ i \in drained
  /\ ReleaseInputV2(i)
  /\ UNCHANGED <<taskVars, inputVars>>

InputRelease(i) ==
  /\ i \in drained
  /\ ReleaseInputV2(i)
  /\ drained' = drained \ {i}
  /\ UNCHANGED <<taskVars, opening, applying, draining, held>>

----------------------------------------------------------------------------
\* Admin task.

HostMutation ==
  /\ \/ \E p \in Peers : RevokeViewer(p)
     \/ \E p \in Peers, g \in SUBSET InputGrants : ReplaceViewerGrants(p, g)
     \/ ApplyMutationElsewhere
     \/ CompleteAuthorizationNeutralization
  /\ UNCHANGED <<taskVars, inputVars>>

AdminApply ==
  /\ ApplyAuthorizationMutation
  /\ jobs' = IF mutation'.stage = "neutralize"
             THEN jobs \cup {Job("admin", 0, mutation'.tid)} ELSE jobs
  /\ UNCHANGED <<control, forward, inputVars>>

\* Mutant of AdminComplete: the request is never finished once the transition
\* it wanted to complete is over.
AdminCompleteWhenCurrent(j) ==
  /\ j \in jobs /\ j.kind = "admin" /\ j.stage = "complete"
  /\ CompletesTransition(focus, j.tid)
  /\ NeutralizeMutation
  /\ jobs' = jobs \ {j}
  /\ UNCHANGED <<control, forward, inputVars>>

AdminComplete(j) ==
  /\ j \in jobs /\ j.kind = "admin" /\ j.stage = "complete"
  /\ NeutralizeMutation
  /\ jobs' = jobs \ {j}
  /\ UNCHANGED <<control, forward, inputVars>>

AdminResetFails(j) ==
  /\ j \in jobs /\ j.kind = "admin" /\ j.stage = "reset" /\ OperationFree
  /\ NeutralizeMutationFails
  /\ jobs' = jobs \ {j}
  /\ UNCHANGED <<control, forward, inputVars>>

----------------------------------------------------------------------------
HostInit ==
  /\ Init
  /\ control = [s \in Sessions |-> "none"]
  /\ forward = {} /\ jobs = {}
  /\ opening = {} /\ applying = {} /\ draining = {} /\ drained = {} /\ held = {}

ControlStep ==
  \E l \in leases :
    \/ \E g \in Generations : ControlBind(l, g)
    \/ ControlOffer(l) \/ ControlServe(l) \/ ControlFail(l)
    \/ ControlLeave(l) \/ ControlRelease(l)

ForwardStep ==
  \/ \E l \in leases : ForwardCommand(l)
  \/ \E s \in forward : ForwardTick(s) \/ ForwardEnd(s)

JobStep ==
  \E j \in jobs :
    \/ JobReset(j) \/ JobComplete(j) \/ JobResetFails(j)
    \/ AdminComplete(j) \/ AdminResetFails(j)

InputStep ==
  \/ \E p \in InputPeers : InputClaim(p)
  \/ \E i \in inputs :
       \/ InputHello(i) \/ InputHelloFails(i)
       \/ InputCheck(i) \/ InputLeave(i) \/ InputReset(i) \/ InputResetFails(i)
       \/ InputRelease(i)
       \/ \E down \in BOOLEAN : InputApply(i, down)

HostNext ==
  \/ \E p \in Peers : HostAdmission(p)
  \/ ControlStep \/ ForwardStep \/ JobStep \/ InputStep
  \/ HostMutation \/ AdminApply

HostSpec == HostInit /\ [][HostNext]_hostVars

\* Tokio runs every task that can run, so each task's own next step is weakly
\* fair.  What clients do is not fair, and neither is what waits for them: the
\* writes of the control hello, of the input hello and of the forward task have no
\* timeout.  A client that does not read keeps its control task from serving,
\* its input stream from opening, and its forward task from ticking and from
\* seeing its eviction.  Nor is the end of an input stream that lost its focus
\* fair: it may miss the notification and wait for its client.
ControlProgress(s) ==
  \E l \in leases :
    /\ l.session = s
    /\ \/ \E g \in Generations : ControlBind(l, g)
       \/ ControlOffer(l) \/ ControlRelease(l)
       \/ ControlFail(l) /\ control[s] # "offered"
       \/ ControlLeave(l) /\ s \notin forward

JobProgress(kind, s) ==
  \E j \in jobs :
    /\ j.kind = kind /\ j.session = s
    /\ \/ JobReset(j) \/ JobComplete(j) \/ JobResetFails(j)
       \/ AdminComplete(j) \/ AdminResetFails(j)

InputProgress(s) ==
  \E i \in inputs :
    /\ i.session = s
    /\ \/ InputReset(i) \/ InputResetFails(i) \/ InputRelease(i)
       \/ \E down \in BOOLEAN : InputApply(i, down)

AdminProgress ==
  \/ AdminApply
  \/ /\ ApplyMutationElsewhere \/ CompleteAuthorizationNeutralization
     /\ UNCHANGED <<taskVars, inputVars>>

HostFairness ==
  /\ \A s \in Sessions :
       /\ WF_hostVars(ControlProgress(s))
       /\ WF_hostVars(JobProgress("control", s))
       /\ WF_hostVars(JobProgress("forward", s))
       /\ WF_hostVars(InputProgress(s))
  /\ WF_hostVars(JobProgress("admin", 0))
  /\ WF_hostVars(AdminProgress)

FairHostSpec == HostSpec /\ HostFairness

\* The client of s reads its control stream: no write of its forward task blocks
\* for ever, so that the task comes back to its select.
ClientReads(s) == WF_hostVars(ForwardEnd(s) /\ Evicted(s))

\* So does some client whenever there is a forward task: a deadline passes and a
\* later tick finds it, whoever's tick that is.
SomeClientReads == WF_hostVars(\E s \in forward : ForwardTick(s))

----------------------------------------------------------------------------
HostTypeOK ==
  /\ TypeOK
  /\ control \in [Sessions -> {"none", "claimed", "bound", "offered", "serving", "leaving", "left"}]
  /\ forward \subseteq Sessions
  /\ jobs \subseteq [kind : {"control", "forward", "admin"}, session : Nat,
                     tid : Nat, stage : {"reset", "complete"}]
  /\ opening \subseteq inputs /\ applying \subseteq inputs
  /\ draining \subseteq inputs /\ drained \subseteq inputs
  /\ held \subseteq Nat

\* No successor holds the slot, and nobody may be granted it, while keys of an
\* earlier holder are down: whoever ends a transition has reset the device
\* after the last event that had passed its owner check.
NeutralBeforeSuccessor ==
  /\ IsHeld(focus) => held \subseteq {focus.gen}
  /\ focus.phase = "vacant" => held = {}

\* What the slot promises: FocusSlot, with the arbiter's holder as the owner
\* and the keys on the device as its dirt.
Slot == INSTANCE FocusSlot WITH
  owner <- IF IsHeld(focus) THEN focus.gen ELSE 0,
  closing <- IF IsNeutralizing(focus) THEN focus.gen ELSE 0,
  issued <- focus.nextGen,
  dirty <- held
SlotSpec == Slot!Spec

\* A handoff proposal never outstays its deadline: approved, denied, expired
\* by some viewer's tick, or dropped with one of its two sessions.  One client
\* that reads is enough; if every forward task is blocked nothing expires.
ProposalResolves ==
  SomeClientReads =>
    \A k \in 1..MaxRequests : focus.proposal.id = k ~> focus.proposal.id # k

\* A transition that a task has begun to neutralize is completed, though
\* input events may hold the operation lock when its reset is due.
OwnedTransitionEnds ==
  \A t \in 1..MaxRequests :
    (\E j \in jobs : j.tid = t) ~> ~CompletesTransition(focus, t)

\* The control task of an evicted viewer (revoked, or replaced by its own
\* reconnect) ends and gives its lease back, whatever its successor does, and
\* whichever of the other clients read.
EvictedSessionEnds ==
  \A s \in Sessions :
    ClientReads(s) =>
      ((control[s] = "serving" /\ \A p \in Peers : viewers[p].session # s)
         ~> control[s] = "left")

\* The serial admin service gets to its next request: the one it is serving
\* ends, whatever its viewer does meanwhile.  Only input events that keep the
\* operation lock contended for ever could hold its reset up, since the lock
\* is not fair.
AdminAnswered ==
  \/ []<>(applying # {})
  \/ mutation.stage # "idle" ~> mutation.stage = "idle"

\* What the documentation says and the tasks can break.

\* docs/fresh-bazzite-host.md: replacement, disconnect or revocation
\* neutralizes the devices before a successor can inject; so a transition
\* ends and the slot can be granted again.
SlotRecovers == IsNeutralizing(focus) ~> ~IsNeutralizing(focus)
=============================================================================
