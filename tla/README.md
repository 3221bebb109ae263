# A specification of the Sigil host and its video path

Sigil streams a Linux desktop session to a Portal client over iroh and MoQ and
takes input back. One host serves a *legacy* client (control v1, exclusive) or
several *viewers* (control v2). Any viewer may watch; one of them at a time holds
*controller slot 0* and may inject keyboard, pointer and gamepad events. These
modules specify what of it is decided by several tasks, processes or crashes at once:
who holds the slot, which media generation runs, what the encoder is asked
for, how a viewer's video survives loss, and how the appliance's configuration is changed.

Paths below are relative to `src/crates/sigil-host/src/` unless they say otherwise.

## Inventory

| component | source | state it keeps | operations | what is hard |
|---|---|---|---|---|
| focus arbiter | `server/focus.rs` | phase (vacant, held, neutralizing), holder, focus generation, transition id, proposal, successor, activation deadline, rate window | request, approve, deny, release, preempt, invalidate, complete a transition, expire, retire a candidate | deadlines, stale commands, what survives a transition |
| session registry | `server/session.rs` | legacy session, v2 roster, roster revision, live control leases, bound generation, pending MoQ attachments, published snapshots, committed authorization revision | claims and releases of control, input, audio and feedback; focus commands; media binding; authorization mutations; detachment | two locks, lease drops at any point, late drops of replaced sessions, errors after a change |
| control v2 tasks | `server/moq.rs` | the progress of a control session and its forward task | admit, bind, serve, forward commands, tick, leave | two tasks per viewer that end at different times; a transition owned by a task that may fail |
| input operations | `server/handlers.rs` | virtual devices, the operation lock, the input stream | check owner, inject, reset, neutralize a transition | check and injection are apart; reset may fail; lock is not fair |
| media generation manager | `server/generation.rs` | lifecycle, lease count, active generation, waiters | acquire, release, start, stop | start races stop; lost wakeups; a start that fails with others waiting; sources aborted and not waited for |
| authorization store and admin service | `authorization.rs`, `authorization_admin.rs` | enrollments, revisions, the mutation being served | redeem, revoke, replace grants; apply to the live roster | commit and live application are two steps; reset may fail in between |
| snapshots | `sigil-protocol/src/control_v2.rs` | none (values) | validate, publish | one invalid snapshot stops publication for all |
| encoder control | `source/in_process.rs` | revisions, the desired state, its status, the pipeline thread's pending transition | request, apply, acknowledge, wait | two-step publication by concurrent callers; late acknowledgement; timeouts |
| adaptive actuators | `server/adaptive.rs` 1437–1884, 2396–2678 | desired, requested and committed settings, the running commit, the queued plan | submit, start, complete, abort | a timed-out request applies later; coalescing; who starts what is queued |
| adaptive policies | `server/adaptive.rs` 371–1428 | contributors, controllers, recovery states, aggregate target, resolution tier | register, report, evaluate, unregister, detach | stale evidence, feedback claimed again under the same key, one report evaluated twice |
| video publisher, forced IDR | `server/moq.rs` 20–485, `server/media_v3.rs`, `server/session.rs` 263–418, `source/mod.rs` | the current GOP, two cursors, the open group, the pending forced IDR | publish an access unit, serve a GOP, serve a keyframe request, complete a recovery | two cursors, watches that keep only the newest value, requests of several viewers |
| Portal video | `src/src-tauri/src/media/`, `src/portal/*.mjs` | the receiver's group and sequence, the channel's slots, frame session, decoder recovery | read, drop, deliver, acknowledge, decode, recover, reconnect | loss and cancellation, staged acknowledgements, an old generation's callbacks |
| configuration transaction | `config_management.rs`, `secure_state.rs` | document, two artifacts, journal, two locks | set, commit, roll back, recover | a crash between any two durable steps; evidence of the right run |
| appliance status | `appliance.rs`, `main.rs` | the runtime document, the daemon's phase | start, ready, stopping, degraded, stopped, heartbeat | a status that outlives what it describes |
| the rest | routing, device back ends, cursor tracker, identity, codecs, probes, packaging, web | mostly I/O or external libraries | | see *Not modelled* |

How they interact. A control task (`serve_control_moq_v2`) authorizes its peer in
the store, claims a lease from the registry, acquires a media generation, binds
the roster to it, neutralizes the transition its reconnect may have caused, and
spawns a forward task which feeds focus commands and 250 ms ticks to the
registry. An input task claims an `InputV2Lease` when its viewer holds the slot and
checks the slot again for each event under the operation lock. The admin task
commits a mutation to the store, applies it to the roster and neutralizes what it
took away. Lease drops call back into the registry from wherever a task ends.
Registry calls run under the `active` and `v2_state` locks; nothing else is atomic.
A generation runs one encoder pipeline; the adaptive actuator and the forced-IDR
coordinator write its desired state, each viewer's feedback feeds the policies, and a
publisher task copies the current GOP to a MoQ track that all viewers read. The Portal
reads that track, hands frames to the web view over a bounded channel and asks for
keyframes through its control session. A management command and the daemon exclude each
other by the lifecycle lock and meet only in files.

What makes each component correct:

- arbiter: the slot never goes from one holder to another without being
  neutralized; a focus generation is never reused; a deadline belongs to the current holder;
- registry: legacy and v2 exclude each other; the roster, the lease count and the
  claimed flags say what leases exist; the holder is in the roster and entitled; every state
  left behind can be published; viewers were told the current state;
- tasks and devices: keys of one holder are up before another may inject; every proposal,
  transition, eviction and admin request comes to an end;
- generation manager: one producer that is not on its way out, never stopped under a lease, no lost wakeup;
- authorization: what was acknowledged as withdrawn is withdrawn from live sessions;
- actuators: what was requested last is what is wanted, a forced keyframe is never coalesced
  away, a queued plan has somebody to start it, "applied" is true of what the actuator has asked for;
- policies: each registration has its own contributor and each contributor its registration; stale evidence neither
  detaches a viewer nor raises a bitrate;
- video: the publisher's cursors agree with its group; an honest stream is accepted whatever
  is lost; slots are accounted for; the decoder sees no delta without its reference;
- configuration: whatever a command dies at, recovery can finish, does finish, and the result is
  one of the two documents, the new one only after a proven run.

## Modules

```
FocusArbiter            operators: the arbiter's methods (focus.rs)
   |  EXTENDS
SessionRegistry         the registry, leases, store and admin requests (session.rs, authorization*.rs)
   |  EXTENDS                             -> SessionRegistryProofs -> RegistryFocusProofs
ViewerHost              tasks + devices   -> ViewerHostProofs (with RegistryFocusProofs)
   |  INSTANCE ... WITH (refinement)
FocusSlot               what slot 0 promises to whoever injects

MediaGeneration         the shared media producer (generation.rs)   -> MediaGenerationProofs

EncoderControl          the encoder's control handle and pipeline thread (in_process.rs)
   |  EXTENDS
AdaptiveActuator        the actuators that make its requests (adaptive.rs, session.rs)   -> AdaptiveActuatorProofs

AdaptiveBitrate         registrations, controllers, recovery, resolution policy (adaptive.rs)   -> AdaptiveBitrateProofs

VideoPublisher          encoder, GOP watch, publisher task, forced IDR (moq.rs, media_v3.rs, source/mod.rs)
   |  EXTENDS
VideoPath               network, Portal receiver, channel, page, decoder   -> VideoProofs

ConfigTransaction       commands, files, journal, daemon, crashes   -> ConfigTransactionProofs
   |  INSTANCE ... WITH (refinement)
ConfigRegister          what the managed configuration promises

M -> P: the theorems about M are in P.  MCSessionRegistry, MCViewerHost: values of structured constants for TLC
```

**FocusArbiter.** The arbiter is a record; each `&mut self` method is an operator from
arbiter to arbiter, with its early returns as a separate guard (`RequestOK`,
`ApproveOK`, `PreemptOK`, ...). A phase change writes only the fields that the code
writes: after `BeginNeutralization` `who` and `gen` name the former holder. Instants
are not modelled: a caller that finds a deadline passed makes that choice
(`due`, `ExpireV2Focus`). That loses the relation between the two deadlines except where
`ExpireV2Focus` states it: a proposal is made after the grant it wants and lives
longer than that grant's activation deadline, so a tick that finds the
proposal overdue finds the activation overdue first.

**SessionRegistry.** One action is one critical section. `viewers` is the roster as a
function from peers; `leases`, `inputs` and `feedbacks` are the lease objects alive,
including those whose session has been replaced, so that a late drop is a step.
`live` is the code's counter, kept apart from `leases` so that they can disagree.
A call that returns an error before changing anything is no step; a call that returns an error
*after* changing something is one: `ClaimV2` whose snapshots fail to validate
leaves an `orphan` lease, `FocusCommandRefused` leaves a timestamp and perhaps a dropped proposal,
`ClaimInputV2` may settle the activation and still refuse. Admission takes three
steps (`Authorize` or `RedeemInvitation`, `CheckCommitted`, `ClaimV2`), because the code reads the store,
compares the committed revision, and takes the locks, in that order. An admin
mutation takes up to four (commit, apply, neutralize, complete). `announced` is what
viewers were last told: every publication updates it, and only publications do.

**ViewerHost** composes the registry with the tasks that call it. `control`
follows a control task from its claim to the drop of its lease, `forward` is the set of forward
tasks alive (they outlive their control task's select loop), `jobs` holds the
neutralizations a task is in the middle of, `opening`, `applying`, `draining`, `drained` are the
stages of an input stream (one that is opening has its lease and not yet its reset guard, so a hello that
cannot be written drops the lease without a reset), and `held` is the set of focus generations with keys down on
the device. Every step is a registry step restricted to the moment the
task may take it, a device step, or both.

**FocusSlot** is the abstract specification: an owner generation, one being closed,
the last one issued, and the generations with keys down. The owner changes only through a closed slot,
which becomes free or granted only when nothing is down. `ViewerHost!Slot` is the refinement mapping.

**MediaGeneration** follows `acquire`, `release` and the lease drop. Critical
sections of the state mutex are actions, as are the ends of start and stop, which run without
it. A waiter is registered with `notify_waiters` or it is not. `producers` are the sources that run, `orphans` those of them that
were aborted and that nobody waits for: a failed start drops the guard of its source, and an in-process pipeline, on its
blocking thread, ends only when it finds its receivers closed, so a stop may leave it behind too.

**EncoderControl** and **AdaptiveActuator.** A request takes a revision (`AllocateRevision`) and then
replaces the desired state (`PublishDesired`): two steps, by two callers, the actuator and the forced-IDR
coordinator. The pipeline thread applies whatever is newer than what it has seen, emits samples at the old size
until the scaler obeys, and may fail. The actuator keeps what it wants (`desired`), what it
asked for (`requested`), what was acknowledged (`committed`), at most one commit that waits and
at most one queued plan; `mode` tells the shared generation's actuator from the legacy session's. A wait may time out whether or
not its request applies later. A legacy client may drop its feedback and claim it again on the same encoder (`ClaimAgain`): the new
coordinator starts from the ceiling and the native tier, whatever the encoder was last told. `known` is a ghost, the kinds of setting
the present coordinator has asked for, or that nobody had asked for before it.

**AdaptiveBitrate.** A viewer here is a contributor's key, one session of one peer. Its feedback lease, its registration (the handle) and its contributor are
three objects with three ends; `feedback_claimed` lets one lease live at a time, the registration goes before the lease, and the authorization revision that
the coordinator compares stays the same from claim to claim unless the grants change. A contributor has its controller and recovery state. Telemetry is
abstracted to the severity it amounts to, in the classes that `classify` tells apart; instants to whether
a deadline has passed. `Evaluate` is one turn of the coordinator's loop over all contributors, in the code's order:
controllers, recovery states, detachments, the aggregate target, and the resolution policy fed with the worst evaluation.

**VideoPublisher.** The encoder fills a watch with the current GOP; the publisher takes a copy and
publishes its new frames one by one (`PublishFrame`), while the encoder goes on. `pub.replay` is
`MediaReplayCursor`, `pub.cursor` is `MediaV3GroupCursor`; each keeps the discontinuity and keyframe flags of its own
struct. Payloads are abstracted: any frame may turn out stale, too large for the cursor's count of its group, or too large once it is
authenticated (`CutReasons`). The error of a delta without an open group is the state `failed`.

**VideoPath** adds one viewer. The network hands over any newer group and any prefix of it; a read may fail
or time out at any time. `rx` is `MoqMediaReceiver`, `delivery` the locals of `run_video_delivery`, `acks` the
acknowledgements on their way, by media generation. The page is synchronous: `HandleFrame` is one callback from
the acknowledgement to the decoder, and a fault of the decoder is an input to it. `Reconnect` starts the Portal's side again, while
acknowledgements of the old generation still arrive.

**ConfigTransaction.** Every durable step (an atomic rename or an unlink with its directory sync) is an action;
`op.at` names the next step of the command that holds the lifecycle lock. `Interrupt` ends it there, with or without
the runtime directory, which is in memory. The daemon holds the same lock: its phases, what it publishes and the
ways it ends are `DaemonStep`. A document is known by its hash. `proven` and `tampered` are history variables of the properties only.

**ConfigRegister** is its abstract specification: a current revision, a transaction on trial, a running service; install,
commit and rollback are single steps, and a commit needs a proven candidate.

Correspondence line by line is in `PROJECT.json` under `map`. A session's nonce is abstracted to its id;
grants are the input grants (VIEW is required by every enrollment); wire formats, wording,
rate limits and wall-clock values are left out, the rate window's *keys* are kept.

## Runs

| run | asks | constants that matter |
|---|---|---|
| `registry_handoff` | types, holder eligibility, activation, announcements, handoffs, stream fence, ghosts, publishability | 2 peers, 3 sessions, 3 requests, a presence owner |
| `registry_sidecars` | legacy exclusion, rate keys, claimed flags, transient bars | one peer that connects either way and attaches media, one v2 peer with input and feedback that may be detached, one request, failing resets, one mutation, the v2 peer owns the presence |
| `host_handoff` | refinement of `FocusSlot`, neutral devices | 2 viewers, 2 requests, all tasks |
| `host_liveness` | proposals end if some client reads, transitions end | the same without the owner, one viewer with an input stream |
| `host_failures` | eviction, of a client that reads, and admin requests end when resets and starts fail | one viewer that reconnects and is revoked |
| `generation` | one live producer, lease count, wakeups | 3 tasks, 3 generations, 4 leases |
| `actuator` | nothing stale requested, barriers, queued plans, truth of "applied" | 2 callers, 2 bitrates, 2 tiers, 3 revisions, both modes, any number of feedback claims |
| `adaptive` | counts, registrations, detachment, raises | 2 viewers, 2 feedback claims, 5 reports or rises of host pressure, every window count at 1 or 2 |
| `video_path` | cursors, honest stream, slots, decoder chain | 4 frames, GOPs of 2, one trouble, 2 channel slots |
| `configuration` | recovery possible, finished, refinement of `ConfigRegister` | 3 documents, 2 transactions, 2 daemons, 2 crashes, 1 edit |
| `acknowledged_mutation`, `stuck_slot` | see *Disagreements found* | |

The runs of the host let every peer attach media, since every control task binds its viewer (`HostAssumption`), and detach nobody: the
feedback tasks, which alone do that, are not composed there.

The bounds are guards of the actions. In the registry and the host: `MaxSession` (session ids), `MaxRequests` (grants plus
proposals after which nobody *asks*; a request already made still runs to its end), `MaxStoreRevision`
(store commits; the store starts at 1). Two peers are a holder and a requester;
a third session is a reconnect of one of them, so replacement meets
handoff; three requests are a grant, a proposal, and a grant to a session that held the slot before. Three
tasks in `generation` are one that starts, one that waits and one that stops. `MaxRevisions` = 3 in `actuator`: a request
that times out, the one that should overwrite it, and one of the other caller in between. Two claims in `adaptive` are two viewers at once, or one that
claims again under the same revision or a new one; `MaxEvents` = 5 and windows of 1 or 2 let a viewer go from active through a recovery to its
detachment. `MaxFrames` = 4 in `video_path` is an IDR with
a delta and a second group, or a GOP that outgrows `MaxGop` and a fresh one; `MaxTroubles` = 1 is a resolution change, another viewer's request, a
fault of the decoder or a reconnect; the two slots can be filled by one GOP. Two transactions in `configuration` are one whose journal and artifacts the
next must not confuse with its own, two daemons a proven run and an unrelated one, two crashes one in a command and one in its
recovery. The runs were chosen so that each action fires in some passing run, and each property has a mutation of the code that violates it.

`CHECK_DEADLOCK FALSE` where the system may rest: a host with no client is idle, and the bounds end a run. `configuration` checks
deadlock: a command, a service or an edit is always possible.

### Fairness

Tokio polls every ready task, so in `ViewerHost` and `MediaGeneration` a task's own next step is weakly fair: a control task
binds, offers, leaves once its forward task has ended, or releases; a job resets and completes (it is synchronous code); an input stream that left its
loop resets and drops its lease; the admin task goes on. A start or a stop of a generation has a timeout in the code, and `FairGenSpec` asks for
nothing more; when a source that was given up ends is not assumed.

What waits for a client is not fair. `write_server_control_v2` is awaited without a timeout inside the select arms of the forward task (`moq.rs:951`, `986`), and the
control and input hellos are written without one, so a client that stops reading keeps its forward task from ticking and from seeing its eviction, its
control task from serving, and its input stream from opening. The model has no flow-control window: a forward task that takes no
step stands for one in a blocked write. `ProposalResolves` therefore assumes `SomeClientReads` (whenever a forward task can tick, some forward task does and finds the
deadline passed; the registry's deadlines are everybody's), and `EvictedSessionEnds` assumes `ClientReads(s)` of that session alone. The
premises are part of the properties, where they can be read, and not of the specification.

Not fair either: what clients do (connect, attach, ask, answer, close), and the end of an
input stream that lost the slot. `handlers.rs:590` checks the owner and *then* registers for
notifications; a change between the two is missed, and the stream ends only with its next event or its client.
The operation lock gives no queue the model could rely on, so `AdminAnswered` has the escape
`[]<>(applying # {})`: a reset could be held up only by input events that contend for the lock for ever.
`OwnedTransitionEnds` needs no escape: a stream whose generation is being neutralized fails
its owner check, so contention stops by itself.

In `ConfigTransaction` a command takes its next step and a daemon comes to its end; and something that recovers runs again
(`WF(Begin)`), since the service manager restarts a service that failed and the controller calls again. No particular command is assumed to.

## Disagreements found

Each `violation` run has one property, quoted from a document, that the code's behaviour breaks.

- `acknowledged_mutation` (`session.rs:649`): the committed revision is compared before the
  locks are taken. A revocation committed, applied and acknowledged in between finds no viewer; the
  viewer is then admitted with the authorization that was withdrawn.
- `stuck_slot` (`session.rs:1704`): a request served between a control task's last invalidation and its lease drop
  leaves a transition that no task owns; the slot stays neutralizing.

Others were met while modelling. They have no run of their own; the models behave as the code does:

- `server/moq.rs:951`: a revoked viewer whose client has stopped reading its control stream stays connected once the stream's window is full. Its
  forward task waits in a write, does not see that its snapshot is `None`, and the session's select (898–908) waits for that task or for the same client.
  `docs/sigil-appliance-enrollment-reset-v1.md:55-56` says a revocation disconnects the viewer; `EvictedSessionEnds` has a client that reads as its premise.
- `server/generation.rs:325`: a start that fails after its source was spawned drops a guard that aborts and does not wait (`session.rs:2077`), and a stop gives
  up a pipeline that outlasts its grace time. The next start may open a second capture beside it, which the comment at `startup.rs:169-172` warns of. In the
  model `producers` then has two members; `OneLiveProducer` counts the sources that are not on their way out.
- `server/adaptive.rs:1694`: when a legacy client has claimed feedback again, the first decision at the ceiling says applied and nothing is requested, while the
  encoder still has the lower bitrate. `README.md:73-75` promises readback; `AppliedIsTrue` and `NothingStaleRequested` hold of what the new
  coordinator has itself asked for.
- `server/adaptive.rs:1531`: in shared mode a plan made while no viewer contributes names no resolution; if it replaces a queued plan that did, the
  resolution is wanted and never asked for. `NothingStaleRequested` leaves the shared actuator's resolution out for that reason.
- `source/in_process.rs:123`: of two concurrent requests the older revision may be published last, and the pipeline, which looks
  only above the last revision it applied, never applies it; the comment at 70–71 promises the latest one.
- `server/adaptive.rs:921`: any viewer's news makes the loop feed the resolution policy with the last evaluations of all, so stale
  reports of one viewer count another's old clean report again and restore the native resolution; the comment at 106–108 says stale reports never do.
- `main.rs:1132`: a listener that fails to start ends the daemon without a degraded status, although the comment at 958–961 says no
  failure class can. The document then says `starting` until it is stale.
- `session.rs:569`: `claim` counts control leases only, and admits a legacy
  client while an input-v2 stream of a departed viewer still owes its reset.
- `session.rs:1200`: a second input stream is refused *after* it settled the activation deadline of the new grant.
- `session.rs:1852`: the drop of the old holder's input lease completes the
  approved handoff without its successor; the slot becomes vacant.
- With `DetachViewers = TRUE` a viewer may make a proposal between the two calls that detach it; the
  second retires the candidate but not its proposal (`session.rs:1792`), and the next
  publication fails: `Publishable` is violated. `registry_handoff` checks it with detachment off.
- The feedback claim compares the viewer's revision with the committed one, which
  mutations of *other* viewers raise (`session.rs:1409`).
- The release of a replaced session leaves its pending attachment behind (`session.rs:1691`).
- The admin's reset is global and may lift keys of a holder the mutation is not about (`authorization_admin.rs:320`).
- A stream whose reset fails still completes its transition on drop (`handlers.rs:667`), so
  `NeutralBeforeSuccessor` and the refinement fail with `ResetCanFail = TRUE`; `host_handoff` has it off.
- The roster's bound generation survives the revocation of the last viewer (`session.rs:782`).
- A recovery request taken before the acknowledgement of the previous IDR is joined counts as coalesced with it (`session.rs:287`), and a
  Join in the watch overwrites a recovery request nobody has read (`moq.rs:998`); either way the viewer waits for the next natural IDR.
- After an *expected* cancellation the receiver ends the session when no new group comes in time (`moq_receiver.rs:419`); `PortalAccepts` is
  about malformed streams only, and the task's end by timeout is the state `timed out`.

## Proofs

Eight modules hold proofs, each for every value of the constants and without the bounds' help. What they assume of the constants is
named in the module that declares them:

| module | proves about | assumes |
|---|---|---|
| `SessionRegistryProofs`, `RegistryFocusProofs` | `SessionRegistry` | `RegistryAssumption`: bounds are numbers, there is room for a viewer, the peer subsets are subsets; any set of peers, any set of generations |
| `ViewerHostProofs` | `ViewerHost`, `FocusSlot` | in addition `HostAssumption`: every peer may attach media, no viewer is detached by the coordinator |
| `MediaGenerationProofs` | `MediaGeneration` | the "no task" value is no task |
| `AdaptiveActuatorProofs` | `EncoderControl`, `AdaptiveActuator` | the two callers are the actuator and the forced-IDR coordinator; the ceiling and the native tier are settings; `None` is none |
| `AdaptiveBitrateProofs` | `AdaptiveBitrate` | window counts, steps and attempts are positive; the floor is not above the ceiling rounded down to the quantum |
| `VideoProofs` | `VideoPublisher`, `VideoPath` | the capacity and the GOP length are positive |
| `ConfigTransactionProofs` | `ConfigTransaction`, `ConfigRegister` | `NoRevision` is no document; a status write can succeed |

| theorem | establishes |
|---|---|
| `RegistryInvariant` | `Spec => []RegistryInv` |
| `TypeCorrect` | `Spec => []TypeOK` |
| `LegacyAndRosterExclusive` | `Spec => []LegacyExclusive` |
| `HandoffIsNeverDirect` | `Spec => NoDirectHandoff` |
| `ActivationIsAlwaysHolders` | `Spec => []ActivationIsHolders` |
| `FocusInvariant` | `Spec => []FocusInv` |
| `HolderAlwaysEligible` | `Spec => []HolderEligible` |
| `RateLimiterBounded` | `Spec => []RateKeysBounded` |
| `AlwaysPublishable` | `Spec => []Publishable`, without detachment |
| `NoViewerIsAbandoned` | `Spec => []NoGhostViewer`, without detachment |
| `AnnouncementsAreCurrent` | `Spec => []AnnouncedIsCurrent`, without detachment |
| `SidecarInvariant` | `Spec => []SidecarInv` |
| `SidecarFlagsAreExact` | `Spec => []SidecarFlagsExact` |
| `StreamFenceIsFinal` | `Spec => StreamFenceFinal` |
| `WithdrawalEndsTheBar` | `Spec => NeutralizingTransient` |
| `HostRunsTheRegistry` | `HostSpec => Spec /\ []RegistryFacts` |
| `HostInvariant`, `HostTypes` | `HostSpec => []TasksInv`, `HostSpec => []HostTypeOK` |
| `HandoffInvariant` | `HostSpec => [](TasksInv /\ HandoffInv)`, with resets that succeed |
| `DeviceNeutralBeforeSuccessor` | `HostSpec => []NeutralBeforeSuccessor`, with resets that succeed |
| `HostImplementsFocusSlot` | `HostSpec => SlotSpec`, with resets that succeed |
| `GenerationInvariant`, `GenerationTypeCorrect` | `GenSpec => []GenInv`, `GenSpec => []GenTypeOK` |
| `LeasesHoldGeneration` | `GenSpec => []LeaseHoldsGeneration` |
| `LiveSourceIsUnique` | `GenSpec => []OneLiveProducer` |
| `NoLostWakeup` | `GenSpec => []WaiterHasWaker` |
| `ActuatorInvariant`, `ActuatorTypes` | `Spec => [](ActuatorTypeOK /\ ActuatorInv)` |
| `NoStaleRequest` | `Spec => []NothingStaleRequested` |
| `RecoveryBarrierKept` | `Spec => []RecoveryBarrierSurvives` |
| `QueuedPlanHasAStarter` | `Spec => []NoStrandedPlan` |
| `AppliedDecisionsAreTrue` | `Spec => AppliedIsTrue` |
| `AdaptiveInvariant` | `Spec => []AdaptiveInv` |
| `CountIsExact` | `Spec => []RecoveringCountExact` |
| `RegistrationsOwnContributors` | `Spec => []RegistrationOwnsContributor` |
| `DetachmentIsEarned` | `Spec => []DetachIsEarned` |
| `RaisesAreEarned` | `Spec => RaiseIsEarned` |
| `CursorFollowsTrack` | `Spec => []CursorMatchesGroup` |
| `SlotInvariant`, `SlotsAreExact` | `Spec => []SlotInv`, `Spec => []SlotsExact` |
| `OrderInvariant` | `Spec => []AcceptInv` |
| `HonestStreamIsAccepted` | `Spec => []PortalAccepts` |
| `DecoderIsFedInOrder` | `Spec => DecoderChain` |
| `ConfigInvariant` | `Spec => []ConfigInv` |
| `RecoveryAlwaysPossible` | `Spec => []RecoveryPossible` |
| `ImplementsRegister` | `Spec => RegisterSpec` |

Two hypotheses appear, each where TLC violates the property without it. *Without detachment* (`~DetachViewers`): with it, a viewer may propose
between the two calls that detach it and leave its proposal behind, no snapshot validates from then on, and what fails half way
is never announced (see *Disagreements found*). `FocusInv` holds all the same: it weakens only the clause about the requester. *With resets that
succeed* (`~ResetCanFail`): an input stream whose reset fails drops its lease, and with it completes its transition, with keys still down.

**Registry.** The inductive invariant is

    RegistryInv == TypeOK /\ LeasesCounted /\ RosterLeased /\ LegacyExclusive

Neither of its interesting parts is inductive alone. `TypeOK` says that `live` is a natural number, and
`ReleaseV2` subtracts one: that needs `LeasesCounted` (`live` is the cardinality of
`leases`, whose members have distinct session ids below the next one; retiring a
predecessor rewrites a lease, and the distinct ids are what keep the cardinality).
`LegacyExclusive` looks at `live` where admission looks at the roster, and the
other way round: `Claim` tests only the count, so the empty roster has to follow from it,
by `RosterLeased` (each viewer in the roster has a lease that is alive). The
proof has a lemma per group of actions for the types (`LegacyTypes` to `AuthorizationTypes`), and for the
rest splits the steps into those that hand out or drop a lease (`ClaimInv`, `ClaimV2Inv`, `RetireReplacedInv`,
`ReleaseV2Inv`) and the others, which only keep or remove sessions (`SessionsKept`, `QuietStep`).

`HandoffIsNeverDirect` and `ActivationIsAlwaysHolders` rest on `StepMoves`: whatever a registry step does to the arbiter, seen from the slot it is one of
five moves (`SlotMove`): nothing, an activation settled, a grant to a slot nobody holds, a
held slot closed, a closed slot freed. It is proved operator by operator
(`OperatorMoves`), then composed with the bookkeeping that surrounds each operator in the registry
(`SlotMoveCompose`), then action by action.

**Focus and roster.** The roster and the arbiter are two structures that each call changes one after the other, so what relates them does not hold in
the middle of a call. `FocusSound(vs, f)` states it of *any* roster and *any* arbiter: the holder is an entitled viewer of the roster, a proposal is made to the
holder by a viewer with an input grant, the rate windows are those of viewers present. Lemmas take the operators one at a time from a sound pair to a
sound pair; an action composes them. `OwnHandles` keeps presences apart, `GrantsDiffer` says a change of grants that withdraws none leaves
some, `DetachingAllowed` that only the coordinator detaches. `NoGhostViewer` then needs that no admission fails half way (`LeasesOwned`), which follows from
`Publishable`, which follows from `FocusInv`: the state that an admission would leave can always be published. `AnnouncedIsCurrent` uses the same fact, since
only a call that publishes changes what viewers see.

**Claimed flags and fences.** `SidecarInv` is one statement, `Matches`, made of input leases and of feedback leases: a flag is set exactly if
the viewer's session has a lease, at most one has that session, ids are not ahead of the counter, and the lease is the same peer's. The late drop of a replaced session
finds nothing to clear because of the last two. `StreamFenceFinal` adds `GenerationsIssued`: a lease's generation is not ahead of the arbiter's counter, so a
new grant never has the generation of an old stream. `NeutralizingTransient` needs `BarredByMutation`: while a request is served,
only that request bars its viewer, so the completion's comparison of revisions does lift the bar.

**Host.** `HostRunsTheRegistry` says a step of the tasks is a step of the registry or leaves it alone, so the registry's theorems hold of
the composition; the host proofs import them as `RegistryFacts`. `TasksInv` adds the types and the stage of each input stream. The handoff is

    HandoffInv == KeysCurrent /\ JobsBegun /\ TransitionsReset /\ AdminServes /\ KeysGuarded /\ GenerationsPositive

The keys that are down and the event on its way are the current generation's. A transition ends in one of three ways: its own task completes it, the
admin task does, or the former holder's input stream gives its lease back. `TransitionsReset` and `AdminServes` say that the first two
have reset the device since the transition began; nothing went down after that, since every stream fails its owner
check. `KeysGuarded` says that keys are down only while the session in the slot has a stream with a guard still to run; a stream that gives its lease back has run
it, or never opened, and a session has one stream, so its device is at rest. `JobsBegun` and `TransitionsIssued` are what keep a task with a stale
transition id from completing a later transition. The refinement follows
from `SlotMove`, already proved of each registry step, and from `HandoffInv` in the two moves that need a closed slot with nothing down.

**Generation.** `GenInv` adds to the types of `MediaGeneration` what relates its parts: which source that is not given up runs in each
state of the lifecycle and which single task is starting one (`SourcesFollowLifecycle`), that the ids of all sources are used up (`SourceIdsUsed`: a
new source is never taken for an orphan), that each
lease is on the active generation with an id of its own (`TokensCounted`), that a task holding a lease
is doing nothing else (`HoldersLeased`: without it a task could drop a lease from under its own start),
and that nobody waits in a settled state (`WaitersWait`). The three properties of the
component follow from it at once; the work is that a start that succeeds finds no lease, which is why it may set
the count to 1, and that a release always finds its own generation active, so the code's early return for a foreign one is never
taken.

**Actuators.** `ActuatorInv` follows a setting from the policies to the encoder. What the policies want is what was requested, or it is in the queued plan
(`TargetFollowed`); what was requested is what the encoder was last told, or start has still to request it (`RequestsInStep`); of the requests start has
to make only the first can have a revision (`DraftsInOrder`); and a start that is under way is alone
(`StartsAlone`). Put together, an actuator with nothing left to do has told the encoder what the policies want, whatever timed out. Of each setting
all this is conditional on `known`: a coordinator that follows another remembers what the encoder was told from its first request on. The types are not
inductive without `DraftsInOrder`: publishing takes the request off the list, which must not be empty.

**Policies.** `AdaptiveInv` has three parts: registrations (`RegistrationsInv`: a viewer has one lease, a registration lives under the lease it was
made with and owns the contributor of its viewer, no
contributor outlives its registration; revisions tell nothing apart), evidence (`Earned`, `CleanCounted`: each counter of breaches, attempts or clean
windows is at most what the history
variables `strikes` and `streak` have counted in fresh reports), and detachments (`DetachedInv`). One turn of the coordinator evaluates every
contributor, so the lemmas are about
one contributor's record and are lifted over the set. The proof showed that two guards of `ObserveRecovering` exclude each other only because a report
of clean severity has clean pressure, which `Classify` makes true; without that fact the branch taken would be open. A raise is earned for any ladder of
bitrates because `Lowered` never raises, which the code's comparison with the current target makes so.

**Configuration.** `ConfigInv` says for each stage of a command what files and journal look like there (`SetStages`, `InstallStages`,
`EndStages`, `RunStage`), that a journal is whole (`JournalWhole`), and that evidence a commit would accept is evidence of a
run on trial (`EvidenceIsProof`). `RecoveryPossible` alone is not inductive: it says nothing of a command that is on its way to a journal. For the
refinement, the mapping reads the current revision off the journal while there is one: an installation is the step that writes `prepared`,
a rollback the one that writes `rolling_back`, a commit the one that writes `committing`, and everything after is a stutter. Then a crash, a
recovery and a clean-up change nothing the register shows.

**Video.** `CursorInv` adds to `CursorMatchesGroup` the shape of the publisher's record and of the track: only its last group can be open.
`SlotInv` adds to `SlotsExact` that an active page has nothing staged and that no acknowledgement exists for a generation to come; without the second
a reconnect could inherit one. The page's record goes through the three operators of a frame, which keep its session fields (`EnterRecoveryKeeps`,
`DecodeKeeps`, `ProcessKeeps`).

`PortalAccepts` rests on `AcceptInv`, which follows sequence numbers from the encoder to the receiver: the watch and the publisher's copy ascend, and the copy
holds what the replay cursor has not passed (`SourceInv`); every group begins with an IDR and what a later group holds is newer (`TrackInv`); each group that the
receiver has not reached holds frames newer than any it has read, and it and the delivery task agree on the newest (`PortalOrder`).
`DecoderChain` adds `ChainInv`: the frames in the channel ascend, a delta right behind its reference, and the decoder has the page's newest frame. The
clause that carries the
induction is the one about a delivery task that is not waiting for an IDR: the newest frame it handed over is the last one in the channel, or, when that is empty,
the one the page has. It also needs `SlotInv`, which makes the page's overflow of staged acknowledgements unreachable.

*Only model-checked* are the liveness properties, `ProposalResolves`, `OwnedTransitionEnds`, `EvictedSessionEnds`, `AdminAnswered`, `WaiterWakes` and
`InterruptedFinishes`: the prover has no rule for `WF` and `ENABLED`. Of their premises, `ClientReads` and `SomeClientReads` say what is assumed of
clients. The two `violation` runs refute their property, so there is nothing to prove. Every other property of a
run is stated by a theorem above.

## Not modelled

- Encoders, capture and device back ends: external libraries (GStreamer, PipeWire, uinput), modelled by what the code asks of them.
- Codecs, signatures, invitations: sequential functions over bytes with unit tests of their own.
- The authorization store's write protocol (`authorization.rs` 1053–1087): one atomic commit per mutation in `SessionRegistry`. A directory sync that
  fails after the rename leaves the new document on disk and the old state in memory.
- Parsing, validation and projection of a configuration document (`config.rs`), and an operator's editor that writes inside a command's critical
  section: no lock covers it.
- Audio, cursor and pointer feedback, the legacy v1 and media-v3 connections: one consumer each, without shared state beyond the registry claims that are modelled.
- The Portal's input delivery, view of focus and enrollment commands; the composition of the registry with the generation manager; rate windows of
  admissions, keyframes and feedback.
- Identity, routing, probes, relay spike, Decky launcher, packaging, website: no state that interleaves.

## Plan

Done, in this order: `FocusArbiter`, `SessionRegistry`, `ViewerHost` with `FocusSlot`, `MediaGeneration`, the encoder and the adaptive modules, the
video path, the configuration transaction with `ConfigRegister`, and the theorems above.

Every safety, action and refinement property that a run checks is a theorem; the liveness properties are TLC's. Next, to prove:

1. that a host whose resets may fail still implements a weaker slot, in which only a stream whose reset failed leaves keys down;
2. which parts of `Publishable` survive detachment, beyond the clauses of `FocusInv` that do.

Next, to model: the store's write protocol under the abstract store of `SessionRegistry`; the composition of `MediaGeneration` with the registry; the
Portal's view of focus.
