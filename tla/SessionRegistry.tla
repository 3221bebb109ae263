-------------------------- MODULE SessionRegistry --------------------------
(***************************************************************************)
(* The session registry of a Sigil host (server/session.rs): one exclusive *)
(* legacy client or a bounded roster of control-v2 viewers, the leases     *)
(* their connection tasks hold, the focus arbiter, the pending MoQ         *)
(* attachments, and the authorization store and admin service whose        *)
(* mutations reach the live roster.                                        *)
(*                                                                         *)
(* Each action is one critical section of the registry: what one call does *)
(* under the active/v2_state locks.  Work a task does between two calls is *)
(* interleaved with everybody else's calls.  A call that fails before it   *)
(* changes anything is not a step.  A viewer's nonce is abstracted to its  *)
(* session id: both are fresh per control session and a sidecar must show  *)
(* the one it was given.  VIEW is required of every grant the store        *)
(* persists, so a grant set is its input grants.                           *)
(***************************************************************************)
EXTENDS FocusArbiter, FiniteSets

CONSTANTS
  Peers,             \* endpoint ids
  LegacyPeers,       \* peers that connect with control v1
  MediaPeers,        \* v2 peers that get as far as their media attachment
  FeedbackPeers,     \* v2 peers that open a feedback connection
  InputPeers,        \* v2 peers that open an input stream
  InputGrants,       \* POINTER_KEYBOARD and GAMEPAD
  MaxViewers,        \* max_viewers
  Generations,       \* media generation ids the manager may hand out
  DetachViewers,     \* does the adaptive coordinator detach slow viewers?
  ResetCanFail,      \* can a reset of the virtual devices fail?
  MaxSession,        \* bound: session ids issued
  MaxRequests,       \* bound: grants and proposals after which nobody asks
  MaxStoreRevision   \* bound: authorization revisions

ASSUME RegistryAssumption ==
  /\ MaxViewers \in Nat \ {0}
  /\ MaxSession \in Nat /\ MaxRequests \in Nat /\ MaxStoreRevision \in Nat
  /\ Generations \subseteq Nat \ {0}
  /\ LegacyPeers \subseteq Peers /\ MediaPeers \subseteq Peers
  /\ FeedbackPeers \subseteq Peers /\ InputPeers \subseteq Peers
  /\ DetachViewers \in BOOLEAN /\ ResetCanFail \in BOOLEAN

VARIABLES
  active,       \* the legacy session, or NoLegacy
  viewers,      \* the v2 roster: [Peers -> viewer session or NoViewer]
  revision,     \* roster revision
  focus,        \* the focus arbiter
  media,        \* generation the roster is bound to; 0 = none
  live,         \* live_control_leases
  announced,    \* revision and focus of the last published snapshots
  pendingMoq,   \* attachments a control session expects
  nextSession,  \* next_session_id
  committed,    \* authorization_committed_revision
  store,        \* enrollments: [Peers -> enrollment]
  storeRev,     \* the store's committed revision
  admitting,    \* per peer, the authorization its connecting task carries
  mutation,     \* the admin request being served
  leases,       \* V2SessionLease objects that are alive
  inputs,       \* InputV2Lease objects that are alive
  feedbacks     \* v2 FeedbackLease objects that are alive

v2Vars == <<viewers, revision, focus, media, live, announced>>
authVars == <<store, storeRev, admitting, mutation>>
leaseVars == <<leases, inputs, feedbacks>>
vars == <<active, v2Vars, pendingMoq, nextSession, committed, authVars, leaseVars>>

----------------------------------------------------------------------------
\* Values.

NoViewer ==
  [ session |-> 0, presence |-> <<>>, grants |-> {}, arev |-> 0, crev |-> 0,
    neutralizing |-> FALSE, input |-> FALSE, feedback |-> FALSE, gen |-> 0 ]

NoLegacy ==
  [ remote |-> <<>>, session |-> 0, media |-> FALSE, input |-> FALSE,
    audio |-> FALSE, feedback |-> FALSE ]

NoAuthorization ==
  [ stage |-> "none", handle |-> <<>>, grants |-> {}, arev |-> 0, crev |-> 0 ]

NoMutation ==
  [ stage |-> "idle", peer |-> <<>>, handle |-> <<>>, previous |-> {},
    current |-> {}, revoked |-> FALSE, arev |-> 0, tid |-> 0 ]

Roster(vs) == {p \in Peers : vs[p].session # 0}
Candidate(v) == [presence |-> v.presence, session |-> v.session]
InputCapable(v) == v.grants # {}
HasLegacy == active.session # 0

IsViewer(p, sid) == sid # 0 /\ viewers[p].session = sid

\* is_v2_focus_owner, and the ownership claim_input_v2 asks for.
IsFocusOwner(p, sid, gen) ==
  IsViewer(p, sid) /\ EnsureHolder(focus, Candidate(viewers[p]), gen)

----------------------------------------------------------------------------
\* Snapshots.

\* SessionSnapshotV2::validate, as far as the registry can fail it.
RosterIdentitiesUnique(vs) ==
  \A p, q \in Roster(vs) : vs[p].presence = vs[q].presence => p = q
HolderInRoster(vs, f) ==
  IsHeld(f) => \E p \in Roster(vs) : Candidate(vs[p]) = f.who
ProposalValid(vs, f) ==
  HasProposal(f) =>
    /\ IsHeld(f) /\ f.proposal.holder = f.who
    /\ \E p \in Roster(vs) :
         Candidate(vs[p]) = f.proposal.requester /\ InputCapable(vs[p])
SnapshotValid(vs, f) ==
  RosterIdentitiesUnique(vs) /\ HolderInRoster(vs, f) /\ ProposalValid(vs, f)

FocusView(f) ==
  [phase |-> f.phase, who |-> f.who, gen |-> f.gen, proposal |-> f.proposal]

\* publish_v2_snapshots: one invalid snapshot and the call fails, with no
\* viewer told.
PublishFails == Roster(viewers') # {} /\ ~SnapshotValid(viewers', focus')
Publish ==
  announced' = IF Roster(viewers') # {} /\ ~PublishFails
               THEN [rev |-> revision', view |-> FocusView(focus')]
               ELSE announced

AdvanceAndPublish ==
  /\ revision' = revision + 1
  /\ Publish

\* Mutant of PublishIf: the change is not announced.
PublishNothing(changed) == UNCHANGED <<revision, announced>>

\* The tail of a call that publishes only when the arbiter changed.
PublishIf(changed) ==
  IF changed THEN AdvanceAndPublish ELSE UNCHANGED <<revision, announced>>

FreshSession ==
  /\ nextSession < MaxSession
  /\ nextSession' = nextSession + 1

----------------------------------------------------------------------------
\* The exclusive legacy client.

\* Mutant of Claim: the roster is consulted, not the control leases.
ClaimWhenRosterEmpty(p) ==
  /\ ~HasLegacy
  /\ Roster(viewers) = {}
  /\ FreshSession
  /\ active' = [NoLegacy EXCEPT !.remote = p, !.session = nextSession + 1,
                                !.media = TRUE]
  /\ UNCHANGED <<v2Vars, pendingMoq, committed, authVars, leaseVars>>

Claim(p) ==
  /\ ~HasLegacy
  /\ live = 0
  /\ FreshSession
  /\ active' = [NoLegacy EXCEPT !.remote = p, !.session = nextSession + 1,
                                !.media = TRUE]
  /\ UNCHANGED <<v2Vars, pendingMoq, committed, authVars, leaseVars>>

LegacySidecars == {"input", "audio", "feedback"}

\* claim_input, claim_audio and the legacy half of claim_feedback.
ClaimLegacySidecar(kind) ==
  /\ HasLegacy /\ active.media /\ ~active[kind]
  /\ active' = [active EXCEPT ![kind] = TRUE]
  /\ UNCHANGED <<v2Vars, pendingMoq, nextSession, committed, authVars, leaseVars>>

\* The slot stays taken until the media lease and every sidecar are gone.
LegacyAfter(a) ==
  IF a.media \/ a.input \/ a.audio \/ a.feedback THEN a ELSE NoLegacy

ReleaseLegacySidecar(kind) ==
  /\ HasLegacy /\ active[kind]
  /\ active' = LegacyAfter([active EXCEPT ![kind] = FALSE])
  /\ UNCHANGED <<v2Vars, pendingMoq, nextSession, committed, authVars, leaseVars>>

ReleaseLegacy ==
  /\ HasLegacy /\ active.media
  /\ active' = LegacyAfter([active EXCEPT !.media = FALSE])
  /\ pendingMoq' = {m \in pendingMoq : m.session # active.session}
  /\ UNCHANGED <<v2Vars, nextSession, committed, authVars, leaseVars>>

ExpectMoq ==
  /\ HasLegacy /\ active.media
  /\ \A m \in pendingMoq : m.session # active.session
  /\ pendingMoq' = pendingMoq \cup
       {[peer |-> active.remote, session |-> active.session, gen |-> 0, arev |-> 0]}
  /\ UNCHANGED <<active, v2Vars, nextSession, committed, authVars, leaseVars>>

----------------------------------------------------------------------------
\* Admission of a control-v2 viewer.

\* authorize_or_redeem_viewer: the task reads its enrollment from the store.
Authorize(p) ==
  /\ store[p].enrolled
  /\ admitting[p] = NoAuthorization
  /\ nextSession < MaxSession
  /\ admitting' = [admitting EXCEPT ![p] =
       [stage |-> "authorized", handle |-> <<p, store[p].nth>>,
        grants |-> store[p].grants, arev |-> store[p].arev, crev |-> storeRev]]
  /\ UNCHANGED <<active, v2Vars, pendingMoq, nextSession, committed, store,
                 storeRev, mutation, leaseVars>>

\* The part of claim_v2_authorized before it takes the locks.
CheckCommitted(p) ==
  /\ admitting[p].stage = "authorized"
  /\ IF admitting[p].crev >= committed
     THEN /\ committed' = admitting[p].crev
          /\ admitting' = [admitting EXCEPT ![p].stage = "checked"]
     ELSE /\ admitting' = [admitting EXCEPT ![p] = NoAuthorization]
          /\ UNCHANGED committed
  /\ UNCHANGED <<active, v2Vars, pendingMoq, nextSession, store, storeRev,
                 mutation, leaseVars>>

AdmissionOK(p) ==
  /\ ~HasLegacy
  /\ p \in Roster(viewers) \/ Cardinality(Roster(viewers)) < MaxViewers
  /\ \A q \in Roster(viewers) \ {p} : viewers[q].presence # admitting[p].handle

\* Mutant of AdmittedFocus: a replaced holder keeps the slot.
AdmittedFocusKeepsHolder(p) ==
  IF p \in Roster(viewers)
  THEN RetireCandidate(focus, Candidate(viewers[p])) ELSE focus

\* A reconnect replaces the peer's own session: its hold and its proposal go.
AdmittedFocus(p) ==
  LET c == Candidate(viewers[p]) IN
  IF p \in Roster(viewers)
  THEN RetireCandidate(BeginInvalidation(focus, c), c)
  ELSE focus

\* The transition a replaced holder leaves to its successor's task; 0 = none.
ReplacementTransition(p) ==
  IF p \in Roster(viewers) /\ HeldBy(focus, Candidate(viewers[p]))
  THEN focus.nextTid + 1 ELSE 0

NewViewer(p, sid) ==
  [NoViewer EXCEPT !.session = sid, !.presence = admitting[p].handle,
     !.grants = admitting[p].grants, !.arev = admitting[p].arev,
     !.crev = admitting[p].crev, !.gen = media]

\* The part of claim_v2_authorized under both locks.  When the snapshots do
\* not validate the call fails after the viewer is in the roster and the
\* lease is counted: nobody holds the lease that would undo it (orphan).
ClaimV2(p) ==
  /\ admitting[p].stage = "checked"
  /\ AdmissionOK(p)
  /\ FreshSession
  /\ focus' = AdmittedFocus(p)
  /\ viewers' = [viewers EXCEPT ![p] = NewViewer(p, nextSession + 1)]
  /\ live' = live + 1
  /\ AdvanceAndPublish
  /\ leases' = leases \cup
       {[peer |-> p, session |-> nextSession + 1, arev |-> admitting[p].arev,
         replaced |-> viewers[p].session, transition |-> ReplacementTransition(p),
         orphan |-> PublishFails]}
  /\ admitting' = [admitting EXCEPT ![p] = NoAuthorization]
  /\ UNCHANGED <<active, media, pendingMoq, committed, store, storeRev,
                 mutation, inputs, feedbacks>>

ClaimV2Rejected(p) ==
  /\ admitting[p].stage = "checked"
  /\ ~AdmissionOK(p)
  /\ admitting' = [admitting EXCEPT ![p] = NoAuthorization]
  /\ UNCHANGED <<active, v2Vars, pendingMoq, nextSession, committed, store,
                 storeRev, mutation, leaseVars>>

\* bind_v2_generation: the roster's descriptor is set before the viewer is
\* looked up, so a binding that fails on the viewer still leaves it behind.
BindV2Generation(l, g) ==
  /\ l \in leases /\ ~l.orphan
  /\ media \in {0, g}
  /\ media' = g
  /\ viewers' = IF IsViewer(l.peer, l.session)
                THEN [viewers EXCEPT ![l.peer].gen = g] ELSE viewers
  /\ UNCHANGED <<revision, focus, live>>
  /\ IF IsViewer(l.peer, l.session) THEN Publish ELSE UNCHANGED announced
  /\ UNCHANGED <<active, pendingMoq, nextSession, committed, authVars, leaseVars>>

\* Mutant of RetireReplaced: the predecessor's lease is counted out here too.
RetireReplacedCounts(l) ==
  /\ l \in leases /\ ~l.orphan /\ l.replaced # 0
  /\ leases' = (leases \ {l}) \cup {[l EXCEPT !.replaced = 0]}
  /\ live' = live - 1
  /\ UNCHANGED <<active, viewers, revision, focus, media, announced, pendingMoq,
                 nextSession, committed, authVars, inputs, feedbacks>>

\* retire_replaced_viewer: the predecessor's snapshot channel is closed.
RetireReplaced(l) ==
  /\ l \in leases /\ ~l.orphan /\ l.replaced # 0
  /\ leases' = (leases \ {l}) \cup {[l EXCEPT !.replaced = 0]}
  /\ UNCHANGED <<active, v2Vars, pendingMoq, nextSession, committed, authVars,
                 inputs, feedbacks>>

\* The capability is issued for the authorization revision of the lease and
\* the generation the viewer was bound to.
ExpectMoqV2(l) ==
  LET v == viewers[l.peer] IN
  /\ l \in leases /\ ~l.orphan
  /\ IsViewer(l.peer, l.session) /\ v.gen \in Generations
  /\ \A m \in pendingMoq : m.session # l.session
  /\ l.arev = v.arev
  /\ pendingMoq' = pendingMoq \cup
       {[peer |-> l.peer, session |-> l.session, gen |-> v.gen, arev |-> v.arev]}
  /\ UNCHANGED <<active, v2Vars, nextSession, committed, authVars, leaseVars>>

\* claim_moq_at: the attachment of the peer's current session, if its
\* capability still matches that session.
ClaimMoq(p) ==
  \E m \in pendingMoq :
    /\ m.peer = p
    /\ \/ HasLegacy /\ active.media /\ active.remote = p /\ m.session = active.session
       \/ /\ ~(HasLegacy /\ active.media /\ active.remote = p)
          /\ IsViewer(p, m.session)
          /\ m.gen = viewers[p].gen /\ m.arev = viewers[p].arev
    /\ pendingMoq' = pendingMoq \ {m}
    /\ UNCHANGED <<active, v2Vars, nextSession, committed, authVars, leaseVars>>

----------------------------------------------------------------------------
\* Focus commands.  A command names the revision its sender saw; only the
\* current one is accepted, so the generation and the proposal it names are
\* the arbiter's.  The rate window may refuse any command.

\* The forward task of a control session may issue commands for it.
Commands(l) == l \in leases /\ ~l.orphan /\ IsViewer(l.peer, l.session)

FocusCommandApplied(l, effect) ==
  /\ focus' = TrackCommand(effect, Candidate(viewers[l.peer]))
  /\ UNCHANGED viewers
  /\ AdvanceAndPublish
  /\ UNCHANGED <<active, media, live, pendingMoq, nextSession, committed,
                 authVars, leaseVars>>

\* Request and Preempt ask for input authorization that is not being withdrawn.
MayTakeFocus(v) == ~v.neutralizing /\ InputCapable(v)

\* due: the pending proposal's deadline has passed and request drops it first.
RequestFocus(l, due) ==
  LET c == Candidate(viewers[l.peer])
      f == IF due THEN ClearProposal(focus) ELSE focus IN
  /\ Commands(l) /\ MayTakeFocus(viewers[l.peer])
  /\ focus.nextGen + focus.nextPid < MaxRequests
  /\ due => HasProposal(focus)
  /\ RequestOK(f, c)
  /\ FocusCommandApplied(l, Request(f, c))

ApproveFocus(l) ==
  /\ Commands(l)
  /\ ApproveOK(focus, Candidate(viewers[l.peer]), focus.gen, focus.proposal.id)
  /\ FocusCommandApplied(l, Approve(focus))

DenyFocus(l) ==
  /\ Commands(l)
  /\ ApproveOK(focus, Candidate(viewers[l.peer]), focus.gen, focus.proposal.id)
  /\ FocusCommandApplied(l, Deny(focus))

ReleaseFocus(l) ==
  /\ Commands(l)
  /\ EnsureHolder(focus, Candidate(viewers[l.peer]), focus.gen)
  /\ FocusCommandApplied(l, Release(focus))

PreemptFocus(l) ==
  LET c == Candidate(viewers[l.peer]) IN
  /\ Commands(l) /\ MayTakeFocus(viewers[l.peer])
  /\ PreemptOK(focus, c, focus.gen)
  /\ FocusCommandApplied(l, Preempt(focus, c))

\* A command refused after its timestamp was recorded.  The holder's own
\* request is refused after an overdue proposal was dropped: the arbiter has
\* changed and nothing is published.
FocusCommandRefused(l, due) ==
  LET c == Candidate(viewers[l.peer]) IN
  /\ Commands(l)
  /\ due => HeldBy(focus, c) /\ MayTakeFocus(viewers[l.peer]) /\ HasProposal(focus)
  /\ focus' = TrackCommand(IF due THEN ClearProposal(focus) ELSE focus, c)
  /\ focus' # focus
  /\ UNCHANGED <<active, viewers, revision, media, live, announced, pendingMoq,
                 nextSession, committed, authVars, leaseVars>>

----------------------------------------------------------------------------
\* Focus changes that no command asks for.

\* invalidate_v2_focus, from the end of a control task.
InvalidateV2Focus(p, sid) ==
  LET c == Candidate(viewers[p]) IN
  /\ IsViewer(p, sid)
  /\ InvalidationChanges(focus, c)
  /\ focus' = BeginInvalidation(focus, c)
  /\ UNCHANGED viewers
  /\ AdvanceAndPublish
  /\ UNCHANGED <<active, media, live, pendingMoq, nextSession, committed,
                 authVars, leaseVars>>

\* Mutant of SuccessorValid: the successor is trusted to be still there.
SuccessorTrusted(tid) == TRUE

SuccessorValid(tid) ==
  \E p \in Roster(viewers) :
    /\ Candidate(viewers[p]) = TransitionSuccessor(focus, tid)
    /\ MayTakeFocus(viewers[p])

\* complete_v2_focus_transition; a transition that is over is left alone.
CompleteFocus(tid) ==
  /\ focus' = CompleteTransition(focus, tid, SuccessorValid(tid))
  /\ UNCHANGED viewers
  /\ PublishIf(CompletesTransition(focus, tid))

CompleteV2FocusTransition(tid) ==
  /\ CompletesTransition(focus, tid)
  /\ CompleteFocus(tid)
  /\ UNCHANGED <<active, media, live, pendingMoq, nextSession, committed,
                 authVars, leaseVars>>

\* Mutant of ExpireV2Focus: only activations expire.
ExpireActivationOnly ==
  /\ \E l \in leases : ~l.orphan
  /\ ActivationExpiryOK(focus)
  /\ focus' = BeginNeutralization(focus, NoCandidate)
  /\ UNCHANGED viewers
  /\ AdvanceAndPublish
  /\ UNCHANGED <<active, media, live, pendingMoq, nextSession, committed,
                 authVars, leaseVars>>

\* expire_v2_focus, from any forward task's tick.  A proposal is made after
\* the grant it wants and lives longer than the grant's activation deadline,
\* so an overdue proposal means an overdue activation, if one is pending.
ExpireV2Focus ==
  /\ \E l \in leases : ~l.orphan
  /\ \/ /\ ActivationExpiryOK(focus)
        /\ focus' = BeginNeutralization(focus, NoCandidate)
     \/ /\ HasProposal(focus) /\ focus.activation = NoActivation
        /\ focus' = ClearProposal(focus)
  /\ UNCHANGED viewers
  /\ AdvanceAndPublish
  /\ UNCHANGED <<active, media, live, pendingMoq, nextSession, committed,
                 authVars, leaseVars>>

----------------------------------------------------------------------------
\* Sidecars of a v2 viewer.

\* claim_input_v2.  The activation is settled before the second stream of a
\* viewer is refused.
ClaimInputV2(p) ==
  LET v == viewers[p] IN
  /\ IsFocusOwner(p, v.session, focus.gen)
  /\ focus' = MarkActivated(focus, Candidate(v), focus.gen)
  /\ IF v.input
     THEN /\ focus' # focus
          /\ UNCHANGED <<viewers, inputs>>
     ELSE /\ viewers' = [viewers EXCEPT ![p].input = TRUE]
          /\ inputs' = inputs \cup
               {[peer |-> p, session |-> v.session, gen |-> focus.gen]}
  /\ UNCHANGED <<active, revision, media, live, announced, pendingMoq,
                 nextSession, committed, authVars, leases, feedbacks>>

\* release_input, from the drop of the lease.  It also ends the transition
\* away from its session, without a successor.
ReleaseInputV2(i) ==
  LET mine == IsNeutralizing(focus) /\ focus.who.session = i.session IN
  /\ i \in inputs
  /\ inputs' = inputs \ {i}
  /\ viewers' = IF IsViewer(i.peer, i.session)
                THEN [viewers EXCEPT ![i.peer].input = FALSE] ELSE viewers
  /\ focus' = IF mine THEN CompleteTransition(focus, focus.tid, FALSE) ELSE focus
  /\ PublishIf(mine)
  /\ UNCHANGED <<active, media, live, pendingMoq, nextSession, committed,
                 authVars, leases, feedbacks>>

ClaimFeedbackV2(p) ==
  LET v == viewers[p] IN
  /\ p \in Roster(viewers)
  /\ ~(HasLegacy /\ active.media /\ active.remote = p)
  /\ v.crev = committed /\ ~v.feedback
  /\ viewers' = [viewers EXCEPT ![p].feedback = TRUE]
  /\ feedbacks' = feedbacks \cup
       {[peer |-> p, session |-> v.session, detaching |-> FALSE, tid |-> 0]}
  /\ UNCHANGED <<active, revision, focus, media, live, announced, pendingMoq,
                 nextSession, committed, authVars, leases, inputs>>

\* Mutant of ReleaseFeedbackV2: the flag of the peer's next session is cleared.
ReleaseFeedbackOfPeer(b) ==
  /\ b \in feedbacks
  /\ feedbacks' = feedbacks \ {b}
  /\ viewers' = IF b.peer \in Roster(viewers)
                THEN [viewers EXCEPT ![b.peer].feedback = FALSE] ELSE viewers
  /\ UNCHANGED <<active, revision, focus, media, live, announced, pendingMoq,
                 nextSession, committed, authVars, leases, inputs>>

ReleaseFeedbackV2(b) ==
  /\ b \in feedbacks
  /\ feedbacks' = feedbacks \ {b}
  /\ viewers' = IF IsViewer(b.peer, b.session)
                THEN [viewers EXCEPT ![b.peer].feedback = FALSE] ELSE viewers
  /\ UNCHANGED <<active, revision, focus, media, live, announced, pendingMoq,
                 nextSession, committed, authVars, leases, inputs>>

----------------------------------------------------------------------------
\* A viewer leaves.

MediaAfter(vs) == IF Roster(vs) = {} THEN 0 ELSE media

\* release, from the drop of the control lease.
ReleaseV2(l) ==
  LET c == Candidate(viewers[l.peer]) IN
  /\ l \in leases /\ ~l.orphan
  /\ leases' = leases \ {l}
  /\ live' = live - 1
  /\ IF IsViewer(l.peer, l.session)
     THEN /\ viewers' = [viewers EXCEPT ![l.peer] = NoViewer]
          /\ focus' = RetireCandidate(BeginInvalidation(focus, c), c)
          /\ media' = MediaAfter(viewers')
          /\ pendingMoq' = {m \in pendingMoq : m.session # l.session}
          /\ AdvanceAndPublish
     ELSE UNCHANGED <<viewers, focus, media, pendingMoq, revision, announced>>
  /\ UNCHANGED <<active, nextSession, committed, authVars, inputs, feedbacks>>

\* The feedback task of a viewer that stayed below the bitrate floor detaches
\* it in two calls.  The first invalidates its focus; a transition away from
\* it is neutralized before the second.
BeginDetach(b) ==
  LET c == Candidate(viewers[b.peer])
      connected == IsViewer(b.peer, b.session) IN
  /\ DetachViewers
  /\ b \in feedbacks /\ ~b.detaching
  /\ focus' = IF connected THEN BeginInvalidation(focus, c) ELSE focus
  /\ feedbacks' = (feedbacks \ {b}) \cup
       {[b EXCEPT !.detaching = TRUE,
                  !.tid = IF connected /\ HeldBy(focus, c) THEN focus'.tid ELSE 0]}
  /\ UNCHANGED viewers
  /\ PublishIf(connected /\ InvalidationChanges(focus, c))
  /\ UNCHANGED <<active, media, live, pendingMoq, nextSession, committed,
                 authVars, leases, inputs>>

\* Mutant of DisconnectV2Viewer: the rate limiter keeps the candidate.
DisconnectKeepsCandidate(b) ==
  /\ b \in feedbacks /\ b.detaching /\ IsViewer(b.peer, b.session)
  /\ ~CompletesTransition(focus, b.tid)
  /\ ~(IsHeld(focus) /\ focus.who.session = b.session)
  /\ viewers' = [viewers EXCEPT ![b.peer] = NoViewer]
  /\ media' = MediaAfter(viewers')
  /\ UNCHANGED focus
  /\ AdvanceAndPublish
  /\ pendingMoq' = {m \in pendingMoq : m.session # b.session}
  /\ UNCHANGED <<active, live, nextSession, committed, authVars, leaseVars>>

\* disconnect_v2_viewer, the second call.
DisconnectV2Viewer(b) ==
  /\ b \in feedbacks /\ b.detaching /\ IsViewer(b.peer, b.session)
  /\ ~CompletesTransition(focus, b.tid)
  /\ ~(IsHeld(focus) /\ focus.who.session = b.session)
  /\ viewers' = [viewers EXCEPT ![b.peer] = NoViewer]
  /\ focus' = RetireCandidate(focus, Candidate(viewers[b.peer]))
  /\ media' = MediaAfter(viewers')
  /\ AdvanceAndPublish
  /\ pendingMoq' = IF PublishFails THEN pendingMoq
                   ELSE {m \in pendingMoq : m.session # b.session}
  /\ UNCHANGED <<active, live, nextSession, committed, authVars, leaseVars>>

----------------------------------------------------------------------------
\* The authorization store and the serial admin service.

StoreStep(p, enrollment) ==
  /\ storeRev < MaxStoreRevision
  /\ storeRev' = storeRev + 1
  /\ store' = [store EXCEPT ![p] = enrollment]

\* The first handshake with an invitation enrolls the peer under a new handle.
RedeemInvitation(p, grants) ==
  /\ ~store[p].enrolled /\ admitting[p] = NoAuthorization
  /\ nextSession < MaxSession
  /\ StoreStep(p, [enrolled |-> TRUE, nth |-> store[p].nth + 1,
                   grants |-> grants, arev |-> storeRev + 1])
  /\ admitting' = [admitting EXCEPT ![p] =
       [stage |-> "authorized", handle |-> <<p, store[p].nth + 1>>,
        grants |-> grants, arev |-> storeRev + 1, crev |-> storeRev + 1]]
  /\ UNCHANGED <<active, v2Vars, pendingMoq, nextSession, committed, mutation,
                 leaseVars>>

CommitMutation(p, revoked, grants) ==
  /\ mutation.stage = "idle"
  /\ mutation' = [NoMutation EXCEPT !.stage = "committed", !.peer = p,
       !.handle = <<p, store[p].nth>>, !.previous = store[p].grants,
       !.current = grants, !.revoked = revoked, !.arev = storeRev + 1]
  /\ UNCHANGED <<active, v2Vars, pendingMoq, nextSession, committed, admitting,
                 leaseVars>>

RevokeViewer(p) ==
  /\ store[p].enrolled
  /\ StoreStep(p, [store[p] EXCEPT !.enrolled = FALSE, !.grants = {}])
  /\ CommitMutation(p, TRUE, {})

ReplaceViewerGrants(p, grants) ==
  /\ store[p].enrolled /\ grants # store[p].grants
  /\ StoreStep(p, [store[p] EXCEPT !.grants = grants, !.arev = storeRev + 1])
  /\ CommitMutation(p, FALSE, grants)

InputReduced(m) == m.previous \ m.current # {}

\* apply_authorization_mutation when the viewer is not connected under the
\* mutated handle, or already carries a later authorization.
MutationReachesViewer(m) ==
  /\ viewers[m.peer].session # 0
  /\ viewers[m.peer].presence = m.handle
  /\ viewers[m.peer].arev < m.arev

ApplyMutationElsewhere ==
  /\ mutation.stage = "committed"
  /\ ~MutationReachesViewer(mutation)
  /\ committed' = IF committed < mutation.arev THEN mutation.arev ELSE committed
  /\ mutation' = NoMutation
  /\ UNCHANGED <<active, v2Vars, pendingMoq, nextSession, store, storeRev,
                 admitting, leaseVars>>

MutatedViewer(v, m, transition) ==
  IF m.revoked THEN NoViewer
  ELSE [v EXCEPT !.arev = m.arev, !.crev = m.arev, !.grants = m.current,
                 !.neutralizing = IF InputReduced(m) THEN v.input \/ transition
                                  ELSE @]

ApplyAuthorizationMutation ==
  LET m == mutation
      v == viewers[m.peer]
      c == Candidate(v)
      withdrawn == m.revoked \/ InputReduced(m)
      transition == withdrawn /\ HeldBy(focus, c)
      f == IF withdrawn THEN BeginInvalidation(focus, c) ELSE focus IN
  /\ m.stage = "committed"
  /\ MutationReachesViewer(m)
  /\ committed' = IF committed < m.arev THEN m.arev ELSE committed
  /\ viewers' = [viewers EXCEPT ![m.peer] = MutatedViewer(v, m, transition)]
  /\ focus' = IF m.revoked THEN RetireCandidate(f, c) ELSE f
  /\ pendingMoq' = IF m.revoked THEN {x \in pendingMoq : x.session # v.session}
                   ELSE pendingMoq
  /\ AdvanceAndPublish
  /\ mutation' = IF (v.input \/ transition) /\ ~PublishFails
                 THEN [m EXCEPT !.stage = "neutralize",
                                !.tid = IF transition THEN f.tid ELSE 0]
                 ELSE NoMutation
  /\ UNCHANGED <<active, media, live, nextSession, store, storeRev, admitting,
                 leaseVars>>

\* apply_mutation: the devices are reset, the transition is completed.
NeutralizeMutation ==
  /\ mutation.stage = "neutralize"
  /\ CompleteFocus(mutation.tid)
  /\ mutation' = [mutation EXCEPT !.stage = "complete"]
  /\ UNCHANGED <<active, media, live, pendingMoq, nextSession, committed, store,
                 storeRev, admitting, leaseVars>>

\* A failed reset leaves the request with an error and the rest undone.
NeutralizeMutationFails ==
  /\ ResetCanFail
  /\ mutation.stage = "neutralize"
  /\ mutation' = NoMutation
  /\ UNCHANGED <<active, v2Vars, pendingMoq, nextSession, committed, store,
                 storeRev, admitting, leaseVars>>

\* Mutant of CompleteAuthorizationNeutralization: the viewer stays barred.
CompleteLeavesBarred ==
  /\ mutation.stage = "complete"
  /\ mutation' = NoMutation
  /\ UNCHANGED <<active, v2Vars, pendingMoq, nextSession, committed, store,
                 storeRev, admitting, leaseVars>>

CompleteAuthorizationNeutralization ==
  LET p == mutation.peer IN
  /\ mutation.stage = "complete"
  /\ viewers' = IF viewers[p].arev = mutation.arev
                THEN [viewers EXCEPT ![p].neutralizing = FALSE] ELSE viewers
  /\ mutation' = NoMutation
  /\ UNCHANGED <<active, revision, focus, media, live, announced, pendingMoq,
                 nextSession, committed, store, storeRev, admitting, leaseVars>>

----------------------------------------------------------------------------
\* The host starts with the enrollments it loaded: here, any set of peers, each
\* with every input grant.

Init ==
  /\ active = NoLegacy
  /\ viewers = [p \in Peers |-> NoViewer]
  /\ revision = 0 /\ media = 0 /\ live = 0
  /\ focus = NewArbiter
  /\ announced = [rev |-> 0, view |-> FocusView(NewArbiter)]
  /\ pendingMoq = {}
  /\ nextSession = 0
  /\ committed = 1
  /\ store \in [Peers ->
       {[enrolled |-> TRUE, nth |-> 1, grants |-> InputGrants, arev |-> 1],
        [enrolled |-> FALSE, nth |-> 0, grants |-> {}, arev |-> 0]}]
  /\ storeRev = 1
  /\ admitting = [p \in Peers |-> NoAuthorization]
  /\ mutation = NoMutation
  /\ leases = {} /\ inputs = {} /\ feedbacks = {}

LegacyStep ==
  \/ \E p \in LegacyPeers : Claim(p)
  \/ \E kind \in LegacySidecars :
       ClaimLegacySidecar(kind) \/ ReleaseLegacySidecar(kind)
  \/ ReleaseLegacy
  \/ ExpectMoq

AdmissionStep ==
  \E p \in Peers :
    \/ Authorize(p) \/ CheckCommitted(p) \/ ClaimV2(p) \/ ClaimV2Rejected(p)

MediaStep ==
  \/ \E p \in Peers : ClaimMoq(p)
  \/ \E l \in {x \in leases : x.peer \in MediaPeers} :
       \/ \E g \in Generations : BindV2Generation(l, g)
       \/ ExpectMoqV2(l)

LeaseStep == \E l \in leases : RetireReplaced(l) \/ ReleaseV2(l)

CommandStep ==
  \E l \in leases :
    \/ \E due \in BOOLEAN : RequestFocus(l, due) \/ FocusCommandRefused(l, due)
    \/ ApproveFocus(l) \/ DenyFocus(l) \/ ReleaseFocus(l) \/ PreemptFocus(l)

FocusStep ==
  \/ \E l \in {x \in leases : ~x.orphan} : InvalidateV2Focus(l.peer, l.session)
  \/ CompleteV2FocusTransition(focus.tid)
  \/ ExpireV2Focus

SidecarStep ==
  \/ \E p \in InputPeers : ClaimInputV2(p)
  \/ \E p \in FeedbackPeers : ClaimFeedbackV2(p)
  \/ \E i \in inputs : ReleaseInputV2(i)
  \/ \E b \in feedbacks : ReleaseFeedbackV2(b) \/ BeginDetach(b) \/ DisconnectV2Viewer(b)

AuthorizationStep ==
  \/ \E p \in Peers : RevokeViewer(p)
  \/ \E p \in Peers, g \in SUBSET InputGrants :
       ReplaceViewerGrants(p, g) \/ RedeemInvitation(p, g)
  \/ ApplyMutationElsewhere \/ ApplyAuthorizationMutation
  \/ NeutralizeMutation \/ NeutralizeMutationFails
  \/ CompleteAuthorizationNeutralization

Next ==
  \/ LegacyStep \/ AdmissionStep \/ MediaStep \/ LeaseStep \/ CommandStep
  \/ FocusStep \/ SidecarStep \/ AuthorizationStep

Spec == Init /\ [][Next]_vars

----------------------------------------------------------------------------
\* Types.

Handles == Peers \X Nat
Candidates == [presence : Handles, session : Nat \ {0}] \cup {NoCandidate}
Arbiters ==
  [ phase : {"vacant", "held", "neutralizing"}, who : Candidates, gen : Nat,
    tid : Nat,
    proposal : [id : Nat, requester : Candidates, holder : Candidates],
    successor : Candidates, activation : [who : Candidates, gen : Nat],
    nextGen : Nat, nextTid : Nat, nextPid : Nat, keys : SUBSET Candidates ]
ViewerSessions ==
  [ session : Nat \ {0}, presence : Handles, grants : SUBSET InputGrants,
    arev : Nat, crev : Nat, neutralizing : BOOLEAN, input : BOOLEAN,
    feedback : BOOLEAN, gen : Nat ]
LegacySessions ==
  [ remote : Peers, session : Nat \ {0}, media : BOOLEAN, input : BOOLEAN,
    audio : BOOLEAN, feedback : BOOLEAN ]
Authorizations ==
  [ stage : {"authorized", "checked"}, handle : Handles,
    grants : SUBSET InputGrants, arev : Nat, crev : Nat ]
Mutations ==
  [ stage : {"committed", "neutralize", "complete"}, peer : Peers,
    handle : Handles, previous : SUBSET InputGrants,
    current : SUBSET InputGrants, revoked : BOOLEAN, arev : Nat, tid : Nat ]

TypeOK ==
  /\ active \in LegacySessions \cup {NoLegacy}
  /\ viewers \in [Peers -> ViewerSessions \cup {NoViewer}]
  /\ revision \in Nat /\ media \in Nat /\ live \in Nat
  /\ focus \in Arbiters
  /\ announced.rev \in Nat
  /\ pendingMoq \subseteq [peer : Peers, session : Nat, gen : Nat, arev : Nat]
  /\ nextSession \in Nat /\ committed \in Nat /\ storeRev \in Nat
  /\ store \in [Peers -> [enrolled : BOOLEAN, nth : Nat,
                          grants : SUBSET InputGrants, arev : Nat]]
  /\ admitting \in [Peers -> Authorizations \cup {NoAuthorization}]
  /\ mutation \in Mutations \cup {NoMutation}
  /\ leases \subseteq [peer : Peers, session : Nat \ {0}, arev : Nat,
                       replaced : Nat, transition : Nat, orphan : BOOLEAN]
  /\ inputs \subseteq [peer : Peers, session : Nat \ {0}, gen : Nat]
  /\ feedbacks \subseteq [peer : Peers, session : Nat \ {0},
                          detaching : BOOLEAN, tid : Nat]

----------------------------------------------------------------------------
\* Properties.

\* The legacy client and the v2 roster exclude each other: claim and
\* claim_v2_authorized check each other's state under both locks, and the
\* count of control leases covers every viewer that is still in the roster.
LegacyExclusive == HasLegacy => live = 0 /\ Roster(viewers) = {}

\* A viewer is in the roster only while the control task that will remove it
\* holds its lease: no call leaves a viewer behind that nobody releases.
NoGhostViewer ==
  \A p \in Roster(viewers) :
    \E l \in leases : l.peer = p /\ l.session = viewers[p].session /\ ~l.orphan

\* The session that holds the slot is in the roster, has an input grant and
\* is not one whose input authorization is being withdrawn, whatever
\* revocations, replacements and handoffs ran before.
HolderEligible ==
  IsHeld(focus) =>
    \E p \in Roster(viewers) :
      Candidate(viewers[p]) = focus.who /\ MayTakeFocus(viewers[p])

\* Whatever call ends, the state it leaves is one SessionSnapshotV2::validate
\* accepts, so no later call can fail on publishing it.
Publishable == SnapshotValid(viewers, focus)

\* A pending activation is the current holder's.  Were it another's, the
\* ensure_holder in begin_activation_expiry would fail every tick of every
\* control task, and each would end its session.
ActivationIsHolders ==
  focus.activation # NoActivation =>
    EnsureHolder(focus, focus.activation.who, focus.activation.gen)

\* The rate limiter remembers timestamps of connected sessions only; every
\* way out of the roster retires the session's candidate.
RateKeysBounded ==
  \A c \in focus.keys : \E p \in Roster(viewers) : Candidate(viewers[p]) = c

\* A viewer's claimed flags say what leases exist: a session never has two
\* input streams, and a flag is not left set once its stream is gone.
SidecarFlagsExact ==
  /\ \A p \in Roster(viewers) :
       /\ viewers[p].input <=> \E i \in inputs : i.session = viewers[p].session
       /\ viewers[p].feedback <=> \E b \in feedbacks : b.session = viewers[p].session
  /\ \A i, j \in inputs : i.session = j.session => i = j
  /\ \A b, d \in feedbacks : b.session = d.session => b = d

\* A request that withdrew an input grant and is answered without an error has
\* let its viewer ask for focus again, under whichever session and authorization
\* the viewer has by then (complete_authorization_neutralization).
NeutralizingTransient ==
  [][mutation.stage = "complete" /\ mutation'.stage # "complete"
     => ~viewers'[mutation.peer].neutralizing]_vars

\* What viewers were last told is the arbiter's state at the current
\* revision, except that a proposal may have lapsed without being announced.
AnnouncedIsCurrent ==
  LET shown == announced.view
      now == FocusView(focus) IN
  Roster(viewers) # {} =>
    /\ announced.rev = revision
    /\ \/ shown = now
       \/ now.proposal = NoProposal /\ [shown EXCEPT !.proposal = NoProposal] = now

\* The slot is never taken from one holder and given to another in one step:
\* a held slot passes through neutralizing before anybody else holds it.
NoDirectHandoff ==
  [][IsHeld(focus) /\ IsHeld(focus') => focus'.who = focus.who /\ focus'.gen = focus.gen]_vars

\* An input stream that lost the slot never owns it again, even when its
\* session is granted focus anew: the new grant has another generation.
StreamFenceFinal ==
  [][\A i \in inputs \cap inputs' :
       ~IsFocusOwner(i.peer, i.session, i.gen)
         => ~IsFocusOwner(i.peer, i.session, i.gen)']_vars

\* What the documentation or a comment says and a call can break.

\* docs/sigil-appliance-enrollment-reset-v1.md: a mutation is acknowledged only
\* after the live registry has applied it.
AcknowledgedMutationIsLive ==
  mutation.stage = "idle" =>
    \A p \in Roster(viewers) :
      store[p].enrolled /\ viewers[p].grants \subseteq store[p].grants
=============================================================================
