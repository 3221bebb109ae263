------------------------ MODULE RegistryFocusProofs ------------------------
(***************************************************************************)
(* What the registry promises of the slot and of its viewers: the holder   *)
(* is eligible, the snapshots validate and are current, no lease is lost,  *)
(* the rate limiter and the claimed flags follow the sessions, an input    *)
(* stream that lost the slot stays out.  For every value of the constants. *)
(***************************************************************************)
EXTENDS SessionRegistryProofs

----------------------------------------------------------------------------
\* The invariant.  The roster and the arbiter are two structures that every
\* call changes together; what holds between them is stated of any roster vs
\* and any arbiter f, so that the operators can be taken one at a time.

Present(vs, c) == \E p \in Roster(vs) : Candidate(vs[p]) = c
Capable(vs, c) == \E p \in Roster(vs) : Candidate(vs[p]) = c /\ InputCapable(vs[p])
Eligible(vs, c) == \E p \in Roster(vs) : Candidate(vs[p]) = c /\ MayTakeFocus(vs[p])

\* With detachment on, a viewer can propose between the two calls that detach
\* it and leave its proposal behind; nothing else can.
FocusSound(vs, f) ==
  /\ IsHeld(f) => Eligible(vs, f.who)
  /\ HasProposal(f) =>
       /\ IsHeld(f) /\ f.proposal.holder = f.who
       /\ DetachViewers \/ Capable(vs, f.proposal.requester)
  /\ \A c \in f.keys : Present(vs, c)

\* A handle names its peer: two viewers never share a presence.
OwnHandles ==
  /\ \A p \in Peers : admitting[p] # NoAuthorization => admitting[p].handle[1] = p
  /\ \A p \in Roster(viewers) : viewers[p].presence[1] = p

\* A change of grants that withdraws none leaves some.
GrantsDiffer ==
  mutation.stage = "committed" /\ ~mutation.revoked =>
    mutation.previous # mutation.current

DetachingAllowed == \A b \in feedbacks : b.detaching => DetachViewers

FocusInv == OwnHandles /\ GrantsDiffer /\ DetachingAllowed /\ FocusSound(viewers, focus)

LeasesOwned == \A l \in leases : ~l.orphan

GenerationsIssued ==
  /\ focus.gen \leq focus.nextGen
  /\ \A i \in inputs : i.gen \leq focus.nextGen

\* While its request is served, a viewer is barred only by that request.
BarredByMutation ==
  mutation.stage \in {"neutralize", "complete"} =>
    (viewers[mutation.peer].neutralizing => viewers[mutation.peer].arev = mutation.arev)

----------------------------------------------------------------------------
\* What the arbiter's operators do to the fields the invariant reads.

SameView(f, g) ==
  g.phase = f.phase /\ g.who = f.who /\ g.gen = f.gen /\ g.proposal = f.proposal

LEMMA ArbiterFields ==
  ASSUME NEW f \in Arbiters, NEW c \in Candidates, NEW gen \in Nat
  PROVE  /\ SameView(f, TrackCommand(f, c))
         /\ TrackCommand(f, c).keys = f.keys \cup {c}
         /\ TrackCommand(f, c).nextGen = f.nextGen
         /\ SameView(f, RetireCandidate(f, c))
         /\ RetireCandidate(f, c).keys = f.keys \ {c}
         /\ RetireCandidate(f, c).nextGen = f.nextGen
         /\ SameView(f, MarkActivated(f, c, gen))
         /\ MarkActivated(f, c, gen).keys = f.keys
         /\ MarkActivated(f, c, gen).nextGen = f.nextGen
<1>1. SameView(f, TrackCommand(f, c)) /\ TrackCommand(f, c).keys = f.keys \cup {c}
      /\ TrackCommand(f, c).nextGen = f.nextGen
  BY DEF SameView, TrackCommand, Arbiters
<1>2. SameView(f, RetireCandidate(f, c)) /\ RetireCandidate(f, c).keys = f.keys \ {c}
      /\ RetireCandidate(f, c).nextGen = f.nextGen
  BY DEF SameView, RetireCandidate, Arbiters
<1>3. SameView(f, MarkActivated(f, c, gen)) /\ MarkActivated(f, c, gen).keys = f.keys
      /\ MarkActivated(f, c, gen).nextGen = f.nextGen
  BY DEF SameView, MarkActivated, Arbiters
<1> QED BY <1>1, <1>2, <1>3

LEMMA ClearedFields ==
  ASSUME NEW f \in Arbiters
  PROVE  LET g == ClearProposal(f) IN
         /\ g.phase = f.phase /\ g.who = f.who /\ g.gen = f.gen
         /\ g.proposal = NoProposal /\ g.keys = f.keys /\ g.nextGen = f.nextGen
BY DEF ClearProposal, Arbiters

LEMMA GrantFields ==
  ASSUME NEW f \in Arbiters, NEW c \in Candidates
  PROVE  LET g == Grant(f, c) IN
         /\ g.phase = "held" /\ g.who = c /\ g.gen = f.nextGen + 1
         /\ g.proposal = f.proposal /\ g.keys = f.keys /\ g.nextGen = f.nextGen + 1
BY DEF Grant, Arbiters

LEMMA NeutralizationFields ==
  ASSUME NEW f \in Arbiters, NEW c \in Candidates
  PROVE  LET g == BeginNeutralization(f, c) IN
         /\ g.phase = "neutralizing" /\ g.who = f.who /\ g.gen = f.gen
         /\ g.proposal = NoProposal /\ g.keys = f.keys /\ g.nextGen = f.nextGen
BY DEF BeginNeutralization, Arbiters

LEMMA CompletionFields ==
  ASSUME NEW f \in Arbiters, NEW tid, NEW valid, CompletesTransition(f, tid)
  PROVE  LET g == CompleteTransition(f, tid, valid) IN
         /\ g.proposal = NoProposal /\ g.keys = f.keys
         /\ \/ /\ g.phase = "vacant" /\ g.gen = 0 /\ g.nextGen = f.nextGen
            \/ /\ g.phase = "held" /\ valid
               /\ f.successor # NoCandidate /\ g.who = f.successor
               /\ g.gen = f.nextGen + 1 /\ g.nextGen = f.nextGen + 1
<1> DEFINE g == [ClearProposal(f) EXCEPT !.successor = NoCandidate]
           v == [g EXCEPT !.phase = "vacant", !.who = NoCandidate, !.gen = 0,
                          !.tid = 0, !.activation = NoActivation]
<1>1. g \in Arbiters
  <2>1. ClearProposal(f) \in Arbiters BY NoneTypes, ArbiterOperators
  <2> QED BY <2>1, NoneTypes DEF Arbiters
<1>2. g.proposal = NoProposal /\ g.keys = f.keys /\ g.nextGen = f.nextGen
  <2>1. ClearProposal(f) \in Arbiters BY NoneTypes, ArbiterOperators
  <2>2. /\ g.proposal = ClearProposal(f).proposal /\ g.keys = ClearProposal(f).keys
        /\ g.nextGen = ClearProposal(f).nextGen
    BY <2>1 DEF Arbiters
  <2> QED BY <2>2, ClearedFields
<1>3. /\ v.proposal = g.proposal /\ v.keys = g.keys /\ v.phase = "vacant"
      /\ v.gen = 0 /\ v.nextGen = g.nextGen
  BY <1>1 DEF Arbiters
<1>4. f.successor \in Candidates BY DEF Arbiters
<1> HIDE DEF g, v
<1>5. CompleteTransition(f, tid, valid) =
        IF valid /\ f.successor # NoCandidate THEN Grant(g, f.successor) ELSE v
  BY DEF CompleteTransition, g, v
<1>6. CASE valid /\ f.successor # NoCandidate
  BY <1>1, <1>2, <1>4, <1>5, <1>6, GrantFields
<1>7. CASE ~(valid /\ f.successor # NoCandidate) BY <1>2, <1>3, <1>5, <1>7
<1> QED BY <1>6, <1>7

----------------------------------------------------------------------------
\* Soundness under a change of the arbiter alone.

LEMMA SameViewSound ==
  ASSUME NEW vs, NEW f, NEW g, FocusSound(vs, f), SameView(f, g), g.keys \subseteq f.keys
  PROVE  FocusSound(vs, g)
BY DEF FocusSound, SameView, IsHeld, HasProposal

LEMMA TrackedSound ==
  ASSUME NEW vs, NEW f \in Arbiters, NEW c \in Candidates, FocusSound(vs, f), Present(vs, c)
  PROVE  FocusSound(vs, TrackCommand(f, c))
BY ArbiterFields DEF FocusSound, SameView, IsHeld, HasProposal

LEMMA ClearedSound ==
  ASSUME NEW vs, NEW f \in Arbiters, FocusSound(vs, f)
  PROVE  FocusSound(vs, ClearProposal(f))
BY ClearedFields DEF FocusSound, IsHeld, HasProposal, NoProposal

LEMMA NeutralizedSound ==
  ASSUME NEW vs, NEW f \in Arbiters, NEW c \in Candidates, FocusSound(vs, f)
  PROVE  FocusSound(vs, BeginNeutralization(f, c))
BY NeutralizationFields DEF FocusSound, IsHeld, HasProposal, NoProposal

LEMMA RequestedSound ==
  ASSUME NEW vs, NEW f \in Arbiters, NEW c \in Candidates, FocusSound(vs, f),
         Eligible(vs, c), RequestOK(f, c)
  PROVE  FocusSound(vs, Request(f, c))
<1>1. CASE f.phase = "vacant"
  <2>1. ~HasProposal(f) BY <1>1 DEF FocusSound, IsHeld
  <2> QED BY <1>1, <2>1, GrantFields DEF Request, FocusSound, IsHeld, HasProposal
<1>2. CASE f.phase # "vacant"
  <2> DEFINE g == Request(f, c)
  <2>1. /\ g.phase = f.phase /\ g.who = f.who /\ g.keys = f.keys
        /\ g.proposal = [id |-> f.nextPid + 1, requester |-> c, holder |-> f.who]
    BY <1>2 DEF Request, Arbiters
  <2>2. IsHeld(f) BY <1>2 DEF RequestOK
  <2>3. Capable(vs, c) BY DEF Eligible, Capable, MayTakeFocus
  <2> HIDE DEF g
  <2> QED BY <2>1, <2>2, <2>3 DEF FocusSound, IsHeld, HasProposal, g
<1> QED BY <1>1, <1>2

LEMMA CompletedSound ==
  ASSUME NEW vs, NEW f \in Arbiters, NEW tid, NEW valid, FocusSound(vs, f),
         valid /\ CompletesTransition(f, tid) => Eligible(vs, f.successor)
  PROVE  FocusSound(vs, CompleteTransition(f, tid, valid))
<1>1. CASE ~CompletesTransition(f, tid) BY <1>1 DEF CompleteTransition
<1>2. CASE CompletesTransition(f, tid)
  BY <1>2, CompletionFields DEF FocusSound, IsHeld, HasProposal, NoProposal
<1> QED BY <1>1, <1>2

----------------------------------------------------------------------------
\* Soundness under a change of the roster.

\* Nobody but c leaves the roster or becomes less eligible.
KeptBut(vs, ws, c) ==
  \A d : d # c =>
    /\ Present(vs, d) => Present(ws, d)
    /\ Capable(vs, d) => Capable(ws, d)
    /\ Eligible(vs, d) => Eligible(ws, d)

LEMMA KeptOthers ==
  ASSUME NEW vs, NEW ws, NEW p, DOMAIN vs = Peers, NEW v, ws = [vs EXCEPT ![p] = v]
  PROVE  KeptBut(vs, ws, Candidate(vs[p]))
<1> SUFFICES ASSUME NEW q \in Roster(vs), Candidate(vs[q]) # Candidate(vs[p])
             PROVE  q \in Roster(ws) /\ ws[q] = vs[q]
  BY DEF KeptBut, Present, Capable, Eligible
<1> QED BY DEF Roster

\* A viewer that keeps its candidate and stays as eligible as it was.
LEMMA KeptAll ==
  ASSUME NEW vs, NEW ws, NEW f, FocusSound(vs, f),
         \A p \in Roster(vs) :
           /\ p \in Roster(ws) /\ Candidate(ws[p]) = Candidate(vs[p])
           /\ InputCapable(vs[p]) => InputCapable(ws[p])
           /\ MayTakeFocus(vs[p]) => MayTakeFocus(ws[p])
  PROVE  FocusSound(ws, f)
<1>1. \A d : /\ Present(vs, d) => Present(ws, d)
             /\ Capable(vs, d) => Capable(ws, d)
             /\ Eligible(vs, d) => Eligible(ws, d)
  BY DEF Present, Capable, Eligible
<1> QED BY <1>1 DEF FocusSound

LEMMA InvalidatedSound ==
  ASSUME NEW vs, NEW ws, NEW f \in Arbiters, NEW c \in Candidates,
         FocusSound(vs, f), KeptBut(vs, ws, c)
  PROVE  /\ FocusSound(ws, RetireCandidate(BeginInvalidation(f, c), c))
         /\ Present(vs, c) /\ Present(ws, c) => FocusSound(ws, BeginInvalidation(f, c))
<1> DEFINE g == BeginInvalidation(f, c)
<1>1. g \in Arbiters
  <2>1. 0 \in Nat /\ FALSE \in BOOLEAN OBVIOUS
  <2> QED BY <2>1, ArbiterCommands
<1>2. g.keys = f.keys
  BY NoneTypes, ClearedFields, NeutralizationFields DEF BeginInvalidation
<1>3. FocusSound(vs, g) BY NoneTypes, ClearedSound, NeutralizedSound DEF BeginInvalidation
<1>4. ~HeldBy(g, c)
  BY NoneTypes, ClearedFields, NeutralizationFields DEF BeginInvalidation, HeldBy, IsHeld
<1>5. ~Involves(g, c)
  BY NoneTypes, ClearedFields, NeutralizationFields
     DEF BeginInvalidation, Involves, HasProposal, NoProposal
<1> HIDE DEF g
<1>6. IsHeld(g) => Eligible(ws, g.who)
  BY <1>3, <1>4 DEF FocusSound, KeptBut, HeldBy
<1>7. HasProposal(g) => /\ IsHeld(g) /\ g.proposal.holder = g.who
                        /\ DetachViewers \/ Capable(ws, g.proposal.requester)
  BY <1>3, <1>5 DEF FocusSound, KeptBut, Involves
<1>8. \A d \in g.keys \ {c} : Present(ws, d) BY <1>3 DEF FocusSound, KeptBut
<1>9. FocusSound(ws, RetireCandidate(g, c))
  BY <1>1, <1>6, <1>7, <1>8, ArbiterFields DEF FocusSound, SameView, IsHeld, HasProposal
<1>10. Present(ws, c) => FocusSound(ws, g) BY <1>6, <1>7, <1>8 DEF FocusSound
<1> QED BY <1>9, <1>10 DEF g

----------------------------------------------------------------------------
\* What a call that writes a flag of a viewer leaves alone.

SameViewers ==
  \A p \in Peers :
    /\ viewers'[p].session = viewers[p].session
    /\ viewers'[p].presence = viewers[p].presence
    /\ viewers'[p].grants = viewers[p].grants
    /\ viewers'[p].neutralizing \in {viewers[p].neutralizing, FALSE}

LEMMA ViewerShape ==
  ASSUME TypeOK, NEW p \in Peers
  PROVE  viewers[p] \in
           [session : Nat, presence : Handles \cup {<<>>}, grants : SUBSET InputGrants,
            arev : Nat, crev : Nat, neutralizing : BOOLEAN, input : BOOLEAN,
            feedback : BOOLEAN, gen : Nat]
<1>1. CASE viewers[p] = NoViewer BY <1>1 DEF NoViewer
<1>2. CASE viewers[p] \in ViewerSessions BY <1>2 DEF ViewerSessions
<1> QED BY <1>1, <1>2 DEF TypeOK

LEMMA FlagWrite ==
  ASSUME TypeOK, NEW q \in Peers, NEW b,
         \/ UNCHANGED viewers
         \/ viewers' = [viewers EXCEPT ![q].gen = b]
         \/ viewers' = [viewers EXCEPT ![q].input = b]
         \/ viewers' = [viewers EXCEPT ![q].feedback = b]
         \/ viewers' = [viewers EXCEPT ![q].neutralizing = FALSE]
  PROVE  SameViewers
<1> SUFFICES ASSUME NEW p \in Peers
             PROVE  /\ viewers'[p].session = viewers[p].session
                    /\ viewers'[p].presence = viewers[p].presence
                    /\ viewers'[p].grants = viewers[p].grants
                    /\ viewers'[p].neutralizing \in {viewers[p].neutralizing, FALSE}
  BY DEF SameViewers
<1>1. \/ viewers'[p] = viewers[p]
      \/ viewers'[p] = [viewers[p] EXCEPT !.gen = b]
      \/ viewers'[p] = [viewers[p] EXCEPT !.input = b]
      \/ viewers'[p] = [viewers[p] EXCEPT !.feedback = b]
      \/ viewers'[p] = [viewers[p] EXCEPT !.neutralizing = FALSE]
  BY DEF TypeOK
<1> QED BY <1>1, ViewerShape

LEMMA SameViewersSound ==
  ASSUME SameViewers, NEW f, FocusSound(viewers, f)
  PROVE  FocusSound(viewers', f)
<1>1. ASSUME NEW p \in Roster(viewers)
      PROVE  /\ p \in Roster(viewers') /\ Candidate(viewers'[p]) = Candidate(viewers[p])
             /\ InputCapable(viewers[p]) => InputCapable(viewers'[p])
             /\ MayTakeFocus(viewers[p]) => MayTakeFocus(viewers'[p])
  BY <1>1 DEF SameViewers, Roster, Candidate, InputCapable, MayTakeFocus
<1> QED BY <1>1, KeptAll

----------------------------------------------------------------------------
\* Every call keeps the roster and the slot sound.

\* The session a control lease commands for is in the roster.
LEMMA Commander ==
  ASSUME TypeOK, NEW l \in leases, Commands(l)
  PROVE  /\ l.peer \in Roster(viewers)
         /\ Candidate(viewers[l.peer]) \in Candidates
         /\ Present(viewers, Candidate(viewers[l.peer]))
         /\ MayTakeFocus(viewers[l.peer]) =>
              Eligible(viewers, Candidate(viewers[l.peer]))
<1>1. l.peer \in Peers BY DEF TypeOK
<1>2. l.peer \in Roster(viewers) BY <1>1 DEF Commands, IsViewer, Roster
<1> QED BY <1>1, <1>2, CandidateType DEF Present, Eligible

LEMMA CommandSound ==
  ASSUME TypeOK, FocusSound(viewers, focus), CommandStep
  PROVE  FocusSound(viewers', focus')
<1>1. PICK l \in leases :
        \/ \E due \in BOOLEAN : RequestFocus(l, due) \/ FocusCommandRefused(l, due)
        \/ ApproveFocus(l) \/ DenyFocus(l) \/ ReleaseFocus(l) \/ PreemptFocus(l)
  BY DEF CommandStep
<1>2. Commands(l) /\ UNCHANGED viewers
  BY <1>1 DEF RequestFocus, FocusCommandRefused, ApproveFocus, DenyFocus, ReleaseFocus,
              PreemptFocus, FocusCommandApplied
<1> DEFINE c == Candidate(viewers[l.peer])
<1>3. /\ c \in Candidates /\ Present(viewers, c)
      /\ MayTakeFocus(viewers[l.peer]) => Eligible(viewers, c)
  BY <1>2, Commander
<1>4. focus \in Arbiters BY DEF TypeOK
<1>5. ASSUME NEW f \in Arbiters, FocusSound(viewers, f), focus' = TrackCommand(f, c)
      PROVE  FocusSound(viewers', focus')
  BY <1>2, <1>3, <1>5, TrackedSound
<1>6. ClearProposal(focus) \in Arbiters /\ FocusSound(viewers, ClearProposal(focus))
  BY <1>3, <1>4, ArbiterOperators, ClearedSound
<1>7. ASSUME NEW due \in BOOLEAN, RequestFocus(l, due) PROVE FocusSound(viewers', focus')
  <2> DEFINE f == IF due THEN ClearProposal(focus) ELSE focus
  <2>1. f \in Arbiters /\ FocusSound(viewers, f) BY <1>4, <1>6
  <2>2. RequestOK(f, c) /\ Eligible(viewers, c) /\ focus' = TrackCommand(Request(f, c), c)
    BY <1>3, <1>7 DEF RequestFocus, FocusCommandApplied
  <2> HIDE DEF f, c
  <2>3. Request(f, c) \in Arbiters
    <3>1. 0 \in Nat /\ FALSE \in BOOLEAN OBVIOUS
    <3> QED BY <1>3, <2>1, <3>1, ArbiterCommands DEF c
  <2>4. FocusSound(viewers, Request(f, c)) BY <1>3, <2>1, <2>2, RequestedSound DEF c
  <2> QED BY <1>5, <2>2, <2>3, <2>4 DEF c
<1>8. ASSUME NEW due \in BOOLEAN, FocusCommandRefused(l, due)
      PROVE  FocusSound(viewers', focus')
  <2>1. focus' = TrackCommand(IF due THEN ClearProposal(focus) ELSE focus, c)
    BY <1>8 DEF FocusCommandRefused
  <2> QED BY <1>4, <1>5, <1>6, <2>1
<1>9. ASSUME NEW d \in Candidates
      PROVE  /\ BeginNeutralization(focus, d) \in Arbiters
             /\ FocusSound(viewers, BeginNeutralization(focus, d))
  BY <1>4, ArbiterOperators, NeutralizedSound
<1>10. focus.proposal.requester \in Candidates BY <1>4 DEF Arbiters
<1>11. ASSUME ApproveFocus(l) \/ ReleaseFocus(l) PROVE FocusSound(viewers', focus')
  <2>1. focus' = TrackCommand(BeginNeutralization(focus, focus.proposal.requester), c)
    BY <1>11 DEF ApproveFocus, Approve, ReleaseFocus, Release, FocusCommandApplied
  <2> QED BY <1>5, <1>9, <1>10, <2>1
<1>12. ASSUME DenyFocus(l) PROVE FocusSound(viewers', focus')
  <2>1. focus' = TrackCommand(ClearProposal(focus), c)
    BY <1>12 DEF DenyFocus, Deny, FocusCommandApplied
  <2> QED BY <1>5, <1>6, <2>1
<1>13. ASSUME PreemptFocus(l) PROVE FocusSound(viewers', focus')
  <2>1. focus' = TrackCommand(BeginNeutralization(focus, c), c)
    BY <1>13 DEF PreemptFocus, Preempt, FocusCommandApplied
  <2> QED BY <1>3, <1>5, <1>9, <2>1
<1> QED BY <1>1, <1>7, <1>8, <1>11, <1>12, <1>13

\* A transition grants the slot to its successor only if it is eligible now.
LEMMA CompleteFocusSound ==
  ASSUME TypeOK, FocusSound(viewers, focus), NEW tid, CompleteFocus(tid)
  PROVE  FocusSound(viewers', focus')
<1>1. focus \in Arbiters BY DEF TypeOK
<1>2. SuccessorValid(tid) /\ CompletesTransition(focus, tid) =>
        Eligible(viewers, focus.successor)
  BY DEF SuccessorValid, TransitionSuccessor, Eligible
<1> QED BY <1>1, <1>2, CompletedSound DEF CompleteFocus

LEMMA FocusStepSound ==
  ASSUME TypeOK, FocusSound(viewers, focus), FocusStep
  PROVE  FocusSound(viewers', focus')
<1>1. focus \in Arbiters BY DEF TypeOK
<1>2. ASSUME NEW l \in leases, InvalidateV2Focus(l.peer, l.session)
      PROVE  FocusSound(viewers', focus')
  <2>1. l.peer \in Peers BY DEF TypeOK
  <2> DEFINE c == Candidate(viewers[l.peer])
  <2>2. c \in Candidates BY <2>1, CandidateType
  <2>3. Present(viewers, c) BY <1>2, <2>1 DEF InvalidateV2Focus, IsViewer, Present, Roster
  <2>4. KeptBut(viewers, viewers, c) BY DEF KeptBut
  <2>5. focus' = BeginInvalidation(focus, c) /\ UNCHANGED viewers
    BY <1>2 DEF InvalidateV2Focus
  <2> HIDE DEF c
  <2> QED BY <1>1, <2>2, <2>3, <2>4, <2>5, InvalidatedSound
<1>3. ASSUME CompleteV2FocusTransition(focus.tid) PROVE FocusSound(viewers', focus')
  BY <1>3, CompleteFocusSound DEF CompleteV2FocusTransition
<1>4. ASSUME ExpireV2Focus PROVE FocusSound(viewers', focus')
  BY <1>1, <1>4, NoneTypes, NeutralizedSound, ClearedSound DEF ExpireV2Focus
<1> QED BY <1>2, <1>3, <1>4 DEF FocusStep

\* A viewer that leaves takes its hold, its proposal and its rate window along.
LEMMA DepartureSound ==
  ASSUME TypeOK, FocusSound(viewers, focus), NEW p \in Peers, NEW v,
         viewers' = [viewers EXCEPT ![p] = v]
  PROVE  LET c == Candidate(viewers[p]) IN
         FocusSound(viewers', RetireCandidate(BeginInvalidation(focus, c), c))
<1>1. KeptBut(viewers, viewers', Candidate(viewers[p])) BY KeptOthers DEF TypeOK
<1>2. Candidate(viewers[p]) \in Candidates BY CandidateType
<1>3. focus \in Arbiters BY DEF TypeOK
<1> QED BY <1>1, <1>2, <1>3, InvalidatedSound

LEMMA RosterSound ==
  ASSUME TypeOK, FocusSound(viewers, focus), AdmissionStep \/ LeaseStep
  PROVE  FocusSound(viewers', focus')
<1>1. ASSUME NEW p \in Peers, ClaimV2(p) PROVE FocusSound(viewers', focus')
  <2> DEFINE v == NewViewer(p, nextSession + 1)
  <2>1. viewers' = [viewers EXCEPT ![p] = v] /\ focus' = AdmittedFocus(p)
    BY <1>1 DEF ClaimV2
  <2> HIDE DEF v
  <2>2. CASE p \in Roster(viewers) BY <2>1, <2>2, DepartureSound DEF AdmittedFocus
  <2>3. CASE p \notin Roster(viewers)
    <3>1. \A q \in Roster(viewers) : q \in Roster(viewers') /\ viewers'[q] = viewers[q]
      BY <2>1, <2>3 DEF Roster, TypeOK
    <3> QED BY <2>1, <2>3, <3>1, KeptAll DEF AdmittedFocus
  <2> QED BY <2>2, <2>3
<1>2. ASSUME NEW l \in leases, ReleaseV2(l) PROVE FocusSound(viewers', focus')
  <2>1. l.peer \in Peers BY DEF TypeOK
  <2>2. CASE IsViewer(l.peer, l.session)
    BY <1>2, <2>1, <2>2, DepartureSound DEF ReleaseV2
  <2>3. CASE ~IsViewer(l.peer, l.session) BY <1>2, <2>3 DEF ReleaseV2
  <2> QED BY <2>2, <2>3
<1>3. ASSUME UNCHANGED <<viewers, focus>> PROVE FocusSound(viewers', focus') BY <1>3
<1> QED BY <1>1, <1>2, <1>3
        DEF AdmissionStep, LeaseStep, Authorize, CheckCommitted, ClaimV2Rejected,
            RetireReplaced, v2Vars

LEMMA SidecarSound ==
  ASSUME TypeOK, FocusSound(viewers, focus), DetachingAllowed, SidecarStep
  PROVE  FocusSound(viewers', focus')
<1>1. focus \in Arbiters /\ focus.gen \in Nat BY DEF TypeOK, Arbiters
<1>2. ASSUME NEW p \in InputPeers, ClaimInputV2(p) PROVE FocusSound(viewers', focus')
  <2>1. p \in Peers BY RegistryAssumption
  <2>2. Candidate(viewers[p]) \in Candidates BY <2>1, CandidateType
  <2>3. FocusSound(viewers, focus')
    BY <1>1, <1>2, <2>2, ArbiterFields, SameViewSound DEF ClaimInputV2
  <2>4. SameViewers BY <1>2, <2>1, FlagWrite DEF ClaimInputV2
  <2> QED BY <2>3, <2>4, SameViewersSound
<1>3. ASSUME NEW i \in inputs, ReleaseInputV2(i) PROVE FocusSound(viewers', focus')
  <2>1. i.peer \in Peers BY DEF TypeOK
  <2>2. FocusSound(viewers, CompleteTransition(focus, focus.tid, FALSE))
    BY <1>1, CompletedSound
  <2>3. FocusSound(viewers, focus') BY <1>3, <2>2 DEF ReleaseInputV2
  <2>4. SameViewers BY <1>3, <2>1, FlagWrite DEF ReleaseInputV2
  <2> QED BY <2>3, <2>4, SameViewersSound
<1>4. ASSUME NEW p \in FeedbackPeers, ClaimFeedbackV2(p) PROVE FocusSound(viewers', focus')
  <2>1. p \in Peers BY RegistryAssumption
  <2>2. SameViewers /\ UNCHANGED focus BY <1>4, <2>1, FlagWrite DEF ClaimFeedbackV2
  <2> QED BY <2>2, SameViewersSound
<1>5. ASSUME NEW b \in feedbacks, ReleaseFeedbackV2(b) PROVE FocusSound(viewers', focus')
  <2>1. b.peer \in Peers BY DEF TypeOK
  <2>2. SameViewers /\ UNCHANGED focus BY <1>5, <2>1, FlagWrite DEF ReleaseFeedbackV2
  <2> QED BY <2>2, SameViewersSound
<1>6. ASSUME NEW b \in feedbacks, BeginDetach(b) PROVE FocusSound(viewers', focus')
  <2>1. b.peer \in Peers BY DEF TypeOK
  <2> DEFINE c == Candidate(viewers[b.peer])
  <2>2. c \in Candidates BY <2>1, CandidateType
  <2>3. IsViewer(b.peer, b.session) => Present(viewers, c)
    BY <2>1 DEF IsViewer, Present, Roster
  <2>4. KeptBut(viewers, viewers, c) BY DEF KeptBut
  <2>5. /\ focus' = IF IsViewer(b.peer, b.session) THEN BeginInvalidation(focus, c)
                    ELSE focus
        /\ UNCHANGED viewers
    BY <1>6 DEF BeginDetach
  <2> HIDE DEF c
  <2> QED BY <1>1, <2>2, <2>3, <2>4, <2>5, InvalidatedSound
<1>7. ASSUME NEW b \in feedbacks, DisconnectV2Viewer(b) PROVE FocusSound(viewers', focus')
  <2>1. b.peer \in Peers BY DEF TypeOK
  <2> DEFINE c == Candidate(viewers[b.peer])
  <2>2. c \in Candidates BY <2>1, CandidateType
  <2>3. viewers' = [viewers EXCEPT ![b.peer] = NoViewer] /\ focus' = RetireCandidate(focus, c)
    BY <1>7 DEF DisconnectV2Viewer
  <2>4. KeptBut(viewers, viewers', c) BY <2>1, <2>3, KeptOthers DEF TypeOK
  <2>5. ~HeldBy(focus, c) BY <1>7 DEF DisconnectV2Viewer, HeldBy, Candidate, IsViewer
  <2>6. DetachViewers BY <1>7 DEF DisconnectV2Viewer, DetachingAllowed
  <2> HIDE DEF c
  <2>7. SameView(focus, focus') /\ focus'.keys = focus.keys \ {c}
    BY <1>1, <2>2, <2>3, ArbiterFields
  <2> QED BY <2>4, <2>5, <2>6, <2>7
          DEF FocusSound, KeptBut, SameView, HeldBy, IsHeld, HasProposal
<1> QED BY <1>2, <1>3, <1>4, <1>5, <1>6, <1>7 DEF SidecarStep

\* A mutation that reaches its viewer removes it or writes its authorization.
LEMMA MutatedFields ==
  ASSUME TypeOK, ApplyAuthorizationMutation
  PROVE  LET m == mutation
             v == viewers[m.peer]
             w == viewers'[m.peer] IN
         /\ m \in Mutations /\ m.peer \in Roster(viewers) /\ v \in ViewerSessions
         /\ viewers' = [viewers EXCEPT ![m.peer] = w]
         /\ m.revoked => w = NoViewer
         /\ ~m.revoked => /\ w.session = v.session /\ w.presence = v.presence
                          /\ w.input = v.input /\ w.feedback = v.feedback
                          /\ w.grants = m.current /\ w.arev = m.arev
                          /\ ~InputReduced(m) => w.neutralizing = v.neutralizing
<1> DEFINE m == mutation
           v == viewers[m.peer]
           w == viewers'[m.peer]
<1>1. m \in Mutations BY ServedMutation DEF ApplyAuthorizationMutation
<1>2. m.peer \in Peers BY <1>1 DEF Mutations
<1>3. v.session # 0 BY DEF ApplyAuthorizationMutation, MutationReachesViewer
<1>4. v \in ViewerSessions BY <1>2, <1>3, ConnectedType
<1>5. PICK t : viewers' = [viewers EXCEPT ![m.peer] = MutatedViewer(v, m, t)]
  BY DEF ApplyAuthorizationMutation
<1>6. w = MutatedViewer(v, m, t) BY <1>2, <1>5 DEF TypeOK
<1>7. ASSUME NEW x
      PROVE  LET u == [v EXCEPT !.arev = m.arev, !.crev = m.arev, !.grants = m.current,
                                !.neutralizing = x] IN
             /\ u.session = v.session /\ u.presence = v.presence
             /\ u.input = v.input /\ u.feedback = v.feedback
             /\ u.grants = m.current /\ u.arev = m.arev /\ u.neutralizing = x
  BY <1>4 DEF ViewerSessions
<1>8. MutatedViewer(v, m, t) =
        IF m.revoked THEN NoViewer
        ELSE [v EXCEPT !.arev = m.arev, !.crev = m.arev, !.grants = m.current,
                       !.neutralizing = IF InputReduced(m) THEN v.input \/ t
                                        ELSE v.neutralizing]
  BY DEF MutatedViewer
<1>9. m.peer \in Roster(viewers) BY <1>2, <1>3 DEF Roster
<1> HIDE DEF m, v, w
<1>10. ~m.revoked => /\ w.session = v.session /\ w.presence = v.presence
                     /\ w.input = v.input /\ w.feedback = v.feedback
                     /\ w.grants = m.current /\ w.arev = m.arev
                     /\ ~InputReduced(m) => w.neutralizing = v.neutralizing
  BY <1>6, <1>7, <1>8
<1>11. m.revoked => w = NoViewer BY <1>6, <1>8
<1>12. viewers' = [viewers EXCEPT ![m.peer] = w] BY <1>5, <1>6
<1> QED BY <1>1, <1>4, <1>9, <1>10, <1>11, <1>12 DEF m, v, w

LEMMA AppliedSound ==
  ASSUME TypeOK, FocusSound(viewers, focus), GrantsDiffer, ApplyAuthorizationMutation
  PROVE  FocusSound(viewers', focus')
<1> DEFINE m == mutation
           q == m.peer
           c == Candidate(viewers[q])
           w == viewers'[q]
<1>1. /\ m \in Mutations /\ q \in Roster(viewers)
      /\ viewers' = [viewers EXCEPT ![q] = w]
      /\ m.revoked => w = NoViewer
      /\ ~m.revoked => /\ w.session = viewers[q].session
                       /\ w.presence = viewers[q].presence /\ w.grants = m.current
                       /\ ~InputReduced(m) => w.neutralizing = viewers[q].neutralizing
  BY MutatedFields
<1>2. q \in Peers BY <1>1 DEF Roster
<1>3. focus' = LET f == IF m.revoked \/ InputReduced(m)
                        THEN BeginInvalidation(focus, c) ELSE focus
               IN IF m.revoked THEN RetireCandidate(f, c) ELSE f
  BY DEF ApplyAuthorizationMutation
<1>4. focus \in Arbiters /\ c \in Candidates BY <1>2, CandidateType DEF TypeOK
<1>5. KeptBut(viewers, viewers', c) BY <1>1, <1>2, KeptOthers DEF TypeOK
<1>6. CASE m.revoked
  <2>1. focus' = RetireCandidate(BeginInvalidation(focus, c), c) BY <1>3, <1>6
  <2> QED BY <1>4, <1>5, <2>1, InvalidatedSound
<1>7. CASE ~m.revoked /\ InputReduced(m)
  <2>1. focus' = BeginInvalidation(focus, c) BY <1>3, <1>7
  <2>2. Candidate(w) = c BY <1>1, <1>7 DEF Candidate
  <2>3. q \in Roster(viewers') BY <1>1, <1>7 DEF Roster
  <2>4. Present(viewers, c) /\ Present(viewers', c) BY <1>1, <2>2, <2>3 DEF Present
  <2> HIDE DEF c
  <2> QED BY <1>4, <1>5, <2>1, <2>4, InvalidatedSound
<1>8. CASE ~m.revoked /\ ~InputReduced(m)
  <2>1. m.current # {}
    <3>1. m.stage = "committed" BY DEF ApplyAuthorizationMutation
    <3>2. m.previous # m.current BY <1>8, <3>1 DEF GrantsDiffer
    <3> QED BY <1>1, <1>8, <3>2 DEF InputReduced, Mutations
  <2>2. focus' = focus BY <1>3, <1>8
  <2>3. ASSUME NEW p \in Roster(viewers)
        PROVE  /\ p \in Roster(viewers') /\ Candidate(viewers'[p]) = Candidate(viewers[p])
               /\ InputCapable(viewers[p]) => InputCapable(viewers'[p])
               /\ MayTakeFocus(viewers[p]) => MayTakeFocus(viewers'[p])
    <3>1. CASE p = q
      BY <1>1, <1>8, <2>1, <3>1 DEF Roster, Candidate, InputCapable, MayTakeFocus
    <3>2. CASE p # q
      <4>1. viewers'[p] = viewers[p] BY <1>1, <2>3, <3>2 DEF Roster, TypeOK
      <4> QED BY <2>3, <4>1 DEF Roster
    <3> QED BY <3>1, <3>2
  <2> QED BY <2>2, <2>3, KeptAll
<1> QED BY <1>6, <1>7, <1>8

LEMMA AuthorizationSound ==
  ASSUME TypeOK, FocusSound(viewers, focus), GrantsDiffer, AuthorizationStep
  PROVE  FocusSound(viewers', focus')
<1>1. ASSUME NeutralizeMutation PROVE FocusSound(viewers', focus')
  BY <1>1, CompleteFocusSound DEF NeutralizeMutation
<1>2. ASSUME CompleteAuthorizationNeutralization PROVE FocusSound(viewers', focus')
  <2>1. mutation.peer \in Peers
    BY <1>2, ServedMutation DEF CompleteAuthorizationNeutralization, Mutations
  <2>2. SameViewers /\ UNCHANGED focus
    BY <1>2, <2>1, FlagWrite DEF CompleteAuthorizationNeutralization
  <2> QED BY <2>2, SameViewersSound
<1>3. ASSUME UNCHANGED <<viewers, focus>> PROVE FocusSound(viewers', focus') BY <1>3
<1> QED BY <1>1, <1>2, <1>3, AppliedSound
        DEF AuthorizationStep, RevokeViewer, ReplaceViewerGrants, RedeemInvitation,
            CommitMutation, ApplyMutationElsewhere, NeutralizeMutationFails, v2Vars

LEMMA StepSound ==
  ASSUME TypeOK, FocusInv, [Next]_vars
  PROVE  FocusSound(viewers', focus')
<1> USE DEF FocusInv
<1>1. ASSUME UNCHANGED vars \/ LegacyStep PROVE FocusSound(viewers', focus')
  <2>1. UNCHANGED <<viewers, focus>>
    BY <1>1 DEF vars, v2Vars, LegacyStep, Claim, ClaimLegacySidecar, ReleaseLegacySidecar,
                ReleaseLegacy, ExpectMoq
  <2> QED BY <2>1
<1>2. ASSUME MediaStep PROVE FocusSound(viewers', focus')
  <2>1. ASSUME NEW l \in leases, NEW g, BindV2Generation(l, g)
        PROVE  FocusSound(viewers', focus')
    <3>1. l.peer \in Peers BY DEF TypeOK
    <3>2. SameViewers /\ UNCHANGED focus BY <2>1, <3>1, FlagWrite DEF BindV2Generation
    <3> QED BY <3>2, SameViewersSound
  <2>2. ASSUME UNCHANGED <<viewers, focus>> PROVE FocusSound(viewers', focus') BY <2>2
  <2> QED BY <1>2, <2>1, <2>2 DEF MediaStep, ClaimMoq, ExpectMoqV2, v2Vars
<1> QED BY <1>1, <1>2, RosterSound, CommandSound, FocusStepSound, SidecarSound,
           AuthorizationSound DEF Next

----------------------------------------------------------------------------
\* Only an admission puts a session, and with it a presence, in the roster.

RosterKept ==
  \A p \in Roster(viewers') :
    /\ p \in Roster(viewers) /\ viewers'[p].session = viewers[p].session
    /\ viewers'[p].presence = viewers[p].presence

LEMMA SameViewersKept == ASSUME SameViewers PROVE RosterKept
BY DEF SameViewers, RosterKept, Roster

LEMMA DepartureKept ==
  ASSUME TypeOK, NEW p \in Peers, viewers' = [viewers EXCEPT ![p] = NoViewer]
  PROVE  RosterKept
<1>1. NoViewer.session = 0 BY DEF NoViewer
<1> QED BY <1>1 DEF RosterKept, Roster, TypeOK

\* Every way a call writes the roster.
ViewerWritten(q) ==
  \/ \E g : viewers' = [viewers EXCEPT ![q].gen = g]
  \/ viewers' = [viewers EXCEPT ![q] = NoViewer]
  \/ viewers' = [viewers EXCEPT ![q].neutralizing = FALSE]

LEMMA ViewerStep ==
  ASSUME TypeOK, [Next]_vars
  PROVE  \/ UNCHANGED viewers
         \/ \E q \in Peers : ViewerWritten(q) \/ ClaimV2(q)
         \/ \E q \in InputPeers : ClaimInputV2(q)
         \/ \E i \in inputs : ReleaseInputV2(i)
         \/ \E q \in FeedbackPeers : ClaimFeedbackV2(q)
         \/ \E b \in feedbacks : ReleaseFeedbackV2(b)
         \/ ApplyAuthorizationMutation
<1>1. CASE UNCHANGED vars \/ LegacyStep \/ CommandStep \/ FocusStep
  BY <1>1
     DEF vars, v2Vars, LegacyStep, Claim, ClaimLegacySidecar, ReleaseLegacySidecar,
         ReleaseLegacy, ExpectMoq, CommandStep, RequestFocus, FocusCommandRefused,
         ApproveFocus, DenyFocus, ReleaseFocus, PreemptFocus, FocusCommandApplied,
         FocusStep, InvalidateV2Focus, CompleteV2FocusTransition, CompleteFocus,
         ExpireV2Focus
<1>2. CASE AdmissionStep
  BY <1>2 DEF AdmissionStep, Authorize, CheckCommitted, ClaimV2Rejected, v2Vars
<1>3. \A l \in leases : l.peer \in Peers BY DEF TypeOK
<1>4. CASE MediaStep
  BY <1>3, <1>4 DEF MediaStep, BindV2Generation, ClaimMoq, ExpectMoqV2, v2Vars,
                    ViewerWritten
<1>5. CASE LeaseStep
  BY <1>3, <1>5 DEF LeaseStep, RetireReplaced, ReleaseV2, v2Vars, ViewerWritten
<1>6. CASE SidecarStep
  <2>1. \A b \in feedbacks : b.peer \in Peers BY DEF TypeOK
  <2> QED BY <1>6, <2>1 DEF SidecarStep, BeginDetach, DisconnectV2Viewer, ViewerWritten
<1>7. CASE AuthorizationStep
  <2>1. CASE CompleteAuthorizationNeutralization
    <3>1. mutation.peer \in Peers
      BY <2>1, ServedMutation DEF CompleteAuthorizationNeutralization, Mutations
    <3> QED BY <2>1, <3>1 DEF CompleteAuthorizationNeutralization, ViewerWritten
  <2> QED BY <1>7, <2>1
          DEF AuthorizationStep, RevokeViewer, ReplaceViewerGrants, RedeemInvitation,
              CommitMutation, ApplyMutationElsewhere, NeutralizeMutation, CompleteFocus,
              NeutralizeMutationFails, v2Vars
<1> QED BY <1>1, <1>2, <1>4, <1>5, <1>6, <1>7 DEF Next

LEMMA StepKeepsRoster ==
  ASSUME TypeOK, [Next]_vars
  PROVE  RosterKept \/ \E p \in Peers : ClaimV2(p)
<1>1. CASE UNCHANGED viewers BY <1>1 DEF RosterKept, Roster
<1>2. ASSUME NEW q \in Peers, ViewerWritten(q) PROVE RosterKept
  BY <1>2, FlagWrite, SameViewersKept, DepartureKept DEF ViewerWritten
<1>3. ASSUME NEW q \in InputPeers, ClaimInputV2(q) PROVE RosterKept
  <2>1. q \in Peers BY RegistryAssumption
  <2> QED BY <1>3, <2>1, FlagWrite, SameViewersKept DEF ClaimInputV2
<1>4. ASSUME NEW i \in inputs, ReleaseInputV2(i) PROVE RosterKept
  <2>1. i.peer \in Peers BY DEF TypeOK
  <2> QED BY <1>4, <2>1, FlagWrite, SameViewersKept DEF ReleaseInputV2
<1>5. ASSUME NEW q \in FeedbackPeers, ClaimFeedbackV2(q) PROVE RosterKept
  <2>1. q \in Peers BY RegistryAssumption
  <2> QED BY <1>5, <2>1, FlagWrite, SameViewersKept DEF ClaimFeedbackV2
<1>6. ASSUME NEW b \in feedbacks, ReleaseFeedbackV2(b) PROVE RosterKept
  <2>1. b.peer \in Peers BY DEF TypeOK
  <2> QED BY <1>6, <2>1, FlagWrite, SameViewersKept DEF ReleaseFeedbackV2
<1>7. CASE ApplyAuthorizationMutation
  <2>1. NoViewer.session = 0 BY DEF NoViewer
  <2> QED BY <1>7, <2>1, MutatedFields DEF RosterKept, Roster, TypeOK
<1> QED BY <1>1, <1>2, <1>3, <1>4, <1>5, <1>6, <1>7, ViewerStep

----------------------------------------------------------------------------
\* The other parts of the invariant.

\* The session an admission puts in the roster.
LEMMA AdmittedViewer ==
  ASSUME TypeOK, NEW p \in Peers, ClaimV2(p)
  PROVE  LET w == viewers'[p] IN
         /\ viewers' = [viewers EXCEPT ![p] = w]
         /\ w.session = nextSession + 1 /\ w.presence = admitting[p].handle
         /\ w.neutralizing = FALSE /\ w.input = FALSE /\ w.feedback = FALSE
<1> DEFINE w == NewViewer(p, nextSession + 1)
<1>1. viewers' = [viewers EXCEPT ![p] = w] BY DEF ClaimV2
<1>2. NoViewer \in [session : Nat, presence : {<<>>}, grants : {{}}, arev : Nat,
                    crev : Nat, neutralizing : {FALSE}, input : {FALSE},
                    feedback : {FALSE}, gen : Nat]
  BY DEF NoViewer
<1>3. /\ w.session = nextSession + 1 /\ w.presence = admitting[p].handle
      /\ w.neutralizing = FALSE /\ w.input = FALSE /\ w.feedback = FALSE
  BY <1>2 DEF NewViewer
<1> HIDE DEF w
<1>4. viewers'[p] = w BY <1>1 DEF TypeOK
<1> QED BY <1>1, <1>3, <1>4

LEMMA HandlesStep ==
  ASSUME TypeOK, OwnHandles, [Next]_vars
  PROVE  OwnHandles'
<1>1. ASSUME NEW p \in Peers, admitting'[p] # NoAuthorization
      PROVE  admitting'[p].handle[1] = p
  <2>1. CASE admitting'[p] = admitting[p] BY <1>1, <2>1 DEF OwnHandles
  <2>2. ASSUME NEW q \in Peers, Authorize(q) PROVE admitting'[p].handle[1] = p
    BY <1>1, <2>1, <2>2 DEF Authorize, TypeOK
  <2>3. ASSUME NEW q \in Peers, CheckCommitted(q) PROVE admitting'[p].handle[1] = p
    <3>1. CASE p # q BY <2>1, <2>3, <3>1 DEF CheckCommitted, TypeOK
    <3>2. CASE p = q
      <4>1. admitting[p] # NoAuthorization /\ admitting[p] \in Authorizations
        BY <2>3, <3>2 DEF CheckCommitted, NoAuthorization, TypeOK
      <4>2. admitting'[p] = [admitting[p] EXCEPT !.stage = "checked"]
        BY <1>1, <2>3, <3>2 DEF CheckCommitted, TypeOK
      <4>3. admitting'[p].handle = admitting[p].handle
        BY <4>1, <4>2 DEF Authorizations
      <4> QED BY <4>1, <4>3 DEF OwnHandles
    <3> QED BY <3>1, <3>2
  <2>4. ASSUME NEW q \in Peers, ClaimV2(q) \/ ClaimV2Rejected(q)
        PROVE  admitting'[p].handle[1] = p
    BY <1>1, <2>1, <2>4 DEF ClaimV2, ClaimV2Rejected, TypeOK
  <2>5. ASSUME NEW q \in Peers, NEW g, RedeemInvitation(q, g)
        PROVE  admitting'[p].handle[1] = p
    BY <1>1, <2>1, <2>5 DEF RedeemInvitation, TypeOK
  <2>6. ASSUME UNCHANGED admitting PROVE admitting'[p].handle[1] = p BY <2>1, <2>6
  <2> QED BY <2>2, <2>3, <2>4, <2>5, <2>6
          DEF Next, vars, authVars, LegacyStep, Claim, ClaimLegacySidecar,
              ReleaseLegacySidecar, ReleaseLegacy, ExpectMoq, AdmissionStep, MediaStep,
              ClaimMoq, BindV2Generation, ExpectMoqV2, LeaseStep, RetireReplaced, ReleaseV2,
              CommandStep, RequestFocus, FocusCommandRefused, ApproveFocus, DenyFocus,
              ReleaseFocus, PreemptFocus, FocusCommandApplied, FocusStep,
              InvalidateV2Focus, CompleteV2FocusTransition, ExpireV2Focus, SidecarStep,
              ClaimInputV2, ReleaseInputV2, ClaimFeedbackV2, ReleaseFeedbackV2,
              BeginDetach, DisconnectV2Viewer, AuthorizationStep, RevokeViewer,
              ReplaceViewerGrants, CommitMutation, ApplyMutationElsewhere,
              ApplyAuthorizationMutation, NeutralizeMutation, NeutralizeMutationFails,
              CompleteAuthorizationNeutralization
<1>2. ASSUME NEW p \in Roster(viewers') PROVE viewers'[p].presence[1] = p
  <2>1. CASE RosterKept BY <1>2, <2>1 DEF RosterKept, OwnHandles
  <2>2. ASSUME NEW q \in Peers, ClaimV2(q) PROVE viewers'[p].presence[1] = p
    <3>1. /\ viewers' = [viewers EXCEPT ![q] = viewers'[q]]
          /\ viewers'[q].presence = admitting[q].handle
      BY <2>2, AdmittedViewer
    <3>2. admitting[q].handle[1] = q
      BY <2>2 DEF ClaimV2, NoAuthorization, OwnHandles
    <3>3. CASE p = q BY <3>1, <3>2, <3>3
    <3>4. CASE p # q
      <4>1. viewers'[p] = viewers[p] BY <1>2, <3>1, <3>4 DEF Roster, TypeOK
      <4> QED BY <1>2, <4>1 DEF Roster, OwnHandles
    <3> QED BY <3>3, <3>4
  <2> QED BY <2>1, <2>2, StepKeepsRoster
<1> QED BY <1>1, <1>2 DEF OwnHandles

LEMMA GrantsDifferStep ==
  ASSUME TypeOK, GrantsDiffer, [Next]_vars
  PROVE  GrantsDiffer'
<1>1. ASSUME UNCHANGED mutation PROVE GrantsDiffer' BY <1>1 DEF GrantsDiffer
<1>2. ASSUME mutation' = NoMutation PROVE GrantsDiffer' BY <1>2 DEF GrantsDiffer, NoMutation
<1>3. NoMutation \in [stage : {"idle"}, peer : {<<>>}, handle : {<<>>},
                      previous : {{}}, current : {{}}, revoked : BOOLEAN,
                      arev : Nat, tid : Nat]
  BY DEF NoMutation
<1>4. ASSUME NEW p \in Peers, NEW revoked, NEW g, CommitMutation(p, revoked, g)
      PROVE  /\ mutation'.revoked = revoked /\ mutation'.current = g
             /\ mutation'.previous = store[p].grants
  BY <1>3, <1>4 DEF CommitMutation
<1>5. ASSUME NEW p \in Peers, RevokeViewer(p) PROVE GrantsDiffer'
  BY <1>4, <1>5 DEF RevokeViewer, GrantsDiffer
<1>6. ASSUME NEW p \in Peers, NEW g, ReplaceViewerGrants(p, g) PROVE GrantsDiffer'
  BY <1>4, <1>6 DEF ReplaceViewerGrants, GrantsDiffer
<1>7. ASSUME ApplyAuthorizationMutation PROVE GrantsDiffer'
  <2>1. mutation \in Mutations BY <1>7, MutatedFields
  <2>2. \A t : [mutation EXCEPT !.stage = "neutralize", !.tid = t].stage = "neutralize"
    BY <2>1 DEF Mutations
  <2>3. mutation' = NoMutation \/ mutation'.stage = "neutralize"
    BY <1>7, <2>2 DEF ApplyAuthorizationMutation
  <2> QED BY <1>2, <2>3 DEF GrantsDiffer
<1>8. ASSUME NeutralizeMutation PROVE GrantsDiffer'
  <2>1. mutation'.stage = "complete"
    BY <1>8, ServedMutation DEF NeutralizeMutation, Mutations
  <2> QED BY <2>1 DEF GrantsDiffer
<1> QED BY <1>1, <1>2, <1>5, <1>6, <1>7, <1>8
        DEF Next, vars, authVars, LegacyStep, Claim, ClaimLegacySidecar,
            ReleaseLegacySidecar, ReleaseLegacy, ExpectMoq, AdmissionStep, Authorize,
            CheckCommitted, ClaimV2, ClaimV2Rejected, MediaStep, ClaimMoq,
            BindV2Generation, ExpectMoqV2, LeaseStep, RetireReplaced, ReleaseV2,
            CommandStep, RequestFocus, FocusCommandRefused, ApproveFocus, DenyFocus,
            ReleaseFocus, PreemptFocus, FocusCommandApplied, FocusStep,
            InvalidateV2Focus, CompleteV2FocusTransition, ExpireV2Focus, SidecarStep,
            ClaimInputV2, ReleaseInputV2, ClaimFeedbackV2, ReleaseFeedbackV2,
            BeginDetach, DisconnectV2Viewer, AuthorizationStep, RedeemInvitation,
            ApplyMutationElsewhere, NeutralizeMutationFails,
            CompleteAuthorizationNeutralization

\* The feedback leases change only in the three calls about them.
LEMMA FeedbacksKept ==
  ASSUME [Next]_vars
  PROVE  \/ UNCHANGED feedbacks
         \/ \E p \in FeedbackPeers : ClaimFeedbackV2(p)
         \/ \E b \in feedbacks : ReleaseFeedbackV2(b) \/ BeginDetach(b)
BY DEF Next, vars, leaseVars, LegacyStep, Claim, ClaimLegacySidecar,
       ReleaseLegacySidecar, ReleaseLegacy, ExpectMoq, AdmissionStep, Authorize,
       CheckCommitted, ClaimV2, ClaimV2Rejected, MediaStep, ClaimMoq,
       BindV2Generation, ExpectMoqV2, LeaseStep, RetireReplaced, ReleaseV2,
       CommandStep, RequestFocus, FocusCommandRefused, ApproveFocus, DenyFocus,
       ReleaseFocus, PreemptFocus, FocusCommandApplied, FocusStep,
       InvalidateV2Focus, CompleteV2FocusTransition, ExpireV2Focus, SidecarStep,
       ClaimInputV2, ReleaseInputV2, DisconnectV2Viewer, AuthorizationStep,
       RevokeViewer, ReplaceViewerGrants, RedeemInvitation, CommitMutation,
       ApplyMutationElsewhere, ApplyAuthorizationMutation, NeutralizeMutation,
       NeutralizeMutationFails, CompleteAuthorizationNeutralization

LEMMA DetachingStep ==
  ASSUME TypeOK, DetachingAllowed, [Next]_vars
  PROVE  DetachingAllowed'
<1>1. ASSUME NEW p \in FeedbackPeers, ClaimFeedbackV2(p) PROVE DetachingAllowed'
  BY <1>1 DEF ClaimFeedbackV2, DetachingAllowed
<1>2. ASSUME NEW b \in feedbacks, ReleaseFeedbackV2(b) PROVE DetachingAllowed'
  BY <1>2 DEF ReleaseFeedbackV2, DetachingAllowed
<1>3. ASSUME NEW b \in feedbacks, BeginDetach(b) PROVE DetachingAllowed'
  BY <1>3 DEF BeginDetach, DetachingAllowed
<1> QED BY <1>1, <1>2, <1>3, FeedbacksKept DEF DetachingAllowed

\* The roster and the slot stay sound under every call: a replacement, a
\* revocation, a lost grant, a departure or a detachment of the holder takes
\* the slot with it, a transition ends with a successor that is eligible then.
THEOREM FocusInvariant == Spec => []FocusInv
<1>1. Init => FocusInv
  <2> SUFFICES ASSUME Init PROVE FocusInv
    OBVIOUS
  <2>1. Roster(viewers) = {} BY DEF Init, Roster, NoViewer
  <2> QED BY <2>1 DEF Init, FocusInv, OwnHandles, GrantsDiffer, DetachingAllowed,
                      FocusSound, NewArbiter, NoMutation, IsHeld, HasProposal, NoProposal
<1>2. TypeOK /\ FocusInv /\ [Next]_vars => FocusInv'
  BY StepSound, HandlesStep, GrantsDifferStep, DetachingStep DEF FocusInv
<1> QED BY <1>1, <1>2, TypeCorrect, PTL DEF Spec

\* Whoever holds the slot is in the roster, has an input grant and is not a
\* viewer whose input authorization is being withdrawn.
THEOREM HolderAlwaysEligible == Spec => []HolderEligible
<1>1. FocusInv => HolderEligible BY DEF FocusInv, FocusSound, Eligible, HolderEligible
<1> QED BY <1>1, FocusInvariant, PTL

\* The rate limiter never remembers a session that has left the roster,
\* however it left: the map that a remote peer can grow stays bounded by it.
THEOREM RateLimiterBounded == Spec => []RateKeysBounded
<1>1. FocusInv => RateKeysBounded BY DEF FocusInv, FocusSound, Present, RateKeysBounded
<1> QED BY <1>1, FocusInvariant, PTL

LEMMA SoundPublishable ==
  ASSUME FocusInv, ~DetachViewers
  PROVE  Publishable
<1>1. RosterIdentitiesUnique(viewers) BY DEF FocusInv, OwnHandles, RosterIdentitiesUnique
<1>2. HolderInRoster(viewers, focus)
  BY DEF FocusInv, FocusSound, Eligible, HolderInRoster
<1>3. ProposalValid(viewers, focus) BY DEF FocusInv, FocusSound, Capable, ProposalValid
<1> QED BY <1>1, <1>2, <1>3 DEF Publishable, SnapshotValid

\* Where the adaptive coordinator detaches nobody, every call leaves a state
\* whose snapshots validate, so no call fails on publishing and leaves its
\* changes half made.
THEOREM AlwaysPublishable ==
  ASSUME ~DetachViewers PROVE Spec => []Publishable
<1>1. FocusInv => Publishable BY SoundPublishable
<1> QED BY <1>1, FocusInvariant, PTL

----------------------------------------------------------------------------
\* The leases.

LEMMA LeasesOwnedStep ==
  ASSUME TypeOK, LeasesOwned, Publishable', [Next]_vars
  PROVE  LeasesOwned'
<1>1. ASSUME NEW p \in Peers, ClaimV2(p) PROVE LeasesOwned'
  <2>1. ~PublishFails BY DEF PublishFails, Publishable
  <2> QED BY <1>1, <2>1 DEF ClaimV2, LeasesOwned
<1>2. ASSUME NEW l \in leases, RetireReplaced(l) PROVE LeasesOwned'
  <2>1. [l EXCEPT !.replaced = 0].orphan = l.orphan BY DEF TypeOK
  <2> QED BY <1>2, <2>1 DEF RetireReplaced, LeasesOwned
<1>3. ASSUME NEW l \in leases, ReleaseV2(l) PROVE LeasesOwned'
  BY <1>3 DEF ReleaseV2, LeasesOwned
<1>4. ASSUME UNCHANGED leases PROVE LeasesOwned' BY <1>4 DEF LeasesOwned
<1> QED BY <1>1, <1>2, <1>3, <1>4
        DEF Next, vars, leaseVars, LegacyStep, Claim, ClaimLegacySidecar,
            ReleaseLegacySidecar, ReleaseLegacy, ExpectMoq, AdmissionStep, Authorize,
            CheckCommitted, ClaimV2Rejected, MediaStep, ClaimMoq, BindV2Generation,
            ExpectMoqV2, LeaseStep, CommandStep, RequestFocus, FocusCommandRefused,
            ApproveFocus, DenyFocus, ReleaseFocus, PreemptFocus, FocusCommandApplied,
            FocusStep, InvalidateV2Focus, CompleteV2FocusTransition, ExpireV2Focus,
            SidecarStep, ClaimInputV2, ReleaseInputV2, ClaimFeedbackV2, ReleaseFeedbackV2,
            BeginDetach, DisconnectV2Viewer, AuthorizationStep, RevokeViewer,
            ReplaceViewerGrants, RedeemInvitation, CommitMutation, ApplyMutationElsewhere,
            ApplyAuthorizationMutation, NeutralizeMutation, NeutralizeMutationFails,
            CompleteAuthorizationNeutralization

\* No viewer is in the roster without a control task that holds its lease and
\* will remove it: an admission never fails half way.
THEOREM NoViewerIsAbandoned ==
  ASSUME ~DetachViewers PROVE Spec => []NoGhostViewer
<1>1. Init => LeasesOwned BY DEF Init, LeasesOwned
<1>2. TypeOK /\ LeasesOwned /\ Publishable' /\ [Next]_vars => LeasesOwned'
  BY LeasesOwnedStep
<1>3. RegistryInv /\ LeasesOwned => NoGhostViewer
  BY DEF RegistryInv, RosterLeased, LeasesOwned, NoGhostViewer
<1>4. Spec => []Publishable BY AlwaysPublishable
<1> QED BY <1>1, <1>2, <1>3, <1>4, RegistryInvariant, TypeCorrect, PTL DEF Spec

----------------------------------------------------------------------------
\* The announcements.

\* A proposal may lapse without an announcement; nothing else changes silently.
ViewKept(f, g) ==
  \/ SameView(f, g)
  \/ /\ g.phase = f.phase /\ g.who = f.who /\ g.gen = f.gen
     /\ g.proposal = NoProposal

QuietStepOrPublish ==
  \/ Publish
  \/ UNCHANGED <<revision, announced>> /\ ViewKept(focus, focus')

LEMMA StepPublishes ==
  ASSUME TypeOK, [Next]_vars
  PROVE  QuietStepOrPublish
<1> USE DEF QuietStepOrPublish
<1>1. focus \in Arbiters /\ focus.gen \in Nat BY DEF TypeOK, Arbiters
<1>2. ASSUME UNCHANGED <<revision, announced, focus>> PROVE QuietStepOrPublish
  BY <1>2 DEF ViewKept, SameView
<1>3. AdvanceAndPublish => Publish BY DEF AdvanceAndPublish
<1>4. ASSUME NEW b, PublishIf(b), ~b => UNCHANGED focus PROVE QuietStepOrPublish
  BY <1>2, <1>3, <1>4 DEF PublishIf
<1>5. ASSUME UNCHANGED vars \/ LegacyStep PROVE QuietStepOrPublish
  BY <1>2, <1>5 DEF vars, v2Vars, LegacyStep, Claim, ClaimLegacySidecar,
                    ReleaseLegacySidecar, ReleaseLegacy, ExpectMoq
<1>6. ASSUME AdmissionStep \/ LeaseStep PROVE QuietStepOrPublish
  BY <1>2, <1>3, <1>6 DEF AdmissionStep, Authorize, CheckCommitted, ClaimV2,
                          ClaimV2Rejected, LeaseStep, RetireReplaced, ReleaseV2, v2Vars
<1>7. ASSUME MediaStep PROVE QuietStepOrPublish
  BY <1>2, <1>7 DEF MediaStep, ClaimMoq, ExpectMoqV2, BindV2Generation, v2Vars
<1>8. ASSUME CommandStep PROVE QuietStepOrPublish
  <2>1. PICK l \in leases :
          \/ AdvanceAndPublish
          \/ \E due \in BOOLEAN : FocusCommandRefused(l, due)
    BY <1>8 DEF CommandStep, RequestFocus, ApproveFocus, DenyFocus, ReleaseFocus,
                PreemptFocus, FocusCommandApplied
  <2>2. ASSUME NEW due \in BOOLEAN, FocusCommandRefused(l, due) PROVE QuietStepOrPublish
    <3> DEFINE c == Candidate(viewers[l.peer])
               f == IF due THEN ClearProposal(focus) ELSE focus
    <3>1. c \in Candidates BY <2>2, Commander DEF FocusCommandRefused
    <3>2. f \in Arbiters BY <1>1, <3>1, ArbiterOperators
    <3>3. ViewKept(focus, f) BY <1>1, ClearedFields DEF ViewKept, SameView
    <3>4. focus' = TrackCommand(f, c) /\ UNCHANGED <<revision, announced>>
      BY <2>2 DEF FocusCommandRefused
    <3> HIDE DEF c, f
    <3>5. SameView(f, focus') BY <3>1, <3>2, <3>4, ArbiterFields, 0 \in Nat
    <3>6. ViewKept(focus, focus') BY <3>3, <3>5 DEF ViewKept, SameView
    <3> QED BY <3>4, <3>6
  <2> QED BY <1>3, <2>1, <2>2
<1>9. ASSUME FocusStep PROVE QuietStepOrPublish
  BY <1>3, <1>9 DEF FocusStep, InvalidateV2Focus, CompleteV2FocusTransition, CompleteFocus,
                    PublishIf, ExpireV2Focus
<1>10. ASSUME SidecarStep PROVE QuietStepOrPublish
  <2>1. ASSUME NEW p \in InputPeers, ClaimInputV2(p) PROVE QuietStepOrPublish
    <3>1. Candidate(viewers[p]) \in Candidates BY RegistryAssumption, CandidateType
    <3>2. SameView(focus, focus') BY <1>1, <2>1, <3>1, ArbiterFields DEF ClaimInputV2
    <3> QED BY <2>1, <3>2 DEF ClaimInputV2, ViewKept
  <2>2. ASSUME NEW i \in inputs, ReleaseInputV2(i) PROVE QuietStepOrPublish
    BY <1>4, <2>2 DEF ReleaseInputV2
  <2>3. ASSUME NEW b \in feedbacks, BeginDetach(b) PROVE QuietStepOrPublish
    <3>1. \A c : ~InvalidationChanges(focus, c) => BeginInvalidation(focus, c) = focus
      BY DEF InvalidationChanges, BeginInvalidation
    <3> QED BY <1>4, <2>3, <3>1 DEF BeginDetach
  <2>4. ASSUME NEW b \in feedbacks, DisconnectV2Viewer(b) PROVE QuietStepOrPublish
    BY <1>3, <2>4 DEF DisconnectV2Viewer
  <2> QED BY <1>2, <1>10, <2>1, <2>2, <2>3, <2>4
          DEF SidecarStep, ClaimFeedbackV2, ReleaseFeedbackV2
<1>11. ASSUME AuthorizationStep PROVE QuietStepOrPublish
  <2>1. ASSUME NeutralizeMutation PROVE QuietStepOrPublish
    BY <1>4, <2>1 DEF NeutralizeMutation, CompleteFocus, CompleteTransition
  <2> QED BY <1>2, <1>3, <1>11, <2>1
          DEF AuthorizationStep, RevokeViewer, ReplaceViewerGrants, RedeemInvitation,
              CommitMutation, ApplyMutationElsewhere, ApplyAuthorizationMutation,
              NeutralizeMutationFails, CompleteAuthorizationNeutralization, v2Vars
<1> QED BY <1>5, <1>6, <1>7, <1>8, <1>9, <1>10, <1>11 DEF Next

LEMMA AnnouncedStep ==
  ASSUME TypeOK, AnnouncedIsCurrent, Publishable', [Next]_vars
  PROVE  AnnouncedIsCurrent'
<1>1. ~PublishFails BY DEF PublishFails, Publishable
<1>2. CASE Publish BY <1>1, <1>2 DEF Publish, AnnouncedIsCurrent
<1>3. CASE UNCHANGED <<revision, announced>> /\ ViewKept(focus, focus') /\ ~Publish
  <2>1. Roster(viewers') # {} => Roster(viewers) # {}
    <3>1. ~ \E p \in Peers : ClaimV2(p) BY <1>3 DEF ClaimV2, AdvanceAndPublish
    <3> QED BY <3>1, StepKeepsRoster DEF RosterKept
  <2> SUFFICES ASSUME Roster(viewers') # {}
               PROVE  /\ announced'.rev = revision'
                      /\ \/ announced'.view = FocusView(focus')
                         \/ /\ FocusView(focus').proposal = NoProposal
                            /\ [announced'.view EXCEPT !.proposal = NoProposal]
                                 = FocusView(focus')
    BY DEF AnnouncedIsCurrent
  <2> DEFINE shown == announced.view
             now == FocusView(focus)
  <2>2. /\ announced.rev = revision
        /\ \/ shown = now
           \/ now.proposal = NoProposal /\ [shown EXCEPT !.proposal = NoProposal] = now
    BY <2>1 DEF AnnouncedIsCurrent
  <2>3. CASE FocusView(focus') = now BY <1>3, <2>2, <2>3
  <2>4. CASE FocusView(focus') = [now EXCEPT !.proposal = NoProposal]
    <3>1. FocusView(focus').proposal = NoProposal BY <2>4 DEF FocusView
    <3>2. now.proposal = NoProposal => FocusView(focus') = now BY <2>4 DEF FocusView
    <3> QED BY <1>3, <2>2, <2>3, <2>4, <3>1, <3>2
  <2> QED BY <1>3, <2>3, <2>4 DEF ViewKept, SameView, FocusView
<1> QED BY <1>2, <1>3, StepPublishes DEF QuietStepOrPublish

\* What viewers were last told is the state of the slot at the current
\* revision: no change of the slot is lost between a call and the snapshots.
THEOREM AnnouncementsAreCurrent ==
  ASSUME ~DetachViewers PROVE Spec => []AnnouncedIsCurrent
<1>1. Init => AnnouncedIsCurrent BY DEF Init, Roster, NoViewer, AnnouncedIsCurrent
<1>2. TypeOK /\ AnnouncedIsCurrent /\ Publishable' /\ [Next]_vars => AnnouncedIsCurrent'
  BY AnnouncedStep
<1>3. Spec => []Publishable BY AlwaysPublishable
<1> QED BY <1>1, <1>2, <1>3, TypeCorrect, PTL DEF Spec

----------------------------------------------------------------------------
\* The claimed flags.  Input and feedback leases S follow the flags F of the
\* roster vs in the same way, so it is stated once for both.

Matches(vs, F, S, n) ==
  /\ \A p \in Roster(vs) : F[p] <=> \E x \in S : x.session = vs[p].session
  /\ \A x, y \in S : x.session = y.session => x = y
  /\ \A x \in S : x.session \leq n
  /\ \A p \in Roster(vs) : \A x \in S : x.session = vs[p].session => x.peer = p

\* Who is in the roster was there before, under the same session.
SameSessions(vs, ws) ==
  \A p \in Roster(ws) : p \in Roster(vs) /\ ws[p].session = vs[p].session

LEMMA MatchesKept ==
  ASSUME NEW vs, NEW ws, NEW F, NEW G, NEW S, NEW n, Matches(vs, F, S, n),
         SameSessions(vs, ws), \A p \in Roster(ws) : G[p] <=> F[p]
  PROVE  Matches(ws, G, S, n)
BY DEF Matches, SameSessions

LEMMA MatchesAdmitted ==
  ASSUME NEW vs, NEW ws, NEW F, NEW G, NEW S, NEW n \in Nat, Matches(vs, F, S, n),
         \A x \in S : x.session \in Nat,
         NEW p, ws[p].session = n + 1, ~G[p],
         \A q \in Roster(ws) \ {p} : q \in Roster(vs) /\ ws[q].session = vs[q].session
                                     /\ (G[q] <=> F[q])
  PROVE  Matches(ws, G, S, n + 1)
<1>1. \A x \in S : x.session \leq n /\ x.session # n + 1 BY DEF Matches
<1>2. \A x \in S : x.session \leq n + 1 BY <1>1
<1> QED BY <1>1, <1>2 DEF Matches

LEMMA MatchesClaimed ==
  ASSUME NEW vs, NEW ws, NEW F, NEW G, NEW S, NEW n, Matches(vs, F, S, n),
         SameSessions(vs, ws),
         NEW x, x.peer \in Roster(vs), x.session = vs[x.peer].session, x.session \leq n,
         \A q \in Roster(vs) : vs[q].session = x.session => q = x.peer,
         ~F[x.peer], G[x.peer], \A q \in Roster(ws) \ {x.peer} : G[q] <=> F[q]
  PROVE  Matches(ws, G, S \cup {x}, n)
<1>1. \A y \in S : y.session # x.session BY DEF Matches
<1>2. ASSUME NEW p \in Roster(ws)
      PROVE  G[p] <=> \E y \in S \cup {x} : y.session = ws[p].session
  <2>1. CASE p = x.peer BY <1>2, <2>1 DEF SameSessions
  <2>2. CASE p # x.peer
    <3>1. p \in Roster(vs) /\ ws[p].session = vs[p].session /\ vs[p].session # x.session
      BY <1>2, <2>2 DEF SameSessions
    <3> QED BY <1>2, <2>2, <3>1 DEF Matches
  <2> QED BY <2>1, <2>2
<1> QED BY <1>1, <1>2 DEF Matches, SameSessions

LEMMA MatchesReleased ==
  ASSUME NEW vs, NEW ws, NEW F, NEW G, NEW S, NEW n, NEW x \in S, Matches(vs, F, S, n),
         SameSessions(vs, ws),
         \A q \in Roster(ws) :
           G[q] <=> F[q] /\ ~(q = x.peer /\ vs[q].session = x.session)
  PROVE  Matches(ws, G, S \ {x}, n)
<1>1. ASSUME NEW p \in Roster(ws)
      PROVE  G[p] <=> \E y \in S \ {x} : y.session = ws[p].session
  <2>1. p \in Roster(vs) /\ ws[p].session = vs[p].session BY <1>1 DEF SameSessions
  <2>2. CASE vs[p].session = x.session
    <3>1. p = x.peer BY <2>1, <2>2 DEF Matches
    <3> QED BY <1>1, <2>1, <2>2, <3>1 DEF Matches
  <2>3. CASE vs[p].session # x.session BY <1>1, <2>1, <2>3 DEF Matches
  <2> QED BY <2>2, <2>3
<1> QED BY <1>1 DEF Matches, SameSessions

LEMMA MatchesReplaced ==
  ASSUME NEW vs, NEW F, NEW S, NEW n, NEW x \in S, NEW y, Matches(vs, F, S, n),
         y.session = x.session, y.peer = x.peer
  PROVE  Matches(vs, F, (S \ {x}) \cup {y}, n)
BY DEF Matches

\* The claims and the sessions of the roster.
InputClaims == [p \in Peers |-> viewers[p].input]
FeedbackClaims == [p \in Peers |-> viewers[p].feedback]

SidecarInv ==
  /\ Matches(viewers, InputClaims, inputs, nextSession)
  /\ Matches(viewers, FeedbackClaims, feedbacks, nextSession)

\* Two viewers never share a session, and no viewer is ahead of the counter.
LEMMA RosterSessions ==
  ASSUME RegistryInv
  PROVE  /\ \A p, q \in Roster(viewers) : viewers[p].session = viewers[q].session => p = q
         /\ \A p \in Roster(viewers) : viewers[p].session \leq nextSession
<1>1. ASSUME NEW p \in Roster(viewers)
      PROVE  \E l \in leases : l.peer = p /\ l.session = viewers[p].session
  BY DEF RegistryInv, RosterLeased
<1>2. \A l, m \in leases : l.session = m.session => l = m
  BY DEF RegistryInv, LeasesCounted
<1>3. \A l \in leases : l.session \leq nextSession BY DEF RegistryInv, LeasesCounted
<1> QED BY <1>1, <1>2, <1>3

LEMMA RosterSame == ASSUME RosterKept PROVE SameSessions(viewers, viewers')
BY DEF RosterKept, SameSessions

\* The claims of who stays in the roster.
InputKept == \A p \in Roster(viewers') : viewers'[p].input = viewers[p].input
FeedbackKept == \A p \in Roster(viewers') : viewers'[p].feedback = viewers[p].feedback

LEMMA ClaimsKept ==
  ASSUME TypeOK, NEW q \in Peers,
         UNCHANGED viewers \/ ViewerWritten(q) \/ ApplyAuthorizationMutation
  PROVE  InputKept /\ FeedbackKept
<1> SUFFICES ASSUME NEW p \in Roster(viewers')
             PROVE  /\ viewers'[p].input = viewers[p].input
                    /\ viewers'[p].feedback = viewers[p].feedback
  BY DEF InputKept, FeedbackKept
<1> DEFINE v == viewers[p]
           w == viewers'[p]
<1>1. p \in Peers /\ w.session # 0 BY DEF Roster
<1>2. NoViewer.session = 0 BY DEF NoViewer
<1>3. CASE UNCHANGED viewers BY <1>3
<1>4. CASE ViewerWritten(q)
  <2>1. \/ w = v \/ w = NoViewer \/ w = [v EXCEPT !.neutralizing = FALSE]
        \/ \E x : w = [v EXCEPT !.gen = x]
    BY <1>1, <1>4 DEF ViewerWritten, TypeOK
  <2> QED BY <1>1, <1>2, <2>1, ViewerShape
<1>5. CASE ApplyAuthorizationMutation
  <2>1. CASE p = mutation.peer BY <1>1, <1>2, <1>5, <2>1, MutatedFields
  <2>2. CASE p # mutation.peer
    <3>1. w = v BY <1>1, <1>5, <2>2, MutatedFields DEF TypeOK
    <3> QED BY <3>1
  <2> QED BY <2>1, <2>2
<1> QED BY <1>3, <1>4, <1>5

LEMMA InputWritten ==
  ASSUME TypeOK, NEW q \in Peers, NEW b \in BOOLEAN,
         viewers' = [viewers EXCEPT ![q].input = b]
  PROVE  /\ FeedbackKept
         /\ \A p \in Peers : viewers'[p].input = IF p = q THEN b ELSE viewers[p].input
<1>1. ASSUME NEW p \in Peers
      PROVE  /\ viewers'[p].feedback = viewers[p].feedback
             /\ viewers'[p].input = IF p = q THEN b ELSE viewers[p].input
  <2>1. viewers'[p] = IF p = q THEN [viewers[p] EXCEPT !.input = b] ELSE viewers[p]
    BY DEF TypeOK
  <2> QED BY <2>1, ViewerShape
<1> QED BY <1>1 DEF FeedbackKept, Roster

LEMMA FeedbackWritten ==
  ASSUME TypeOK, NEW q \in Peers, NEW b \in BOOLEAN,
         viewers' = [viewers EXCEPT ![q].feedback = b]
  PROVE  /\ InputKept
         /\ \A p \in Peers :
              viewers'[p].feedback = IF p = q THEN b ELSE viewers[p].feedback
<1>1. ASSUME NEW p \in Peers
      PROVE  /\ viewers'[p].input = viewers[p].input
             /\ viewers'[p].feedback = IF p = q THEN b ELSE viewers[p].feedback
  <2>1. viewers'[p] = IF p = q THEN [viewers[p] EXCEPT !.feedback = b] ELSE viewers[p]
    BY DEF TypeOK
  <2> QED BY <2>1, ViewerShape
<1> QED BY <1>1 DEF InputKept, Roster

\* The input leases change only in the two calls about them.
LEMMA InputsKept ==
  ASSUME [Next]_vars
  PROVE  \/ UNCHANGED inputs
         \/ \E p \in InputPeers : ClaimInputV2(p)
         \/ \E i \in inputs : ReleaseInputV2(i)
BY DEF Next, vars, leaseVars, LegacyStep, Claim, ClaimLegacySidecar,
       ReleaseLegacySidecar, ReleaseLegacy, ExpectMoq, AdmissionStep, Authorize,
       CheckCommitted, ClaimV2, ClaimV2Rejected, MediaStep, ClaimMoq,
       BindV2Generation, ExpectMoqV2, LeaseStep, RetireReplaced, ReleaseV2,
       CommandStep, RequestFocus, FocusCommandRefused, ApproveFocus, DenyFocus,
       ReleaseFocus, PreemptFocus, FocusCommandApplied, FocusStep,
       InvalidateV2Focus, CompleteV2FocusTransition, ExpireV2Focus, SidecarStep,
       ClaimFeedbackV2, ReleaseFeedbackV2, BeginDetach, DisconnectV2Viewer,
       AuthorizationStep, RevokeViewer, ReplaceViewerGrants, RedeemInvitation,
       CommitMutation, ApplyMutationElsewhere, ApplyAuthorizationMutation,
       NeutralizeMutation, NeutralizeMutationFails, CompleteAuthorizationNeutralization

LEMMA SessionsIssued ==
  ASSUME [Next]_vars
  PROVE  UNCHANGED nextSession \/ FreshSession
BY DEF Next, vars, LegacyStep, Claim, ClaimLegacySidecar,
       ReleaseLegacySidecar, ReleaseLegacy, ExpectMoq, AdmissionStep, Authorize,
       CheckCommitted, ClaimV2, ClaimV2Rejected, MediaStep, ClaimMoq,
       BindV2Generation, ExpectMoqV2, LeaseStep, RetireReplaced, ReleaseV2,
       CommandStep, RequestFocus, FocusCommandRefused, ApproveFocus, DenyFocus,
       ReleaseFocus, PreemptFocus, FocusCommandApplied, FocusStep,
       InvalidateV2Focus, CompleteV2FocusTransition, ExpireV2Focus, SidecarStep,
       ClaimInputV2, ReleaseInputV2, ClaimFeedbackV2, ReleaseFeedbackV2, BeginDetach,
       DisconnectV2Viewer, AuthorizationStep, RevokeViewer, ReplaceViewerGrants,
       RedeemInvitation, CommitMutation, ApplyMutationElsewhere,
       ApplyAuthorizationMutation, NeutralizeMutation, NeutralizeMutationFails,
       CompleteAuthorizationNeutralization

\* Every other call leaves the leases and the claims of who stays alone.
OtherCall ==
  /\ UNCHANGED <<inputs, feedbacks>>
  /\ RosterKept /\ InputKept /\ FeedbackKept
  /\ UNCHANGED nextSession \/ FreshSession

LEMMA CallKinds ==
  ASSUME TypeOK, [Next]_vars
  PROVE  \/ OtherCall
         \/ \E p \in Peers : ClaimV2(p)
         \/ \E p \in InputPeers : ClaimInputV2(p)
         \/ \E i \in inputs : ReleaseInputV2(i)
         \/ \E p \in FeedbackPeers : ClaimFeedbackV2(p)
         \/ \E b \in feedbacks : ReleaseFeedbackV2(b) \/ BeginDetach(b)
<1> SUFFICES ASSUME ~ \E p \in Peers : ClaimV2(p),
                    ~ \E p \in InputPeers : ClaimInputV2(p),
                    ~ \E i \in inputs : ReleaseInputV2(i),
                    ~ \E p \in FeedbackPeers : ClaimFeedbackV2(p),
                    ~ \E b \in feedbacks : ReleaseFeedbackV2(b) \/ BeginDetach(b)
             PROVE  OtherCall
  OBVIOUS
<1>1. UNCHANGED <<inputs, feedbacks>> BY InputsKept, FeedbacksKept
<1>2. RosterKept BY StepKeepsRoster
<1>3. \/ UNCHANGED viewers \/ ApplyAuthorizationMutation
      \/ \E q \in Peers : ViewerWritten(q)
  BY ViewerStep
<1>4. InputKept /\ FeedbackKept
  <2>1. CASE \E q \in Peers : ViewerWritten(q) BY <2>1, ClaimsKept
  <2>2. CASE UNCHANGED viewers BY <2>2 DEF InputKept, FeedbackKept
  <2>3. CASE ApplyAuthorizationMutation
    <3>1. mutation.peer \in Peers BY <2>3, MutatedFields DEF Roster
    <3> QED BY <2>3, <3>1, ClaimsKept
  <2> QED BY <1>3, <2>1, <2>2, <2>3
<1> QED BY <1>1, <1>2, <1>4, SessionsIssued DEF OtherCall

LEMMA MatchesLater ==
  ASSUME NEW vs, NEW F, NEW S, NEW n \in Nat, Matches(vs, F, S, n),
         \A x \in S : x.session \in Nat
  PROVE  Matches(vs, F, S, n + 1)
<1>1. \A x \in S : x.session \leq n + 1 BY DEF Matches
<1> QED BY <1>1 DEF Matches

LEMMA OtherCallMatches ==
  ASSUME TypeOK, SidecarInv, OtherCall
  PROVE  SidecarInv'
<1>1. SameSessions(viewers, viewers') BY RosterSame DEF OtherCall
<1>2. \A p \in Roster(viewers') : /\ InputClaims'[p] <=> InputClaims[p]
                                  /\ FeedbackClaims'[p] <=> FeedbackClaims[p]
  BY DEF OtherCall, InputKept, FeedbackKept, InputClaims, FeedbackClaims, Roster
<1>3. /\ Matches(viewers', InputClaims', inputs, nextSession)
      /\ Matches(viewers', FeedbackClaims', feedbacks, nextSession)
  BY <1>1, <1>2, MatchesKept DEF SidecarInv
<1>4. nextSession \in Nat /\ \A x \in inputs \cup feedbacks : x.session \in Nat
  BY DEF TypeOK
<1>5. nextSession' \in {nextSession, nextSession + 1} BY DEF OtherCall, FreshSession
<1> QED BY <1>3, <1>4, <1>5, MatchesLater DEF OtherCall, SidecarInv

LEMMA AdmissionMatches ==
  ASSUME TypeOK, SidecarInv, NEW p \in Peers, ClaimV2(p)
  PROVE  SidecarInv'
<1>1. /\ viewers' = [viewers EXCEPT ![p] = viewers'[p]]
      /\ viewers'[p].session = nextSession + 1
      /\ ~viewers'[p].input /\ ~viewers'[p].feedback
  BY AdmittedViewer
<1>2. ~InputClaims'[p] /\ ~FeedbackClaims'[p] BY <1>1 DEF InputClaims, FeedbackClaims
<1>3. \A q \in Roster(viewers') \ {p} :
        /\ q \in Roster(viewers) /\ viewers'[q].session = viewers[q].session
        /\ InputClaims'[q] <=> InputClaims[q]
        /\ FeedbackClaims'[q] <=> FeedbackClaims[q]
  <2>1. \A q \in Peers \ {p} : viewers'[q] = viewers[q] BY <1>1 DEF TypeOK
  <2> QED BY <2>1 DEF Roster, InputClaims, FeedbackClaims
<1>4. nextSession \in Nat /\ \A x \in inputs \cup feedbacks : x.session \in Nat
  BY DEF TypeOK
<1>5. UNCHANGED <<inputs, feedbacks>> /\ nextSession' = nextSession + 1
  BY DEF ClaimV2, FreshSession
<1>6. Matches(viewers', InputClaims', inputs, nextSession + 1)
  BY <1>1, <1>2, <1>3, <1>4, MatchesAdmitted DEF SidecarInv
<1>7. Matches(viewers', FeedbackClaims', feedbacks, nextSession + 1)
  BY <1>1, <1>2, <1>3, <1>4, MatchesAdmitted DEF SidecarInv
<1> QED BY <1>5, <1>6, <1>7 DEF SidecarInv

LEMMA InputClaimMatches ==
  ASSUME RegistryInv, SidecarInv, NEW p \in Peers, ClaimInputV2(p)
  PROVE  SidecarInv'
<1> DEFINE v == viewers[p]
           x == [peer |-> p, session |-> v.session, gen |-> focus.gen]
<1>1. TypeOK BY DEF RegistryInv
<1>2. UNCHANGED <<feedbacks, nextSession>> /\ p \in Roster(viewers)
  BY DEF ClaimInputV2, IsFocusOwner, IsViewer, Roster
<1>3. CASE v.input
  <2>1. UNCHANGED <<viewers, inputs>> BY <1>3 DEF ClaimInputV2
  <2> QED BY <1>2, <2>1 DEF SidecarInv, InputClaims, FeedbackClaims
<1>4. CASE ~v.input
  <2>1. /\ viewers' = [viewers EXCEPT ![p].input = TRUE]
        /\ inputs' = inputs \cup {x}
    BY <1>4 DEF ClaimInputV2
  <2>2. /\ FeedbackKept
        /\ \A q \in Peers : viewers'[q].input = IF q = p THEN TRUE ELSE viewers[q].input
    BY <1>1, <2>1, InputWritten
  <2>3. SameSessions(viewers, viewers')
    BY <1>1, <2>1, FlagWrite, SameViewersKept, RosterSame
  <2>4. Matches(viewers', FeedbackClaims', feedbacks, nextSession)
    BY <2>2, <2>3, MatchesKept DEF SidecarInv, FeedbackKept, FeedbackClaims, Roster
  <2>5. /\ ~InputClaims[p] /\ InputClaims'[p]
        /\ \A q \in Roster(viewers') \ {p} : InputClaims'[q] <=> InputClaims[q]
    BY <1>4, <2>2 DEF InputClaims, Roster
  <2>6. x.peer = p /\ x.session = viewers[p].session OBVIOUS
  <2>7. /\ \A q \in Roster(viewers) : viewers[q].session = x.session => q = p
        /\ x.session \leq nextSession
    BY <1>2, <2>6, RosterSessions
  <2> HIDE DEF x
  <2>8. Matches(viewers', InputClaims', inputs \cup {x}, nextSession)
    BY <1>2, <2>3, <2>5, <2>6, <2>7, MatchesClaimed DEF SidecarInv
  <2> QED BY <1>2, <2>1, <2>4, <2>8 DEF SidecarInv
<1> QED BY <1>3, <1>4

LEMMA FeedbackClaimMatches ==
  ASSUME RegistryInv, SidecarInv, NEW p \in Peers, ClaimFeedbackV2(p)
  PROVE  SidecarInv'
<1> DEFINE x == [peer |-> p, session |-> viewers[p].session, detaching |-> FALSE, tid |-> 0]
<1>1. TypeOK BY DEF RegistryInv
<1>2. /\ UNCHANGED <<inputs, nextSession>> /\ p \in Roster(viewers)
      /\ viewers' = [viewers EXCEPT ![p].feedback = TRUE]
      /\ feedbacks' = feedbacks \cup {x} /\ ~viewers[p].feedback
  BY DEF ClaimFeedbackV2
<1>3. /\ InputKept
      /\ \A q \in Peers :
           viewers'[q].feedback = IF q = p THEN TRUE ELSE viewers[q].feedback
  BY <1>1, <1>2, FeedbackWritten
<1>4. SameSessions(viewers, viewers')
  BY <1>1, <1>2, FlagWrite, SameViewersKept, RosterSame
<1>5. Matches(viewers', InputClaims', inputs, nextSession)
  BY <1>3, <1>4, MatchesKept DEF SidecarInv, InputKept, InputClaims, Roster
<1>6. /\ ~FeedbackClaims[p] /\ FeedbackClaims'[p]
      /\ \A q \in Roster(viewers') \ {p} : FeedbackClaims'[q] <=> FeedbackClaims[q]
  BY <1>2, <1>3 DEF FeedbackClaims, Roster
<1>7. x.peer = p /\ x.session = viewers[p].session OBVIOUS
<1>8. /\ \A q \in Roster(viewers) : viewers[q].session = x.session => q = p
      /\ x.session \leq nextSession
  BY <1>2, <1>7, RosterSessions
<1> HIDE DEF x
<1>9. Matches(viewers', FeedbackClaims', feedbacks \cup {x}, nextSession)
  BY <1>2, <1>4, <1>6, <1>7, <1>8, MatchesClaimed DEF SidecarInv
<1> QED BY <1>2, <1>5, <1>9 DEF SidecarInv

LEMMA InputReleaseMatches ==
  ASSUME TypeOK, SidecarInv, NEW i \in inputs, ReleaseInputV2(i)
  PROVE  SidecarInv'
<1>1. i.peer \in Peers /\ i.session # 0 BY DEF TypeOK
<1>2. /\ inputs' = inputs \ {i} /\ UNCHANGED <<feedbacks, nextSession>>
      /\ viewers' = IF IsViewer(i.peer, i.session)
                    THEN [viewers EXCEPT ![i.peer].input = FALSE] ELSE viewers
  BY DEF ReleaseInputV2
<1>3. SameSessions(viewers, viewers') BY <1>1, <1>2, FlagWrite, SameViewersKept, RosterSame
<1>4. /\ FeedbackKept
      /\ \A q \in Peers : viewers'[q].input =
           IF q = i.peer /\ IsViewer(i.peer, i.session) THEN FALSE ELSE viewers[q].input
  <2>1. CASE IsViewer(i.peer, i.session)
    <3>1. viewers' = [viewers EXCEPT ![i.peer].input = FALSE] BY <1>2, <2>1
    <3>2. /\ FeedbackKept
          /\ \A q \in Peers :
               viewers'[q].input = IF q = i.peer THEN FALSE ELSE viewers[q].input
      BY <1>1, <3>1, InputWritten
    <3> QED BY <2>1, <3>2
  <2>2. CASE ~IsViewer(i.peer, i.session) BY <1>2, <2>2 DEF FeedbackKept
  <2> QED BY <2>1, <2>2
<1>5. Matches(viewers', FeedbackClaims', feedbacks, nextSession)
  BY <1>3, <1>4, MatchesKept DEF SidecarInv, FeedbackKept, FeedbackClaims, Roster
<1>6. \A q \in Roster(viewers') : InputClaims'[q] <=>
        InputClaims[q] /\ ~(q = i.peer /\ viewers[q].session = i.session)
  BY <1>1, <1>4 DEF InputClaims, Roster, IsViewer
<1>7. Matches(viewers', InputClaims', inputs \ {i}, nextSession)
  BY <1>3, <1>6, MatchesReleased DEF SidecarInv
<1> QED BY <1>2, <1>5, <1>7 DEF SidecarInv

LEMMA FeedbackReleaseMatches ==
  ASSUME TypeOK, SidecarInv, NEW b \in feedbacks, ReleaseFeedbackV2(b)
  PROVE  SidecarInv'
<1>1. b.peer \in Peers /\ b.session # 0 BY DEF TypeOK
<1>2. /\ feedbacks' = feedbacks \ {b} /\ UNCHANGED <<inputs, nextSession>>
      /\ viewers' = IF IsViewer(b.peer, b.session)
                    THEN [viewers EXCEPT ![b.peer].feedback = FALSE] ELSE viewers
  BY DEF ReleaseFeedbackV2
<1>3. SameSessions(viewers, viewers') BY <1>1, <1>2, FlagWrite, SameViewersKept, RosterSame
<1>4. /\ InputKept
      /\ \A q \in Peers : viewers'[q].feedback =
           IF q = b.peer /\ IsViewer(b.peer, b.session) THEN FALSE
           ELSE viewers[q].feedback
  <2>1. CASE IsViewer(b.peer, b.session)
    <3>1. viewers' = [viewers EXCEPT ![b.peer].feedback = FALSE] BY <1>2, <2>1
    <3>2. /\ InputKept
          /\ \A q \in Peers :
               viewers'[q].feedback = IF q = b.peer THEN FALSE ELSE viewers[q].feedback
      BY <1>1, <3>1, FeedbackWritten
    <3> QED BY <2>1, <3>2
  <2>2. CASE ~IsViewer(b.peer, b.session) BY <1>2, <2>2 DEF InputKept
  <2> QED BY <2>1, <2>2
<1>5. Matches(viewers', InputClaims', inputs, nextSession)
  BY <1>3, <1>4, MatchesKept DEF SidecarInv, InputKept, InputClaims, Roster
<1>6. \A q \in Roster(viewers') : FeedbackClaims'[q] <=>
        FeedbackClaims[q] /\ ~(q = b.peer /\ viewers[q].session = b.session)
  BY <1>1, <1>4 DEF FeedbackClaims, Roster, IsViewer
<1>7. Matches(viewers', FeedbackClaims', feedbacks \ {b}, nextSession)
  BY <1>3, <1>6, MatchesReleased DEF SidecarInv
<1> QED BY <1>2, <1>5, <1>7 DEF SidecarInv

LEMMA DetachMatches ==
  ASSUME TypeOK, SidecarInv, NEW b \in feedbacks, BeginDetach(b)
  PROVE  SidecarInv'
<1>1. PICK t : feedbacks' = (feedbacks \ {b}) \cup
                 {[b EXCEPT !.detaching = TRUE, !.tid = t]}
  BY DEF BeginDetach
<1> DEFINE y == [b EXCEPT !.detaching = TRUE, !.tid = t]
<1>2. y.session = b.session /\ y.peer = b.peer BY DEF TypeOK
<1>3. UNCHANGED <<viewers, inputs, nextSession>> BY DEF BeginDetach
<1>4. feedbacks' = (feedbacks \ {b}) \cup {y} BY <1>1
<1> HIDE DEF y
<1>5. Matches(viewers, FeedbackClaims, feedbacks', nextSession)
  BY <1>2, <1>4, MatchesReplaced DEF SidecarInv
<1> QED BY <1>3, <1>5 DEF SidecarInv, InputClaims, FeedbackClaims

LEMMA SidecarStepInv ==
  ASSUME RegistryInv, SidecarInv, [Next]_vars
  PROVE  SidecarInv'
<1>1. TypeOK BY DEF RegistryInv
<1>2. InputPeers \subseteq Peers /\ FeedbackPeers \subseteq Peers BY RegistryAssumption
<1> QED BY <1>1, <1>2, CallKinds, OtherCallMatches, AdmissionMatches, InputClaimMatches,
           InputReleaseMatches, FeedbackClaimMatches, FeedbackReleaseMatches, DetachMatches

LEMMA SidecarInit == Init => SidecarInv
<1>1. Init => Roster(viewers) = {} BY DEF Init, Roster, NoViewer
<1> QED BY <1>1 DEF Init, SidecarInv, Matches

THEOREM SidecarInvariant == Spec => []SidecarInv
<1> QED BY SidecarInit, SidecarStepInv, RegistryInvariant, PTL DEF Spec

\* The claimed flags of a viewer say what leases exist, whatever replacements,
\* revocations and detachments ran between the claim and the release.
THEOREM SidecarFlagsAreExact == Spec => []SidecarFlagsExact
<1>1. SidecarInv => SidecarFlagsExact
  BY DEF SidecarInv, Matches, SidecarFlagsExact, InputClaims, FeedbackClaims, Roster
<1> QED BY <1>1, SidecarInvariant, PTL

----------------------------------------------------------------------------
\* The fence of an input stream.

LEMMA GenerationsStep ==
  ASSUME TypeOK, GenerationsIssued, [Next]_vars
  PROVE  GenerationsIssued'
<1>1. /\ focus.gen \in Nat /\ focus.nextGen \in Nat
      /\ \A i \in inputs : i.gen \in Nat
  BY DEF TypeOK, Arbiters
<1>2. focus.gen \leq focus.nextGen /\ \A i \in inputs : i.gen \leq focus.nextGen
  BY DEF GenerationsIssued
<1>3. SlotMove(focus, focus') BY StepMoves
<1>4. focus'.nextGen \in {focus.nextGen, focus.nextGen + 1}
      /\ focus'.gen \in {focus.gen, 0, focus'.nextGen}
  BY <1>3 DEF SlotMove, SameHold, SameSlot
<1>5. focus'.gen \leq focus'.nextGen BY <1>1, <1>2, <1>4
<1>6. \A i \in inputs' : i \in inputs \/ i.gen = focus.gen
  <2>1. ASSUME NEW p \in InputPeers, ClaimInputV2(p)
        PROVE  inputs' \subseteq inputs \cup
                 {[peer |-> p, session |-> viewers[p].session, gen |-> focus.gen]}
    BY <2>1 DEF ClaimInputV2
  <2>2. ASSUME NEW i \in inputs, ReleaseInputV2(i) PROVE inputs' \subseteq inputs
    BY <2>2 DEF ReleaseInputV2
  <2> QED BY <2>1, <2>2, InputsKept
<1>7. \A i \in inputs' : i.gen \leq focus'.nextGen BY <1>1, <1>2, <1>4, <1>6
<1> QED BY <1>5, <1>7 DEF GenerationsIssued

\* A viewer that is in the roster under a session issued before this step was
\* there before it, as the same candidate.
LEMMA OldSession ==
  ASSUME TypeOK, [Next]_vars, NEW p \in Peers, NEW sid \in Nat, IsViewer(p, sid)',
         sid \leq nextSession
  PROVE  IsViewer(p, sid) /\ Candidate(viewers[p])' = Candidate(viewers[p])
<1>1. p \in Roster(viewers') BY DEF IsViewer, Roster
<1>2. CASE RosterKept BY <1>1, <1>2 DEF RosterKept, IsViewer, Candidate
<1>3. ASSUME NEW q \in Peers, ClaimV2(q)
      PROVE  IsViewer(p, sid) /\ Candidate(viewers[p])' = Candidate(viewers[p])
  <2>1. /\ viewers' = [viewers EXCEPT ![q] = viewers'[q]]
        /\ viewers'[q].session = nextSession + 1
    BY <1>3, AdmittedViewer
  <2>2. p # q BY <2>1 DEF IsViewer, TypeOK
  <2>3. viewers'[p] = viewers[p] BY <2>1, <2>2 DEF TypeOK
  <2> QED BY <2>3 DEF IsViewer, Candidate
<1> QED BY <1>2, <1>3, StepKeepsRoster

LEMMA FenceStep ==
  ASSUME TypeOK, SidecarInv, GenerationsIssued, [Next]_vars,
         NEW i \in inputs, IsFocusOwner(i.peer, i.session, i.gen)'
  PROVE  IsFocusOwner(i.peer, i.session, i.gen)
<1>1. /\ i.peer \in Peers /\ i.session \in Nat /\ i.gen \in Nat
      /\ focus.nextGen \in Nat
  BY DEF TypeOK, Arbiters
<1>2. i.session \leq nextSession BY DEF SidecarInv, Matches
<1>3. i.gen \leq focus.nextGen BY DEF GenerationsIssued
<1>4. /\ IsViewer(i.peer, i.session)'
      /\ IsHeld(focus') /\ focus'.who = Candidate(viewers[i.peer])' /\ focus'.gen = i.gen
  BY DEF IsFocusOwner, EnsureHolder, HeldBy
<1>5. /\ IsViewer(i.peer, i.session)
      /\ Candidate(viewers[i.peer])' = Candidate(viewers[i.peer])
  BY <1>1, <1>2, <1>4, OldSession
<1>6. focus'.gen # focus.nextGen + 1 BY <1>1, <1>3, <1>4
<1>7. IsHeld(focus) /\ focus.who = focus'.who /\ focus.gen = focus'.gen
  BY <1>4, <1>6, StepMoves DEF SlotMove, SameHold, SameSlot, IsHeld, IsNeutralizing
<1> QED BY <1>4, <1>5, <1>7 DEF IsFocusOwner, EnsureHolder, HeldBy

\* An input stream that lost the slot never owns it again: a later grant to its
\* session, or to a reconnected session of its peer, does not revive it.
THEOREM StreamFenceIsFinal == Spec => StreamFenceFinal
<1>1. Init => GenerationsIssued BY DEF Init, NewArbiter, GenerationsIssued
<1>2. TypeOK /\ GenerationsIssued /\ [Next]_vars => GenerationsIssued'
  BY GenerationsStep
<1>3. TypeOK /\ SidecarInv /\ GenerationsIssued /\ [Next]_vars =>
        [\A i \in inputs \cap inputs' :
           ~IsFocusOwner(i.peer, i.session, i.gen)
             => ~IsFocusOwner(i.peer, i.session, i.gen)']_vars
  <2> SUFFICES ASSUME TypeOK, SidecarInv, GenerationsIssued, [Next]_vars
               PROVE  \A i \in inputs \cap inputs' :
                        ~IsFocusOwner(i.peer, i.session, i.gen)
                          => ~IsFocusOwner(i.peer, i.session, i.gen)'
    OBVIOUS
  <2> QED BY FenceStep
<1> QED BY <1>1, <1>2, <1>3, TypeCorrect, SidecarInvariant, PTL DEF Spec, StreamFenceFinal

----------------------------------------------------------------------------
\* The bar on a viewer whose input authorization is withdrawn.

\* Nobody is barred, and no barred viewer's authorization changes, but by the
\* application of a mutation.
BarsKept ==
  \A p \in Peers : viewers'[p].neutralizing =>
    viewers[p].neutralizing /\ viewers'[p].arev = viewers[p].arev

LEMMA BarsWritten ==
  ASSUME TypeOK, NEW q \in Peers, NEW b,
         \/ UNCHANGED viewers
         \/ viewers' = [viewers EXCEPT ![q].gen = b]
         \/ viewers' = [viewers EXCEPT ![q].input = b]
         \/ viewers' = [viewers EXCEPT ![q].feedback = b]
         \/ viewers' = [viewers EXCEPT ![q].neutralizing = FALSE]
         \/ viewers' = [viewers EXCEPT ![q] = NoViewer]
  PROVE  BarsKept
<1> SUFFICES ASSUME NEW p \in Peers, viewers'[p].neutralizing
             PROVE  viewers[p].neutralizing /\ viewers'[p].arev = viewers[p].arev
  BY DEF BarsKept
<1>1. \/ viewers'[p] = viewers[p]
      \/ viewers'[p] = [viewers[p] EXCEPT !.gen = b]
      \/ viewers'[p] = [viewers[p] EXCEPT !.input = b]
      \/ viewers'[p] = [viewers[p] EXCEPT !.feedback = b]
      \/ viewers'[p] = [viewers[p] EXCEPT !.neutralizing = FALSE]
      \/ viewers'[p] = NoViewer
  BY DEF TypeOK
<1>2. ~NoViewer.neutralizing BY DEF NoViewer
<1> QED BY <1>1, <1>2, ViewerShape

LEMMA StepKeepsBars ==
  ASSUME TypeOK, [Next]_vars
  PROVE  BarsKept \/ ApplyAuthorizationMutation
<1>1. CASE UNCHANGED viewers BY <1>1 DEF BarsKept
<1>2. ASSUME NEW q \in Peers, ViewerWritten(q) PROVE BarsKept
  BY <1>2, BarsWritten DEF ViewerWritten
<1>3. ASSUME NEW q \in Peers, ClaimV2(q) PROVE BarsKept
  <2>1. /\ viewers' = [viewers EXCEPT ![q] = viewers'[q]]
        /\ viewers'[q].neutralizing = FALSE
    BY <1>3, AdmittedViewer
  <2>2. \A p \in Peers \ {q} : viewers'[p] = viewers[p] BY <2>1 DEF TypeOK
  <2> QED BY <2>1, <2>2 DEF BarsKept
<1>4. ASSUME NEW q \in InputPeers, ClaimInputV2(q) PROVE BarsKept
  <2>1. q \in Peers BY RegistryAssumption
  <2> QED BY <1>4, <2>1, BarsWritten DEF ClaimInputV2
<1>5. ASSUME NEW i \in inputs, ReleaseInputV2(i) PROVE BarsKept
  <2>1. i.peer \in Peers BY DEF TypeOK
  <2> QED BY <1>5, <2>1, BarsWritten DEF ReleaseInputV2
<1>6. ASSUME NEW q \in FeedbackPeers, ClaimFeedbackV2(q) PROVE BarsKept
  <2>1. q \in Peers BY RegistryAssumption
  <2> QED BY <1>6, <2>1, BarsWritten DEF ClaimFeedbackV2
<1>7. ASSUME NEW b \in feedbacks, ReleaseFeedbackV2(b) PROVE BarsKept
  <2>1. b.peer \in Peers BY DEF TypeOK
  <2> QED BY <1>7, <2>1, BarsWritten DEF ReleaseFeedbackV2
<1> QED BY <1>1, <1>2, <1>3, <1>4, <1>5, <1>6, <1>7, ViewerStep

\* How the request that is being served goes on.
LEMMA RequestStep ==
  ASSUME TypeOK, [Next]_vars
  PROVE  \/ UNCHANGED mutation
         \/ mutation.stage = "idle" /\ mutation'.stage = "committed"
         \/ ApplyAuthorizationMutation
         \/ mutation.stage # "complete" /\ mutation' = NoMutation
         \/ /\ mutation.stage = "neutralize" /\ mutation'.stage = "complete"
            /\ mutation'.peer = mutation.peer /\ mutation'.arev = mutation.arev
         \/ CompleteAuthorizationNeutralization
<1>1. ASSUME NEW p, NEW revoked, NEW g, CommitMutation(p, revoked, g)
      PROVE  mutation.stage = "idle" /\ mutation'.stage = "committed"
  <2>1. NoMutation \in [stage : {"idle"}, peer : {<<>>}, handle : {<<>>},
                        previous : {{}}, current : {{}}, revoked : BOOLEAN,
                        arev : Nat, tid : Nat]
    BY DEF NoMutation
  <2> QED BY <1>1, <2>1 DEF CommitMutation
<1>2. ASSUME NeutralizeMutation
      PROVE  /\ mutation.stage = "neutralize" /\ mutation'.stage = "complete"
             /\ mutation'.peer = mutation.peer /\ mutation'.arev = mutation.arev
  BY <1>2, ServedMutation DEF NeutralizeMutation, Mutations
<1> QED BY <1>1, <1>2
        DEF Next, vars, authVars, LegacyStep, Claim, ClaimLegacySidecar,
            ReleaseLegacySidecar, ReleaseLegacy, ExpectMoq, AdmissionStep, Authorize,
            CheckCommitted, ClaimV2, ClaimV2Rejected, MediaStep, ClaimMoq,
            BindV2Generation, ExpectMoqV2, LeaseStep, RetireReplaced, ReleaseV2,
            CommandStep, RequestFocus, FocusCommandRefused, ApproveFocus, DenyFocus,
            ReleaseFocus, PreemptFocus, FocusCommandApplied, FocusStep,
            InvalidateV2Focus, CompleteV2FocusTransition, ExpireV2Focus, SidecarStep,
            ClaimInputV2, ReleaseInputV2, ClaimFeedbackV2, ReleaseFeedbackV2,
            BeginDetach, DisconnectV2Viewer, AuthorizationStep, RevokeViewer,
            ReplaceViewerGrants, RedeemInvitation, ApplyMutationElsewhere,
            NeutralizeMutationFails

LEMMA BarredStep ==
  ASSUME TypeOK, BarredByMutation, [Next]_vars
  PROVE  BarredByMutation'
<1>1. CASE ApplyAuthorizationMutation
  <2>1. mutation \in Mutations /\ mutation.peer \in Peers BY <1>1, MutatedFields DEF Roster
  <2>2. \/ mutation' = NoMutation
        \/ \E t : mutation' = [mutation EXCEPT !.stage = "neutralize", !.tid = t]
    BY <1>1 DEF ApplyAuthorizationMutation
  <2>3. \/ mutation' = NoMutation
        \/ mutation'.peer = mutation.peer /\ mutation'.arev = mutation.arev
    BY <2>1, <2>2 DEF Mutations
  <2>4. viewers'[mutation.peer].neutralizing =>
          viewers'[mutation.peer].arev = mutation.arev
    <3>1. ~NoViewer.neutralizing BY DEF NoViewer
    <3> QED BY <1>1, <3>1, MutatedFields
  <2>5. NoMutation.stage = "idle" BY DEF NoMutation
  <2> QED BY <2>3, <2>4, <2>5 DEF BarredByMutation
<1>2. CASE ~ApplyAuthorizationMutation
  <2>1. BarsKept BY <1>2, StepKeepsBars
  <2>2. ASSUME mutation'.stage \in {"neutralize", "complete"}
        PROVE  /\ mutation.stage \in {"neutralize", "complete"}
               /\ mutation'.peer = mutation.peer /\ mutation'.arev = mutation.arev
    BY <1>2, <2>2, RequestStep DEF NoMutation, CompleteAuthorizationNeutralization
  <2>3. mutation.stage \in {"neutralize", "complete"} => mutation.peer \in Peers
    BY ServedMutation DEF Mutations
  <2> QED BY <2>1, <2>2, <2>3 DEF BarredByMutation, BarsKept
<1> QED BY <1>1, <1>2

LEMMA CompletionUnbars ==
  ASSUME TypeOK, BarredByMutation, [Next]_vars,
         mutation.stage = "complete", mutation'.stage # "complete"
  PROVE  ~viewers'[mutation.peer].neutralizing
<1>1. CompleteAuthorizationNeutralization
  BY RequestStep DEF ApplyAuthorizationMutation
<1>2. mutation.peer \in Peers BY <1>1, ServedMutation DEF Mutations
<1>3. CASE viewers[mutation.peer].arev = mutation.arev
  <2>1. viewers'[mutation.peer] = [viewers[mutation.peer] EXCEPT !.neutralizing = FALSE]
    BY <1>1, <1>2, <1>3 DEF CompleteAuthorizationNeutralization, TypeOK
  <2> QED BY <1>2, <2>1, ViewerShape
<1>4. CASE viewers[mutation.peer].arev # mutation.arev
  <2>1. UNCHANGED viewers BY <1>1, <1>4 DEF CompleteAuthorizationNeutralization
  <2> QED BY <1>4, <2>1 DEF BarredByMutation
<1> QED BY <1>3, <1>4

\* A request that withdrew an input grant and is answered without an error
\* leaves its viewer free to ask for the slot, although the viewer may have
\* reconnected under another session and another authorization meanwhile.
THEOREM WithdrawalEndsTheBar == Spec => NeutralizingTransient
<1>1. Init => BarredByMutation BY DEF Init, NoMutation, BarredByMutation
<1>2. TypeOK /\ BarredByMutation /\ [Next]_vars => BarredByMutation' BY BarredStep
<1>3. TypeOK /\ BarredByMutation /\ [Next]_vars =>
        [mutation.stage = "complete" /\ mutation'.stage # "complete"
           => ~viewers'[mutation.peer].neutralizing]_vars
  BY CompletionUnbars
<1> QED BY <1>1, <1>2, <1>3, TypeCorrect, PTL DEF Spec, NeutralizingTransient
=============================================================================
