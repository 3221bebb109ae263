----------------------- MODULE SessionRegistryProofs -----------------------
(***************************************************************************)
(* Theorems about SessionRegistry, for every set of peers, every number of *)
(* viewers and every value of the bounds.                                  *)
(***************************************************************************)
EXTENDS SessionRegistry, FiniteSetTheorems, TLAPS

----------------------------------------------------------------------------
\* The arbiter's operators keep its type.

LEMMA NoneTypes ==
  /\ NoCandidate \in Candidates
  /\ NoProposal \in [id : Nat, requester : Candidates, holder : Candidates]
  /\ NoActivation \in [who : Candidates, gen : Nat]
  /\ NewArbiter \in Arbiters
<1>1. NoCandidate \in Candidates BY DEF Candidates
<1>2. NoProposal \in [id : Nat, requester : Candidates, holder : Candidates]
  BY <1>1 DEF NoProposal
<1>3. NoActivation \in [who : Candidates, gen : Nat] BY <1>1 DEF NoActivation
<1>4. NewArbiter \in Arbiters BY <1>1, <1>2, <1>3 DEF NewArbiter, Arbiters
<1> QED BY <1>1, <1>2, <1>3, <1>4

LEMMA ArbiterOperators ==
  ASSUME NEW f \in Arbiters, NEW c \in Candidates
  PROVE  /\ TrackCommand(f, c) \in Arbiters
         /\ RetireCandidate(f, c) \in Arbiters
         /\ ClearProposal(f) \in Arbiters
         /\ Grant(f, c) \in Arbiters
         /\ BeginNeutralization(f, c) \in Arbiters
<1> USE NoneTypes
<1>1. TrackCommand(f, c) \in Arbiters BY DEF TrackCommand, Arbiters
<1>2. RetireCandidate(f, c) \in Arbiters BY DEF RetireCandidate, Arbiters
<1>3. ClearProposal(f) \in Arbiters BY DEF ClearProposal, Arbiters
<1>4. Grant(f, c) \in Arbiters
  <2>1. [who |-> c, gen |-> f.nextGen + 1] \in [who : Candidates, gen : Nat]
    BY DEF Arbiters
  <2> QED BY <2>1 DEF Grant, Arbiters
<1>5. BeginNeutralization(f, c) \in Arbiters
  <2>1. f.nextTid + 1 \in Nat BY DEF Arbiters
  <2> QED BY <2>1 DEF BeginNeutralization, Arbiters
<1> QED BY <1>1, <1>2, <1>3, <1>4, <1>5

LEMMA ArbiterCommands ==
  ASSUME NEW f \in Arbiters, NEW c \in Candidates, NEW gen \in Nat, NEW tid \in Nat,
         NEW valid \in BOOLEAN
  PROVE  /\ Request(f, c) \in Arbiters
         /\ Approve(f) \in Arbiters
         /\ Deny(f) \in Arbiters
         /\ Release(f) \in Arbiters
         /\ Preempt(f, c) \in Arbiters
         /\ BeginInvalidation(f, c) \in Arbiters
         /\ MarkActivated(f, c, gen) \in Arbiters
         /\ CompleteTransition(f, tid, valid) \in Arbiters
<1> USE NoneTypes
<1>1. Request(f, c) \in Arbiters
  <2>1. CASE f.phase = "vacant" BY <2>1, ArbiterOperators DEF Request
  <2>2. CASE f.phase # "vacant"
    <3>1. [id |-> f.nextPid + 1, requester |-> c, holder |-> f.who]
            \in [id : Nat, requester : Candidates, holder : Candidates]
      BY DEF Arbiters
    <3> QED BY <2>2, <3>1 DEF Request, Arbiters
  <2> QED BY <2>1, <2>2
<1>2. f.proposal.requester \in Candidates BY DEF Arbiters
<1>3. BeginNeutralization(f, f.proposal.requester) \in Arbiters
  BY <1>2, ArbiterOperators
<1>4. Approve(f) \in Arbiters /\ Release(f) \in Arbiters BY <1>3 DEF Approve, Release
<1>5. Deny(f) \in Arbiters BY ArbiterOperators DEF Deny
<1>6. Preempt(f, c) \in Arbiters BY ArbiterOperators DEF Preempt
<1>7. BeginInvalidation(f, c) \in Arbiters BY ArbiterOperators DEF BeginInvalidation
<1>8. MarkActivated(f, c, gen) \in Arbiters BY DEF MarkActivated, Arbiters
<1>9. CompleteTransition(f, tid, valid) \in Arbiters
  <2> DEFINE g == [ClearProposal(f) EXCEPT !.successor = NoCandidate]
             v == [g EXCEPT !.phase = "vacant", !.who = NoCandidate, !.gen = 0,
                            !.tid = 0, !.activation = NoActivation]
  <2>1. ClearProposal(f) \in Arbiters BY ArbiterOperators
  <2>2. g \in Arbiters BY <2>1 DEF Arbiters
  <2>3. v \in Arbiters BY <2>2 DEF Arbiters
  <2>4. f.successor \in Candidates BY DEF Arbiters
  <2>5. Grant(g, f.successor) \in Arbiters BY <2>2, <2>4, ArbiterOperators
  <2> HIDE DEF g, v
  <2>6. CompleteTransition(f, tid, valid) \in {f, Grant(g, f.successor), v}
    BY DEF CompleteTransition, g, v
  <2> QED BY <2>3, <2>5, <2>6
<1> QED BY <1>1, <1>4, <1>5, <1>6, <1>7, <1>8, <1>9

----------------------------------------------------------------------------
\* What type correctness says of the pieces the actions use.

LEMMA CandidateType ==
  ASSUME TypeOK, NEW p \in Peers
  PROVE  Candidate(viewers[p]) \in Candidates
<1>1. CASE viewers[p] = NoViewer
  BY <1>1, NoneTypes DEF Candidate, NoViewer, NoCandidate
<1>2. CASE viewers[p] \in ViewerSessions
  BY <1>2 DEF Candidate, Candidates, ViewerSessions
<1> QED BY <1>1, <1>2 DEF TypeOK

LEMMA ConnectedType ==
  ASSUME TypeOK, NEW p \in Peers, viewers[p].session # 0
  PROVE  viewers[p] \in ViewerSessions
BY DEF TypeOK, NoViewer

LEMMA PublishTypes ==
  ASSUME TypeOK
  PROVE  /\ AdvanceAndPublish => revision' \in Nat /\ announced'.rev \in Nat
         /\ \A b \in BOOLEAN :
              PublishIf(b) => revision' \in Nat /\ announced'.rev \in Nat
         /\ Publish /\ revision' = revision => announced'.rev \in Nat
BY DEF TypeOK, AdvanceAndPublish, Publish, PublishIf

----------------------------------------------------------------------------
\* The inductive invariant.  The count of control leases is a number only
\* because every lease alive is counted once, and it speaks about the roster
\* because every viewer in it has a lease that is still alive.

LeasesCounted ==
  /\ IsFiniteSet(leases)
  /\ live = Cardinality(leases)
  /\ \A l \in leases : l.session \leq nextSession
  /\ \A l, m \in leases : l.session = m.session => l = m

RosterLeased ==
  \A p \in Roster(viewers) :
    \E l \in leases : l.peer = p /\ l.session = viewers[p].session

RegistryInv == TypeOK /\ LeasesCounted /\ RosterLeased /\ LegacyExclusive

LEMMA InitTypes == Init => TypeOK
<1> SUFFICES ASSUME Init PROVE TypeOK
  OBVIOUS
<1>1. store \in [Peers -> [enrolled : BOOLEAN, nth : Nat,
                          grants : SUBSET InputGrants, arev : Nat]]
  <2>1. {[enrolled |-> TRUE, nth |-> 1, grants |-> InputGrants, arev |-> 1],
         [enrolled |-> FALSE, nth |-> 0, grants |-> {}, arev |-> 0]}
        \subseteq [enrolled : BOOLEAN, nth : Nat,
                   grants : SUBSET InputGrants, arev : Nat]
    OBVIOUS
  <2> QED BY <2>1 DEF Init
<1>2. viewers \in [Peers -> ViewerSessions \cup {NoViewer}] BY DEF Init
<1>3. admitting \in [Peers -> Authorizations \cup {NoAuthorization}] BY DEF Init
<1>4. focus \in Arbiters BY NoneTypes DEF Init
<1>5. announced.rev \in Nat BY DEF Init
<1> QED BY <1>1, <1>2, <1>3, <1>4, <1>5 DEF Init, TypeOK

LEMMA LegacyTypes ==
  ASSUME TypeOK, LegacyStep
  PROVE  TypeOK'
<1> USE DEF TypeOK, v2Vars, authVars, leaseVars
<1>1. ASSUME NEW p \in LegacyPeers, Claim(p) PROVE TypeOK'
  <2>1. p \in Peers /\ nextSession + 1 \in Nat \ {0} BY RegistryAssumption
  <2>2. active' = [remote |-> p, session |-> nextSession + 1, media |-> TRUE,
                   input |-> FALSE, audio |-> FALSE, feedback |-> FALSE]
    BY <1>1 DEF Claim, NoLegacy
  <2>3. active' \in LegacySessions BY <2>1, <2>2 DEF LegacySessions
  <2> QED BY <1>1, <2>3 DEF Claim, FreshSession
<1>2. ASSUME HasLegacy PROVE active \in LegacySessions
  BY <1>2 DEF HasLegacy, NoLegacy
<1>3. ASSUME NEW kind \in LegacySidecars, ClaimLegacySidecar(kind) PROVE TypeOK'
  <2>1. active' \in LegacySessions
    BY <1>2, <1>3 DEF ClaimLegacySidecar, LegacySessions, LegacySidecars
  <2> QED BY <1>3, <2>1 DEF ClaimLegacySidecar
<1>4. ASSUME NEW kind \in LegacySidecars, ReleaseLegacySidecar(kind) PROVE TypeOK'
  <2>1. [active EXCEPT ![kind] = FALSE] \in LegacySessions
    BY <1>2, <1>4 DEF ReleaseLegacySidecar, LegacySessions, LegacySidecars
  <2> QED BY <1>4, <2>1 DEF ReleaseLegacySidecar, LegacyAfter
<1>5. ASSUME ReleaseLegacy PROVE TypeOK'
  <2>1. [active EXCEPT !.media = FALSE] \in LegacySessions
    BY <1>2, <1>5 DEF ReleaseLegacy, LegacySessions
  <2> QED BY <1>5, <2>1 DEF ReleaseLegacy, LegacyAfter
<1>6. ASSUME ExpectMoq PROVE TypeOK'
  <2>1. active.remote \in Peers /\ active.session \in Nat
    BY <1>2, <1>6 DEF ExpectMoq, LegacySessions
  <2> QED BY <1>6, <2>1 DEF ExpectMoq
<1> QED BY <1>1, <1>3, <1>4, <1>5, <1>6 DEF LegacyStep

\* An authorization a task carries, once it carries one.
LEMMA CarriedAuthorization ==
  ASSUME TypeOK, NEW p \in Peers, admitting[p].stage # "none"
  PROVE  admitting[p] \in Authorizations
BY DEF TypeOK, NoAuthorization

LEMMA AuthorizeTypes ==
  ASSUME TypeOK, NEW p \in Peers, Authorize(p) \/ CheckCommitted(p) \/ ClaimV2Rejected(p)
  PROVE  TypeOK'
<1> USE DEF TypeOK, v2Vars, authVars, leaseVars
<1>1. ASSUME Authorize(p) PROVE TypeOK'
  <2> DEFINE a == [stage |-> "authorized", handle |-> <<p, store[p].nth>>,
                   grants |-> store[p].grants, arev |-> store[p].arev, crev |-> storeRev]
  <2>1. a \in Authorizations BY DEF Authorizations, Handles
  <2>2. admitting' = [admitting EXCEPT ![p] = a] BY <1>1 DEF Authorize
  <2> HIDE DEF a
  <2>3. admitting' \in [Peers -> Authorizations \cup {NoAuthorization}] BY <2>1, <2>2
  <2> QED BY <1>1, <2>3 DEF Authorize
<1>2. ASSUME CheckCommitted(p) PROVE TypeOK'
  <2>1. admitting[p] \in Authorizations BY <1>2, CarriedAuthorization DEF CheckCommitted
  <2>2. [admitting[p] EXCEPT !.stage = "checked"] \in Authorizations
    BY <2>1 DEF Authorizations
  <2>3. admitting' \in [Peers -> Authorizations \cup {NoAuthorization}]
    BY <1>2, <2>2 DEF CheckCommitted
  <2>4. committed' \in Nat BY <1>2, <2>1 DEF CheckCommitted, Authorizations
  <2> QED BY <1>2, <2>3, <2>4 DEF CheckCommitted
<1>3. ASSUME ClaimV2Rejected(p) PROVE TypeOK'
  BY <1>3 DEF ClaimV2Rejected
<1> QED BY <1>1, <1>2, <1>3

LEMMA ClaimTypes ==
  ASSUME TypeOK, NEW p \in Peers, ClaimV2(p)
  PROVE  TypeOK'
<1> DEFINE c == Candidate(viewers[p])
           sid == nextSession + 1
           lease == [peer |-> p, session |-> sid, arev |-> admitting[p].arev,
                     replaced |-> viewers[p].session,
                     transition |-> ReplacementTransition(p), orphan |-> PublishFails]
<1>1. admitting[p] \in Authorizations BY CarriedAuthorization DEF ClaimV2
<1>2. sid \in Nat \ {0} BY DEF TypeOK
<1>3. NoViewer \in [session : Nat, presence : Handles \cup {<<>>},
                    grants : SUBSET InputGrants, arev : Nat, crev : Nat,
                    neutralizing : BOOLEAN, input : BOOLEAN, feedback : BOOLEAN,
                    gen : Nat]
  BY DEF NoViewer
<1>4. NewViewer(p, sid) \in ViewerSessions
  BY <1>1, <1>2, <1>3 DEF NewViewer, Authorizations, ViewerSessions, TypeOK
<1>5. viewers' \in [Peers -> ViewerSessions \cup {NoViewer}]
  BY <1>4 DEF ClaimV2, TypeOK
<1>6. focus' \in Arbiters
  BY CandidateType, ArbiterOperators, ArbiterCommands
  DEF ClaimV2, AdmittedFocus, TypeOK
<1>7. viewers[p].session \in Nat BY DEF TypeOK, ViewerSessions, NoViewer
<1>8. ReplacementTransition(p) \in Nat BY DEF ReplacementTransition, TypeOK, Arbiters
<1>9. PublishFails \in BOOLEAN BY DEF PublishFails
<1>10. lease \in [peer : Peers, session : Nat \ {0}, arev : Nat, replaced : Nat,
                  transition : Nat, orphan : BOOLEAN]
  BY <1>1, <1>2, <1>7, <1>8, <1>9 DEF Authorizations
<1>11. leases' = leases \cup {lease} BY DEF ClaimV2
<1> HIDE DEF lease
<1>12. leases' \subseteq [peer : Peers, session : Nat \ {0}, arev : Nat, replaced : Nat,
                          transition : Nat, orphan : BOOLEAN]
  BY <1>10, <1>11 DEF TypeOK
<1>13. revision' \in Nat /\ announced'.rev \in Nat BY PublishTypes DEF ClaimV2
<1>14. admitting' \in [Peers -> Authorizations \cup {NoAuthorization}]
  BY DEF ClaimV2, TypeOK
<1> QED BY <1>5, <1>6, <1>12, <1>13, <1>14 DEF ClaimV2, FreshSession, TypeOK

LEMMA MediaTypes ==
  ASSUME TypeOK, MediaStep
  PROVE  TypeOK'
<1>1. ASSUME NEW p \in Peers, ClaimMoq(p) PROVE TypeOK'
  BY <1>1 DEF ClaimMoq, TypeOK, v2Vars, authVars, leaseVars
<1>2. ASSUME NEW l \in leases, NEW g \in Generations, BindV2Generation(l, g)
      PROVE  TypeOK'
  <2>1. l.peer \in Peers /\ g \in Nat BY RegistryAssumption DEF TypeOK
  <2>2. ASSUME IsViewer(l.peer, l.session)
        PROVE  [viewers[l.peer] EXCEPT !.gen = g] \in ViewerSessions
    <3>1. viewers[l.peer] \in ViewerSessions
      BY <2>1, <2>2, ConnectedType DEF IsViewer
    <3> QED BY <2>1, <3>1 DEF ViewerSessions
  <2>3. viewers' \in [Peers -> ViewerSessions \cup {NoViewer}]
    BY <1>2, <2>1, <2>2 DEF BindV2Generation, TypeOK
  <2>4. announced'.rev \in Nat BY <1>2, PublishTypes DEF BindV2Generation, TypeOK
  <2> QED BY <1>2, <2>1, <2>3, <2>4 DEF BindV2Generation, TypeOK, authVars, leaseVars
<1>3. ASSUME NEW l \in leases, ExpectMoqV2(l) PROVE TypeOK'
  <2>1. l.peer \in Peers /\ l.session \in Nat BY DEF TypeOK
  <2>2. viewers[l.peer] \in ViewerSessions
    BY <1>3, <2>1, ConnectedType DEF ExpectMoqV2, IsViewer
  <2>3. viewers[l.peer].gen \in Nat /\ viewers[l.peer].arev \in Nat
    BY <2>2 DEF ViewerSessions
  <2> QED BY <1>3, <2>1, <2>3 DEF ExpectMoqV2, TypeOK, v2Vars, authVars, leaseVars
<1> QED BY <1>1, <1>2, <1>3 DEF MediaStep

\* A lease that is alive is counted, so counting it out leaves a number.
LEMMA LeaseCount ==
  ASSUME LeasesCounted, NEW l \in leases
  PROVE  /\ live \in Nat \ {0}
         /\ IsFiniteSet(leases \ {l})
         /\ Cardinality(leases \ {l}) = live - 1
<1>1. IsFiniteSet(leases) /\ live = Cardinality(leases) BY DEF LeasesCounted
<1>2. Cardinality(leases \ {l}) = Cardinality(leases) - 1 /\ IsFiniteSet(leases \ {l})
  BY <1>1, FS_RemoveElement
<1>3. Cardinality(leases) \in Nat /\ Cardinality(leases \ {l}) \in Nat
  BY <1>1, <1>2, FS_CardinalityType
<1> QED BY <1>1, <1>2, <1>3

LEMMA LeaseTypes ==
  ASSUME TypeOK, LeasesCounted, LeaseStep
  PROVE  TypeOK'
<1>1. ASSUME NEW l \in leases, RetireReplaced(l) PROVE TypeOK'
  <2> DEFINE m == [l EXCEPT !.replaced = 0]
  <2>1. m \in [peer : Peers, session : Nat \ {0}, arev : Nat, replaced : Nat,
               transition : Nat, orphan : BOOLEAN]
    BY DEF TypeOK
  <2>2. leases' = (leases \ {l}) \cup {m} BY <1>1 DEF RetireReplaced
  <2> HIDE DEF m
  <2> QED BY <1>1, <2>1, <2>2 DEF RetireReplaced, TypeOK, v2Vars, authVars
<1>2. ASSUME NEW l \in leases, ReleaseV2(l) PROVE TypeOK'
  <2>1. live' \in Nat BY <1>2, LeaseCount DEF ReleaseV2
  <2>2. CASE IsViewer(l.peer, l.session)
    <3>1. l.peer \in Peers BY DEF TypeOK
    <3>2. viewers' \in [Peers -> ViewerSessions \cup {NoViewer}]
      BY <1>2, <2>2, <3>1 DEF ReleaseV2, TypeOK
    <3>3. focus' \in Arbiters
      <4> DEFINE c == Candidate(viewers[l.peer])
      <4>1. c \in Candidates BY <3>1, CandidateType
      <4>2. BeginInvalidation(focus, c) \in Arbiters
        BY <4>1, ArbiterCommands DEF TypeOK
      <4>3. RetireCandidate(BeginInvalidation(focus, c), c) \in Arbiters
        BY <4>1, <4>2, ArbiterOperators
      <4> QED BY <1>2, <2>2, <4>3 DEF ReleaseV2
    <3>4. media' \in Nat BY <1>2, <2>2 DEF ReleaseV2, MediaAfter, TypeOK
    <3>5. revision' \in Nat /\ announced'.rev \in Nat
      BY <1>2, <2>2, PublishTypes DEF ReleaseV2
    <3> QED BY <1>2, <2>1, <2>2, <3>2, <3>3, <3>4, <3>5 DEF ReleaseV2, TypeOK, authVars
  <2>3. CASE ~IsViewer(l.peer, l.session)
    BY <1>2, <2>1, <2>3 DEF ReleaseV2, TypeOK, authVars
  <2> QED BY <2>2, <2>3
<1> QED BY <1>1, <1>2 DEF LeaseStep

\* Steps that touch only the arbiter and what is published.
LEMMA ArbiterStepTypes ==
  ASSUME TypeOK, focus' \in Arbiters, UNCHANGED viewers,
         AdvanceAndPublish \/ \E b \in BOOLEAN : PublishIf(b),
         UNCHANGED <<active, media, live, pendingMoq, nextSession, committed,
                     authVars, leaseVars>>
  PROVE  TypeOK'
<1>1. revision' \in Nat /\ announced'.rev \in Nat BY PublishTypes
<1> QED BY <1>1 DEF TypeOK, authVars, leaseVars

LEMMA CommandTypes ==
  ASSUME TypeOK, CommandStep
  PROVE  TypeOK'
<1>1. PICK l \in leases :
        \/ \E due \in BOOLEAN : RequestFocus(l, due) \/ FocusCommandRefused(l, due)
        \/ ApproveFocus(l) \/ DenyFocus(l) \/ ReleaseFocus(l) \/ PreemptFocus(l)
  BY DEF CommandStep
<1> DEFINE c == Candidate(viewers[l.peer])
<1>2. c \in Candidates
  <2>1. l.peer \in Peers BY DEF TypeOK
  <2> QED BY <2>1, CandidateType
<1>3. focus \in Arbiters BY DEF TypeOK
<1> HIDE DEF c
<1>4. ASSUME NEW f \in Arbiters, FocusCommandApplied(l, f) PROVE TypeOK'
  <2>1. TrackCommand(f, c) \in Arbiters BY <1>2, ArbiterOperators
  <2> QED BY <1>4, <2>1, ArbiterStepTypes DEF FocusCommandApplied, c
<1>5. ASSUME NEW due \in BOOLEAN, RequestFocus(l, due) PROVE TypeOK'
  BY <1>2, <1>3, <1>4, <1>5, ArbiterOperators, ArbiterCommands DEF RequestFocus, c
<1>6. ASSUME NEW due \in BOOLEAN, FocusCommandRefused(l, due) PROVE TypeOK'
  <2>1. focus' \in Arbiters
    BY <1>2, <1>3, <1>6, ArbiterOperators DEF FocusCommandRefused, c
  <2> QED BY <1>6, <2>1 DEF FocusCommandRefused, TypeOK, authVars, leaseVars
<1>7. Approve(focus) \in Arbiters /\ Deny(focus) \in Arbiters
        /\ Release(focus) \in Arbiters /\ Preempt(focus, c) \in Arbiters
  BY <1>2, <1>3, ArbiterCommands
<1>8. ASSUME ApproveFocus(l) PROVE TypeOK' BY <1>4, <1>7, <1>8 DEF ApproveFocus
<1>9. ASSUME DenyFocus(l) PROVE TypeOK' BY <1>4, <1>7, <1>9 DEF DenyFocus
<1>10. ASSUME ReleaseFocus(l) PROVE TypeOK' BY <1>4, <1>7, <1>10 DEF ReleaseFocus
<1>11. ASSUME PreemptFocus(l) PROVE TypeOK' BY <1>4, <1>7, <1>11 DEF PreemptFocus, c
<1> QED BY <1>1, <1>5, <1>6, <1>8, <1>9, <1>10, <1>11

LEMMA FocusTypes ==
  ASSUME TypeOK, FocusStep
  PROVE  TypeOK'
<1>1. focus \in Arbiters BY DEF TypeOK
<1>2. ASSUME NEW l \in leases, InvalidateV2Focus(l.peer, l.session) PROVE TypeOK'
  <2>1. l.peer \in Peers BY DEF TypeOK
  <2>2. focus' \in Arbiters
    BY <1>1, <1>2, <2>1, CandidateType, ArbiterCommands DEF InvalidateV2Focus
  <2> QED BY <1>2, <2>2, ArbiterStepTypes DEF InvalidateV2Focus
<1>3. ASSUME CompleteV2FocusTransition(focus.tid) PROVE TypeOK'
  <2>1. SuccessorValid(focus.tid) \in BOOLEAN /\ focus.tid \in Nat
    BY <1>1 DEF SuccessorValid, Arbiters
  <2>2. focus' \in Arbiters
    BY <1>1, <1>3, <2>1, NoneTypes, ArbiterCommands
    DEF CompleteV2FocusTransition, CompleteFocus
  <2>3. CompletesTransition(focus, focus.tid) \in BOOLEAN
    BY DEF CompletesTransition, IsNeutralizing
  <2> QED BY <1>3, <2>2, <2>3, ArbiterStepTypes
          DEF CompleteV2FocusTransition, CompleteFocus
<1>4. ASSUME ExpireV2Focus PROVE TypeOK'
  <2>1. focus' \in Arbiters
    BY <1>1, <1>4, NoneTypes, ArbiterOperators DEF ExpireV2Focus
  <2> QED BY <1>4, <2>1, ArbiterStepTypes DEF ExpireV2Focus
<1> QED BY <1>2, <1>3, <1>4 DEF FocusStep

LEMMA SidecarTypes ==
  ASSUME TypeOK, SidecarStep
  PROVE  TypeOK'
<1>1. focus \in Arbiters BY DEF TypeOK
<1>2. ASSUME NEW p \in InputPeers, ClaimInputV2(p) PROVE TypeOK'
  <2> DEFINE v == viewers[p]
             i == [peer |-> p, session |-> v.session, gen |-> focus.gen]
  <2>1. p \in Peers BY RegistryAssumption
  <2>2. v \in ViewerSessions
    BY <1>2, <2>1, ConnectedType DEF ClaimInputV2, IsFocusOwner, IsViewer
  <2>3. focus.gen \in Nat BY <1>1 DEF Arbiters
  <2>4. focus' \in Arbiters
    BY <1>1, <1>2, <2>1, <2>3, CandidateType, ArbiterCommands DEF ClaimInputV2
  <2>5. i \in [peer : Peers, session : Nat \ {0}, gen : Nat]
    BY <2>1, <2>2, <2>3 DEF ViewerSessions
  <2>6. [v EXCEPT !.input = TRUE] \in ViewerSessions BY <2>2 DEF ViewerSessions
  <2>7. viewers' \in [Peers -> ViewerSessions \cup {NoViewer}]
    BY <1>2, <2>1, <2>6 DEF ClaimInputV2, TypeOK
  <2>8. inputs' \subseteq inputs \cup {i} BY <1>2 DEF ClaimInputV2
  <2> HIDE DEF i
  <2>9. inputs' \subseteq [peer : Peers, session : Nat \ {0}, gen : Nat]
    BY <2>5, <2>8 DEF TypeOK
  <2> QED BY <1>2, <2>4, <2>7, <2>9 DEF ClaimInputV2, TypeOK, authVars
<1>3. ASSUME NEW p \in FeedbackPeers, ClaimFeedbackV2(p) PROVE TypeOK'
  <2> DEFINE v == viewers[p]
             b == [peer |-> p, session |-> v.session, detaching |-> FALSE, tid |-> 0]
  <2>1. p \in Peers BY RegistryAssumption
  <2>2. v \in ViewerSessions
    BY <1>3, <2>1, ConnectedType DEF ClaimFeedbackV2, Roster
  <2>3. b \in [peer : Peers, session : Nat \ {0}, detaching : BOOLEAN, tid : Nat]
    BY <2>1, <2>2 DEF ViewerSessions
  <2>4. [v EXCEPT !.feedback = TRUE] \in ViewerSessions BY <2>2 DEF ViewerSessions
  <2>5. viewers' \in [Peers -> ViewerSessions \cup {NoViewer}]
    BY <1>3, <2>1, <2>4 DEF ClaimFeedbackV2, TypeOK
  <2>6. feedbacks' = feedbacks \cup {b} BY <1>3 DEF ClaimFeedbackV2
  <2> HIDE DEF b
  <2> QED BY <1>3, <2>3, <2>5, <2>6 DEF ClaimFeedbackV2, TypeOK, authVars
<1>4. ASSUME NEW i \in inputs, ReleaseInputV2(i) PROVE TypeOK'
  <2>1. i.peer \in Peers BY DEF TypeOK
  <2>2. viewers' \in [Peers -> ViewerSessions \cup {NoViewer}]
    <3>1. CASE IsViewer(i.peer, i.session)
      <4>1. viewers[i.peer] \in ViewerSessions
        BY <2>1, <3>1, ConnectedType DEF IsViewer
      <4>2. [viewers[i.peer] EXCEPT !.input = FALSE] \in ViewerSessions
        BY <4>1 DEF ViewerSessions
      <4> QED BY <1>4, <2>1, <3>1, <4>2 DEF ReleaseInputV2, TypeOK
    <3> QED BY <1>4, <3>1 DEF ReleaseInputV2, TypeOK
  <2>3. focus.tid \in Nat BY <1>1 DEF Arbiters
  <2>4. CompleteTransition(focus, focus.tid, FALSE) \in Arbiters
    BY <1>1, <2>3, NoneTypes, ArbiterCommands
  <2>5. focus' \in Arbiters BY <1>1, <1>4, <2>4 DEF ReleaseInputV2
  <2>6. (IsNeutralizing(focus) /\ focus.who.session = i.session) \in BOOLEAN
    OBVIOUS
  <2>7. revision' \in Nat /\ announced'.rev \in Nat
    BY <1>4, <2>6, PublishTypes DEF ReleaseInputV2
  <2> QED BY <1>4, <2>2, <2>5, <2>7 DEF ReleaseInputV2, TypeOK, authVars
<1>5. ASSUME NEW b \in feedbacks, ReleaseFeedbackV2(b) PROVE TypeOK'
  <2>1. b.peer \in Peers BY DEF TypeOK
  <2>2. viewers' \in [Peers -> ViewerSessions \cup {NoViewer}]
    <3>1. CASE IsViewer(b.peer, b.session)
      <4>1. viewers[b.peer] \in ViewerSessions
        BY <2>1, <3>1, ConnectedType DEF IsViewer
      <4>2. [viewers[b.peer] EXCEPT !.feedback = FALSE] \in ViewerSessions
        BY <4>1 DEF ViewerSessions
      <4> QED BY <1>5, <2>1, <3>1, <4>2 DEF ReleaseFeedbackV2, TypeOK
    <3> QED BY <1>5, <3>1 DEF ReleaseFeedbackV2, TypeOK
  <2> QED BY <1>5, <2>2 DEF ReleaseFeedbackV2, TypeOK, authVars
<1>6. ASSUME NEW b \in feedbacks, BeginDetach(b) PROVE TypeOK'
  <2> DEFINE c == Candidate(viewers[b.peer])
             connected == IsViewer(b.peer, b.session)
             d == [b EXCEPT !.detaching = TRUE,
                     !.tid = IF connected /\ HeldBy(focus, c) THEN focus'.tid ELSE 0]
  <2>1. b.peer \in Peers BY DEF TypeOK
  <2>2. BeginInvalidation(focus, c) \in Arbiters
    BY <1>1, <2>1, CandidateType, ArbiterCommands
  <2>3. focus' \in Arbiters BY <1>1, <1>6, <2>2 DEF BeginDetach
  <2>4. focus'.tid \in Nat BY <2>3 DEF Arbiters
  <2>5. d \in [peer : Peers, session : Nat \ {0}, detaching : BOOLEAN, tid : Nat]
    BY <2>4 DEF TypeOK
  <2>6. (connected /\ InvalidationChanges(focus, c)) \in BOOLEAN
    OBVIOUS
  <2>7. revision' \in Nat /\ announced'.rev \in Nat
    BY <1>6, <2>6, PublishTypes DEF BeginDetach
  <2>8. feedbacks' = (feedbacks \ {b}) \cup {d} BY <1>6 DEF BeginDetach
  <2> HIDE DEF d
  <2>9. feedbacks' \subseteq [peer : Peers, session : Nat \ {0},
                             detaching : BOOLEAN, tid : Nat]
    BY <2>5, <2>8 DEF TypeOK
  <2> QED BY <1>6, <2>3, <2>7, <2>9 DEF BeginDetach, TypeOK, authVars
<1>7. ASSUME NEW b \in feedbacks, DisconnectV2Viewer(b) PROVE TypeOK'
  <2>1. b.peer \in Peers BY DEF TypeOK
  <2>2. focus' \in Arbiters
    BY <1>1, <1>7, <2>1, CandidateType, ArbiterOperators DEF DisconnectV2Viewer
  <2>3. viewers' \in [Peers -> ViewerSessions \cup {NoViewer}]
    BY <1>7, <2>1 DEF DisconnectV2Viewer, TypeOK
  <2>4. media' \in Nat BY <1>7 DEF DisconnectV2Viewer, MediaAfter, TypeOK
  <2>5. revision' \in Nat /\ announced'.rev \in Nat
    BY <1>7, PublishTypes DEF DisconnectV2Viewer
  <2> QED BY <1>7, <2>2, <2>3, <2>4, <2>5 DEF DisconnectV2Viewer, TypeOK, authVars, leaseVars
<1> QED BY <1>2, <1>3, <1>4, <1>5, <1>6, <1>7 DEF SidecarStep

\* The mutation being served, once there is one.
LEMMA ServedMutation ==
  ASSUME TypeOK, mutation.stage # "idle"
  PROVE  mutation \in Mutations
BY DEF TypeOK, NoMutation

\* Committing a change of the store records what the registry has to apply.
LEMMA CommitTypes ==
  ASSUME TypeOK, NEW p \in Peers, NEW e, NEW revoked \in BOOLEAN,
         NEW grants \in SUBSET InputGrants,
         e \in [enrolled : BOOLEAN, nth : Nat, grants : SUBSET InputGrants, arev : Nat],
         StoreStep(p, e), CommitMutation(p, revoked, grants)
  PROVE  TypeOK'
<1>1. NoMutation \in [stage : {"idle"}, peer : {<<>>}, handle : {<<>>},
                      previous : SUBSET InputGrants, current : SUBSET InputGrants,
                      revoked : BOOLEAN, arev : Nat, tid : Nat]
  BY DEF NoMutation
<1>2. /\ store[p].nth \in Nat /\ store[p].grants \subseteq InputGrants
      /\ storeRev + 1 \in Nat
  BY DEF TypeOK
<1>3. <<p, store[p].nth>> \in Handles BY <1>2 DEF Handles
<1>4. mutation' \in Mutations
  BY <1>1, <1>2, <1>3 DEF CommitMutation, Mutations
<1> QED BY <1>2, <1>4 DEF CommitMutation, StoreStep, TypeOK, v2Vars, leaseVars

LEMMA StoreTypes ==
  ASSUME TypeOK, NEW p \in Peers, NEW g \in SUBSET InputGrants,
         RevokeViewer(p) \/ ReplaceViewerGrants(p, g) \/ RedeemInvitation(p, g)
  PROVE  TypeOK'
<1> DEFINE Enrollments ==
      [enrolled : BOOLEAN, nth : Nat, grants : SUBSET InputGrants, arev : Nat]
<1>1. store[p] \in Enrollments /\ storeRev \in Nat BY DEF TypeOK
<1>2. CASE RevokeViewer(p)
  <2>1. [store[p] EXCEPT !.enrolled = FALSE, !.grants = {}] \in Enrollments BY <1>1
  <2> QED BY <1>2, <2>1, CommitTypes DEF RevokeViewer
<1>3. CASE ReplaceViewerGrants(p, g)
  <2>1. g \subseteq InputGrants /\ storeRev + 1 \in Nat BY <1>1
  <2>2. \A e \in Enrollments, n \in Nat :
          [e EXCEPT !.grants = g, !.arev = n] \in Enrollments
    OBVIOUS
  <2>3. [store[p] EXCEPT !.grants = g, !.arev = storeRev + 1] \in Enrollments
    BY <1>1, <2>1, <2>2
  <2> QED BY <1>3, <2>3, CommitTypes DEF ReplaceViewerGrants
<1>4. CASE RedeemInvitation(p, g)
  <2> DEFINE e == [enrolled |-> TRUE, nth |-> store[p].nth + 1,
                   grants |-> g, arev |-> storeRev + 1]
             a == [stage |-> "authorized", handle |-> <<p, store[p].nth + 1>>,
                   grants |-> g, arev |-> storeRev + 1, crev |-> storeRev + 1]
  <2>1. e \in Enrollments BY <1>1
  <2>2. a \in Authorizations BY <1>1 DEF Authorizations, Handles
  <2>3. store' = [store EXCEPT ![p] = e] /\ storeRev' \in Nat
    BY <1>1, <1>4 DEF RedeemInvitation, StoreStep
  <2>4. admitting' = [admitting EXCEPT ![p] = a] BY <1>4 DEF RedeemInvitation
  <2> HIDE DEF e, a
  <2>5. store' \in [Peers -> Enrollments] BY <2>1, <2>3 DEF TypeOK
  <2>6. admitting' \in [Peers -> Authorizations \cup {NoAuthorization}]
    BY <2>2, <2>4 DEF TypeOK
  <2> QED BY <1>4, <2>3, <2>5, <2>6 DEF RedeemInvitation, TypeOK, v2Vars, leaseVars
<1> QED BY <1>2, <1>3, <1>4

LEMMA ApplyTypes ==
  ASSUME TypeOK, ApplyAuthorizationMutation
  PROVE  TypeOK'
<1> DEFINE m == mutation
           v == viewers[m.peer]
           c == Candidate(v)
           withdrawn == m.revoked \/ InputReduced(m)
           transition == withdrawn /\ HeldBy(focus, c)
           f == IF withdrawn THEN BeginInvalidation(focus, c) ELSE focus
<1>1. m \in Mutations BY ServedMutation DEF ApplyAuthorizationMutation
<1>2. m.peer \in Peers /\ m.arev \in Nat /\ m.current \subseteq InputGrants
        /\ m.revoked \in BOOLEAN
  BY <1>1 DEF Mutations
<1>3. v \in ViewerSessions
  BY <1>2, ConnectedType DEF ApplyAuthorizationMutation, MutationReachesViewer
<1>4. v.input \in BOOLEAN /\ v.neutralizing \in BOOLEAN BY <1>3 DEF ViewerSessions
<1>5. (v.input \/ transition) \in BOOLEAN OBVIOUS
<1>6. ASSUME NEW t \in BOOLEAN PROVE MutatedViewer(v, m, t) \in ViewerSessions \cup {NoViewer}
  <2>1. (IF InputReduced(m) THEN v.input \/ t ELSE v.neutralizing) \in BOOLEAN
    BY <1>4
  <2>2. ASSUME NEW b \in BOOLEAN
        PROVE  [v EXCEPT !.arev = m.arev, !.crev = m.arev, !.grants = m.current,
                         !.neutralizing = b] \in ViewerSessions
    BY <1>2, <1>3 DEF ViewerSessions
  <2> QED BY <2>1, <2>2 DEF MutatedViewer
<1>7. c \in Candidates BY <1>2, CandidateType
<1>8. f \in Arbiters BY <1>7, ArbiterCommands DEF TypeOK
<1>9. f.tid \in Nat BY <1>8 DEF Arbiters
<1>10. viewers' = [viewers EXCEPT ![m.peer] = MutatedViewer(v, m, transition)]
  BY DEF ApplyAuthorizationMutation
<1>11. focus' = IF m.revoked THEN RetireCandidate(f, c) ELSE f
  BY DEF ApplyAuthorizationMutation
<1>12. mutation' \in {NoMutation, [m EXCEPT !.stage = "neutralize",
                                  !.tid = IF transition THEN f.tid ELSE 0]}
  BY DEF ApplyAuthorizationMutation
<1>13. transition \in BOOLEAN OBVIOUS
<1> HIDE DEF m, v, c, f, transition
<1>14. viewers' \in [Peers -> ViewerSessions \cup {NoViewer}]
  BY <1>2, <1>6, <1>10, <1>13 DEF TypeOK
<1>15. focus' \in Arbiters BY <1>7, <1>8, <1>11, ArbiterOperators
<1>16. mutation' \in Mutations \cup {NoMutation}
  <2>1. \A t \in Nat : [m EXCEPT !.stage = "neutralize", !.tid = t] \in Mutations
    BY <1>1 DEF Mutations
  <2>2. (IF transition THEN f.tid ELSE 0) \in Nat BY <1>9
  <2> QED BY <1>12, <2>1, <2>2
<1>17. committed' \in Nat
  BY <1>2 DEF ApplyAuthorizationMutation, TypeOK, m
<1>18. pendingMoq' \subseteq pendingMoq BY DEF ApplyAuthorizationMutation
<1>19. revision' \in Nat /\ announced'.rev \in Nat
  BY PublishTypes DEF ApplyAuthorizationMutation
<1>20. UNCHANGED <<active, media, live, nextSession, store, storeRev, admitting, leaseVars>>
  BY DEF ApplyAuthorizationMutation
<1> QED BY <1>14, <1>15, <1>16, <1>17, <1>18, <1>19, <1>20 DEF TypeOK, leaseVars

LEMMA AuthorizationTypes ==
  ASSUME TypeOK, AuthorizationStep
  PROVE  TypeOK'
<1>1. ASSUME ApplyMutationElsewhere PROVE TypeOK'
  <2>1. mutation.arev \in Nat
    BY <1>1, ServedMutation DEF ApplyMutationElsewhere, Mutations
  <2> QED BY <1>1, <2>1 DEF ApplyMutationElsewhere, TypeOK, v2Vars, leaseVars
<1>2. ASSUME NeutralizeMutation PROVE TypeOK'
  <2>1. mutation \in Mutations BY <1>2, ServedMutation DEF NeutralizeMutation
  <2>2. mutation' \in Mutations BY <1>2, <2>1 DEF NeutralizeMutation, Mutations
  <2>3. focus \in Arbiters BY DEF TypeOK
  <2>4. SuccessorValid(mutation.tid) \in BOOLEAN /\ mutation.tid \in Nat
    BY <2>1 DEF SuccessorValid, Mutations
  <2>5. focus' \in Arbiters
    BY <1>2, <2>3, <2>4, NoneTypes, ArbiterCommands DEF NeutralizeMutation, CompleteFocus
  <2>6. CompletesTransition(focus, mutation.tid) \in BOOLEAN
    BY DEF CompletesTransition, IsNeutralizing
  <2>7. revision' \in Nat /\ announced'.rev \in Nat
    BY <1>2, <2>6, PublishTypes DEF NeutralizeMutation, CompleteFocus
  <2> QED BY <1>2, <2>2, <2>5, <2>7
          DEF NeutralizeMutation, CompleteFocus, TypeOK, leaseVars
<1>3. ASSUME NeutralizeMutationFails PROVE TypeOK'
  BY <1>3 DEF NeutralizeMutationFails, TypeOK, v2Vars, leaseVars
<1>4. ASSUME CompleteAuthorizationNeutralization PROVE TypeOK'
  <2> DEFINE p == mutation.peer
             v == viewers[p]
  <2>1. p \in Peers
    BY <1>4, ServedMutation DEF CompleteAuthorizationNeutralization, Mutations
  <2>2. [v EXCEPT !.neutralizing = FALSE] \in ViewerSessions \cup {NoViewer}
    <3>1. CASE v \in ViewerSessions BY <3>1 DEF ViewerSessions
    <3>2. CASE v = NoViewer
      <4> DEFINE Shape == [session : {0}, presence : {<<>>}, grants : {{}}, arev : {0},
                           crev : {0}, neutralizing : {FALSE}, input : {FALSE},
                           feedback : {FALSE}, gen : {0}]
      <4>1. NoViewer \in Shape BY DEF NoViewer
      <4>2. \A r \in Shape : [r EXCEPT !.neutralizing = FALSE] = r OBVIOUS
      <4> QED BY <3>2, <4>1, <4>2
    <3> QED BY <2>1, <3>1, <3>2 DEF TypeOK
  <2>3. viewers' \in {viewers, [viewers EXCEPT ![p] = [v EXCEPT !.neutralizing = FALSE]]}
    BY <1>4 DEF CompleteAuthorizationNeutralization
  <2> HIDE DEF p
  <2>4. viewers' \in [Peers -> ViewerSessions \cup {NoViewer}]
    BY <2>1, <2>2, <2>3 DEF TypeOK
  <2> QED BY <1>4, <2>4 DEF CompleteAuthorizationNeutralization, TypeOK, leaseVars
<1> QED BY <1>1, <1>2, <1>3, <1>4, StoreTypes, ApplyTypes DEF AuthorizationStep

LEMMA StepTypes ==
  ASSUME TypeOK, LeasesCounted, [Next]_vars
  PROVE  TypeOK'
<1>1. CASE UNCHANGED vars BY <1>1 DEF vars, v2Vars, authVars, leaseVars, TypeOK
<1>2. CASE AdmissionStep BY <1>2, AuthorizeTypes, ClaimTypes DEF AdmissionStep
<1> QED BY <1>1, <1>2, LegacyTypes, MediaTypes, LeaseTypes, CommandTypes, FocusTypes,
           SidecarTypes, AuthorizationTypes DEF Next

----------------------------------------------------------------------------
\* Only an admission puts a session in the roster; every other call keeps the
\* sessions it finds or takes one out.

SessionsKept == \A p \in Peers : viewers'[p].session \in {viewers[p].session, 0}

\* Writing a viewer's flags, grants or revisions leaves its session alone.
LEMMA ViewerUpdate ==
  ASSUME TypeOK, NEW q \in Peers, NEW v,
         v.session = viewers[q].session \/ v.session = 0,
         viewers' = [viewers EXCEPT ![q] = v]
  PROVE  SessionsKept
BY DEF TypeOK, SessionsKept

LEMMA ViewerFields ==
  ASSUME TypeOK, NEW q \in Peers, NEW b
  PROVE  /\ [viewers[q] EXCEPT !.gen = b].session = viewers[q].session
         /\ [viewers[q] EXCEPT !.input = b].session = viewers[q].session
         /\ [viewers[q] EXCEPT !.feedback = b].session = viewers[q].session
         /\ [viewers[q] EXCEPT !.neutralizing = b].session = viewers[q].session
<1> DEFINE Shape == [session : Nat, presence : Handles \cup {<<>>},
                    grants : SUBSET InputGrants, arev : Nat, crev : Nat,
                    neutralizing : BOOLEAN, input : BOOLEAN, feedback : BOOLEAN,
                    gen : Nat]
<1>1. NoViewer \in Shape BY DEF NoViewer
<1>2. \A v \in ViewerSessions : v \in Shape BY DEF ViewerSessions
<1>3. viewers[q] \in Shape BY <1>1, <1>2 DEF TypeOK
<1> QED BY <1>3

LEMMA ViewerWrite ==
  ASSUME TypeOK, NEW q \in Peers, NEW b,
         \/ UNCHANGED viewers
         \/ viewers' = [viewers EXCEPT ![q].gen = b]
         \/ viewers' = [viewers EXCEPT ![q].input = b]
         \/ viewers' = [viewers EXCEPT ![q].feedback = b]
         \/ viewers' = [viewers EXCEPT ![q].neutralizing = b]
  PROVE  SessionsKept
<1>1. ASSUME NEW v, v.session = viewers[q].session, viewers' = [viewers EXCEPT ![q] = v]
      PROVE  SessionsKept
  BY <1>1, ViewerUpdate
<1>2. CASE UNCHANGED viewers BY <1>2 DEF SessionsKept
<1>3. CASE viewers' = [viewers EXCEPT ![q].gen = b]
  <2> DEFINE v == [viewers[q] EXCEPT !.gen = b]
  <2>1. v.session = viewers[q].session BY ViewerFields
  <2>2. viewers' = [viewers EXCEPT ![q] = v] BY <1>3
  <2> HIDE DEF v
  <2> QED BY <1>1, <2>1, <2>2
<1>4. CASE viewers' = [viewers EXCEPT ![q].input = b]
  <2> DEFINE v == [viewers[q] EXCEPT !.input = b]
  <2>1. v.session = viewers[q].session BY ViewerFields
  <2>2. viewers' = [viewers EXCEPT ![q] = v] BY <1>4
  <2> HIDE DEF v
  <2> QED BY <1>1, <2>1, <2>2
<1>5. CASE viewers' = [viewers EXCEPT ![q].feedback = b]
  <2> DEFINE v == [viewers[q] EXCEPT !.feedback = b]
  <2>1. v.session = viewers[q].session BY ViewerFields
  <2>2. viewers' = [viewers EXCEPT ![q] = v] BY <1>5
  <2> HIDE DEF v
  <2> QED BY <1>1, <2>1, <2>2
<1>6. CASE viewers' = [viewers EXCEPT ![q].neutralizing = b]
  <2> DEFINE v == [viewers[q] EXCEPT !.neutralizing = b]
  <2>1. v.session = viewers[q].session BY ViewerFields
  <2>2. viewers' = [viewers EXCEPT ![q] = v] BY <1>6
  <2> HIDE DEF v
  <2> QED BY <1>1, <2>1, <2>2
<1> QED BY <1>2, <1>3, <1>4, <1>5, <1>6

LEMMA MediaKept ==
  ASSUME TypeOK, NEW l \in leases, NEW g, BindV2Generation(l, g)
  PROVE  SessionsKept
<1>1. l.peer \in Peers BY DEF TypeOK
<1> QED BY <1>1, ViewerWrite DEF BindV2Generation

LEMMA SidecarKept ==
  ASSUME TypeOK, SidecarStep
  PROVE  SessionsKept
<1>1. ASSUME NEW p \in InputPeers, ClaimInputV2(p) PROVE SessionsKept
  <2>1. p \in Peers BY RegistryAssumption
  <2> QED BY <1>1, <2>1, ViewerWrite DEF ClaimInputV2
<1>2. ASSUME NEW p \in FeedbackPeers, ClaimFeedbackV2(p) PROVE SessionsKept
  <2>1. p \in Peers BY RegistryAssumption
  <2> QED BY <1>2, <2>1, ViewerWrite DEF ClaimFeedbackV2
<1>3. ASSUME NEW i \in inputs, ReleaseInputV2(i) PROVE SessionsKept
  <2>1. i.peer \in Peers BY DEF TypeOK
  <2> QED BY <1>3, <2>1, ViewerWrite DEF ReleaseInputV2
<1>4. ASSUME NEW b \in feedbacks, ReleaseFeedbackV2(b) PROVE SessionsKept
  <2>1. b.peer \in Peers BY DEF TypeOK
  <2> QED BY <1>4, <2>1, ViewerWrite DEF ReleaseFeedbackV2
<1>5. ASSUME NEW b \in feedbacks, BeginDetach(b) PROVE SessionsKept
  BY <1>5 DEF BeginDetach, SessionsKept
<1>6. ASSUME NEW b \in feedbacks, DisconnectV2Viewer(b) PROVE SessionsKept
  <2>1. b.peer \in Peers BY DEF TypeOK
  <2>2. viewers' = [viewers EXCEPT ![b.peer] = NoViewer]
    BY <1>6 DEF DisconnectV2Viewer
  <2>3. NoViewer.session = 0 BY DEF NoViewer
  <2> QED BY <2>1, <2>2, <2>3, ViewerUpdate
<1> QED BY <1>1, <1>2, <1>3, <1>4, <1>5, <1>6 DEF SidecarStep

LEMMA AuthorizationKept ==
  ASSUME TypeOK, AuthorizationStep
  PROVE  SessionsKept
<1>1. ASSUME ApplyAuthorizationMutation PROVE SessionsKept
  <2> DEFINE q == mutation.peer
             v == viewers[q]
  <2>1. q \in Peers
    BY <1>1, ServedMutation DEF ApplyAuthorizationMutation, Mutations
  <2>2. v \in ViewerSessions
    BY <1>1, <2>1, ConnectedType DEF ApplyAuthorizationMutation, MutationReachesViewer
  <2>3. \A t : \/ MutatedViewer(v, mutation, t).session = v.session
              \/ MutatedViewer(v, mutation, t).session = 0
    <3>1. \A a, g, b : [v EXCEPT !.arev = a, !.crev = a, !.grants = g,
                              !.neutralizing = b].session = v.session
      BY <2>2 DEF ViewerSessions
    <3>2. NoViewer.session = 0 BY DEF NoViewer
    <3> QED BY <3>1, <3>2 DEF MutatedViewer
  <2>4. PICK t : viewers' = [viewers EXCEPT ![q] = MutatedViewer(v, mutation, t)]
    BY <1>1 DEF ApplyAuthorizationMutation
  <2> QED BY <2>1, <2>3, <2>4, ViewerUpdate
<1>2. ASSUME CompleteAuthorizationNeutralization PROVE SessionsKept
  <2>1. mutation.peer \in Peers
    BY <1>2, ServedMutation DEF CompleteAuthorizationNeutralization, Mutations
  <2> QED BY <1>2, <2>1, ViewerWrite DEF CompleteAuthorizationNeutralization
<1>3. ASSUME UNCHANGED viewers PROVE SessionsKept BY <1>3 DEF SessionsKept
<1> QED BY <1>1, <1>2, <1>3
        DEF AuthorizationStep, RevokeViewer, ReplaceViewerGrants, RedeemInvitation,
            CommitMutation, ApplyMutationElsewhere, NeutralizeMutation, CompleteFocus,
            NeutralizeMutationFails, v2Vars

----------------------------------------------------------------------------
\* The invariant is inductive.

\* Calls that hand out no lease and drop none.
LEMMA QuietStep ==
  ASSUME RegistryInv, SessionsKept, UNCHANGED <<leases, live>>,
         nextSession' \in Nat, nextSession \leq nextSession', HasLegacy' => HasLegacy
  PROVE  LeasesCounted' /\ RosterLeased' /\ LegacyExclusive'
<1>1. LeasesCounted'
  <2>1. \A l \in leases : l.session \in Nat BY DEF RegistryInv, TypeOK
  <2>2. nextSession \in Nat BY DEF RegistryInv, TypeOK
  <2> QED BY <2>1, <2>2 DEF RegistryInv, LeasesCounted
<1>2. \A p \in Roster(viewers') : p \in Roster(viewers) /\ viewers'[p].session = viewers[p].session
  BY DEF SessionsKept, Roster
<1>3. RosterLeased' BY <1>2 DEF RegistryInv, RosterLeased
<1>4. LegacyExclusive' BY <1>2 DEF RegistryInv, LegacyExclusive
<1> QED BY <1>1, <1>3, <1>4

\* A legacy client is admitted only when no control lease is alive, and then
\* the roster is empty.
LEMMA ClaimInv ==
  ASSUME RegistryInv, NEW p \in LegacyPeers, Claim(p)
  PROVE  LeasesCounted' /\ RosterLeased' /\ LegacyExclusive'
<1>1. UNCHANGED <<viewers, leases, live>> /\ nextSession' = nextSession + 1 /\ live = 0
  BY DEF Claim, FreshSession, v2Vars, leaseVars
<1>2. leases = {} BY <1>1, FS_EmptySet DEF RegistryInv, LeasesCounted
<1>3. Roster(viewers) = {} BY <1>2 DEF RegistryInv, RosterLeased
<1>4. LeasesCounted' BY <1>1, <1>2 DEF RegistryInv, LeasesCounted
<1> QED BY <1>1, <1>3, <1>4 DEF RosterLeased, LegacyExclusive, Roster

LEMMA ClaimV2Inv ==
  ASSUME RegistryInv, NEW p \in Peers, ClaimV2(p)
  PROVE  LeasesCounted' /\ RosterLeased' /\ LegacyExclusive'
<1> DEFINE sid == nextSession + 1
<1>1. PICK n : /\ n.peer = p /\ n.session = sid
               /\ leases' = leases \cup {n}
  BY DEF ClaimV2
<1>2. nextSession \in Nat /\ \A l \in leases : l.session \in Nat /\ l.session \leq nextSession
  BY DEF RegistryInv, TypeOK, LeasesCounted
<1>3. n \notin leases BY <1>1, <1>2
<1>4. LeasesCounted'
  <2>1. IsFiniteSet(leases') /\ Cardinality(leases') = Cardinality(leases) + 1
    BY <1>1, <1>3, FS_AddElement DEF RegistryInv, LeasesCounted
  <2>2. live' = Cardinality(leases')
    BY <2>1 DEF ClaimV2, RegistryInv, LeasesCounted
  <2>3. \A l \in leases' : l.session \leq nextSession'
    BY <1>1, <1>2 DEF ClaimV2, FreshSession
  <2>4. \A l, m \in leases' : l.session = m.session => l = m
    BY <1>1, <1>2 DEF RegistryInv, LeasesCounted
  <2> QED BY <2>1, <2>2, <2>3, <2>4 DEF LeasesCounted
<1>5. viewers' = [viewers EXCEPT ![p] = NewViewer(p, sid)] BY DEF ClaimV2
<1>6. NewViewer(p, sid).session = sid
  <2>1. NewViewer(p, sid) =
          [[[[[[NoViewer EXCEPT !.session = sid] EXCEPT !.presence = admitting[p].handle]
             EXCEPT !.grants = admitting[p].grants] EXCEPT !.arev = admitting[p].arev]
             EXCEPT !.crev = admitting[p].crev] EXCEPT !.gen = media]
    BY DEF NewViewer
  <2>2. NoViewer \in [session : Nat, presence : {<<>>}, grants : {{}}, arev : Nat,
                      crev : Nat, neutralizing : BOOLEAN, input : BOOLEAN,
                      feedback : BOOLEAN, gen : Nat]
    BY DEF NoViewer
  <2> QED BY <2>2 DEF NewViewer
<1>7. RosterLeased'
  <2> SUFFICES ASSUME NEW q \in Roster(viewers)'
               PROVE  \E l \in leases' : l.peer = q /\ l.session = viewers'[q].session
    BY DEF RosterLeased
  <2>1. CASE q = p
    <3>1. viewers'[p].session = sid BY <1>5, <1>6 DEF RegistryInv, TypeOK
    <3> QED BY <1>1, <2>1, <3>1
  <2>2. CASE q # p
    <3>1. viewers'[q] = viewers[q] /\ q \in Roster(viewers)
      BY <1>5, <2>2 DEF Roster, RegistryInv, TypeOK
    <3> QED BY <1>1, <3>1 DEF RegistryInv, RosterLeased
  <2> QED BY <2>1, <2>2
<1>8. LegacyExclusive' BY DEF ClaimV2, AdmissionOK, LegacyExclusive, HasLegacy
<1> QED BY <1>4, <1>7, <1>8

LEMMA RetireReplacedInv ==
  ASSUME RegistryInv, NEW l \in leases, RetireReplaced(l)
  PROVE  LeasesCounted' /\ RosterLeased' /\ LegacyExclusive'
<1> DEFINE m == [l EXCEPT !.replaced = 0]
<1>1. m.session = l.session /\ m.peer = l.peer BY DEF RegistryInv, TypeOK
<1>2. leases' = (leases \ {l}) \cup {m} /\ UNCHANGED <<active, viewers, live, nextSession>>
  BY DEF RetireReplaced, v2Vars
<1> HIDE DEF m
<1>3. m \notin leases \ {l} BY <1>1 DEF RegistryInv, LeasesCounted
<1>4. LeasesCounted'
  <2>1. IsFiniteSet(leases \ {l}) /\ Cardinality(leases \ {l}) = live - 1 /\ live \in Nat
    BY LeaseCount DEF RegistryInv
  <2>2. IsFiniteSet(leases') /\ Cardinality(leases') = Cardinality(leases \ {l}) + 1
    BY <1>2, <1>3, <2>1, FS_AddElement
  <2>3. live' = Cardinality(leases') BY <1>2, <2>1, <2>2
  <2>4. /\ \A x \in leases' : x.session \leq nextSession'
        /\ \A x, y \in leases' : x.session = y.session => x = y
    BY <1>1, <1>2 DEF RegistryInv, LeasesCounted
  <2> QED BY <2>2, <2>3, <2>4 DEF LeasesCounted
<1>5. RosterLeased'
  <2> SUFFICES ASSUME NEW q \in Roster(viewers)
               PROVE  \E x \in leases' : x.peer = q /\ x.session = viewers[q].session
    BY <1>2 DEF RosterLeased, Roster
  <2>1. PICK x \in leases : x.peer = q /\ x.session = viewers[q].session
    BY DEF RegistryInv, RosterLeased
  <2> QED BY <1>1, <1>2, <2>1
<1>6. LegacyExclusive' BY <1>2 DEF RegistryInv, LegacyExclusive, HasLegacy, Roster
<1> QED BY <1>4, <1>5, <1>6

\* The viewer whose lease is dropped leaves the roster with it.
LEMMA ReleaseV2Inv ==
  ASSUME RegistryInv, NEW l \in leases, ReleaseV2(l)
  PROVE  LeasesCounted' /\ RosterLeased' /\ LegacyExclusive'
<1>1. leases' = leases \ {l} /\ live' = live - 1 /\ UNCHANGED <<active, nextSession>>
  BY DEF ReleaseV2
<1>2. /\ live \in Nat \ {0} /\ IsFiniteSet(leases \ {l})
      /\ Cardinality(leases \ {l}) = live - 1
  BY LeaseCount DEF RegistryInv
<1>3. LeasesCounted' BY <1>1, <1>2 DEF RegistryInv, LeasesCounted
<1>4. ~HasLegacy BY <1>2 DEF RegistryInv, LegacyExclusive
<1>5. LegacyExclusive' BY <1>1, <1>4 DEF LegacyExclusive, HasLegacy
<1>6. RosterLeased'
  <2> SUFFICES ASSUME NEW q \in Roster(viewers)'
               PROVE  \E x \in leases' : x.peer = q /\ x.session = viewers'[q].session
    BY DEF RosterLeased
  <2>0. NoViewer.session = 0 BY DEF NoViewer
  <2>1. viewers'[q] = viewers[q] /\ (IsViewer(l.peer, l.session) => q # l.peer)
    BY <2>0 DEF ReleaseV2, RegistryInv, TypeOK, Roster
  <2>2. q \in Roster(viewers) BY <2>1 DEF Roster
  <2>3. PICK x \in leases : x.peer = q /\ x.session = viewers[q].session
    BY <2>2 DEF RegistryInv, RosterLeased
  <2>4. x # l BY <2>1, <2>2, <2>3 DEF IsViewer, Roster
  <2> QED BY <1>1, <2>1, <2>3, <2>4
<1> QED BY <1>3, <1>5, <1>6

LEMMA StepInv ==
  ASSUME RegistryInv, [Next]_vars
  PROVE  RegistryInv'
<1> USE DEF RegistryInv
<1>1. TypeOK' BY StepTypes
<1>2. nextSession \in Nat BY DEF TypeOK
<1>3. ASSUME UNCHANGED vars PROVE LeasesCounted' /\ RosterLeased' /\ LegacyExclusive'
  BY <1>3 DEF vars, v2Vars, leaseVars, LeasesCounted, RosterLeased, LegacyExclusive,
              HasLegacy, Roster
<1>4. ASSUME LegacyStep PROVE LeasesCounted' /\ RosterLeased' /\ LegacyExclusive'
  <2>1. ASSUME ~ \E p \in LegacyPeers : Claim(p)
        PROVE  /\ UNCHANGED <<viewers, leases, live, nextSession>>
               /\ HasLegacy' => HasLegacy
    BY <1>4, <2>1 DEF LegacyStep, ClaimLegacySidecar, ReleaseLegacySidecar, ReleaseLegacy,
                      ExpectMoq, v2Vars, leaseVars, HasLegacy
  <2> QED BY <1>2, <2>1, ClaimInv, QuietStep DEF SessionsKept
<1>5. ASSUME AdmissionStep PROVE LeasesCounted' /\ RosterLeased' /\ LegacyExclusive'
  <2>1. ASSUME ~ \E p \in Peers : ClaimV2(p)
        PROVE  UNCHANGED <<active, viewers, leases, live, nextSession>>
    BY <1>5, <2>1 DEF AdmissionStep, Authorize, CheckCommitted, ClaimV2Rejected,
                      v2Vars, leaseVars
  <2> QED BY <1>2, <2>1, ClaimV2Inv, QuietStep DEF SessionsKept, HasLegacy
<1>6. ASSUME MediaStep PROVE LeasesCounted' /\ RosterLeased' /\ LegacyExclusive'
  <2>1. SessionsKept
    <3>1. UNCHANGED viewers => SessionsKept BY DEF SessionsKept
    <3> QED BY <1>6, <3>1, MediaKept DEF MediaStep, ClaimMoq, ExpectMoqV2, v2Vars
  <2>2. UNCHANGED <<active, leases, live, nextSession>>
    BY <1>6 DEF MediaStep, ClaimMoq, ExpectMoqV2, BindV2Generation, v2Vars, leaseVars
  <2> QED BY <1>2, <2>1, <2>2, QuietStep DEF HasLegacy
<1>7. ASSUME LeaseStep PROVE LeasesCounted' /\ RosterLeased' /\ LegacyExclusive'
  BY <1>7, RetireReplacedInv, ReleaseV2Inv DEF LeaseStep
<1>8. ASSUME CommandStep PROVE LeasesCounted' /\ RosterLeased' /\ LegacyExclusive'
  <2>1. UNCHANGED <<active, viewers, leases, live, nextSession>>
    BY <1>8 DEF CommandStep, RequestFocus, FocusCommandRefused, ApproveFocus, DenyFocus,
                ReleaseFocus, PreemptFocus, FocusCommandApplied, leaseVars
  <2> QED BY <1>2, <2>1, QuietStep DEF SessionsKept, HasLegacy
<1>9. ASSUME FocusStep PROVE LeasesCounted' /\ RosterLeased' /\ LegacyExclusive'
  <2>1. UNCHANGED <<active, viewers, leases, live, nextSession>>
    BY <1>9 DEF FocusStep, InvalidateV2Focus, CompleteV2FocusTransition, CompleteFocus,
                ExpireV2Focus, leaseVars
  <2> QED BY <1>2, <2>1, QuietStep DEF SessionsKept, HasLegacy
<1>10. ASSUME SidecarStep PROVE LeasesCounted' /\ RosterLeased' /\ LegacyExclusive'
  <2>1. UNCHANGED <<active, leases, live, nextSession>>
    BY <1>10 DEF SidecarStep, ClaimInputV2, ClaimFeedbackV2, ReleaseInputV2,
                 ReleaseFeedbackV2, BeginDetach, DisconnectV2Viewer, leaseVars
  <2> QED BY <1>2, <1>10, <2>1, SidecarKept, QuietStep DEF HasLegacy
<1>11. ASSUME AuthorizationStep PROVE LeasesCounted' /\ RosterLeased' /\ LegacyExclusive'
  <2>1. UNCHANGED <<active, leases, live, nextSession>>
    BY <1>11 DEF AuthorizationStep, RevokeViewer, ReplaceViewerGrants, RedeemInvitation,
                 CommitMutation, ApplyMutationElsewhere, ApplyAuthorizationMutation,
                 NeutralizeMutation, NeutralizeMutationFails,
                 CompleteAuthorizationNeutralization, v2Vars, leaseVars
  <2> QED BY <1>2, <1>11, <2>1, AuthorizationKept, QuietStep DEF HasLegacy
<1> QED BY <1>1, <1>3, <1>4, <1>5, <1>6, <1>7, <1>8, <1>9, <1>10, <1>11 DEF Next

LEMMA InitInv == Init => RegistryInv
<1> SUFFICES ASSUME Init PROVE RegistryInv
  OBVIOUS
<1>1. LeasesCounted BY FS_EmptySet DEF Init, LeasesCounted
<1>2. Roster(viewers) = {} BY DEF Init, Roster, NoViewer
<1>3. ~HasLegacy BY DEF Init, HasLegacy, NoLegacy
<1> QED BY <1>1, <1>2, <1>3, InitTypes DEF RegistryInv, RosterLeased, LegacyExclusive

\* The registry stays in its inductive invariant: every control lease that is
\* alive is counted once, and covers every viewer in the roster.
THEOREM RegistryInvariant == Spec => []RegistryInv
<1>1. RegistryInv /\ [Next]_vars => RegistryInv' BY StepInv
<1> QED BY <1>1, InitInv, PTL DEF Spec

\* Every variable of the registry keeps its type; that the unsigned count of
\* control leases never goes below zero is the part that needs the invariant.
THEOREM TypeCorrect == Spec => []TypeOK
<1>1. RegistryInv => TypeOK BY DEF RegistryInv
<1> QED BY <1>1, RegistryInvariant, PTL

\* A legacy client and a v2 viewer are never in the registry together, however
\* many viewers were admitted, replaced, revoked, detached and released.
THEOREM LegacyAndRosterExclusive == Spec => []LegacyExclusive
<1>1. RegistryInv => LegacyExclusive BY DEF RegistryInv
<1> QED BY <1>1, RegistryInvariant, PTL

----------------------------------------------------------------------------
\* What a step of the registry can do to the slot.

SameSlot(f, g) ==
  /\ g.phase = f.phase /\ g.who = f.who /\ g.gen = f.gen /\ g.tid = f.tid
  /\ g.nextGen = f.nextGen /\ g.nextTid = f.nextTid
SameHold(f, g) == SameSlot(f, g) /\ g.activation = f.activation

SlotMove(f, g) ==
  \/ SameHold(f, g)
  \/ SameSlot(f, g) /\ g.activation = NoActivation
  \/ /\ ~IsHeld(f) /\ IsHeld(g) /\ g.tid = 0
     /\ g.activation = [who |-> g.who, gen |-> g.gen]
     /\ g.gen = f.nextGen + 1 /\ g.nextGen = f.nextGen + 1 /\ g.nextTid = f.nextTid
  \/ /\ IsHeld(f) /\ IsNeutralizing(g) /\ g.activation = NoActivation
     /\ g.gen = f.gen /\ g.who = f.who /\ g.nextGen = f.nextGen
     /\ g.tid = f.nextTid + 1 /\ g.nextTid = f.nextTid + 1
  \/ /\ IsNeutralizing(f) /\ g.phase = "vacant" /\ g.activation = NoActivation
     /\ g.gen = 0 /\ g.tid = 0 /\ g.who = NoCandidate
     /\ g.nextGen = f.nextGen /\ g.nextTid = f.nextTid

\* Bookkeeping around an operator does not change what it does to the slot.
LEMMA SlotMoveCompose ==
  ASSUME NEW f, NEW g, NEW h
  PROVE  /\ SameHold(f, g) /\ SlotMove(g, h) => SlotMove(f, h)
         /\ SlotMove(f, g) /\ SameHold(g, h) => SlotMove(f, h)
BY DEF SameHold, SameSlot, SlotMove, IsHeld, IsNeutralizing

LEMMA BookkeepingHolds ==
  ASSUME NEW f \in Arbiters, NEW c \in Candidates
  PROVE  /\ SameHold(f, f)
         /\ SameHold(f, TrackCommand(f, c))
         /\ SameHold(f, RetireCandidate(f, c))
         /\ SameHold(f, ClearProposal(f))
BY DEF SameHold, SameSlot, TrackCommand, RetireCandidate, ClearProposal, Arbiters

LEMMA OperatorMoves ==
  ASSUME NEW f \in Arbiters, NEW c \in Candidates, NEW gen \in Nat, NEW tid \in Nat,
         NEW valid \in BOOLEAN
  PROVE  /\ ~IsHeld(f) => SlotMove(f, Grant(f, c))
         /\ IsHeld(f) => SlotMove(f, BeginNeutralization(f, c))
         /\ RequestOK(f, c) => SlotMove(f, Request(f, c))
         /\ SlotMove(f, BeginInvalidation(f, c))
         /\ SlotMove(f, MarkActivated(f, c, gen))
         /\ SlotMove(f, CompleteTransition(f, tid, valid))
<1>1. ASSUME ~IsHeld(f) PROVE SlotMove(f, Grant(f, c))
  <2>1. /\ Grant(f, c).phase = "held" /\ Grant(f, c).who = c
        /\ Grant(f, c).gen = f.nextGen + 1 /\ Grant(f, c).nextGen = f.nextGen + 1
        /\ Grant(f, c).tid = 0 /\ Grant(f, c).nextTid = f.nextTid
        /\ Grant(f, c).activation = [who |-> c, gen |-> f.nextGen + 1]
    BY DEF Grant, Arbiters
  <2> QED BY <1>1, <2>1 DEF SlotMove, IsHeld
<1>2. ASSUME NEW d \in Candidates, IsHeld(f) PROVE SlotMove(f, BeginNeutralization(f, d))
  <2>1. /\ BeginNeutralization(f, d).phase = "neutralizing"
        /\ BeginNeutralization(f, d).gen = f.gen /\ BeginNeutralization(f, d).who = f.who
        /\ BeginNeutralization(f, d).tid = f.nextTid + 1
        /\ BeginNeutralization(f, d).nextTid = f.nextTid + 1
        /\ BeginNeutralization(f, d).nextGen = f.nextGen
        /\ BeginNeutralization(f, d).activation = NoActivation
    BY DEF BeginNeutralization, Arbiters
  <2> QED BY <1>2, <2>1 DEF SlotMove, IsNeutralizing
<1>3. ASSUME RequestOK(f, c) PROVE SlotMove(f, Request(f, c))
  <2>1. CASE f.phase = "vacant" BY <1>1, <2>1 DEF Request, IsHeld
  <2>2. CASE f.phase # "vacant"
    <3>1. SameHold(f, Request(f, c)) BY <2>2 DEF Request, SameHold, SameSlot, Arbiters
    <3> QED BY <3>1 DEF SlotMove
  <2> QED BY <2>1, <2>2
<1>4. SlotMove(f, BeginInvalidation(f, c))
  <2>1. SameHold(f, f) /\ SameHold(f, ClearProposal(f)) BY BookkeepingHolds
  <2> QED BY <1>2, <2>1, NoneTypes DEF BeginInvalidation, HeldBy, SlotMove
<1>5. SlotMove(f, MarkActivated(f, c, gen))
  BY DEF MarkActivated, SlotMove, SameHold, SameSlot, Arbiters
<1>6. SlotMove(f, CompleteTransition(f, tid, valid))
  <2> DEFINE g == [ClearProposal(f) EXCEPT !.successor = NoCandidate]
             v == [g EXCEPT !.phase = "vacant", !.who = NoCandidate, !.gen = 0,
                            !.tid = 0, !.activation = NoActivation]
  <2>1. ClearProposal(f) \in Arbiters BY ArbiterOperators
  <2>2. g \in Arbiters /\ SameHold(ClearProposal(f), g)
    BY <2>1, NoneTypes DEF Arbiters, SameHold, SameSlot
  <2>3. SameHold(f, g) BY <2>2, BookkeepingHolds DEF SameHold, SameSlot
  <2>4. /\ v.phase = "vacant" /\ v.activation = NoActivation
        /\ v.gen = 0 /\ v.tid = 0 /\ v.who = NoCandidate
        /\ v.nextGen = g.nextGen /\ v.nextTid = g.nextTid
    BY <2>2 DEF Arbiters
  <2>5. f.successor \in Candidates BY DEF Arbiters
  <2> HIDE DEF g, v
  <2>6. CASE ~CompletesTransition(f, tid)
    BY <2>6 DEF CompleteTransition, SlotMove, SameHold, SameSlot
  <2>7. CASE CompletesTransition(f, tid)
    <3>1. IsNeutralizing(f) /\ ~IsHeld(f) BY <2>7 DEF CompletesTransition, IsNeutralizing, IsHeld
    <3>2. ~IsHeld(g) BY <2>3, <3>1 DEF SameHold, SameSlot, IsHeld
    <3>3. /\ Grant(g, f.successor).phase = "held" /\ Grant(g, f.successor).who = f.successor
          /\ Grant(g, f.successor).gen = g.nextGen + 1
          /\ Grant(g, f.successor).nextGen = g.nextGen + 1
          /\ Grant(g, f.successor).tid = 0 /\ Grant(g, f.successor).nextTid = g.nextTid
          /\ Grant(g, f.successor).activation = [who |-> f.successor, gen |-> g.nextGen + 1]
      BY <2>2 DEF Grant, Arbiters
    <3>4. SlotMove(f, Grant(g, f.successor))
      BY <2>3, <3>1, <3>3 DEF SlotMove, SameHold, SameSlot, IsHeld
    <3>5. SlotMove(f, v) BY <2>3, <2>4, <3>1 DEF SlotMove, SameHold, SameSlot
    <3>6. CompleteTransition(f, tid, valid) \in {Grant(g, f.successor), v}
      BY <2>7 DEF CompleteTransition, g, v
    <3> QED BY <3>4, <3>5, <3>6
  <2> QED BY <2>6, <2>7
<1> QED BY <1>1, <1>2, <1>3, <1>4, <1>5, <1>6

LEMMA SlotUntouched == ASSUME UNCHANGED focus PROVE SlotMove(focus, focus')
BY DEF SlotMove, SameHold, SameSlot

LEMMA CommandMoves ==
  ASSUME TypeOK, CommandStep
  PROVE  SlotMove(focus, focus')
<1>1. PICK l \in leases :
        \/ \E due \in BOOLEAN : RequestFocus(l, due) \/ FocusCommandRefused(l, due)
        \/ ApproveFocus(l) \/ DenyFocus(l) \/ ReleaseFocus(l) \/ PreemptFocus(l)
  BY DEF CommandStep
<1> DEFINE c == Candidate(viewers[l.peer])
<1>2. c \in Candidates
  <2>1. l.peer \in Peers BY DEF TypeOK
  <2> QED BY <2>1, CandidateType
<1>3. focus \in Arbiters BY DEF TypeOK
<1>4. ASSUME NEW f \in Arbiters, SlotMove(focus, f), focus' = TrackCommand(f, c)
      PROVE  SlotMove(focus, focus')
  BY <1>2, <1>4, BookkeepingHolds, SlotMoveCompose
<1>5. ASSUME NEW due \in BOOLEAN
      PROVE  /\ (IF due THEN ClearProposal(focus) ELSE focus) \in Arbiters
             /\ SameHold(focus, IF due THEN ClearProposal(focus) ELSE focus)
  BY <1>2, <1>3, ArbiterOperators, BookkeepingHolds
<1>6. ASSUME NEW due \in BOOLEAN, RequestFocus(l, due) PROVE SlotMove(focus, focus')
  <2> DEFINE f == IF due THEN ClearProposal(focus) ELSE focus
  <2>1. f \in Arbiters /\ SameHold(focus, f) BY <1>5
  <2>2. RequestOK(f, c) /\ focus' = TrackCommand(Request(f, c), c)
    BY <1>6 DEF RequestFocus, FocusCommandApplied
  <2> HIDE DEF f, c
  <2>3. Request(f, c) \in Arbiters BY <1>2, <2>1, ArbiterCommands
  <2>4. SlotMove(f, Request(f, c)) BY <1>2, <2>1, <2>2, OperatorMoves
  <2>5. SlotMove(focus, Request(f, c)) BY <2>1, <2>4, SlotMoveCompose
  <2> QED BY <1>4, <2>2, <2>3, <2>5 DEF c
<1>7. ASSUME NEW due \in BOOLEAN, FocusCommandRefused(l, due) PROVE SlotMove(focus, focus')
  <2> DEFINE f == IF due THEN ClearProposal(focus) ELSE focus
  <2>1. f \in Arbiters /\ SameHold(focus, f) BY <1>5
  <2>2. focus' = TrackCommand(f, c) BY <1>7 DEF FocusCommandRefused
  <2> HIDE DEF f, c
  <2>3. SlotMove(focus, f) BY <2>1 DEF SlotMove
  <2> QED BY <1>4, <2>1, <2>2, <2>3 DEF c
<1>8. ASSUME NEW d \in Candidates, IsHeld(focus)
      PROVE  BeginNeutralization(focus, d) \in Arbiters
             /\ SlotMove(focus, BeginNeutralization(focus, d))
  BY <1>3, <1>8, ArbiterOperators, OperatorMoves
<1>9. focus.proposal.requester \in Candidates BY <1>3 DEF Arbiters
<1>10. ASSUME ApproveFocus(l) PROVE SlotMove(focus, focus')
  <2>1. IsHeld(focus) /\ focus' = TrackCommand(Approve(focus), c)
    BY <1>10 DEF ApproveFocus, ApproveOK, EnsureHolder, HeldBy, FocusCommandApplied
  <2> QED BY <1>4, <1>8, <1>9, <2>1 DEF Approve
<1>11. ASSUME DenyFocus(l) PROVE SlotMove(focus, focus')
  <2>1. focus' = TrackCommand(ClearProposal(focus), c)
    BY <1>11 DEF DenyFocus, Deny, FocusCommandApplied
  <2>2. SlotMove(focus, ClearProposal(focus))
    BY <1>2, <1>3, BookkeepingHolds DEF SlotMove
  <2>3. ClearProposal(focus) \in Arbiters BY <1>2, <1>3, ArbiterOperators
  <2> QED BY <1>4, <2>1, <2>2, <2>3
<1>12. ASSUME ReleaseFocus(l) PROVE SlotMove(focus, focus')
  <2>1. IsHeld(focus) /\ focus' = TrackCommand(Release(focus), c)
    BY <1>12 DEF ReleaseFocus, EnsureHolder, HeldBy, FocusCommandApplied
  <2> QED BY <1>4, <1>8, <1>9, <2>1 DEF Release
<1>13. ASSUME PreemptFocus(l) PROVE SlotMove(focus, focus')
  <2>1. IsHeld(focus) /\ focus' = TrackCommand(Preempt(focus, c), c)
    BY <1>13 DEF PreemptFocus, PreemptOK, FocusCommandApplied
  <2> QED BY <1>2, <1>4, <1>8, <2>1 DEF Preempt
<1> QED BY <1>1, <1>6, <1>7, <1>10, <1>11, <1>12, <1>13

\* A candidate that leaves the roster loses its hold and its rate window.
LEMMA RetirementMoves ==
  ASSUME NEW f \in Arbiters, NEW c \in Candidates
  PROVE  /\ SlotMove(f, RetireCandidate(f, c))
         /\ SlotMove(f, RetireCandidate(BeginInvalidation(f, c), c))
<1>1. BeginInvalidation(f, c) \in Arbiters /\ SlotMove(f, BeginInvalidation(f, c))
  <2>1. 0 \in Nat /\ FALSE \in BOOLEAN OBVIOUS
  <2> QED BY <2>1, ArbiterCommands, OperatorMoves
<1>2. SameHold(BeginInvalidation(f, c), RetireCandidate(BeginInvalidation(f, c), c))
  BY <1>1, BookkeepingHolds
<1>3. SameHold(f, RetireCandidate(f, c)) BY BookkeepingHolds
<1> QED BY <1>1, <1>2, <1>3, SlotMoveCompose DEF SlotMove

LEMMA FocusMoves ==
  ASSUME TypeOK, FocusStep
  PROVE  SlotMove(focus, focus')
<1>1. focus \in Arbiters /\ focus.tid \in Nat BY DEF TypeOK, Arbiters
<1>2. ASSUME NEW l \in leases, InvalidateV2Focus(l.peer, l.session)
      PROVE  SlotMove(focus, focus')
  <2>1. Candidate(viewers[l.peer]) \in Candidates
    <3>1. l.peer \in Peers BY DEF TypeOK
    <3> QED BY <3>1, CandidateType
  <2> QED BY <1>1, <1>2, <2>1, OperatorMoves DEF InvalidateV2Focus
<1>3. ASSUME CompleteV2FocusTransition(focus.tid) PROVE SlotMove(focus, focus')
  <2>1. SuccessorValid(focus.tid) \in BOOLEAN BY DEF SuccessorValid
  <2> QED BY <1>1, <1>3, <2>1, NoneTypes, OperatorMoves
          DEF CompleteV2FocusTransition, CompleteFocus
<1>4. ASSUME ExpireV2Focus PROVE SlotMove(focus, focus')
  <2>1. SlotMove(focus, ClearProposal(focus))
    BY <1>1, NoneTypes, BookkeepingHolds DEF SlotMove
  <2>2. IsHeld(focus) => SlotMove(focus, BeginNeutralization(focus, NoCandidate))
    BY <1>1, NoneTypes, OperatorMoves
  <2> QED BY <1>4, <2>1, <2>2
          DEF ExpireV2Focus, ActivationExpiryOK, EnsureHolder, HeldBy
<1> QED BY <1>2, <1>3, <1>4 DEF FocusStep

LEMMA SidecarMoves ==
  ASSUME TypeOK, SidecarStep
  PROVE  SlotMove(focus, focus')
<1>1. focus \in Arbiters /\ focus.tid \in Nat /\ focus.gen \in Nat BY DEF TypeOK, Arbiters
<1>2. ASSUME NEW p \in InputPeers, ClaimInputV2(p) PROVE SlotMove(focus, focus')
  <2>1. Candidate(viewers[p]) \in Candidates BY RegistryAssumption, CandidateType
  <2> QED BY <1>1, <1>2, <2>1, OperatorMoves DEF ClaimInputV2
<1>3. ASSUME NEW i \in inputs, ReleaseInputV2(i) PROVE SlotMove(focus, focus')
  <2>1. SlotMove(focus, CompleteTransition(focus, focus.tid, FALSE))
    BY <1>1, NoneTypes, OperatorMoves
  <2> QED BY <1>3, <2>1, SlotUntouched DEF ReleaseInputV2
<1>4. ASSUME NEW b \in feedbacks, BeginDetach(b) PROVE SlotMove(focus, focus')
  <2>1. Candidate(viewers[b.peer]) \in Candidates
    <3>1. b.peer \in Peers BY DEF TypeOK
    <3> QED BY <3>1, CandidateType
  <2>2. SlotMove(focus, BeginInvalidation(focus, Candidate(viewers[b.peer])))
    BY <1>1, <2>1, OperatorMoves
  <2> QED BY <1>4, <2>2, SlotUntouched DEF BeginDetach
<1>5. ASSUME NEW b \in feedbacks, DisconnectV2Viewer(b) PROVE SlotMove(focus, focus')
  <2>1. Candidate(viewers[b.peer]) \in Candidates
    <3>1. b.peer \in Peers BY DEF TypeOK
    <3> QED BY <3>1, CandidateType
  <2> QED BY <1>1, <1>5, <2>1, RetirementMoves DEF DisconnectV2Viewer
<1>6. ASSUME NEW b \in feedbacks, ReleaseFeedbackV2(b) PROVE SlotMove(focus, focus')
  BY <1>6, SlotUntouched DEF ReleaseFeedbackV2
<1>7. ASSUME NEW p \in FeedbackPeers, ClaimFeedbackV2(p) PROVE SlotMove(focus, focus')
  BY <1>7, SlotUntouched DEF ClaimFeedbackV2
<1> QED BY <1>2, <1>3, <1>4, <1>5, <1>6, <1>7 DEF SidecarStep

LEMMA RosterMoves ==
  ASSUME TypeOK, AdmissionStep \/ LeaseStep
  PROVE  SlotMove(focus, focus')
<1>1. focus \in Arbiters BY DEF TypeOK
<1>2. ASSUME NEW p \in Peers, ClaimV2(p) PROVE SlotMove(focus, focus')
  <2>1. Candidate(viewers[p]) \in Candidates BY CandidateType
  <2>2. SlotMove(focus, RetireCandidate(BeginInvalidation(focus, Candidate(viewers[p])),
                                        Candidate(viewers[p])))
    BY <1>1, <2>1, RetirementMoves
  <2>3. SlotMove(focus, AdmittedFocus(p))
    BY <2>2 DEF AdmittedFocus, SlotMove, SameHold, SameSlot
  <2> QED BY <1>2, <2>3 DEF ClaimV2
<1>3. ASSUME NEW l \in leases, ReleaseV2(l) PROVE SlotMove(focus, focus')
  <2>1. Candidate(viewers[l.peer]) \in Candidates
    <3>1. l.peer \in Peers BY DEF TypeOK
    <3> QED BY <3>1, CandidateType
  <2>2. SlotMove(focus, RetireCandidate(BeginInvalidation(focus, Candidate(viewers[l.peer])),
                                        Candidate(viewers[l.peer])))
    BY <1>1, <2>1, RetirementMoves
  <2> QED BY <1>3, <2>2, SlotUntouched DEF ReleaseV2
<1>4. ASSUME UNCHANGED focus PROVE SlotMove(focus, focus') BY <1>4, SlotUntouched
<1> QED BY <1>2, <1>3, <1>4
        DEF AdmissionStep, LeaseStep, Authorize, CheckCommitted, ClaimV2Rejected,
            RetireReplaced, v2Vars

LEMMA AuthorizationMoves ==
  ASSUME TypeOK, AuthorizationStep
  PROVE  SlotMove(focus, focus')
<1>1. focus \in Arbiters BY DEF TypeOK
<1>2. ASSUME ApplyAuthorizationMutation PROVE SlotMove(focus, focus')
  <2> DEFINE c == Candidate(viewers[mutation.peer])
             f == IF mutation.revoked \/ InputReduced(mutation)
                  THEN BeginInvalidation(focus, c) ELSE focus
  <2>1. c \in Candidates
    <3>1. mutation.peer \in Peers
      BY <1>2, ServedMutation DEF ApplyAuthorizationMutation, Mutations
    <3> QED BY <3>1, CandidateType
  <2>2. focus' = IF mutation.revoked THEN RetireCandidate(f, c) ELSE f
    BY <1>2 DEF ApplyAuthorizationMutation
  <2>3. mutation.revoked => f = BeginInvalidation(focus, c) OBVIOUS
  <2>4. SlotMove(focus, BeginInvalidation(focus, c))
    <3>1. 0 \in Nat /\ FALSE \in BOOLEAN OBVIOUS
    <3> QED BY <1>1, <2>1, <3>1, OperatorMoves
  <2>5. SlotMove(focus, f) BY <2>4 DEF SlotMove, SameHold, SameSlot
  <2>6. SlotMove(focus, RetireCandidate(BeginInvalidation(focus, c), c))
    BY <1>1, <2>1, RetirementMoves
  <2> HIDE DEF f, c
  <2> QED BY <2>2, <2>3, <2>5, <2>6
<1>3. ASSUME NeutralizeMutation PROVE SlotMove(focus, focus')
  <2>1. mutation.tid \in Nat /\ SuccessorValid(mutation.tid) \in BOOLEAN
    BY <1>3, ServedMutation DEF NeutralizeMutation, Mutations, SuccessorValid
  <2> QED BY <1>1, <1>3, <2>1, NoneTypes, OperatorMoves
          DEF NeutralizeMutation, CompleteFocus
<1>4. ASSUME UNCHANGED focus PROVE SlotMove(focus, focus') BY <1>4, SlotUntouched
<1> QED BY <1>2, <1>3, <1>4
        DEF AuthorizationStep, RevokeViewer, ReplaceViewerGrants, RedeemInvitation,
            CommitMutation, ApplyMutationElsewhere, NeutralizeMutationFails,
            CompleteAuthorizationNeutralization, v2Vars

LEMMA StepMoves ==
  ASSUME TypeOK, [Next]_vars
  PROVE  SlotMove(focus, focus')
<1>1. ASSUME UNCHANGED vars \/ LegacyStep \/ MediaStep PROVE UNCHANGED focus
  BY <1>1 DEF vars, v2Vars, LegacyStep, Claim, ClaimLegacySidecar, ReleaseLegacySidecar,
              ReleaseLegacy, ExpectMoq, MediaStep, ClaimMoq, BindV2Generation, ExpectMoqV2
<1> QED BY <1>1, SlotUntouched, RosterMoves, CommandMoves, FocusMoves, SidecarMoves,
           AuthorizationMoves DEF Next

\* A held slot is neutralized before anybody else holds it: no command,
\* expiry, revocation, reconnect or release hands it over in one step.
THEOREM HandoffIsNeverDirect == Spec => NoDirectHandoff
<1>1. TypeOK /\ [Next]_vars =>
        [IsHeld(focus) /\ IsHeld(focus')
           => focus'.who = focus.who /\ focus'.gen = focus.gen]_vars
  BY StepMoves DEF SlotMove, SameHold, SameSlot, IsHeld, IsNeutralizing
<1> QED BY <1>1, TypeCorrect, PTL DEF Spec, NoDirectHandoff

\* A pending activation is always the current holder's, so the expiry that
\* every control task runs on each tick cannot fail on a foreign one.
THEOREM ActivationIsAlwaysHolders == Spec => []ActivationIsHolders
<1>1. Init => ActivationIsHolders BY DEF Init, NewArbiter, ActivationIsHolders
<1>2. ASSUME ActivationIsHolders, SlotMove(focus, focus') PROVE ActivationIsHolders'
  <2>1. CASE focus'.activation = NoActivation BY <2>1 DEF ActivationIsHolders
  <2>2. CASE SameHold(focus, focus')
    BY <1>2, <2>2 DEF SameHold, SameSlot, ActivationIsHolders, EnsureHolder, HeldBy, IsHeld
  <2>3. CASE IsHeld(focus') /\ focus'.activation = [who |-> focus'.who, gen |-> focus'.gen]
    BY <2>3 DEF ActivationIsHolders, EnsureHolder, HeldBy
  <2> QED BY <1>2, <2>1, <2>2, <2>3 DEF SlotMove
<1>3. TypeOK /\ ActivationIsHolders /\ [Next]_vars => ActivationIsHolders'
  BY <1>2, StepMoves
<1> QED BY <1>1, <1>3, TypeCorrect, PTL DEF Spec
=============================================================================
