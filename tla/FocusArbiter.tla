---------------------------- MODULE FocusArbiter ----------------------------
(***************************************************************************)
(* The arbiter of controller slot 0 (server/focus.rs): which viewer may    *)
(* inject input.  The slot is vacant, held by one viewer session under a   *)
(* focus generation, or neutralizing between two holders.  The arbiter is  *)
(* a record that the session registry keeps behind its lock, so its        *)
(* methods are operators: a guard for the early returns and a function     *)
(* from arbiter to arbiter for the effect.                                 *)
(*                                                                         *)
(* Deadlines are not clocks here.  A deadline may be found to have passed  *)
(* whenever it is set; callers pass that choice in.  Slots, wire expiry    *)
(* times and transition reasons are display data and are left out.  The    *)
(* sliding window of command times is its set of keys: which candidates    *)
(* have timestamps the arbiter still remembers.                            *)
(***************************************************************************)
EXTENDS Naturals

CONSTANT FocusOwner      \* the presence of the configured owner, if any

NoCandidate == [presence |-> <<>>, session |-> 0]
NoProposal == [id |-> 0, requester |-> NoCandidate, holder |-> NoCandidate]
NoActivation == [who |-> NoCandidate, gen |-> 0]

NewArbiter ==
  [ phase |-> "vacant", who |-> NoCandidate, gen |-> 0, tid |-> 0,
    proposal |-> NoProposal, successor |-> NoCandidate,
    activation |-> NoActivation,
    nextGen |-> 0, nextTid |-> 0, nextPid |-> 0, keys |-> {} ]

IsHeld(f) == f.phase = "held"
IsNeutralizing(f) == f.phase = "neutralizing"
HasProposal(f) == f.proposal.id # 0
HeldBy(f, c) == IsHeld(f) /\ f.who = c

\* ensure_holder and ensure_proposal: the fences on a holder's command.
EnsureHolder(f, c, gen) == HeldBy(f, c) /\ f.gen = gen
EnsureProposal(f, c, pid) ==
  HasProposal(f) /\ f.proposal.id = pid /\ f.proposal.holder = c

----------------------------------------------------------------------------
\* Effects.

\* The key is entered before the window is checked, so a refused command
\* leaves it behind too.
TrackCommand(f, c) == [f EXCEPT !.keys = @ \cup {c}]
RetireCandidate(f, c) == [f EXCEPT !.keys = @ \ {c}]

ClearProposal(f) == [f EXCEPT !.proposal = NoProposal]

\* Mutant of Grant: the second grant reuses the generation of the first.
GrantReusesGeneration(f, c) ==
  LET gen == IF f.nextGen = 0 THEN 1 ELSE f.nextGen IN
  [f EXCEPT !.phase = "held", !.who = c, !.gen = gen, !.tid = 0,
            !.nextGen = @ + 1, !.activation = [who |-> c, gen |-> gen]]

Grant(f, c) ==
  [f EXCEPT !.phase = "held", !.who = c, !.gen = f.nextGen + 1, !.tid = 0,
            !.nextGen = @ + 1,
            !.activation = [who |-> c, gen |-> f.nextGen + 1]]

\* Mutant of BeginNeutralization: the holder's activation stays pending.
BeginNeutralizationKeepsActivation(f, successor) ==
  [f EXCEPT !.phase = "neutralizing", !.tid = f.nextTid + 1,
            !.nextTid = @ + 1, !.successor = successor, !.proposal = NoProposal]

\* who and gen now name the former holder.
BeginNeutralization(f, successor) ==
  [f EXCEPT !.phase = "neutralizing", !.tid = f.nextTid + 1,
            !.nextTid = @ + 1, !.successor = successor,
            !.activation = NoActivation, !.proposal = NoProposal]

RequestOK(f, c) ==
  \/ f.phase = "vacant"
  \/ IsHeld(f) /\ f.who # c /\ ~HasProposal(f)

Request(f, c) ==
  IF f.phase = "vacant"
  THEN Grant(f, c)
  ELSE [f EXCEPT !.nextPid = @ + 1,
                 !.proposal = [id |-> f.nextPid + 1, requester |-> c,
                               holder |-> f.who]]

ApproveOK(f, c, gen, pid) == EnsureHolder(f, c, gen) /\ EnsureProposal(f, c, pid)
Approve(f) == BeginNeutralization(f, f.proposal.requester)
Deny(f) == ClearProposal(f)

\* A release with a proposal pending hands over to its requester.
Release(f) == BeginNeutralization(f, f.proposal.requester)

PreemptOK(f, c, gen) ==
  c.presence = FocusOwner /\ IsHeld(f) /\ f.gen = gen /\ f.who # c

\* Mutant of Preempt: the owner takes the slot at once.
PreemptAtOnce(f, c) == Grant(f, c)
Preempt(f, c) == BeginNeutralization(f, c)

Involves(f, c) ==
  HasProposal(f) /\ (f.proposal.requester = c \/ f.proposal.holder = c)

\* Mutant of BeginInvalidation: a requester's proposal survives it.
InvalidateHolderOnly(f, c) ==
  IF HeldBy(f, c) THEN BeginNeutralization(f, NoCandidate) ELSE f

\* begin_invalidation: the candidate loses its proposal and its hold.
BeginInvalidation(f, c) ==
  IF HeldBy(f, c) THEN BeginNeutralization(f, NoCandidate)
  ELSE IF Involves(f, c) THEN ClearProposal(f)
  ELSE f
InvalidationChanges(f, c) == HeldBy(f, c) \/ Involves(f, c)

MarkActivated(f, c, gen) ==
  IF f.activation = [who |-> c, gen |-> gen]
  THEN [f EXCEPT !.activation = NoActivation]
  ELSE f

\* begin_activation_expiry fails unless the pending activation is the holder's.
ActivationExpiryOK(f) ==
  f.activation # NoActivation /\ EnsureHolder(f, f.activation.who, f.activation.gen)

CompletesTransition(f, tid) == IsNeutralizing(f) /\ f.tid = tid

TransitionSuccessor(f, tid) ==
  IF CompletesTransition(f, tid) THEN f.successor ELSE NoCandidate

CompleteTransition(f, tid, successorValid) ==
  LET g == [ClearProposal(f) EXCEPT !.successor = NoCandidate] IN
  IF ~CompletesTransition(f, tid) THEN f
  ELSE IF successorValid /\ f.successor # NoCandidate
  THEN Grant(g, f.successor)
  ELSE [g EXCEPT !.phase = "vacant", !.who = NoCandidate, !.gen = 0,
                 !.tid = 0, !.activation = NoActivation]
=============================================================================
