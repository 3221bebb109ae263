------------------------------ MODULE FocusSlot ------------------------------
(***************************************************************************)
(* What controller slot 0 promises to whoever injects input: at most one   *)
(* focus generation owns it, generations are never reused, and the keys a  *)
(* generation left down are lifted before the slot is free or owned again. *)
(* An event that was checked before its generation was closed may still    *)
(* land after it.                                                          *)
(***************************************************************************)
EXTENDS Naturals

VARIABLES
  owner,     \* the generation that holds the slot, or 0
  closing,   \* the generation being neutralized, or 0
  issued,    \* the last generation handed out
  dirty      \* generations with keys down

slotVars == <<owner, closing, issued, dirty>>

Init == owner = 0 /\ closing = 0 /\ issued = 0 /\ dirty = {}

Grant ==
  /\ owner = 0 /\ dirty = {}
  /\ owner' = issued + 1 /\ issued' = issued + 1 /\ closing' = 0
  /\ UNCHANGED dirty

Close ==
  /\ owner # 0
  /\ closing' = owner /\ owner' = 0
  /\ UNCHANGED <<issued, dirty>>

Free ==
  /\ closing # 0 /\ dirty = {}
  /\ closing' = 0
  /\ UNCHANGED <<owner, issued, dirty>>

\* Keys of the current generation go down or up; a reset lifts them all.
Touch ==
  /\ dirty' \subseteq {owner, closing} \ {0}
  /\ UNCHANGED <<owner, closing, issued>>

Next == Grant \/ Close \/ Free \/ Touch

Spec == Init /\ [][Next]_slotVars

-----------------------------------------------------------------------------
TypeOK ==
  /\ owner \in Nat /\ closing \in Nat /\ issued \in Nat
  /\ dirty \subseteq Nat

\* The keys that are down are those of the generation that owns the slot or
\* is being neutralized, never of an earlier one.
DirtIsCurrent == dirty \subseteq {owner, closing} \ {0}
==============================================================================
