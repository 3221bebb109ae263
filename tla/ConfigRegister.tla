--------------------------- MODULE ConfigRegister ---------------------------
(***************************************************************************)
(* What the managed configuration of the appliance promises, without       *)
(* files, locks or crashes: one revision is current, at most one           *)
(* transaction is on trial, a trial starts by installing a candidate in    *)
(* one step, is committed only after a service that ran the candidate      *)
(* became ready and stopped cleanly, and is otherwise rolled back to the   *)
(* exact revision it replaced.  A service runs the current revision only.  *)
(***************************************************************************)
CONSTANTS Revisions,   \* the documents, known by the hash of their bytes
          NoRevision   \* no document

VARIABLES current,     \* the revision a service that starts now runs
          pending,     \* the transaction on trial, or NoTransaction
          running,     \* the revision of the running service, or NoRevision
          proven       \* a service has proven the candidate on trial

registerVars == <<current, pending, running, proven>>

NoTransaction == [base |-> NoRevision, candidate |-> NoRevision]

Init ==
  /\ current \in Revisions
  /\ pending = NoTransaction
  /\ running = NoRevision
  /\ proven = FALSE

(* `sigil config set`: the candidate replaces the current revision. *)
Install ==
  /\ pending = NoTransaction
  /\ running = NoRevision
  /\ \E candidate \in Revisions \ {current} :
       /\ pending' = [base |-> current, candidate |-> candidate]
       /\ current' = candidate
  /\ proven' = FALSE
  /\ UNCHANGED running

(* `sigil config commit`. *)
Commit ==
  /\ pending # NoTransaction
  /\ running = NoRevision
  /\ proven
  /\ pending' = NoTransaction
  /\ UNCHANGED <<current, running, proven>>

(* `sigil config rollback`. *)
Rollback ==
  /\ pending # NoTransaction
  /\ running = NoRevision
  /\ current' = pending.base
  /\ pending' = NoTransaction
  /\ UNCHANGED <<running, proven>>

(* The operator writes the document by hand while nothing is on trial. *)
Edit ==
  /\ pending = NoTransaction
  /\ current' \in Revisions
  /\ UNCHANGED <<pending, running, proven>>

Start ==
  /\ running = NoRevision
  /\ running' = current
  /\ UNCHANGED <<current, pending, proven>>

(* A service stops; a healthy run of the candidate proves it. *)
Stop ==
  /\ running # NoRevision
  /\ running' = NoRevision
  /\ \/ UNCHANGED proven
     \/ /\ running = pending.candidate
        /\ proven' = TRUE
  /\ UNCHANGED <<current, pending>>

Next == Install \/ Commit \/ Rollback \/ Edit \/ Start \/ Stop

Spec == Init /\ [][Next]_registerVars
=============================================================================
