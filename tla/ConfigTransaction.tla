------------------------- MODULE ConfigTransaction -------------------------
(***************************************************************************)
(* Configuration transactions of the appliance (config_management.rs), the *)
(* durable files they write (secure_state.rs) and the daemon whose runtime *)
(* document a commit takes as evidence (appliance.rs, serve_command).      *)
(*                                                                         *)
(* A management command and the daemon hold the lifecycle lock for as long *)
(* as they run, so at most one of them, `op`, is active; the lock of a     *)
(* process that dies is free again.  Every durable step of a command (one  *)
(* atomic rename or unlink with its directory sync) is an action, and      *)
(* `op.at` names the next one: a command may be interrupted between any    *)
(* two.  The first thing a command and a starting service do is recover,   *)
(* which finishes what an earlier one left half done.                      *)
(*                                                                         *)
(* The operator edits the document without the lock, but not in the middle *)
(* of a command.                                                           *)
(***************************************************************************)
EXTENDS Naturals, FiniteSets

CONSTANTS Revisions,        \* configuration documents, by the hash of their bytes
          NoRevision,       \* no document: a missing artifact, an unmanaged daemon
          MaxTransactions,  \* bound: transactions prepared
          MaxInstances,     \* bound: daemon instances started
          MaxFaults,        \* bound: commands and daemons killed
          MaxEdits,         \* bound: edits by hand
          StatusWrites      \* how a write of the runtime document may end

ASSUME ConfigBounds ==
  /\ {MaxTransactions, MaxInstances, MaxFaults, MaxEdits} \subseteq Nat
  /\ StatusWrites \subseteq BOOLEAN /\ TRUE \in StatusWrites
ASSUME NoRevisionIsNone == NoRevision \notin Revisions

VARIABLES live,       \* the revision of the configuration file
          baseFile,   \* recovery artifact: the document a rollback restores
          candFile,   \* recovery artifact: the document an install writes
          journal,    \* the transaction journal, or NoJournal
          op,         \* the holder of the lifecycle lock
          daemon,     \* memory of the daemon, while op runs it
          status,     \* the runtime document, or NoStatus
          counts,     \* transactions, instances, faults and edits so far
          proven,     \* history: a healthy run of the candidate on trial
          tampered    \* history: the document was edited while on trial

files == <<live, baseFile, candFile, journal>>
history == <<proven, tampered>>
vars == <<live, baseFile, candFile, journal, op, daemon, status, counts,
          proven, tampered>>

States == {"prepared", "pending_validation", "committing", "rolling_back"}
Kinds == {"none", "set", "commit", "rollback", "service", "unmanaged"}
Stages == {"free", "recover", "sweep_base", "sweep_candidate", "write_base",
           "write_candidate", "write_prepared", "install", "write_pending",
           "write_committing", "write_rolling", "restore", "drop_base",
           "drop_candidate", "drop_journal", "body", "run"}
Phases == {"prepared", "starting", "ready", "stopping", "stopped", "degraded"}

NoJournal == [state |-> "none", id |-> 0, base |-> NoRevision,
              candidate |-> NoRevision, baseline |-> 0]
Holder(kind, stage, tx) ==
  [kind |-> kind, at |-> stage, tx |-> tx, base |-> NoRevision,
   candidate |-> NoRevision, baseline |-> 0]
NoOp == Holder("none", "free", 0)
NewDaemon(instance, revision, phase) ==
  [instance |-> instance, revision |-> revision, phase |-> phase,
   reachedReady |-> FALSE, failed |-> FALSE]
NoDaemon == NewDaemon(0, NoRevision, "prepared")
NoStatus == NoDaemon

Init ==
  /\ live \in Revisions
  /\ baseFile = NoRevision /\ candFile = NoRevision
  /\ journal = NoJournal
  /\ op = NoOp
  /\ daemon = NoDaemon /\ status = NoStatus
  /\ counts = [transactions |-> 0, instances |-> 0, faults |-> 0, edits |-> 0]
  /\ proven = FALSE /\ tampered = FALSE

-----------------------------------------------------------------------------
(* Commands and their recovery. *)

OnTrial == journal.state \in {"prepared", "pending_validation"}
Interrupted == journal.state \in {"prepared", "committing", "rolling_back"}
ArtifactsMatch == baseFile = journal.base /\ candFile = journal.candidate

At(stage) == op.at = stage
GoTo(stage) == op' = [op EXCEPT !.at = stage]
Done == op' = NoOp

(* The lifecycle lock and the configuration lock are taken without waiting;
   commit also looks for its transaction before it recovers. *)
Begin ==
  /\ op = NoOp
  /\ \/ \E kind \in {"set", "service"} : op' = Holder(kind, "recover", 0)
     \/ \E tx \in 1..counts.transactions : op' = Holder("rollback", "recover", tx)
     \/ /\ journal # NoJournal
        /\ op' = Holder("commit", "recover", journal.id)
  /\ UNCHANGED <<files, daemon, status, counts, history>>

(* Mutant of RestoreOrClean: the base artifact is read first in any case. *)
RestoreOrCleanWithBase ==
  \/ baseFile # journal.base /\ Done
  \/ /\ baseFile = journal.base
     /\ \/ live = journal.candidate /\ GoTo("restore")
        \/ live = journal.base /\ GoTo("drop_base")

(* A rollback that was interrupted: before or after its base was restored. *)
RestoreOrClean ==
  \/ live = journal.candidate /\ baseFile = journal.base /\ GoTo("restore")
  \/ live = journal.base /\ GoTo("drop_base")

(* recover(): no journal leaves only artifacts to remove; an install and a
   rollback are finished forward, a commit is cleaned up; anything that does
   not fit the journal is a conflict and ends the command. *)
Recover ==
  /\ At("recover")
  /\ \/ journal = NoJournal /\ GoTo("sweep_base")
     \/ /\ journal.state = "prepared" /\ ArtifactsMatch
        /\ \/ live = journal.base /\ GoTo("install")
           \/ live = journal.candidate /\ GoTo("write_pending")
     \/ /\ journal.state = "pending_validation" /\ ArtifactsMatch
        /\ live = journal.candidate /\ GoTo("body")
     \/ /\ journal.state = "committing"
        /\ live = journal.candidate /\ GoTo("drop_base")
     \/ journal.state = "rolling_back" /\ RestoreOrClean
  /\ UNCHANGED <<files, daemon, status, counts, history>>

RecoverConflict ==
  /\ At("recover")
  /\ journal # NoJournal
  /\ \/ OnTrial /\ ~ArtifactsMatch
     \/ journal.state \in {"pending_validation", "committing"}
        /\ live # journal.candidate
     \/ journal.state \in {"prepared", "rolling_back"}
        /\ live \notin {journal.base, journal.candidate}
     \/ /\ journal.state = "rolling_back"
        /\ live = journal.candidate /\ baseFile # journal.base
  /\ Done
  /\ UNCHANGED <<files, daemon, status, counts, history>>

SweepBase ==
  /\ At("sweep_base")
  /\ baseFile' = NoRevision
  /\ GoTo("sweep_candidate")
  /\ UNCHANGED <<live, candFile, journal, daemon, status, counts, history>>

SweepCandidate ==
  /\ At("sweep_candidate")
  /\ candFile' = NoRevision
  /\ GoTo("body")
  /\ UNCHANGED <<live, baseFile, journal, daemon, status, counts, history>>

(* replace_config with the candidate, of set and of recover. *)
InstallCandidate ==
  /\ At("install")
  /\ live' = journal.candidate
  /\ GoTo("write_pending")
  /\ UNCHANGED <<baseFile, candFile, journal, daemon, status, counts, history>>

(* A set that prepared this transaction is done; a recovery goes on. *)
WritePending ==
  /\ At("write_pending")
  /\ journal' = [journal EXCEPT !.state = "pending_validation"]
  /\ IF op.candidate # NoRevision THEN Done ELSE GoTo("body")
  /\ UNCHANGED <<live, baseFile, candFile, daemon, status, counts, history>>

(* replace_config with the base, of rollback and of recover. *)
Restore ==
  /\ At("restore")
  /\ baseFile = journal.base
  /\ live' = journal.base
  /\ GoTo("drop_base")
  /\ UNCHANGED <<baseFile, candFile, journal, daemon, status, counts, history>>

(* cleanup_transaction: the journal is the last to go. *)
DropBase ==
  /\ At("drop_base")
  /\ baseFile' = NoRevision
  /\ GoTo("drop_candidate")
  /\ UNCHANGED <<live, candFile, journal, daemon, status, counts, history>>

DropCandidate ==
  /\ At("drop_candidate")
  /\ candFile' = NoRevision
  /\ GoTo("drop_journal")
  /\ UNCHANGED <<live, baseFile, journal, daemon, status, counts, history>>

(* A commit or a rollback ends here, as the one it was or as the completion
   of what it recovered; a set or a service has recovered and goes on. *)
DropJournal ==
  /\ At("drop_journal")
  /\ journal' = NoJournal
  /\ tampered' = FALSE
  /\ IF op.kind \in {"set", "service"} THEN GoTo("body") ELSE Done
  /\ UNCHANGED <<live, baseFile, candFile, daemon, status, counts, proven>>

-----------------------------------------------------------------------------
(* What a command does once it has recovered. *)

(* The request names the revision it replaces; the baseline is the instance
   of the last runtime document, whatever became of it. *)
SetBody ==
  /\ At("body") /\ op.kind = "set"
  /\ journal = NoJournal
  /\ counts.transactions < MaxTransactions
  /\ \E candidate \in Revisions \ {live} :
       op' = [kind |-> "set", at |-> "write_base", tx |-> 0, base |-> live,
              candidate |-> candidate, baseline |-> status.instance]
  /\ UNCHANGED <<files, daemon, status, counts, history>>

WriteBase ==
  /\ At("write_base")
  /\ baseFile' = op.base
  /\ GoTo("write_candidate")
  /\ UNCHANGED <<live, candFile, journal, daemon, status, counts, history>>

WriteCandidate ==
  /\ At("write_candidate")
  /\ candFile' = op.candidate
  /\ GoTo("write_prepared")
  /\ UNCHANGED <<live, baseFile, journal, daemon, status, counts, history>>

WritePrepared ==
  /\ At("write_prepared")
  /\ journal' = [state |-> "prepared", id |-> counts.transactions + 1,
                 base |-> op.base, candidate |-> op.candidate,
                 baseline |-> op.baseline]
  /\ counts' = [counts EXCEPT !.transactions = @ + 1]
  /\ proven' = FALSE
  /\ GoTo("install")
  /\ UNCHANGED <<live, baseFile, candFile, daemon, status, tampered>>

(* Mutant of Evidence: any clean run of the candidate will do. *)
EvidenceOfAnyRun ==
  /\ status.phase = "stopped" /\ status.reachedReady /\ ~status.failed
  /\ status.revision = journal.candidate

(* validate_candidate_runtime and the checks before it. *)
Evidence ==
  /\ status.phase = "stopped" /\ status.reachedReady /\ ~status.failed
  /\ status.instance # journal.baseline
  /\ status.revision = journal.candidate

CommitBody ==
  /\ At("body") /\ op.kind = "commit"
  /\ journal.state = "pending_validation" /\ journal.id = op.tx
  /\ live = journal.candidate
  /\ Evidence
  /\ GoTo("write_committing")
  /\ UNCHANGED <<files, daemon, status, counts, history>>

WriteCommitting ==
  /\ At("write_committing")
  /\ journal' = [journal EXCEPT !.state = "committing"]
  /\ GoTo("drop_base")
  /\ UNCHANGED <<live, baseFile, candFile, daemon, status, counts, history>>

(* Mutant of RollbackBody: the base is restored before the journal says so. *)
RollbackBodyUnjournaled ==
  /\ At("body") /\ op.kind = "rollback"
  /\ journal.state = "pending_validation" /\ journal.id = op.tx
  /\ live = journal.candidate
  /\ GoTo("restore")
  /\ UNCHANGED <<files, daemon, status, counts, history>>

RollbackBody ==
  /\ At("body") /\ op.kind = "rollback"
  /\ journal.state = "pending_validation" /\ journal.id = op.tx
  /\ live = journal.candidate
  /\ GoTo("write_rolling")
  /\ UNCHANGED <<files, daemon, status, counts, history>>

WriteRolling ==
  /\ At("write_rolling")
  /\ journal' = [journal EXCEPT !.state = "rolling_back"]
  /\ GoTo("restore")
  /\ UNCHANGED <<live, baseFile, candFile, daemon, status, counts, history>>

(* A request for another revision or another instance, a no-op, a second
   transaction, an unknown transaction: nothing changes. *)
Refuse ==
  /\ At("body")
  /\ \/ op.kind \in {"set", "commit"}
     \/ op.kind = "rollback" /\ journal.id # op.tx
  /\ Done
  /\ UNCHANGED <<files, daemon, status, counts, history>>

-----------------------------------------------------------------------------
(* The daemon. *)

Exit == op' = NoOp /\ daemon' = NoDaemon

Running(phases) == At("run") /\ daemon.phase \in phases

Publish(snapshot) ==
  \E written \in StatusWrites :
    status' = IF written THEN snapshot ELSE status

(* prepare_service: what the daemon runs is read again after recovery. *)
LoadService ==
  /\ At("body") /\ op.kind = "service"
  /\ GoTo("run")
  /\ daemon' = NewDaemon(0, live, "prepared")
  /\ UNCHANGED <<files, status, counts, history>>

(* RuntimePublisher::start; a daemon that cannot publish does not start. *)
StartPublisher(revision) ==
  /\ counts.instances < MaxInstances
  /\ counts' = [counts EXCEPT !.instances = @ + 1]
  /\ daemon' = NewDaemon(counts.instances + 1, revision, "starting")
  /\ status' = daemon'
  /\ UNCHANGED <<files, history>>

StartService ==
  /\ Running({"prepared"})
  /\ StartPublisher(daemon.revision)
  /\ UNCHANGED op

(* A daemon started without a configuration file: it takes the lifecycle
   lock, neither recovers nor loads a managed document, and publishes too. *)
StartUnmanaged ==
  /\ op = NoOp
  /\ op' = Holder("unmanaged", "run", 0)
  /\ StartPublisher(NoRevision)

StartFails ==
  /\ Running({"prepared"})
  /\ Exit
  /\ UNCHANGED <<files, status, counts, history>>

(* mark_ready and mark_stopping: a failed write is logged and ignored. *)
MarkReady ==
  /\ Running({"starting"})
  /\ daemon' = [daemon EXCEPT !.phase = "ready", !.reachedReady = TRUE]
  /\ Publish(daemon')
  /\ UNCHANGED <<files, op, counts, history>>

MarkStopping ==
  /\ Running({"ready"})
  /\ daemon' = [daemon EXCEPT !.phase = "stopping"]
  /\ Publish(daemon')
  /\ UNCHANGED <<files, op, counts, history>>

Heartbeat ==
  /\ Running({"starting", "ready", "stopping"})
  /\ status' = daemon
  /\ UNCHANGED <<files, op, daemon, counts, history>>

(* degrade_on_error: authorization, preflight, endpoint, signal and router
   failures mark the daemon degraded and end it. *)
Degrade ==
  /\ Running({"starting", "ready", "stopping"})
  /\ Publish([daemon EXCEPT !.phase = "degraded", !.failed = TRUE])
  /\ Exit
  /\ UNCHANGED <<files, counts, history>>

(* The administration listener fails to start; only a daemon with an
   authorization store has one. *)
AdminListenerFails ==
  /\ Running({"starting"}) /\ op.kind = "service"
  /\ Exit
  /\ UNCHANGED <<files, status, counts, history>>

(* finish_clean, after the router is down. *)
FinishClean ==
  /\ Running({"stopping"})
  /\ Publish([daemon EXCEPT !.phase = "stopped"])
  /\ Exit
  /\ proven' = (proven \/ (OnTrial /\ daemon.revision = journal.candidate))
  /\ UNCHANGED <<files, counts, tampered>>

-----------------------------------------------------------------------------
(* Faults. *)

(* The process dies, or a durable step reports an error and ends it; the
   runtime directory is in memory and does not survive a reboot. *)
Interrupt ==
  /\ op # NoOp
  /\ counts.faults < MaxFaults
  /\ counts' = [counts EXCEPT !.faults = @ + 1]
  /\ Exit
  /\ status' \in {status, NoStatus}
  /\ UNCHANGED <<files, history>>

(* The operator writes the document by hand. *)
Edit ==
  /\ op = NoOp \/ At("run")
  /\ counts.edits < MaxEdits
  /\ counts' = [counts EXCEPT !.edits = @ + 1]
  /\ live' \in Revisions \ {live}
  /\ tampered' = (journal # NoJournal)
  /\ UNCHANGED <<baseFile, candFile, journal, op, daemon, status, proven>>

RecoveryStep ==
  \/ Recover \/ RecoverConflict \/ SweepBase \/ SweepCandidate
  \/ InstallCandidate \/ WritePending \/ Restore
  \/ DropBase \/ DropCandidate \/ DropJournal

CommandStep ==
  \/ SetBody \/ WriteBase \/ WriteCandidate \/ WritePrepared
  \/ CommitBody \/ WriteCommitting \/ RollbackBody \/ WriteRolling
  \/ Refuse

DaemonStep ==
  \/ LoadService \/ StartService \/ StartFails \/ MarkReady
  \/ MarkStopping \/ Degrade \/ AdminListenerFails \/ FinishClean

Next ==
  \/ Begin \/ StartUnmanaged \/ RecoveryStep \/ CommandStep
  \/ DaemonStep \/ Heartbeat \/ Interrupt \/ Edit

Spec == Init /\ [][Next]_vars

(* A command takes its next step, a daemon reaches its end, and some command
   or the service runs again: the service manager restarts a service that
   failed and the controller calls again after a failure. *)
FairSpec ==
  /\ Spec
  /\ WF_vars(Begin) /\ WF_vars(RecoveryStep) /\ WF_vars(CommandStep)
  /\ WF_vars(DaemonStep)

-----------------------------------------------------------------------------
(* Properties. *)

(* Recovery can always finish what was interrupted: the artifacts a journal
   needs are there, whichever step a command died at, and the live document
   is one of the journal's two, the candidate from the moment the install is
   acknowledged, unless the operator wrote over it during the trial. *)
RecoveryPossible ==
  /\ OnTrial => ArtifactsMatch
  /\ journal # NoJournal /\ ~tampered =>
       /\ live \in {journal.base, journal.candidate}
       /\ journal.state \in {"pending_validation", "committing"}
             => live = journal.candidate
       /\ journal.state = "rolling_back" /\ live = journal.candidate
             => baseFile = journal.base

(* An interrupted install, commit or rollback is finished by whatever runs
   next, however often that is interrupted too, or the operator has edited
   the document and recovery stops at the conflict. *)
InterruptedFinishes == Interrupted ~> (~Interrupted \/ tampered)

(* The files, with crashes anywhere, implement one register that installs,
   commits and rolls back in a step: a commit needs a proven candidate, a
   rollback restores the very document that was replaced, and a service
   runs the current document only. *)
Register == INSTANCE ConfigRegister WITH
  current <- IF journal = NoJournal THEN live
             ELSE IF journal.state = "rolling_back" THEN journal.base
             ELSE journal.candidate,
  pending <- IF OnTrial
             THEN [base |-> journal.base, candidate |-> journal.candidate]
             ELSE [base |-> NoRevision, candidate |-> NoRevision],
  running <- IF At("run") THEN daemon.revision ELSE NoRevision

RegisterSpec == Register!Spec
=============================================================================
