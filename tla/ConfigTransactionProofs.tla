---------------------- MODULE ConfigTransactionProofs ----------------------
(***************************************************************************)
(* Proofs about ConfigTransaction: whatever the bounds, recovery can       *)
(* always finish what was interrupted, and the files implement             *)
(* ConfigRegister.  The inductive invariant says, for each stage of a      *)
(* command, what the files and the journal look like there.                *)
(***************************************************************************)
EXTENDS ConfigTransaction, TLAPS

MaybeRevision == Revisions \cup {NoRevision}
Journals == [state : States \cup {"none"}, id : Nat, base : MaybeRevision,
             candidate : MaybeRevision, baseline : Nat]
Ops == [kind : Kinds, at : Stages, tx : Nat, base : MaybeRevision,
        candidate : MaybeRevision, baseline : Nat]
Daemons == [instance : Nat, revision : MaybeRevision, phase : Phases,
            reachedReady : BOOLEAN, failed : BOOLEAN]
Counts == [transactions : Nat, instances : Nat, faults : Nat, edits : Nat]

ConfigTypeOK ==
  /\ live \in Revisions
  /\ baseFile \in MaybeRevision /\ candFile \in MaybeRevision
  /\ journal \in Journals
  /\ op \in Ops
  /\ daemon \in Daemons /\ status \in Daemons
  /\ counts \in Counts
  /\ proven \in BOOLEAN /\ tampered \in BOOLEAN

(* A journal is whole: both its revisions are documents, and they differ. *)
JournalWhole ==
  \/ journal = NoJournal /\ ~tampered
  \/ /\ journal.state \in States
     /\ journal.base \in Revisions /\ journal.candidate \in Revisions
     /\ journal.base # journal.candidate

(* What holds at each stage of the holder of the lock. *)
SetStages ==
  /\ op.at \in {"sweep_base", "sweep_candidate", "write_base",
                "write_candidate", "write_prepared"} => journal = NoJournal
  /\ op.at \in {"write_base", "write_candidate", "write_prepared"} =>
       /\ op.base = live
       /\ op.candidate \in Revisions \ {live}
       /\ op.baseline = status.instance
  /\ op.at \in {"write_candidate", "write_prepared"} => baseFile = op.base
  /\ op.at = "write_prepared" => candFile = op.candidate

InstallStages ==
  /\ op.at = "install" => journal.state = "prepared" /\ live = journal.base
  /\ op.at = "write_pending" =>
       journal.state = "prepared" /\ live = journal.candidate
  /\ op.at = "body" =>
       \/ journal = NoJournal
       \/ journal.state = "pending_validation" /\ live = journal.candidate

EndStages ==
  /\ op.at \in {"write_committing", "write_rolling"} =>
       journal.state = "pending_validation" /\ live = journal.candidate
  /\ op.at = "write_committing" => proven
  /\ op.at = "restore" =>
       journal.state = "rolling_back" /\ baseFile = journal.base
  /\ op.at \in {"drop_base", "drop_candidate", "drop_journal"} =>
       \/ journal.state = "committing" /\ live = journal.candidate
       \/ journal.state = "rolling_back" /\ live = journal.base

RunStage ==
  op.at = "run" =>
    \/ daemon.revision = NoRevision
    \/ /\ daemon.revision \in Revisions
       /\ \/ journal = NoJournal
          \/ /\ journal.state = "pending_validation"
             /\ daemon.revision = journal.candidate

EvidenceIsProof == OnTrial /\ Evidence => proven

ConfigInv ==
  /\ ConfigTypeOK
  /\ JournalWhole
  /\ SetStages
  /\ InstallStages
  /\ EndStages
  /\ RunStage
  /\ EvidenceIsProof
  /\ RecoveryPossible

-----------------------------------------------------------------------------
(* The literal records have their types. *)
LEMMA NoneTyped ==
  /\ NoOp \in Ops /\ NoJournal \in Journals /\ NoDaemon \in Daemons
  /\ NoOp.kind = "none" /\ NoOp.at = "free" /\ NoJournal.state = "none"
  /\ NoDaemon.phase = "prepared" /\ NoDaemon.revision = NoRevision
BY DEF NoOp, Holder, NoJournal, NoDaemon, NewDaemon, Ops, Journals, Daemons,
       Kinds, Stages, States, Phases, MaybeRevision
-----------------------------------------------------------------------------
(* A daemon updated in two fields is a daemon. *)
LEMMA DaemonUpdate ==
  ASSUME NEW d \in Daemons, NEW phase \in Phases, NEW flag \in BOOLEAN
  PROVE  /\ [d EXCEPT !.phase = phase, !.reachedReady = flag]
              = [instance |-> d.instance, revision |-> d.revision,
                 phase |-> phase, reachedReady |-> flag, failed |-> d.failed]
         /\ [d EXCEPT !.phase = phase, !.failed = flag]
              = [instance |-> d.instance, revision |-> d.revision,
                 phase |-> phase, reachedReady |-> d.reachedReady,
                 failed |-> flag]
<1> DEFINE e == [d EXCEPT !.phase = phase]
<1>1. e = [instance |-> d.instance, revision |-> d.revision, phase |-> phase,
           reachedReady |-> d.reachedReady, failed |-> d.failed]
  BY DEF Daemons
<1> HIDE DEF e
<1>2. [e EXCEPT !.reachedReady = flag]
       = [instance |-> d.instance, revision |-> d.revision,
          phase |-> phase, reachedReady |-> flag, failed |-> d.failed]
  BY <1>1
<1>3. [e EXCEPT !.failed = flag]
       = [instance |-> d.instance, revision |-> d.revision,
          phase |-> phase, reachedReady |-> d.reachedReady, failed |-> flag]
  BY <1>1
<1> QED
  BY <1>2, <1>3 DEF e

(* Every variable keeps to its type. *)
LEMMA ConfigTypeStep ==
  ASSUME ConfigInv, [Next]_vars
  PROVE  ConfigTypeOK'
<1> USE NoneTyped
    DEF ConfigInv, ConfigTypeOK, MaybeRevision, Journals, Ops, Daemons, Counts,
        Kinds, Stages, States, Phases, files, history, At, GoTo, Done
<1>1. CASE Begin
  BY <1>1 DEF Begin, Holder
<1>2. CASE StartUnmanaged
  BY <1>2 DEF StartUnmanaged, StartPublisher, NewDaemon, Holder
<1>3. CASE Recover
  BY <1>3 DEF Recover, RestoreOrClean, OnTrial, ArtifactsMatch
<1>4. CASE RecoverConflict
  BY <1>4 DEF RecoverConflict
<1>5. CASE SweepBase
  BY <1>5 DEF SweepBase
<1>6. CASE SweepCandidate
  BY <1>6 DEF SweepCandidate
<1>7. CASE InstallCandidate
  BY <1>7 DEF InstallCandidate, InstallStages, JournalWhole
<1>8. CASE WritePending
  BY <1>8 DEF WritePending
<1>9. CASE Restore
  BY <1>9 DEF Restore, EndStages, JournalWhole
<1>10. CASE DropBase
  BY <1>10 DEF DropBase
<1>11. CASE DropCandidate
  BY <1>11 DEF DropCandidate
<1>12. CASE DropJournal
  <2>1. [op EXCEPT !.at = "body"] \in Ops
    OBVIOUS
  <2>2. op' \in {[op EXCEPT !.at = "body"], NoOp}
    BY <1>12 DEF DropJournal
  <2>3. /\ journal' = NoJournal /\ tampered' = FALSE
        /\ UNCHANGED <<live, baseFile, candFile, daemon, status, counts, proven>>
    BY <1>12 DEF DropJournal
  <2> HIDE DEF Journals, Counts, Ops, Daemons
  <2> QED
    BY <2>1, <2>2, <2>3
<1>13. CASE SetBody
  BY <1>13 DEF SetBody
<1>14. CASE WriteBase
  BY <1>14 DEF WriteBase
<1>15. CASE WriteCandidate
  BY <1>15 DEF WriteCandidate
<1>16. CASE WritePrepared
  <2> DEFINE next == [state |-> "prepared", id |-> counts.transactions + 1,
                      base |-> op.base, candidate |-> op.candidate,
                      baseline |-> op.baseline]
  <2>1. next \in Journals
    OBVIOUS
  <2>2. [counts EXCEPT !.transactions = @ + 1] \in Counts
    OBVIOUS
  <2>3. [op EXCEPT !.at = "install"] \in Ops
    OBVIOUS
  <2>4. /\ journal' = next
        /\ counts' = [counts EXCEPT !.transactions = @ + 1]
        /\ op' = [op EXCEPT !.at = "install"]
        /\ proven' = FALSE
        /\ UNCHANGED <<live, baseFile, candFile, daemon, status, tampered>>
    BY <1>16 DEF WritePrepared
  <2> HIDE DEF next, Journals, Counts, Ops, Daemons
  <2> QED
    BY <2>1, <2>2, <2>3, <2>4
<1>17. CASE CommitBody
  BY <1>17 DEF CommitBody
<1>18. CASE WriteCommitting
  BY <1>18 DEF WriteCommitting
<1>19. CASE RollbackBody
  BY <1>19 DEF RollbackBody
<1>20. CASE WriteRolling
  BY <1>20 DEF WriteRolling
<1>21. CASE Refuse
  BY <1>21 DEF Refuse
<1>22. CASE LoadService
  BY <1>22 DEF LoadService, NewDaemon, Running
<1>23. CASE StartService
  BY <1>23 DEF StartService, StartPublisher, NewDaemon, Running
<1>24. CASE StartFails
  BY <1>24 DEF StartFails, Running, Exit
<1>25. CASE MarkReady
  <2>1. [daemon EXCEPT !.phase = "ready", !.reachedReady = TRUE] \in Daemons
    BY DaemonUpdate
  <2> QED
    BY <1>25, <2>1 DEF MarkReady, Publish
<1>26. CASE MarkStopping
  BY <1>26 DEF MarkStopping, Running, Publish
<1>27. CASE Degrade
  <2>1. [daemon EXCEPT !.phase = "degraded", !.failed = TRUE] \in Daemons
    BY DaemonUpdate
  <2> QED
    BY <1>27, <2>1 DEF Degrade, Publish, Exit
<1>28. CASE AdminListenerFails
  BY <1>28 DEF AdminListenerFails, Running, Exit
<1>29. CASE FinishClean
  BY <1>29 DEF FinishClean, Running, Publish, Exit, OnTrial
<1>30. CASE Heartbeat
  BY <1>30 DEF Heartbeat, Running
<1>31. CASE Interrupt
  BY <1>31 DEF Interrupt, Exit, NoStatus
<1>32. CASE Edit
  BY <1>32 DEF Edit
<1>33. CASE UNCHANGED vars
  BY <1>33 DEF vars
<1> QED
  BY <1>1, <1>2, <1>3, <1>4, <1>5, <1>6, <1>7, <1>8, <1>9, <1>10, <1>11,
     <1>12, <1>13, <1>14, <1>15, <1>16, <1>17, <1>18, <1>19, <1>20, <1>21,
     <1>22, <1>23, <1>24, <1>25, <1>26, <1>27, <1>28, <1>29, <1>30, <1>31,
     <1>32, <1>33
     DEF Next, RecoveryStep, CommandStep, DaemonStep


-----------------------------------------------------------------------------
(* Every step keeps the stages, the evidence and the promise. *)
LEMMA ConfigInvStep ==
  ASSUME ConfigInv, [Next]_vars
  PROVE  ConfigInv'
<1>1. ConfigTypeOK'
  BY ConfigTypeStep
<1> SUFFICES /\ JournalWhole' /\ SetStages' /\ InstallStages' /\ EndStages'
             /\ RunStage' /\ EvidenceIsProof' /\ RecoveryPossible'
  BY <1>1 DEF ConfigInv
<1> USE NoneTyped, NoRevisionIsNone
    DEF ConfigInv, JournalWhole, SetStages, InstallStages, EndStages, RunStage,
        EvidenceIsProof, RecoveryPossible, OnTrial, ArtifactsMatch, Evidence,
        ConfigTypeOK, Ops, Journals, Daemons, Counts, States, MaybeRevision,
        files, history, At, GoTo, Done
<1>2. CASE Begin
  BY <1>1, <1>2 DEF Begin, Holder
<1>3. CASE StartUnmanaged
  BY <1>1, <1>3 DEF StartUnmanaged, StartPublisher, NewDaemon, Holder
<1>4. CASE Recover
  BY <1>1, <1>4 DEF Recover, RestoreOrClean
<1>5. CASE RecoverConflict
  BY <1>1, <1>5 DEF RecoverConflict
<1>6. CASE SweepBase
  BY <1>1, <1>6 DEF SweepBase
<1>7. CASE SweepCandidate
  BY <1>1, <1>7 DEF SweepCandidate
<1>8. CASE InstallCandidate
  BY <1>1, <1>8 DEF InstallCandidate
<1>9. CASE WritePending
  BY <1>1, <1>9 DEF WritePending
<1>10. CASE Restore
  BY <1>1, <1>10 DEF Restore
<1>11. CASE DropBase
  BY <1>1, <1>11 DEF DropBase
<1>12. CASE DropCandidate
  BY <1>1, <1>12 DEF DropCandidate
<1>13. CASE DropJournal
  BY <1>1, <1>13 DEF DropJournal
<1>14. CASE SetBody
  BY <1>1, <1>14 DEF SetBody
<1>15. CASE WriteBase
  BY <1>1, <1>15 DEF WriteBase
<1>16. CASE WriteCandidate
  BY <1>1, <1>16 DEF WriteCandidate
<1>17. CASE WritePrepared
  BY <1>1, <1>17 DEF WritePrepared
<1>18. CASE CommitBody
  BY <1>1, <1>18 DEF CommitBody
<1>19. CASE WriteCommitting
  BY <1>1, <1>19 DEF WriteCommitting
<1>20. CASE RollbackBody
  BY <1>1, <1>20 DEF RollbackBody
<1>21. CASE WriteRolling
  BY <1>1, <1>21 DEF WriteRolling
<1>22. CASE Refuse
  BY <1>1, <1>22 DEF Refuse
<1>23. CASE LoadService
  BY <1>1, <1>23 DEF LoadService, NewDaemon, Running
<1>24. CASE StartService
  BY <1>1, <1>24 DEF StartService, StartPublisher, NewDaemon, Running
<1>25. CASE StartFails
  BY <1>1, <1>25 DEF StartFails, Running, Exit
<1>26. CASE MarkReady
  BY <1>1, <1>26 DEF MarkReady, Running, Publish
<1>27. CASE MarkStopping
  BY <1>1, <1>27 DEF MarkStopping, Running, Publish
<1>28. CASE Degrade
  BY <1>1, <1>28 DEF Degrade, Running, Publish, Exit
<1>29. CASE AdminListenerFails
  BY <1>1, <1>29 DEF AdminListenerFails, Running, Exit
<1>30. CASE FinishClean
  BY <1>1, <1>30 DEF FinishClean, Running, Publish, Exit
<1>31. CASE Heartbeat
  BY <1>1, <1>31 DEF Heartbeat, Running
<1>32. CASE Interrupt
  BY <1>1, <1>32 DEF Interrupt, Exit, NoStatus
<1>33. CASE Edit
  BY <1>1, <1>33 DEF Edit
<1>34. CASE UNCHANGED vars
  BY <1>34 DEF vars
<1> QED
  BY <1>2, <1>3, <1>4, <1>5, <1>6, <1>7, <1>8, <1>9, <1>10, <1>11, <1>12,
     <1>13, <1>14, <1>15, <1>16, <1>17, <1>18, <1>19, <1>20, <1>21, <1>22,
     <1>23, <1>24, <1>25, <1>26, <1>27, <1>28, <1>29, <1>30, <1>31, <1>32,
     <1>33, <1>34
     DEF Next, RecoveryStep, CommandStep, DaemonStep


(* Type correctness and the stages, for every value of the bounds. *)
THEOREM ConfigInvariant == Spec => []ConfigInv
<1>1. Init => ConfigInv
  <2> SUFFICES ASSUME Init PROVE ConfigInv
    OBVIOUS
  <2>1. ConfigTypeOK
    BY NoneTyped DEF Init, NoStatus, ConfigTypeOK, MaybeRevision, Counts
  <2> QED
    BY <2>1, NoneTyped, NoRevisionIsNone
       DEF Init, ConfigInv, JournalWhole, SetStages, InstallStages, EndStages,
           RunStage, EvidenceIsProof, RecoveryPossible, OnTrial
<1>2. ConfigInv /\ [Next]_vars => ConfigInv'
  BY ConfigInvStep
<1> QED
  BY <1>1, <1>2, PTL DEF Spec

(* Whatever step a command, a recovery or a daemon was killed at, and however
   often, the files allow the next recovery to finish; an edit by the
   operator during a trial is the only thing that can stop it. *)
THEOREM RecoveryAlwaysPossible == Spec => []RecoveryPossible
<1>1. ConfigInv => RecoveryPossible
  BY DEF ConfigInv
<1> QED
  BY <1>1, ConfigInvariant, PTL

-----------------------------------------------------------------------------
(* The refinement: what each step does to the register. *)
LEMMA RegisterStep ==
  ASSUME ConfigInv, ConfigInv', [Next]_vars
  PROVE  [Register!Next]_(Register!registerVars)
<1> USE NoneTyped, NoRevisionIsNone
    DEF ConfigInv, JournalWhole, SetStages, InstallStages, EndStages, RunStage,
        OnTrial, ConfigTypeOK, Ops, Journals, Daemons, States, MaybeRevision,
        files, history, At, GoTo, Done, Register!registerVars
<1>1. CASE Begin
  BY <1>1 DEF Begin, Holder
<1>2. CASE StartUnmanaged
  BY <1>2 DEF StartUnmanaged, StartPublisher, NewDaemon, Holder
<1>3. CASE Recover
  BY <1>3 DEF Recover, RestoreOrClean, ArtifactsMatch
<1>4. CASE RecoverConflict
  BY <1>4 DEF RecoverConflict
<1>5. CASE SweepBase
  BY <1>5 DEF SweepBase
<1>6. CASE SweepCandidate
  BY <1>6 DEF SweepCandidate
<1>7. CASE InstallCandidate
  BY <1>7 DEF InstallCandidate
<1>8. CASE WritePending
  BY <1>8 DEF WritePending
<1>9. CASE Restore
  BY <1>9 DEF Restore
<1>10. CASE DropBase
  BY <1>10 DEF DropBase
<1>11. CASE DropCandidate
  BY <1>11 DEF DropCandidate
<1>12. CASE DropJournal
  BY <1>12 DEF DropJournal
<1>13. CASE SetBody
  BY <1>13 DEF SetBody
<1>14. CASE WriteBase
  BY <1>14 DEF WriteBase
<1>15. CASE WriteCandidate
  BY <1>15 DEF WriteCandidate
<1>16. CASE WritePrepared
  BY <1>16 DEF WritePrepared,
         Register!Next, Register!Install, Register!NoTransaction
<1>17. CASE CommitBody
  BY <1>17 DEF CommitBody
<1>18. CASE WriteCommitting
  BY <1>18 DEF WriteCommitting,
         Register!Next, Register!Commit, Register!NoTransaction
<1>19. CASE RollbackBody
  BY <1>19 DEF RollbackBody
<1>20. CASE WriteRolling
  BY <1>20 DEF WriteRolling,
         Register!Next, Register!Rollback, Register!NoTransaction
<1>21. CASE Refuse
  BY <1>21 DEF Refuse
<1>22. CASE LoadService
  BY <1>22 DEF LoadService, NewDaemon, Running,
         Register!Next, Register!Start, Register!NoTransaction
<1>23. CASE StartService
  BY <1>23 DEF StartService, StartPublisher, NewDaemon, Running
<1>24. CASE StartFails
  BY <1>24 DEF StartFails, Running, Exit,
         Register!Next, Register!Stop, Register!NoTransaction
<1>25. CASE MarkReady
  BY <1>25 DEF MarkReady, Running, Publish
<1>26. CASE MarkStopping
  BY <1>26 DEF MarkStopping, Running, Publish
<1>27. CASE Degrade
  BY <1>27 DEF Degrade, Running, Publish, Exit,
         Register!Next, Register!Stop, Register!NoTransaction
<1>28. CASE AdminListenerFails
  BY <1>28 DEF AdminListenerFails, Running, Exit,
         Register!Next, Register!Stop, Register!NoTransaction
<1>29. CASE FinishClean
  BY <1>29 DEF FinishClean, Running, Publish, Exit,
         Register!Next, Register!Stop, Register!NoTransaction
<1>30. CASE Heartbeat
  BY <1>30 DEF Heartbeat, Running
<1>31. CASE Interrupt
  BY <1>31 DEF Interrupt, Exit, NoStatus,
         Register!Next, Register!Stop, Register!NoTransaction
<1>32. CASE Edit
  BY <1>32 DEF Edit,
         Register!Next, Register!Edit, Register!NoTransaction
<1>33. CASE UNCHANGED vars
  BY <1>33 DEF vars
<1> QED
  BY <1>1, <1>2, <1>3, <1>4, <1>5, <1>6, <1>7, <1>8, <1>9, <1>10, <1>11,
     <1>12, <1>13, <1>14, <1>15, <1>16, <1>17, <1>18, <1>19, <1>20, <1>21,
     <1>22, <1>23, <1>24, <1>25, <1>26, <1>27, <1>28, <1>29, <1>30, <1>31,
     <1>32, <1>33
     DEF Next, RecoveryStep, CommandStep, DaemonStep

(* The files and their crashes implement the register, for every value of
   the bounds: no commit without a proven candidate, no rollback to anything
   but the replaced document, no service with a document that is not
   current. *)
THEOREM ImplementsRegister == Spec => RegisterSpec
<1>1. Init => Register!Init
  BY NoneTyped DEF Init, Register!Init, Register!NoTransaction, OnTrial, At
<1>2. ConfigInv /\ ConfigInv' /\ [Next]_vars
        => [Register!Next]_(Register!registerVars)
  BY RegisterStep
<1> QED
  BY <1>1, <1>2, ConfigInvariant, PTL DEF Spec, RegisterSpec, Register!Spec

=============================================================================
