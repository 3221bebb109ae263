--------------------------- MODULE MediaGeneration ---------------------------
(***************************************************************************)
(* The media generation manager (server/generation.rs): one shared video   *)
(* producer, started by the first control task that acquires it, shared by *)
(* the others, and stopped when the last lease on it is released.          *)
(*                                                                         *)
(* Each action is one critical section of the state mutex, or the end of a *)
(* start or a stop, which run without it.  A waiter registers with         *)
(* state_changed while it holds the mutex; notify_waiters wakes everybody  *)
(* registered.  A lease that is dropped spawns the release, so the task    *)
(* may be back for another lease before the first one is given up.         *)
(*                                                                         *)
(* Aborting a source does not end it: the guard of a source whose start    *)
(* fails after the spawn is dropped, which aborts and does not wait, and   *)
(* the in-process pipeline runs on a blocking thread that ends only when   *)
(* it finds its receivers gone, one of which stop holds until it returns.  *)
(* Such a source is an orphan: nobody waits for it, and it still captures. *)
(***************************************************************************)
EXTENDS Naturals, FiniteSets

NoTask == ""

CONSTANTS
  Tasks,           \* control tasks that acquire generations
  MaxGenerations,  \* bound: generation ids
  MaxLeases        \* bound: leases handed out

ASSUME GenerationAssumption ==
  MaxGenerations \in Nat /\ MaxLeases \in Nat /\ NoTask \notin Tasks

VARIABLES
  lifecycle,     \* Idle, Starting, Active or Stopping
  activeGen,     \* id of the active generation's resources; 0 = None
  leases,        \* the manager's lease count
  nextGen,       \* next_generation_id
  pc,            \* per task: idle, locking, waiting, starting, leased
  target,        \* per task: the generation it starts or holds; 0 = none
  tokens,        \* leases alive, held by a task or owed to a release
  nextToken,     \* ids for tokens
  stopping,      \* generation whose stop is running; 0 = none
  producers,     \* generations whose video source may be running
  orphans        \* those of them that were aborted and are waited for by nobody

genVars == <<lifecycle, activeGen, leases, nextGen, pc, target, tokens,
             nextToken, stopping, producers, orphans>>

Move(t, where) == pc' = [pc EXCEPT ![t] = where]

\* notify_waiters, for a step that moves task t.
Woken(t, where) ==
  pc' = [u \in Tasks |-> IF u = t THEN where
                         ELSE IF pc[u] = "waiting" THEN "locking" ELSE pc[u]]

\* The source of gen is given up: it has ended, or it is left to itself.
Abandon(gen) ==
  \/ producers' = producers \ {gen} /\ UNCHANGED orphans
  \/ orphans' = orphans \cup {gen} /\ UNCHANGED producers

NewToken(t, gen) ==
  /\ nextToken' = nextToken + 1
  /\ tokens' = tokens \cup {[id |-> nextToken + 1, task |-> t, gen |-> gen]}

-----------------------------------------------------------------------------
\* acquire, whose loop takes the mutex once per iteration.

Acquire(t) ==
  /\ pc[t] = "idle"
  /\ nextToken < MaxLeases /\ nextGen < MaxGenerations
  /\ Move(t, "locking")
  /\ UNCHANGED <<lifecycle, activeGen, leases, nextGen, target, tokens,
                 nextToken, stopping, producers, orphans>>

\* Mutant of AcquireActive: the lease is not counted.
AcquireUncounted(t) ==
  /\ pc[t] = "locking" /\ lifecycle = "Active"
  /\ NewToken(t, activeGen)
  /\ target' = [target EXCEPT ![t] = activeGen]
  /\ Move(t, "leased")
  /\ UNCHANGED <<lifecycle, activeGen, leases, nextGen, stopping, producers, orphans>>

AcquireActive(t) ==
  /\ pc[t] = "locking" /\ lifecycle = "Active"
  /\ leases' = leases + 1
  /\ NewToken(t, activeGen)
  /\ target' = [target EXCEPT ![t] = activeGen]
  /\ Move(t, "leased")
  /\ UNCHANGED <<lifecycle, activeGen, nextGen, stopping, producers, orphans>>

AcquireIdle(t) ==
  /\ pc[t] = "locking" /\ lifecycle = "Idle"
  /\ lifecycle' = "Starting"
  /\ nextGen' = nextGen + 1
  /\ target' = [target EXCEPT ![t] = nextGen + 1]
  /\ producers' = producers \cup {nextGen + 1}
  /\ Move(t, "starting")
  /\ UNCHANGED <<activeGen, leases, tokens, nextToken, stopping, orphans>>

AcquireWait(t) ==
  /\ pc[t] = "locking" /\ lifecycle \in {"Starting", "Stopping"}
  /\ Move(t, "waiting")
  /\ UNCHANGED <<lifecycle, activeGen, leases, nextGen, target, tokens,
                 nextToken, stopping, producers, orphans>>

StartSucceeds(t) ==
  /\ pc[t] = "starting"
  /\ activeGen' = target[t]
  /\ leases' = 1
  /\ lifecycle' = "Active"
  /\ NewToken(t, target[t])
  /\ Woken(t, "leased")
  /\ UNCHANGED <<nextGen, target, stopping, producers, orphans>>

\* Mutant of StartFails: nobody is notified.
StartFailsSilently(t) ==
  /\ pc[t] = "starting"
  /\ Abandon(target[t])
  /\ lifecycle' = "Idle"
  /\ target' = [target EXCEPT ![t] = 0]
  /\ Move(t, "idle")
  /\ UNCHANGED <<activeGen, leases, nextGen, tokens, nextToken, stopping>>

\* Nothing was spawned, or the audio source failed and the video source was
\* reaped, or a later error only dropped the guard of the video source.
StartFails(t) ==
  /\ pc[t] = "starting"
  /\ Abandon(target[t])
  /\ lifecycle' = "Idle"
  /\ target' = [target EXCEPT ![t] = 0]
  /\ Woken(t, "idle")
  /\ UNCHANGED <<activeGen, leases, nextGen, tokens, nextToken, stopping>>

-----------------------------------------------------------------------------
\* Leases.

\* The task releases its lease, or drops it; the release itself comes later.
DropLease(x) ==
  /\ x \in tokens /\ x.task # NoTask
  /\ tokens' = (tokens \ {x}) \cup {[x EXCEPT !.task = NoTask]}
  /\ target' = [target EXCEPT ![x.task] = 0]
  /\ Move(x.task, "idle")
  /\ UNCHANGED <<lifecycle, activeGen, leases, nextGen, nextToken, stopping,
                 producers, orphans>>

\* Mutant of Release: the stopping generation is still the active one.
ReleaseKeepsActive(x) ==
  /\ x \in tokens /\ x.task = NoTask
  /\ tokens' = tokens \ {x}
  /\ leases' = IF leases = 0 THEN 0 ELSE leases - 1
  /\ IF leases' # 0
     THEN UNCHANGED <<lifecycle, stopping>>
     ELSE lifecycle' = "Stopping" /\ stopping' = activeGen
  /\ UNCHANGED <<activeGen, nextGen, pc, target, nextToken, producers, orphans>>

\* Mutant of Release: the manager is idle while the generation still stops.
ReleaseSkipsStopping(x) ==
  /\ x \in tokens /\ x.task = NoTask
  /\ tokens' = tokens \ {x}
  /\ leases' = IF leases = 0 THEN 0 ELSE leases - 1
  /\ IF leases' # 0
     THEN UNCHANGED <<lifecycle, activeGen, stopping>>
     ELSE lifecycle' = "Idle" /\ stopping' = activeGen /\ activeGen' = 0
  /\ UNCHANGED <<nextGen, pc, target, nextToken, producers, orphans>>

\* release: ignored for a generation that is not the active one.
Release(x) ==
  /\ x \in tokens /\ x.task = NoTask
  /\ tokens' = tokens \ {x}
  /\ IF lifecycle # "Active" \/ activeGen # x.gen
     THEN UNCHANGED <<lifecycle, activeGen, leases, stopping>>
     ELSE /\ leases' = IF leases = 0 THEN 0 ELSE leases - 1
          /\ IF leases' # 0
             THEN UNCHANGED <<lifecycle, activeGen, stopping>>
             ELSE /\ lifecycle' = "Stopping"
                  /\ stopping' = activeGen
                  /\ activeGen' = 0
  /\ UNCHANGED <<nextGen, pc, target, nextToken, producers, orphans>>

\* Mutant of StopDone: nobody is notified.
StopDoneSilently ==
  /\ stopping # 0
  /\ Abandon(stopping)
  /\ stopping' = 0
  /\ lifecycle' = "Idle"
  /\ UNCHANGED <<activeGen, leases, nextGen, pc, target, tokens, nextToken>>

\* stop has waited for the publishers, and for the source as long as its grace
\* time; a pipeline that waits for the last receiver is still there.
StopDone ==
  /\ stopping # 0
  /\ Abandon(stopping)
  /\ stopping' = 0
  /\ lifecycle' = "Idle"
  /\ Woken(NoTask, "idle")
  /\ UNCHANGED <<activeGen, leases, nextGen, target, tokens, nextToken>>

\* An aborted source ends by itself: its child is killed, or its pipeline finds
\* both receivers closed.
OrphanEnds(gen) ==
  /\ gen \in orphans
  /\ producers' = producers \ {gen}
  /\ orphans' = orphans \ {gen}
  /\ UNCHANGED <<lifecycle, activeGen, leases, nextGen, pc, target, tokens,
                 nextToken, stopping>>

-----------------------------------------------------------------------------
GenInit ==
  /\ lifecycle = "Idle" /\ activeGen = 0 /\ leases = 0 /\ nextGen = 0
  /\ pc = [t \in Tasks |-> "idle"]
  /\ target = [t \in Tasks |-> 0]
  /\ tokens = {} /\ nextToken = 0
  /\ stopping = 0 /\ producers = {} /\ orphans = {}

TaskStep(t) ==
  \/ AcquireActive(t) \/ AcquireIdle(t) \/ AcquireWait(t)
  \/ StartSucceeds(t) \/ StartFails(t)

GenNext ==
  \/ \E t \in Tasks : Acquire(t) \/ TaskStep(t)
  \/ \E x \in tokens : DropLease(x) \/ Release(x)
  \/ StopDone
  \/ \E gen \in orphans : OrphanEnds(gen)

GenSpec == GenInit /\ [][GenNext]_genVars

\* Starts and stops have timeouts, and a task that can run is run.  A viewer
\* may keep its lease for as long as it likes.
FairGenSpec ==
  /\ GenSpec
  /\ \A t \in Tasks : WF_genVars(TaskStep(t))
  /\ WF_genVars(\E x \in tokens : Release(x))
  /\ WF_genVars(StopDone)

-----------------------------------------------------------------------------
Tokens == [id : Nat, task : Tasks \cup {NoTask}, gen : Nat]
GenTypeOK ==
  /\ lifecycle \in {"Idle", "Starting", "Active", "Stopping"}
  /\ activeGen \in Nat /\ leases \in Nat /\ nextGen \in Nat
  /\ pc \in [Tasks -> {"idle", "locking", "waiting", "starting", "leased"}]
  /\ target \in [Tasks -> Nat]
  /\ tokens \subseteq Tokens /\ nextToken \in Nat
  /\ stopping \in Nat /\ producers \subseteq Nat /\ orphans \subseteq producers
  /\ lifecycle = "Active" <=> activeGen # 0
  /\ lifecycle = "Stopping" <=> stopping # 0

\* Whatever tasks race to start or stop it, at most one source is not already on
\* its way out, and none is while nobody is responsible for a generation.  That
\* one source captures at a time does not hold: a start that follows a failed
\* start or a stop can meet the previous source.
OneLiveProducer ==
  /\ \A g, h \in producers \ orphans : g = h
  /\ lifecycle = "Idle" => producers = orphans

\* The generation of a lease is the active one, its source has not been given
\* up, and the count is exactly the leases alive: it is not stopped under a viewer that
\* still holds it, nor kept for one that has let go.
LeaseHoldsGeneration ==
  /\ \A x \in tokens : lifecycle = "Active" /\ x.gen = activeGen
                             /\ x.gen \in producers \ orphans
  /\ lifecycle = "Active" => leases = Cardinality(tokens) /\ leases # 0

\* No wakeup is lost: a task waits only while a start or a stop is under way
\* whose end will notify it.
WaiterHasWaker ==
  \A t \in Tasks : pc[t] = "waiting" =>
    \/ lifecycle = "Starting" /\ \E u \in Tasks : pc[u] = "starting"
    \/ lifecycle = "Stopping" /\ stopping # 0

\* A task that waits for a start or a stop gets to look again.
WaiterWakes == \A t \in Tasks : pc[t] = "waiting" ~> pc[t] # "waiting"
==============================================================================
