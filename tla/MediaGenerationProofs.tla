----------------------- MODULE MediaGenerationProofs -----------------------
(***************************************************************************)
(* Theorems about MediaGeneration, for every set of tasks and every bound. *)
(***************************************************************************)
EXTENDS MediaGeneration, FiniteSetTheorems, TLAPS

----------------------------------------------------------------------------
\* The inductive invariant.

\* The sources that nobody has given up are those of the one generation the
\* lifecycle is about, and exactly one task is starting it while it starts.
SourcesFollowLifecycle ==
  /\ lifecycle = "Idle" => producers = orphans
  /\ lifecycle = "Active" => producers \ orphans = {activeGen}
  /\ lifecycle = "Stopping" => producers \ orphans = {stopping}
  /\ lifecycle = "Starting" =>
       \E t \in Tasks : pc[t] = "starting" /\ producers \ orphans = {target[t]}
  /\ \A t \in Tasks : pc[t] = "starting" => lifecycle = "Starting" /\ target[t] # 0
  /\ \A t, u \in Tasks : pc[t] = "starting" /\ pc[u] = "starting" => t = u

\* A source given up keeps its generation id, so that no later one has it.
SourceIdsUsed == \A g \in producers : g \leq nextGen

\* Every lease is on the active generation and is counted once.
TokensCounted ==
  /\ IsFiniteSet(tokens)
  /\ \A x \in tokens : lifecycle = "Active" /\ x.gen = activeGen /\ x.id \leq nextToken
  /\ \A x, y \in tokens : x.id = y.id => x = y
  /\ lifecycle = "Active" => leases = Cardinality(tokens) /\ leases # 0

\* A task that holds a lease holds one, and is doing nothing else.
HoldersLeased ==
  /\ \A x \in tokens : x.task # NoTask => pc[x.task] = "leased"
  /\ \A x, y \in tokens : x.task = y.task /\ x.task # NoTask => x = y

WaitersWait == \A t \in Tasks : pc[t] = "waiting" => lifecycle \in {"Starting", "Stopping"}

GenInv ==
  /\ GenTypeOK /\ SourcesFollowLifecycle /\ SourceIdsUsed
  /\ TokensCounted /\ HoldersLeased /\ WaitersWait

----------------------------------------------------------------------------
LEMMA InitGen == GenInit => GenInv
BY FS_EmptySet DEF GenInit, GenInv, GenTypeOK, SourcesFollowLifecycle, SourceIdsUsed,
                   TokensCounted, HoldersLeased, WaitersWait

\* notify_waiters moves waiters and nobody else.
LEMMA WokenMoves ==
  ASSUME GenInv, NEW t, NEW where \in {"idle", "leased"}, Woken(t, where)
  PROVE  /\ pc' \in [Tasks -> {"idle", "locking", "waiting", "starting", "leased"}]
         /\ t \in Tasks => pc'[t] = where
         /\ \A u \in Tasks : u # t =>
              /\ pc'[u] # "waiting"
              /\ pc[u] # "waiting" => pc'[u] = pc[u]
              /\ pc'[u] = "starting" <=> pc[u] = "starting"
BY DEF GenInv, GenTypeOK, Woken

\* A step by one task that is not starting and does not start.
LEMMA TaskMoves ==
  ASSUME GenInv, NEW t \in Tasks, NEW where \in {"idle", "locking", "waiting", "starting", "leased"},
         Move(t, where)
  PROVE  /\ pc' \in [Tasks -> {"idle", "locking", "waiting", "starting", "leased"}]
         /\ pc'[t] = where
         /\ \A u \in Tasks : u # t => pc'[u] = pc[u]
BY DEF GenInv, GenTypeOK, Move

LEMMA AcquireInv ==
  ASSUME GenInv, NEW t \in Tasks, Acquire(t) \/ AcquireWait(t)
  PROVE  GenInv'
<1>1. PICK where \in {"locking", "waiting"} :
        /\ Move(t, where)
        /\ where = "waiting" => lifecycle \in {"Starting", "Stopping"}
        /\ pc[t] \in {"idle", "locking"}
  BY DEF Acquire, AcquireWait
<1>2. /\ pc' \in [Tasks -> {"idle", "locking", "waiting", "starting", "leased"}]
      /\ pc'[t] = where
      /\ \A u \in Tasks : u # t => pc'[u] = pc[u]
  BY <1>1, TaskMoves
<1>3. UNCHANGED <<lifecycle, activeGen, leases, nextGen, target, tokens, nextToken,
                 stopping, producers, orphans>>
  BY DEF Acquire, AcquireWait
<1>4. GenTypeOK' BY <1>2, <1>3 DEF GenInv, GenTypeOK
<1>5. SourcesFollowLifecycle'
  BY <1>1, <1>2, <1>3 DEF GenInv, SourcesFollowLifecycle
<1>6. TokensCounted' BY <1>3 DEF GenInv, TokensCounted
<1>7. HoldersLeased'
  <2>1. \A x \in tokens : x.task \in Tasks \cup {NoTask}
    BY DEF GenInv, GenTypeOK, Tokens
  <2> QED BY <1>1, <1>2, <1>3, <2>1 DEF GenInv, HoldersLeased
<1>8. WaitersWait' BY <1>1, <1>2, <1>3 DEF GenInv, WaitersWait
<1>20. SourceIdsUsed' BY <1>3 DEF GenInv, SourceIdsUsed
<1> QED BY <1>4, <1>5, <1>6, <1>7, <1>8, <1>20 DEF GenInv

\* A new lease: its id is new, and its task held none.
LEMMA NewTokenCounted ==
  ASSUME GenInv, NEW t \in Tasks, NEW gen \in Nat, pc[t] # "leased", NewToken(t, gen)
  PROVE  /\ tokens' \subseteq Tokens /\ nextToken' \in Nat
         /\ IsFiniteSet(tokens') /\ Cardinality(tokens') = Cardinality(tokens) + 1
         /\ \A x \in tokens' : x.id \leq nextToken'
         /\ \A x \in tokens' : x \notin tokens => x.gen = gen /\ x.task = t
         /\ \A x, y \in tokens' : x.id = y.id => x = y
         /\ \A x, y \in tokens' : x.task = y.task /\ x.task # NoTask => x = y
<1> DEFINE n == [id |-> nextToken + 1, task |-> t, gen |-> gen]
<1>1. nextToken \in Nat /\ n \in Tokens /\ \A x \in tokens : x.id \in Nat /\ x.id \leq nextToken
  BY DEF GenInv, GenTypeOK, TokensCounted, Tokens
<1>2. n.id = nextToken + 1 /\ n.task = t /\ n.gen = gen OBVIOUS
<1>3. tokens' = tokens \cup {n} /\ nextToken' = nextToken + 1 BY DEF NewToken
<1> HIDE DEF n
<1>4. n \notin tokens BY <1>1, <1>2
<1>5. IsFiniteSet(tokens') /\ Cardinality(tokens') = Cardinality(tokens) + 1
  BY <1>3, <1>4, FS_AddElement DEF GenInv, TokensCounted
<1>6. \A x, y \in tokens' : x.id = y.id => x = y
  BY <1>1, <1>2, <1>3 DEF GenInv, TokensCounted
<1>7. \A x \in tokens : x.task # t
  BY GenerationAssumption DEF GenInv, HoldersLeased
<1>8. \A x, y \in tokens' : x.task = y.task /\ x.task # NoTask => x = y
  BY <1>2, <1>3, <1>7 DEF GenInv, HoldersLeased
<1>9. \A x \in tokens' : x.id \leq nextToken' BY <1>1, <1>2, <1>3
<1> QED BY <1>1, <1>2, <1>3, <1>5, <1>6, <1>8, <1>9 DEF GenInv, GenTypeOK

LEMMA AcquireActiveInv ==
  ASSUME GenInv, NEW t \in Tasks, AcquireActive(t)
  PROVE  GenInv'
<1>1. /\ pc[t] = "locking" /\ lifecycle = "Active" /\ leases' = leases + 1
      /\ NewToken(t, activeGen) /\ Move(t, "leased")
      /\ target' = [target EXCEPT ![t] = activeGen]
      /\ UNCHANGED <<lifecycle, activeGen, nextGen, stopping, producers, orphans>>
  BY DEF AcquireActive
<1>2. /\ pc' \in [Tasks -> {"idle", "locking", "waiting", "starting", "leased"}]
      /\ pc'[t] = "leased"
      /\ \A u \in Tasks : u # t => pc'[u] = pc[u]
  BY <1>1, TaskMoves
<1>3. activeGen \in Nat /\ leases \in Nat /\ pc[t] # "leased"
  BY <1>1 DEF GenInv, GenTypeOK
<1>4. /\ tokens' \subseteq Tokens /\ nextToken' \in Nat
      /\ IsFiniteSet(tokens') /\ Cardinality(tokens') = Cardinality(tokens) + 1
      /\ \A x \in tokens' : x.id \leq nextToken'
      /\ \A x \in tokens' : x \notin tokens => x.gen = activeGen /\ x.task = t
      /\ \A x, y \in tokens' : x.id = y.id => x = y
      /\ \A x, y \in tokens' : x.task = y.task /\ x.task # NoTask => x = y
  BY <1>1, <1>3, NewTokenCounted
<1>5. GenTypeOK'
  <2>1. target' \in [Tasks -> Nat] BY <1>1, <1>3 DEF GenInv, GenTypeOK
  <2>2. leases' \in Nat BY <1>1, <1>3
  <2> QED BY <1>1, <1>2, <1>4, <2>1, <2>2 DEF GenInv, GenTypeOK
<1>6. SourcesFollowLifecycle'
  BY <1>1, <1>2 DEF GenInv, SourcesFollowLifecycle
<1>7. TokensCounted' BY <1>1, <1>3, <1>4 DEF GenInv, TokensCounted
<1>8. HoldersLeased'
  <2>1. \A x \in tokens : x.task \in Tasks \cup {NoTask}
    BY DEF GenInv, GenTypeOK, Tokens
  <2> QED BY <1>1, <1>2, <1>4, <2>1 DEF GenInv, HoldersLeased
<1>9. WaitersWait' BY <1>1, <1>2 DEF GenInv, WaitersWait
<1>20. SourceIdsUsed' BY <1>1 DEF GenInv, SourceIdsUsed
<1> QED BY <1>5, <1>6, <1>7, <1>8, <1>9, <1>20 DEF GenInv

LEMMA AcquireIdleInv ==
  ASSUME GenInv, NEW t \in Tasks, AcquireIdle(t)
  PROVE  GenInv'
<1>1. /\ pc[t] = "locking" /\ lifecycle = "Idle" /\ lifecycle' = "Starting"
      /\ nextGen' = nextGen + 1 /\ target' = [target EXCEPT ![t] = nextGen + 1]
      /\ producers' = producers \cup {nextGen + 1} /\ Move(t, "starting")
      /\ UNCHANGED <<activeGen, leases, tokens, nextToken, stopping, orphans>>
  BY DEF AcquireIdle
<1>2. /\ pc' \in [Tasks -> {"idle", "locking", "waiting", "starting", "leased"}]
      /\ pc'[t] = "starting"
      /\ \A u \in Tasks : u # t => pc'[u] = pc[u]
  BY <1>1, TaskMoves
<1>3. nextGen + 1 \in Nat /\ nextGen + 1 # 0 BY DEF GenInv, GenTypeOK
<1>4. target' \in [Tasks -> Nat] /\ target'[t] = nextGen + 1
  BY <1>1, <1>3 DEF GenInv, GenTypeOK
<1>5. producers' \subseteq Nat /\ orphans' \subseteq producers' /\ producers' \ orphans' = {nextGen + 1}
  <2>1. producers = orphans BY <1>1 DEF GenInv, SourcesFollowLifecycle
  <2>2. nextGen + 1 \notin producers
    BY <1>3 DEF GenInv, GenTypeOK, SourceIdsUsed
  <2> QED BY <1>1, <1>3, <2>1, <2>2 DEF GenInv, GenTypeOK
<1>6. tokens = {} BY <1>1 DEF GenInv, TokensCounted
<1>7. GenTypeOK' BY <1>1, <1>2, <1>3, <1>4, <1>5 DEF GenInv, GenTypeOK
<1>8. SourcesFollowLifecycle'
  <2>1. \A u \in Tasks : pc[u] # "starting" BY <1>1 DEF GenInv, SourcesFollowLifecycle
  <2> QED BY <1>1, <1>2, <1>3, <1>4, <1>5, <2>1 DEF SourcesFollowLifecycle
<1>9. TokensCounted' BY <1>1, <1>6 DEF GenInv, TokensCounted
<1>10. HoldersLeased' BY <1>1, <1>6 DEF HoldersLeased
<1>11. WaitersWait' BY <1>1 DEF WaitersWait
<1>12. SourceIdsUsed' BY <1>1, <1>3 DEF GenInv, GenTypeOK, SourceIdsUsed
<1> QED BY <1>7, <1>8, <1>9, <1>10, <1>11, <1>12 DEF GenInv

LEMMA StartSucceedsInv ==
  ASSUME GenInv, NEW t \in Tasks, StartSucceeds(t)
  PROVE  GenInv'
<1>1. /\ pc[t] = "starting" /\ activeGen' = target[t] /\ leases' = 1
      /\ lifecycle' = "Active" /\ NewToken(t, target[t]) /\ Woken(t, "leased")
      /\ UNCHANGED <<nextGen, target, stopping, producers, orphans>>
  BY DEF StartSucceeds
<1>2. /\ pc' \in [Tasks -> {"idle", "locking", "waiting", "starting", "leased"}]
      /\ pc'[t] = "leased"
      /\ \A u \in Tasks : u # t => pc'[u] # "waiting" /\ (pc'[u] = "starting" <=> pc[u] = "starting")
  BY <1>1, WokenMoves
<1>3. lifecycle = "Starting" /\ target[t] \in Nat /\ target[t] # 0
  BY <1>1 DEF GenInv, GenTypeOK, SourcesFollowLifecycle
<1>4. tokens = {} /\ Cardinality(tokens) = 0
  <2>1. tokens = {} BY <1>3 DEF GenInv, TokensCounted
  <2> QED BY <2>1, FS_EmptySet
<1>5. /\ tokens' \subseteq Tokens /\ nextToken' \in Nat
      /\ IsFiniteSet(tokens') /\ Cardinality(tokens') = Cardinality(tokens) + 1
      /\ \A x \in tokens' : x.id \leq nextToken'
      /\ \A x \in tokens' : x \notin tokens => x.gen = target[t] /\ x.task = t
      /\ \A x, y \in tokens' : x.id = y.id => x = y
      /\ \A x, y \in tokens' : x.task = y.task /\ x.task # NoTask => x = y
  BY <1>1, <1>3, NewTokenCounted
<1>6. producers \ orphans = {target[t]} BY <1>1, <1>3 DEF GenInv, SourcesFollowLifecycle
<1>7. GenTypeOK' BY <1>1, <1>2, <1>3, <1>5 DEF GenInv, GenTypeOK
<1>8. SourcesFollowLifecycle'
  <2>1. \A u \in Tasks : pc'[u] # "starting"
    BY <1>1, <1>2 DEF GenInv, SourcesFollowLifecycle
  <2> QED BY <1>1, <1>6, <2>1 DEF SourcesFollowLifecycle
<1>9. TokensCounted' BY <1>1, <1>4, <1>5 DEF TokensCounted
<1>10. HoldersLeased' BY <1>2, <1>4, <1>5 DEF HoldersLeased
<1>11. WaitersWait' BY <1>2 DEF WaitersWait
<1>20. SourceIdsUsed' BY <1>1 DEF GenInv, SourceIdsUsed
<1> QED BY <1>7, <1>8, <1>9, <1>10, <1>11, <1>20 DEF GenInv

\* Giving up the only source that was not given up leaves none.
LEMMA GivenUp ==
  ASSUME GenInv, NEW gen, producers \ orphans = {gen}, Abandon(gen)
  PROVE  producers' \subseteq producers /\ producers' = orphans'
BY DEF Abandon, GenInv, GenTypeOK

LEMMA StartFailsInv ==
  ASSUME GenInv, NEW t \in Tasks, StartFails(t)
  PROVE  GenInv'
<1>1. /\ pc[t] = "starting" /\ Abandon(target[t])
      /\ lifecycle' = "Idle" /\ target' = [target EXCEPT ![t] = 0] /\ Woken(t, "idle")
      /\ UNCHANGED <<activeGen, leases, nextGen, tokens, nextToken, stopping>>
  BY DEF StartFails
<1>2. /\ pc' \in [Tasks -> {"idle", "locking", "waiting", "starting", "leased"}]
      /\ pc'[t] = "idle"
      /\ \A u \in Tasks : u # t => pc'[u] # "waiting" /\ (pc'[u] = "starting" <=> pc[u] = "starting")
  BY <1>1, WokenMoves
<1>3. lifecycle = "Starting" BY <1>1 DEF GenInv, SourcesFollowLifecycle
<1>4. tokens = {} BY <1>3 DEF GenInv, TokensCounted
<1>5. producers' \subseteq producers /\ producers' = orphans'
  <2>1. producers \ orphans = {target[t]} BY <1>1, <1>3 DEF GenInv, SourcesFollowLifecycle
  <2> QED BY <1>1, <2>1, GivenUp
<1>6. target' \in [Tasks -> Nat] BY <1>1 DEF GenInv, GenTypeOK
<1>7. GenTypeOK' BY <1>1, <1>2, <1>3, <1>5, <1>6 DEF GenInv, GenTypeOK
<1>8. SourcesFollowLifecycle'
  <2>1. \A u \in Tasks : pc'[u] # "starting"
    BY <1>1, <1>2 DEF GenInv, SourcesFollowLifecycle
  <2> QED BY <1>1, <1>5, <2>1 DEF SourcesFollowLifecycle
<1>9. TokensCounted' BY <1>1, <1>4 DEF GenInv, TokensCounted
<1>10. HoldersLeased' BY <1>1, <1>4 DEF HoldersLeased
<1>11. WaitersWait' BY <1>2 DEF WaitersWait
<1>12. SourceIdsUsed' BY <1>1, <1>5 DEF GenInv, SourceIdsUsed
<1> QED BY <1>7, <1>8, <1>9, <1>10, <1>11, <1>12 DEF GenInv

\* Dropping a lease leaves the release owed: the token stays and is counted.
LEMMA DropLeaseInv ==
  ASSUME GenInv, NEW x \in tokens, DropLease(x)
  PROVE  GenInv'
<1> DEFINE y == [x EXCEPT !.task = NoTask]
           t == x.task
<1>1. /\ t \in Tasks /\ t # NoTask /\ pc[t] = "leased"
      /\ tokens' = (tokens \ {x}) \cup {y}
      /\ target' = [target EXCEPT ![t] = 0] /\ Move(t, "idle")
      /\ UNCHANGED <<lifecycle, activeGen, leases, nextGen, nextToken, stopping, producers, orphans>>
  BY DEF DropLease, GenInv, GenTypeOK, Tokens, HoldersLeased
<1>2. y \in Tokens /\ y.id = x.id /\ y.gen = x.gen /\ y.task = NoTask
  BY DEF GenInv, GenTypeOK, Tokens
<1> HIDE DEF y, t
<1>3. /\ pc' \in [Tasks -> {"idle", "locking", "waiting", "starting", "leased"}]
      /\ pc'[t] = "idle"
      /\ \A u \in Tasks : u # t => pc'[u] = pc[u]
  BY <1>1, TaskMoves
<1>4. target' \in [Tasks -> Nat] /\ \A u \in Tasks : u # t => target'[u] = target[u]
  BY <1>1 DEF GenInv, GenTypeOK
<1>5. IsFiniteSet(tokens') /\ Cardinality(tokens') = Cardinality(tokens)
  <2>1. IsFiniteSet(tokens \ {x}) /\ Cardinality(tokens \ {x}) = Cardinality(tokens) - 1
    BY FS_RemoveElement DEF GenInv, TokensCounted
  <2>2. y \notin tokens \ {x} BY <1>2 DEF GenInv, TokensCounted
  <2>3. Cardinality(tokens) \in Nat BY FS_CardinalityType DEF GenInv, TokensCounted
  <2>4. IsFiniteSet(tokens') /\ Cardinality(tokens') = Cardinality(tokens \ {x}) + 1
    BY <1>1, <2>1, <2>2, FS_AddElement
  <2> QED BY <2>1, <2>3, <2>4
<1>6. GenTypeOK' BY <1>1, <1>2, <1>3, <1>4 DEF GenInv, GenTypeOK
<1>7. SourcesFollowLifecycle'
  BY <1>1, <1>3, <1>4 DEF GenInv, SourcesFollowLifecycle
<1>8. TokensCounted' BY <1>1, <1>2, <1>5 DEF GenInv, TokensCounted
<1>9. HoldersLeased'
  <2>1. \A z \in tokens : z.task \in Tasks \cup {NoTask} /\ (z # x => z.task # t)
    BY <1>1 DEF GenInv, GenTypeOK, Tokens, HoldersLeased, t
  <2>2. \A z \in tokens' : z.task # NoTask => z \in tokens \ {x} BY <1>1, <1>2
  <2> QED BY <1>3, <2>1, <2>2 DEF GenInv, HoldersLeased
<1>10. WaitersWait' BY <1>1, <1>3 DEF GenInv, WaitersWait
<1>20. SourceIdsUsed' BY <1>1 DEF GenInv, SourceIdsUsed
<1> QED BY <1>6, <1>7, <1>8, <1>9, <1>10, <1>20 DEF GenInv

LEMMA ReleaseInv ==
  ASSUME GenInv, NEW x \in tokens, Release(x)
  PROVE  GenInv'
<1>1. lifecycle = "Active" /\ activeGen = x.gen BY DEF GenInv, TokensCounted
<1>2. /\ tokens' = tokens \ {x}
      /\ leases' = IF leases = 0 THEN 0 ELSE leases - 1
      /\ IF leases' # 0
         THEN UNCHANGED <<lifecycle, activeGen, stopping>>
         ELSE lifecycle' = "Stopping" /\ stopping' = activeGen /\ activeGen' = 0
      /\ UNCHANGED <<nextGen, pc, target, nextToken, producers, orphans>>
  BY <1>1 DEF Release
<1>3. leases \in Nat /\ leases # 0 /\ leases = Cardinality(tokens)
  BY <1>1 DEF GenInv, GenTypeOK, TokensCounted
<1>4. leases' \in Nat /\ leases' = leases - 1 BY <1>2, <1>3
<1>5. IsFiniteSet(tokens') /\ Cardinality(tokens') = leases'
  BY <1>2, <1>3, <1>4, FS_RemoveElement DEF GenInv, TokensCounted
<1>6. activeGen \in Nat /\ activeGen # 0 /\ producers \ orphans = {activeGen} /\ stopping = 0
  BY <1>1 DEF GenInv, GenTypeOK, SourcesFollowLifecycle
<1>7. \A u \in Tasks : pc[u] # "starting" /\ pc[u] # "waiting"
  BY <1>1 DEF GenInv, SourcesFollowLifecycle, WaitersWait
<1>8. GenTypeOK'
  <2>1. CASE leases' # 0 BY <1>1, <1>2, <1>4, <2>1 DEF GenInv, GenTypeOK
  <2>2. CASE leases' = 0 BY <1>2, <1>4, <1>6, <2>2 DEF GenInv, GenTypeOK
  <2> QED BY <2>1, <2>2
<1>9. SourcesFollowLifecycle'
  BY <1>1, <1>2, <1>6, <1>7 DEF SourcesFollowLifecycle
<1>10. TokensCounted'
  <2>1. CASE leases' # 0
    BY <1>1, <1>2, <1>5, <2>1 DEF GenInv, TokensCounted
  <2>2. CASE leases' = 0
    <3>1. tokens' = {} BY <1>5, <2>2, FS_EmptySet
    <3> QED BY <1>2, <1>5, <2>2, <3>1 DEF TokensCounted
  <2> QED BY <2>1, <2>2
<1>11. HoldersLeased' BY <1>2 DEF GenInv, HoldersLeased
<1>12. WaitersWait' BY <1>2, <1>7 DEF WaitersWait
<1>20. SourceIdsUsed' BY <1>2 DEF GenInv, SourceIdsUsed
<1> QED BY <1>8, <1>9, <1>10, <1>11, <1>12, <1>20 DEF GenInv

LEMMA StopDoneInv ==
  ASSUME GenInv, StopDone
  PROVE  GenInv'
<1>1. /\ stopping # 0 /\ Abandon(stopping) /\ stopping' = 0
      /\ lifecycle' = "Idle" /\ Woken(NoTask, "idle")
      /\ UNCHANGED <<activeGen, leases, nextGen, target, tokens, nextToken>>
  BY DEF StopDone
<1>2. \A u \in Tasks : u # NoTask BY GenerationAssumption
<1>3. /\ pc' \in [Tasks -> {"idle", "locking", "waiting", "starting", "leased"}]
      /\ \A u \in Tasks : /\ pc'[u] # "waiting"
                          /\ pc'[u] = "starting" <=> pc[u] = "starting"
  BY <1>1, <1>2, WokenMoves
<1>4. lifecycle = "Stopping" BY <1>1 DEF GenInv, GenTypeOK
<1>5. tokens = {} BY <1>4 DEF GenInv, TokensCounted
<1>6. producers' \subseteq producers /\ producers' = orphans'
  <2>1. producers \ orphans = {stopping} BY <1>4 DEF GenInv, SourcesFollowLifecycle
  <2> QED BY <1>1, <2>1, GivenUp
<1>7. GenTypeOK' BY <1>1, <1>3, <1>4, <1>6 DEF GenInv, GenTypeOK
<1>8. SourcesFollowLifecycle'
  <2>1. \A u \in Tasks : pc'[u] # "starting"
    BY <1>3, <1>4 DEF GenInv, SourcesFollowLifecycle
  <2> QED BY <1>1, <1>6, <2>1 DEF SourcesFollowLifecycle
<1>9. TokensCounted' BY <1>1, <1>5 DEF GenInv, TokensCounted
<1>10. HoldersLeased' BY <1>1, <1>5 DEF HoldersLeased
<1>11. WaitersWait' BY <1>3 DEF WaitersWait
<1>12. SourceIdsUsed' BY <1>1, <1>6 DEF GenInv, SourceIdsUsed
<1> QED BY <1>7, <1>8, <1>9, <1>10, <1>11, <1>12 DEF GenInv

LEMMA OrphanEndsInv ==
  ASSUME GenInv, NEW gen \in orphans, OrphanEnds(gen)
  PROVE  GenInv'
<1>1. /\ producers' = producers \ {gen} /\ orphans' = orphans \ {gen}
      /\ UNCHANGED <<lifecycle, activeGen, leases, nextGen, pc, target, tokens, nextToken,
                     stopping>>
  BY DEF OrphanEnds
<1>2. producers' \ orphans' = producers \ orphans BY <1>1
<1>3. GenTypeOK' BY <1>1 DEF GenInv, GenTypeOK
<1>4. SourcesFollowLifecycle' BY <1>1, <1>2 DEF GenInv, SourcesFollowLifecycle
<1>5. SourceIdsUsed' BY <1>1 DEF GenInv, SourceIdsUsed
<1>6. TokensCounted' BY <1>1 DEF GenInv, TokensCounted
<1>7. HoldersLeased' /\ WaitersWait' BY <1>1 DEF GenInv, HoldersLeased, WaitersWait
<1> QED BY <1>3, <1>4, <1>5, <1>6, <1>7 DEF GenInv

----------------------------------------------------------------------------
\* The lifecycle, the sources, the leases and the tasks always agree.
THEOREM GenerationInvariant == GenSpec => []GenInv
<1>1. ASSUME GenInv, [GenNext]_genVars PROVE GenInv'
  <2>1. CASE UNCHANGED genVars
    BY <1>1, <2>1 DEF genVars, GenInv, GenTypeOK, SourcesFollowLifecycle, SourceIdsUsed,
                      TokensCounted, HoldersLeased, WaitersWait
  <2>2. CASE \E t \in Tasks : Acquire(t) \/ TaskStep(t)
    BY <1>1, <2>2, AcquireInv, AcquireActiveInv, AcquireIdleInv, StartSucceedsInv,
       StartFailsInv DEF TaskStep
  <2>3. CASE \E x \in tokens : DropLease(x) \/ Release(x)
    BY <1>1, <2>3, DropLeaseInv, ReleaseInv
  <2>4. CASE StopDone BY <1>1, <2>4, StopDoneInv
  <2>5. CASE \E gen \in orphans : OrphanEnds(gen) BY <1>1, <2>5, OrphanEndsInv
  <2> QED BY <1>1, <2>1, <2>2, <2>3, <2>4, <2>5 DEF GenNext
<1> QED BY <1>1, InitGen, PTL DEF GenSpec

\* A lease never outlives its generation nor a generation its leases: the
\* count is the number of leases alive and no source is given up under one.
THEOREM LeasesHoldGeneration == GenSpec => []LeaseHoldsGeneration
<1>1. GenInv => LeaseHoldsGeneration
  BY DEF GenInv, SourcesFollowLifecycle, TokensCounted, LeaseHoldsGeneration
<1> QED BY <1>1, GenerationInvariant, PTL

\* Whatever starts, failures and stops overlap, a source is spawned only when
\* every earlier one has ended or was aborted: at most one is not on its way out.
THEOREM LiveSourceIsUnique == GenSpec => []OneLiveProducer
<1>1. GenInv => OneLiveProducer
  BY DEF GenInv, GenTypeOK, SourcesFollowLifecycle, OneLiveProducer
<1> QED BY <1>1, GenerationInvariant, PTL

\* A task that waits was registered before the step that will notify it.
THEOREM NoLostWakeup == GenSpec => []WaiterHasWaker
<1>1. GenInv => WaiterHasWaker
  BY DEF GenInv, GenTypeOK, SourcesFollowLifecycle, WaitersWait, WaiterHasWaker
<1> QED BY <1>1, GenerationInvariant, PTL

\* Every variable of the generation manager keeps its type: the lifecycle names
\* a task only while that task starts, and the unsigned lease count of
\* MediaGenerationManager::release never underflows.
THEOREM GenerationTypeCorrect == GenSpec => []GenTypeOK
<1>1. GenInv => GenTypeOK
  BY DEF GenInv
<1> QED BY <1>1, GenerationInvariant, PTL
=============================================================================
