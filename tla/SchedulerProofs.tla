--------------------------- MODULE SchedulerProofs ---------------------------
(***************************************************************************)
(* Scheduler's safety properties, proved for any finite sets of goroutines *)
(* and workers.  The argument is the invariant IInv of SchedulerInvariant:  *)
(* it holds initially, one lemma per action shows that the action keeps it, *)
(* and each property follows from it.  Two theorems, CountersExact and     *)
(* ShutdownIsJoin, assume that helper tasks do not call Spawn: one that    *)
(* has passed Is_Initialised may inject its goroutine after Shutdown has   *)
(* returned.  What Shutdown still guarantees then is RunnersJoined.  The    *)
(* last part proves the refinement of GoroutineLifecycle.                   *)
(***************************************************************************)
EXTENDS SchedulerRefinement, DataLemmas

-----------------------------------------------------------------------------
(***************************************************************************)
(* What the invariant says of one caller or one worker.                    *)
(***************************************************************************)

\* A goroutine being spawned is referenced by its spawner only.
LEMMA SpawnedFacts ==
  ASSUME IInv, NEW c \in Callers, call[c].op = "spawn"
  PROVE  /\ call[c].g \in Goroutines /\ gpc[call[c].g] = "made"
         /\ call[c].g \notin slots /\ ~Queued(call[c].g)
         /\ \A w \in Workers : cur[w] # call[c].g
         /\ \A d \in Callers : d # c => call[d].g # call[c].g
         /\ call[c].g # c
<1>1. /\ call[c].g \in Goroutines /\ gpc[call[c].g] = "made"
      /\ \A d \in Callers : d # c => call[d].g # call[c].g
  BY DEF IInv, TypeOK, PlacesInv, CallTargetInv, OneCaller
<1>2. call[c].g \notin slots
  BY <1>1 DEF IInv, PlacesInv, HandleInv, ParkPC
<1>3. ~Queued(call[c].g)
  BY <1>1 DEF IInv, PlacesInv, ItemsInv, InboxInv, LocalInv, Queued, ParkPC
<1>4. ASSUME NEW w \in Workers, cur[w] = call[c].g PROVE FALSE
  <2>1. WorkerInv
    BY DEF IInv, PlacesInv
  <2>2. cur[w] # NoG /\ gpc[cur[w]] = "made"
    BY <1>1, <1>4, SchedulerAssumption
  <2>3. QED
    BY ONLY <2>1, <2>2, w \in Workers DEF WorkerInv, RunPC, BackPC
<1>5. call[c].g # c
  BY <1>1 DEF IInv, CallInv
<1>6. QED
  BY <1>1, <1>2, <1>3, <1>4, <1>5

\* A goroutine being unparked is in its Park, and the Unpark is its only wake-up.
LEMMA UnparkedFacts ==
  ASSUME IInv, NEW c \in Callers, call[c].op \in {"ready", "inject"}
  PROVE  /\ call[c].g \in Goroutines /\ gpc[call[c].g] \in ParkPC
         /\ bound[call[c].g] \in Workers
         /\ call[c].g \notin slots /\ ~Queued(call[c].g)
         /\ \A w \in Workers : wpc[w] = "popped" => cur[w] # call[c].g
         /\ \A d \in Callers : d # c => call[d].g # call[c].g
<1>1. /\ call[c].g \in Goroutines /\ gpc[call[c].g] \in ParkPC
      /\ \A d \in Callers : d # c => call[d].g # call[c].g
  BY DEF IInv, TypeOK, PlacesInv, CallTargetInv, OneCaller
<1>2. bound[call[c].g] \in Workers
  BY <1>1 DEF IInv, PlacesInv, BoundInv, ParkPC, RunPC, BackPC
<1>3. HasToken(call[c].g) /\ call[c].g \notin slots
  BY <1>1 DEF IInv, PlacesInv, HandleInv, HasToken, Unparks
<1>4. ~Queued(call[c].g)
  BY <1>1, <1>3 DEF IInv, PlacesInv, ItemsInv, InboxInv, LocalInv, Queued, ParkPC
<1>5. \A w \in Workers : wpc[w] = "popped" => cur[w] # call[c].g
  BY <1>3 DEF IInv, PlacesInv, WorkerInv
<1>6. QED
  BY <1>1, <1>2, <1>3, <1>4, <1>5

\* A worker that holds a goroutine is the only one to hold it.
LEMMA HolderFacts ==
  ASSUME IInv, NEW w \in Workers, wpc[w] \in {"popped", "switched", "back"}
  PROVE  /\ cur[w] \in Goroutines
         /\ \A v \in Workers : v # w => cur[v] # cur[w]
  BY SchedulerAssumption DEF IInv, TypeOK, PlacesInv, WorkerInv, OneWorker

\* A goroutine on a stack or done for is queued nowhere, except that a parked
\* one may be in its worker's Inbox already.
LEMMA UnqueuedFacts ==
  ASSUME IInv, NEW g \in Goroutines,
         gpc[g] \notin ParkPC \cup {"entry", "yielded"}
  PROVE  ~Queued(g) /\ ~HasToken(g)
<1>1. ~Queued(g)
  BY DEF IInv, PlacesInv, ItemsInv, InboxInv, LocalInv, Queued
<1>2. ~HasToken(g)
  BY DEF IInv, PlacesInv, HandleInv, CallTargetInv, HasToken, Unparks
<1>3. QED
  BY <1>1, <1>2

-----------------------------------------------------------------------------
(***************************************************************************)
(* What In_Flight and Workers_Active count.                                *)
(***************************************************************************)

LEMMA CountedFinite ==
  /\ IsFiniteSet(Counted) /\ IsFiniteSet(Reaping) /\ IsFiniteSet(Started)
  /\ Cardinality(Counted) \in Nat /\ Cardinality(Reaping) \in Nat
  /\ Cardinality(Started) \in Nat
<1>1. /\ Counted \subseteq Goroutines /\ Reaping \subseteq Workers
      /\ Started \subseteq Workers
  BY DEF Counted, Alive, Reaping, Started
<1>2. IsFiniteSet(Counted) /\ IsFiniteSet(Reaping) /\ IsFiniteSet(Started)
  BY <1>1, FS_Subset, SchedulerAssumption
<1>3. QED
  BY <1>2, FS_CardinalityType

\* The counters are positive where they are decremented, so Natural holds them.
LEMMA CountersPositive ==
  ASSUME CountInv, WorkersCounted
  PROVE  /\ \A w \in Workers : wpc[w] = "reap" => inFlight - 1 \in Nat
         /\ \A w \in Workers : wpc[w] # "off" => workersActive - 1 \in Nat
         /\ mpc = "allocating" => workersActive - 1 \in Nat
         /\ inFlight = 0 => Counted = {} /\ Reaping = {}
<1>1. ASSUME NEW w \in Workers, wpc[w] = "reap" PROVE Cardinality(Reaping) # 0
  BY <1>1, CountedFinite, FS_EmptySet DEF Reaping
<1>2. ASSUME NEW w \in Workers, wpc[w] # "off" PROVE Cardinality(Started) # 0
  BY <1>2, CountedFinite, FS_EmptySet DEF Started
<1>3. ASSUME inFlight = 0 PROVE Counted = {} /\ Reaping = {}
  <2>1. Cardinality(Counted) = 0 /\ Cardinality(Reaping) = 0
    BY <1>3, CountedFinite DEF CountInv
  <2>2. QED
    BY <2>1, CountedFinite, FS_EmptySet
<1>4. QED
  BY <1>1, <1>2, <1>3, CountedFinite DEF CountInv, WorkersCounted

\* Nothing the pool knows of is left once In_Flight is zero, nor anything bound
\* to a worker; if only the pool spawns, nothing at all.
LEMMA NothingInFlight ==
  ASSUME IInv, inFlight = 0
  PROVE  /\ \A w \in Workers : Deserted(w)
         /\ HelperSpawns \/ Alive = {}
<1>1. Counted = {}
  BY CountersPositive DEF IInv
<1>2. ASSUME NEW w \in Workers, NEW g \in Goroutines, bound[g] = w PROVE gpc[g] = "freed"
  <2>1. gpc[g] \notin {"none", "made", "entry"}
    BY <1>2, SchedulerAssumption DEF IInv, PlacesInv, BoundInv
  <2>2. QED
    BY <1>1, <2>1 DEF Counted, Alive, Known
<1>3. HelperSpawns \/ Alive = {}
  BY <1>1 DEF IInv, CountInv, Counted, Alive
<1>4. QED
  BY <1>2, <1>3 DEF Deserted

-----------------------------------------------------------------------------
(***************************************************************************)
(* One lemma per action: it keeps every part of the invariant but the      *)
(* counters, which CountsStep treats together.                             *)
(***************************************************************************)

\* While all workers are off, a goroutine has not run yet or is gone.
LEMMA NoneOnOffWorkers ==
  ASSUME IInv, mpc \in {"off", "drained"}, NEW g \in Goroutines
  PROVE  gpc[g] \in {"none", "made", "entry", "freed"}
<1>1. bound[g] \in Workers => gpc[g] = "freed"
  BY DEF IInv, LifeInv, Deserted
<1>2. QED
  BY <1>1 DEF IInv, TypeOK, PlacesInv, BoundInv, GoroutinePC, RunPC, BackPC

\* Reset_Lifecycle drops what a late Spawn left in Items; the other queues are empty.
LEMMA InitBeginStep ==
  ASSUME IInv, InitBegin
  PROVE  TypeOK' /\ PlacesInv' /\ CallInv' /\ LifeInv'
<1> USE SchedulerAssumption DEF IInv, TypeOK, PlacesInv, runQueue, InitBegin
<1>quiet. /\ \A g \in Goroutines : gpc[g] \in {"none", "made", "entry", "freed"}
          /\ items' = <<>> /\ \A w \in Workers : inbox'[w] = <<>>
          /\ Range(items') = {} /\ \A w \in Workers : Range(inbox'[w]) = {}
  BY NoneOnOffWorkers, EmptyQueue
<1>1. LocalInv'
  BY DEF LocalInv
<1>2. OneWorker' /\ BoundInv'
  BY DEF OneWorker, WorkerInv, BoundInv, RunPC, BackPC, RunsOn
<1>3. HandleInv' /\ CallTargetInv' /\ OneCaller' /\ SpawnedInv'
  BY DEF HandleInv, Unparks, ParkPC, CallTargetInv, OneCaller, SpawnedInv
<1>4. StateInv' /\ YieldInv' /\ CallInv' /\ LifeInv'
  BY DEF StateInv, ParkPC, YieldInv, RunsOn, WorkerInv, CallInv, LifeInv, Quiet, Deserted
<1>5. TypeOK'
  <2>1. <<>> \in Seq(Goroutines)
    OBVIOUS
  <2>2. items' \in Seq(Goroutines) /\ inbox' \in [Workers -> Seq(Goroutines)]
    BY <2>1
  <2>3. QED
    BY <2>2 DEF MainPC
<1>6. QueuesDistinct'
  BY <1>quiet, EmptyQueue DEF QueuesDistinct
<1>7. ItemsInv'
  BY <1>quiet DEF ItemsInv
<1>8. InboxInv'
  BY <1>quiet DEF InboxInv
<1>9. WorkerInv'
  <2>1. \A w \in Workers : wpc[w] = "off"
    BY DEF LifeInv
  <2>2. QED
    BY <2>1 DEF WorkerInv
<1>10. WakeInv'
  BY <1>quiet DEF WakeInv, ParkPC
<1>11. QED
  BY <1>1, <1>2, <1>3, <1>4, <1>5, <1>6, <1>7, <1>8, <1>9, <1>10

\* Counting a worker moves nothing.
LEMMA InitBumpStep ==
  ASSUME IInv, InitBump
  PROVE  TypeOK' /\ PlacesInv' /\ CallInv' /\ LifeInv'
<1> USE SchedulerAssumption DEF IInv, TypeOK, PlacesInv, runQueue, InitBump
<1>1. TypeOK'
  BY DEF GoroutineState, GoroutinePC, WorkerPC, MainPC, CallOp, NoCall
<1>2. QueuesDistinct' /\ ItemsInv' /\ InboxInv' /\ LocalInv'
  BY DEF QueuesDistinct, ItemsInv, InboxInv, HasToken, Unparks, ParkPC, LocalInv
<1>3. WorkerInv' /\ OneWorker' /\ BoundInv'
  BY DEF WorkerInv, OneWorker, HasToken, Unparks, Queued, RunPC, BackPC, ParkPC,
     RunsOn, BoundInv
<1>4. HandleInv' /\ CallTargetInv' /\ OneCaller' /\ SpawnedInv'
  BY DEF HandleInv, Unparks, ParkPC, CallTargetInv, OneCaller, SpawnedInv
<1>5. WakeInv'
  BY DEF WakeInv, HasToken, Arriving, Unparks, ParkPC
<1>6. StateInv' /\ YieldInv' /\ CallInv' /\ LifeInv'
  BY DEF StateInv, ParkPC, YieldInv, RunsOn, WorkerInv, CallInv, LifeInv, Quiet, Deserted
<1>7. QED
  BY <1>1, <1>2, <1>3, <1>4, <1>5, <1>6

\* A fresh worker starts with empty hands.
LEMMA InitAllocateStep ==
  ASSUME IInv, NEW w \in Workers, InitAllocate(w)
  PROVE  TypeOK' /\ PlacesInv' /\ CallInv' /\ LifeInv'
<1> USE SchedulerAssumption DEF IInv, TypeOK, PlacesInv, runQueue, InitAllocate
<1>1. TypeOK'
  BY DEF GoroutineState, GoroutinePC, WorkerPC, MainPC, CallOp, NoCall
<1>2. QueuesDistinct' /\ ItemsInv' /\ InboxInv' /\ LocalInv'
  BY DEF QueuesDistinct, ItemsInv, InboxInv, HasToken, Unparks, ParkPC, LocalInv
<1>3. WorkerInv' /\ OneWorker' /\ BoundInv'
  BY DEF WorkerInv, OneWorker, HasToken, Unparks, Queued, RunPC, BackPC, ParkPC,
     RunsOn, BoundInv
<1>4. HandleInv' /\ CallTargetInv' /\ OneCaller' /\ SpawnedInv'
  BY DEF HandleInv, Unparks, ParkPC, CallTargetInv, OneCaller, SpawnedInv
<1>5. WakeInv'
  BY DEF WakeInv, HasToken, Arriving, Unparks, ParkPC
<1>6. StateInv' /\ YieldInv' /\ CallInv' /\ LifeInv'
  BY DEF StateInv, ParkPC, YieldInv, RunsOn, WorkerInv, CallInv, LifeInv, Quiet, Deserted
<1>7. QED
  BY <1>1, <1>2, <1>3, <1>4, <1>5, <1>6

\* A failed Init counts down what it counted up.
LEMMA InitRollbackStep ==
  ASSUME IInv, InitRollback
  PROVE  TypeOK' /\ PlacesInv' /\ CallInv' /\ LifeInv'
<1> USE SchedulerAssumption DEF IInv, TypeOK, PlacesInv, runQueue, InitRollback
<1>1. QueuesDistinct' /\ ItemsInv' /\ InboxInv' /\ LocalInv'
  BY DEF QueuesDistinct, ItemsInv, InboxInv, HasToken, Unparks, ParkPC, LocalInv
<1>2. WorkerInv' /\ OneWorker' /\ BoundInv'
  BY DEF WorkerInv, OneWorker, HasToken, Unparks, Queued, RunPC, BackPC, ParkPC,
     RunsOn, BoundInv
<1>3. HandleInv' /\ CallTargetInv' /\ OneCaller' /\ SpawnedInv'
  BY DEF HandleInv, Unparks, ParkPC, CallTargetInv, OneCaller, SpawnedInv
<1>4. WakeInv'
  BY DEF WakeInv, HasToken, Arriving, Unparks, ParkPC
<1>5. StateInv' /\ YieldInv' /\ CallInv' /\ LifeInv'
  BY DEF StateInv, ParkPC, YieldInv, RunsOn, WorkerInv, CallInv, LifeInv, Quiet, Deserted
<1>6. TypeOK'
  BY CountersPositive DEF MainPC
<1>7. QED
  BY <1>1, <1>2, <1>3, <1>4, <1>5, <1>6

\* Init returns with every worker started.
LEMMA InitReturnStep ==
  ASSUME IInv, InitReturn
  PROVE  TypeOK' /\ PlacesInv' /\ CallInv' /\ LifeInv'
<1> USE SchedulerAssumption DEF IInv, TypeOK, PlacesInv, runQueue, InitReturn
<1>1. TypeOK'
  BY DEF GoroutineState, GoroutinePC, WorkerPC, MainPC, CallOp, NoCall
<1>2. QueuesDistinct' /\ ItemsInv' /\ InboxInv' /\ LocalInv'
  BY DEF QueuesDistinct, ItemsInv, InboxInv, HasToken, Unparks, ParkPC, LocalInv
<1>3. WorkerInv' /\ OneWorker' /\ BoundInv'
  BY DEF WorkerInv, OneWorker, HasToken, Unparks, Queued, RunPC, BackPC, ParkPC,
     RunsOn, BoundInv
<1>4. HandleInv' /\ CallTargetInv' /\ OneCaller' /\ SpawnedInv'
  BY DEF HandleInv, Unparks, ParkPC, CallTargetInv, OneCaller, SpawnedInv
<1>5. WakeInv'
  BY DEF WakeInv, HasToken, Arriving, Unparks, ParkPC
<1>6. StateInv' /\ YieldInv' /\ CallInv' /\ LifeInv'
  BY DEF StateInv, ParkPC, YieldInv, RunsOn, WorkerInv, CallInv, LifeInv, Quiet, Deserted
<1>7. QED
  BY <1>1, <1>2, <1>3, <1>4, <1>5, <1>6

\* Shutdown only raises its flag.
LEMMA MarkShutdownStep ==
  ASSUME IInv, MarkShutdown
  PROVE  TypeOK' /\ PlacesInv' /\ CallInv' /\ LifeInv'
<1> USE SchedulerAssumption DEF IInv, TypeOK, PlacesInv, runQueue, MarkShutdown,
   NoCall
<1>1. TypeOK'
  BY DEF GoroutineState, GoroutinePC, WorkerPC, MainPC, CallOp, NoCall
<1>2. QueuesDistinct' /\ ItemsInv' /\ InboxInv' /\ LocalInv'
  BY DEF QueuesDistinct, ItemsInv, InboxInv, HasToken, Unparks, ParkPC, LocalInv
<1>3. WorkerInv' /\ OneWorker' /\ BoundInv'
  BY DEF WorkerInv, OneWorker, HasToken, Unparks, Queued, RunPC, BackPC, ParkPC,
     RunsOn, BoundInv
<1>4. HandleInv' /\ CallTargetInv' /\ OneCaller' /\ SpawnedInv'
  BY DEF HandleInv, Unparks, ParkPC, CallTargetInv, OneCaller, SpawnedInv
<1>5. WakeInv'
  BY DEF WakeInv, HasToken, Arriving, Unparks, ParkPC
<1>6. StateInv' /\ YieldInv' /\ CallInv' /\ LifeInv'
  BY DEF StateInv, ParkPC, YieldInv, RunsOn, WorkerInv, CallInv, LifeInv, Quiet, Deserted
<1>7. QED
  BY <1>1, <1>2, <1>3, <1>4, <1>5, <1>6

\* Drain opens when no worker is left, so nothing is left to run.
LEMMA DrainStep ==
  ASSUME IInv, Drain
  PROVE  TypeOK' /\ PlacesInv' /\ CallInv' /\ LifeInv'
<1>1. TypeOK'
  BY SchedulerAssumption
     DEF IInv, PlacesInv, TypeOK, GoroutineState,
     GoroutinePC, WorkerPC, MainPC, CallOp, NoCall, Drain, runQueue
<1>2. CallInv'
  BY SchedulerAssumption
     DEF IInv, PlacesInv, CallInv, TypeOK, Drain,
     runQueue
<1>3. LifeInv'
  <2>1. Cardinality(Started) = 0
    BY CountedFinite DEF IInv, WorkersCounted, Drain
  <2>2. \A w \in Workers : wpc[w] = "off"
    BY <2>1, CountedFinite, FS_EmptySet DEF Started
  <2>3. HelperSpawns \/ Quiet
    BY <2>2, SchedulerAssumption DEF IInv, LifeInv, Drain
  <2>4. QED
    BY <2>2, <2>3 DEF IInv, LifeInv, Quiet, Deserted, Drain, runQueue
<1>4. QueuesDistinct' /\ ItemsInv' /\ InboxInv' /\ LocalInv' /\ WorkerInv'
      /\ OneWorker' /\ BoundInv' /\ HandleInv' /\ CallTargetInv' /\ OneCaller'
      /\ WakeInv' /\ StateInv' /\ YieldInv'
  BY SchedulerAssumption
     DEF IInv, PlacesInv, QueuesDistinct, ItemsInv,
     InboxInv, HasToken, Unparks, ParkPC, LocalInv, WorkerInv, Queued, RunPC,
     BackPC, RunsOn, OneWorker, BoundInv, HandleInv, CallTargetInv, OneCaller,
     WakeInv, Arriving, StateInv, YieldInv, Drain, runQueue
<1>5. SpawnedInv'
  BY SchedulerAssumption
     DEF IInv, TypeOK, PlacesInv, SpawnedInv, Drain
<1>6. QED
  BY <1>1, <1>2, <1>3, <1>4, <1>5 DEF PlacesInv

\* Shutdown returns from the drained state.
LEMMA ShutdownReturnStep ==
  ASSUME IInv, ShutdownReturn
  PROVE  TypeOK' /\ PlacesInv' /\ CallInv' /\ LifeInv'
<1> USE SchedulerAssumption DEF IInv, TypeOK, PlacesInv, runQueue, ShutdownReturn
<1>1. TypeOK'
  BY DEF GoroutineState, GoroutinePC, WorkerPC, MainPC, CallOp, NoCall
<1>2. QueuesDistinct' /\ ItemsInv' /\ InboxInv' /\ LocalInv'
  BY DEF QueuesDistinct, ItemsInv, InboxInv, HasToken, Unparks, ParkPC, LocalInv
<1>3. WorkerInv' /\ OneWorker' /\ BoundInv'
  BY DEF WorkerInv, OneWorker, HasToken, Unparks, Queued, RunPC, BackPC, ParkPC,
     RunsOn, BoundInv
<1>4. HandleInv' /\ CallTargetInv' /\ OneCaller' /\ SpawnedInv'
  BY DEF HandleInv, Unparks, ParkPC, CallTargetInv, OneCaller, SpawnedInv
<1>5. WakeInv'
  BY DEF WakeInv, HasToken, Arriving, Unparks, ParkPC
<1>6. StateInv' /\ YieldInv' /\ CallInv' /\ LifeInv'
  BY DEF StateInv, ParkPC, YieldInv, RunsOn, WorkerInv, CallInv, LifeInv, Quiet, Deserted
<1>7. QED
  BY <1>1, <1>2, <1>3, <1>4, <1>5, <1>6

\* A new record is in its spawner's hands only.
LEMMA SpawnBeginStep ==
  ASSUME IInv, NEW c \in Callers, NEW g \in Goroutines,
     SpawnBegin(c, g)
  PROVE  TypeOK' /\ PlacesInv' /\ CallInv' /\ LifeInv'
<1> USE SchedulerAssumption DEF IInv, TypeOK, PlacesInv, runQueue, SpawnBegin,
   CanCall, NoCall
<1>new. /\ ~Queued(g) /\ ~HasToken(g)
        /\ \A d \in Callers : call[d].g # g
        /\ call[c] = NoCall
  <2>1. ~Queued(g) /\ ~HasToken(g) /\ call[c] = NoCall
    BY UnqueuedFacts DEF ParkPC
  <2>2. ASSUME NEW d \in Callers, call[d].g = g PROVE FALSE
    BY <2>2 DEF CallOp, CallTargetInv, ParkPC
  <2>3. QED
    BY <2>1, <2>2
<1>1. TypeOK'
  BY DEF GoroutineState, GoroutinePC, WorkerPC, MainPC, CallOp, NoCall
<1>2. QueuesDistinct' /\ ItemsInv' /\ InboxInv' /\ LocalInv'
  BY DEF QueuesDistinct, ItemsInv, InboxInv, HasToken, Unparks, ParkPC, LocalInv
<1>3. WorkerInv' /\ OneWorker' /\ BoundInv'
  BY DEF WorkerInv, OneWorker, HasToken, Unparks, Queued, RunPC, BackPC, ParkPC,
     RunsOn, BoundInv
<1>4. HandleInv' /\ CallTargetInv' /\ SpawnedInv'
  BY DEF HandleInv, Unparks, ParkPC, CallTargetInv, SpawnedInv
<1>5. StateInv' /\ YieldInv' /\ CallInv'
  BY DEF StateInv, ParkPC, YieldInv, RunsOn, WorkerInv, CallInv
<1>6. OneCaller'
  BY <1>new DEF OneCaller
<1>7. WakeInv'
  <2>1. ASSUME NEW h \in Goroutines, gpc'[h] \in ParkPC PROVE gpc[h] \in ParkPC
        /\ h # g
    BY <2>1 DEF ParkPC
  <2>2. \A h \in Goroutines : HasToken(h) => HasToken(h)'
    BY <1>new DEF HasToken, Unparks
  <2>3. \A h \in Goroutines : Arriving(h) => Arriving(h)'
    BY DEF Arriving
  <2>4. QED
    BY <2>1, <2>2, <2>3 DEF WakeInv
<1>8. LifeInv'
  <2>1. HelperSpawns \/ ~Quiet \/ mpc = "up"
    BY DEF Callers, CallInv, Quiet
  <2>2. \A w \in Workers : Deserted(w) => Deserted(w)'
    BY DEF Deserted
  <2>3. QED
    BY <2>1, <2>2 DEF LifeInv
<1>9. QED
  BY <1>1, <1>2, <1>3, <1>4, <1>5, <1>6, <1>7, <1>8

\* A failed spawn frees a record nobody else saw.
LEMMA SpawnFailStep ==
  ASSUME IInv, NEW c \in Callers, SpawnFail(c)
  PROVE  TypeOK' /\ PlacesInv' /\ CallInv' /\ LifeInv'
<1> USE SchedulerAssumption DEF IInv, TypeOK, PlacesInv, runQueue, SpawnFail, NoCall
<1>g. /\ call[c].g \in Goroutines /\ gpc[call[c].g] = "made"
      /\ call[c].g \notin slots /\ ~Queued(call[c].g)
      /\ \A w \in Workers : cur[w] # call[c].g
      /\ \A d \in Callers : d # c => call[d].g # call[c].g
      /\ call[c].g # c
  BY SpawnedFacts
<1>gpc. \A h \in Goroutines :
          gpc'[h] = IF h = call[c].g THEN "freed" ELSE gpc[h]
  OBVIOUS
<1>call. \A d \in Callers : call'[d] = IF d = c THEN NoCall ELSE call[d]
  OBVIOUS
<1>1. TypeOK'
  BY DEF GoroutineState, GoroutinePC, WorkerPC, MainPC, CallOp, NoCall
<1>2. QueuesDistinct'
  BY DEF QueuesDistinct
<1>3. OneWorker' /\ BoundInv'
  BY DEF OneWorker, WorkerInv, BoundInv, RunPC, BackPC, RunsOn
<1>4. OneCaller'
  BY DEF OneCaller, CallTargetInv
<1>5. WakeInv'
  BY DEF WakeInv, HasToken, Arriving, Unparks, ParkPC
<1>6. StateInv' /\ YieldInv' /\ LifeInv'
  BY DEF StateInv, ParkPC, YieldInv, RunsOn, WorkerInv, LifeInv, Quiet, Deserted
<1>7. ItemsInv'
  BY <1>g, <1>gpc DEF ItemsInv, Queued, Range
<1>8. InboxInv'
  BY <1>g, <1>gpc, <1>call DEF InboxInv, HasToken, Unparks, Queued
<1>9. LocalInv'
  BY <1>g, <1>gpc, <1>call DEF LocalInv, Queued
<1>10. WorkerInv'
  <2>1. \A h \in Goroutines : Queued(h)' <=> Queued(h)
    BY DEF Queued
  <2>2. \A h \in Goroutines : HasToken(h)' <=> HasToken(h)
    BY <1>g, <1>call DEF HasToken, Unparks
  <2>3. \A w \in Workers : cur[w] # NoG => cur[w] \in Goroutines
    OBVIOUS
  <2>4. QED
    BY <1>g, <1>gpc, <2>1, <2>2, <2>3 DEF WorkerInv
<1>11. HandleInv'
  BY <1>g, <1>gpc, <1>call DEF HandleInv, Unparks
<1>12. CallTargetInv'
  BY <1>g, <1>gpc, <1>call DEF CallTargetInv
<1>13. CallInv'
  BY <1>g, <1>gpc, <1>call DEF CallTargetInv, ParkPC, CallInv
<1>14. SpawnedInv'
  BY <1>g, <1>gpc, <1>call DEF SpawnedInv
<1>15. QED
  BY <1>1, <1>2, <1>3, <1>4, <1>5, <1>6, <1>7, <1>8, <1>9, <1>10, <1>11, <1>12,
     <1>13, <1>14

\* An injected goroutine joins Items, where it was not.
LEMMA InjectStep ==
  ASSUME IInv, NEW c \in Callers, Inject(c)
  PROVE  TypeOK' /\ PlacesInv' /\ CallInv' /\ LifeInv'
<1> USE SchedulerAssumption DEF IInv, TypeOK, PlacesInv, runQueue, Inject, NoCall
<1>g. /\ call[c].g \in Goroutines /\ gpc[call[c].g] = "made"
      /\ call[c].g \notin slots /\ ~Queued(call[c].g)
      /\ \A w \in Workers : cur[w] # call[c].g
      /\ \A d \in Callers : d # c => call[d].g # call[c].g
      /\ call[c].g # c
  BY SpawnedFacts
<1>gpc. \A h \in Goroutines :
          gpc'[h] = IF h = call[c].g THEN "entry" ELSE gpc[h]
  OBVIOUS
<1>call. \A d \in Callers : call'[d] = IF d = c THEN NoCall ELSE call[d]
  OBVIOUS
<1>items. /\ items' \in Seq(Goroutines)
          /\ Range(items') = Range(items) \cup {call[c].g}
          /\ IsInjective(items')
  <2>1. items \in Seq(Goroutines) /\ IsInjective(items)
        /\ call[c].g \notin Range(items)
    BY <1>g DEF QueuesDistinct, Queued
  <2>2. QED
    BY <1>g, <2>1, RangeAppend, InjectiveAppend
<1>1. OneWorker'
  BY DEF OneWorker, WorkerInv
<1>2. OneCaller'
  BY DEF OneCaller, CallTargetInv
<1>3. WakeInv'
  BY DEF WakeInv, HasToken, Arriving, Unparks, ParkPC
<1>4. StateInv' /\ YieldInv'
  BY DEF StateInv, ParkPC, YieldInv, RunsOn, WorkerInv
<1>5. TypeOK'
  BY <1>items, <1>gpc, <1>call, <1>g DEF GoroutinePC, CallOp
<1>6. QueuesDistinct'
  BY <1>items DEF QueuesDistinct
<1>7. ItemsInv'
  <2>1. Range(items) \subseteq Goroutines
    BY DEF Range
  <2>2. QED
    BY <1>items, <1>gpc, <1>g, <2>1 DEF ItemsInv
<1>8. InboxInv'
  BY <1>g, <1>gpc, <1>call DEF InboxInv, HasToken, Unparks, Queued
<1>9. LocalInv'
  BY <1>g, <1>gpc, <1>call DEF LocalInv, Queued
<1>10. WorkerInv'
  <2>1. \A h \in Goroutines : h # call[c].g => (Queued(h)' <=> Queued(h))
    BY <1>items DEF Queued
  <2>2. \A h \in Goroutines : HasToken(h)' <=> HasToken(h)
    BY <1>g, <1>call DEF HasToken, Unparks
  <2>3. \A w \in Workers : cur[w] # NoG => cur[w] \in Goroutines
    OBVIOUS
  <2>4. QED
    BY <1>g, <1>gpc, <2>1, <2>2, <2>3 DEF WorkerInv
<1>11. BoundInv'
  BY <1>g, <1>gpc DEF BoundInv, RunPC, BackPC, RunsOn
<1>12. HandleInv'
  BY <1>g, <1>gpc, <1>call DEF HandleInv, Unparks
<1>13. CallTargetInv'
  BY <1>g, <1>gpc, <1>call DEF CallTargetInv
<1>14. CallInv'
  BY <1>g, <1>gpc, <1>call DEF CallTargetInv, ParkPC, CallInv
<1>15. LifeInv'
  <2>1. HelperSpawns \/ mpc = "up" \/ ~Quiet
    BY DEF Callers, CallInv, Quiet
  <2>2. \A w \in Workers : Deserted(w) => Deserted(w)'
    BY <1>g, <1>gpc DEF Deserted
  <2>3. QED
    BY <2>1, <2>2 DEF LifeInv
<1>16. SpawnedInv'
  BY <1>g, <1>gpc, <1>call DEF SpawnedInv
<1>17. QED
  BY <1>1, <1>2, <1>3, <1>4, <1>5, <1>6, <1>7, <1>8, <1>9, <1>10, <1>11, <1>12,
     <1>13, <1>14, <1>15, <1>16

\* Taking a handle passes the wake-up on.
LEMMA UnparkBeginStep ==
  ASSUME IInv, NEW c \in Callers, NEW g \in Goroutines, UnparkBegin(c, g)
  PROVE  TypeOK' /\ PlacesInv' /\ CallInv' /\ LifeInv'
<1> USE SchedulerAssumption DEF IInv, TypeOK, PlacesInv, runQueue, UnparkBegin,
   CanCall, NoCall
<1>1. TypeOK'
  BY DEF GoroutineState, GoroutinePC, WorkerPC, MainPC, CallOp, NoCall
<1>2. QueuesDistinct' /\ ItemsInv' /\ InboxInv' /\ LocalInv'
  BY DEF QueuesDistinct, ItemsInv, InboxInv, HasToken, Unparks, ParkPC, LocalInv
<1>3. WorkerInv' /\ OneWorker' /\ BoundInv'
  BY DEF WorkerInv, OneWorker, HasToken, Unparks, Queued, RunPC, BackPC, ParkPC,
     RunsOn, BoundInv
<1>4. HandleInv' /\ CallTargetInv' /\ SpawnedInv'
  BY DEF HandleInv, Unparks, ParkPC, CallTargetInv, SpawnedInv
<1>5. StateInv' /\ YieldInv' /\ CallInv' /\ LifeInv'
  BY DEF StateInv, ParkPC, YieldInv, RunsOn, WorkerInv, CallInv, LifeInv, Quiet, Deserted
<1>6. OneCaller'
  <2>1. ASSUME NEW d \in Callers, call[d].g = g PROVE FALSE
    BY <2>1 DEF CallOp, HandleInv, CallTargetInv, Unparks, ParkPC
  <2>2. QED
    BY <2>1 DEF OneCaller
<1>7. WakeInv'
  <2>1. \A h \in Goroutines : HasToken(h) => HasToken(h)'
    BY DEF HasToken, Unparks
  <2>2. \A h \in Goroutines : Arriving(h) => Arriving(h)'
    BY DEF Arriving
  <2>3. QED
    BY <2>1, <2>2 DEF WakeInv
<1>8. QED
  BY <1>1, <1>2, <1>3, <1>4, <1>5, <1>6, <1>7

\* Unpark's READY reaches a goroutine that is in its Park.
LEMMA UnparkWriteStep ==
  ASSUME IInv, NEW c \in Callers, UnparkWrite(c)
  PROVE  TypeOK' /\ PlacesInv' /\ CallInv' /\ LifeInv'
<1> USE SchedulerAssumption DEF IInv, TypeOK, PlacesInv, runQueue, UnparkWrite
<1>g. PICK g \in Goroutines :
      /\ g = call[c].g /\ gpc[g] \in ParkPC /\ bound[g] \in Workers
      /\ g \notin slots /\ ~Queued(g)
      /\ \A w \in Workers : wpc[w] = "popped" => cur[w] # g
      /\ \A d \in Callers : d # c => call[d].g # g
  BY UnparkedFacts
<1>call. \A d \in Callers :
           call'[d] = IF d = c THEN [op |-> "inject", g |-> g] ELSE call[d]
  BY <1>g
<1>1. TypeOK'
  BY DEF GoroutineState, GoroutinePC, WorkerPC, MainPC, CallOp, NoCall
<1>2. QueuesDistinct' /\ ItemsInv' /\ InboxInv' /\ LocalInv'
  BY DEF QueuesDistinct, ItemsInv, InboxInv, HasToken, Unparks, ParkPC, LocalInv
<1>3. WorkerInv' /\ OneWorker' /\ BoundInv'
  BY DEF WorkerInv, OneWorker, HasToken, Unparks, Queued, RunPC, BackPC, ParkPC,
     RunsOn, BoundInv
<1>4. HandleInv' /\ CallTargetInv' /\ OneCaller'
  BY DEF HandleInv, Unparks, ParkPC, CallTargetInv, OneCaller
<1>5. CallInv' /\ LifeInv'
  BY DEF CallInv, LifeInv, Quiet, Deserted
<1>6. WakeInv'
  <2>1. \A h \in Goroutines : HasToken(h) => HasToken(h)'
    BY <1>call DEF HasToken, Unparks
  <2>2. \A h \in Goroutines : Arriving(h) => Arriving(h)'
    BY DEF Arriving
  <2>3. QED
    BY <2>1, <2>2 DEF WakeInv
<1>7. StateInv'
  BY <1>g DEF StateInv, ParkPC
<1>8. YieldInv'
  BY <1>g DEF WorkerInv, YieldInv, ParkPC
<1>9. SpawnedInv'
  BY <1>g, <1>call DEF SpawnedInv
<1>10. QED
  BY <1>1, <1>2, <1>3, <1>4, <1>5, <1>6, <1>7, <1>8, <1>9

\* An unparked goroutine joins the Inbox of its own worker, where it was not.
LEMMA UnparkInjectStep ==
  ASSUME IInv, NEW c \in Callers, UnparkInject(c)
  PROVE  TypeOK' /\ PlacesInv' /\ CallInv' /\ LifeInv'
<1>g. PICK g \in Goroutines :
      /\ g = call[c].g /\ gpc[g] \in ParkPC /\ bound[g] \in Workers
      /\ g \notin slots /\ ~Queued(g)
      /\ \A w \in Workers : wpc[w] = "popped" => cur[w] # g
      /\ \A d \in Callers : d # c => call[d].g # g
  BY UnparkedFacts DEF UnparkInject
<1>call. \A d \in Callers :
           call'[d] = IF d = c THEN NoCall ELSE call[d]
  BY DEF IInv, TypeOK, UnparkInject
<1>inbox. /\ inbox' \in [Workers -> Seq(Goroutines)]
          /\ \A w \in Workers : IsInjective(inbox'[w])
          /\ \A w \in Workers :
               Range(inbox'[w]) = IF w = bound[g]
                                  THEN Range(inbox[w]) \cup {g}
                                  ELSE Range(inbox[w])
  <2>1. /\ inbox \in [Workers -> Seq(Goroutines)]
        /\ \A w \in Workers : IsInjective(inbox[w]) /\ g \notin Range(inbox[w])
    BY <1>g DEF IInv, TypeOK, PlacesInv, QueuesDistinct, Queued
  <2>2. \A w \in Workers :
          /\ Append(inbox[w], g) \in Seq(Goroutines)
          /\ Range(Append(inbox[w], g)) = Range(inbox[w]) \cup {g}
          /\ IsInjective(Append(inbox[w], g))
    BY <1>g, <2>1, RangeAppend, InjectiveAppend
  <2>3. \A w \in Workers :
          inbox'[w] = IF w = bound[g] THEN Append(inbox[w], g) ELSE inbox[w]
    BY <1>g, <2>1 DEF UnparkInject
  <2>4. inbox' \in [Workers -> Seq(Goroutines)]
    <3>1. inbox' = [inbox EXCEPT ![bound[g]] = Append(inbox[bound[g]], g)]
      BY <1>g, <2>1 DEF UnparkInject
    <3>2. Append(inbox[bound[g]], g) \in Seq(Goroutines)
      BY <1>g, <2>2
    <3>3. QED
      BY <1>g, <2>1, <3>1, <3>2
  <2>5. QED
    BY <2>1, <2>2, <2>3, <2>4
<1>1. TypeOK'
  BY <1>inbox, <1>call, <1>g DEF IInv, TypeOK, NoCall, CallOp, UnparkInject
<1>2. QueuesDistinct'
  BY <1>inbox DEF IInv, PlacesInv, QueuesDistinct, UnparkInject
<1>3. InboxInv'
  <2>1. ~HasToken(g)'
    BY <1>g, <1>call DEF HasToken, Unparks, NoCall, UnparkInject
  <2>2. \A h \in Goroutines : ~HasToken(h) => ~HasToken(h)'
    BY <1>g, <1>call DEF HasToken, Unparks, NoCall, UnparkInject
  <2>3. \A w \in Workers : Range(inbox[w]) \subseteq Goroutines
    BY DEF IInv, TypeOK, Range
  <2>4. ASSUME NEW w \in Workers, NEW h \in Range(inbox'[w])
        PROVE  gpc'[h] \in ParkPC /\ bound'[h] = w /\ ~HasToken(h)'
    <3>1. gpc' = gpc /\ bound' = bound
      BY DEF UnparkInject
    <3>2. CASE h \in Range(inbox[w])
      BY <2>2, <2>3, <3>1, <3>2 DEF IInv, PlacesInv, InboxInv
    <3>3. CASE h \notin Range(inbox[w])
      BY <1>g, <1>inbox, <2>1, <3>1, <3>3
    <3>4. QED
      BY <3>2, <3>3
  <2>5. QED
    BY <2>4 DEF InboxInv
<1>4. WorkerInv'
  <2>1. \A h \in Goroutines : h # g => (Queued(h)' <=> Queued(h))
    <3>1. \A h \in Goroutines, w \in Workers :
            h # g => (h \in Range(inbox'[w]) <=> h \in Range(inbox[w]))
      BY <1>inbox
    <3>2. QED
      BY <3>1 DEF Queued, UnparkInject
  <2>2. \A h \in Goroutines : h # g => (HasToken(h)' <=> HasToken(h))
    BY <1>g, <1>call, SchedulerAssumption DEF HasToken, Unparks, NoCall, UnparkInject
  <2>3. \A w \in Workers : cur[w] # NoG => cur[w] \in Goroutines
    BY DEF IInv, TypeOK
  <2>4. \A w \in Workers : wpc[w] = "back" /\ cur[w] = g => gpc[cur[w]] = "parked"
    BY <1>g DEF IInv, PlacesInv, WorkerInv, ParkPC, BackPC
  <2>5. QED
    BY <1>g, <2>1, <2>2, <2>3, <2>4
       DEF IInv, PlacesInv, WorkerInv, UnparkInject
<1>5. HandleInv'
  BY SchedulerAssumption
     DEF IInv, PlacesInv, HandleInv, TypeOK, Unparks,
     ParkPC, UnparkInject, NoCall, runQueue
<1>6. CallTargetInv'
  BY SchedulerAssumption
     DEF IInv, PlacesInv, CallTargetInv, TypeOK,
     Unparks, ParkPC, UnparkInject, NoCall, runQueue
<1>7. OneCaller'
  BY SchedulerAssumption
     DEF IInv, PlacesInv, OneCaller, TypeOK,
     CallTargetInv, UnparkInject, NoCall, runQueue
<1>8. WakeInv'
  <2>1. Arriving(g)'
    BY <1>g, <1>inbox DEF Arriving
  <2>2. \A h \in Goroutines : h # g /\ HasToken(h) => HasToken(h)'
    BY <1>g, <1>call DEF HasToken, Unparks, UnparkInject
  <2>3. \A h \in Goroutines : Arriving(h) => Arriving(h)'
    BY <1>inbox DEF Arriving, UnparkInject
  <2>4. QED
    BY <2>1, <2>2, <2>3 DEF IInv, PlacesInv, WakeInv, UnparkInject
<1>9. CallInv'
  BY SchedulerAssumption
     DEF IInv, PlacesInv, CallInv, TypeOK, UnparkInject,
     NoCall, runQueue
<1>10. ItemsInv' /\ LocalInv' /\ OneWorker' /\ BoundInv' /\ StateInv'
       /\ YieldInv' /\ LifeInv'
  BY SchedulerAssumption
     DEF IInv, PlacesInv, ItemsInv, LocalInv, OneWorker,
     BoundInv, RunPC, BackPC, RunsOn, StateInv, ParkPC, YieldInv, LifeInv,
     Quiet, Deserted, UnparkInject, runQueue
<1>11. SpawnedInv'
  BY <1>g, <1>call, SchedulerAssumption
     DEF IInv, TypeOK, PlacesInv, SpawnedInv, UnparkInject
<1>12. QED
  BY <1>1, <1>2, <1>3, <1>4, <1>5, <1>6, <1>7, <1>8, <1>9, <1>10, <1>11 DEF PlacesInv

\* A running goroutine publishes its only wake-up.
LEMMA PublishStep ==
  ASSUME IInv, NEW g \in Goroutines, Publish(g)
  PROVE  TypeOK' /\ PlacesInv' /\ CallInv' /\ LifeInv'
<1> USE SchedulerAssumption DEF IInv, TypeOK, PlacesInv, runQueue, Publish,
   CanCall, NoCall
<1>1. TypeOK'
  BY DEF GoroutineState, GoroutinePC, WorkerPC, MainPC, CallOp, NoCall
<1>2. QueuesDistinct' /\ ItemsInv' /\ InboxInv' /\ LocalInv'
  BY DEF QueuesDistinct, ItemsInv, InboxInv, HasToken, Unparks, ParkPC, LocalInv
<1>3. WorkerInv' /\ OneWorker' /\ BoundInv'
  BY DEF WorkerInv, OneWorker, HasToken, Unparks, Queued, RunPC, BackPC, ParkPC,
     RunsOn, BoundInv
<1>4. CallTargetInv' /\ OneCaller' /\ SpawnedInv'
  BY DEF CallTargetInv, Unparks, ParkPC, OneCaller, SpawnedInv
<1>5. WakeInv'
  BY DEF WakeInv, HasToken, Arriving, Unparks, ParkPC
<1>6. StateInv' /\ YieldInv' /\ CallInv' /\ LifeInv'
  BY DEF StateInv, ParkPC, YieldInv, RunsOn, WorkerInv, CallInv, LifeInv, Quiet, Deserted
<1>7. HandleInv'
  <2>1. ~HasToken(g)
    BY UnqueuedFacts DEF ParkPC
  <2>2. \A h \in slots' : h \in Goroutines /\ gpc'[h] \in ParkPC
    BY DEF HandleInv, ParkPC
  <2>3. QED
    BY <2>1, <2>2 DEF HandleInv, HasToken, Unparks
<1>8. QED
  BY <1>1, <1>2, <1>3, <1>4, <1>5, <1>6, <1>7

\* Park suspends a goroutine whose wake-up is pending.
LEMMA ParkStep ==
  ASSUME IInv, NEW g \in Goroutines, Park(g)
  PROVE  TypeOK' /\ PlacesInv' /\ CallInv' /\ LifeInv'
<1> USE SchedulerAssumption DEF IInv, TypeOK, PlacesInv, runQueue, Park
<1>1. TypeOK'
  BY DEF GoroutineState, GoroutinePC, WorkerPC, MainPC, CallOp, NoCall
<1>2. QueuesDistinct' /\ ItemsInv' /\ InboxInv' /\ LocalInv'
  BY DEF QueuesDistinct, ItemsInv, InboxInv, HasToken, Unparks, ParkPC, LocalInv
<1>3. WorkerInv' /\ OneWorker' /\ BoundInv'
  BY DEF WorkerInv, OneWorker, HasToken, Unparks, Queued, RunPC, BackPC, ParkPC,
     RunsOn, BoundInv
<1>4. HandleInv' /\ CallTargetInv' /\ OneCaller' /\ SpawnedInv'
  BY DEF HandleInv, Unparks, ParkPC, CallTargetInv, OneCaller, SpawnedInv
<1>5. WakeInv'
  BY DEF WakeInv, HasToken, Arriving, Unparks, ParkPC
<1>6. StateInv' /\ YieldInv' /\ CallInv' /\ LifeInv'
  BY DEF StateInv, ParkPC, YieldInv, RunsOn, WorkerInv, CallInv, LifeInv, Quiet, Deserted
<1>7. QED
  BY <1>1, <1>2, <1>3, <1>4, <1>5, <1>6

\* Yield suspends a goroutine that is queued nowhere.
LEMMA YieldStep ==
  ASSUME IInv, NEW g \in Goroutines, Yield(g)
  PROVE  TypeOK' /\ PlacesInv' /\ CallInv' /\ LifeInv'
<1> USE SchedulerAssumption DEF IInv, TypeOK, PlacesInv, runQueue, Yield, CanCall,
   NoCall
<1>1. TypeOK'
  BY DEF GoroutineState, GoroutinePC, WorkerPC, MainPC, CallOp, NoCall
<1>2. QueuesDistinct' /\ ItemsInv' /\ InboxInv' /\ LocalInv'
  BY DEF QueuesDistinct, ItemsInv, InboxInv, HasToken, Unparks, ParkPC, LocalInv
<1>3. WorkerInv' /\ OneWorker' /\ BoundInv'
  BY DEF WorkerInv, OneWorker, HasToken, Unparks, Queued, RunPC, BackPC, ParkPC,
     RunsOn, BoundInv
<1>4. HandleInv' /\ CallTargetInv' /\ OneCaller' /\ SpawnedInv'
  BY DEF HandleInv, Unparks, ParkPC, CallTargetInv, OneCaller, SpawnedInv
<1>5. WakeInv'
  BY DEF WakeInv, HasToken, Arriving, Unparks, ParkPC
<1>6. StateInv' /\ YieldInv' /\ CallInv' /\ LifeInv'
  BY DEF StateInv, ParkPC, YieldInv, RunsOn, WorkerInv, CallInv, LifeInv, Quiet, Deserted
<1>7. QED
  BY <1>1, <1>2, <1>3, <1>4, <1>5, <1>6

\* A finished goroutine is queued nowhere.
LEMMA FinishStep ==
  ASSUME IInv, NEW g \in Goroutines, Finish(g)
  PROVE  TypeOK' /\ PlacesInv' /\ CallInv' /\ LifeInv'
<1> USE SchedulerAssumption DEF IInv, TypeOK, PlacesInv, runQueue, Finish,
   CanCall, NoCall
<1>1. TypeOK'
  BY DEF GoroutineState, GoroutinePC, WorkerPC, MainPC, CallOp, NoCall
<1>2. QueuesDistinct' /\ ItemsInv' /\ InboxInv' /\ LocalInv'
  BY DEF QueuesDistinct, ItemsInv, InboxInv, HasToken, Unparks, ParkPC, LocalInv
<1>3. WorkerInv' /\ OneWorker' /\ BoundInv'
  BY DEF WorkerInv, OneWorker, HasToken, Unparks, Queued, RunPC, BackPC, ParkPC,
     RunsOn, BoundInv
<1>4. HandleInv' /\ CallTargetInv' /\ OneCaller' /\ SpawnedInv'
  BY DEF HandleInv, Unparks, ParkPC, CallTargetInv, OneCaller, SpawnedInv
<1>5. WakeInv'
  BY DEF WakeInv, HasToken, Arriving, Unparks, ParkPC
<1>6. StateInv' /\ YieldInv' /\ CallInv' /\ LifeInv'
  BY DEF StateInv, ParkPC, YieldInv, RunsOn, WorkerInv, CallInv, LifeInv, Quiet, Deserted
<1>7. QED
  BY <1>1, <1>2, <1>3, <1>4, <1>5, <1>6

\* The worker gets its thread back.
LEMMA SwitchOutStep ==
  ASSUME IInv, NEW w \in Workers, SwitchOut(w)
  PROVE  TypeOK' /\ PlacesInv' /\ CallInv' /\ LifeInv'
<1> USE SchedulerAssumption DEF IInv, TypeOK, PlacesInv, runQueue, SwitchOut, SwitchPC
<1>g. PICK g \in Goroutines :
        /\ g = cur[w] /\ gpc[g] \in SwitchPC
        /\ \A v \in Workers : v # w => cur[v] # g
  BY HolderFacts
<1>gpc. /\ gpc'[g] \in BackPC
        /\ gpc[g] = "parkswitch"  => gpc'[g] = "parked"
        /\ gpc[g] = "yieldswitch" => gpc'[g] = "yielded"
        /\ gpc[g] = "doneswitch"  => gpc'[g] = "finished"
        /\ \A h \in Goroutines : h # g => gpc'[h] = gpc[h]
  BY <1>g DEF BackPC
<1>1. TypeOK'
  BY DEF GoroutineState, GoroutinePC, WorkerPC, MainPC, CallOp, NoCall
<1>2. QueuesDistinct' /\ ItemsInv' /\ InboxInv' /\ LocalInv'
  BY DEF QueuesDistinct, ItemsInv, InboxInv, HasToken, Unparks, ParkPC, LocalInv
<1>3. OneWorker' /\ BoundInv'
  BY DEF OneWorker, WorkerInv, BoundInv, RunPC, BackPC, RunsOn
<1>4. HandleInv' /\ CallTargetInv' /\ OneCaller'
  BY DEF HandleInv, Unparks, ParkPC, CallTargetInv, OneCaller
<1>5. WakeInv'
  BY DEF WakeInv, HasToken, Arriving, Unparks, ParkPC
<1>6. StateInv' /\ CallInv'
  BY DEF StateInv, ParkPC, CallInv
<1>life. LifeInv'
  <2>1. gpc[g] # "freed" /\ ~Quiet
    BY <1>g DEF Quiet
  <2>2. \A v \in Workers : Deserted(v) => Deserted(v)'
    BY <1>gpc, <2>1 DEF Deserted
  <2>3. wpc'[w] = "back" /\ \A v \in Workers : v # w => wpc'[v] = wpc[v]
    OBVIOUS
  <2>4. QED
    BY <2>1, <2>2, <2>3 DEF LifeInv
<1>7. WorkerInv'
  <2>1. \A h \in Goroutines : Queued(h)' <=> Queued(h)
    BY DEF Queued
  <2>2. \A h \in Goroutines : HasToken(h)' <=> HasToken(h)
    BY DEF HasToken, Unparks
  <2>3. \A v \in Workers : cur[v] # NoG => cur[v] \in Goroutines
    OBVIOUS
  <2>4. gpc[g] # "parkswitch" => ~Queued(g)
    BY <1>g, UnqueuedFacts DEF ParkPC
  <2>5. \A v \in Workers : wpc'[v] = IF v = w THEN "back" ELSE wpc[v]
    OBVIOUS
  <2>6. QED
    BY <1>g, <1>gpc, <2>1, <2>2, <2>3, <2>4, <2>5 DEF WorkerInv
<1>8. YieldInv'
  <2>1. \A v \in Workers : v # w /\ wpc'[v] = "back" => cur[v] \in Goroutines
        /\ cur[v] # g
    BY <1>g, HolderFacts
  <2>2. gpc'[g] = "yielded" => state[g] = "YIELDED"
    BY <1>g, <1>gpc DEF StateInv
  <2>3. QED
    BY <1>g, <1>gpc, <2>1, <2>2 DEF YieldInv
<1>9. SpawnedInv'
  BY <1>g, <1>gpc DEF SpawnedInv, BackPC
<1>10. QED
  BY <1>1, <1>2, <1>3, <1>4, <1>5, <1>6, <1>life, <1>7, <1>8, <1>9

\* A goroutine taken from Local is in no queue any more.
LEMMA PopLocalStep ==
  ASSUME IInv, NEW w \in Workers, PopLocal(w)
  PROVE  TypeOK' /\ PlacesInv' /\ CallInv' /\ LifeInv'
<1>g. PICK g \in Goroutines : g = Head(local[w]) /\ g \in Range(local[w])
  BY RangeTail DEF IInv, TypeOK, PopLocal
<1>queue. /\ local' \in [Workers -> Seq(Goroutines)]
          /\ \A v \in Workers : IsInjective(local'[v])
          /\ \A v \in Workers : Range(local'[v]) = Range(local[v]) \ (IF v = w THEN {g} ELSE {})
  <2>1. local \in [Workers -> Seq(Goroutines)] /\ local[w] # <<>>
        /\ \A v \in Workers : IsInjective(local[v])
    BY DEF IInv, TypeOK, PlacesInv, QueuesDistinct, PopLocal
  <2>2. /\ Tail(local[w]) \in Seq(Goroutines)
        /\ Range(local[w]) = Range(Tail(local[w])) \cup {g}
        /\ IsInjective(Tail(local[w])) /\ g \notin Range(Tail(local[w]))
    BY <1>g, <2>1, RangeTail, InjectiveTail
  <2>3. local' = [local EXCEPT ![w] = Tail(local[w])]
    BY <2>1 DEF PopLocal
  <2>4. QED
    BY <2>1, <2>2, <2>3
<1>cur. /\ \A v \in Workers : cur'[v] = IF v = w THEN g ELSE cur[v]
        /\ \A v \in Workers : wpc'[v] = IF v = w THEN "popped" ELSE wpc[v]
  BY <1>g DEF IInv, TypeOK, PopLocal, Take
<1>free. /\ gpc[g] \in {"yielded"}
         /\ \A v \in Workers : cur[v] # g
  <2>1. gpc[g] \in {"yielded"} /\ bound[g] = w
    BY <1>g DEF IInv, PlacesInv, LocalInv
  <2>2. \A v \in Workers : cur[v] # g
    <3>1. Queued(g) /\ wpc[w] = "loop"
      BY <1>g DEF Queued, PopLocal
    <3>2. ASSUME NEW v \in Workers, cur[v] = g PROVE FALSE
      <4>1. wpc[v] \in {"popped", "switched", "back"}
        BY <3>2, SchedulerAssumption DEF IInv, PlacesInv, WorkerInv
      <4>2. QED
        BY <2>1, <3>1, <3>2, <4>1
           DEF IInv, PlacesInv, WorkerInv, RunPC, BackPC, ParkPC
    <3>3. QED
      BY <3>2
  <2>3. QED
    BY <2>1, <2>2
<1>1. TypeOK'
    BY <1>queue, <1>g, SchedulerAssumption DEF IInv, PlacesInv, TypeOK,
       GoroutineState,
     GoroutinePC, WorkerPC, MainPC, CallOp, NoCall, PopLocal, Take, runQueue
<1>2. QueuesDistinct'
  BY <1>queue DEF IInv, PlacesInv, QueuesDistinct, PopLocal, runQueue
<1>3. LocalInv'
  BY <1>queue DEF IInv, PlacesInv, LocalInv, PopLocal
<1>4. WorkerInv'
  <2>1. gpc[g] # "entry" => bound[g] = w
    BY <1>g, <1>free DEF IInv, PlacesInv, InboxInv, LocalInv
  <2>2. ~Queued(g)'
    BY <1>g, <1>queue, <1>free
       DEF IInv, PlacesInv, ItemsInv, InboxInv, LocalInv, Queued, ParkPC,
          PopLocal, runQueue
  <2>3. ~HasToken(g)'
    BY <1>g, <1>free
       DEF IInv, PlacesInv, InboxInv, HandleInv, CallTargetInv, HasToken, Unparks,
           ParkPC, PopLocal
  <2>4. \A h \in Goroutines : ~Queued(h) => ~Queued(h)'
    BY <1>queue DEF Queued, PopLocal, runQueue
  <2>5. \A h \in Goroutines : HasToken(h)' <=> HasToken(h)
    BY DEF HasToken, Unparks, PopLocal
  <2>6. \A v \in Workers : cur[v] # NoG => cur[v] \in Goroutines
    BY DEF IInv, TypeOK
  <2>7. QED
    BY <1>g, <1>cur, <1>free, <2>1, <2>2, <2>3, <2>4, <2>5, <2>6, SchedulerAssumption
       DEF IInv, PlacesInv, WorkerInv, PopLocal
<1>5. OneWorker'
  BY <1>cur, <1>free DEF IInv, PlacesInv, OneWorker
<1>6. BoundInv'
  BY SchedulerAssumption
     DEF IInv, PlacesInv, BoundInv, TypeOK, RunPC,
     BackPC, RunsOn, WorkerInv, PopLocal, Take, runQueue
<1>7. WakeInv'
  BY SchedulerAssumption
     DEF IInv, PlacesInv, WakeInv, TypeOK, HasToken,
     Arriving, Unparks, ParkPC, PopLocal, Take, runQueue
<1>8. YieldInv'
  BY SchedulerAssumption
     DEF IInv, PlacesInv, YieldInv, TypeOK, RunsOn,
     WorkerInv, PopLocal, Take, runQueue
<1>9. LifeInv'
  BY SchedulerAssumption
     DEF IInv, PlacesInv, LifeInv, TypeOK, Quiet, Deserted,
     PopLocal, Take, runQueue
<1>10. ItemsInv' /\ InboxInv' /\ HandleInv' /\ CallTargetInv' /\ OneCaller'
       /\ StateInv' /\ CallInv'
  BY SchedulerAssumption
     DEF IInv, PlacesInv, ItemsInv, InboxInv, HasToken,
     Unparks, ParkPC, HandleInv, CallTargetInv, OneCaller, StateInv, CallInv,
     PopLocal, Take, runQueue
<1>11. SpawnedInv'
  BY SchedulerAssumption
     DEF IInv, TypeOK, PlacesInv, SpawnedInv, PopLocal, Take
<1>12. QED
  BY <1>1, <1>2, <1>3, <1>4, <1>5, <1>6, <1>7, <1>8, <1>9, <1>10, <1>11 DEF PlacesInv

\* A goroutine taken from an Inbox is parked, off every stack and in no queue.
LEMMA PopInboxStep ==
  ASSUME IInv, NEW w \in Workers, PopInbox(w)
  PROVE  TypeOK' /\ PlacesInv' /\ CallInv' /\ LifeInv'
<1>g. PICK g \in Goroutines : g = Head(inbox[w]) /\ g \in Range(inbox[w])
  BY RangeTail DEF IInv, TypeOK, PopInbox
<1>queue. /\ inbox' \in [Workers -> Seq(Goroutines)]
          /\ \A v \in Workers : IsInjective(inbox'[v])
          /\ \A v \in Workers : Range(inbox'[v]) = Range(inbox[v]) \ (IF v = w THEN {g} ELSE {})
  <2>1. inbox \in [Workers -> Seq(Goroutines)] /\ inbox[w] # <<>>
        /\ \A v \in Workers : IsInjective(inbox[v])
    BY DEF IInv, TypeOK, PlacesInv, QueuesDistinct, PopInbox
  <2>2. /\ Tail(inbox[w]) \in Seq(Goroutines)
        /\ Range(inbox[w]) = Range(Tail(inbox[w])) \cup {g}
        /\ IsInjective(Tail(inbox[w])) /\ g \notin Range(Tail(inbox[w]))
    BY <1>g, <2>1, RangeTail, InjectiveTail
  <2>3. inbox' = [inbox EXCEPT ![w] = Tail(inbox[w])]
    BY <2>1 DEF PopInbox
  <2>4. QED
    BY <2>1, <2>2, <2>3
<1>cur. /\ \A v \in Workers : cur'[v] = IF v = w THEN g ELSE cur[v]
        /\ \A v \in Workers : wpc'[v] = IF v = w THEN "popped" ELSE wpc[v]
  BY <1>g DEF IInv, TypeOK, PopInbox, Take
<1>free. /\ gpc[g] \in {"parked"}
         /\ \A v \in Workers : cur[v] # g
  <2>1. gpc[g] \in ParkPC /\ bound[g] = w
    BY <1>g DEF IInv, PlacesInv, InboxInv
  <2>2. \A v \in Workers : cur[v] # g
    <3>1. Queued(g) /\ wpc[w] = "loop"
      BY <1>g DEF Queued, PopInbox
    <3>2. ASSUME NEW v \in Workers, cur[v] = g PROVE FALSE
      <4>1. wpc[v] \in {"popped", "switched", "back"}
        BY <3>2, SchedulerAssumption DEF IInv, PlacesInv, WorkerInv
      <4>2. QED
        BY <2>1, <3>1, <3>2, <4>1
           DEF IInv, PlacesInv, WorkerInv, RunPC, BackPC, ParkPC
    <3>3. QED
      BY <3>2
  <2>3. QED
    BY <2>1, <2>2, <1>g DEF IInv, PlacesInv, BoundInv, ParkPC, RunPC, RunsOn, PopInbox
<1>1. TypeOK'
    BY <1>queue, <1>g, SchedulerAssumption DEF IInv, PlacesInv, TypeOK,
       GoroutineState,
     GoroutinePC, WorkerPC, MainPC, CallOp, NoCall, PopInbox, Take, runQueue
<1>2. QueuesDistinct'
  BY <1>queue DEF IInv, PlacesInv, QueuesDistinct, PopInbox
<1>3. InboxInv'
  BY <1>queue DEF IInv, PlacesInv, InboxInv, HasToken, Unparks, PopInbox
<1>4. WorkerInv'
  <2>1. gpc[g] # "entry" => bound[g] = w
    BY <1>g, <1>free DEF IInv, PlacesInv, InboxInv, LocalInv
  <2>2. ~Queued(g)'
    <3>1. g \notin Range(items) /\ \A v \in Workers : g \notin Range(local[v])
      BY <1>free DEF IInv, PlacesInv, ItemsInv, LocalInv
    <3>2. \A v \in Workers : g \in Range(inbox[v]) => v = w
      BY <1>g, SchedulerAssumption DEF IInv, PlacesInv, InboxInv
    <3>3. \A v \in Workers : g \notin Range(inbox'[v])
      BY <1>queue, <3>2
    <3>4. items' = items /\ local' = local
      BY DEF PopInbox
    <3>5. QED
      BY <3>1, <3>3, <3>4 DEF Queued
  <2>3. ~HasToken(g)'
    BY <1>g, <1>free
       DEF IInv, PlacesInv, InboxInv, HandleInv, CallTargetInv, HasToken, Unparks,
           ParkPC, PopInbox
  <2>4. \A h \in Goroutines : ~Queued(h) => ~Queued(h)'
    BY <1>queue DEF Queued, PopInbox
  <2>5. \A h \in Goroutines : HasToken(h)' <=> HasToken(h)
    BY DEF HasToken, Unparks, PopInbox
  <2>6. \A v \in Workers : cur[v] # NoG => cur[v] \in Goroutines
    BY DEF IInv, TypeOK
  <2>7. QED
    BY <1>g, <1>cur, <1>free, <2>1, <2>2, <2>3, <2>4, <2>5, <2>6, SchedulerAssumption
       DEF IInv, PlacesInv, WorkerInv, PopInbox
<1>5. OneWorker'
  BY <1>cur, <1>free DEF IInv, PlacesInv, OneWorker
<1>6. BoundInv'
  BY SchedulerAssumption
     DEF IInv, PlacesInv, BoundInv, TypeOK, RunPC,
     BackPC, RunsOn, WorkerInv, PopInbox, Take, runQueue
<1>7. WakeInv'
  <2>1. Arriving(g)'
    BY <1>cur DEF Arriving
  <2>2. \A h \in Goroutines : h # g /\ Arriving(h) => Arriving(h)'
    BY <1>queue, <1>cur DEF Arriving, PopInbox
  <2>3. \A h \in Goroutines : HasToken(h)' <=> HasToken(h)
    BY DEF HasToken, Unparks, PopInbox
  <2>4. QED
    BY <2>1, <2>2, <2>3 DEF IInv, PlacesInv, WakeInv, PopInbox
<1>8. YieldInv'
  BY SchedulerAssumption
     DEF IInv, PlacesInv, YieldInv, TypeOK, RunsOn,
     WorkerInv, PopInbox, Take, runQueue
<1>9. LifeInv'
  BY SchedulerAssumption
     DEF IInv, PlacesInv, LifeInv, TypeOK, Quiet, Deserted,
     PopInbox, Take, runQueue
<1>10. ItemsInv' /\ LocalInv' /\ HandleInv' /\ CallTargetInv' /\ OneCaller'
       /\ StateInv' /\ CallInv'
  BY SchedulerAssumption
     DEF IInv, PlacesInv, ItemsInv, LocalInv, HandleInv,
     Unparks, ParkPC, CallTargetInv, OneCaller, StateInv, CallInv, PopInbox,
     Take, runQueue
<1>11. SpawnedInv'
  BY SchedulerAssumption
     DEF IInv, TypeOK, PlacesInv, SpawnedInv, PopInbox, Take
<1>12. QED
  BY <1>1, <1>2, <1>3, <1>4, <1>5, <1>6, <1>7, <1>8, <1>9, <1>10, <1>11 DEF PlacesInv

\* A goroutine taken from Items has never run.
LEMMA PopItemStep ==
  ASSUME IInv, NEW w \in Workers, PopItem(w)
  PROVE  TypeOK' /\ PlacesInv' /\ CallInv' /\ LifeInv'
<1> USE SchedulerAssumption DEF IInv, TypeOK, PlacesInv, runQueue, PopItem, Take
<1>g. PICK g \in Goroutines : g = Head(items) /\ g \in Range(items)
  BY RangeTail
<1>queue. /\ items' \in Seq(Goroutines) /\ IsInjective(items')
          /\ Range(items') = Range(items) \ {g}
  <2>1. items \in Seq(Goroutines) /\ items # <<>> /\ IsInjective(items)
    BY DEF QueuesDistinct
  <2>2. QED
    BY <1>g, <2>1, RangeTail, InjectiveTail
<1>cur. /\ \A v \in Workers : cur'[v] = IF v = w THEN g ELSE cur[v]
        /\ \A v \in Workers : wpc'[v] = IF v = w THEN "popped" ELSE wpc[v]
  BY <1>g
<1>free. /\ gpc[g] \in {"entry"}
         /\ \A v \in Workers : cur[v] # g
  <2>1. gpc[g] \in {"entry"}
    BY <1>g DEF ItemsInv
  <2>2. \A v \in Workers : cur[v] # g
    <3>1. Queued(g) /\ wpc[w] = "loop"
      BY <1>g DEF Queued
    <3>2. ASSUME NEW v \in Workers, cur[v] = g PROVE FALSE
      <4>1. wpc[v] \in {"popped", "switched", "back"}
        BY <3>2 DEF WorkerInv
      <4>2. QED
        BY <2>1, <3>1, <3>2, <4>1 DEF WorkerInv, RunPC, BackPC, ParkPC
    <3>3. QED
      BY <3>2
  <2>3. QED
    BY <2>1, <2>2
<1>1. InboxInv' /\ LocalInv'
  BY DEF InboxInv, HasToken, Unparks, ParkPC, LocalInv
<1>2. BoundInv'
  BY DEF BoundInv, RunPC, BackPC, RunsOn, WorkerInv
<1>3. HandleInv' /\ CallTargetInv' /\ OneCaller' /\ SpawnedInv'
  BY DEF HandleInv, Unparks, ParkPC, CallTargetInv, OneCaller, SpawnedInv
<1>4. WakeInv'
  BY DEF WakeInv, HasToken, Arriving, Unparks, ParkPC
<1>5. StateInv' /\ YieldInv' /\ CallInv' /\ LifeInv'
  BY DEF StateInv, ParkPC, YieldInv, RunsOn, WorkerInv, CallInv, LifeInv, Quiet, Deserted
<1>6. TypeOK'
    BY <1>queue, <1>g DEF GoroutineState, GoroutinePC, WorkerPC, MainPC, CallOp,
       NoCall
<1>7. QueuesDistinct'
  BY <1>queue DEF QueuesDistinct
<1>8. ItemsInv'
  BY <1>queue DEF ItemsInv
<1>9. WorkerInv'
  <2>1. gpc[g] # "entry" => bound[g] = w
    BY <1>g, <1>free DEF InboxInv, LocalInv
  <2>2. ~Queued(g)'
    BY <1>g, <1>queue, <1>free DEF ItemsInv, InboxInv, LocalInv, Queued, ParkPC
  <2>3. ~HasToken(g)'
    BY <1>g, <1>free DEF InboxInv, HandleInv, CallTargetInv, HasToken, Unparks,
       ParkPC
  <2>4. \A h \in Goroutines : ~Queued(h) => ~Queued(h)'
    BY <1>queue DEF Queued
  <2>5. \A h \in Goroutines : HasToken(h)' <=> HasToken(h)
    BY DEF HasToken, Unparks
  <2>6. \A v \in Workers : cur[v] # NoG => cur[v] \in Goroutines
    OBVIOUS
  <2>7. QED
    BY <1>g, <1>cur, <1>free, <2>1, <2>2, <2>3, <2>4, <2>5, <2>6 DEF WorkerInv
<1>10. OneWorker'
  BY <1>cur, <1>free DEF OneWorker
<1>11. QED
  BY <1>1, <1>2, <1>3, <1>4, <1>5, <1>6, <1>7, <1>8, <1>9, <1>10

\* A worker stops only when no goroutine is left to run.
LEMMA PopStopStep ==
  ASSUME IInv, NEW w \in Workers, PopStop(w)
  PROVE  TypeOK' /\ PlacesInv' /\ CallInv' /\ LifeInv'
<1> USE SchedulerAssumption DEF IInv, TypeOK, PlacesInv, runQueue, PopStop
<1>1. TypeOK'
  BY DEF GoroutineState, GoroutinePC, WorkerPC, MainPC, CallOp, NoCall
<1>2. QueuesDistinct' /\ ItemsInv' /\ InboxInv' /\ LocalInv'
  BY DEF QueuesDistinct, ItemsInv, InboxInv, HasToken, Unparks, ParkPC, LocalInv
<1>3. WorkerInv' /\ OneWorker' /\ BoundInv'
  BY DEF WorkerInv, OneWorker, HasToken, Unparks, Queued, RunPC, BackPC, ParkPC,
     RunsOn, BoundInv
<1>4. HandleInv' /\ CallTargetInv' /\ OneCaller' /\ SpawnedInv'
  BY DEF HandleInv, Unparks, ParkPC, CallTargetInv, OneCaller, SpawnedInv
<1>5. WakeInv'
  BY DEF WakeInv, HasToken, Arriving, Unparks, ParkPC
<1>6. StateInv' /\ YieldInv' /\ CallInv'
  BY DEF StateInv, ParkPC, YieldInv, RunsOn, WorkerInv, CallInv
<1>7. LifeInv'
  <2>1. /\ \A v \in Workers : Deserted(v)
        /\ HelperSpawns \/ Alive = {}
        /\ inFlight = 0
    BY NothingInFlight
  <2>2. mpc = "draining"
    BY DEF MainPC, LifeInv
  <2>3. ASSUME ~HelperSpawns, NEW g \in Goroutines PROVE gpc[g] \in {"none", "freed"}
    <3>1. gpc[g] \in {"none", "made", "freed"}
      BY <2>1, <2>3 DEF Alive
    <3>2. ASSUME gpc[g] = "made" PROVE FALSE
      <4>1. PICK c \in Callers : call[c].op = "spawn" /\ call[c].g = g
        BY <3>2 DEF SpawnedInv
      <4>2. c \in Goroutines /\ gpc[c] = "body"
        BY <2>2, <2>3, <4>1 DEF CallInv, Callers
      <4>3. QED
        BY <2>1, <2>3, <4>2 DEF Alive
    <3>3. QED
      BY <3>1, <3>2
  <2>4. HelperSpawns \/ Quiet'
    BY <2>1, <2>3 DEF Quiet
  <2>5. \A v \in Workers : Deserted(v)'
    BY <2>1 DEF Deserted
  <2>6. QED
    BY <2>2, <2>4, <2>5 DEF LifeInv
<1>8. QED
  BY <1>1, <1>2, <1>3, <1>4, <1>5, <1>6, <1>7

\* The first switch binds a goroutine, later ones find it bound.
LEMMA SwitchInStep ==
  ASSUME IInv, NEW w \in Workers, SwitchIn(w)
  PROVE  TypeOK' /\ PlacesInv' /\ CallInv' /\ LifeInv'
<1> USE SchedulerAssumption DEF IInv, TypeOK, PlacesInv, runQueue, SwitchIn
<1>g. PICK g \in Goroutines :
        /\ g = cur[w] /\ gpc[g] \in {"entry", "parked", "yielded"}
        /\ gpc[g] # "entry" => bound[g] = w
        /\ ~Queued(g) /\ ~HasToken(g)
        /\ \A v \in Workers : v # w => cur[v] # g
  BY HolderFacts DEF WorkerInv
<1>bound. /\ bound'[g] = w
          /\ \A h \in Goroutines : h # g => bound'[h] = bound[h]
  BY <1>g DEF BoundInv
<1>gpc. \A h \in Goroutines : gpc'[h] = IF h = g THEN "body" ELSE gpc[h]
  BY <1>g
<1>same. /\ \A h \in Goroutines : Queued(h)' <=> Queued(h)
         /\ \A h \in Goroutines : HasToken(h)' <=> HasToken(h)
         /\ Range(items) \subseteq Goroutines
         /\ \A v \in Workers : Range(inbox[v]) \cup Range(local[v]) \subseteq Goroutines
  <2>1. \A h \in Goroutines : Queued(h)' <=> Queued(h)
    BY DEF Queued
  <2>2. \A h \in Goroutines : HasToken(h)' <=> HasToken(h)
    BY DEF HasToken, Unparks
  <2>3. QED
    BY <2>1, <2>2 DEF Range
<1>1. TypeOK'
  BY DEF GoroutineState, GoroutinePC, WorkerPC, MainPC, CallOp, NoCall
<1>2. QueuesDistinct'
  BY DEF QueuesDistinct
<1>3. OneWorker' /\ BoundInv'
  BY DEF OneWorker, WorkerInv, BoundInv, RunPC, BackPC, RunsOn
<1>4. OneCaller' /\ SpawnedInv'
  BY DEF OneCaller, CallTargetInv, SpawnedInv
<1>5. WakeInv'
  BY DEF WakeInv, HasToken, Arriving, Unparks, ParkPC
<1>6. StateInv' /\ YieldInv' /\ CallInv'
  BY DEF StateInv, ParkPC, YieldInv, RunsOn, WorkerInv, CallInv
<1>7. ItemsInv'
  BY <1>g, <1>gpc, <1>same DEF ItemsInv, Queued
<1>8. InboxInv'
  BY <1>g, <1>gpc, <1>bound, <1>same DEF InboxInv, Queued
<1>9. LocalInv'
  BY <1>g, <1>gpc, <1>bound, <1>same DEF LocalInv, Queued
<1>10. WorkerInv'
  <2>1. \A v \in Workers : wpc'[v] = IF v = w THEN "switched" ELSE wpc[v]
    OBVIOUS
  <2>2. \A v \in Workers : cur[v] # NoG => cur[v] \in Goroutines
    OBVIOUS
  <2>3. QED
    BY <1>g, <1>bound, <1>gpc, <1>same, <2>1, <2>2 DEF WorkerInv, RunPC
<1>11. HandleInv'
  BY <1>g, <1>gpc DEF HandleInv, HasToken, Unparks
<1>12. CallTargetInv'
  BY <1>g, <1>gpc DEF CallOp, CallTargetInv, HasToken, Unparks
<1>13. LifeInv'
  <2>1. HelperSpawns \/ mpc = "up" \/ mpc = "draining"
    BY <1>g DEF MainPC, LifeInv, Quiet
  <2>2. ASSUME NEW v \in Workers, v # w, Deserted(v) PROVE Deserted(v)'
    BY <1>bound, <1>gpc, <2>2 DEF Deserted
  <2>3. /\ wpc'[w] = "switched" /\ \A v \in Workers : v # w => wpc'[v] = wpc[v]
        /\ ~Quiet
    BY <1>g DEF Quiet
  <2>4. QED
    BY <2>1, <2>2, <2>3 DEF LifeInv
<1>14. QED
  BY <1>1, <1>2, <1>3, <1>4, <1>5, <1>6, <1>7, <1>8, <1>9, <1>10, <1>11, <1>12,
     <1>13

\* A yielded goroutine joins the worker's own list, where it was not.
LEMMA ClassifyYieldedStep ==
  ASSUME IInv, NEW w \in Workers, ClassifyYielded(w)
  PROVE  TypeOK' /\ PlacesInv' /\ CallInv' /\ LifeInv'
<1> USE SchedulerAssumption DEF IInv, TypeOK, PlacesInv, runQueue,
   ClassifyYielded, Release
<1>g. PICK g \in Goroutines :
        /\ g = cur[w] /\ gpc[g] = "yielded" /\ bound[g] = w /\ ~Queued(g)
        /\ \A v \in Workers : v # w => cur[v] # g
  <2>1. cur[w] \in Goroutines /\ \A v \in Workers : v # w => cur[v] # cur[w]
    BY HolderFacts
  <2>2. gpc[cur[w]] \in BackPC /\ bound[cur[w]] = w
    BY DEF WorkerInv
  <2>3. gpc[cur[w]] = "yielded"
    BY <2>1, <2>2 DEF StateInv, BackPC
  <2>4. QED
    BY <2>1, <2>2, <2>3 DEF WorkerInv
<1>queue. /\ local' \in [Workers -> Seq(Goroutines)]
          /\ \A v \in Workers : IsInjective(local'[v])
          /\ \A v \in Workers : Range(local'[v]) = Range(local[v]) \cup (IF v = w THEN {g} ELSE {})
  <2>1. local \in [Workers -> Seq(Goroutines)] /\ g \notin Range(local[w])
        /\ \A v \in Workers : IsInjective(local[v])
    BY <1>g DEF QueuesDistinct, Queued
  <2>2. /\ Append(local[w], g) \in Seq(Goroutines)
        /\ Range(Append(local[w], g)) = Range(local[w]) \cup {g}
        /\ IsInjective(Append(local[w], g))
    BY <1>g, <2>1, RangeAppend, InjectiveAppend
  <2>3. local' = [local EXCEPT ![w] = Append(local[w], g)]
    BY <1>g, <2>1
  <2>4. QED
    BY <2>1, <2>2, <2>3
<1>1. ItemsInv' /\ InboxInv'
  BY DEF ItemsInv, InboxInv, HasToken, Unparks, ParkPC
<1>2. OneWorker' /\ BoundInv'
  BY DEF OneWorker, WorkerInv, BoundInv, RunPC, BackPC, RunsOn
<1>3. HandleInv' /\ CallTargetInv' /\ OneCaller' /\ SpawnedInv'
  BY DEF HandleInv, Unparks, ParkPC, CallTargetInv, OneCaller, SpawnedInv
<1>4. WakeInv'
  BY DEF WakeInv, HasToken, Arriving, Unparks, ParkPC
<1>5. YieldInv' /\ CallInv' /\ LifeInv'
  BY DEF YieldInv, RunsOn, WorkerInv, CallInv, LifeInv, Quiet, Deserted
<1>6. TypeOK'
    BY <1>queue, <1>g DEF GoroutineState, GoroutinePC, WorkerPC, MainPC, CallOp,
       NoCall
<1>7. QueuesDistinct'
  BY <1>queue DEF QueuesDistinct
<1>8. LocalInv'
  BY <1>g, <1>queue DEF LocalInv
<1>9. WorkerInv'
  <2>1. \A h \in Goroutines : h # g => (Queued(h)' <=> Queued(h))
    BY <1>queue DEF Queued
  <2>2. \A h \in Goroutines : HasToken(h)' <=> HasToken(h)
    BY DEF HasToken, Unparks
  <2>3. \A v \in Workers : cur[v] # NoG => cur[v] \in Goroutines
    OBVIOUS
  <2>4. /\ \A v \in Workers : cur'[v] = IF v = w THEN NoG ELSE cur[v]
        /\ \A v \in Workers : wpc'[v] = IF v = w THEN "loop" ELSE wpc[v]
    OBVIOUS
  <2>5. QED
    BY <1>g, <2>1, <2>2, <2>3, <2>4 DEF WorkerInv
<1>10. StateInv'
  BY <1>g DEF StateInv
<1>11. QED
  BY <1>1, <1>2, <1>3, <1>4, <1>5, <1>6, <1>7, <1>8, <1>9, <1>10

\* A parked goroutine is left to its unparker.
LEMMA ClassifyParkedStep ==
  ASSUME IInv, NEW w \in Workers, ClassifyParked(w)
  PROVE  TypeOK' /\ PlacesInv' /\ CallInv' /\ LifeInv'
<1> USE SchedulerAssumption DEF IInv, TypeOK, PlacesInv, runQueue, ClassifyParked,
   Release
<1>1. TypeOK'
  BY DEF GoroutineState, GoroutinePC, WorkerPC, MainPC, CallOp, NoCall
<1>2. QueuesDistinct' /\ ItemsInv' /\ InboxInv' /\ LocalInv'
  BY DEF QueuesDistinct, ItemsInv, InboxInv, HasToken, Unparks, ParkPC, LocalInv
<1>3. WorkerInv' /\ OneWorker' /\ BoundInv'
  BY DEF WorkerInv, OneWorker, HasToken, Unparks, Queued, RunPC, BackPC, ParkPC,
     RunsOn, BoundInv
<1>4. HandleInv' /\ CallTargetInv' /\ OneCaller' /\ SpawnedInv'
  BY DEF HandleInv, Unparks, ParkPC, CallTargetInv, OneCaller, SpawnedInv
<1>5. WakeInv'
  BY DEF WakeInv, HasToken, Arriving, Unparks, ParkPC
<1>6. StateInv' /\ YieldInv' /\ CallInv' /\ LifeInv'
  BY DEF StateInv, ParkPC, YieldInv, RunsOn, WorkerInv, CallInv, LifeInv, Quiet, Deserted
<1>7. QED
  BY <1>1, <1>2, <1>3, <1>4, <1>5, <1>6

\* A freed goroutine is referenced by nobody.
LEMMA ClassifyDoneStep ==
  ASSUME IInv, NEW w \in Workers, ClassifyDone(w)
  PROVE  TypeOK' /\ PlacesInv' /\ CallInv' /\ LifeInv'
<1> USE SchedulerAssumption DEF IInv, TypeOK, PlacesInv, runQueue, ClassifyDone,
   Release
<1>g. PICK g \in Goroutines :
        /\ g = cur[w] /\ gpc[g] = "finished" /\ ~Queued(g) /\ ~HasToken(g)
        /\ \A v \in Workers : v # w => cur[v] # g
  <2>1. cur[w] \in Goroutines /\ \A v \in Workers : v # w => cur[v] # cur[w]
    BY HolderFacts
  <2>2. gpc[cur[w]] \in BackPC
    BY DEF WorkerInv
  <2>3. gpc[cur[w]] = "finished"
    BY <2>1, <2>2 DEF StateInv, YieldInv, BackPC
  <2>4. ~Queued(cur[w]) /\ ~HasToken(cur[w])
    BY <2>1, <2>3, UnqueuedFacts DEF ParkPC
  <2>5. QED
    BY <2>1, <2>3, <2>4
<1>gpc. \A h \in Goroutines : gpc'[h] = IF h = g THEN "freed" ELSE gpc[h]
  BY <1>g
<1>same. /\ Range(items) \subseteq Goroutines
         /\ \A v \in Workers : Range(inbox[v]) \cup Range(local[v]) \subseteq Goroutines
         /\ \A h \in Goroutines : HasToken(h)' <=> HasToken(h)
  BY DEF Range, HasToken, Unparks
<1>1. TypeOK'
  BY DEF GoroutineState, GoroutinePC, WorkerPC, MainPC, CallOp, NoCall
<1>2. QueuesDistinct'
  BY DEF QueuesDistinct
<1>3. WorkerInv' /\ OneWorker' /\ BoundInv'
  BY DEF WorkerInv, OneWorker, HasToken, Unparks, Queued, RunPC, BackPC, ParkPC,
     RunsOn, BoundInv
<1>4. OneCaller' /\ SpawnedInv'
  BY DEF OneCaller, CallTargetInv, SpawnedInv
<1>5. WakeInv'
  BY DEF WakeInv, HasToken, Arriving, Unparks, ParkPC
<1>6. StateInv' /\ YieldInv' /\ LifeInv'
  BY DEF StateInv, ParkPC, YieldInv, RunsOn, WorkerInv, LifeInv, Quiet, Deserted
<1>7. ItemsInv'
  BY <1>g, <1>gpc, <1>same DEF ItemsInv, Queued
<1>8. InboxInv'
  BY <1>g, <1>gpc, <1>same DEF InboxInv, Queued
<1>9. LocalInv'
  BY <1>g, <1>gpc, <1>same DEF LocalInv, Queued
<1>10. HandleInv'
  BY <1>g, <1>gpc DEF HandleInv, HasToken, Unparks
<1>11. CallTargetInv'
  BY <1>g, <1>gpc DEF CallOp, CallTargetInv, HasToken, Unparks
<1>12. CallInv'
  BY <1>g, <1>gpc DEF CallInv
<1>13. QED
  BY <1>1, <1>2, <1>3, <1>4, <1>5, <1>6, <1>7, <1>8, <1>9, <1>10, <1>11, <1>12

\* In_Flight is positive at Reap.
LEMMA ReapStep ==
  ASSUME IInv, NEW w \in Workers, Reap(w)
  PROVE  TypeOK' /\ PlacesInv' /\ CallInv' /\ LifeInv'
<1> USE SchedulerAssumption DEF IInv, TypeOK, PlacesInv, runQueue, Reap
<1>1. QueuesDistinct' /\ ItemsInv' /\ InboxInv' /\ LocalInv'
  BY DEF QueuesDistinct, ItemsInv, InboxInv, HasToken, Unparks, ParkPC, LocalInv
<1>2. WorkerInv' /\ OneWorker' /\ BoundInv'
  BY DEF WorkerInv, OneWorker, HasToken, Unparks, Queued, RunPC, BackPC, ParkPC,
     RunsOn, BoundInv
<1>3. HandleInv' /\ CallTargetInv' /\ OneCaller' /\ SpawnedInv'
  BY DEF HandleInv, Unparks, ParkPC, CallTargetInv, OneCaller, SpawnedInv
<1>4. WakeInv'
  BY DEF WakeInv, HasToken, Arriving, Unparks, ParkPC
<1>5. StateInv' /\ YieldInv' /\ CallInv'
  BY DEF StateInv, ParkPC, YieldInv, RunsOn, WorkerInv, CallInv
<1>6. TypeOK'
  BY CountersPositive DEF WorkerPC
<1>7. LifeInv'
  <2>1. ~Quiet
    BY CountersPositive DEF Quiet, Reaping
  <2>2. QED
    BY <2>1 DEF LifeInv, Deserted
<1>8. QED
  BY <1>1, <1>2, <1>3, <1>4, <1>5, <1>6, <1>7

\* Workers_Active is positive at Worker_Stopped.
LEMMA WorkerStoppedStep ==
  ASSUME IInv, NEW w \in Workers, WorkerStopped(w)
  PROVE  TypeOK' /\ PlacesInv' /\ CallInv' /\ LifeInv'
<1> USE SchedulerAssumption DEF IInv, TypeOK, PlacesInv, runQueue, WorkerStopped
<1>1. QueuesDistinct' /\ ItemsInv' /\ InboxInv' /\ LocalInv'
  BY DEF QueuesDistinct, ItemsInv, InboxInv, HasToken, Unparks, ParkPC, LocalInv
<1>2. WorkerInv' /\ OneWorker' /\ BoundInv'
  BY DEF WorkerInv, OneWorker, HasToken, Unparks, Queued, RunPC, BackPC, ParkPC,
     RunsOn, BoundInv
<1>3. HandleInv' /\ CallTargetInv' /\ OneCaller' /\ SpawnedInv'
  BY DEF HandleInv, Unparks, ParkPC, CallTargetInv, OneCaller, SpawnedInv
<1>4. WakeInv'
  BY DEF WakeInv, HasToken, Arriving, Unparks, ParkPC
<1>5. StateInv' /\ YieldInv' /\ CallInv' /\ LifeInv'
  BY DEF StateInv, ParkPC, YieldInv, RunsOn, WorkerInv, CallInv, LifeInv, Quiet, Deserted
<1>6. TypeOK'
  BY CountersPositive DEF WorkerPC
<1>7. QED
  BY <1>1, <1>2, <1>3, <1>4, <1>5, <1>6

\* But for Reset_Lifecycle, no step makes the pool lose a goroutine: Pop hands the
\* head of Items to its worker, and only a goroutine past "entry" is let go.
LEMMA KnownKept ==
  ASSUME IInv, Next, ~InitBegin, NEW g \in Goroutines
  PROVE  Known(g)' <=> Known(g)
<1> USE DEF IInv, TypeOK
<1>1. ASSUME NEW w \in Workers, PopItem(w) PROVE Known(g)' <=> Known(g)
  <2>1. items \in Seq(Goroutines) /\ items # <<>> /\ items' = Tail(items)
        /\ gpc' = gpc /\ cur[w] = NoG
        /\ \A v \in Workers : cur'[v] = IF v = w THEN Head(items) ELSE cur[v]
    BY <1>1 DEF PopItem, Take, PlacesInv, WorkerInv
  <2>2. Range(items) = Range(items') \cup {Head(items)}
    BY <2>1, RangeTail
  <2>3. (\E v \in Workers : cur'[v] = g) <=> g = Head(items) \/ \E v \in Workers : cur[v] = g
    BY <2>1, SchedulerAssumption
  <2>4. QED
    BY <2>1, <2>2, <2>3 DEF Known
<1>2. ASSUME NEW w \in Workers, PopLocal(w) \/ PopInbox(w)
      PROVE  Known(g)' <=> Known(g)
  <2>1. PICK h \in Goroutines : cur' = [cur EXCEPT ![w] = h] /\ gpc[h] # "entry"
    <3>1. PopLocal(w) => Head(local[w]) \in Range(local[w]) /\ Head(local[w]) \in Goroutines
      BY RangeTail DEF PopLocal
    <3>2. PopInbox(w) => Head(inbox[w]) \in Range(inbox[w]) /\ Head(inbox[w]) \in Goroutines
      BY RangeTail DEF PopInbox
    <3>3. QED
      BY <1>2, <3>1, <3>2
         DEF PopLocal, PopInbox, Take, PlacesInv, LocalInv, InboxInv, ParkPC
  <2>2. gpc' = gpc /\ items' = items /\ cur[w] = NoG
    BY <1>2 DEF PopLocal, PopInbox, PlacesInv, WorkerInv, runQueue
  <2>3. QED
    BY <2>1, <2>2, SchedulerAssumption DEF Known
<1>3. ASSUME NEW w \in Workers,
             ClassifyYielded(w) \/ ClassifyParked(w) \/ ClassifyDone(w)
      PROVE  Known(g)' <=> Known(g)
  <2>1. /\ cur[w] \in Goroutines /\ gpc[cur[w]] \in BackPC
        /\ \A v \in Workers : v # w => cur[v] # cur[w]
    BY <1>3, HolderFacts
       DEF ClassifyYielded, ClassifyParked, ClassifyDone, PlacesInv, WorkerInv
  <2>2. /\ items' = items /\ cur' = [cur EXCEPT ![w] = NoG]
        /\ gpc'[g] = gpc[g] \/ (g = cur[w] /\ gpc'[g] = "freed")
    BY <1>3, <2>1 DEF ClassifyYielded, ClassifyParked, ClassifyDone, Release, runQueue
  <2>3. QED
    BY <2>1, <2>2, SchedulerAssumption DEF Known, BackPC
<1>4. ASSUME NEW w \in Workers, SwitchIn(w) \/ SwitchOut(w)
      PROVE  Known(g)' <=> Known(g)
  <2>1. /\ items' = items /\ cur' = cur /\ cur[w] \in Goroutines
        /\ gpc'[g] = gpc[g] \/ (g = cur[w] /\ gpc'[g] # "entry")
    BY <1>4, HolderFacts DEF SwitchIn, SwitchOut, runQueue
  <2>2. QED
    BY <2>1 DEF Known
<1>5. ASSUME NEW c \in Callers, Inject(c) PROVE Known(g)' <=> Known(g)
  <2>1. PICK h \in Goroutines : h = call[c].g /\ gpc[h] = "made"
    BY <1>5, SpawnedFacts DEF Inject
  <2>2. /\ items' = Append(items, h) /\ items \in Seq(Goroutines) /\ cur' = cur
        /\ gpc' = [gpc EXCEPT ![h] = "entry"]
    BY <1>5, <2>1 DEF Inject
  <2>3. Range(items') = Range(items) \cup {h}
    BY <2>2, RangeAppend
  <2>4. QED
    BY <2>1, <2>2, <2>3 DEF Known
<1>6. ASSUME NEW c \in Callers,
             \/ \E h \in Goroutines : SpawnBegin(c, h) \/ UnparkBegin(c, h)
             \/ SpawnFail(c) \/ UnparkWrite(c) \/ UnparkInject(c)
      PROVE  Known(g)' <=> Known(g)
  <2>1. SpawnFail(c) => call[c].g \in Goroutines /\ gpc[call[c].g] = "made"
    BY SpawnedFacts DEF SpawnFail
  <2>2. /\ items' = items /\ cur' = cur
        /\ gpc'[g] = "entry" <=> gpc[g] = "entry"
    BY <1>6, <2>1
       DEF SpawnBegin, UnparkBegin, SpawnFail, UnparkWrite, UnparkInject, runQueue
  <2>3. QED
    BY <2>2 DEF Known
<1>7. ASSUME NEW h \in Goroutines, GoroutineStep(h) PROVE Known(g)' <=> Known(g)
  <2>1. /\ items' = items /\ cur' = cur
        /\ gpc'[g] = "entry" <=> gpc[g] = "entry"
    BY <1>7 DEF GoroutineStep, Publish, Park, Yield, Finish, CanCall, runQueue
  <2>2. QED
    BY <2>1 DEF Known
<1>8. ASSUME \/ MainStep
             \/ \E w \in Workers : PopStop(w) \/ Reap(w) \/ WorkerStopped(w)
      PROVE  Known(g)' <=> Known(g)
  <2>1. items' = items /\ cur' = cur /\ gpc' = gpc
    BY <1>8 DEF MainStep, InitBump, InitAllocate, InitRollback, InitReturn,
       MarkShutdown, Drain, ShutdownReturn, PopStop, Reap, WorkerStopped, runQueue
  <2>2. QED
    BY <2>1 DEF Known
<1>9. QED
  BY <1>1, <1>2, <1>3, <1>4, <1>5, <1>6, <1>7, <1>8
     DEF Next, CallStep, WorkerStep

\* A step that moves no goroutine in or out of Alive, and no worker in or out of
\* Reaping or Started, leaves both counters right.
LEMMA SameCounts ==
  ASSUME CountInv, WorkersCounted, \A g \in Goroutines : Known(g)' <=> Known(g),
         Alive' = Alive, Reaping' = Reaping, inFlight' = inFlight,
         Started' = Started, workersActive' = workersActive,
         mpc' = "allocating" <=> mpc = "allocating"
  PROVE  CountInv' /\ WorkersCounted'
<1>1. Counted' = Counted
  BY DEF Counted, Alive
<1>2. QED
  BY <1>1 DEF CountInv, WorkersCounted

\* Reset_Lifecycle restarts the count: what a late Spawn left in Items is lost.
LEMMA InitBeginCounts ==
  ASSUME IInv, InitBegin
  PROVE  CountInv' /\ WorkersCounted'
<1> USE DEF IInv, TypeOK
<1>1. /\ \A w \in Workers : wpc[w] = "off" /\ cur[w] = NoG
      /\ \A g \in Goroutines : gpc[g] \in {"none", "made", "entry", "freed"}
  BY NoneOnOffWorkers DEF InitBegin, LifeInv, PlacesInv, WorkerInv
<1>2. Counted' = {}
  <2>1. Range(items') = {} /\ cur' = cur /\ gpc' = gpc
    BY EmptyQueue DEF InitBegin
  <2>2. QED
    BY <1>1, <2>1, SchedulerAssumption DEF Counted, Alive, Known
<1>3. Reaping' = {} /\ Started' = Started /\ mpc' # "allocating"
  BY <1>1 DEF InitBegin, Reaping, Started
<1>4. HelperSpawns \/ \A g \in Goroutines : Known(g)'
  BY DEF InitBegin, LifeInv, Quiet, Known
<1>5. inFlight' = 0 /\ workersActive' = workersActive /\ mpc # "allocating"
  BY DEF InitBegin
<1>6. CountInv'
  BY <1>2, <1>3, <1>4, <1>5, FS_EmptySet DEF CountInv
<1>7. WorkersCounted'
  BY <1>3, <1>5 DEF WorkersCounted
<1>8. QED
  BY <1>6, <1>7

\* The counters count, whatever the step.
LEMMA CountsStep ==
  ASSUME IInv, Next, ~InitBegin
  PROVE  CountInv' /\ WorkersCounted'
<1> USE DEF IInv, TypeOK
<1>known. \A g \in Goroutines : Known(g)' <=> Known(g)
  BY KnownKept
<1>same. Alive' = Alive => Counted' = Counted
  BY <1>known DEF Counted, Alive
<1>2. CASE InitBump \/ InitRollback
  <2>1. Alive' = Alive /\ Reaping' = Reaping /\ Started' = Started
    BY <1>2 DEF InitBump, InitRollback, Alive, Reaping, Started
  <2>2. QED
    BY <1>2, <1>known, <1>same, <2>1, CountedFinite
       DEF InitBump, InitRollback, CountInv, WorkersCounted
<1>3. ASSUME NEW w \in Workers, InitAllocate(w)
      PROVE  CountInv' /\ WorkersCounted'
  <2>1. Alive' = Alive /\ Reaping' = Reaping
    BY <1>3 DEF InitAllocate, Alive, Reaping
  <2>2. Started' = Started \cup {w} /\ w \notin Started
    BY <1>3 DEF InitAllocate, Started
  <2>3. Cardinality(Started') = Cardinality(Started) + 1
    BY <2>2, CountedFinite, FS_AddElement
  <2>4. QED
    BY <1>3, <1>known, <1>same, <2>1, <2>3, CountedFinite
       DEF InitAllocate, CountInv, WorkersCounted, runQueue
<1>4. ASSUME NEW c \in Callers, Inject(c)
      PROVE  CountInv' /\ WorkersCounted'
  <2>1. PICK g \in Goroutines : g = call[c].g /\ gpc[g] = "made"
    BY <1>4, SpawnedFacts DEF Inject
  <2>2. /\ Alive' = Alive \cup {g} /\ g \notin Alive
        /\ Reaping' = Reaping /\ Started' = Started
    BY <1>4, <2>1 DEF Inject, Alive, Reaping, Started
  <2>3. Counted' = Counted \cup {g} /\ g \notin Counted
    BY <1>known, <2>1, <2>2 DEF Counted, Known, Alive
  <2>4. Cardinality(Counted') = Cardinality(Counted) + 1
    BY <2>3, CountedFinite, FS_AddElement
  <2>5. QED
    BY <1>4, <1>known, <2>2, <2>4, CountedFinite DEF Inject, CountInv, WorkersCounted
<1>5. ASSUME NEW w \in Workers, ClassifyDone(w)
      PROVE  CountInv' /\ WorkersCounted'
  <2>1. PICK g \in Goroutines : g = cur[w] /\ gpc[g] \in BackPC
    BY <1>5, HolderFacts DEF ClassifyDone, PlacesInv, WorkerInv
  <2>2. /\ Alive' = Alive \ {g} /\ g \in Alive
        /\ Reaping' = Reaping \cup {w} /\ w \notin Reaping
        /\ Started' = Started
    BY <1>5, <2>1 DEF ClassifyDone, Release, Alive, Reaping, Started, BackPC
  <2>3. Counted' = Counted \ {g} /\ g \in Counted
    BY <1>known, <2>1, <2>2 DEF Counted, Known, Alive, BackPC
  <2>4. /\ Cardinality(Counted') = Cardinality(Counted) - 1
        /\ Cardinality(Reaping') = Cardinality(Reaping) + 1
    BY <2>2, <2>3, CountedFinite, FS_AddElement, FS_RemoveElement
  <2>5. QED
    BY <1>5, <1>known, <2>2, <2>4, CountedFinite
       DEF ClassifyDone, CountInv, WorkersCounted, runQueue
<1>6. ASSUME NEW w \in Workers, Reap(w)
      PROVE  CountInv' /\ WorkersCounted'
  <2>1. /\ Reaping' = Reaping \ {w} /\ w \in Reaping
        /\ Alive' = Alive /\ Started' = Started
    BY <1>6 DEF Reap, Alive, Reaping, Started
  <2>2. Cardinality(Reaping') = Cardinality(Reaping) - 1
    BY <2>1, CountedFinite, FS_RemoveElement
  <2>3. QED
    BY <1>6, <1>known, <1>same, <2>1, <2>2, CountedFinite DEF Reap, CountInv, WorkersCounted
<1>7. ASSUME NEW w \in Workers, WorkerStopped(w)
      PROVE  CountInv' /\ WorkersCounted'
  <2>1. /\ Started' = Started \ {w} /\ w \in Started
        /\ Alive' = Alive /\ Reaping' = Reaping
    BY <1>7 DEF WorkerStopped, Alive, Reaping, Started
  <2>2. Cardinality(Started') = Cardinality(Started) - 1
    BY <2>1, CountedFinite, FS_RemoveElement
  <2>3. /\ workersActive' = workersActive - 1
        /\ inFlight' = inFlight /\ mpc' = mpc
    BY <1>7 DEF WorkerStopped
  <2>4. CountInv'
    BY <1>known, <1>same, <2>1, <2>3 DEF CountInv
  <2>5. WorkersCounted'
    BY ONLY <2>2, <2>3, CountedFinite, WorkersCounted DEF WorkersCounted
  <2>6. QED
    BY <2>4, <2>5
<1>8. CASE InitReturn \/ MarkShutdown \/ Drain \/ ShutdownReturn
  <2>1. Alive' = Alive /\ Reaping' = Reaping /\ Started' = Started
    BY <1>8
       DEF InitReturn, MarkShutdown, Drain, ShutdownReturn, Alive, Reaping, Started
  <2>2. QED
    BY <1>8, <1>known, <2>1, SameCounts
       DEF InitReturn, MarkShutdown, Drain, ShutdownReturn, runQueue
<1>9. ASSUME NEW c \in Callers,
             \/ \E g \in Goroutines : SpawnBegin(c, g) \/ UnparkBegin(c, g)
             \/ SpawnFail(c) \/ UnparkWrite(c) \/ UnparkInject(c)
      PROVE  CountInv' /\ WorkersCounted'
  <2>1. SpawnFail(c) => call[c].g \in Goroutines /\ gpc[call[c].g] = "made"
    BY SpawnedFacts DEF SpawnFail
  <2>2. Alive' = Alive /\ Reaping' = Reaping /\ Started' = Started
    BY <1>9, <2>1
       DEF SpawnBegin, UnparkBegin, SpawnFail, UnparkWrite, UnparkInject,
           Alive, Reaping, Started
  <2>3. QED
    BY <1>9, <1>known, <2>2, SameCounts
       DEF SpawnBegin, UnparkBegin, SpawnFail, UnparkWrite, UnparkInject, runQueue
<1>10. ASSUME NEW g \in Goroutines, GoroutineStep(g)
       PROVE  CountInv' /\ WorkersCounted'
  <2>1. Alive' = Alive /\ Reaping' = Reaping /\ Started' = Started
    BY <1>10
       DEF GoroutineStep, Publish, Park, Yield, Finish, CanCall, RunsOn,
           Alive, Reaping, Started
  <2>2. QED
    BY <1>10, <1>known, <2>1, SameCounts
       DEF GoroutineStep, Publish, Park, Yield, Finish, runQueue
<1>11. ASSUME NEW w \in Workers,
              \/ PopLocal(w) \/ PopInbox(w) \/ PopItem(w) \/ PopStop(w)
              \/ ClassifyYielded(w) \/ ClassifyParked(w)
       PROVE  CountInv' /\ WorkersCounted'
  <2>1. Alive' = Alive /\ Reaping' = Reaping /\ Started' = Started
    BY <1>11
       DEF PopLocal, PopInbox, PopItem, PopStop, ClassifyYielded, ClassifyParked,
           Take, Release, Alive, Reaping, Started
  <2>2. QED
    BY <1>11, <1>known, <2>1, SameCounts
       DEF PopLocal, PopInbox, PopItem, PopStop, ClassifyYielded, ClassifyParked,
           runQueue
<1>12. ASSUME NEW w \in Workers, SwitchIn(w) \/ SwitchOut(w)
       PROVE  CountInv' /\ WorkersCounted'
  <2>1. /\ SwitchIn(w)  => gpc[cur[w]] \in {"entry", "parked", "yielded"}
        /\ SwitchOut(w) => gpc[cur[w]] \in SwitchPC
        /\ cur[w] \in Goroutines
    BY <1>12, HolderFacts DEF SwitchIn, SwitchOut, PlacesInv, WorkerInv
  <2>2. Alive' = Alive /\ Reaping' = Reaping /\ Started' = Started
    BY <1>12, <2>1
       DEF SwitchIn, SwitchOut, SwitchPC, Alive, Reaping, Started
  <2>3. QED
    BY <1>12, <1>known, <2>2, SameCounts DEF SwitchIn, SwitchOut, runQueue
<1>13. QED
  BY <1>2, <1>3, <1>4, <1>5, <1>6, <1>7, <1>8, <1>9, <1>10, <1>11, <1>12
     DEF Next, MainStep, CallStep, WorkerStep

-----------------------------------------------------------------------------
(***************************************************************************)
(* The invariant is inductive, for any goroutines and workers.              *)
(***************************************************************************)

\* Every initial state satisfies it.
LEMMA InitIInv == Init => IInv
<1> SUFFICES ASSUME Init PROVE IInv
  OBVIOUS
<1> USE SchedulerAssumption DEF Init
<1>0. /\ Range(items) = {} /\ IsInjective(items)
      /\ \A w \in Workers : /\ Range(inbox[w]) = {} /\ IsInjective(inbox[w])
                            /\ Range(local[w]) = {} /\ IsInjective(local[w])
  BY EmptyQueue
<1>1. TypeOK
  <2>1. <<>> \in Seq(Goroutines)
    OBVIOUS
  <2>2. QED
    BY <2>1 DEF TypeOK, GoroutineState, GoroutinePC, WorkerPC, MainPC, CallOp, NoCall
<1>2. QueuesDistinct /\ ItemsInv /\ InboxInv /\ LocalInv
  BY <1>0 DEF QueuesDistinct, ItemsInv, InboxInv, LocalInv
<1>3. WorkerInv /\ OneWorker /\ BoundInv
  BY DEF WorkerInv, OneWorker, BoundInv, RunPC, BackPC
<1>4. HandleInv /\ CallTargetInv /\ OneCaller /\ SpawnedInv
  BY DEF HandleInv, CallTargetInv, OneCaller, SpawnedInv, NoCall
<1>5. WakeInv /\ StateInv /\ YieldInv
  BY DEF WakeInv, StateInv, YieldInv, ParkPC
<1>6. CallInv /\ LifeInv
  BY DEF CallInv, LifeInv, Quiet, Deserted, NoCall
<1>7. CountInv /\ WorkersCounted
  <2>1. Counted = {} /\ Reaping = {} /\ Started = {}
    BY DEF Counted, Alive, Reaping, Started
  <2>2. QED
    BY <2>1, FS_EmptySet DEF CountInv, WorkersCounted, Known
<1>8. QED
  BY <1>1, <1>2, <1>3, <1>4, <1>5, <1>6, <1>7 DEF IInv, PlacesInv

\* Stuttering preserves it.
LEMMA StutterStep == IInv /\ UNCHANGED vars => IInv'
<1> SUFFICES ASSUME IInv, UNCHANGED vars PROVE IInv'
  OBVIOUS
<1> USE DEF vars, runQueue
<1>1. TypeOK' /\ CallInv' /\ LifeInv'
  BY DEF IInv, TypeOK, CallInv, LifeInv, Quiet, Deserted
<1>2. CountInv' /\ WorkersCounted'
  BY DEF IInv, CountInv, WorkersCounted, Counted, Known, Alive, Reaping, Started
<1>3. QueuesDistinct' /\ ItemsInv' /\ InboxInv' /\ LocalInv'
  BY DEF IInv, PlacesInv, QueuesDistinct, ItemsInv, InboxInv, LocalInv, HasToken,
         Unparks
<1>4. WorkerInv' /\ OneWorker' /\ BoundInv'
  BY DEF IInv, PlacesInv, WorkerInv, OneWorker, BoundInv, RunsOn, Queued, HasToken,
         Unparks
<1>5. HandleInv' /\ CallTargetInv' /\ OneCaller' /\ SpawnedInv'
  BY DEF IInv, PlacesInv, HandleInv, CallTargetInv, OneCaller, SpawnedInv, Unparks
<1>6. WakeInv' /\ StateInv' /\ YieldInv'
  BY DEF IInv, PlacesInv, WakeInv, StateInv, YieldInv, HasToken, Unparks, Arriving
<1>7. QED
  BY <1>1, <1>2, <1>3, <1>4, <1>5, <1>6 DEF IInv, PlacesInv

\* Every step preserves it: one case per action.
LEMMA NextIInv == IInv /\ [Next]_vars => IInv'
<1> SUFFICES ASSUME IInv, [Next]_vars PROVE IInv'
  OBVIOUS
<1> DEFINE Kept == TypeOK' /\ PlacesInv' /\ CallInv' /\ LifeInv'
<1>1. ASSUME MainStep PROVE Kept
  BY <1>1, InitBeginStep, InitBumpStep, InitAllocateStep, InitRollbackStep,
     InitReturnStep, MarkShutdownStep, DrainStep, ShutdownReturnStep
     DEF MainStep
<1>2. ASSUME NEW c \in Callers, CallStep(c) PROVE Kept
  BY <1>2, SpawnFailStep, InjectStep, UnparkWriteStep, UnparkInjectStep DEF CallStep
<1>3. ASSUME NEW c \in Callers, NEW g \in Goroutines,
             SpawnBegin(c, g) \/ UnparkBegin(c, g)
      PROVE  Kept
  BY <1>3, SpawnBeginStep, UnparkBeginStep
<1>4. ASSUME NEW g \in Goroutines, GoroutineStep(g) PROVE Kept
  BY <1>4, PublishStep, ParkStep, YieldStep, FinishStep DEF GoroutineStep
<1>5. ASSUME NEW w \in Workers, WorkerStep(w) PROVE Kept
  BY <1>5, PopLocalStep, PopInboxStep, PopItemStep, PopStopStep, SwitchInStep,
     SwitchOutStep, ClassifyYieldedStep, ClassifyParkedStep, ClassifyDoneStep,
     ReapStep, WorkerStoppedStep DEF WorkerStep
<1>6. CASE Next
  <2>1. Kept
    BY <1>1, <1>2, <1>3, <1>4, <1>5, <1>6 DEF Next
  <2>2. CountInv' /\ WorkersCounted'
    BY <1>6, InitBeginCounts, CountsStep
  <2>3. QED
    BY <2>1, <2>2 DEF IInv
<1>7. CASE UNCHANGED vars
  BY <1>7, StutterStep
<1>8. QED
  BY <1>6, <1>7

\* The inductive invariant holds in every reachable state.
THEOREM Inductive == Spec => []IInv
<1>1. Init => IInv
  BY InitIInv
<1>2. IInv /\ [Next]_vars => IInv'
  BY NextIInv
<1>3. QED
  BY <1>1, <1>2, PTL DEF Spec

-----------------------------------------------------------------------------
(***************************************************************************)
(* What it implies.                                                        *)
(***************************************************************************)

\* The state keeps its types; in particular the Natural counters In_Flight and
\* Workers_Active are never decremented below zero.
THEOREM TypeCorrect == Spec => []TypeOK
<1>1. IInv => TypeOK
  BY DEF IInv
<1>2. QED
  BY <1>1, Inductive, PTL

\* No goroutine is ever queued for, or run by, a worker it is not bound to.
THEOREM PinningHolds == Spec => []Pinned
<1>1. IInv => Pinned
  <2> SUFFICES ASSUME IInv PROVE Pinned
    OBVIOUS
  <2>1. ASSUME NEW w \in Workers, wpc[w] = "popped"
        PROVE  bound[cur[w]] \in {w, Unbound}
    <3>1. cur[w] \in Goroutines
      BY <2>1, HolderFacts
    <3>2. QED
      BY <2>1, <3>1 DEF IInv, PlacesInv, WorkerInv, BoundInv
  <2>2. QED
    BY <2>1 DEF IInv, PlacesInv, InboxInv, LocalInv, WorkerInv, Pinned
<1>2. QED
  BY <1>1, Inductive, PTL

\* A goroutine waits for at most one resumption: no two queues, and no queue and
\* worker, hold it at once.
THEOREM ResumptionUnique == Spec => []ResumedOnce
<1>1. IInv => ResumedOnce
  <2> SUFFICES ASSUME IInv PROVE ResumedOnce
    OBVIOUS
  <2>1. /\ IsInjective(items)
        /\ \A w \in Workers : IsInjective(inbox[w]) /\ IsInjective(local[w])
    BY DEF IInv, PlacesInv, QueuesDistinct
  <2>2. \A w \in Workers :
          Range(items) \cap (Range(inbox[w]) \cup Range(local[w])) = {}
    BY DEF IInv, PlacesInv, ItemsInv, InboxInv, LocalInv, ParkPC
  <2>3. \A w, v \in Workers :
          /\ Range(inbox[w]) \cap Range(local[v]) = {}
          /\ w # v => /\ Range(inbox[w]) \cap Range(inbox[v]) = {}
                      /\ Range(local[w]) \cap Range(local[v]) = {}
    BY DEF IInv, PlacesInv, InboxInv, LocalInv, ParkPC
  <2>4. \A w, v \in Workers : w # v => Resumable(w) \cap Resumable(v) = {}
    BY HolderFacts DEF Resumable
  <2>5. ASSUME NEW w \in Workers, NEW v \in Workers
        PROVE  /\ Resumable(w) \cap (Range(items) \cup Range(local[v])) = {}
               /\ wpc[w] = "popped" => cur[w] \notin Range(inbox[v])
    <3>1. CASE wpc[w] = "popped"
      BY <3>1 DEF IInv, PlacesInv, WorkerInv, Queued, Resumable
    <3>2. CASE wpc[w] = "switched"
      BY <3>2 DEF IInv, PlacesInv, WorkerInv, ItemsInv, LocalInv, RunPC, Resumable
    <3>3. QED
      BY <3>1, <3>2 DEF Resumable
  <2>6. QED
    BY <2>1, <2>2, <2>3, <2>4, <2>5 DEF ResumedOnce
<1>2. QED
  BY <1>1, Inductive, PTL

\* No wake-up is lost or doubled between the publication of a handle and the
\* resumption of the Park.
THEOREM WakeupNotLost == Spec => []WakeupPending
<1>1. IInv => WakeupPending
  <2> SUFFICES ASSUME IInv, NEW g \in Goroutines, gpc[g] \in ParkPC
               PROVE  \/ /\ g \in slots
                         /\ Unparkers(g) = {} /\ ~Arriving(g)
                      \/ /\ g \notin slots
                         /\ \E c \in Callers : Unparkers(g) = {c} /\ ~Arriving(g)
                      \/ /\ g \notin slots /\ Unparkers(g) = {}
                         /\ (\E w \in Workers : g \in Range(inbox[w]))
                            # (\E w \in Workers : wpc[w] = "popped" /\ cur[w] = g)
    BY DEF WakeupPending, Arriving, ParkPC
  <2>1. HasToken(g) => ~Arriving(g)
    BY DEF IInv, PlacesInv, InboxInv, WorkerInv, Arriving
  <2>2. CASE g \in slots
    <3>1. Unparkers(g) = {}
      BY <2>2 DEF IInv, PlacesInv, HandleInv, Unparks, Unparkers
    <3>2. QED
      BY <2>1, <2>2, <3>1 DEF HasToken
  <2>3. CASE g \notin slots /\ \E c \in Callers : Unparks(c, g)
    <3>1. PICK c \in Callers : Unparks(c, g)
      BY <2>3
    <3>2. \A d \in Callers : Unparks(d, g) => d = c
      BY <3>1, SchedulerAssumption DEF IInv, PlacesInv, OneCaller, Unparks
    <3>3. Unparkers(g) = {c}
      BY <3>1, <3>2 DEF Unparkers, Unparks
    <3>4. QED
      BY <2>1, <2>3, <3>1, <3>3 DEF HasToken
  <2>4. CASE g \notin slots /\ ~\E c \in Callers : Unparks(c, g)
    <3>1. Unparkers(g) = {}
      BY <2>4 DEF Unparkers, Unparks
    <3>2. Arriving(g)
      BY <2>4 DEF IInv, PlacesInv, WakeInv, HasToken
    <3>3. \A w, v \in Workers :
            ~(g \in Range(inbox[w]) /\ wpc[v] = "popped" /\ cur[v] = g)
      BY DEF IInv, PlacesInv, WorkerInv, Queued
    <3>4. QED
      BY <2>4, <3>1, <3>2, <3>3 DEF Arriving
  <2>5. QED
    BY <2>2, <2>3, <2>4
<1>2. QED
  BY <1>1, Inductive, PTL

\* A reaped Goroutine_Record is referenced by nobody.
THEOREM FreedUnreferenced == Spec => []NoUseAfterFree
<1>1. IInv => NoUseAfterFree
  <2> SUFFICES ASSUME IInv, NEW g \in Goroutines, gpc[g] = "freed"
               PROVE  /\ g \notin slots /\ Unparkers(g) = {}
                      /\ g \notin Range(items)
                      /\ \A w \in Workers :
                           cur[w] # g /\ g \notin Range(inbox[w]) \cup Range(local[w])
    BY DEF NoUseAfterFree
  <2>1. ~Queued(g) /\ ~HasToken(g)
    BY UnqueuedFacts DEF ParkPC
  <2>2. \A w \in Workers : cur[w] # g
    BY SchedulerAssumption DEF IInv, PlacesInv, WorkerInv, RunPC, BackPC
  <2>3. QED
    BY <2>1, <2>2 DEF Queued, HasToken, Unparks, Unparkers
<1>2. QED
  BY <1>1, Inductive, PTL

\* The worker's case statement always meets the State it expects.
THEOREM StateHandshake == Spec => []StateAgrees
<1>1. IInv => StateAgrees
  <2> SUFFICES ASSUME IInv, NEW w \in Workers, wpc[w] = "back"
               PROVE  LET g == cur[w] IN
                      CASE gpc[g] = "yielded"  -> state[g] = "YIELDED"
                        [] gpc[g] = "finished" -> state[g] = "DONE"
                        [] gpc[g] = "parked"   -> \/ state[g] = "PARKED"
                                                  \/ state[g] = "READY"
                                                     /\ g \notin slots
    BY DEF StateAgrees
  <2>1. cur[w] \in Goroutines /\ gpc[cur[w]] \in BackPC
    BY HolderFacts DEF IInv, PlacesInv, WorkerInv
  <2>2. gpc[cur[w]] = "yielded" => state[cur[w]] = "YIELDED"
    BY DEF IInv, PlacesInv, YieldInv
  <2>3. /\ gpc[cur[w]] = "finished" => state[cur[w]] = "DONE"
        /\ gpc[cur[w]] = "parked" => \/ state[cur[w]] = "PARKED"
                                     \/ state[cur[w]] = "READY" /\ cur[w] \notin slots
    BY <2>1 DEF IInv, PlacesInv, StateInv
  <2>4. QED
    BY <2>1, <2>2, <2>3 DEF BackPC
<1>2. QED
  BY <1>1, Inductive, PTL

\* In_Flight counts the goroutines injected and not reaped, Workers_Active the
\* worker tasks started and not stopped.
THEOREM CountersExact ==
  ASSUME HelperSpawns = FALSE
  PROVE  Spec => []CountsExact
<1>1. IInv => CountsExact
  <2> SUFFICES ASSUME IInv PROVE CountsExact
    OBVIOUS
  <2>1. Counted = Alive
    BY DEF IInv, CountInv, Counted, Alive
  <2>2. QED
    BY <2>1 DEF IInv, CountInv, CountsExact, InFlightCounts
<1>2. QED
  BY <1>1, Inductive, PTL

\* Shutdown is a join: when Drain has opened nothing is left to run.
THEOREM ShutdownIsJoin ==
  ASSUME HelperSpawns = FALSE
  PROVE  Spec => []ShutdownJoins
<1>1. IInv => ShutdownJoins
  <2> SUFFICES ASSUME IInv, mpc \in {"drained", "off"}
               PROVE  /\ items = <<>> /\ inFlight = 0
                      /\ \A w \in Workers :
                           wpc[w] = "off" /\ inbox[w] = <<>> /\ local[w] = <<>>
                      /\ \A g \in Goroutines : gpc[g] \in {"none", "made", "freed"}
    BY DEF ShutdownJoins
  <2>1. Quiet /\ \A w \in Workers : wpc[w] = "off"
    BY DEF IInv, LifeInv
  <2>2. /\ Range(items) = {}
        /\ \A w \in Workers : Range(inbox[w]) = {} /\ Range(local[w]) = {}
    <3>1. /\ Range(items) \subseteq Goroutines
          /\ \A w \in Workers : Range(inbox[w]) \cup Range(local[w]) \subseteq Goroutines
      BY DEF IInv, TypeOK, Range
    <3>2. QED
      BY <2>1, <3>1
         DEF Quiet, IInv, PlacesInv, ItemsInv, InboxInv, LocalInv, ParkPC
  <2>3. /\ items \in Seq(Goroutines) /\ inbox \in [Workers -> Seq(Goroutines)]
        /\ local \in [Workers -> Seq(Goroutines)]
    BY DEF IInv, TypeOK
  <2>4. \A s \in Seq(Goroutines) : Range(s) = {} => s = <<>>
    BY NoElementEmpty
  <2>5. QED
    BY <2>1, <2>2, <2>3, <2>4 DEF Quiet
<1>2. QED
  BY <1>1, Inductive, PTL

\* Whoever calls Spawn, and however late, Shutdown joins every goroutine that has
\* begun to run; a late Spawn can leave behind only goroutines that have not.
THEOREM RunnersJoined == Spec => []RanJoined
<1>1. IInv => RanJoined
  <2> SUFFICES ASSUME IInv, mpc \in {"drained", "off"} PROVE RanJoined
    BY DEF RanJoined
  <2>1. \A g \in Goroutines : gpc[g] \in {"none", "made", "entry", "freed"}
    BY NoneOnOffWorkers
  <2>2. \A g \in Goroutines : bound[g] # Unbound => gpc[g] = "freed"
    BY <2>1 DEF IInv, PlacesInv, BoundInv
  <2>3. ASSUME NEW w \in Workers
        PROVE  /\ inbox[w] \in Seq(Goroutines) /\ Range(inbox[w]) = {}
               /\ local[w] \in Seq(Goroutines) /\ Range(local[w]) = {}
    <3>1. inbox[w] \in Seq(Goroutines) /\ local[w] \in Seq(Goroutines)
      BY DEF IInv, TypeOK
    <3>2. Range(inbox[w]) \cup Range(local[w]) \subseteq Goroutines
      BY <3>1 DEF Range
    <3>3. QED
      BY <2>1, <3>1, <3>2 DEF IInv, PlacesInv, InboxInv, LocalInv, ParkPC
  <2>4. \A s \in Seq(Goroutines) : Range(s) = {} => s = <<>>
    BY NoElementEmpty
  <2>5. \A w \in Workers : wpc[w] = "off"
    BY DEF IInv, LifeInv
  <2>6. QED
    BY <2>1, <2>2, <2>3, <2>4, <2>5 DEF RanJoined
<1>2. QED
  BY <1>1, Inductive, PTL

-----------------------------------------------------------------------------
(***************************************************************************)
(* Scheduler implements GoroutineLifecycle: seven actions map to an action *)
(* of the lifecycle, every other one to a stutter.                          *)
(***************************************************************************)


\* The value of Status at a goroutine, in terms of the three facts it reads.
StatusOf(pc, b, token) ==
  CASE pc \in {"none", "made"}                    -> "absent"
    [] pc \in {"entry", "yieldswitch", "yielded"} -> "runnable"
    [] pc = "body"                                -> "running"
    [] pc \in ParkPC -> IF token THEN "blocked" ELSE "runnable"
    [] pc \in {"doneswitch", "finished"}          -> "done"
    [] pc = "freed" -> IF b = Unbound THEN "absent" ELSE "done"

LEMMA StatusPointwise ==
  /\ Status = [g \in Goroutines |-> StatusOf(gpc[g], bound[g], HasToken(g))]
  /\ Status' = [g \in Goroutines |-> StatusOf(gpc'[g], bound'[g], HasToken(g)')]
BY DEF Status, StatusOf

\* A step that changes what Status reads at no goroutine is a stutter.
LEMMA StatusSame ==
  ASSUME \A g \in Goroutines :
           StatusOf(gpc'[g], bound'[g], HasToken(g)') =
             StatusOf(gpc[g], bound[g], HasToken(g))
  PROVE  UNCHANGED Status
BY StatusPointwise

\* A step that changes it at one goroutine updates Status there.
LEMMA StatusAt ==
  ASSUME NEW g \in Goroutines, NEW s,
         StatusOf(gpc'[g], bound'[g], HasToken(g)') = s,
         \A h \in Goroutines \ {g} :
           StatusOf(gpc'[h], bound'[h], HasToken(h)') =
             StatusOf(gpc[h], bound[h], HasToken(h))
  PROVE  Status' = [Status EXCEPT ![g] = s]
BY StatusPointwise

-----------------------------------------------------------------------------
\* Steps of the main task and of the workers' queues leave Status alone.
LEMMA QueueStepsStutter ==
  ASSUME IInv,
         \/ InitBegin \/ InitBump \/ InitRollback \/ InitReturn
         \/ \E w \in Workers : InitAllocate(w)
         \/ MarkShutdown \/ Drain \/ ShutdownReturn
         \/ \E w \in Workers :
              \/ PopLocal(w) \/ PopInbox(w) \/ PopItem(w) \/ PopStop(w)
              \/ ClassifyYielded(w) \/ ClassifyParked(w)
              \/ Reap(w) \/ WorkerStopped(w)
         \/ \E c \in Callers : UnparkWrite(c)
  PROVE  UNCHANGED Status
<1>1. gpc' = gpc /\ bound' = bound /\ slots' = slots
  BY DEF InitBegin, InitBump, InitAllocate, InitRollback, InitReturn, MarkShutdown,
         Drain, ShutdownReturn, PopLocal, PopInbox, PopItem, PopStop,
         ClassifyYielded, ClassifyParked, Reap, WorkerStopped, UnparkWrite
<1>2. \A g \in Goroutines, c \in Callers : Unparks(c, g)' <=> Unparks(c, g)
  <2>1. CASE \E d \in Callers : UnparkWrite(d)
    BY <2>1 DEF UnparkWrite, Unparks, IInv, TypeOK
  <2>2. CASE ~\E d \in Callers : UnparkWrite(d)
    <3>1. call' = call
      BY <2>2
         DEF InitBegin, InitBump, InitAllocate, InitRollback, InitReturn, MarkShutdown,
             Drain, ShutdownReturn, PopLocal, PopInbox, PopItem, PopStop,
             ClassifyYielded, ClassifyParked, Reap, WorkerStopped
    <3>2. QED
      BY <3>1 DEF Unparks
  <2>3. QED
    BY <2>1, <2>2
<1>3. \A g \in Goroutines : HasToken(g)' <=> HasToken(g)
  BY <1>1, <1>2 DEF HasToken
<1>4. QED
  BY <1>1, <1>3, StatusSame DEF StatusOf

\* So do the halves of a call or a switch that Status does not distinguish.
LEMMA HalfStepsStutter ==
  ASSUME IInv,
         \/ \E c \in Callers : \E g \in Goroutines : SpawnBegin(c, g) \/ UnparkBegin(c, g)
         \/ \E c \in Callers : SpawnFail(c)
         \/ \E g \in Goroutines : Park(g)
         \/ \E w \in Workers : SwitchOut(w) \/ ClassifyDone(w)
  PROVE  UNCHANGED Status
<1> USE SchedulerAssumption DEF IInv, TypeOK
<1>1. ASSUME NEW c \in Callers, NEW g \in Goroutines, SpawnBegin(c, g)
      PROVE  UNCHANGED Status
  <2>1. \A h \in Goroutines : HasToken(h)' <=> HasToken(h)
    BY <1>1 DEF SpawnBegin, CanCall, NoCall, HasToken, Unparks
  <2>2. QED
    BY <1>1, <2>1, StatusSame DEF SpawnBegin, StatusOf, ParkPC
<1>2. ASSUME NEW c \in Callers, NEW g \in Goroutines, UnparkBegin(c, g)
      PROVE  UNCHANGED Status
  <2>1. \A h \in Goroutines : HasToken(h)' <=> HasToken(h)
    BY <1>2 DEF UnparkBegin, CanCall, NoCall, HasToken, Unparks
  <2>2. QED
    BY <1>2, <2>1, StatusSame DEF UnparkBegin, StatusOf
<1>3. ASSUME NEW c \in Callers, SpawnFail(c)
      PROVE  UNCHANGED Status
  <2>1. PICK g \in Goroutines : g = call[c].g /\ gpc[g] = "made" /\ bound[g] = Unbound
    BY <1>3 DEF SpawnFail, PlacesInv, CallTargetInv, BoundInv
  <2>2. \A h \in Goroutines : HasToken(h)' <=> HasToken(h)
    BY <1>3 DEF SpawnFail, HasToken, Unparks, NoCall
  <2>3. QED
    BY <1>3, <2>1, <2>2, StatusSame DEF SpawnFail, StatusOf, ParkPC
<1>4. ASSUME NEW g \in Goroutines, Park(g)
      PROVE  UNCHANGED Status
  <2>1. \A h \in Goroutines : HasToken(h)' <=> HasToken(h)
    BY <1>4 DEF Park, HasToken, Unparks
  <2>2. QED
    BY <1>4, <2>1, StatusSame DEF Park, StatusOf, ParkPC
<1>5. ASSUME NEW w \in Workers, SwitchOut(w)
      PROVE  UNCHANGED Status
  <2>1. \A h \in Goroutines : HasToken(h)' <=> HasToken(h)
    BY <1>5 DEF SwitchOut, HasToken, Unparks
  <2>2. PICK g \in Goroutines : g = cur[w] /\ gpc[g] \in SwitchPC
    BY <1>5, HolderFacts DEF SwitchOut
  <2>3. gpc' = [gpc EXCEPT ![g] = CASE gpc[g] = "parkswitch"  -> "parked"
                                    [] gpc[g] = "yieldswitch" -> "yielded"
                                    [] OTHER                  -> "finished"]
    BY <1>5, <2>2 DEF SwitchOut
  <2>4. \A h \in Goroutines \ {g} : gpc'[h] = gpc[h]
    BY <2>3
  <2>5. \/ gpc[g] = "parkswitch" /\ gpc'[g] = "parked"
        \/ gpc[g] = "yieldswitch" /\ gpc'[g] = "yielded"
        \/ gpc[g] = "doneswitch" /\ gpc'[g] = "finished"
    BY <2>2, <2>3 DEF SwitchPC
  <2>6. bound' = bound
    BY <1>5 DEF SwitchOut
  <2>7. QED
    BY <2>1, <2>4, <2>5, <2>6, StatusSame DEF StatusOf, ParkPC
<1>6. ASSUME NEW w \in Workers, ClassifyDone(w)
      PROVE  UNCHANGED Status
  <2>1. \A h \in Goroutines : HasToken(h)' <=> HasToken(h)
    BY <1>6 DEF ClassifyDone, HasToken, Unparks
  <2>2. PICK g \in Goroutines : g = cur[w] /\ state[g] = "DONE"
    BY <1>6, HolderFacts DEF ClassifyDone
  <2>3. gpc[g] \in BackPC /\ bound[g] \in Workers
    BY <1>6, <2>2 DEF ClassifyDone, PlacesInv, WorkerInv
  <2>4. gpc[g] = "finished"
    BY <1>6, <2>2, <2>3 DEF ClassifyDone, PlacesInv, StateInv, YieldInv, BackPC
  <2>5. gpc' = [gpc EXCEPT ![g] = "freed"] /\ bound' = bound
    BY <1>6, <2>2 DEF ClassifyDone
  <2>6. StatusOf("freed", bound[g], HasToken(g)) = "done"
    BY SchedulerAssumption, <2>3 DEF StatusOf, ParkPC
  <2>7. StatusOf("finished", bound[g], HasToken(g)) = "done"
    BY DEF StatusOf, ParkPC
  <2>8. gpc'[g] = "freed" /\ \A h \in Goroutines \ {g} : gpc'[h] = gpc[h]
    BY <2>5
  <2>9. ASSUME NEW h \in Goroutines
        PROVE  StatusOf(gpc'[h], bound'[h], HasToken(h)') =
                 StatusOf(gpc[h], bound[h], HasToken(h))
    <3>1. HasToken(h)' = HasToken(h)
      BY <2>1 DEF HasToken
    <3>2. CASE h = g
      BY <2>4, <2>5, <2>6, <2>7, <2>8, <3>1, <3>2
    <3>3. CASE h # g
      BY <2>5, <2>8, <3>1, <3>3
    <3>4. QED
      BY <3>2, <3>3
  <2>10. QED
    BY <2>9, StatusSame
<1>7. QED
  BY <1>1, <1>2, <1>3, <1>4, <1>5, <1>6

-----------------------------------------------------------------------------
(***************************************************************************)
(* The steps that the lifecycle sees.                                      *)
(***************************************************************************)

LEMMA InjectIsStart ==
  ASSUME IInv, NEW c \in Callers, Inject(c)
  PROVE  \E g \in Goroutines : Lifecycle!Start(g)
<1> USE SchedulerAssumption DEF IInv, TypeOK
<1>1. PICK g \in Goroutines : g = call[c].g /\ gpc[g] = "made"
  BY DEF Inject, PlacesInv, CallTargetInv
<1>2. \A h \in Goroutines : HasToken(h)' <=> HasToken(h)
  BY DEF Inject, HasToken, Unparks, NoCall
<1>3. Status' = [Status EXCEPT ![g] = "runnable"]
  BY <1>1, <1>2, StatusAt DEF Inject, StatusOf, ParkPC
<1>4. Status[g] = "absent"
  BY <1>1 DEF Status, ParkPC
<1>5. QED
  BY <1>3, <1>4 DEF Lifecycle!Start

LEMMA YieldIsYield ==
  ASSUME IInv, NEW g \in Goroutines, Yield(g)
  PROVE  Lifecycle!Yield(g)
<1> USE SchedulerAssumption DEF IInv, TypeOK
<1>1. gpc[g] = "body"
  BY DEF Yield, CanCall
<1>2. \A h \in Goroutines : HasToken(h)' <=> HasToken(h)
  BY DEF Yield, HasToken, Unparks
<1>3. Status' = [Status EXCEPT ![g] = "runnable"]
  BY <1>1, <1>2, StatusAt DEF Yield, StatusOf, ParkPC
<1>4. Status[g] = "running"
  BY <1>1 DEF Status, ParkPC
<1>5. QED
  BY <1>3, <1>4 DEF Lifecycle!Yield

LEMMA FinishIsFinish ==
  ASSUME IInv, NEW g \in Goroutines, Finish(g)
  PROVE  Lifecycle!Finish(g)
<1> USE SchedulerAssumption DEF IInv, TypeOK
<1>1. gpc[g] = "body"
  BY DEF Finish, CanCall
<1>2. \A h \in Goroutines : HasToken(h)' <=> HasToken(h)
  BY DEF Finish, HasToken, Unparks
<1>3. Status' = [Status EXCEPT ![g] = "done"]
  BY <1>1, <1>2, StatusAt DEF Finish, StatusOf, ParkPC
<1>4. Status[g] = "running"
  BY <1>1 DEF Status, ParkPC
<1>5. QED
  BY <1>3, <1>4 DEF Lifecycle!Finish

LEMMA PublishIsBlock ==
  ASSUME IInv, NEW g \in Goroutines, Publish(g)
  PROVE  Lifecycle!Block(g)
<1> USE SchedulerAssumption DEF IInv, TypeOK
<1>1. gpc[g] = "body"
  BY DEF Publish, CanCall
<1>2. /\ HasToken(g)'
      /\ \A h \in Goroutines \ {g} : HasToken(h)' <=> HasToken(h)
  BY DEF Publish, HasToken, Unparks
<1>3. Status' = [Status EXCEPT ![g] = "blocked"]
  BY <1>1, <1>2, StatusAt DEF Publish, StatusOf, ParkPC
<1>4. Status[g] = "running"
  BY <1>1 DEF Status, ParkPC
<1>5. QED
  BY <1>3, <1>4 DEF Lifecycle!Block

LEMMA UnparkInjectIsWake ==
  ASSUME IInv, NEW c \in Callers, UnparkInject(c)
  PROVE  \E G \in SUBSET Goroutines : Lifecycle!Wake(G)
<1> USE SchedulerAssumption DEF IInv, TypeOK
<1>1. PICK g \in Goroutines : g = call[c].g /\ gpc[g] \in ParkPC /\ HasToken(g)
  BY DEF UnparkInject, PlacesInv, CallTargetInv, HasToken, Unparks
<1>2. /\ ~HasToken(g)'
      /\ \A h \in Goroutines \ {g} : HasToken(h)' <=> HasToken(h)
  <2>1. g \notin slots /\ \A d \in Callers : Unparks(d, g) => d = c
    BY <1>1 DEF UnparkInject, PlacesInv, HandleInv, OneCaller, Unparks
  <2>2. QED
    BY <1>1, <2>1 DEF UnparkInject, HasToken, Unparks, NoCall
<1>3. Status' = [Status EXCEPT ![g] = "runnable"]
  BY <1>1, <1>2, StatusAt DEF UnparkInject, StatusOf, ParkPC
<1>4. Status[g] = "blocked"
  BY <1>1 DEF Status, ParkPC
<1>5. Status' = [h \in Goroutines |-> IF h \in {g} THEN "runnable" ELSE Status[h]]
  <2>1. PICK f : Status = [h \in Goroutines |-> f[h]]
    <3>1. Status = [h \in Goroutines |->
                      [k \in Goroutines |->
                         StatusOf(gpc[k], bound[k], HasToken(k))][h]]
      BY StatusPointwise
    <3>2. QED
      BY <3>1
  <2>2. QED
    BY <1>3, <2>1
<1>6. Lifecycle!Wake({g})
  BY <1>4, <1>5 DEF Lifecycle!Wake
<1>7. QED
  BY <1>6

\* The running goroutines and the one worker w is about to switch into are on
\* distinct workers.
LEMMA RunningFit ==
  ASSUME IInv, NEW w \in Workers, wpc[w] = "popped"
  PROVE  Lifecycle!Fit(Lifecycle!Running \cup {cur[w]})
<1> DEFINE G  == Lifecycle!Running \cup {cur[w]}
           on == [g \in G |-> IF g = cur[w] THEN w
                              ELSE CHOOSE v \in Workers : RunsOn(g, v)]
<1>1. ASSUME NEW g \in G, g # cur[w] PROVE on[g] \in Workers /\ RunsOn(g, on[g])
  <2>1. g \in Goroutines /\ Status[g] = "running"
    BY <1>1 DEF Lifecycle!Running
  <2>2. gpc[g] \in GoroutinePC
    BY <2>1 DEF IInv, TypeOK
  <2>3. gpc[g] = "body"
    BY <2>1, <2>2 DEF Status, ParkPC, GoroutinePC
  <2>4. \E v \in Workers : RunsOn(g, v)
    BY <2>1, <2>3 DEF IInv, PlacesInv, BoundInv, RunPC
  <2>5. QED
    BY <1>1, <2>4
<1>2. on[cur[w]] = w
  OBVIOUS
<1>3. on \in [G -> Workers]
  BY <1>1, <1>2
<1>4. ASSUME NEW g \in G, NEW h \in G, on[g] = on[h] PROVE g = h
  BY <1>1, <1>2, <1>4 DEF RunsOn
<1>5. QED
  BY <1>3, <1>4 DEF Lifecycle!Fit

LEMMA SwitchInIsRun ==
  ASSUME IInv, NEW w \in Workers, SwitchIn(w)
  PROVE  \E g \in Goroutines : Lifecycle!Run(g)
<1> USE SchedulerAssumption DEF IInv, TypeOK
<1>1. PICK g \in Goroutines :
        /\ g = cur[w]
        /\ gpc[g] \in {"entry", "parked", "yielded"} /\ ~HasToken(g)
  BY DEF SwitchIn, PlacesInv, WorkerInv
<1>2. \A h \in Goroutines : HasToken(h)' <=> HasToken(h)
  BY DEF SwitchIn, HasToken, Unparks
<1>3. Status' = [Status EXCEPT ![g] = "running"]
  BY <1>1, <1>2, StatusAt DEF SwitchIn, StatusOf, ParkPC
<1>4. Status[g] = "runnable"
  BY <1>1 DEF Status, ParkPC
<1>5. Lifecycle!Fit(Lifecycle!Running \cup {g})
  BY <1>1, RunningFit DEF SwitchIn
<1>6. QED
  BY <1>3, <1>4, <1>5 DEF Lifecycle!Run

-----------------------------------------------------------------------------
\* The scheduler implements the lifecycle.
THEOREM Refinement == Spec => ImplementsLifecycle
<1>1. Init => Lifecycle!Init
  BY DEF Init, Lifecycle!Init, Status, ParkPC
<1>2. IInv /\ [Next]_vars => [Lifecycle!Next]_Status
  <2> SUFFICES ASSUME IInv, [Next]_vars PROVE Lifecycle!Next \/ UNCHANGED Status
    OBVIOUS
  <2>1. CASE UNCHANGED vars
    BY <2>1 DEF vars, runQueue, Status, HasToken, Unparks
  <2>2. CASE MainStep
    BY <2>2, QueueStepsStutter DEF MainStep
  <2>3. ASSUME NEW c \in Callers, CallStep(c)
        PROVE  Lifecycle!Next \/ UNCHANGED Status
    BY <2>3, HalfStepsStutter, QueueStepsStutter, InjectIsStart, UnparkInjectIsWake
       DEF CallStep, Lifecycle!Next
  <2>4. ASSUME NEW c \in Callers, NEW g \in Goroutines,
               SpawnBegin(c, g) \/ UnparkBegin(c, g)
        PROVE  Lifecycle!Next \/ UNCHANGED Status
    BY <2>4, HalfStepsStutter
  <2>5. ASSUME NEW g \in Goroutines, GoroutineStep(g)
        PROVE  Lifecycle!Next \/ UNCHANGED Status
    BY <2>5, HalfStepsStutter, PublishIsBlock, YieldIsYield, FinishIsFinish
       DEF GoroutineStep, Lifecycle!Next
  <2>6. ASSUME NEW w \in Workers, WorkerStep(w)
        PROVE  Lifecycle!Next \/ UNCHANGED Status
    BY <2>6, QueueStepsStutter, HalfStepsStutter, SwitchInIsRun
       DEF WorkerStep, Lifecycle!Next
  <2>7. QED
    BY <2>1, <2>2, <2>3, <2>4, <2>5, <2>6 DEF Next
<1>3. QED
  BY <1>1, <1>2, Inductive, PTL DEF Spec, ImplementsLifecycle, Lifecycle!Spec

=============================================================================
