------------------------------ MODULE Scheduler ------------------------------
(***************************************************************************)
(* The M:N goroutine scheduler (runtime/src/gada-async-scheduler.adb):     *)
(* a pool of worker tasks drains a shared FIFO of fresh goroutines (Items), *)
(* a per-worker FIFO of unparked ones (Inboxes) and a worker-local FIFO of *)
(* yielded ones (Local).  Every step below is either one protected action  *)
(* of Run_Queue or one write of the atomic field State, so all the races   *)
(* between a parking goroutine, its worker and its unparker are present.   *)
(*                                                                         *)
(* The bodies of goroutines are arbitrary: while it runs, a goroutine may   *)
(* yield, park, spawn, unpark another one or finish.  A goroutine that is   *)
(* about to park first publishes its handle (a channel Wait_Slot, or the   *)
(* Goroutine_Id given to the helper of a syscall); whoever takes that      *)
(* handle out calls Unpark on it once.  That discipline is the callers':   *)
(* channels and syscall helpers follow it, the scheduler does not enforce  *)
(* it.                                                                     *)
(***************************************************************************)
EXTENDS Naturals, Sequences, FiniteSets, Functions

CONSTANTS
  Goroutines,     \* Goroutine_Record addresses, each allocated at most once
  Workers,        \* Active_Worker_Index range that Init brings up
  Helpers,        \* Ada tasks that are neither workers nor the main task
  Main,           \* the task that calls Init and Shutdown
  NoG,            \* the null Goroutine_Access
  Unbound,        \* Worker_Index 0
  HelperSpawns,   \* whether helpers call Spawn too (Spawn's spec allows it)
  Pollers         \* goroutines whose body may yield forever

ASSUME SchedulerAssumption ==
  /\ NoG \notin Goroutines
  /\ Unbound \notin Workers
  /\ Goroutines \cap Helpers = {}
  /\ Main \notin Goroutines \cup Helpers
  /\ IsFiniteSet(Goroutines) /\ IsFiniteSet(Workers)
  /\ Workers # {}
  /\ HelperSpawns \in BOOLEAN
  /\ Pollers \subseteq Goroutines

VARIABLES
  items, inbox, inFlight, shuttingDown, workersActive, initialised, \* Run_Queue
  state, bound,   \* Goroutine_Record.State and .Bound_Worker
  gpc,            \* control point of each goroutine
  local, cur, wpc,\* Worker_Task: Local list, variable G, control point
  slots,          \* goroutines whose handle is published for an Unpark
  call,           \* the Spawn or Unpark each caller is inside
  mpc             \* control point of the main task in Init / Shutdown

runQueue == <<items, inbox, inFlight, shuttingDown, workersActive, initialised>>
vars == <<runQueue, state, bound, gpc, local, cur, wpc, slots, call, mpc>>

Callers == Goroutines \cup Helpers \cup {Main}

GoroutineState == {"READY", "RUNNING", "YIELDED", "PARKED", "DONE"}

GoroutinePC ==
  {"none",        \* not allocated
   "made",        \* allocated by Spawn, not injected yet
   "entry",       \* injected, body not entered
   "body",        \* inside Body_Proc
   "parking",     \* handle published, Park not entered
   "parkswitch",  \* Park wrote PARKED, about to switch out
   "parked",      \* suspended inside Park
   "yieldswitch", \* Yield wrote YIELDED, about to switch out
   "yielded",     \* suspended inside Yield
   "doneswitch",  \* trampoline wrote DONE, about to switch out
   "finished",    \* suspended in the trampoline tail
   "freed"}       \* record deallocated

WorkerPC == {"off", "loop", "popped", "switched", "back", "reap", "exiting"}
MainPC   == {"off", "starting", "allocating", "up", "draining", "drained"}
CallOp   == {"none", "spawn", "ready", "inject"}

NoCall == [op |-> "none", g |-> NoG]

(***************************************************************************)
(* The goroutine on whose stack worker w's OS thread is (Current).         *)
(***************************************************************************)
RunsOn(g, w) == wpc[w] = "switched" /\ cur[w] = g

(***************************************************************************)
(* A caller free to make a call: a helper always, the main task between    *)
(* Init and Shutdown, a goroutine while its body runs on a worker.         *)
(***************************************************************************)
CanCall(c) ==
  /\ call[c] = NoCall
  /\ c = Main => mpc = "up"
  /\ c \in Goroutines => gpc[c] = "body" /\ \E w \in Workers : RunsOn(c, w)

Init ==
  /\ items = <<>>
  /\ inbox = [w \in Workers |-> <<>>]
  /\ inFlight = 0
  /\ shuttingDown = FALSE
  /\ workersActive = 0
  /\ initialised = FALSE
  /\ state = [g \in Goroutines |-> "READY"]
  /\ bound = [g \in Goroutines |-> Unbound]
  /\ gpc = [g \in Goroutines |-> "none"]
  /\ local = [w \in Workers |-> <<>>]
  /\ cur = [w \in Workers |-> NoG]
  /\ wpc = [w \in Workers |-> "off"]
  /\ slots = {}
  /\ call = [c \in Callers |-> NoCall]
  /\ mpc = "off"

-----------------------------------------------------------------------------
(***************************************************************************)
(* Init and Shutdown, run by the main task.                                *)
(***************************************************************************)

\* Init: Reset_Lifecycle and Set_Initialised (True).
InitBegin ==
  /\ mpc = "off" /\ ~initialised
  /\ shuttingDown' = FALSE
  /\ inFlight' = 0
  /\ items' = <<>>
  /\ inbox' = [w \in Workers |-> <<>>]
  /\ initialised' = TRUE
  /\ mpc' = "starting"
  /\ UNCHANGED <<workersActive, state, bound, gpc, local, cur, wpc, slots, call>>

\* Init's loop: Worker_Started before each task allocation.
InitBump ==
  /\ mpc = "starting"
  /\ \E w \in Workers : wpc[w] = "off"
  /\ workersActive' = workersActive + 1
  /\ mpc' = "allocating"
  /\ UNCHANGED <<items, inbox, inFlight, shuttingDown, initialised,
                 state, bound, gpc, local, cur, wpc, slots, call>>

\* new Worker_Task (Idx => w) succeeds.
InitAllocate(w) ==
  /\ mpc = "allocating" /\ wpc[w] = "off"
  /\ wpc' = [wpc EXCEPT ![w] = "loop"]
  /\ mpc' = "starting"
  /\ UNCHANGED <<runQueue, state, bound, gpc, local, cur, slots, call>>

\* Mutant of InitRollback: Worker_Stopped repeated.
InitRollbackTwice ==
  /\ mpc = "allocating"
  /\ workersActive' = workersActive - 2
  /\ shuttingDown' = TRUE
  /\ mpc' = "draining"
  /\ UNCHANGED <<items, inbox, inFlight, initialised,
                 state, bound, gpc, local, cur, wpc, slots, call>>

\* The allocation raises: Worker_Stopped, Mark_Shutdown, then Drain.
InitRollback ==
  /\ mpc = "allocating"
  /\ workersActive' = workersActive - 1
  /\ shuttingDown' = TRUE
  /\ mpc' = "draining"
  /\ UNCHANGED <<items, inbox, inFlight, initialised,
                 state, bound, gpc, local, cur, wpc, slots, call>>

InitReturn ==
  /\ mpc = "starting"
  /\ \A w \in Workers : wpc[w] # "off"
  /\ mpc' = "up"
  /\ UNCHANGED <<runQueue, state, bound, gpc, local, cur, wpc, slots, call>>

\* Shutdown: Mark_Shutdown.
MarkShutdown ==
  /\ mpc = "up" /\ call[Main] = NoCall
  /\ shuttingDown' = TRUE
  /\ mpc' = "draining"
  /\ UNCHANGED <<items, inbox, inFlight, workersActive, initialised,
                 state, bound, gpc, local, cur, wpc, slots, call>>

\* Mutant of Drain: no goroutine in flight is taken for no worker left.
DrainWhenIdle ==
  /\ mpc = "draining" /\ inFlight = 0
  /\ mpc' = "drained"
  /\ UNCHANGED <<runQueue, state, bound, gpc, local, cur, wpc, slots, call>>

\* The entry Drain, whose barrier is Workers_Active = 0.
Drain ==
  /\ mpc = "draining" /\ workersActive = 0
  /\ mpc' = "drained"
  /\ UNCHANGED <<runQueue, state, bound, gpc, local, cur, wpc, slots, call>>

ShutdownReturn ==
  /\ mpc = "drained"
  /\ initialised' = FALSE
  /\ mpc' = "off"
  /\ UNCHANGED <<items, inbox, inFlight, shuttingDown, workersActive,
                 state, bound, gpc, local, cur, wpc, slots, call>>

-----------------------------------------------------------------------------
(***************************************************************************)
(* Spawn and Unpark, run by any caller.                                    *)
(***************************************************************************)

\* Spawn: the Is_Initialised check and the allocation of the record.
SpawnBegin(c, g) ==
  /\ CanCall(c)
  /\ c \in Helpers => HelperSpawns
  /\ initialised
  /\ gpc[g] = "none"
  /\ gpc' = [gpc EXCEPT ![g] = "made"]
  /\ call' = [call EXCEPT ![c] = [op |-> "spawn", g |-> g]]
  /\ UNCHANGED <<runQueue, state, bound, local, cur, wpc, slots, mpc>>

\* Context.Make raised: the record is freed and the exception re-raised.
SpawnFail(c) ==
  /\ call[c].op = "spawn"
  /\ gpc' = [gpc EXCEPT ![call[c].g] = "freed"]
  /\ call' = [call EXCEPT ![c] = NoCall]
  /\ UNCHANGED <<runQueue, state, bound, local, cur, wpc, slots, mpc>>

\* Run_Queue.Inject.
Inject(c) ==
  /\ call[c].op = "spawn"
  /\ inFlight' = inFlight + 1
  /\ items' = Append(items, call[c].g)
  /\ gpc' = [gpc EXCEPT ![call[c].g] = "entry"]
  /\ call' = [call EXCEPT ![c] = NoCall]
  /\ UNCHANGED <<inbox, shuttingDown, workersActive, initialised,
                 state, bound, local, cur, wpc, slots, mpc>>

\* The caller takes g's published handle and enters Unpark with it.
UnparkBegin(c, g) ==
  /\ CanCall(c)
  /\ g \in slots
  /\ slots' = slots \ {g}
  /\ call' = [call EXCEPT ![c] = [op |-> "ready", g |-> g]]
  /\ UNCHANGED <<runQueue, state, bound, gpc, local, cur, wpc, mpc>>

\* Mutant of UnparkWrite: a goroutine not yet PARKED is not woken.
UnparkWriteIfParked(c) ==
  LET g == call[c].g IN
  /\ call[c].op = "ready"
  /\ bound[g] # Unbound
  /\ IF state[g] = "PARKED"
     THEN /\ state' = [state EXCEPT ![g] = "READY"]
          /\ call' = [call EXCEPT ![c].op = "inject"]
     ELSE call' = [call EXCEPT ![c] = NoCall] /\ state' = state
  /\ UNCHANGED <<runQueue, bound, gpc, local, cur, wpc, slots, mpc>>

\* Unpark: the Bound_Worker check, then State := READY.
UnparkWrite(c) ==
  LET g == call[c].g IN
  /\ call[c].op = "ready"
  /\ bound[g] # Unbound
  /\ state' = [state EXCEPT ![g] = "READY"]
  /\ call' = [call EXCEPT ![c].op = "inject"]
  /\ UNCHANGED <<runQueue, bound, gpc, local, cur, wpc, slots, mpc>>

\* Mutant of UnparkInject: any worker's Inbox will do.
UnparkInjectAnywhere(c) ==
  /\ call[c].op = "inject"
  /\ \E w \in Workers : inbox' = [inbox EXCEPT ![w] = Append(@, call[c].g)]
  /\ call' = [call EXCEPT ![c] = NoCall]
  /\ UNCHANGED <<items, inFlight, shuttingDown, workersActive, initialised,
                 state, bound, gpc, local, cur, wpc, slots, mpc>>

\* Unpark: Run_Queue.Inject_Local (Bound_Worker, G).
UnparkInject(c) ==
  LET g == call[c].g IN
  /\ call[c].op = "inject"
  /\ inbox' = [inbox EXCEPT ![bound[g]] = Append(@, g)]
  /\ call' = [call EXCEPT ![c] = NoCall]
  /\ UNCHANGED <<items, inFlight, shuttingDown, workersActive, initialised,
                 state, bound, gpc, local, cur, wpc, slots, mpc>>

-----------------------------------------------------------------------------
(***************************************************************************)
(* The running goroutine.                                                  *)
(***************************************************************************)

\* The body publishes Current for a later Unpark; it will call Park next.
Publish(g) ==
  /\ CanCall(g)
  /\ slots' = slots \cup {g}
  /\ gpc' = [gpc EXCEPT ![g] = "parking"]
  /\ UNCHANGED <<runQueue, state, bound, local, cur, wpc, call, mpc>>

\* Park: State := PARKED.
Park(g) ==
  /\ gpc[g] = "parking"
  /\ state' = [state EXCEPT ![g] = "PARKED"]
  /\ gpc' = [gpc EXCEPT ![g] = "parkswitch"]
  /\ UNCHANGED <<runQueue, bound, local, cur, wpc, slots, call, mpc>>

\* Yield: State := YIELDED.
Yield(g) ==
  /\ CanCall(g)
  /\ state' = [state EXCEPT ![g] = "YIELDED"]
  /\ gpc' = [gpc EXCEPT ![g] = "yieldswitch"]
  /\ UNCHANGED <<runQueue, bound, local, cur, wpc, slots, call, mpc>>

\* Mutant of Finish: DONE is not written.
FinishStaysRunning(g) ==
  /\ CanCall(g)
  /\ gpc' = [gpc EXCEPT ![g] = "doneswitch"]
  /\ UNCHANGED <<runQueue, state, bound, local, cur, wpc, slots, call, mpc>>

\* Goroutine_Trampoline: the body returned or raised; State := DONE.
Finish(g) ==
  /\ CanCall(g)
  /\ state' = [state EXCEPT ![g] = "DONE"]
  /\ gpc' = [gpc EXCEPT ![g] = "doneswitch"]
  /\ UNCHANGED <<runQueue, bound, local, cur, wpc, slots, call, mpc>>

SwitchPC == {"parkswitch", "yieldswitch", "doneswitch"}

\* Switch_To (Worker_Ctx): the worker's own Switch_To returns.
SwitchOut(w) ==
  /\ wpc[w] = "switched"
  /\ gpc[cur[w]] \in SwitchPC
  /\ gpc' = [gpc EXCEPT ![cur[w]] = CASE @ = "parkswitch"  -> "parked"
                                      [] @ = "yieldswitch" -> "yielded"
                                      [] OTHER             -> "finished"]
  /\ wpc' = [wpc EXCEPT ![w] = "back"]
  /\ UNCHANGED <<runQueue, state, bound, local, cur, slots, call, mpc>>

-----------------------------------------------------------------------------
(***************************************************************************)
(* Worker_Task.                                                            *)
(***************************************************************************)

Take(w, g) ==
  /\ cur' = [cur EXCEPT ![w] = g]
  /\ wpc' = [wpc EXCEPT ![w] = "popped"]

\* The worker-local list comes first.
PopLocal(w) ==
  /\ wpc[w] = "loop" /\ local[w] # <<>>
  /\ Take(w, Head(local[w]))
  /\ local' = [local EXCEPT ![w] = Tail(@)]
  /\ UNCHANGED <<runQueue, state, bound, gpc, slots, call, mpc>>

\* Entry Pop (w), first branch: the worker's own Inbox.
PopInbox(w) ==
  /\ wpc[w] = "loop" /\ local[w] = <<>>
  /\ inbox[w] # <<>>
  /\ Take(w, Head(inbox[w]))
  /\ inbox' = [inbox EXCEPT ![w] = Tail(@)]
  /\ UNCHANGED <<items, inFlight, shuttingDown, workersActive, initialised,
                 state, bound, gpc, local, slots, call, mpc>>

\* Mutant of PopItem: no fresh goroutine starts once Shutdown is under way.
PopItemUnlessStopping(w) ==
  /\ wpc[w] = "loop" /\ local[w] = <<>> /\ ~shuttingDown
  /\ inbox[w] = <<>> /\ items # <<>>
  /\ Take(w, Head(items))
  /\ items' = Tail(items)
  /\ UNCHANGED <<inbox, inFlight, shuttingDown, workersActive, initialised,
                 state, bound, gpc, local, slots, call, mpc>>

\* Entry Pop (w), second branch: the shared Items.
PopItem(w) ==
  /\ wpc[w] = "loop" /\ local[w] = <<>>
  /\ inbox[w] = <<>> /\ items # <<>>
  /\ Take(w, Head(items))
  /\ items' = Tail(items)
  /\ UNCHANGED <<inbox, inFlight, shuttingDown, workersActive, initialised,
                 state, bound, gpc, local, slots, call, mpc>>

\* Mutant of PopStop: empty queues are taken for a drained pool.
PopStopInFlight(w) ==
  /\ wpc[w] = "loop" /\ local[w] = <<>>
  /\ inbox[w] = <<>> /\ items = <<>>
  /\ shuttingDown
  /\ wpc' = [wpc EXCEPT ![w] = "exiting"]
  /\ UNCHANGED <<runQueue, state, bound, gpc, local, cur, slots, call, mpc>>

\* Entry Pop (w), third branch: Stop => True.
PopStop(w) ==
  /\ wpc[w] = "loop" /\ local[w] = <<>>
  /\ inbox[w] = <<>> /\ items = <<>>
  /\ shuttingDown /\ inFlight = 0
  /\ wpc' = [wpc EXCEPT ![w] = "exiting"]
  /\ UNCHANGED <<runQueue, state, bound, gpc, local, cur, slots, call, mpc>>

\* Bind on first pop, stamp RUNNING and Switch_To (G.Ctx).
SwitchIn(w) ==
  LET g == cur[w] IN
  /\ wpc[w] = "popped"
  /\ bound' = [bound EXCEPT ![g] = IF @ = Unbound THEN w ELSE @]
  /\ state' = [state EXCEPT ![g] = "RUNNING"]
  /\ gpc' = [gpc EXCEPT ![g] = "body"]
  /\ wpc' = [wpc EXCEPT ![w] = "switched"]
  /\ UNCHANGED <<runQueue, local, cur, slots, call, mpc>>

Release(w, next) ==
  /\ cur' = [cur EXCEPT ![w] = NoG]
  /\ wpc' = [wpc EXCEPT ![w] = next]

\* case G.State: YIELDED -- append to the worker-local list.
ClassifyYielded(w) ==
  LET g == cur[w] IN
  /\ wpc[w] = "back" /\ state[g] = "YIELDED"
  /\ state' = [state EXCEPT ![g] = "READY"]
  /\ local' = [local EXCEPT ![w] = Append(@, g)]
  /\ Release(w, "loop")
  /\ UNCHANGED <<runQueue, bound, gpc, slots, call, mpc>>

\* Mutant of ClassifyParked: the READY arm requeues, as the YIELDED arm does.
ClassifyParkedRequeues(w) ==
  LET g == cur[w] IN
  /\ wpc[w] = "back" /\ state[g] \in {"PARKED", "READY"}
  /\ local' = IF state[g] = "READY" THEN [local EXCEPT ![w] = Append(@, g)] ELSE local
  /\ Release(w, "loop")
  /\ UNCHANGED <<runQueue, state, bound, gpc, slots, call, mpc>>

\* case G.State: PARKED, or READY when an Unpark won the race -- leave it.
ClassifyParked(w) ==
  /\ wpc[w] = "back" /\ state[cur[w]] \in {"PARKED", "READY"}
  /\ Release(w, "loop")
  /\ UNCHANGED <<runQueue, state, bound, gpc, local, slots, call, mpc>>

\* case G.State: DONE -- Free_Local_Storage, Context.Free, Free_Goroutine.
ClassifyDone(w) ==
  LET g == cur[w] IN
  /\ wpc[w] = "back" /\ state[g] = "DONE"
  /\ gpc' = [gpc EXCEPT ![g] = "freed"]
  /\ Release(w, "reap")
  /\ UNCHANGED <<runQueue, state, bound, local, slots, call, mpc>>

\* Mutant of Reap: In_Flight is left alone.
ReapNothing(w) ==
  /\ wpc[w] = "reap"
  /\ wpc' = [wpc EXCEPT ![w] = "loop"]
  /\ UNCHANGED <<runQueue, state, bound, gpc, local, cur, slots, call, mpc>>

\* Run_Queue.Reap, after the record is gone.
Reap(w) ==
  /\ wpc[w] = "reap"
  /\ inFlight' = inFlight - 1
  /\ wpc' = [wpc EXCEPT ![w] = "loop"]
  /\ UNCHANGED <<items, inbox, shuttingDown, workersActive, initialised,
                 state, bound, gpc, local, cur, slots, call, mpc>>

\* Run_Queue.Worker_Stopped at the tail of the task body.
WorkerStopped(w) ==
  /\ wpc[w] = "exiting"
  /\ workersActive' = workersActive - 1
  /\ wpc' = [wpc EXCEPT ![w] = "off"]
  /\ UNCHANGED <<items, inbox, inFlight, shuttingDown, initialised,
                 state, bound, gpc, local, cur, slots, call, mpc>>

-----------------------------------------------------------------------------
MainStep ==
  \/ InitBegin \/ InitBump \/ InitRollback \/ InitReturn
  \/ \E w \in Workers : InitAllocate(w)
  \/ MarkShutdown \/ Drain \/ ShutdownReturn

CallStep(c) == SpawnFail(c) \/ Inject(c) \/ UnparkWrite(c) \/ UnparkInject(c)

GoroutineStep(g) == Publish(g) \/ Park(g) \/ Yield(g) \/ Finish(g)

WorkerStep(w) ==
  \/ PopLocal(w) \/ PopInbox(w) \/ PopItem(w) \/ PopStop(w)
  \/ SwitchIn(w) \/ SwitchOut(w)
  \/ ClassifyYielded(w) \/ ClassifyParked(w) \/ ClassifyDone(w)
  \/ Reap(w) \/ WorkerStopped(w)

Next ==
  \/ MainStep
  \/ \E c \in Callers :
       \/ CallStep(c)
       \/ \E g \in Goroutines : SpawnBegin(c, g) \/ UnparkBegin(c, g)
  \/ \E g \in Goroutines : GoroutineStep(g)
  \/ \E w \in Workers : WorkerStep(w)

Spec == Init /\ [][Next]_vars

(***************************************************************************)
(* Fairness.  Worker tasks, callers inside a call, a main task inside      *)
(* Init or Shutdown and a running goroutine are OS threads: each keeps     *)
(* taking its enabled step.  A published handle is eventually unparked by  *)
(* some helper (the counterpart of a channel, the end of a syscall).  A    *)
(* body that does not poll eventually returns, however often it yields or  *)
(* parks: that is the only strong fairness.                                *)
(***************************************************************************)
MainProgress ==
  \/ InitBump \/ InitReturn \/ Drain \/ ShutdownReturn
  \/ \E w \in Workers : InitAllocate(w)

Fairness ==
  /\ WF_vars(MainProgress)
  /\ \A c \in Callers : WF_vars(CallStep(c))
  /\ \A w \in Workers : WF_vars(WorkerStep(w))
  /\ \A g \in Goroutines :
       /\ WF_vars(GoroutineStep(g))
       /\ WF_vars(\E h \in Helpers : UnparkBegin(h, g))
       /\ g \notin Pollers => SF_vars(Finish(g))

FairSpec == Spec /\ Fairness

-----------------------------------------------------------------------------
(***************************************************************************)
(* Properties.                                                             *)
(***************************************************************************)

\* Types of the scheduler's state; In_Flight and Workers_Active are Natural,
\* so a decrement below zero would raise Constraint_Error in the code.
TypeOK ==
  /\ items \in Seq(Goroutines)
  /\ inbox \in [Workers -> Seq(Goroutines)]
  /\ inFlight \in Nat
  /\ shuttingDown \in BOOLEAN
  /\ workersActive \in Nat
  /\ initialised \in BOOLEAN
  /\ state \in [Goroutines -> GoroutineState]
  /\ bound \in [Goroutines -> Workers \cup {Unbound}]
  /\ gpc \in [Goroutines -> GoroutinePC]
  /\ local \in [Workers -> Seq(Goroutines)]
  /\ cur \in [Workers -> Goroutines \cup {NoG}]
  /\ wpc \in [Workers -> WorkerPC]
  /\ slots \in SUBSET Goroutines
  /\ call \in [Callers -> [op : CallOp, g : Goroutines \cup {NoG}]]
  /\ mpc \in MainPC

\* Every queue of worker w, and w's thread while it is switched in, holds only
\* goroutines bound to w: a libco context must never run on another thread.
Pinned ==
  \A w \in Workers :
    /\ \A g \in Range(inbox[w]) \cup Range(local[w]) : bound[g] = w
    /\ wpc[w] \in {"switched", "back"} => bound[cur[w]] = w
    /\ wpc[w] = "popped" => bound[cur[w]] \in {w, Unbound}

\* Resumable(w): the goroutine worker w is about to switch into or is running.
Resumable(w) ==
  IF wpc[w] \in {"popped", "switched"} THEN {cur[w]} ELSE {}

\* A goroutine waits for at most one resumption: it is queued at most once over
\* Items, all Inboxes and all Local lists, and while a worker is about to run it
\* it is queued nowhere.  A second resumption would switch into a live stack.
ResumedOnce ==
  /\ IsInjective(items)
  /\ \A w \in Workers : IsInjective(inbox[w]) /\ IsInjective(local[w])
  /\ \A w, v \in Workers :
       /\ Range(items) \cap (Range(inbox[w]) \cup Range(local[w])) = {}
       /\ Range(inbox[w]) \cap Range(local[v]) = {}
       /\ w # v => /\ Range(inbox[w]) \cap Range(inbox[v]) = {}
                   /\ Range(local[w]) \cap Range(local[v]) = {}
                   /\ Resumable(w) \cap Resumable(v) = {}
       /\ Resumable(w) \cap (Range(items) \cup Range(local[v])) = {}
       /\ wpc[w] = "popped" => cur[w] \notin Range(inbox[v])

\* Unparkers(g): callers inside an Unpark of g.
Unparkers(g) == {c \in Callers : call[c].op \in {"ready", "inject"} /\ call[c].g = g}

\* No wake-up is lost: a goroutine that published its handle and has not been
\* resumed from the Park that follows has exactly one pending wake-up: its
\* handle, one Unpark in progress, or its entry in its own worker's Inbox.
WakeupPending ==
  \A g \in Goroutines :
    gpc[g] \in {"parking", "parkswitch", "parked"} =>
      LET resuming == \E w \in Workers : wpc[w] = "popped" /\ cur[w] = g
          queued   == \E w \in Workers : g \in Range(inbox[w])
      IN  \/ /\ g \in slots
             /\ Unparkers(g) = {} /\ ~queued /\ ~resuming
          \/ /\ g \notin slots
             /\ \E c \in Callers : Unparkers(g) = {c} /\ ~queued /\ ~resuming
          \/ /\ g \notin slots /\ Unparkers(g) = {}
             /\ queued # resuming

\* A freed Goroutine_Record is referenced by no queue, worker, handle or Unpark.
NoUseAfterFree ==
  \A g \in Goroutines :
    gpc[g] = "freed" =>
      /\ g \notin slots /\ Unparkers(g) = {}
      /\ g \notin Range(items)
      /\ \A w \in Workers :
           cur[w] # g /\ g \notin Range(inbox[w]) \cup Range(local[w])

\* What the worker reads in State after Switch_To agrees with why the goroutine
\* switched out; READY appears only where an Unpark overtook the switch of a
\* Park.  So the case statement's last arm, which would end the task without
\* Worker_Stopped and hang Drain, is never taken.
StateAgrees ==
  \A w \in Workers :
    LET g == cur[w] IN
    wpc[w] = "back" =>
      CASE gpc[g] = "yielded"  -> state[g] = "YIELDED"
        [] gpc[g] = "finished" -> state[g] = "DONE"
        [] gpc[g] = "parked"   -> \/ state[g] = "PARKED"
                                  \/ state[g] = "READY" /\ g \notin slots

\* Goroutines injected and not freed; workers between the free and the Reap.
Alive   == {g \in Goroutines : gpc[g] \notin {"none", "made", "freed"}}
Reaping == {w \in Workers : wpc[w] = "reap"}
Started == {w \in Workers : wpc[w] # "off"}

\* In_Flight counts the goroutines injected and not yet reaped, so Drain's
\* condition means what Shutdown's contract says.
InFlightCounts == inFlight = Cardinality(Alive) + Cardinality(Reaping)

\* Workers_Active counts the tasks Drain has to wait for: one bumped before its
\* allocation and every one that has not run Worker_Stopped.
WorkersCounted ==
  workersActive = Cardinality(Started) + (IF mpc = "allocating" THEN 1 ELSE 0)

\* Both counts are exact: what Pop's stop and Drain's opening are decided by.
CountsExact == InFlightCounts /\ WorkersCounted

\* Shutdown is a join: once Drain has opened, no goroutine is queued, running
\* or parked, and the next Reset_Lifecycle discards nothing.
ShutdownJoins ==
  mpc \in {"drained", "off"} =>
    /\ items = <<>> /\ inFlight = 0
    /\ \A w \in Workers : wpc[w] = "off" /\ inbox[w] = <<>> /\ local[w] = <<>>
    /\ \A g \in Goroutines : gpc[g] \in {"none", "made", "freed"}

\* What is left of the join when a helper inside Spawn injects its goroutine
\* while Shutdown drains or after it: once Drain has opened, no worker task is
\* left, nor any goroutine that a worker ever ran, queued or suspended; a late
\* Spawn leaves behind only goroutines that have not begun.
RanJoined ==
  mpc \in {"drained", "off"} =>
    /\ \A w \in Workers : wpc[w] = "off" /\ inbox[w] = <<>> /\ local[w] = <<>>
    /\ \A g \in Goroutines :
         IF bound[g] = Unbound THEN gpc[g] \in {"none", "made", "entry", "freed"}
                               ELSE gpc[g] = "freed"

\* Shutdown terminates when every body does.
ShutdownTerminates == mpc = "draining" ~> mpc = "off"

\* A goroutine that Spawn injected into Items is eventually switched into, also
\* when Shutdown has begun meanwhile.
FreshRuns == \A g \in Goroutines : gpc[g] = "entry" ~> gpc[g] # "entry"

\* A goroutine that Unpark put into its worker's Inbox runs again: no worker
\* leaves the pool while one of its own goroutines is still to be resumed.
UnparkedRuns == \A g \in Goroutines :
  (\E w \in Workers : g \in Range(inbox[w])) ~> gpc[g] = "body"

=============================================================================
