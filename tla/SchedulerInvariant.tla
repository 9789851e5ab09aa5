-------------------------- MODULE SchedulerInvariant --------------------------
(***************************************************************************)
(* The inductive invariant of Scheduler.  It says, for each place that can *)
(* hold a reference to a goroutine (the queues, a worker's variable G, a   *)
(* published handle, a caller's Unpark or Spawn), at which control point   *)
(* that goroutine then is and which other places cannot hold it.           *)
(***************************************************************************)
EXTENDS Scheduler

\* A goroutine on a worker's thread, and one suspended off it.
RunPC  == {"body", "parking", "parkswitch", "yieldswitch", "doneswitch"}
BackPC == {"parked", "yielded", "finished"}

\* From the publication of the handle to the resumption in Park.
ParkPC == {"parking", "parkswitch", "parked"}

Queued(g) ==
  \/ g \in Range(items)
  \/ \E w \in Workers : g \in Range(inbox[w]) \cup Range(local[w])

Unparks(c, g) == call[c].op \in {"ready", "inject"} /\ call[c].g = g

\* A wake-up of g that has not reached its Inbox yet.
HasToken(g) == g \in slots \/ \E c \in Callers : Unparks(c, g)

QueuesDistinct ==
  /\ IsInjective(items)
  /\ \A w \in Workers : IsInjective(inbox[w]) /\ IsInjective(local[w])

ItemsInv ==
  \A g \in Range(items) : gpc[g] = "entry"

InboxInv ==
  \A w \in Workers : \A g \in Range(inbox[w]) :
    gpc[g] \in ParkPC /\ bound[g] = w /\ ~HasToken(g)

LocalInv ==
  \A w \in Workers : \A g \in Range(local[w]) : gpc[g] = "yielded" /\ bound[g] = w

\* What worker w's variable G refers to.
WorkerInv ==
  \A w \in Workers :
    LET g == cur[w] IN
    /\ g # NoG <=> wpc[w] \in {"popped", "switched", "back"}
    /\ wpc[w] = "popped" =>
         /\ gpc[g] \in {"entry", "parked", "yielded"}
         /\ gpc[g] # "entry" => bound[g] = w
         /\ ~Queued(g) /\ ~HasToken(g)
    /\ wpc[w] = "switched" => gpc[g] \in RunPC /\ bound[g] = w
    /\ wpc[w] = "back" =>
         /\ gpc[g] \in BackPC /\ bound[g] = w
         /\ gpc[g] # "parked" => ~Queued(g)

OneWorker == \A w, v \in Workers : cur[w] = cur[v] /\ cur[w] # NoG => w = v

\* Binding follows the first switch; a running goroutine is on its worker.
BoundInv ==
  \A g \in Goroutines :
    /\ gpc[g] \in {"none", "made", "entry"} => bound[g] = Unbound
    /\ gpc[g] \in RunPC \cup BackPC => bound[g] \in Workers
    /\ gpc[g] \in RunPC => \E w \in Workers : RunsOn(g, w)

\* A published handle belongs to a goroutine on its way into Park or in it.
HandleInv ==
  \A g \in slots : gpc[g] \in ParkPC /\ \A c \in Callers : ~Unparks(c, g)

\* What a caller inside a call holds, which no other caller holds.
CallTargetInv ==
  \A c \in Callers :
    /\ call[c].op = "none" <=> call[c].g = NoG
    /\ call[c].op \in {"ready", "inject"} => gpc[call[c].g] \in ParkPC
    /\ call[c].op = "spawn" => gpc[call[c].g] = "made"
OneCaller ==
  \A c, d \in Callers : call[c].g = call[d].g /\ call[c].g # NoG => c = d

\* A goroutine that is not injected yet is in its spawner's hands.
SpawnedInv ==
  \A g \in Goroutines : gpc[g] = "made" =>
    \E c \in Callers : call[c].op = "spawn" /\ call[c].g = g

\* Arriving(g): the wake-up of g has reached its worker.
Arriving(g) ==
  \E w \in Workers : g \in Range(inbox[w]) \/ (wpc[w] = "popped" /\ cur[w] = g)

WakeInv == \A g \in Goroutines : gpc[g] \in ParkPC => HasToken(g) \/ Arriving(g)

\* What State says of a goroutine that has left its body.
StateInv ==
  \A g \in Goroutines :
    /\ gpc[g] = "yieldswitch" => state[g] = "YIELDED"
    /\ gpc[g] \in {"doneswitch", "finished"} => state[g] = "DONE"
    /\ gpc[g] \in {"parkswitch", "parked"} =>
         state[g] = "PARKED" \/ (state[g] = "READY" /\ g \notin slots)

YieldInv ==
  \A w \in Workers :
    wpc[w] = "back" /\ gpc[cur[w]] = "yielded" => state[cur[w]] = "YIELDED"

PlacesInv ==
  /\ QueuesDistinct /\ ItemsInv /\ InboxInv /\ LocalInv
  /\ WorkerInv /\ OneWorker /\ BoundInv
  /\ HandleInv /\ CallTargetInv /\ OneCaller /\ SpawnedInv
  /\ WakeInv /\ StateInv /\ YieldInv

\* Who can be inside a call: a running goroutine, the main task between Init and
\* Shutdown, a helper (for an Unpark; for a Spawn only if helpers spawn).
CallInv ==
  \A c \in Callers : call[c].op # "none" =>
    /\ c \in Goroutines => gpc[c] = "body"
    /\ c = Main => mpc = "up"
    /\ c \in Helpers => HelperSpawns \/ call[c].op # "spawn"

\* Known(g): an injected goroutine the pool can reach. One injected after Shutdown
\* returned is dropped by the next Reset_Lifecycle and stays at "entry" for good.
Known(g) == gpc[g] = "entry" => g \in Range(items) \/ \E w \in Workers : cur[w] = g

\* In_Flight counts exactly the known ones; none is lost if only goroutines and the
\* main task spawn.
Counted == {g \in Alive : Known(g)}

CountInv ==
  /\ inFlight = Cardinality(Counted) + Cardinality(Reaping)
  /\ HelperSpawns \/ \A g \in Goroutines : Known(g)

\* No goroutine is alive and none is being spawned.
Quiet ==
  /\ inFlight = 0
  /\ \A g \in Goroutines : gpc[g] \in {"none", "freed"}

\* A worker that has left the pool, or is leaving it, leaves no goroutine behind.
Deserted(w) == \A g \in Goroutines : bound[g] = w => gpc[g] = "freed"

\* The phases of the main task: worker tasks exist from Init on and stop only
\* while Shutdown (or a failed Init) drains, once nothing is left to run.
LifeInv ==
  /\ mpc \in {"off", "drained"} => \A w \in Workers : wpc[w] = "off"
  /\ mpc \in {"starting", "allocating", "up"} =>
       ~shuttingDown /\ \A w \in Workers : wpc[w] # "exiting"
  /\ mpc = "up" => \A w \in Workers : wpc[w] # "off"
  /\ \A w \in Workers : wpc[w] \in {"off", "exiting"} => Deserted(w)
  /\ HelperSpawns \/
       /\ mpc \in {"off", "starting", "allocating", "drained"} => Quiet
       /\ (\E w \in Workers : mpc = "draining" /\ wpc[w] \in {"off", "exiting"}) => Quiet

IInv ==
  /\ TypeOK /\ PlacesInv /\ CallInv
  /\ CountInv /\ WorkersCounted /\ LifeInv

=============================================================================
