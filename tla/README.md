# Verification of the gada compiler and runtime

gada compiles Go to Ada 2022. Its compiler (`compiler/`, Go) turns a Go package
into an IR and the IR into Ada; its runtime (`runtime/src`, Ada) supplies what
the generated code needs: goroutines on libco stacks, channels, `select`,
panics, maps, slices, reflection. This directory holds TLA+ models of that code,
TLC configurations that check them, and TLAPS proofs about them.
`PROJECT.json` maps every definition to the lines it models.

## 1. Inventory

| component (source) | state it keeps | operations | interacts with |
|---|---|---|---|
| **Scheduler** (`gada-async-scheduler`) | `Run_Queue`: `Items`, `Inboxes`, `In_Flight`, `Shutting_Down`, `Workers_Active`, `Initialised`; per goroutine `State` (atomic), `Bound_Worker`, local-storage slot; per worker its `Local` list | `Init`, `Spawn`, `Yield`, `Park`, `Unpark`, `Enter_/Exit_Syscall`, `Current`, `Shutdown`, the worker loop | Context (switches); called by channels, selector, panic, generated `main` |
| **Bounded channel** (`gada-async-channels-bounded`) | ring `Buf/Head/Tail/Count`, `Closed_F`, FIFO lists of waiting senders and receivers, one `Wait_Slot` per waiter | `Make`, `Send`, `Receive`, `Close`, `Try_Send`, `Try_Receive` | `Park`/`Unpark`, the latter from inside its own protected operations |
| **Unbounded channel** (`…-unbounded`) | linked list of nodes, `Closed_F`, waiting receivers | `Send`, `Receive`, `Close` | same |
| **Selector** (`gada-async-selector`) | seed counter; per call a permutation, a default, a deadline | `Select_One` (poll, shuffle, `Yield`) | several bounded channels, scheduler |
| **Context** (`gada-async-context`) | tables cothread → entry, cothread → exit | `Make`, `Switch_To`, `Free`, trampoline | libco |
| **Race detector** (`gada-async-race`) | per cell: holder, mode, depth, first report | `Begin_Access`, `End_Access`, `Store`, `Load` | goroutine handles |
| **Panic / defer** (`gada-core-panic`, `-defer`) | per goroutine: stack of at most 16 pending panics | `Do_Panic`, `Recover`, `Is_Panicking`; deferred calls as controlled objects | the scheduler's local-storage slot |
| **Maps** (`gada-core-maps`, `-hash`) | control bytes, slots, `Size`, `Tombstones`, `Cap` | insert, lookup, delete, grow, iterate | memory |
| **Slices** (`gada-core-slices`) | backing array shared between headers | make, index, slice, append, copy | memory |
| **Reflection** (`gada-reflect-*`) | registry of type descriptors | register, lookup, interface assertion | – |
| **Memory, I/O** | none of their own (libgc, `Ada.Text_IO`) | – | – |
| **IR** (`ir`) | tree of nodes; its JSON form | `MarshalJSON`, `UnmarshalJSON` of every node | written by translate, read by emit |
| **Translate** (`translate`) | none: a walk of the Go syntax tree | `File` and one function per node | go/ast in, IR out |
| **Emit** (`emit`) | facts of the pre-pass (`funcByName`, `chanIdentTypes`, element and pair tables, `goIndex`), per subprogram `localTypes` and what is hoisted | `Package`, `collectSliceElems`, `emitSubprogram`, one function per node | the Ada it emits calls the runtime; it brackets `main` with `Scheduler.Init` and `Shutdown` |
| **Driver, tools** | temporary directories | build, run | go list, gprbuild |

What makes each correct, and what is hard about it:

- *Scheduler.* Goroutines are bound for life to the worker whose OS thread
  holds their libco stack. `State` is written by the goroutine, by its worker
  and by whoever unparks it, with no common lock: a wake-up must be neither
  lost nor doubled when it overtakes the suspension, a freed record must not
  be reachable, the counters must let `Shutdown` join everything, and every
  runnable goroutine must get to run.
- *Channels.* A blocking operation is an attempt and a registration with a gap
  between them. Values must be delivered once, in order, and not after a
  refused send; close must release everybody; nobody should wait for a
  counterpart that waits too.
- *Selector.* Exactly one case takes effect; `default` and timeouts only when
  nothing was ready; polling must not starve what it polls for.
- *Context.* Table entries must be those of the live cothread at that address.
- *Race detector.* Reports exactly the overlapping conflicting accesses.
- *Panic.* One goroutine's panics are its own; recover takes the newest.
- *Maps.* The table is a function from keys to values through insertions,
  deletions and growth; probing terminates. *Slices.* Aliasing as in Go.
- *IR.* What is read is what was written; a damaged file is refused and never
  becomes a tree that makes the emitter dereference nil.
- *Compiler.* The emitted program does what the Go program does: lowerings keep
  the order of evaluation, defers, panics and channel operations in place
  although Ada wants declarations first; whatever the code uses the pre-pass has
  declared.

`PROJECT.json` lists the hazards line by line, with the properties that cover
them or the reason none does yet.

## 2. Plan

1. Scheduler, its contract and the proof of both — **done here**.
2. Bounded channel on top of that contract, FIFO refinement — **done here**.
3. Unbounded channel against the same `FifoChannel` — **done here**.
4. Maps as a refinement of a function from keys to values — **done here**.
5. The IR and its JSON form — **done here**.
6. The emitter for functions, and its output executed next to the Go program,
   with defer and the panic stack of one goroutine — **done here**.
7. The translator from Go's syntax tree, composed with 5 and 6 — **done here**.
8. Selector over several channels — **done here**.
9. Panic stacks over the scheduler's local-storage slot; race detector; context
   tables with address reuse; slices with aliasing; type registry; named types,
   structs and interfaces in `emit`; the driver's clean-up order.
10. Proofs: both channels' invariants and their refinements, the selector's
   outcome, the map's invariant, its range loop and its refinement, the IR's JSON
   form — **done here**.

Runs stay at two or three actors per role, the smallest number at which the
races listed above appear.

## 3. Modules

| module | what it is |
|---|---|
| `GoroutineLifecycle` | abstract: what the scheduler promises: the statuses of a goroutine, one wake-up per block, no more running goroutines than workers |
| `Scheduler` | the scheduler as written: one action per protected action of `Run_Queue` or per write of `State` |
| `SchedulerInvariant` | `IInv`, the inductive invariant |
| `SchedulerRefinement` | the mapping `Status` and `ImplementsLifecycle` |
| `SchedulerProofs` | theorems, the refinement among them |
| `FifoChannel` | abstract: a FIFO of a given capacity that accepts nothing once closed |
| `BoundedChannel` | the buffered channel as written, its goroutines scheduled by an instance of `GoroutineLifecycle` |
| `UnboundedChannel` | the unbounded channel as written: a linked list on a heap of reusable addresses |
| `Selector` | `Select_One` as a poll over several channels, each a `FifoChannel` |
| `SwissTable` | the hash table's operations as functions of a table |
| `KeyValueMap` | abstract: a function from keys to values |
| `SwissMap` | one map and a range loop over it, on `SwissTable` |
| `MapAliases` | several map variables, with assignment as the compiler emits it |
| `SwissTableInvariant` | `Sound`, what holds of every table the operations make |
| `SwissTableProofs` | lemmas about the operations, one table at a time |
| `BoundedChannelInvariant`, `UnboundedChannelInvariant`, `SelectorInvariant`, `SwissMapInvariant` | `IInv` of each, the inductive invariant |
| `BoundedChannelProofs`, `UnboundedChannelProofs`, `SelectorProofs`, `SwissMapProofs` | theorems |
| `DataLemmas` | lemmas about queues and finite sets that several proofs cite |
| `IR` | the node types, their fields, the interfaces |
| `IRCodec` | `MarshalJSON` and `UnmarshalJSON` of a node, and what a well-formed node is |
| `IRSession` | a node is written, perhaps damaged, read back |
| `IRSessionProofs` | theorems |
| `GoAST` | the nodes of `go/ast` the translator meets |
| `Translate` | the translator: a Go file's tree to IR |
| `EmitFacts` | the emitter's pre-pass |
| `EmitCode` | its lowering of expressions and statements |
| `Emitter` | the compiler as it runs: translation, pre-pass, then one subprogram after the other |
| `GoMeaning` | abstract: what a Go file does, executed on its own tree |
| `AdaMeaning` | what the emitted Ada does, with `Gada.Core.Panic` and `Gada.Core.Defer` |
| `Transpiled` | both side by side, and the conditions under which they agree |
| `MC*` | model values and symmetry for TLC |

So the runtime's stack is `Scheduler ⟹ GoroutineLifecycle`, used by
`BoundedChannel ⟹ FifoChannel` and `UnboundedChannel ⟹ FifoChannel`: the
channels are checked on the scheduler's
contract, and the contract is proved of the scheduler; `Selector` takes from
`FifoChannel` how its channels may change. On the compiler's side
`Emitter` (with `Translate`) and `AdaMeaning` together are held to `GoMeaning`.

### Scheduler

`items`, `inbox`, `inFlight`, `shuttingDown`, `workersActive`, `initialised`
are the private part of `Run_Queue`; `state` and `bound` the fields of
`Goroutine_Record`; `local`, `cur`, `wpc` a worker's `Local` list, its variable
`G` and its place in the loop; `gpc`, `call`, `mpc` the places of goroutines, of
callers inside `Spawn`/`Unpark`, and of the main task inside `Init`/`Shutdown`.

- A goroutine's body is arbitrary: it may yield, park, spawn, unpark, finish.
  `Finish` stands for a return and for an exception alike, as the trampoline
  treats them alike.
- Before it parks, a goroutine gives its handle away (`Publish`: a channel's
  `Wait_Slot`, a syscall's helper). `slots` holds the handles given away.
  Taking one out and calling `Unpark` are two steps, as `Unpark` itself is two:
  the write of `READY` and the insertion in the Inbox.
- `Switch_To` is one step each way; Context is not modelled yet.
- The last arm of the worker's `case`, which raises, has no action: `StateAgrees`
  shows it is never reached.
- A `Goroutine_Record` address is used once; deallocation is the end of it.
  `Spawn`'s failure in `Context.Make` and the failed allocation of a worker in
  `Init` are modelled.
- `HelperSpawns` says whether tasks outside the scheduler call `Spawn`, which
  the specification of `Spawn` permits; `Pollers` are goroutines whose body
  may yield for ever.

### Bounded channel

`ring`, `closed`, `senders`, `receivers` are the private part of
`Channel_State`; `slot` the `Wait_Slot` of each waiter, `pc` a caller's place in
a blocking operation. A waiter blocks in the step that registers it: the
scheduler's contract, where blocking begins when the handle is given away,
covers the code's later call of `Park`. `sent` and `received` are what the abstract
FIFO sees; `got`, `outcome` and `eof` are what callers saw. Values are pairs of
sender and sequence number, so all differ. Callers outside the scheduler
(`Tasks`) get `Program_Error` where a goroutine would park.

### Unbounded channel

As the bounded one, with `head`, `tail`, `count` and a heap: `heap` is the set of
allocated addresses, `value` and `next` the fields of a node, which keep their
content when the node is freed. `new Node` returns any free address, and raises
`Storage_Error` when there is none; the exception leaves `Send_Or_Handoff` before
it has assigned anything. The refinement takes the number of addresses as the
FIFO's capacity, so it also says that no node leaks. `eof` says of a
caller that it has seen the end of the stream.

### Selector

A call of `Select_One` is `Start` (`Validate_And_Scan` and the shuffle), one `Try`
per attempt and `EndOfPass`. `order` is what the pass still has to try: the
shuffle of the active cases may give any order. An attempt is one protected call of
its channel, and other goroutines use the channels between attempts (`Others`):
of a channel, `count` and `closed` are kept, with the values that go straight to a
waiting receiver and the waiting senders that fill the room at once.
`giveUp` is `Timeout_Index`; `Deadline` lets the clock reach it at any moment.
The `delay` and the `Yield` between two passes only let others run. `done` and
`steady` are histories: what the call has carried out, and which cases have been
ready ever since the pass began.

### Maps

`SwissTable` has one operator per subprogram of `gada-core-maps.adb`. A control
byte and its slot are one value (`Empty`, `Tomb` or an entry): the byte of a live
slot repeats seven bits of the hash, and since equal keys hash equally, comparing it
only filters: `Hit` compares keys. The probe
loops, which the code leaves unbounded, are taken to end at the least probe that decides
within one period of the probe sequence; `ProbeEnds` says that there is one. A rehash
inserts the live slots in index order into a fresh table; the growth check of those
inserts is left out because it never fires (`RehashNeverGrows`). `RoundUpPow2` is the loop of
`Round_Up_Pow2` by what it returns. In `SwissMap` each public
operation is one action; a range loop is `RangeBegin` and `RangeNext`, with any
operations between them as its body; `visits` counts what it has seen of the keys
present since it began, until a rehash. `Contents` is read off the live slots;
that lookups see the same is `OneEntryPerKey`. In `MapAliases` a variable holds the
record, `heap` the storage it refers to. Allocation does not fail, as
`Gada.Core.Memory` says of libgc.

### IR

`Shape` gives each kind of node its fields with their Go types, `Wire` how each
field is written and what its decoder insists on. `EncodeNode` and `DecodeNode`, the two
methods of one node, are written once over `Wire`; they call `Encode` and `Decode` for
the children, parameters that `MCIRSession` ties back to them, so that the modules have
no recursive operator and can be reasoned about. What single methods do differently (the
envelope's `kind`, `required`, null in a slice of pointers, the names of select
cases) is a value of `Wire`. `Shape` and `Wire` were written down from the source on their
own; the `ASSUME`s of `IRCodec` compare them row by row, the envelopes with the
interfaces, and TLC evaluates them in `ir_roundtrip`. A failed decoder fails every decoder above it.
`Damage` puts any of `Damages` in place of the document: in the run one place changed, a
key removed, set to null, or its value replaced by a node of another kind. Positions, the
text of JSON and the type errors of scalars, which `encoding/json` reports itself, are left out.

### Translate

One operator per function of `translate.go`; each `case` of a type switch is an
arm of the operator's `CASE`, and what has no arm is an error. `Failed` is every
error; `Made` fails when a part has. `ListOf` is what a slice built by `append`
holds: nil when nothing was appended. Only a select's cases are allocated first
and so are empty rather than nil, which the codec tells apart. Parentheses are
dropped (but `transExprStmt` looks before they are, so that a
call in parentheses becomes an `ExprStmt`); the two-value form of a receive is marked by
the assignment around it; builtins are known by their names alone.

### Emitter

`TranslateFile` is the part of the driver's `buildPackage` that matters here: the
file is translated and must be package `main`. `Collect`, `EmitSubprogram` and the
two steps between them are `newEmitter` and `run`. `facts` is what the pre-pass leaves behind and is never changed afterwards;
`next` counts the declarations dealt with. What `emit.go` prints is a tree, with
the fields that matter: which closures are hoisted where, in which block a defer
is finalised, whether there is a handler, where the scheduler starts and stops.
`Failed` is every error return. Files contain functions only: named types, structs
and interfaces (the other files of `emit`) are left out, so a method call is an error.

`GoMeaning` is the language definition for what the emitter accepts, executed by one goroutine
(a started goroutine is an event with its arguments). `AdaMeaning` executes the
emitted tree: closures of `Defer` run when their block is left, in reverse order of
declaration, an exception in one becomes `Program_Error`, `Do_Panic` pushes and
`Recover` pops. Both take the first ready case of a select, both count map keys
upwards: the choices are the runtime's.

The two agree on files that keep the conditions `Transpiled` names: `OneElementType`
and the conjuncts of `Supported`. Each of them is necessary: if any one is dropped,
TLC finds a file whose Ada differs from its Go.

## 4. Runs

| run | question | instance |
|---|---|---|
| `scheduler_safety` | the safety properties that hold whoever spawns, the join of what has run (`RanJoined`), no deadlock, the refinement | 3 goroutines, 2 workers, 1 helper that may spawn, repeated Init/Shutdown |
| `scheduler_liveness` | counters, Shutdown joins and terminates, fresh and unparked goroutines run | 2 goroutines, 2 workers, 1 helper that does not spawn |
| `scheduler_starvation` | *violated*: a polling goroutine starves a fresh one | 2 goroutines, 1 worker |
| `bounded` | ring and waiting lists, outcomes, single delivery, end of stream, FIFO refinement, Close releases everybody | 3 goroutines, 2 operations each, `Cap = 2` |
| `bounded_stranded` | *violated*: sender and receiver wait for each other | 2 goroutines and a task |
| `unbounded` | list and storage, waiting list, single delivery, end of stream, FIFO refinement, Close releases everybody | 3 goroutines, 2 operations each, 2 nodes |
| `selector` | one case takes effect, the default or a timeout only when no case stayed ready; polling ends | 2 goroutines, 2 channels of one slot, 9 case arrays |
| `map` | counters, one entry per key, probes end, a range loop visits each entry once unless the table is rehashed, refinement of a function from keys to values | 4 keys, 2 values |
| `map_aliases` | *violated*: probes end, after `n = m` | 2 variables, 5 keys |
| `ir_roundtrip` | the codec loses nothing and accepts only well-formed trees | every kind of node, every shape of its fields, translated Go files of every node shape, one damage |
| `emit` | emitted code uses only declared instances; supported files behave in Ada as in Go | 6750 Go files |
| `emit_recover` | *violated*: the same for files whose recovering function has no handler | the same files |

**Bounds.** A race over one goroutine involves it, its worker and one other
caller; a second worker makes a wrong queue possible, a third goroutine order in
a queue and two goroutines on one worker. Each goroutine record is allocated
once, so the spawn count is bounded by `Goroutines`; nothing else in `Scheduler`
needs a bound, and `Init`/`Shutdown` may be repeated. `MaxOps` bounds the
operations per caller of a channel: six operations suffice to fill a ring of
two, wrap it, make a sender wait, promote it and close; a ring of two is the
smallest in which `Head` and `Tail` differ. Callers that are no goroutines
(`Tasks`) take part in `bounded_stranded`. Two nodes make the
unbounded channel's list empty, single and longer, run out of memory and reuse
addresses. The map runs use groups of two slots and tables of four, where the
code has 16 and 16: the smallest sizes at which the load factor leaves a slot
free and the same-size rehash makes room, as they do at 16. Four keys then reach
full groups, tombstones, their reuse, a rehash at the same size and a doubling;
capacity is bounded by the number of keys alone. `MaxHint` bounds `Make_Map`'s
hint; range loops follow one another without bound. The
case arrays hold every kind, one channel in two cases, default first and last, equal
and different deadlines, and each reason for which `Select_One` refuses; three cases
(`MaxCases`, 64 in the code) have six orders, and a channel of one slot is both
full and empty to its users within two steps. The IR run takes every kind with every
combination of nil, empty and filled fields, children being leaves, since each
decoder looks at its own fields only; translated files add the combinations the
translator really makes. The compiler's files are Go syntax trees with an import and six functions: `f` has
one of six beginnings and up to three statements out of thirty-seven, `g` one of six
bodies where `f` mentions it, `main` one of two, or one with an unbuffered
channel; a file may add a function that reuses a channel's name or is called
`close`, and some are of package `lib`. Two statements show each order of evaluation and each defer, panic and
return around another; a third is taken for deferred calls alone. About 1000
of the files are supported and run without a fault, about 4600 are emitted
but break a condition, about 700 are refused by the translator or the emitter. `MaxPending` is the code's own 16. Numbers are small and
nothing overflows; every loop ends. The channel runs
do not check deadlock: when operations are used up and somebody waits on an
open channel, the model stops, as a Go program would deadlock there.
`scheduler_liveness` does not either, since a stop is what its properties judge;
`scheduler_safety` does. Symmetry is used in safety runs only, never where a liveness
property is checked.

**Fairness.** Worker tasks, tasks inside a call, the main task inside `Init` or
`Shutdown` and a running goroutine are OS threads: weak fairness. Some helper
eventually unparks a published handle: a counterpart exists or the syscall ends,
without which `Shutdown` rightly waits. A body that does not poll returns in the
end however often it yields or parks: strong fairness of `Finish`, and `Pollers`
lists the bodies of which that is not assumed. For channels, `Dispatch` is
strongly fair because a free worker may be taken by another goroutine time and
again; `FreshRuns` and `UnparkedRuns` are what the scheduler run shows for it,
for bodies that do not poll for ever. A goroutine inside `Select_One` polls again: its
worker serves `Local` before anything else; and time passes. Nothing is assumed of
those who use the channels it polls, so `SelectReturns` promises an end only to
calls with a default, a timeout or a case that stays ready.

**Disagreements found.**

1. *Starvation by polling.* A worker drains `Local` before it looks at
   `Run_Queue`. A goroutine that yields in a loop, as `Select_One` does while it
   waits, puts itself back into `Local`; with one worker nothing else starts,
   including the goroutine it waits for. The comments at
   `gada-async-scheduler.adb:457` and `gada-async-selector.adb:303` say otherwise.
2. *Spawn against Shutdown.* `Spawn` by a task that is no goroutine checks
   `Is_Initialised` first and injects later; the pool may be gone by then. With
   `HelperSpawns = TRUE`, `ShutdownJoins` and `CountsExact` fail (the next
   `Reset_Lifecycle` drops the goroutine); no run of its own. Everything else holds,
   and of the join what `RanJoined` says: no goroutine that has begun to run is left.
3. *Stranded pair.* `Park_Sender` checks again whether the channel is closed, but
   not whether there is room. If the ring is drained in the gap and a receiver
   then waits, both wait, on an open channel with an empty buffer. The
   corresponding re-check is present in `Park_Receiver`.
4. *V overwritten.* A receiver woken by `Close` copies the untouched slot into V,
   in both channels; their specs promise V unmodified. No property is about V.
5. *Map variables are records.* `n = m` copies the record: both variables share
   slots, each counts for itself. Together they fill the table, and the next
   probe for an absent key never ends. After a growth of one they part.
6. *Rehash under a range loop.* The cursor is an index, entries move: an entry may
   be visited twice or never, hence the condition in `VisitsOnceUnlessRehashed`.
7. *Recover without a handler* (`emit_recover`). `bodyUsesPanicOrRecover` looks at a
   function's own text. A function that defers a recovering one and only calls
   something that panics gets no handler: the payload is popped, the exception goes on. `gada-core-panic.ads:19-21`
   promises the handler to each function.
8. *Defers.* Arguments of a deferred call are evaluated when the block is left, not at the
   `defer` (`DefersFixArguments`; `gada-core-defer.ads:7-8`). A defer in a branch or
   after an early return runs anyway (`DefersComeFirst`). A deferred call that raises
   ends in `Program_Error`.
9. *Declarations first.* `v := <-c` receives after all declarations of the
   subprogram, of which a later one may read `v` (`ReceivedNotYetUsed`). In `main`
   such a receive is rejected, and a channel made there cannot be sent on, as
   `make` gives no `localTypes` entry.
10. *Shutdown in main* stands after the last statement: a `return` skips it and
    the program never ends; deferred calls of `main` run after it (`MainRunsToTheEnd`).
11. *Names of channels.* `chanIdentTypes` is one table per file: functions that use one
    name for channels of two types confuse it (`OneElementType`).
12. *Bound of a for.* Ada evaluates it once (`BoundIsFixed`).
13. *A receive as a statement*, `<-c`, is emitted as `null;` (`emit.go:2516-2523`,
    whose comment takes such statements for those gc refuses), and so is a call
    in parentheses (`NothingDropped`). `examples/ping_pong` waits with `<-done` and ends in order because `Shutdown`
    joins anyway.
14. *Unbuffered channels* get a capacity of 1, so a send that should wait for its
    receiver goes on (`ChannelsAreBuffered`).
15. *Functions named like a builtin* are never called: the builtin is
    (`NamesNoBuiltin`). The comment at `translate.go:355-360` says the table of names
    avoids such confusion, the one at `translate.go:778-783` that it is accepted.
16. *Default beside ready cases.* A pass looks at its cases one after the other.
    `gada-async-selector.ads` lets a default fire "if no other case is ready";
    it may fire although at every moment some case was ready, as long as none was
    ready all through the pass, which is what `SelectOutcome` promises. Go decides at one moment.
17. Seen in reading, outside the files checked: `and`/`or` evaluate both operands
    where `&&`/`||` stop; a call of a function declared further down has no
    declaration before it; `mod` and `%` differ in sign; `Recover` outside a
    deferred call pops a payload; a send on a closed channel raises an
    exception `recover` does not see.

## 5. Proofs

Each state machine of the runtime has an invariant `IInv` in a module of its own that TLC has
checked as an invariant of that machine's run, one lemma per action that
preserves it, and the theorem that puts them together (`Inductive`). The stated
properties follow from `IInv`, or from `IInv` and a step.

### Scheduler

For every finite set of goroutines and workers, and every set of helpers
(`SchedulerAssumption`), whether helpers spawn or not. Only `CountersExact` and
`ShutdownIsJoin` have the hypothesis `HelperSpawns = FALSE`, which appears in their
statements; they need it because of disagreement 2. What holds without it is
`RanJoined` (`RunnersJoined`): after `Drain` no worker and no goroutine that ever
ran is left, so a late `Spawn` can only leave behind goroutines that have not begun.

*Inductive invariant.* `IInv` conjoins `TypeOK`, the two counts, and named parts:
where a goroutine can be for each place in its life (`ItemsInv`, `InboxInv`,
`LocalInv`, `WorkerInv`, `OneWorker`, `PlacesInv`), what its binding is there
(`BoundInv`), who holds a right to wake it (`HandleInv`, `OneCaller`, `WakeInv`),
what `State` says (`StateInv`, `YieldInv`), who is inside a call (`CallInv`,
`SpawnedInv`, `CallTargetInv`) and what the pool's phase implies (`LifeInv`). `CountInv` says
that `In_Flight` counts the goroutines the pool can still reach (`Counted`), which are
all (`Alive`) as long as helpers do not spawn: `Reset_Lifecycle` sets the
counter to 0 although a late `Spawn` may have left goroutines in `Items`. That a
worker leaves no goroutine of its own behind (`Deserted`) follows from the counter alone. The
stated properties are not inductive: that a goroutine is queued once needs to
know that a wake-up in progress excludes it from every queue, which needs to know
that its handle is with one holder, which needs to know that no worker is
resuming it. One lemma per action shows that it preserves `IInv`;
`NextIInv` and `Inductive` put them together, and each property follows from
`IInv` (`TypeCorrect`, `PinningHolds`, `ResumptionUnique`, `WakeupNotLost`,
`FreedUnreferenced`, `StateHandshake`, `CountersExact`, `ShutdownIsJoin`, `RunnersJoined`).

*Refinement.* `Refinement`: with `Status`, every step is a step of
`GoroutineLifecycle` or a stutter. A goroutine counts as blocked from the moment
it gives its handle away, hence while it still runs towards its switch-out;
as runnable from the insertion into the Inbox. Most steps stutter; `Inject` is
`Start`, `SwitchIn` is `Run` (the injection of running goroutines into workers
is `cur`), `Publish` is `Block`, `UnparkInject` is `Wake`.

### Channels

For every set of goroutines and tasks, every number of workers, operations and
places or addresses (`ChannelAssumption`, `UnboundedAssumption`).

*Inductive invariant.* The waiting lists and the order of the buffer are
inductive nearly as they stand (`RingHoldsBacklog` or `ListHoldsBacklog`, `WaitersAreBlocked`).
The outcome of a send and the single delivery are not: a blocked operation is
completed by another caller, so what its own caller will report lies in its
`Wait_Slot` until it runs again. `IInv` therefore says of each slot what it may hold
at each place (`SenderSlots`, `ReceiverSlots`), which sends have entered the channel though
their callers do not know it yet (`Promoted`, in `SentOnce`), that a send under way has
no outcome (`OutcomesPending`), and who holds each value (`OneHolder`, the sets of
which `DeliveredOnce` gives the cardinality). `TasksIdle` says that only goroutines are
ever between the attempt and the registration.

From it follow, in `BoundedChannelProofs`, `TypeCorrect`, `RingIsBacklog`, `WaitersBlocked`,
`SendsAreHonest`, `DeliveredToOne` and `EndIsFinal`, and in `UnboundedChannelProofs` the
same without `SendsAreHonest`, with `ListIsBacklog` for the ring.

*The list.* `Chain` and `Linked` state what `ListHoldsBacklog` says of a heap without
mentioning the state, so that appending a node and freeing the first become
two lemmas about functions. The free node `new Node` returns differs from every node of the
list because the heap holds the list's nodes and no others.

*Refinement.* `IsFifo`, in both: every step is an enqueue, a dequeue, a direct
hand-over (both at once), the closing, or a stutter of `FifoChannel`. That the abstract queue is neither
full when a value enters nor empty when one leaves comes from the invariant; that a
receiver waits at an empty buffer only makes a hand-over the next value in order. A
receive from a full ring with a waiting sender is two changes in one step, and
`FifoChannel` has an action for it.

### Selector

For every set of goroutines, channels, capacity and arguments of `Select_One`
(`SelectorAssumption`: an array of cases is a sequence of them). `IInv` says of a
pass that it has done nothing yet, that it tries active cases only, and that a
case that was ready ever since the pass began is still to be tried and is ready.
`Undisturbed` keeps the last part while others use the channels: `steady` forgets a
case in the step that makes it unready. `ReturnsWhatItDid` follows: when the pass has tried everything, no case was ready all along.

### Maps

For any keys, any hash function, and any group size and initial capacity that are
powers of two, the latter not below the former nor below four
(`TableAssumption`; both are 16 in the code).

*Inductive invariant.* `Sound` says of a table that its capacity is 0 or a power of two,
that the counters are exact, that entries and tombstones stay within the load
factor (`Roomy`), that no key has two slots (`KeysOnce`), and that the probes for the key of
each entry come by its slot before they could end at an empty one (`EntriesReached`). None
of `OneEntryPerKey`, `ProbesEnd` and `ImplementsMap` is inductive: that a lookup
finds a key after a deletion of another one depends on which slots are tombstones,
that the probe for an absent key ends depends on the growth rule and so on the counters.
`IInv` adds `LoopInv` for the range loop: what has been counted are the entries in slots
up to the cursor.

*The argument.* `SwissTableProofs` is about single tables. An empty slot is left because
seven eighths of the capacity are less than all of it (`EmptySlotLeft`); the probe sequence
visits every group, because the triangular numbers below twice a power of two meet
every residue (`TrianglesCover`), so every probe returns
(`ProbesReturn`) and a lookup finds exactly the slot that holds the key (`LookupFacts`).
An insertion claims the first free slot on the way, which an earlier empty slot
cannot precede (`PutAbsent`); a deletion leaves an empty slot only in a group that
has another, where every probe stopped anyway (`ErasePresent`). A rehash is a
recursive function of the number of slots offered; `LeastElement` takes the place of
induction for it (`RehashSound`), and its target never has to grow (`RehashNeverGrows`).
`ContentsFacts` ties the slots to the function they represent.

In `SwissMapProofs` these become one lemma per action (`Inductive`), from which
follow `TypeCorrect`, `CountersExact`, `ProbesTerminate`, `EntryUnique`, `VisitedOnce` and
the refinement `IsMap`: every step is an insertion, a deletion or a clearing of
`KeyValueMap`, or a stutter; a growth is part of an insertion and changes nothing.

### IR

`NothingIsLost` and `OnlyWellFormedIsAccepted` hold for trees and documents of any kind
and depth, and for any damage. Their hypotheses: the equations that tie `Encode`, `Decode`
and `WellFormed` to one node's definitions (`Tied`); nil and an error are no record and no
sequence; the trees written and the documents read are finite, that is, the calls for their
children have smaller ranks (`FiniteNodes`, `FiniteFiles`); for the first, that the trees
written are well formed, as `AcceptedIsWellFormed` shows of what the translator builds in the run.

*The argument.* The tables enter only through the `ASSUME`s: the prover sees no row, and
the proof holds for every table they admit. `ValueOf` says what a reader and its field's Go
type have in common. `NodeValues` finds it in a node that fits, `ValueAccepted` in what
the decoder returned. So a node comes back if its children do (`RoundTripStep`: the key of
each field leads back to it, and what `omitempty` leaves out is what an absent key is read
as), and what is accepted fits and comes back if what the calls returned does (`AcceptStep`).
`RankInduction`, from `LeastElement`, makes both hold of whole trees
(`TreesComeBack`, `DocumentsAccepted`). The session's invariant `SInv` adds that what was read was
in the file, and that an undamaged file is the node's own form.

### Model-checked only

Liveness (no prover here handles fairness): `SelectReturns` and those of `scheduler_liveness`,
`bounded` and `unbounded`. The
translator, the emitter and the two interpreters are recursive over trees, with `RECURSIVE`
operators, and so out of the prover's reach: `UsesAreDeclared` and `SupportedBehaveAsGo`.

## 6. Not modelled

- The race detector, context tables, slices, the type
  registry, and of the driver all but the way from a file to its subprograms
  (package loading, temporary directories, gprbuild): next in the plan.
- In the emitter: named types, structs, methods, interfaces and their type
  metadata; unions; positions, layout and the spelling of names. Panics of several
  goroutines: the stack is kept for one.
- In the scheduler: local storage, closures, and the calls that raise
  `Program_Error` at once. In the channels: accessors and null handles.
- In the maps: the hash functions. A key of the model equals only itself, so
  0.0 and -0.0, which Ada's `"="` equates and `Hash_Bytes` tells apart, are out
  of sight.
- Memory ordering is taken as the Ada memory model gives it for `pragma Atomic`
  and protected objects. Stack sizes, exhaustion of memory other than in `Init`,
  `Spawn` and the unbounded channel's nodes, and libco itself are out of scope.
