# TLA+ models of Dandelion

Dandelion runs short functions in isolated memory contexts. This directory
holds TLA+ modules translated from its Rust code, TLC configurations that check
them on small instances, and TLAPS proofs of the properties that matter most.
`PROJECT.json` maps every definition to source lines and lists the hazards of
the code, the runs, the mutants that show each property can fail, and the
theorems.

## The system

A client posts a request to the **server**. A service task parses it and sends
a command over a channel to the **dispatcher loop**, which calls the
**dispatcher**. The dispatcher looks the name up in the **function registry**.
A composition is unfolded: its functions are started as their input sets
arrive, each possibly several times over shards or joins of its inputs. Every
function execution becomes a work item in the **work queue**, paired with a
**promise** from a fixed **promise buffer**; the dispatcher's task awaits the
promise. **Engine threads** (compute engines for KVM, processes or CHERI, and
the reqwest engine for HTTP) take items of their type, acquire a **context**
from a **memory domain** built on a **range pool**, load the function, transfer
the inputs into free space of the context, run it, read the outputs back and
pay the promise's **debt**. The response is encoded straight from the output
contexts.

| Part | Source (under `src/`) | Module | Status |
|---|---|---|---|
| Range pool | `dandelion_commons/src/range_pool.rs` | `RangePool` | modelled, proved |
| Context memory pools | `machine_interface/src/util/mmapmem.rs`, `memory_domain/kvm.rs`, `memory_domain/mmu.rs` | `MemoryPool`, abstract `SlabAllocator` | acquisition and drop, proved |
| Promise and debt | `machine_interface/src/promise.rs` | `Promise` | modelled, safety proved |
| Promise buffer | `machine_interface/src/promise.rs` | `PromiseBuffer` | modelled, proved |
| Work queue | `dispatcher/src/queue.rs` | `WorkQueue` | modelled, safety proved |
| Context occupation | `machine_interface/src/memory_domain.rs`, `interface.rs`, `function_driver/load_utils.rs` | `ContextOccupation` | modelled, proved |
| KVM contexts | `machine_interface/src/memory_domain/kvm.rs` | `KvmOverlay`, `KvmContext` | modelled |
| KVM engine | `function_driver/compute_driver/kvm.rs`, `kvm/x86_64.rs`, `kvm/x86_64_asm.rs` | `GuestPaging` | paging and dirty log |
| Composition scheduling | `dispatcher/src/dispatcher.rs` | `QueueComposition` | modelled, safety proved |
| Sharding and joins | `machine_interface/src/composition.rs`, `dispatcher/src/dispatcher.rs` | `Sharding` | modelled |
| Function registry | `dispatcher/src/function_registry.rs` | `FunctionRegistry` | modelled, proved |
| Server, dispatcher loop, engine loop | `server/src/main.rs`, `dispatcher.rs`, `function_driver/thread_utils.rs` | `Server` | modelled, safety proved |
| Parsers, configuration, errors, recorder, response body, system and bytes contexts, process and CHERI engines | | | not modelled, see the end |

## Modules

**RangePool, MemoryPool.** `ranges` and `sizes` are the two B-trees of
`RangePool`; `Get`, `GetNone` and `Insert` are `get` and `insert`, each atomic
because callers hold a mutex. `MemoryPool` is a set of callers (handles) of a
pool: `Take` is the part of `get_allocation` or `acquire_context` under the
mutex, `Prepared` and `PrepareFails` the `madvise` or `mmap` after it, `Drop`
the destructor. A failed preparation leaks its units, as the code does.
`SlabAllocator` is what a pool promises; `MemoryPool` implements it.

**Promise.** One promise and its debt. The flag byte is atomic; the result and
the two waker cells are not, so an access lasts from one step to the next and
`NoCellRace` says that accesses do not meet. `PollLoad`, `PollWrite`, `PollSwap`,
`PollTake` are `poll`; `FulfillStart` to `FulfillWake` are `fulfill`; the drops
are steps of their own, among them the drop of a debt that was not fulfilled
(`unpaid`). A task does not poll again after `Ready`.

**PromiseBuffer.** The stack of free slots, one step per atomic access of
`get_promise_data` and `drop_promise_data`. `free` is a ghost: the stack as the
successful exchanges made it. The code is safe only if one thread pops, which
the server's configuration enforces by accepting one dispatcher core; the runs
and the theorems have this as `MCPoppers` and `SinglePopper`.

**WorkQueue.** The list, its mutex and the ticket lock of the `spin_queue`
feature (a default). The counters are kept relative to `start`. Compute engines
spin in `get_work`, the reqwest engine polls `try_get_work`, the dispatcher
pushes.

**ContextOccupation.** The list of occupied positions of one context through
its life: `LoadStatic`, `PlaceInput` (with `get_free_space`, or with
`get_transfer_offset` for KVM), `PlaceStructure`, `LastItemEnd`,
`ClearMetadata`, `MarkOutput`. The loop in `insert` is one operator, `Merged`:
the position absorbs a maximal chain of successors, and takes over the end of
the last one even if it lies before its own.

**QueueComposition.** One call of `queue_composition`. `Build` is the code
before the loop, `Return`, `Skip` and `Fail` are the ways an awaited future is
answered, `Deliver` the body of the loop for all sets that arrive together,
`End` its exit. Sets are abstracted to where their data comes from. A running
function returns any sets, possibly fewer than named, in any order with others.

**KvmOverlay, KvmContext.** `overlay` is the B-tree of a KVM context from the
last byte of a piece to where it begins and what it is shared with.
`insert_into_overlay` is an operator on it, used by both modules below.
`KvmContext` has the operations on bytes: `Write`, `Transfer` (`transfer_into`,
which copies the ends and shares the whole pages between), `GuestWrote` (what
the engine adds after a run), and reads through `read` and `get_chunk_ref`.
The storage is recycled and begins as junk; `content` is what each byte should
hold. Contexts are filled one after the other, because the code wraps a context
in an `Arc` before others can refer to it. Writes of length zero are left out.

**GuestPaging.** A function of the KVM engine, in pages. `SetUp` maps the shared
pieces behind the context's memory and builds the page tables of
`set_page_table` over stale entries; `GuestWrite` is any access of the function
(external); the fault handler, which is assembly inside the guest, is
`PageFault` with `DemandPage`, `SplitTable` and `CopyPage` in the order of its
branches; `Stop` and `Collect` are the exit and the dirty log, taken word by word
into the overlay. Tables have `TABLE_SIZE` entries instead of 512; the contents
of the interrupt table are abstracted to the pages it takes.

**Sharding.** One call of `queue_function_sharded`. `Build` and `First` set up
the chain of join iterators of `get_sharding`, `Advance` is one call of
`advance`, recursive over the chain as in the code, `Combine` folds the result of
the next call into the first and `Done` gives the sets to the composition under
their ids. A call returns as many sets as its function reports, and the fold, a
zip, keeps the length of the first result. A panic (an index out of bounds) is a
state of its own.

**FunctionRegistry, Server.** `FunctionRegistry` has the registry as operators
on its map, among them `composition_from_module` with every check it makes and
the numbering of sets. `Server` is the system around it: handlers that write
files and send commands, a bounded channel, the loop that registers inline and
spawns a task for a request, tasks that look up, load and run, and the engines.
Each client makes one call and may leave while its handler waits. A composition
starts any subset of its functions at once, since which ones and when is the
subject of `QueueComposition` and `Sharding`; an engine takes and finishes a job
in one step, since how is the subject of `WorkQueue` and `Promise`. A load with
caching is one future per alternative, polled by whoever comes first.

## Runs

| Run | Checks | Bounds |
|---|---|---|
| `memory_pool` | the two indexes agree, and the pool refines `SlabAllocator`: contexts never share or lose memory and refusals are justified | 3 callers, 4 units and a remainder byte, requests of one unit to more than the pool: splits, exact fits, both merges and refusals occur |
| `promise` | no race on plain cells, fulfill loses no wakeup, the right value, one release, the task gets its result | one pair is the whole protocol |
| `promise_unpaid` | violated: a debt dropped unpaid does not wake the task that awaits it | as above |
| `promise_buffer` | a slot is in one place, `NoneAvailable` is true | 3 slots, one popping and two other threads, enough for a slot to be recycled while another thread is about to swap |
| `work_queue` | mutual exclusion, every ticket is served, delivery once, no starvation of compute engines | two engines in `get_work`, one in `try_get_work`, 3 items |
| `context_occupation` | space handed out is free, aligned, inside; `ContextFull` is true; the list is exact while inputs are placed | 16 bytes, pages of 4, alignments 1 and 2, sizes 0, 1, 3, 9 (more than two pages): filled in every order |
| `kvm_context` | every byte reads back, shared pages are never shared through a third context | 3 contexts of four pages of two bytes, 4 operations: each boundary of a write or transfer meets each boundary of a piece |
| `guest_paging` | the function finds its memory, reaches no other, its faults are served, by a handler that does not fault itself, without touching shared pages, and what it wrote reads back | tables of 4 entries, contexts of 16, 30 and 32 pages, overlays of up to two pieces, own or shared, small and large; 2 accesses |
| `composition` | functions start once, on the right sets; optional and empty sets behave as `dparser/README.md` says; returned sets are final; the call returns | 384 compositions of three functions in layers, every result and order |
| `sharding` | shards partition a set, the default join is the product, left and right joins keep their side, the results of all calls are kept, once and sorted, in the sets that the first call reports | three sets in all modes, two sets of up to 2 items with 3 keys in every join, chains of three keyed sets; two calls that report no, one, both or more than the two declared sets |
| `sharding_joins` | violated: an inner join of a set with one key and a set that has this key and a larger one makes no call | inner joins of two keyed sets, one with more keys than the other |
| `server` | what a registration answers is true and stays true, refusals change nothing, compositions have no cycles, requests do not lose functions, cached requests agree, sets are numbered as described, every call comes to an end | 3 clients with 20 combinations of 18 calls that meet at names, files and loads; channel and queue of 2, so that both fill up |

Violated properties are statements of comments, documentation or assertions in
the repository; `findings` in `PROJECT.json` quotes them.

Each module has a type invariant, `TypeOK`. It is proved for `MemoryPool`,
`Promise`, `PromiseBuffer`, `WorkQueue`, `ContextOccupation` (as a part of
`ListIsExact`) and `Server`, is an invariant of the `server` run, and a part of
`ListIsExact` and `NoChains` in the runs of the contexts. Properties that are
proved for all constants
(`NoOverlap`, `NothingLost`, `Coalesced` and `RefusalIsJustified` of the pool,
`StackIntact` of the buffer, `EveryTicketHeld` and `OnMatchingEngine` of the work
queue) need no run of their own.

`CHECK_DEADLOCK FALSE` appears where the system stops: a promise that is
released, a context that is read back, a call that returned, clients that are
all answered.

Fairness. `Promise`: a task that was woken is polled, an executing `poll` or
`fulfill` continues, and an engine pays or drops its debt.
`WorkQueue`: each thread takes its next step if it stays possible, and an engine
finishes the work it took. The mutex itself is not assumed fair. No fairness
makes `try_get_work` succeed: it may miss every gap in the tickets.
`QueueComposition`: some awaited future is answered as long as there is one,
which is what the promise and queue models establish for an engine that answers.
`Server`: some step of a handler, the loop, a task or an engine is taken as long
as one is possible, which the runtimes and engine threads do; nobody has to
leave. It takes for granted that an engine answers: `promise_unpaid` shows what
happens to a task if it does not.

## Where the code and its texts disagree

Two disagreements are runs (`promise_unpaid`, `sharding_joins`). The following
were found in the same way. Each has a configuration that shows it, which TLC
ends with a violation of the one property it names:

- `MemoryPoolZero.cfg` (module `MCMemoryPool`, `SizesHaveRanges`): a request of
  zero bytes passes the checks, and giving its empty range back makes `sizes`
  and `ranges` disagree, which the `expect` at `range_pool.rs:47` excludes.
- `ContextOutputs.cfg` (`ContextOccupation`, `OutputsMarked`): `insert` takes
  over the end of the next position even if the new range reaches further, so
  bytes stay unmarked that the comment at `memory_domain.rs:169` says are marked.
- `ContextHeap.cfg` (`ContextOccupation`, `HeapBehindInputs`): an item that ends
  at the end of the context leaves no end position, and `get_last_item_end`
  returns the end of an earlier item as the beginning of the heap.
- `QueueCompositionNested.cfg` (`MCQueueComposition`, `OptionalRuns`): a nested
  composition that is called with no sets does not run functions whose inputs
  are all optional, although `dispatcher.rs:361` wants them to run.
- `QueueCompositionDoubled.cfg` (`MCQueueComposition`, `OutputIsFinal`): a
  returned set that two functions make is overwritten by the one that comes last.
- `MCShardingShort.cfg` (`MCSharding`, `AllResultsKept`): a call of a sharded
  function reports as many output sets as the function wrote to
  `output_sets_len` (`interface.rs:297`). The zip at `dispatcher.rs:409` has the
  length of the first result, so sets that only a later call reports are dropped,
  where the comment at `dispatcher.rs:403` says that the shards are collected
  into sets. `ResultsKept` is therefore about the sets the first call reports.
- `MCGuestOverlap.cfg` (`MCGuestPaging`, `RangesNeverOverlap`): a piece that ends
  in the large page of the stack's start is mapped twice and cleared, which the
  debug assertion at `x86_64.rs:410` excludes.
- `MCKvmTransfer.cfg` (`MCKvmContext`, `TransfersSucceed`): a transfer of whole
  pages that lie in several pieces of the source adds where it has to subtract
  (`kvm.rs:628`), and the debug assertion at `kvm.rs:653` fails.

The last two assertions are stops in the models, as in the debug build; a release
build goes on with the wrong pages, and the properties say nothing of it.

Read in the code, without a property: an inner join of two sets with the same
single key panics (`advance` goes on when the left side has ended and indexes
past the end of the right one, `composition.rs:360`; `Panicked` in `Sharding`);
`main.rs:375` passes `is_cold` as `caching`, so that cold requests use the cache
and hot ones load again; the server, which by `main.rs:667` runs "forever...
unless I receive a signal", answers no call any more once the dispatcher loop
has stopped, as it does when the client of a registration has left; a refused
upload has already overwritten the file of the function it clashes with; a load
that failed for a passing reason stays failed for all later requests with
caching; the language's README says `outer` where the parser
(`dparser/src/lib.rs:256`) reads `full`; and `cross` in a join is accepted by
the parser but panics in `from_parser_strategy` (`composition.rs:72`), which
ends the dispatcher loop (`RegisterPanics` in `Server`).

## Proofs

All theorems hold for every value of the constants that satisfies the stated
assumptions.

`MemoryPoolProofs` (assumption `PositiveRequests`: nobody asks for zero bytes,
the case `MemoryPoolZero.cfg` refutes). The inductive invariant is that the two
maps mirror each other, ranges are non-empty, inside the pool and never touch,
allocations are non-empty, and free, held and leaked units partition the pool.
Two lemmas describe `Get` and `Insert` by their effect on the set of free units;
the steps of the pool follow from set reasoning alone. From it: `TypeCorrect`,
`ContextsAreDisjoint`, `UnitsAreConserved`, `PoolIsConsistent`,
`NoFalseRefusal` (a run of free units lies in one range because ranges do not
touch) and `PoolRefinesAllocator`.

`PromiseProofs` (no constants: for every number of polls, since a task may poll
again as long as it is told to wait). The run already visits every state of this
module; the proof adds the reason. The invariant says for each end which bits of
the flag byte it controls (`AliveInv`), that the content bit is set by the
announcement and cleared by the one poll that claims it (`ContentInv`), that the
result is in its cell from before the announcement until it is taken
(`ResultInv`), that only a poll moves the index and not after the announcement
(`IndexInv`), and that the waker of the latest poll is in the cell the index
points to, in the hands of the debt, or called (`WakerInv`). From it:
`TypeCorrect`, `CellsAreNotRaced`, `ReadyIsTheValue`, `SlotIsFreedOnce`, and
`NoWakeupIsLost`, which is the half of `UnpaidWakes` that the code keeps: a debt
that is fulfilled wakes.

`PromiseBufferProofs` (assumption `SinglePopper`). The invariant adds to the
checked ones what each thread knows: the slot a popping thread read is still
free and its next pointer unchanged, and a pushing thread owns its slot. It is
inductive only because no other thread removes slots. From it: `TypeCorrect`,
`SlotsAreExclusive`, `FreeListIsIntact`, `NoSlotIsLost`.

`WorkQueueProofs` (no assumption besides the types of the constants). The
invariant is that open tickets are held, once each, and that an engine is served
only with the oldest. From it: `TypeCorrect`, `TicketLockExcludes`,
`NoTicketIsLost`, `WorkIsDeliveredOnce`.

`ContextOccupationProofs` (assumptions: a context is a positive number of whole
pages, as `acquire_context` of the KVM domain insists on with `NonZeroUsize` and
rounds up to; a page is a multiple of the alignment of items). The
invariant is that the list is sorted and inside the context always, and while
space is searched exact: positions neither touch nor overlap, they cover the
bytes in use and no other, the first begins at 0 and the last ends with the
context. Two conjuncts are there only to make it inductive: positions are aligned
while inputs are placed, without which the aligned start of an empty item could
lie behind its window, and a new context has an empty list, from which
`load_static` marks its sections upwards. The lemmas follow the code:
`MergedSorted` and `InsertedApart` for `insert`, `WindowGranted` and
`NoWindowFits` for the two ends of the search, `FreeSpaceGives` and
`TransferGives` for the two placements. Where an argument needs induction (the
chain of successors that `insert` absorbs, the first window that fits) it takes a
least counterexample, which `LeastNumber` gives from the well-foundedness of the
natural numbers. From it: `OccupationIsExact`, `GrantsTakeFreeBytes`,
`ContextFullIsTrue`.

`QueueCompositionProofs` (compositions typed as in the code). The first part
assumes nothing about who produces a set or how often. Its invariant is that a function is
waiting, started or skipped and never two of these, that a running one was
started exactly once, and that it only misses inputs of its own; the last is
needed because the number of answers of a skipped function is a number only if
its inputs are finitely many. From it: `NoFunctionStartsTwice`.
The second part is about compositions in which every set is passed or made by
one output of one function, and no function waits for itself
(`AllWellDefined`; the compositions of the run satisfy it, which TLC evaluates as
`LayeredAreWellDefined`). The hypothesis is needed: `QueueCompositionDoubled.cfg`
and `QueueCompositionNested.cfg` show what happens with two sources or none.
`FlowInv` says that inputs a function does not miss are what the composition
says (`ArgsInv`), that a function is skipped only for an empty input
(`SkippedInv`), that what a waiting function misses is still to come from one that
waits, runs or is about to hand on empty sets (`SourceInv`), and that the result
agrees as far as it is decided (`OutsInv`). From it: `FunctionsGetTheirInputs`,
`ReturnedSetsAreFinal`, and `CompositionsSettle`: at the end nothing runs, so by
`SourceInv` a waiting function would wait for a waiting function, which `Acyclic`
excludes.

`RegistryProofs` and `ServerProofs` (assumptions: the preloaded names are not
those of the system, and modules are lists of declarations and compositions;
any number of clients, calls, engines and names). `RegistryInv` says that every
entry is a well formed record whose alternatives are of different engines, and
`ClosedInv` that compositions apply registered names only. `RegisterIsGood` is
the heart: one registration keeps all entries, and the new ones depend on names
that were there before; `StepsOfTheRegistry` adds that no other action touches
the map. `RegistryOnlyGrows` follows at once, and `CompositionsAreWellFounded`
because a set of compositions without a least one would have one already
without its new members. `KnownInv` says that every call under way for a request
whose name was known is of a registered name, which needs `ClosedInv` when a
composition is expanded, and `TasksInv` that a client that has not sent yet has
no command, task or answer; `NothingKnownIsLost` follows. `RefusalsChangeNothing` rests on a lemma about the
whole of a module: if all its items pass, insertion succeeds.
`ConfirmedStays` uses that an answer is promised when it is made
(`AcceptedIsPromised`) and that later steps keep promises (`PromisesAreKept`).
`CacheInv` is about loads: every alternative has one future, a queued future has
one shared job, jobs that parse for one client belong to clients that do not use
the cache, and a running call that uses it has the function its future was
completed with. The second is needed because a second job could complete the
future again with what the file holds by then. `CachedRequestsAgree` follows.
`CapacitiesAreKept` is the type invariant: besides the one future per alternative
it needs that the set of jobs is finite, for its cardinality to count.

Only model-checked: liveness everywhere, since fairness and ENABLED are beyond
the prover; `Sharding`, whose join iterators are recursive operators; `KvmContext`
and `GuestPaging`, which use the overlay through folds and other operators of the
community modules; and of `Server` the numbering of sets
(`NumberedAsDescribed`), since what a definition by recursion over the statements
computes takes induction over data.

## Not modelled

- File formats, option parsing and the composition grammar: no state. The ELF
  parser, error enumerations and machine tables likewise.
- The malloc, read-only and CHERI domains: one bounds check around a slice. The
  system and bytes contexts: items that are added in order and only read
  afterwards, by one owner; the BSON walk is parsing of external data.
- The resource pool: drained once at start. The recorder and the statistics:
  no decision depends on them. The response body: parts handed to one reader.
- The process engine's ptrace and seccomp calls, the CHERI call, registers and
  descriptor tables of the KVM engine, the aarch64 variant, and the self test of
  the fault handler (`check_page_fault_handling`), which is debug code.
- HTTP and memcached traffic of the reqwest engine, shutdown by a signal and the
  removal of the working directory.
- In `Sharding`: a name that occurs twice in a join order, for which `zip_eq`
  panics, and results of nested compositions whose set indexes differ, for which
  `combine` fails. Sharded calls are not repeated in `Server`.
- The build without `spin_queue` is the work queue without tickets. Counters of
  64 bits are unbounded.
