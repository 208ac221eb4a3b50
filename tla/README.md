# Verification of omnipp

omnipp is one program that behaves as `cat` or `grep` according to the name it
is started with (`cat`, `ocat...`, `grep`, `ogrep...`). This directory holds TLA+ models of its parts, translated from
`src/src/`, the TLC configurations that check them on small instances and
proofs, checked by TLAPS, of the safety of the parallel directory walk, of its
refinement of an abstract traversal, and of the safety of the event loop and of
the regex handler.

## 1. The system

| Part | Source | State and operations | What is hard | Module |
|---|---|---|---|---|
| Processor | `commands/grep.h` | `queue_`, `mutex_`, `cv_`, `running_`, `pending_`; `run`, `worker`, `~Processor` | threads, a work counter outside the lock, a stop flag outside the lock, failing system calls, exceptions | `Processor`, `ProcessorWalk`, `Traversal` |
| ReadFile, VectorScan, Re2, Batch, Write | `source/read_file.h`, `transform/vectorscan_regex.h`, `transform/re2_regex.h`, `transform/batch.h`, `sink/write.h` | chunk, batch of each worker, the stdout mutex | newline searches at the edges, lines across chunks, full batches, short and failing writes of several workers | `GrepOutput` |
| EventLoop, RequestPool | `utils/event_loop.h`, `utils/request_pool.h` | io_uring requests, `in_flight_`, `dir_ref_count_`, overflow queues; `queue_*`, `pump`, `free_read_request` | completions in any order, descriptor reuse, a full submission queue, buffers lent to workers | `EventLoop`, `RequestPool` |
| RegexHandler | `utils/regex_handler.h` | `to_process`, `running`; constructor, `operator()`, `worker`, destructor | hand-over between threads, shutdown | `RegexHandler` |
| cat | `commands/cat.h`, `source/copy_file_range.h`, `source/direct_splice.h`, `source/splice.h`, `sink/splice.h`, `source/read_file.h`, `sink/write.h` | offsets, the pipe between the Splice nodes | short transfers, a file that changes, kinds of input and output | `Cat` |
| main | `main.cpp`, `config/config.h` | arguments, contracts, exceptions | two contract semantics | `Main` |
| TreeSitter | `transform/tree_sitter.h` | colour mask, output buffer | overlapping captures, colour state of the terminal | `TreeSitter` |
| DirectoryTraverse, MappedFile, AutoMap | `source/directory_traverse_source.h`, `source/mapped_file.h`, `utils/auto_map.h` | the file of this turn and its mapping | early returns, files that cannot be mapped | `DirectoryTraverse` |
| SimpleRegex, Cout | `transform/simple_regex.h`, `sink/cout.h` | the rest of the text, the lines passed on | empty matches, matches over newlines, empty lines | `SimpleRegex` |
| AutoRelease, FdCloser | `utils/auto_release.h`, `utils/fd_closer.h` | the object of a handle | moves onto itself, descriptor numbers that are reused | `AutoRelease` |

`grep` runs one `Processor`; each of its threads runs the pipeline
`ReadFile | VectorScan | Batch | Write` on every file. `cat` picks one of five
pipelines. `EventLoop` and `RegexHandler` are an alternative to the thread pool
that `grep.h` includes but no command instantiates; their client's handlers are
therefore modelled as external, from how the loop calls them.

`DirectoryTraverse | MappedFile | SimpleRegex | Cout` is a sequential search
made of nodes the repository has and no command uses; it is modelled as that
pipeline, with `Write` as the other sink.

### Not modelled

- `MappedChunkFile`, `ZeroCopyRead`, `SendFile`: they name concepts that
  `concepts/concepts.h` no longer has, so no build has their behaviour.
- `EventLoopWrite`: the loop of `Write` without its mutex. Nothing
  instantiates it, so who would write beside it is unknown.
- `concepts/` and `pipeline/` compose nodes at compile time and have no state;
  `execute`, which turns an error into an exception, is part of the actions
  that call it.
- `EventLoop` and `RegexHandler` are not composed. Each is modelled with the
  other's interface as its environment (`read_handler_` takes a buffer,
  `free_read_request` gives it back); no line of the source wires them
  together, in particular none says who is destroyed first.
- The number of threads is the constant `Thread`; that
  `hardware_concurrency() - 1zu` wraps when the count is not known is a start of
  threads until one fails (`SpawnFails`). The `"starting thread"` lines of
  `run` go to the same stdout as the matches through stdio and are left out.
- The regular expression matchers, the parser and the kernel are external:
  matches, captures and the results of system calls are any that the interfaces
  allow. `memcpy_override.cpp` has no state.

## 2. Modules

**Processor.** One action per step of a thread between two accesses to shared
state; `pc[t]` follows `worker` (`construct` → `loop` → `lock` → `predicate` →
`sleep`, `wait` or `take` → `getdents` → `entry`, `execute` → `add` → `append` →
`notify` → `getdents` ... → `close` → `subtract` → `stop` → `notify_all` →
`loop` → `flush`) and, for the main thread, `run`, `spawn`, `dtor`,
`dtor_notify_all`, `join` and `exit`. The predicate of `cv_.wait` and the
blocking are two steps because `running_` may change between them without the
mutex. `Throw` is an exception: on the main thread the stack unwinds through
`~Processor`, on a jthread the process ends. Descriptors are named by what they
are open on; `unread` is the kernel's directory stream. The threads hold
`run`'s parameter `regex` by reference, so `Construct` of a thread that starts
after `run` was left is undefined: it goes on, or the process ends. Constant
`Faults` says which calls may fail, `FdLimit` bounds the descriptor table.

**ProcessorWalk** states what the threads do together: `FdsExact`,
`WalkComplete`, `MatchesWritten`, the refinement of `Traversal`, and `WalkInv`,
the invariant their proofs rest on.

**Traversal** is what the walk promises without threads: every entry of an
opened directory is entered, searched or dropped once, a directory is left when
nothing in it is unhandled, and the walk finishes when no directory is open.
`Processor` implements it under `open <- WalkOpen, status <- WalkStatus`.

**GrepOutput** takes the file of each worker in chunks (`Read`, `EndChunk`)
through VectorScan or Re2 (`BatchLine`, `Re2Line`) and Batch to stdout. The line
search (`LineStart`, `LineEnd`) is compared with a definition without searches
(`Same`). VectorScan reports a line once for every match end in it, as the code
does.

**RequestPool** is a set of operators on one record: the free lists, the
overflow queues and arguments of the four pools, with the submission queue and
`in_flight_` they share. **EventLoop** uses them. `pc` follows one turn of
`pump`: `getdents` → `list`/`dir` → `drain` → `free` → `return` → `test` →
`submit` → `wait` → `reap`, with `handed` inside `reap`. `io_uring_submit`
passes entries on one by one and may stop before the last (`SubmitNext`,
`EndSubmit`); a wait whose result is ignored may leave nothing to see (`Wait`).
The kernel serves any submitted request at any time and gives out the lowest
free descriptor, so a descriptor number is reused as early as possible. A read
that brought data is two steps: `ReapReadData` passes the request to a worker,
`QueueRead` takes the next offset from the same request, and between them the
worker may give it back (`FreeReadRequest`). A write's offset is an integer: a
`size_t` that an error moved below zero is a negative one, and the next request
asks for the whole length from there on. `written` is the set of bytes of the
buffer that some write put out, which the code does not keep. `See` is one
completion.

**RegexHandler** follows `worker` step by step; `missed` records the workers
that were about to sleep when the destructor called `notify_all`. The
constructor starts the workers one by one (`Spawn`); when it throws
(`ConstructThrows`) no destructor clears `running`, and the members' destructors
wait for the workers already started.

**Cat** follows the source and sink loops of the pipeline chosen by `Route`;
another process may resize the file once. **Main** puts `main` around it, for
builds that enforce contracts and builds that ignore them (`CMakeLists.txt`).
There `grep` returns, throws, is terminated or never ends.

**TreeSitter** makes the library's objects, each of which may fail, paints the
mask capture by capture and emits run by run; `Shown` is the terminal's
interpretation of the output.

**AutoRelease** has one action per member function that changes a handle, over
descriptor numbers that the kernel gives out again. Its client owes it two
things, named in the module: a handle is given a number no handle owns, and
`operator&` is used on empty handles only.

**SimpleRegex** has one action per turn of the search loop. A text is a sequence
of ordinary characters, newlines and carriage returns, and the expression is
the set of intervals it matches. `data.back()` of an empty line, in Cout, is
undefined, so the newline after it is either printed or not, and at the start of
the text, with nothing in front of it, the process may end (`BackFaults`); in an
empty file, whose text is at `MAP_FAILED`, it does.
**DirectoryTraverse** puts the loop over the entries around it and uses
`AutoRelease` through `INSTANCE` for the descriptor of the current file. A file
of length 0 is searched as an empty span; a longer file that cannot be mapped
ends the process, because `MAP_FAILED` is not the `nullptr` that is tested for.

Operators introduced as "faulty variant" are mistakes the properties must
notice. They are not part of any specification.

## 3. Runs

| Run | Instance | Properties |
|---|---|---|
| `walk` | 3 fair threads, 4 directories, a spurious wake-up, a regex that may not compile | `PendingExact`, `StopOnlyWhenDone`, `NotAllAsleep`, `TakenOnce`, `RunningEnds`, `Termination` |
| `walk_faults` | 3 threads, 2 directories, 2 files, a skipped entry, 3 descriptors, every fault | `IInv`, `WalkInv`, `FdsExact`, `WalkComplete`, `MatchesWritten`, `ImplementsTraversal` |
| `grep_output` | 2 fair workers, files of up to 3 characters and of up to 1, chunks and batches of 2, both matchers, short and failing reads and writes | `LinesKept`, `BatchesWhole`, `WorkersEnd` |
| `loop` | fair loop, kernel and workers; 2 directories and a file of 2 chunks, pools of 1, 1 submission entry, 3 descriptors, waits that fail | `DirRefExact`, `RequestsConserved`, `InFlightExact`, `OneOwner`, `ReadsInOrder`, `PumpReturns` |
| `loop_faults` | every fault, that of the handler included; a file inside a directory, a write of 2 bytes, 2 submission entries, 2 descriptors | `IInv`, `ReturnsWithAllDone` |
| `regex` | 2 fair workers, 3 requests, every fault | `IInv`, `OnePlace`, `MatchesKept`, `FrontOfNonEmpty`, `AllGivenBack`, `DestructorEnds` |
| `main` | up to 4 arguments, both builds, files of up to 3 bytes, chunks of 2, every mode and fault | `OutputIsPrefix`, `WholeFileOutput`, `PipeDrained`, `MainReturns` |
| `highlight` | 4 bytes, 2 captures, every fault | `ContentKept`, `CapturesShown` |
| `auto_release` | 3 handles, 4 descriptors | `OwnedOnce` |
| `search` | 2 files and a skipped entry, every text of up to 3 characters with up to 2 occurrences, both sinks, every fault | `LinesFound`, `FileReleased`, `TraverseEnds` |
| `main_argc` | expected violation | `ArgcContract` |
| `highlight_plain` | expected violation | `NoColourShown` |

What they say of each part:

* The walk: the work counter is exact, so the walk stops when, and only when,
  nothing is left; a directory is listed once; every descriptor is accounted
  for; matches reach `write` or are lost to a named failure; the threads never
  all sleep beside work. After an exception on the main thread the descriptors
  its `worker` had in hand stay open, and `FdsExact` counts them as such; of what
  `std::terminate` loses, `MatchesWritten` says nothing.
* The output: whole lines of a chunk, once for each match, in order; batches are
  never torn; a worker that fails inside `write` does not block the others.
* The event loop: its counters are exact, no descriptor or buffer has two
  owners, reads of a file continue where they stopped although a worker may have
  given the request back, and it returns with everything finished, a write left
  in the overflow queue of writes excepted.
* The regex handler: a buffer is in one place, and what it matched is written
  or its write failed.
* cat: the output is a prefix of the file and, on success, all of it where the
  file is read, and `st_size` bytes where it is transferred: nothing of a file
  of `/proc` or of a character device, whose size is 0.
* The highlighter: a byte keeps its place and has the colour of the last
  coloured capture that covers it.
* The sequential search: every line in which a match begins is passed on once,
  whole and in order; every way out of the loop releases the file; it ends.
* Handles: every open descriptor has one owner after any sequence of moves.

Bounds. Three threads are the fewest with two asleep beside one at work; four
directories give a listing with two of them and a nested one. Pools of one
object and one submission entry make every overflow path happen with two
requests; a file of two chunks has a read that follows another; descriptors 3 to
5 make numbers be reused. `MaxErrno` (2) and `MaxDrift` (1) bound how far a
failed write moves the offset back and how far outside the buffer it gets:
enough to miss the end of a buffer of two bytes on both sides. Three characters hold a
line between two newlines. A chunk of two bytes and a file of three give a full
and a partial chunk. Two occurrences are enough to overlap, touch, hide one
another or share a line. Three handles let a third own what the kernel gave out
again while two are moved. A fault in `Faults` may or may not happen, so the
faulty runs contain the behaviours without faults. `MaxSpurious`, `MaxText`,
`MaxLength`, `MaxCaptures` and `MaxArgc` only keep the instances finite. `CHECK_DEADLOCK FALSE` is set because
every program here may stop: it returns, throws, is terminated, or blocks in
the ways the liveness properties name. No run uses symmetry, which would not be
sound for the liveness properties.

Fairness. Weak fairness of each thread's steps is what a preemptive scheduler
gives; `RegexHandler` adds strong fairness for taking its mutex, since a thread
that keeps asking for a mutex that is released again and again does get it.
`EventLoop` assumes that the kernel completes what was submitted. Spurious
wake-ups are allowed and never assumed. `GrepOutput` needs only weak fairness: a
worker takes the stdout mutex finitely often. `Main` counts on an error of `cat`
only where the kind of file makes it certain (`Progress`): otherwise a transfer
that may always fail would end every hang. Nor does it count on the end of `grep`
or on somebody opening a FIFO for writing. For the same reason the sequential
search is fair only to the steps that do not fail (`Step`), and to the fault of
`back()`, the only way on where there is nothing to read.

Two runs disagree with the repository's own text:

* `main` calls `convert_raw_args` without looking at `argc`, against its
  `pre(argc > 1)`; a Debug build aborts when it is started without arguments.
* `colours[0]` is commented `no-colour`, but emits nothing, so uncaptured text
  after a coloured run is shown in the colour of that run.

Conditions under which the liveness properties hold are part of the result.
`Termination` and `DestructorEnds` exclude one window: the stop flag is cleared
and `notify_all` called, without the mutex, between a thread's predicate and
its sleep; `DestructorEnds` and `AllGivenBack` also end with `std::terminate`.
`MainReturns` names the three places where `main` may stay for ever (`Blocked`):
in `grep`, in the `openat` of a FIFO without a writer, and in the sink after a
short splice into the pipe of `source::Splice`, which passes the sink
`chunk_size` instead of what was sent. `PumpReturns` is checked with waits that
fail, but without failing reads and without writes: a failed read stays counted
in `in_flight_`, and a write that missed the end of its buffer is queued again
for ever.

## 4. Proofs

| Theorem | Property |
|---|---|
| `ProcessorProofs`: `Invariance`, `TypeCorrect` | `IInv`, `TypeOK` |
| `PendingCorrect` | `PendingExact` |
| `StopCorrect` | `StopOnlyWhenDone` |
| `FrontCorrect` | `FrontOfNonEmpty` |
| `AwakeCorrect` | `NotAllAsleep` |
| `TakenOnceCorrect` | `TakenOnce` |
| `WalkInvariance` | `WalkInv` |
| `FdsCorrect` | `FdsExact` |
| `WalkCompleteCorrect` | `WalkComplete` |
| `MatchesWrittenCorrect` | `MatchesWritten` |
| `Refinement` | `ImplementsTraversal` |
| `EventLoopProofs`: `LoopInvariance` | `IInv` |
| `RequestsConservedCorrect` | `RequestsConserved` |
| `InFlightExactCorrect` | `InFlightExact` |
| `DirRefExactCorrect` | `DirRefExact` |
| `OneOwnerCorrect` | `OneOwner` |
| `RegexHandlerProofs`: `HandlerInvariance`, `HandlerTypes` | `IInv`, `TypeOK` |
| `OnePlaceCorrect` | `OnePlace` |
| `MatchesKeptCorrect` | `MatchesKept` |
| `FrontOfNonEmptyCorrect` | `FrontOfNonEmpty` |

They hold for every set of threads or workers, every finite tree, every limit of
descriptors, pools and ring, and every set of faults: the assumptions are
`ProcessorAssumption`, those of `EventLoop` and `RequestPool`, and that of
`RegexHandler`, all named in the module that declares the constants.

### The walk

There are two layers. `IInv` is inductive by itself; `WalkInv` is inductive
beside it.

`IInv`: `PendingExact` counts a set, so a step that moves a directory needs to
know that the directory is in no second place (`DistinctInv`) and, when it is
opened, that it was in none before (`FreshInv`). `StopOnlyWhenDone` needs that a
thread at `stop` saw the counter at zero and that it stays there (`StopInv`).
`FrontOfNonEmpty` needs that only the holder of the mutex is between the
predicate and the pop (`MutexInv`), and `NotAllAsleep` that a queued directory
has an awake thread (`AwakeInv`). `IInv` is their conjunction with the control
facts `PcInv`.

`WalkInv`: `WalkComplete` holds because every entry that is not handled is still
in the kernel's stream, in a thread's buffer or the file being searched, and
its directory is not finished (`CoverInv`). That nothing is handled twice, which
the refinement needs at each visit, is `BatchInv`, `FileInv` and `UnreadInv`.
`FdsExact` needs the same facts, so that a descriptor that is closed is in no
other place. `OutputInv` accounts for the matches: those of a searched file are
written, lost, or in exactly one batch, and a thread that has left the loop has
an empty one; with every thread gone this is `MatchesWritten`.

The refinement maps `open` to the directories queued, held or being listed and
`status` to where the walk is. Taking, queueing and closing a directory are
stutters; opening, searching, giving up and the subtraction from `pending_` are
visits of the directory being listed; clearing `running_` is `Finish`, which
needs `StopOnlyWhenDone` of the state after it; an exception of the main thread
is `Fail`.

`ProcessorSteps` has one lemma per step or group of steps: they keep
`ControlInv` (`ControlStep`; most are an `Advance`, one thread that moves on inside
`worker()` and leaves the shared state alone), the types (`TypeStep`), the
matches (`OutputStep`) and the entries and descriptors (`TreeStep`), and are steps
of `Traversal` or stutters (`TraversalStep`). `ProcessorProofs` has the steps that
move a directory or the counter (`DataStep`), the first states, the inductions and
the theorems.

### The event loop

`IInv` of `EventLoop` is the conjunction of the four properties with their types,
what `pump` has in hand (`ControlInv`), the kinds of arguments (`ArgsSound`) and
`HandedInv`. No part is inductive alone. `InFlightExact` counts sets of requests,
so a step that moves a request needs that it was in no second place
(`RequestsConserved`). `DirRefExact` and `OneOwner` speak of the arguments of the
requests in use, which stay what they are only while an object is not reused.
That a directory is not closed under a pending `openat` is in turn `DirRefExact`,
and `OneOwner` needs it for the descriptors the kernel gives out again.
`HandedInv` says that the request whose fields `QueueRead` reads is still with
the worker or in the queue of returned ones, hence not reused.

- `LoopFacts`: finite sets, lists, and the requests in use.
- `RequestProofs`: what `next`, `free` and `try_pop_overflow` do to the requests
  in use, and that every step keeps `RequestsConserved` and `InFlightExact`.
- `LoopSteps`: every step of `pump` keeps the arguments, the references and the
  owners, given what it does to the requests in use.
- `EventLoopProofs`: the first state, the steps of the kernel, and the theorems.

### The regex handler

`OnePlace` and `MatchesKept` need where each thread is (`ControlInv`): a request
is with a worker from `front()` to `free_read_request`, only the holder of the
mutex is between its predicate and `pop_front` (which gives `FrontOfNonEmpty`),
and workers leave the loop only after `running` is cleared. `CollectInv` says
that a match is in the buffer before its request is given back. With all workers
gone, their empty buffers give the last clause of `MatchesKept`.

In the walk and in the event loop the laws of finite sets and sequences enter the
lemmas as hypotheses, the definitions `Laws`, and in `LoopSteps` what the steps do
to the requests does so as `RequestLaws`: the provers see everything that
precedes a step, and the libraries make each step slow. `LawsHold` and
`RequestLawsHold` prove them where the theorems are.

### Only model-checked

Liveness, because fairness is outside the prover's reach. `ReadsInOrder` and
`ReturnsWithAllDone` of `EventLoop`, which also need that an entry is opened
once and what each completion says of its request. Everything about the other
modules.

## 5. Plan

1. Prove `ReadsInOrder` and `ReturnsWithAllDone` of `EventLoop`, with an invariant
   beside `IInv` about entries, completions and written bytes.
2. Prove `OwnedOnce` of `AutoRelease` and `OutputIsPrefix` of `Cat`.
3. Compose `EventLoop` with `RegexHandler` once a command does.
