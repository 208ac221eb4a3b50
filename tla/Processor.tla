------------------------------ MODULE Processor ------------------------------
(***************************************************************************)
(* The parallel directory walk of ogrep: class impl::Processor of          *)
(* src/src/commands/grep.h.  Every thread runs worker(): it takes an open  *)
(* directory from queue_, lists it with getdents64, opens what it finds,   *)
(* runs the matching pipeline on the files and queues the directories.     *)
(* pending_ counts the directories that are queued or being listed; the    *)
(* worker that brings it to zero stops everybody.                          *)
(*                                                                         *)
(* Each action is one step of a thread between two accesses to shared      *)
(* state (mutex_, queue_, cv_, running_, pending_, the descriptor table,   *)
(* stdout).  The threads waiting on cv_ are those whose pc is "wait".      *)
(***************************************************************************)
EXTENDS Integers, Sequences, FiniteSets, Functions

CONSTANTS
  Thread,       \* the main thread and the hardware_concurrency() - 1 jthreads
  Main,         \* the thread that runs Processor::run and ~Processor
  Dir,          \* directories of the tree given on the command line
  File,         \* regular files (DT_REG)
  Other,        \* entries that are skipped: ".", "..", links, devices
  Root,         \* the start directory
  Parent,       \* the directory that lists an entry
  None,         \* no thread, no directory, no file (a -1 descriptor)
  FdLimit,      \* RLIMIT_NOFILE less the descriptors the walk does not own
  Faults,       \* the kinds of failure the environment may inject
  MaxSpurious   \* bound on spurious wake-ups of cv_.wait in a behaviour

Entry == (Dir \ {Root}) \cup File \cup Other

FaultKind == {"root", "spawn", "regex", "getdents", "openat", "read", "write"}

ASSUME ProcessorAssumption ==
  /\ Main \in Thread /\ None \notin Thread
  /\ Root \in Dir /\ None \notin Dir /\ None \notin File
  /\ IsFiniteSet(Dir) /\ IsFiniteSet(File)
  /\ Dir \cap File = {} /\ Dir \cap Other = {} /\ File \cap Other = {}
  /\ Parent \in [Entry -> Dir]
  /\ FdLimit \in Nat /\ MaxSpurious \in Nat
  /\ Faults \subseteq FaultKind

VARIABLES
  pc,           \* where each thread is in worker() or run()
  queue,        \* queue_
  mutex,        \* the holder of mutex_, or None
  running,      \* running_
  pending,      \* pending_
  dir_fd,       \* worker's local dir_fd
  batch,        \* entries of the getdents buffer not yet looked at (res_span)
  local_dir_queue,
  next_file,    \* the file whose pipeline is executing
  unread,       \* per directory, what getdents64 has not returned yet (kernel)
  fds,          \* open descriptors, named by what they are open on (kernel)
  buffer,       \* per thread, files with matches still in its BatchNode
  written,      \* files whose matches have all been handed to write(2)
  lost,         \* files whose matches a failed write or an exception discarded
  searched,     \* files whose pipeline ran to the end of the file
  scanned,      \* directories that were listed and closed
  dropped,      \* entries passed over because a system call failed
  unwound,      \* an exception left run()
  aborted,      \* an exception left a jthread: std::terminate
  spurious      \* spurious wake-ups so far

walk == <<dir_fd, batch, local_dir_queue, next_file, unread, dropped, scanned>>
output == <<buffer, written, lost, searched>>
fate == <<unwound, aborted>>
vars == <<pc, queue, mutex, running, pending, walk, fds, output, fate, spurious>>

Children(d) == {e \in Entry : Parent[e] = d}

Waiters == {t \in Thread : pc[t] = "wait"}

\* Where the main thread is once run() returned or threw.
Ending == {"dtor", "dtor_notify_all", "join", "exit"}

Goto(t, from, to) == pc[t] = from /\ pc' = [pc EXCEPT ![t] = to]

\* An exception leaves worker() or run() of thread t.  On the main thread the
\* stack unwinds into ~Processor, and t's pipeline dies with its batch; on a
\* jthread std::terminate ends the process.
Throw(t) ==
  /\ IF t = Main THEN /\ pc' = [pc EXCEPT ![t] = "dtor"]
                      /\ buffer' = [buffer EXCEPT ![t] = {}]
                      /\ lost' = lost \cup (buffer[t] \ written')
                      /\ unwound' = TRUE
                      /\ UNCHANGED aborted
                 ELSE /\ aborted' = TRUE
                      /\ UNCHANGED <<pc, buffer, lost, unwound>>
  /\ UNCHANGED <<queue, mutex, pending, walk, fds, searched, spurious>>

Init ==
  /\ pc = [t \in Thread |-> IF t = Main THEN "run" ELSE "idle"]
  /\ queue = <<>> /\ mutex = None /\ running = FALSE /\ pending = 0
  /\ dir_fd = [t \in Thread |-> None]
  /\ batch = [t \in Thread |-> {}]
  /\ local_dir_queue = [t \in Thread |-> <<>>]
  /\ next_file = [t \in Thread |-> None]
  /\ unread = [d \in Dir |-> Children(d)]
  /\ fds = {} /\ written = {} /\ lost = {} /\ searched = {} /\ scanned = {} /\ dropped = {}
  /\ buffer = [t \in Thread |-> {}]
  /\ unwound = FALSE /\ aborted = FALSE /\ spurious = 0

----------------------------------------------------------------------------
(* Faulty variants of operations below: each is a mistake the properties    *)
(* must notice, and none is part of the specification.                      *)

\* The predicate looks at pending_ instead of queue_.
TestPredicateOfPending(t) ==
  /\ Goto(t, "predicate", IF pending > 0 \/ ~running THEN "take" ELSE "sleep")
  /\ UNCHANGED <<queue, mutex, running, pending, walk, fds, output, fate, spurious>>

\* front() without pop_front().
TakeWithoutPop(t) ==
  /\ mutex' = None
  /\ Goto(t, "take", IF running THEN "getdents" ELSE "flush")
  /\ dir_fd' = IF running THEN [dir_fd EXCEPT ![t] = Head(queue)] ELSE dir_fd
  /\ UNCHANGED <<queue, running, pending, batch, local_dir_queue, next_file, unread,
                 dropped, scanned, fds, output, fate, spurious>>

\* The loop over res_span ends early.
EndBatchEarly(t) ==
  /\ Goto(t, "entry", "add")
  /\ UNCHANGED <<queue, mutex, running, pending, walk, fds, output, fate, spurious>>

\* fetch_add(1) whatever the number of directories found.
AddPendingOne(t) ==
  /\ Goto(t, "add", "append")
  /\ pending' = pending + 1
  /\ UNCHANGED <<queue, mutex, running, walk, fds, output, fate, spurious>>

\* The directories found are not counted at all.
AddPendingNone(t) ==
  /\ Goto(t, "add", "append")
  /\ UNCHANGED <<queue, mutex, running, pending, walk, fds, output, fate, spurious>>

\* getdents64 is called once per directory.
NotifyOneAndClose(t) ==
  /\ pc[t] = "notify"
  /\ IF Waiters = {}
     THEN pc' = [pc EXCEPT ![t] = "close"]
     ELSE \E w \in Waiters : pc' = [pc EXCEPT ![t] = "close", ![w] = "lock"]
  /\ UNCHANGED <<queue, mutex, running, pending, walk, fds, output, fate, spurious>>

\* The directory is not closed.
CloseDirLeaks(t) ==
  /\ Goto(t, "close", "subtract")
  /\ UNCHANGED <<queue, mutex, running, pending, walk, fds, output, fate, spurious>>

\* fetch_sub taken to return the new value.
SubtractPendingToZero(t) ==
  /\ Goto(t, "subtract", IF pending = 0 THEN "stop" ELSE "loop")
  /\ pending' = pending - 1
  /\ scanned' = scanned \cup {dir_fd[t]}
  /\ dir_fd' = [dir_fd EXCEPT ![t] = None]
  /\ UNCHANGED <<queue, mutex, running, batch, local_dir_queue, next_file,
                 unread, dropped, fds, output, fate, spurious>>

\* notify_one where everybody has to be told.
NotifyAllOnlyOne(t) ==
  /\ pc[t] \in {"notify_all", "dtor_notify_all"}
  /\ LET next == IF pc[t] = "notify_all" THEN "loop" ELSE "join" IN
       IF Waiters = {}
       THEN pc' = [pc EXCEPT ![t] = next]
       ELSE \E w \in Waiters : pc' = [pc EXCEPT ![t] = next, ![w] = "lock"]
  /\ UNCHANGED <<queue, mutex, running, pending, walk, fds, output, fate, spurious>>

\* The batch is not flushed when the worker ends.
FlushNothing(t) ==
  /\ Goto(t, "flush", IF t = Main THEN "dtor" ELSE "done")
  /\ buffer' = [buffer EXCEPT ![t] = {}]
  /\ UNCHANGED <<queue, mutex, running, pending, walk, fds, written, lost, searched, fate, spurious>>

----------------------------------------------------------------------------
(* Processor::run and ~Processor *)

\* run() up to the thread loop; no other thread exists yet.
OpenRoot ==
  /\ Goto(Main, "run", "spawn")
  /\ running' = TRUE /\ queue' = <<Root>> /\ pending' = 1 /\ fds' = {Root}
  /\ UNCHANGED <<mutex, walk, output, fate, spurious>>

OpenRootFails ==
  /\ "root" \in Faults
  /\ pc[Main] = "run"
  /\ running' = TRUE
  /\ UNCHANGED written
  /\ Throw(Main)

SpawnThread(t) ==
  /\ pc[Main] = "spawn"
  /\ Goto(t, "idle", "construct")
  /\ UNCHANGED <<queue, mutex, running, pending, walk, fds, output, fate, spurious>>

SpawnFails ==
  /\ "spawn" \in Faults
  /\ pc[Main] = "spawn" /\ \E t \in Thread : pc[t] = "idle"
  /\ UNCHANGED <<running, written>>
  /\ Throw(Main)

EnterWorker ==
  /\ \A t \in Thread : pc[t] # "idle"
  /\ Goto(Main, "spawn", "construct")
  /\ UNCHANGED <<queue, mutex, running, pending, walk, fds, output, fate, spurious>>

\* The members of Processor are destroyed: ~jthread joins every thread.
Join ==
  /\ \A t \in Thread \ {Main} : pc[t] \in {"idle", "done"}
  /\ Goto(Main, "join", "exit")
  /\ UNCHANGED <<queue, mutex, running, pending, walk, fds, output, fate, spurious>>

----------------------------------------------------------------------------
(* worker(): taking a directory *)

\* transform::VectorScan{regex} compiles the expression.  The thread's lambda
\* holds run()'s parameter regex by reference: a thread that gets here after
\* run() is left reads a destroyed object, and may compile it or die of it.
Construct(t) ==
  \/ /\ Goto(t, "construct", "loop")
     /\ UNCHANGED <<queue, mutex, running, pending, walk, fds, output, fate, spurious>>
  \/ /\ "regex" \in Faults \/ pc[Main] \in Ending
     /\ pc[t] = "construct"
     /\ UNCHANGED <<running, written>>
     /\ Throw(t)

TestRunning(t) ==
  /\ Goto(t, "loop", IF running THEN "lock" ELSE "flush")
  /\ UNCHANGED <<queue, mutex, running, pending, walk, fds, output, fate, spurious>>

Lock(t) ==
  /\ mutex = None
  /\ Goto(t, "lock", "predicate")
  /\ mutex' = t
  /\ UNCHANGED <<queue, running, pending, walk, fds, output, fate, spurious>>

\* The lambda of cv_.wait, evaluated with mutex_ held.
TestPredicate(t) ==
  /\ Goto(t, "predicate", IF queue # <<>> \/ ~running THEN "take" ELSE "sleep")
  /\ UNCHANGED <<queue, mutex, running, pending, walk, fds, output, fate, spurious>>

\* cv_.wait blocks: it joins the waiters and releases mutex_ in one step.
Sleep(t) ==
  /\ Goto(t, "sleep", "wait")
  /\ mutex' = None
  /\ UNCHANGED <<queue, running, pending, walk, fds, output, fate, spurious>>

WakeSpuriously(t) ==
  /\ spurious < MaxSpurious
  /\ Goto(t, "wait", "lock")
  /\ spurious' = spurious + 1
  /\ UNCHANGED <<queue, mutex, running, pending, walk, fds, output, fate>>

Take(t) ==
  /\ mutex' = None
  /\ \/ /\ ~running
        /\ Goto(t, "take", "flush")
        /\ UNCHANGED <<queue, dir_fd>>
     \/ /\ running
        /\ Goto(t, "take", "getdents")
        /\ dir_fd' = [dir_fd EXCEPT ![t] = Head(queue)]
        /\ queue' = Tail(queue)
  /\ UNCHANGED <<running, pending, batch, local_dir_queue, next_file, unread,
                 dropped, scanned, fds, output, fate, spurious>>

----------------------------------------------------------------------------
(* worker(): listing a directory *)

\* getdents64 fills the buffer with some of the entries not returned so far.
GetDents(t) ==
  /\ Goto(t, "getdents", "entry")
  /\ \E b \in SUBSET unread[dir_fd[t]] \ {{}} :
       /\ batch' = [batch EXCEPT ![t] = b]
       /\ unread' = [unread EXCEPT ![dir_fd[t]] = @ \ b]
  /\ UNCHANGED <<queue, mutex, running, pending, dir_fd, local_dir_queue,
                 next_file, dropped, scanned, fds, output, fate, spurious>>

\* It returns 0 at the end of the directory, or fails: both leave the loop.
GetDentsEnds(t) ==
  /\ Goto(t, "getdents", "close")
  /\ unread[dir_fd[t]] = {} \/ "getdents" \in Faults
  /\ dropped' = dropped \cup (unread[dir_fd[t]] \ Other)
  /\ UNCHANGED <<queue, mutex, running, pending, dir_fd, batch, local_dir_queue,
                 next_file, unread, scanned, fds, output, fate, spurious>>

OpenAtMayFail == "openat" \in Faults \/ Cardinality(fds) >= FdLimit

NextEntry(t, e) ==
  /\ pc[t] = "entry" /\ e \in batch[t]
  /\ batch' = [batch EXCEPT ![t] = @ \ {e}]
  /\ UNCHANGED <<queue, mutex, running, pending, dir_fd, unread, scanned,
                 output, fate, spurious>>

SkipEntry(t, e) ==
  /\ e \in Other
  /\ NextEntry(t, e)
  /\ UNCHANGED <<pc, local_dir_queue, next_file, dropped, fds>>

OpenAtFails(t, e) ==
  /\ e \in Dir \cup File
  /\ OpenAtMayFail
  /\ NextEntry(t, e)
  /\ dropped' = dropped \cup {e}
  /\ UNCHANGED <<pc, local_dir_queue, next_file, fds>>

OpenDir(t, e) ==
  /\ e \in Dir
  /\ Cardinality(fds) < FdLimit
  /\ NextEntry(t, e)
  /\ fds' = fds \cup {e}
  /\ local_dir_queue' = [local_dir_queue EXCEPT ![t] = Append(@, e)]
  /\ UNCHANGED <<pc, next_file, dropped>>

OpenFile(t, e) ==
  /\ e \in File
  /\ Cardinality(fds) < FdLimit
  /\ NextEntry(t, e)
  /\ fds' = fds \cup {e}
  /\ next_file' = [next_file EXCEPT ![t] = e]
  /\ pc' = [pc EXCEPT ![t] = "execute"]
  /\ UNCHANGED <<local_dir_queue, dropped>>

\* The pipeline reads the whole file.  Its matches join the thread's batch;
\* whenever the batch fills up, what it holds is written and dropped from it.
Execute(t) ==
  /\ Goto(t, "execute", "entry")
  /\ LET f == next_file[t] IN
       /\ \E flushed \in {{}, buffer[t], buffer[t] \cup {f}} :
            /\ written' = written \cup flushed
            /\ buffer' = [buffer EXCEPT ![t] = (@ \cup {f}) \ flushed]
       /\ searched' = searched \cup {f}
       /\ fds' = fds \ {f}
  /\ next_file' = [next_file EXCEPT ![t] = None]
  /\ UNCHANGED <<queue, mutex, running, pending, dir_fd, batch, local_dir_queue,
                 unread, dropped, scanned, lost, fate, spurious>>

\* pread or write fails, perhaps after the batch was written once or more.
ExecuteThrows(t) ==
  /\ Faults \cap {"read", "write"} # {}
  /\ pc[t] = "execute"
  /\ written' \in {written, written \cup buffer[t]}
  /\ UNCHANGED running
  /\ Throw(t)

EndBatch(t) ==
  /\ batch[t] = {}
  /\ Goto(t, "entry", "add")
  /\ UNCHANGED <<queue, mutex, running, pending, walk, fds, output, fate, spurious>>

AddPending(t) ==
  /\ Goto(t, "add", "append")
  /\ pending' = pending + Len(local_dir_queue[t])
  /\ UNCHANGED <<queue, mutex, running, walk, fds, output, fate, spurious>>

\* The critical section around append_range and clear.
AppendQueue(t) ==
  /\ mutex = None
  /\ Goto(t, "append", "notify")
  /\ queue' = queue \o local_dir_queue[t]
  /\ local_dir_queue' = [local_dir_queue EXCEPT ![t] = <<>>]
  /\ UNCHANGED <<mutex, running, pending, dir_fd, batch, next_file, unread,
                 dropped, scanned, fds, output, fate, spurious>>

NotifyOne(t) ==
  /\ pc[t] = "notify"
  /\ IF Waiters = {}
     THEN pc' = [pc EXCEPT ![t] = "getdents"]
     ELSE \E w \in Waiters : pc' = [pc EXCEPT ![t] = "getdents", ![w] = "lock"]
  /\ UNCHANGED <<queue, mutex, running, pending, walk, fds, output, fate, spurious>>

CloseDir(t) ==
  /\ Goto(t, "close", "subtract")
  /\ fds' = fds \ {dir_fd[t]}
  /\ UNCHANGED <<queue, mutex, running, pending, walk, output, fate, spurious>>

SubtractPending(t) ==
  /\ Goto(t, "subtract", IF pending = 1 THEN "stop" ELSE "loop")
  /\ pending' = pending - 1
  /\ scanned' = scanned \cup {dir_fd[t]}
  /\ dir_fd' = [dir_fd EXCEPT ![t] = None]
  /\ UNCHANGED <<queue, mutex, running, batch, local_dir_queue, next_file,
                 unread, dropped, fds, output, fate, spurious>>

----------------------------------------------------------------------------
(* Stopping: running_ = false and cv_.notify_all(), without mutex_ *)

StopRunning(t) ==
  /\ \/ Goto(t, "stop", "notify_all")
     \/ Goto(t, "dtor", "dtor_notify_all")
  /\ running' = FALSE
  /\ UNCHANGED <<queue, mutex, pending, walk, fds, output, fate, spurious>>

NotifyAll(t) ==
  /\ pc[t] \in {"notify_all", "dtor_notify_all"}
  /\ pc' = [u \in Thread |->
              IF u = t THEN (IF pc[t] = "notify_all" THEN "loop" ELSE "join")
              ELSE IF pc[u] = "wait" THEN "lock" ELSE pc[u]]
  /\ UNCHANGED <<queue, mutex, running, pending, walk, fds, output, fate, spurious>>

\* get<2>(pipeline)(): the rest of the batch is written; a failure is ignored.
Flush(t) ==
  /\ Goto(t, "flush", IF t = Main THEN "dtor" ELSE "done")
  /\ buffer' = [buffer EXCEPT ![t] = {}]
  /\ \/ written' = written \cup buffer[t] /\ lost' = lost
     \/ "write" \in Faults /\ written' = written /\ lost' = lost \cup buffer[t]
  /\ UNCHANGED <<queue, mutex, running, pending, walk, fds, searched, fate, spurious>>

----------------------------------------------------------------------------

TakeWork(t) ==
  TestRunning(t) \/ Lock(t) \/ TestPredicate(t) \/ Sleep(t) \/ Take(t)

ListDir(t) ==
  \/ GetDents(t) \/ GetDentsEnds(t)
  \/ \E e \in Entry : \/ SkipEntry(t, e) \/ OpenAtFails(t, e)
                      \/ OpenDir(t, e) \/ OpenFile(t, e)
  \/ Execute(t) \/ ExecuteThrows(t) \/ EndBatch(t)
  \/ AddPending(t) \/ AppendQueue(t) \/ NotifyOne(t)
  \/ CloseDir(t) \/ SubtractPending(t)

Worker(t) ==
  \/ Construct(t) \/ TakeWork(t) \/ ListDir(t)
  \/ StopRunning(t) \/ NotifyAll(t) \/ Flush(t)

RunMain ==
  \/ OpenRoot \/ OpenRootFails \/ SpawnFails \/ EnterWorker \/ Join
  \/ \E t \in Thread : SpawnThread(t)

\* After std::terminate nothing moves.
Step(t) == ~aborted /\ (Worker(t) \/ (t = Main /\ RunMain))

Next == \E t \in Thread : Step(t) \/ (~aborted /\ WakeSpuriously(t))

\* The scheduler runs every thread that can run; spurious wake-ups are owed
\* to nobody.
Fairness == \A t \in Thread : WF_vars(Step(t))

Spec == Init /\ [][Next]_vars

FairSpec == Spec /\ Fairness

----------------------------------------------------------------------------
(* Properties *)

ThreadState ==
  {"run", "spawn", "idle", "construct", "loop", "lock", "predicate", "sleep",
   "wait", "take", "getdents", "entry", "execute", "add", "append", "notify",
   "close", "subtract", "stop", "notify_all", "flush", "done", "dtor",
   "dtor_notify_all", "join", "exit"}

\* The type invariant.
TypeOK ==
  /\ pc \in [Thread -> ThreadState]
  /\ queue \in Seq(Dir)
  /\ mutex \in Thread \cup {None}
  /\ running \in BOOLEAN /\ pending \in Nat
  /\ dir_fd \in [Thread -> Dir \cup {None}]
  /\ batch \in [Thread -> SUBSET Entry]
  /\ local_dir_queue \in [Thread -> Seq(Dir)]
  /\ next_file \in [Thread -> File \cup {None}]
  /\ unread \in [Dir -> SUBSET Entry]
  /\ fds \subseteq Dir \cup File
  /\ buffer \in [Thread -> SUBSET File]
  /\ written \subseteq File /\ lost \subseteq File /\ searched \subseteq File
  /\ scanned \subseteq Dir /\ dropped \subseteq Entry
  /\ unwound \in BOOLEAN /\ aborted \in BOOLEAN
  /\ spurious \in 0..MaxSpurious

\* The directories held by threads: being listed, or opened and not yet queued.
Listed == {dir_fd[t] : t \in Thread} \ {None}
Opened(t) == Range(local_dir_queue[t])

\* The directories pending_ has to count: queued, being listed, or added to
\* pending_ and about to be queued.
Outstanding ==
  Range(queue) \cup Listed \cup UNION {Opened(t) : t \in {u \in Thread : pc[u] = "append"}}

\* pending_ is exactly the number of directories still to be finished, in
\* every interleaving of fetch_add, append_range, pop_front and fetch_sub:
\* none is counted twice, forgotten, or counted after it is done.
PendingExact == pending = Cardinality(Outstanding)

\* running_ only becomes false when no directory is left, unless an exception
\* left run(): no worker gives up while another may still queue directories.
StopOnlyWhenDone ==
  ~running /\ pc[Main] # "run" /\ ~unwound =>
    Outstanding = {} /\ \A t \in Thread : local_dir_queue[t] = <<>>

\* queue_.front() is never called on an empty queue, although running_ is read
\* once by the predicate and again, without it, after the wait.
FrontOfNonEmpty == \A t \in Thread : pc[t] = "take" /\ running => queue # <<>>

\* While running_ holds some thread is neither asleep nor about to be: the
\* walk cannot come to rest with directories left, although notify_one wakes
\* one thread for any number of queued directories.
NotAllAsleep ==
  running /\ ~aborted =>
    \E t \in Thread : pc[t] \notin {"idle", "sleep", "wait", "done"}

\* No directory is taken by two threads, or taken again once it was listed.
TakenOnce ==
  [][\A t \in Thread : dir_fd'[t] \notin {dir_fd[t], None} =>
       /\ dir_fd'[t] \notin scanned
       /\ \A u \in Thread : dir_fd[u] # dir_fd'[t]]_vars

\* The walk always comes to an end: running_ becomes false whatever wake-ups
\* are lost, since the threads that hold work are awake.
RunningEnds == <>(aborted \/ (~running /\ pc[Main] # "run"))

\* A thread that found running_ true and is about to block when it is cleared
\* misses notify_all, which is called without mutex_.
MissesNotify(t) == pc[t] = "sleep" /\ ~running

\* The process ends, provided no thread is in that window when running_ is
\* cleared (grep.h:81 against grep.h:178).
Termination ==
  [](\A t \in Thread : ~MissesNotify(t)) => <>(aborted \/ pc[Main] = "exit")

----------------------------------------------------------------------------
(* The inductive invariant behind the theorems of ProcessorProofs           *)

\* Every open directory.
WalkOpen == Range(queue) \cup Listed \cup UNION {Opened(t) : t \in Thread}

\* Where a thread owns the directory in dir_fd, and where it may hold
\* directories it opened.
Listing == {"getdents", "entry", "execute", "add", "append", "notify", "close", "subtract"}
Opening == {"entry", "execute", "add", "append"}

PcInv ==
  /\ pc[Main] = "run" =>
       queue = <<>> /\ ~running /\ ~unwound /\ \A t \in Thread \ {Main} : pc[t] = "idle"
  /\ pc[Main] \notin {"idle", "done"}
  /\ \A t \in Thread \ {Main} : pc[t] \notin {"run", "spawn"} \cup Ending
  /\ unwound => pc[Main] \in Ending
  /\ \A t \in Thread :
       /\ pc[t] \in Listing => dir_fd[t] # None
       /\ pc[t] = "execute" => next_file[t] # None
       /\ pc[t] \notin Listing /\ ~(t = Main /\ unwound) => dir_fd[t] = None
       /\ pc[t] \notin Opening /\ ~(t = Main /\ unwound) => local_dir_queue[t] = <<>>

MutexInv == \A t \in Thread : pc[t] \in {"predicate", "sleep", "take"} => mutex = t

StopInv ==
  /\ \A t \in Thread :
       /\ pc[t] = "stop" => pending = 0
       /\ pc[t] \in {"notify_all", "flush", "done"} => ~running
  /\ pc[Main] \in Ending \ {"dtor"} => ~running
  /\ pc[Main] = "dtor" /\ ~unwound => ~running
  /\ ~running /\ pc[Main] # "run" /\ ~unwound => pending = 0

\* A directory is queued once, listed by one thread, or held by one opener.
DistinctInv ==
  /\ IsInjective(queue)
  /\ \A t \in Thread :
       /\ IsInjective(local_dir_queue[t])
       /\ dir_fd[t] \notin Range(queue)
       /\ Opened(t) \cap Range(queue) = {}
       /\ \A u \in Thread : dir_fd[u] \notin Opened(t)
       /\ \A u \in Thread \ {t} : /\ Opened(t) \cap Opened(u) = {}
                                  /\ dir_fd[t] = dir_fd[u] => dir_fd[t] = None

\* What is still to be read or looked at was not opened before.
FreshInv ==
  /\ \A d \in Dir : unread[d] \subseteq Children(d)
  /\ \A t \in Thread :
       /\ batch[t] \cap (WalkOpen \cup scanned) = {}
       /\ \A u \in Thread \ {t} : batch[t] \cap batch[u] = {}
       /\ \A d \in Dir : unread[d] \cap batch[t] = {}
  /\ \A d \in Dir : unread[d] \cap (WalkOpen \cup scanned) = {}
  /\ scanned \cap WalkOpen = {}
  /\ pc[Main] = "run" => scanned = {}

\* A queued directory has a thread awake that will come back to the queue.
AwakeInv ==
  /\ queue # <<>> /\ running =>
       \E t \in Thread : pc[t] \notin {"idle", "sleep", "wait", "done"}
  /\ running /\ ~unwound => pending > 0 \/ \E t \in Thread : pc[t] = "stop"
  /\ running /\ unwound => pc[Main] = "dtor"

\* Where the threads may be, and what they may rely on there.
ControlInv == PcInv /\ MutexInv /\ StopInv /\ FrontOfNonEmpty /\ AwakeInv

\* The conjunction that every step of run(), worker() and ~Processor preserves: with it
\* the counter, the queue, the batches and the program counters agree, which none of the
\* properties above says on its own.
IInv == TypeOK /\ ControlInv /\ DistinctInv /\ FreshInv /\ PendingExact

\* Who lists a directory is counted; it follows from PendingExact.
HoldersCounted == \A t \in Thread : dir_fd[t] # None => pending > 0
=============================================================================
