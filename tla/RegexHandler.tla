---------------------------- MODULE RegexHandler ----------------------------
(***************************************************************************)
(* RegexHandler of src/src/utils/regex_handler.h: the thread in pump hands *)
(* read requests to worker threads through a queue; a worker scans the     *)
(* buffer, collects the matches and gives the request back to the event    *)
(* loop.  The owner then destroys the handler.  Every request has one      *)
(* match, named by the request; whether it fills the write buffer is open. *)
(***************************************************************************)
EXTENDS Sequences, Functions

CONSTANTS
  Worker,
  Request,  \* the read requests the event loop hands over
  Faults,   \* "construct": the expression, its scratch space or a thread cannot be made;
            \* "scan": scratch or scan fails; "write": write(2) fails
  None

ASSUME RegexHandlerAssumption ==
  Faults \subseteq {"construct", "scan", "write"} /\ None \notin Worker \cup Request

VARIABLES
  pc,          \* of each worker
  owner,       \* of the thread that calls the constructor, operator() and the destructor
  to_process, running, mutex,
  req,         \* the request in the hands of a worker
  write_buffer,
  passed, freed,  \* requests handed over, and given back with free_read_request
  written, dropped,  \* matches written, and those whose write failed
  terminated,  \* an exception left a worker
  missed       \* workers about to sleep when notify_all was called

workerVars == <<pc, req, write_buffer>>
outputVars == <<freed, written, dropped, terminated>>
vars == <<workerVars, outputVars, owner, to_process, running, mutex, passed, missed>>

Init ==
  /\ pc = [t \in Worker |-> "idle"] /\ owner = "construct"
  /\ to_process = <<>> /\ running = TRUE /\ mutex = None
  /\ req = [t \in Worker |-> None] /\ write_buffer = [t \in Worker |-> {}]
  /\ passed = {} /\ freed = {} /\ written = {} /\ dropped = {} /\ terminated = FALSE
  /\ missed = {}

At(t, l) == pc[t] = l /\ ~terminated
Goto(t, l) == pc' = [pc EXCEPT ![t] = l]

\* The state of a worker after notify_one or notify_all.
Woken(S) == [t \in Worker |-> IF t \in S THEN "lock" ELSE pc[t]]
Waiters == {t \in Worker : pc[t] = "asleep"}

-----------------------------------------------------------------------------
(* The owner.                                                              *)

\* The constructor starts the workers one after the other; the first run while it does.
Spawn(t) ==
  /\ owner = "construct" /\ At(t, "idle") /\ Goto(t, "start")
  /\ UNCHANGED <<req, write_buffer, outputVars, owner, to_process, running, mutex, passed, missed>>

EndConstruct ==
  /\ owner = "construct" /\ ~terminated /\ \A t \in Worker : pc[t] # "idle"
  /\ owner' = "pump"
  /\ UNCHANGED <<workerVars, outputVars, to_process, running, mutex, passed, missed>>

\* The constructor throws; the destructor of an object without a constructor that returned
\* does not run, so running stays set and the jthreads started so far are joined for ever.
ConstructThrows ==
  /\ owner = "construct" /\ ~terminated /\ "construct" \in Faults
  /\ \E t \in Worker : pc[t] = "idle"
  /\ owner' = "unwind"
  /\ UNCHANGED <<workerVars, outputVars, to_process, running, mutex, passed, missed>>

\* Faulty variants: a push without a notification; a destructor that wakes one worker.
PassOnSilently ==
  /\ owner = "pump" /\ ~terminated /\ mutex = None
  /\ \E r \in Request \ passed :
       to_process' = Append(to_process, r) /\ passed' = passed \cup {r}
  /\ UNCHANGED <<workerVars, outputVars, owner, running, mutex, missed>>

NotifyOneOnly ==
  /\ owner = "notify" /\ ~terminated
  /\ IF Waiters = {} THEN UNCHANGED pc ELSE \E t \in Waiters : pc' = Woken({t})
  /\ owner' = "join" /\ missed' = {t \in Worker : pc[t] = "block"}
  /\ UNCHANGED <<req, write_buffer, outputVars, to_process, running, mutex, passed>>

\* operator()(req): the push and notify_one under the mutex.
PassOn ==
  /\ owner = "pump" /\ ~terminated /\ mutex = None
  /\ \E r \in Request \ passed :
       to_process' = Append(to_process, r) /\ passed' = passed \cup {r}
  /\ IF Waiters = {} THEN UNCHANGED pc ELSE \E t \in Waiters : pc' = Woken({t})
  /\ UNCHANGED <<req, write_buffer, outputVars, owner, running, mutex, missed>>

\* The destructor: running is cleared without the mutex, then notify_all, then the joins.
StopRunning ==
  /\ owner = "pump" /\ ~terminated
  /\ running' = FALSE /\ owner' = "notify"
  /\ UNCHANGED <<workerVars, outputVars, to_process, mutex, passed, missed>>

NotifyAll ==
  /\ owner = "notify" /\ ~terminated
  /\ pc' = Woken(Waiters) /\ owner' = "join"
  /\ missed' = {t \in Worker : pc[t] = "block"}
  /\ UNCHANGED <<req, write_buffer, outputVars, to_process, running, mutex, passed>>

\* The jthreads are joined, by the destructor or by a constructor that throws.
Join ==
  /\ owner \in {"join", "unwind"} /\ ~terminated /\ \A t \in Worker : pc[t] \in {"idle", "exit"}
  /\ owner' = "gone"
  /\ UNCHANGED <<workerVars, outputVars, to_process, running, mutex, passed, missed>>

-----------------------------------------------------------------------------
(* A worker.                                                               *)

\* hs_clone_scratch.
Start(t) ==
  /\ At(t, "start") /\ Goto(t, "test")
  /\ UNCHANGED <<req, write_buffer, outputVars, owner, to_process, running, mutex, passed, missed>>

\* An exception that leaves the function of a jthread ends the process.
Terminate(t) ==
  /\ At(t, "start") \/ At(t, "scan")
  /\ "scan" \in Faults
  /\ terminated' = TRUE
  /\ UNCHANGED <<workerVars, freed, written, dropped, owner, to_process, running, mutex, passed, missed>>

TestRunning(t) ==
  /\ At(t, "test") /\ Goto(t, IF running THEN "lock" ELSE "flush")
  /\ UNCHANGED <<req, write_buffer, outputVars, owner, to_process, running, mutex, passed, missed>>

Lock(t) ==
  /\ At(t, "lock") /\ mutex = None
  /\ mutex' = t /\ Goto(t, "predicate")
  /\ UNCHANGED <<req, write_buffer, outputVars, owner, to_process, running, passed, missed>>

\* Faulty variant: a wait without its predicate.
TestPredicateSkipped(t) ==
  /\ At(t, "predicate") /\ Goto(t, "take")
  /\ UNCHANGED <<req, write_buffer, outputVars, owner, to_process, running, mutex, passed, missed>>

TestPredicate(t) ==
  /\ At(t, "predicate")
  /\ Goto(t, IF ~running \/ to_process # <<>> THEN "take" ELSE "block")
  /\ UNCHANGED <<req, write_buffer, outputVars, owner, to_process, running, mutex, passed, missed>>

\* The wait releases the mutex and sleeps in one step, and may wake by itself.
Sleep(t) ==
  /\ At(t, "block")
  /\ mutex' = None /\ Goto(t, "asleep")
  /\ UNCHANGED <<req, write_buffer, outputVars, owner, to_process, running, passed, missed>>

WakeSpuriously(t) ==
  /\ At(t, "asleep") /\ Goto(t, "lock")
  /\ UNCHANGED <<req, write_buffer, outputVars, owner, to_process, running, mutex, passed, missed>>

\* Faulty variant: the request stays in the queue.
TakeWithoutPop(t) ==
  /\ At(t, "take") /\ mutex' = None
  /\ IF running THEN req' = [req EXCEPT ![t] = Head(to_process)] /\ Goto(t, "scan")
                ELSE UNCHANGED req /\ Goto(t, "flush")
  /\ UNCHANGED <<write_buffer, outputVars, owner, to_process, running, passed, missed>>

\* The test of running after the wait, front and pop_front.
Take(t) ==
  /\ At(t, "take") /\ mutex' = None
  /\ IF running THEN /\ req' = [req EXCEPT ![t] = Head(to_process)]
                     /\ to_process' = Tail(to_process)
                     /\ Goto(t, "scan")
                ELSE UNCHANGED <<req, to_process>> /\ Goto(t, "flush")
  /\ UNCHANGED <<write_buffer, outputVars, owner, running, passed, missed>>

\* hs_scan and the collection of the matches.
Scan(t) ==
  /\ At(t, "scan")
  /\ write_buffer' = [write_buffer EXCEPT ![t] = @ \cup {req[t]}]
  /\ \E full \in BOOLEAN : Goto(t, IF full THEN "write" ELSE "free")
  /\ UNCHANGED <<req, outputVars, owner, to_process, running, mutex, passed, missed>>

\* write(2) under write_mutex; its result is not looked at and the buffer is cleared.  The
\* requests of rest have matches that enter the buffer afterwards.
WriteBuffer(t, rest) ==
  /\ \/ written' = written \cup (write_buffer[t] \ rest) /\ UNCHANGED dropped
     \/ "write" \in Faults /\ dropped' = dropped \cup write_buffer[t] /\ UNCHANGED written
  /\ write_buffer' = [write_buffer EXCEPT ![t] = rest]

\* Faulty variant: the request is given back here and again afterwards.
WriteFullFrees(t) ==
  /\ At(t, "write") /\ WriteBuffer(t, {}) /\ Goto(t, "free")
  /\ freed' = freed \cup {req[t]} /\ req' = [req EXCEPT ![t] = None]
  /\ UNCHANGED <<terminated, owner, to_process, running, mutex, passed, missed>>

\* The buffer is full after some match of the request, perhaps not its last; a buffer that
\* the same request fills again is like the first.
WriteFull(t) ==
  /\ At(t, "write") /\ Goto(t, "free")
  /\ \E rest \in SUBSET {req[t]} : WriteBuffer(t, rest)
  /\ UNCHANGED <<req, freed, terminated, owner, to_process, running, mutex, passed, missed>>

\* ev.free_read_request(req).
FreeRequest(t) ==
  /\ At(t, "free")
  /\ freed' = freed \cup {req[t]} /\ req' = [req EXCEPT ![t] = None]
  /\ Goto(t, "test")
  /\ UNCHANGED <<write_buffer, written, dropped, terminated, owner, to_process, running, mutex, passed, missed>>

\* Faulty variant: the worker leaves with matches in its buffer.
LeaveWithoutWriting(t) ==
  /\ At(t, "flush") /\ Goto(t, "exit")
  /\ UNCHANGED <<req, write_buffer, outputVars, owner, to_process, running, mutex, passed, missed>>

\* What is left in the buffer when the loop ends.
WriteRest(t) ==
  /\ At(t, "flush") /\ WriteBuffer(t, {}) /\ Goto(t, "exit")
  /\ UNCHANGED <<req, freed, terminated, owner, to_process, running, mutex, passed, missed>>

Step(t) ==
  \/ Start(t) \/ TestRunning(t) \/ Lock(t) \/ TestPredicate(t) \/ Sleep(t) \/ Take(t)
  \/ Scan(t) \/ WriteFull(t) \/ FreeRequest(t) \/ WriteRest(t)

Owner ==
  \/ EndConstruct \/ ConstructThrows \/ PassOn \/ StopRunning \/ NotifyAll \/ Join

Next == Owner \/ \E t \in Worker : Spawn(t) \/ Step(t) \/ Terminate(t) \/ WakeSpuriously(t)

Spec == Init /\ [][Next]_vars

\* Threads are scheduled and the mutex is not withheld from one for ever; the owner
\* finishes a destructor it has started.
FairSpec ==
  /\ Spec /\ WF_vars(NotifyAll) /\ WF_vars(Join)
  /\ \A t \in Worker : WF_vars(Step(t)) /\ SF_vars(Lock(t))

-----------------------------------------------------------------------------

\* Every variable has its type.
TypeOK ==
  /\ pc \in [Worker -> {"idle", "start", "test", "lock", "predicate", "block", "asleep",
                        "take", "scan", "write", "free", "flush", "exit"}]
  /\ owner \in {"construct", "unwind", "pump", "notify", "join", "gone"}
  /\ to_process \in Seq(Request) /\ running \in BOOLEAN /\ mutex \in Worker \cup {None}
  /\ req \in [Worker -> Request \cup {None}] /\ write_buffer \in [Worker -> SUBSET Request]
  /\ passed \subseteq Request /\ freed \subseteq Request
  /\ written \subseteq Request /\ dropped \subseteq Request
  /\ terminated \in BOOLEAN /\ missed \subseteq Worker

\* The requests in the hands of the workers.
Hands == {req[t] : t \in {u \in Worker : req[u] # None}}

\* A request handed over is in exactly one place: once in the queue, in the hands of one
\* worker, or given back; so the event loop never gets a buffer back that another worker
\* still scans, and never twice (operator(), worker and free_read_request).
OnePlace ==
  /\ passed = Range(to_process) \cup Hands \cup freed
  /\ IsInjective(to_process)
  /\ \A t, u \in Worker : req[t] = req[u] => t = u \/ req[t] = None
  /\ Range(to_process) \cap Hands = {} /\ Range(to_process) \cap freed = {}
  /\ Hands \cap freed = {}

\* The matches of a request that was given back are written, in the buffer of a worker that
\* will still write it, or were dropped by a failed write; when the handler is gone all of
\* them have left the buffers, and requests that were not taken stay in the queue.
MatchesKept ==
  /\ freed \subseteq written \cup dropped \cup UNION {write_buffer[t] : t \in Worker}
  /\ \A t \in Worker : pc[t] \in {"idle", "exit"} => write_buffer[t] = {}
  /\ owner = "gone" => passed = freed \cup Range(to_process) /\ freed \subseteq written \cup dropped

\* front() is called only on a queue that has an element, although running is read without
\* any lock by the predicate and again after it.
FrontOfNonEmpty == \A t \in Worker : pc[t] = "take" /\ running => to_process # <<>>

\* A worker has a request from front() until free_read_request, the mutex from its lock to
\* the end of the wait or of pop_front, and leaves its loop only after running is cleared.
ControlInv ==
  /\ \A t \in Worker :
       /\ req[t] # None <=> pc[t] \in {"scan", "write", "free"}
       /\ mutex = t <=> pc[t] \in {"predicate", "block", "take"}
       /\ pc[t] \in {"flush", "exit"} => ~running
  /\ owner \in {"construct", "unwind", "pump"} => running
  /\ owner \in {"notify", "join"} => ~running
  /\ owner = "gone" => \A t \in Worker : pc[t] \in {"idle", "exit"}

\* A match found in a request is collected before the request is given back.
CollectInv ==
  \A t \in Worker :
    /\ pc[t] = "write" => req[t] \in write_buffer[t]
    /\ pc[t] = "free" => req[t] \in write_buffer[t] \cup written \cup dropped

\* The inductive invariant: from any state that satisfies it a step of operator(), of the
\* constructor, the destructor or of a worker leads to another.
IInv == TypeOK /\ ControlInv /\ FrontOfNonEmpty /\ OnePlace /\ CollectInv /\ MatchesKept

\* While the handler lives, and no exception ends the process, every request handed over is
\* given back: a push never meets workers that all sleep through it.
AllGivenBack == \A r \in Request : r \in passed ~> (r \in freed \/ ~running \/ terminated)

\* The destructor ends, unless an exception ends the process first or running is cleared
\* between a worker's predicate and its sleep: that worker misses notify_all, sleeps for
\* ever and is never joined.
DestructorEnds ==
  (owner = "notify") ~> (owner = "gone" \/ missed # {} \/ terminated)
=============================================================================
