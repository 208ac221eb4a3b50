----------------------------- MODULE EventLoop -----------------------------
(***************************************************************************)
(* EventLoop of src/src/utils/event_loop.h, driven by a client that reads  *)
(* every file below Root: its handlers queue an openat for every entry of  *)
(* a directory, a getdents for every opened directory and a read for every *)
(* opened file, and pass each buffer read to a worker thread.  Three kinds *)
(* of actor interleave: the thread in pump, the kernel, which serves the   *)
(* submitted requests in any order, and the workers, which return buffers  *)
(* through free_read_request.                                              *)
(***************************************************************************)
EXTENDS RequestPool, FiniteSets

CONSTANTS
  Dir, File,   \* the entries below Root, and Root, by kind
  Root,
  Parent,      \* the directory of every entry but Root
  Chunks,      \* how many reads of a file return data
  MaxFd,       \* RLIMIT_NOFILE
  WriteSize,   \* length of a buffer the client queues for writing, 0: none
  MaxErrno,    \* bound on the error numbers of a write
  MaxDrift,    \* bound on how far the offset of a write gets from the buffer
  Faults,      \* the system calls that may fail, "short" writes, "partial" submissions,
               \* "wait": io_uring_wait_cqe fails, "handler": read_handler_ fails
  AtCwd, None

Entry == Dir \cup File
Fd == 3..MaxFd
Fault == {"openat", "getdents", "read", "write", "short", "submit", "partial", "wait", "handler"}
WriteOffset == (-MaxDrift)..(WriteSize + MaxDrift)

ASSUME EventLoopAssumption ==
  /\ Root \in Dir
  /\ Dir \cap File = {}
  /\ Parent \in [Entry \ {Root} -> Dir]
  /\ Chunks \in [File -> Nat]
  /\ MaxFd \in Nat /\ WriteSize \in Nat /\ MaxErrno \in Nat /\ MaxDrift \in Nat
  /\ Faults \subseteq Fault
  /\ AtCwd \notin Fd
  /\ None \notin Entry

VARIABLES
  pc,               \* where pump is
  pools,            \* the four pools, the submission queue and in_flight_
  getdents_queue,   \* descriptors to enumerate
  current,          \* current_getdents_queue from the entry in hand
  todo,             \* entries getdents64 has yet to return for its head
  dir_ref_count,    \* 0: no entry in the map
  read_free_queue,  \* buffers returned by workers
  returned,         \* those of them pump has taken and not freed, its local read_free_queue
  held,             \* buffers in the hands of workers
  handed,           \* {i} while read_handler_ has request i and its next read is not queued
  lost,             \* failed reads, which pump neither frees nor retries
  kernel,           \* submitted requests the kernel has not served
  cq,               \* completions pump has not seen
  table,            \* the descriptor table
  got,              \* how many chunks of a file have reached read_handler
  listed, finished, \* directories enumerated, files read to their end
  skipped,          \* entries given up after an error
  written           \* the bytes of the client's buffer that were output

loopVars == <<getdents_queue, current, todo, dir_ref_count>>
ringVars == <<kernel, cq, table>>
workVars == <<read_free_queue, returned, held, handed, lost>>
ghostVars == <<got, listed, finished, skipped, written>>
vars == <<pc, pools, loopVars, ringVars, workVars, ghostVars>>

Children(d) == {e \in Entry \ {Root} : Parent[e] = d}

\* The client queues the root and its buffer, then calls pump.
Init ==
  /\ pc = "getdents"
  /\ pools = LET p == PoolNext(NewPools, "openat", <<AtCwd, Root>>)
             IN  IF WriteSize = 0 THEN p ELSE PoolNext(p, "write", <<0>>)
  /\ getdents_queue = <<>> /\ current = <<>> /\ todo = {}
  /\ dir_ref_count = [fd \in Fd |-> 0]
  /\ read_free_queue = <<>> /\ returned = <<>> /\ held = {} /\ handed = {} /\ lost = {}
  /\ kernel = {} /\ cq = <<>> /\ table = [fd \in Fd |-> None]
  /\ got = [f \in File |-> 0]
  /\ listed = {} /\ finished = {} /\ skipped = {} /\ written = {}

-----------------------------------------------------------------------------
(* Directory references.                                                   *)

\* Faulty variants: a reference that is not counted, a directory closed one reference early.
IncreaseDirRefForgotten(fd) == dir_ref_count
CloseIfLastEarly(p, fd) == IF dir_ref_count[fd] \in 1..2 THEN PoolNext(p, "close", <<fd>>) ELSE p

\* What increase_dir_ref and decrease_dir_ref leave in dir_ref_count_.
IncreaseDirRef(fd) == [dir_ref_count EXCEPT ![fd] = @ + 1]
DecreaseDirRef(fd) == [dir_ref_count EXCEPT ![fd] = @ - 1]

\* decrease_dir_ref queues the close of a directory that loses its last reference.
CloseIfLast(p, fd) == IF dir_ref_count[fd] = 1 THEN PoolNext(p, "close", <<fd>>) ELSE p

-----------------------------------------------------------------------------
(* pump: the directories.                                                  *)

SwapGetDents ==
  /\ pc = "getdents"
  /\ current' = getdents_queue /\ getdents_queue' = <<>>
  /\ pc' = "list"
  /\ UNCHANGED <<pools, todo, dir_ref_count, ringVars, workVars, ghostVars>>

\* dir_ref_count_[fd] = 1 and getdents64 until it returns 0 or fails: entries
\* is what it returns before that.
StartDir ==
  /\ pc = "list" /\ current # <<>>
  /\ LET fd == Head(current) d == table[fd] IN
       \E entries \in IF "getdents" \in Faults THEN SUBSET Children(d) ELSE {Children(d)} :
         /\ todo' = entries
         /\ skipped' = skipped \cup (Children(d) \ entries)
         /\ listed' = listed \cup {d}
         /\ dir_ref_count' = [dir_ref_count EXCEPT ![fd] = 1]
  /\ pc' = "dir"
  /\ UNCHANGED <<pools, getdents_queue, current, ringVars, workVars, got, finished, written>>

\* getdents_handler_ calls queue_openat(fd, name, flags).
QueueOpenAt ==
  /\ pc = "dir"
  /\ \E e \in todo :
       LET fd == Head(current) IN
         /\ todo' = todo \ {e}
         /\ dir_ref_count' = IncreaseDirRef(fd)
         /\ pools' = PoolNext(pools, "openat", <<fd, e>>)
  /\ UNCHANGED <<pc, getdents_queue, current, ringVars, workVars, ghostVars>>

EndDir ==
  /\ pc = "dir" /\ todo = {}
  /\ dir_ref_count' = DecreaseDirRef(Head(current))
  /\ pools' = CloseIfLast(pools, Head(current))
  /\ current' = Tail(current)
  /\ pc' = "list"
  /\ UNCHANGED <<getdents_queue, todo, ringVars, workVars, ghostVars>>

EndGetDents ==
  /\ pc = "list" /\ current = <<>>
  /\ pc' = "drain"
  /\ UNCHANGED <<pools, loopVars, ringVars, workVars, ghostVars>>

-----------------------------------------------------------------------------
(* pump: the overflow queues, the returned buffers and the submission.     *)

\* The order in which || tries the pools; the pool of writes is not one of them.
DrainOrder == <<"openat", "close", "read">>

Drain ==
  /\ pc = "drain"
  /\ \E k \in DOMAIN DrainOrder :
       /\ CanPopOverflow(pools, DrainOrder[k])
       /\ \A j \in 1..(k - 1) : ~CanPopOverflow(pools, DrainOrder[j])
       /\ pools' = PopOverflow(pools, DrainOrder[k])
  /\ UNCHANGED <<pc, loopVars, ringVars, workVars, ghostVars>>

EndDrain ==
  /\ pc = "drain"
  /\ \A o \in Range(DrainOrder) : ~CanPopOverflow(pools, o)
  /\ pc' = "free"
  /\ UNCHANGED <<pools, loopVars, ringVars, workVars, ghostVars>>

\* The queue is swapped under its mutex.
SwapFreed ==
  /\ pc = "free"
  /\ returned' = read_free_queue /\ read_free_queue' = <<>>
  /\ pc' = "return"
  /\ UNCHANGED <<pools, loopVars, ringVars, held, handed, lost, ghostVars>>

\* Faulty variant: the decrement of free(req) is not taken back.
FreeReadUncounted ==
  /\ pc = "return" /\ returned # <<>>
  /\ pools' = PoolFree(pools, "read", Head(returned))
  /\ returned' = Tail(returned)
  /\ UNCHANGED <<pc, loopVars, ringVars, read_free_queue, held, handed, lost, ghostVars>>

\* A buffer is freed, with the decrement of free(req) taken back.
FreeRead ==
  /\ pc = "return" /\ returned # <<>>
  /\ pools' = [PoolFree(pools, "read", Head(returned)) EXCEPT !.in_flight = @ + 1]
  /\ returned' = Tail(returned)
  /\ UNCHANGED <<pc, loopVars, ringVars, read_free_queue, held, handed, lost, ghostVars>>

EndFree ==
  /\ pc = "return" /\ returned = <<>>
  /\ pc' = "test"
  /\ UNCHANGED <<pools, loopVars, ringVars, workVars, ghostVars>>

Exit ==
  /\ pc = "test" /\ pools.in_flight = 0
  /\ pc' = "done"
  /\ UNCHANGED <<pools, loopVars, ringVars, workVars, ghostVars>>

Submit ==
  /\ pc = "test" /\ pools.in_flight # 0
  /\ pc' = "submit"
  /\ UNCHANGED <<pools, loopVars, ringVars, workVars, ghostVars>>

\* io_uring_submit passes the entries on in order; it may stop before the last, which
\* pump does not look at.
SubmitNext ==
  /\ pc = "submit" /\ pools.sq # <<>>
  /\ kernel' = kernel \cup {Head(pools.sq)}
  /\ pools' = [pools EXCEPT !.sq = Tail(@)]
  /\ UNCHANGED <<pc, loopVars, cq, table, workVars, ghostVars>>

EndSubmit ==
  /\ pc = "submit" /\ (pools.sq = <<>> \/ "partial" \in Faults)
  /\ pc' = "wait"
  /\ UNCHANGED <<pools, loopVars, ringVars, workVars, ghostVars>>

SubmitFails ==
  /\ pc = "test" /\ pools.in_flight # 0 /\ "submit" \in Faults
  /\ pc' = "failed"
  /\ UNCHANGED <<pools, loopVars, ringVars, workVars, ghostVars>>

\* io_uring_peek_cqe, or io_uring_wait_cqe, whose result is ignored: after an error
\* there may be nothing to see.
Wait ==
  /\ pc = "wait" /\ (cq # <<>> \/ "wait" \in Faults)
  /\ pc' = "reap"
  /\ UNCHANGED <<pools, loopVars, ringVars, workVars, ghostVars>>

-----------------------------------------------------------------------------
(* pump: the completions.                                                  *)

\* One iteration of io_uring_for_each_cqe: the completion of request i of kind o.
See(o, i, res) ==
  /\ pc = "reap" /\ cq # <<>>
  /\ Head(cq) = [req |-> <<o, i>>, res |-> res]
  /\ cq' = Tail(cq)
  /\ UNCHANGED <<kernel, table>>

Reap(o, i, res) == See(o, i, res) /\ UNCHANGED pc

\* openat_handler_ calls queue_read for a file and queue_getdents for a directory.
ReapOpenAt ==
  \E i \in DOMAIN pools.arg["openat"], res \in Fd \cup {-1} :
    LET args == pools.arg["openat"][i]
        relative == args[1] # AtCwd
        opened == IF res \in Fd /\ args[2] \in File THEN PoolNext(pools, "read", <<res, 0>>) ELSE pools
        dropped == IF relative THEN CloseIfLast(opened, args[1]) ELSE opened
    IN /\ Reap("openat", i, res)
       /\ getdents_queue' = IF res \in Fd /\ args[2] \in Dir THEN Append(getdents_queue, res)
                                                             ELSE getdents_queue
       /\ skipped' = IF res = -1 THEN skipped \cup {args[2]} ELSE skipped
       /\ dir_ref_count' = IF relative THEN DecreaseDirRef(args[1]) ELSE dir_ref_count
       /\ pools' = PoolFree(dropped, "openat", i)
       /\ UNCHANGED <<current, todo, workVars, got, listed, finished, written>>

\* Faulty variant: the request is not freed.
ReapCloseKept ==
  \E i \in DOMAIN pools.arg["close"], res \in {0, -1} :
    /\ Reap("close", i, res)
    /\ UNCHANGED <<pools, loopVars, workVars, ghostVars>>

ReapClose ==
  \E i \in DOMAIN pools.arg["close"], res \in {0, -1} :
    /\ Reap("close", i, res)
    /\ pools' = PoolFree(pools, "close", i)
    /\ UNCHANGED <<loopVars, workVars, ghostVars>>

\* The end of the file.
ReapReadEnd ==
  \E i \in DOMAIN pools.arg["read"] :
    LET fd == pools.arg["read"][i][1] IN
      /\ Reap("read", i, 0)
      /\ pools' = PoolFree(PoolNext(pools, "close", <<fd>>), "read", i)
      /\ finished' = finished \cup {table[fd]}
      /\ UNCHANGED <<loopVars, workVars, got, listed, skipped, written>>

\* Faulty variant: the request is freed under the worker.
ReapReadDataFreed ==
  /\ \E i \in DOMAIN pools.arg["read"] :
       /\ See("read", i, 1)
       /\ held' = held \cup {i} /\ handed' = {i}
       /\ got' = [got EXCEPT ![table[pools.arg["read"][i][1]]] = @ + 1]
       /\ pools' = PoolFree(pools, "read", i)
  /\ pc' = "handed"
  /\ UNCHANGED <<loopVars, read_free_queue, returned, lost, listed, finished, skipped, written>>

\* Data: the request is no longer counted and read_handler_ passes it to a worker.
ReapReadData ==
  /\ \E i \in DOMAIN pools.arg["read"] :
       /\ See("read", i, 1)
       /\ held' = held \cup {i} /\ handed' = {i}
       /\ got' = [got EXCEPT ![table[pools.arg["read"][i][1]]] = @ + 1]
  /\ pools' = [pools EXCEPT !.in_flight = @ - 1]
  /\ pc' = "handed"
  /\ UNCHANGED <<loopVars, read_free_queue, returned, lost, listed, finished, skipped, written>>

\* Faulty variant: the offset does not advance.
QueueReadAgain ==
  /\ pc = "handed"
  /\ \E i \in handed : pools' = PoolNext(pools, "read", pools.arg["read"][i])
  /\ handed' = {}
  /\ pc' = "reap"
  /\ UNCHANGED <<loopVars, ringVars, read_free_queue, returned, held, lost, ghostVars>>

\* The next read is queued from the fields of the request just passed on, which the worker
\* may have given back by now.
QueueRead ==
  /\ pc = "handed"
  /\ \E i \in handed :
       LET args == pools.arg["read"][i] IN
         pools' = PoolNext(pools, "read", <<args[1], args[2] + 1>>)
  /\ handed' = {}
  /\ pc' = "reap"
  /\ UNCHANGED <<loopVars, ringVars, read_free_queue, returned, held, lost, ghostVars>>

\* read_handler_ returns an error and so does pump, with what it has not seen left behind.
ReadHandlerFails ==
  /\ pc = "handed" /\ "handler" \in Faults
  /\ handed' = {}
  /\ pc' = "failed"
  /\ UNCHANGED <<pools, loopVars, ringVars, read_free_queue, returned, held, lost, ghostVars>>

\* An error: neither branch of the code runs.
ReapReadError ==
  \E i \in DOMAIN pools.arg["read"] :
    /\ Reap("read", i, -1)
    /\ lost' = lost \cup {i}
    /\ skipped' = skipped \cup {table[pools.arg["read"][i][1]]}
    /\ UNCHANGED <<pools, loopVars, read_free_queue, returned, held, handed, got, listed, finished, written>>

\* offset is a size_t and res an int: an error takes the offset back by its number, below
\* the buffer if it must, where the size_t has wrapped.  Only the exact end stops the writes.
ReapWrite ==
  \E i \in DOMAIN pools.arg["write"], res \in (-MaxErrno)..WriteSize :
    LET next == pools.arg["write"][i][1] + res IN
      /\ Reap("write", i, res)
      /\ pools' = PoolFree(IF next = WriteSize THEN pools ELSE PoolNext(pools, "write", <<next>>),
                           "write", i)
      /\ UNCHANGED <<loopVars, workVars, ghostVars>>

\* io_uring_cq_advance and the next turn of the loop.
EndReap ==
  /\ pc = "reap" /\ cq = <<>>
  /\ pc' = "getdents"
  /\ UNCHANGED <<pools, loopVars, ringVars, workVars, ghostVars>>

-----------------------------------------------------------------------------
(* The kernel: a submitted request is served at any time, in any order.    *)

\* The descriptors that are free, and the one open returns, the lowest of them.
Free == {fd \in Fd : table[fd] = None}
Lowest == {fd \in Free : \A other \in Free : fd <= other}

Submitted(o) == {i \in DOMAIN pools.arg[o] : <<o, i>> \in kernel}

Complete(o, i, res) ==
  /\ kernel' = kernel \ {<<o, i>>}
  /\ cq' = Append(cq, [req |-> <<o, i>>, res |-> res])
  /\ UNCHANGED <<pc, pools, loopVars, workVars, got, listed, finished, skipped>>

\* A relative name is looked up in the directory the descriptor names now.
Finds(parent, e) == parent # AtCwd => table[parent] = Parent[e]

ServeOpenAt ==
  \E i \in Submitted("openat") :
    LET args == pools.arg["openat"][i] IN
      \/ /\ Finds(args[1], args[2])
         /\ \E fd \in Lowest : /\ Complete("openat", i, fd)
                               /\ table' = [table EXCEPT ![fd] = args[2]]
         /\ UNCHANGED written
      \/ /\ "openat" \in Faults \/ Free = {} \/ ~Finds(args[1], args[2])
         /\ Complete("openat", i, -1)
         /\ UNCHANGED <<table, written>>

ServeClose ==
  \E i \in Submitted("close") :
    LET fd == pools.arg["close"][i][1] IN
      /\ Complete("close", i, IF table[fd] = None THEN -1 ELSE 0)
      /\ table' = [table EXCEPT ![fd] = None]
      /\ UNCHANGED written

ServeRead ==
  \E i \in Submitted("read") :
    LET fd == pools.arg["read"][i][1] offset == pools.arg["read"][i][2] IN
      \E res \in (IF table[fd] \notin File THEN {-1}
                  ELSE IF offset < Chunks[table[fd]] THEN {1} ELSE {0})
                 \cup (IF "read" \in Faults THEN {-1} ELSE {}) :
        /\ Complete("read", i, res)
        /\ UNCHANGED <<table, written>>

\* A request asks for WriteSize bytes from offset on, wherever that is.
WriteResults(offset) ==
  {res \in (-MaxErrno)..WriteSize :
     /\ offset + res \in WriteOffset
     /\ \/ res = WriteSize
        \/ res > 0 /\ ("short" \in Faults \/ offset # 0)
        \/ res < 0 /\ ("write" \in Faults \/ offset # 0)}

ServeWrite ==
  \E i \in Submitted("write") :
    LET offset == pools.arg["write"][i][1] IN
      \E res \in WriteResults(offset) :
        /\ Complete("write", i, res)
        /\ written' = written \cup (1..WriteSize \cap (offset + 1)..(offset + res))
        /\ UNCHANGED table

Kernel == ServeOpenAt \/ ServeClose \/ ServeRead \/ ServeWrite

\* A worker is done with a buffer: free_read_request.
FreeReadRequest ==
  \E i \in held :
    /\ held' = held \ {i}
    /\ read_free_queue' = Append(read_free_queue, i)
    /\ UNCHANGED <<pc, pools, loopVars, ringVars, returned, handed, lost, ghostVars>>

-----------------------------------------------------------------------------

GetDentsTurn == SwapGetDents \/ StartDir \/ QueueOpenAt \/ EndDir \/ EndGetDents
SubmitTurn ==
  \/ Drain \/ EndDrain \/ SwapFreed \/ FreeRead \/ EndFree \/ Exit
  \/ Submit \/ SubmitNext \/ EndSubmit \/ SubmitFails \/ Wait
ReapTurn ==
  \/ ReapOpenAt \/ ReapClose \/ ReapReadEnd \/ ReapReadData \/ QueueRead
  \/ ReadHandlerFails \/ ReapReadError \/ ReapWrite \/ EndReap

Pump == GetDentsTurn \/ SubmitTurn \/ ReapTurn

Next == Pump \/ Kernel \/ FreeReadRequest

Spec == Init /\ [][Next]_vars

\* The thread in pump keeps running, the kernel serves what is submitted and a
\* worker returns what it was given.
FairSpec == Spec /\ WF_vars(Pump) /\ WF_vars(Kernel) /\ WF_vars(FreeReadRequest)

-----------------------------------------------------------------------------
(* Properties.                                                             *)

\* The requests submitted and not seen by pump, and those of kind o in use.
Completed == {c.req : c \in Range(cq)}
Ring == kernel \cup Completed
Active(o) == InUse(pools, Ring, o)

\* in_flight_, which decides when pump returns and when it blocks, is the number of
\* requests in the ring plus the failed reads that are never freed: the decrement for a
\* buffer passed to a worker and the increment when it is freed cancel.
InFlightExact ==
  pools.in_flight = Len(pools.sq) + Cardinality(kernel) + Len(cq) + Cardinality(lost)

\* dir_ref_count_[fd] is one while fd is enumerated plus the openat requests relative to
\* fd, wherever they wait: so the contract_asserts of increase_dir_ref and
\* decrease_dir_ref hold, and no directory is closed under a pending openat.
DirRefExact ==
  \A fd \in Fd :
    dir_ref_count[fd] =
      (IF pc = "dir" /\ Head(current) = fd THEN 1 ELSE 0)
      + Cardinality({r \in Active("openat") : r[2][1] = fd})

\* The descriptors somebody in the loop will close: opened and not seen by pump, queued for
\* getdents, taken from that queue, referenced by dir_ref_count_, being read, with a
\* read that failed or whose successor is not queued yet, and queued for a close the kernel
\* has not served.
OpenedFds == {c.res : c \in {d \in Range(cq) : d.req[1] = "openat"}}
Unlisted == {current[k] : k \in DOMAIN current \ (IF pc = "dir" THEN {1} ELSE {})}
Referenced == {fd \in Fd : dir_ref_count[fd] > 0}
Unfinished == lost \cup handed
Readers == Active("read") \cup {<<i, pools.arg["read"][i]>> : i \in Unfinished}
ReadFds == {r[2][1] : r \in Readers}
Closers == {r \in Active("close") : <<"close", r[1]>> \notin Completed}
ClosingFds == {r[2][1] : r \in Closers}
Owners(fd) ==
  Present(fd, OpenedFds) + Present(fd, Range(getdents_queue)) + Present(fd, Unlisted)
  + Present(fd, Referenced) + Present(fd, ReadFds) + Present(fd, ClosingFds)

\* Every open descriptor has exactly one owner in the loop, and a closed one none: no
\* descriptor is closed twice, closed under a read, or used after the kernel may have
\* given its number to another file.  Once pump has failed, one may have lost its owner.
OneOwner ==
  /\ \A fd \in Fd : /\ Owners(fd) <= Present(table[fd], Entry)
                    /\ pc # "failed" => Owners(fd) = Present(table[fd], Entry)
  /\ \A k, l \in DOMAIN cq :
       cq[k].req[1] = "openat" /\ cq[l].req[1] = "openat" /\ cq[k].res = cq[l].res =>
         k = l \/ cq[k].res = -1
  /\ IsInjective(getdents_queue) /\ IsInjective(current)
  /\ \A r, s \in Readers : r[2][1] = s[2][1] => r = s
  /\ \A r, s \in Closers : r[2][1] = s[2][1] => r = s

\* The requests outside the lists of the pools, and in how many places each of them is:
\* with the kernel, completed, with a worker, returned by it, taken over by pump, or lost.
Buffers(S) == {"read"} \X S
Out == Ring \cup Buffers(held \cup Range(read_free_queue) \cup Range(returned) \cup lost)
Places(r) ==
  Present(r, kernel) + Present(r, Completed) + Present(r, Buffers(held))
  + Present(r, Buffers(Range(read_free_queue))) + Present(r, Buffers(Range(returned)))
  + Present(r, Buffers(lost))

\* Every request object is in exactly one place, and once: none is lost, and none is reused
\* while the kernel or a worker still uses its buffer.
RequestsConserved ==
  /\ PoolInv(pools, Out)
  /\ \A r \in Out : Places(r) = 1
  /\ \A k, l \in DOMAIN cq : cq[k].req = cq[l].req => k = l
  /\ IsInjective(read_free_queue) /\ IsInjective(returned)

\* The chunks of a file reach read_handler in order and once: the read in progress is for
\* the chunk after those delivered, although its offset is computed from a request that a
\* worker may already have given back.
ReadsInOrder ==
  \A r \in Active("read") :
    LET fd == r[2][1] offset == r[2][2] IN table[fd] \in File /\ offset = got[table[fd]]

\* When pump returns normally nothing waits in the drained queues or in the ring, every
\* descriptor is closed, every entry of an enumerated directory was enumerated, read to
\* its end or given up after an error, and every byte of the client's buffer was output,
\* whatever short and failed writes did to the offset, unless a request of it is left in the
\* overflow queue of writes, which pump does not drain.
ReturnsWithAllDone ==
  pc = "done" =>
    /\ pools.sq = <<>> /\ Ring = {} /\ getdents_queue = <<>>
    /\ \A o \in {"openat", "close", "read"} : pools.overflow[o] = <<>>
    /\ \A fd \in Fd : table[fd] = None
    /\ \A e \in Entry : (e # Root => Parent[e] \in listed) => e \in listed \cup finished \cup skipped
    /\ \A f \in finished : got[f] = Chunks[f]
    /\ written = 1..WriteSize \/ pools.overflow["write"] # <<>>

\* The arguments of a request of each kind.
OpenArg == (Fd \cup {AtCwd}) \X Entry
CloseArg == {<<fd>> : fd \in Fd}
ReadArg == Fd \X Nat
WriteArg == [1..1 -> Int]
Arg == {<<>>} \cup OpenArg \cup CloseArg \cup ReadArg \cup WriteArg

\* The state of the requests, and the rest.
RequestTypes ==
  /\ pools \in PoolType(Arg)
  /\ read_free_queue \in Seq(Nat) /\ returned \in Seq(Nat) /\ held \subseteq Nat
  /\ handed \subseteq Nat /\ lost \subseteq Nat
  /\ kernel \subseteq Op \X Nat /\ cq \in Seq([req : Op \X Nat, res : Int])
  /\ IsFiniteSet(kernel) /\ IsFiniteSet(lost)

TypeOK ==
  /\ RequestTypes
  /\ pc \in {"getdents", "list", "dir", "drain", "free", "return",
             "test", "submit", "wait", "reap", "handed", "done", "failed"}
  /\ getdents_queue \in Seq(Fd) /\ current \in Seq(Fd) /\ todo \subseteq Entry \ {Root}
  /\ dir_ref_count \in [Fd -> Int]
  /\ table \in [Fd -> Entry \cup {None}]

\* The requests in use have arguments of their kind, and the failed reads still have theirs.
ArgsSound ==
  /\ \A r \in Active("openat") : r[2] \in OpenArg
  /\ \A r \in Active("close") : r[2] \in CloseArg
  /\ \A r \in Readers : r[2] \in ReadArg
  /\ \A r \in Active("write") : r[2] \in WriteArg

\* What pump has in hand, by where it is.
ControlInv ==
  /\ pc \notin {"list", "dir"} => current = <<>>
  /\ pc = "dir" => current # <<>>
  /\ pc # "dir" => todo = {}
  /\ pc # "return" => returned = <<>>
  /\ pc # "handed" => handed = {}
  /\ pc = "handed" => \E i \in handed : handed = {i}

\* The request read_handler_ was called with is with a worker, or given back and not taken
\* over by pump: so its fields are still those of the read.
HandedInv == handed \subseteq held \cup Range(read_free_queue)

\* The inductive invariant.
IInv ==
  /\ TypeOK /\ ControlInv /\ HandedInv /\ ArgsSound
  /\ RequestsConserved /\ InFlightExact /\ DirRefExact /\ OneOwner

\* Under fair scheduling pump returns, even if waiting for a completion fails, provided
\* no read fails and no write is short or fails: a failed read stays counted in in_flight_
\* and a write that missed the end of its buffer is queued for ever.
PumpReturns == <>(pc = "done")
=============================================================================
