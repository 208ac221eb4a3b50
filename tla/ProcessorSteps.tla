--------------------------- MODULE ProcessorSteps ---------------------------
(***************************************************************************)
(* Every step of run() and of a thread of the walk keeps the invariants of *)
(* Processor about the control (where the threads may be and what they may *)
(* rely on there) and the types, and those of ProcessorWalk about the      *)
(* matches, the entries of the tree and the descriptors.  Each step is one *)
(* of the abstract traversal, or changes nothing the traversal tells apart.*)
(***************************************************************************)
EXTENDS ProcessorWalk, TLAPS

\* Zenon proves a leaf, unless the leaf names another prover.
USE Zenon

-----------------------------------------------------------------------------
(* Where the threads are: ControlInv.                                      *)

\* An exception keeps the control invariant: the main thread is then in
\* ~Processor, any other thread ends the process where it is.
LEMMA ThrowControl ==
  ASSUME IInv, NEW t \in Thread, Throw(t),
         pc[t] \in {"run", "spawn", "construct", "execute"},
         running' = running \/ pc[Main] = "run"
  PROVE  ControlInv'
PROOF
<1>1. CASE t = Main
  <2>1. /\ pc'[Main] = "dtor" /\ unwound' = TRUE
        /\ \A u \in Thread \ {Main} : pc'[u] = pc[u]
        /\ UNCHANGED <<queue, mutex, pending, dir_fd, local_dir_queue, next_file>>
    BY <1>1, ProcessorAssumption DEF Throw, walk, IInv, TypeOK
  <2>2. pc[Main] = "run" => \A u \in Thread \ {Main} : pc[u] = "idle"
    BY DEF IInv, ControlInv, PcInv
  <2>3. PcInv'
    BY <1>1, <2>1, <2>2, ProcessorAssumption
       DEF IInv, ControlInv, PcInv, Listing, Opening, Ending
  <2>4. MutexInv' /\ FrontOfNonEmpty'
    BY SMT, <1>1, <2>1, <2>2 DEF IInv, ControlInv, MutexInv, FrontOfNonEmpty
  <2>5. StopInv'
    BY SMT, <1>1, <2>1, <2>2, ProcessorAssumption DEF IInv, ControlInv, StopInv, Ending
  <2>6. AwakeInv'
    BY <1>1, <2>1, ProcessorAssumption DEF AwakeInv
  <2> QED
    BY <2>3, <2>4, <2>5, <2>6 DEF ControlInv
<1>2. CASE t # Main
  <2>1. pc[Main] # "run"
    BY <1>2 DEF IInv, ControlInv, PcInv
  <2> QED
    BY SMT, <1>2, <2>1, ProcessorAssumption
       DEF IInv, TypeOK, ControlInv, PcInv, MutexInv, StopInv, FrontOfNonEmpty,
           AwakeInv, Listing, Opening, Ending, ThreadState, walk, output, fate, Throw
<1> QED
  BY <1>1, <1>2

\* Thread t moves on inside worker() and leaves the shared control state alone.
Inside ==
  {"construct", "loop", "lock", "predicate", "sleep", "wait", "take", "flush"} \cup Listing

Advance(t, to) ==
  /\ pc[t] \in Inside /\ to \in Inside /\ pc' = [pc EXCEPT ![t] = to]
  /\ UNCHANGED <<queue, mutex, running, pending, dir_fd, unwound>>
  /\ \A u \in Thread \ {t} : /\ local_dir_queue'[u] = local_dir_queue[u]
                             /\ next_file'[u] = next_file[u]
  /\ to \in Listing <=> pc[t] \in Listing
  /\ to \in Opening \/ local_dir_queue'[t] = <<>>
  /\ to = "execute" => next_file'[t] # None
  /\ to \in {"predicate", "sleep", "take"} => mutex = t
  /\ to = "take" /\ running => queue # <<>>
  /\ to \in {"sleep", "wait"} => queue = <<>>
  /\ to = "flush" => ~running

\* Such a step keeps the control invariant.
LEMMA AdvanceControl ==
  ASSUME IInv, NEW t \in Thread, NEW to, Advance(t, to)
  PROVE  ControlInv'
PROOF
<1>1. /\ pc'[t] = to /\ \A u \in Thread \ {t} : pc'[u] = pc[u]
      /\ pc[t] # "run" /\ pc[t] # "stop" /\ to # "stop" /\ to \notin {"notify_all", "done"}
      /\ to \notin {"run", "spawn", "idle"} \cup Ending
      /\ UNCHANGED <<queue, mutex, running, pending, dir_fd, unwound>>
  BY DEF Advance, Inside, Listing, Ending, IInv, TypeOK
<1>2. ~(t = Main /\ unwound) /\ pc[Main] # "run" /\ pc'[Main] # "run"
  BY <1>1, ProcessorAssumption DEF Advance, Inside, Listing, Ending, IInv, ControlInv, PcInv
<1>3. PcInv'
  <2>1. /\ pc'[Main] \notin {"idle", "done"} /\ (unwound' => pc'[Main] \in Ending)
        /\ \A u \in Thread \ {Main} : pc'[u] \notin {"run", "spawn"} \cup Ending
    BY <1>1, <1>2, ProcessorAssumption DEF IInv, ControlInv, PcInv
  <2>2. ASSUME NEW u \in Thread
        PROVE  /\ pc'[u] \in Listing => dir_fd'[u] # None
               /\ pc'[u] = "execute" => next_file'[u] # None
               /\ pc'[u] \notin Listing /\ ~(u = Main /\ unwound') => dir_fd'[u] = None
               /\ pc'[u] \notin Opening /\ ~(u = Main /\ unwound') => local_dir_queue'[u] = <<>>
    <3>1. CASE u = t
      BY <1>1, <1>2, <3>1 DEF Advance, IInv, ControlInv, PcInv
    <3>2. CASE u # t
      BY SMT, <1>1, <3>2 DEF Advance, IInv, ControlInv, PcInv
    <3> QED
      BY <3>1, <3>2
  <2> QED
    BY <1>2, <2>1, <2>2 DEF PcInv
<1>4. MutexInv' /\ FrontOfNonEmpty'
  BY SMT, <1>1 DEF Advance, IInv, ControlInv, MutexInv, FrontOfNonEmpty
<1>5. StopInv'
  BY SMT, <1>1, <1>2, ProcessorAssumption DEF Advance, Ending, IInv, ControlInv, StopInv
<1>6. AwakeInv'
  BY SMT, <1>1, <1>2, ProcessorAssumption DEF Advance, IInv, ControlInv, AwakeInv
<1> QED
  BY <1>3, <1>4, <1>5, <1>6 DEF ControlInv

\* run(), its exceptions, and the end of grep() keep it.
LEMMA RunMainControl ==
  ASSUME IInv, RunMain
  PROVE  ControlInv'
PROOF
<1>1. CASE OpenRoot
  <2>1. /\ pc[Main] = "run" /\ pc'[Main] = "spawn"
        /\ \A u \in Thread \ {Main} : pc'[u] = pc[u]
        /\ running' /\ queue' = <<Root>> /\ pending' = 1
        /\ UNCHANGED <<mutex, dir_fd, local_dir_queue, next_file, unwound>>
    BY <1>1, ProcessorAssumption DEF OpenRoot, Goto, IInv, TypeOK, walk, fate
  <2>2. ~unwound /\ \A u \in Thread \ {Main} : pc[u] = "idle"
    BY <2>1, ProcessorAssumption DEF IInv, ControlInv, PcInv, Ending
  <2>3. pending' > 0
    BY SMT, <2>1
  <2>4. PcInv'
    BY <2>1, <2>2, ProcessorAssumption
       DEF IInv, ControlInv, PcInv, Listing, Opening, Ending
  <2>5. MutexInv' /\ FrontOfNonEmpty'
    BY <2>1, <2>2, ProcessorAssumption DEF IInv, ControlInv, MutexInv, FrontOfNonEmpty
  <2>6. StopInv'
    BY <2>1, <2>2, ProcessorAssumption DEF StopInv, Ending
  <2>7. AwakeInv'
    BY <2>1, <2>2, <2>3, ProcessorAssumption DEF AwakeInv
  <2> QED
    BY <2>4, <2>5, <2>6, <2>7 DEF ControlInv
<1>2. CASE OpenRootFails
  BY <1>2, ThrowControl, ProcessorAssumption DEF OpenRootFails
<1>3. CASE SpawnFails
  BY <1>3, ThrowControl, ProcessorAssumption DEF SpawnFails
<1>4. CASE EnterWorker
  <2>1. /\ pc[Main] = "spawn" /\ pc'[Main] = "construct"
        /\ \A u \in Thread \ {Main} : pc'[u] = pc[u]
        /\ UNCHANGED <<queue, mutex, running, pending, dir_fd, local_dir_queue, next_file, unwound>>
    BY <1>4, ProcessorAssumption DEF EnterWorker, Goto, IInv, TypeOK, walk, fate
  <2>2. ~unwound
    BY <2>1, ProcessorAssumption DEF IInv, ControlInv, PcInv, Ending
  <2>3. PcInv'
    BY <2>1, <2>2, ProcessorAssumption
       DEF IInv, ControlInv, PcInv, Listing, Opening, Ending
  <2>4. MutexInv' /\ FrontOfNonEmpty'
    BY <2>1, <2>2, ProcessorAssumption DEF IInv, ControlInv, MutexInv, FrontOfNonEmpty
  <2>5. StopInv'
    BY <2>1, <2>2, ProcessorAssumption DEF IInv, TypeOK, ControlInv, StopInv, Ending
  <2>6. AwakeInv'
    BY <2>1, <2>2, ProcessorAssumption DEF IInv, TypeOK, ControlInv, AwakeInv
  <2> QED
    BY <2>3, <2>4, <2>5, <2>6 DEF ControlInv
<1>5. CASE Join
  <2>1. /\ pc[Main] = "join" /\ pc'[Main] = "exit"
        /\ \A u \in Thread \ {Main} : pc'[u] = pc[u]
        /\ UNCHANGED <<queue, mutex, running, pending, dir_fd, local_dir_queue, next_file, unwound>>
    BY <1>5, ProcessorAssumption DEF Join, Goto, IInv, TypeOK, walk, fate
  <2>2. ~running
    BY <2>1, ProcessorAssumption DEF IInv, ControlInv, PcInv, Ending, StopInv
  <2>3. PcInv'
    BY <2>1, <2>2, ProcessorAssumption
       DEF IInv, ControlInv, PcInv, Listing, Opening, Ending
  <2>4. MutexInv' /\ FrontOfNonEmpty'
    BY <2>1, <2>2, ProcessorAssumption DEF IInv, ControlInv, MutexInv, FrontOfNonEmpty
  <2>5. StopInv'
    BY <2>1, <2>2, ProcessorAssumption DEF IInv, TypeOK, ControlInv, StopInv, Ending
  <2>6. AwakeInv'
    BY <2>1, <2>2, ProcessorAssumption DEF IInv, TypeOK, ControlInv, AwakeInv
  <2> QED
    BY <2>3, <2>4, <2>5, <2>6 DEF ControlInv
<1>6. ASSUME NEW t \in Thread, SpawnThread(t) PROVE ControlInv'
  <2>1. /\ pc[Main] = "spawn" /\ pc[t] = "idle" /\ pc'[t] = "construct" /\ t # Main
        /\ \A u \in Thread \ {t} : pc'[u] = pc[u]
        /\ UNCHANGED <<queue, mutex, running, pending, dir_fd, local_dir_queue, next_file, unwound>>
    BY <1>6, ProcessorAssumption DEF SpawnThread, Goto, IInv, TypeOK, walk, fate
  <2>2. ~unwound
    BY <2>1, ProcessorAssumption DEF IInv, ControlInv, PcInv, Ending
  <2>3. PcInv'
    BY <2>1, <2>2, ProcessorAssumption
       DEF IInv, ControlInv, PcInv, Listing, Opening, Ending
  <2>4. MutexInv' /\ FrontOfNonEmpty'
    BY <2>1, <2>2, ProcessorAssumption DEF IInv, ControlInv, MutexInv, FrontOfNonEmpty
  <2>5. StopInv'
    BY <2>1, <2>2, ProcessorAssumption DEF IInv, TypeOK, ControlInv, StopInv, Ending
  <2>6. AwakeInv'
    BY <2>1, <2>2, ProcessorAssumption DEF IInv, TypeOK, ControlInv, AwakeInv
  <2> QED
    BY <2>3, <2>4, <2>5, <2>6 DEF ControlInv
<1> QED
  BY <1>1, <1>2, <1>3, <1>4, <1>5, <1>6 DEF RunMain

\* Constructing the pipeline, waiting for a directory and taking it keep it.
LEMMA TakeWorkControl ==
  ASSUME IInv, NEW t \in Thread, Construct(t) \/ TakeWork(t) \/ WakeSpuriously(t)
  PROVE  ControlInv'
PROOF
<1>1. CASE Construct(t)
  <2>1. CASE /\ Goto(t, "construct", "loop")
             /\ UNCHANGED <<queue, mutex, running, pending, walk, fds, output, fate, spurious>>
    <3>1. Advance(t, "loop")
      BY <2>1, ProcessorAssumption
         DEF Advance, Inside, Listing, Opening, Ending, IInv, TypeOK, ControlInv,
             PcInv, walk, fate, Goto
    <3> QED
      BY <3>1, AdvanceControl
  <2> QED
    BY <1>1, <2>1, ThrowControl DEF Construct
<1>2. CASE TestRunning(t)
  <2>1. Advance(t, "lock") \/ Advance(t, "flush")
    BY <1>2, ProcessorAssumption
       DEF Advance, Inside, Listing, Opening, Ending, IInv, TypeOK, ControlInv,
           PcInv, walk, fate, Goto, TestRunning
  <2> QED
    BY <2>1, AdvanceControl
<1>3. CASE Lock(t)
  <2>1. /\ pc[t] = "lock" /\ pc'[t] = "predicate" /\ mutex = None /\ mutex' = t
        /\ \A u \in Thread \ {t} : pc'[u] = pc[u]
        /\ UNCHANGED <<queue, running, pending, dir_fd, local_dir_queue, next_file, unwound>>
    BY <1>3, ProcessorAssumption DEF Lock, Goto, IInv, TypeOK, walk, fate
  <2>2. pc[Main] # "run" /\ ~(t = Main /\ unwound)
    BY <2>1, ProcessorAssumption DEF IInv, ControlInv, PcInv, Ending
  <2>3. PcInv'
    BY <2>1, <2>2, ProcessorAssumption
       DEF IInv, ControlInv, PcInv, Listing, Opening, Ending
  <2>4. MutexInv' /\ FrontOfNonEmpty'
    BY <2>1, <2>2, ProcessorAssumption DEF IInv, ControlInv, MutexInv, FrontOfNonEmpty
  <2>5. StopInv'
    BY <2>1, <2>2, ProcessorAssumption DEF IInv, TypeOK, ControlInv, StopInv, Ending
  <2>6. AwakeInv'
    BY <2>1, <2>2, ProcessorAssumption DEF IInv, TypeOK, ControlInv, AwakeInv
  <2> QED
    BY <2>3, <2>4, <2>5, <2>6 DEF ControlInv
<1>4. CASE TestPredicate(t)
  <2>1. Advance(t, "take") \/ Advance(t, "sleep")
    BY <1>4, ProcessorAssumption
       DEF Advance, Inside, Listing, Opening, Ending, IInv, TypeOK, ControlInv,
           PcInv, walk, fate, MutexInv, Goto, TestPredicate
  <2> QED
    BY <2>1, AdvanceControl
<1>5. CASE Sleep(t)
  <2>1. /\ pc[t] = "sleep" /\ pc'[t] = "wait" /\ mutex' = None /\ mutex = t
        /\ \A u \in Thread \ {t} : pc'[u] = pc[u]
        /\ UNCHANGED <<queue, running, pending, dir_fd, local_dir_queue, next_file, unwound>>
    BY <1>5, ProcessorAssumption DEF Sleep, Goto, IInv, TypeOK, ControlInv, MutexInv, walk, fate
  <2>2. pc[Main] # "run" /\ ~(t = Main /\ unwound)
    BY <2>1, ProcessorAssumption DEF IInv, ControlInv, PcInv, Ending
  <2>3. PcInv'
    BY <2>1, <2>2, ProcessorAssumption
       DEF IInv, ControlInv, PcInv, Listing, Opening, Ending
  <2>4. MutexInv' /\ FrontOfNonEmpty'
    BY <2>1, <2>2, ProcessorAssumption DEF IInv, ControlInv, MutexInv, FrontOfNonEmpty
  <2>5. StopInv'
    BY <2>1, <2>2, ProcessorAssumption DEF IInv, TypeOK, ControlInv, StopInv, Ending
  <2>6. AwakeInv'
    BY <2>1, <2>2, ProcessorAssumption DEF IInv, TypeOK, ControlInv, AwakeInv
  <2> QED
    BY <2>3, <2>4, <2>5, <2>6 DEF ControlInv
<1>6. CASE WakeSpuriously(t)
  <2>1. Advance(t, "lock")
    BY <1>6, ProcessorAssumption
       DEF Advance, Inside, Listing, Opening, Ending, IInv, TypeOK, ControlInv,
           PcInv, walk, fate, Goto, WakeSpuriously
  <2> QED
    BY <2>1, AdvanceControl
<1>7. CASE Take(t)
  <2>1. CASE running
    <3>1. /\ pc[t] = "take" /\ pc' = [pc EXCEPT ![t] = "getdents"] /\ mutex' = None
          /\ dir_fd' = [dir_fd EXCEPT ![t] = Head(queue)] /\ queue' = Tail(queue)
          /\ UNCHANGED <<running, pending, local_dir_queue, next_file, unwound>>
      BY <1>7, <2>1 DEF Goto, Take, fate
    <3>2. Head(queue) \in Dir
      BY SMT, <2>1, <3>1 DEF IInv, ControlInv, TypeOK, FrontOfNonEmpty
    <3>3. /\ pc[Main] # "run" /\ pc'[t] = "getdents" /\ dir_fd'[t] # None
          /\ \A u \in Thread \ {t} : pc'[u] = pc[u] /\ dir_fd'[u] = dir_fd[u]
          /\ ~(t = Main /\ unwound)
      BY <2>1, <3>1, <3>2, ProcessorAssumption DEF IInv, TypeOK, ControlInv, PcInv, Ending
    <3>4. PcInv'
      BY SMT, <3>1, <3>3, ProcessorAssumption
         DEF IInv, ControlInv, PcInv, Listing, Opening, Ending
    <3>5. MutexInv' /\ FrontOfNonEmpty'
      BY <3>1, <3>3 DEF IInv, ControlInv, MutexInv, FrontOfNonEmpty
    <3>6. StopInv' /\ AwakeInv'
      BY <2>1, <3>1, <3>3, ProcessorAssumption
         DEF IInv, TypeOK, ControlInv, StopInv, AwakeInv, Ending
    <3> QED
      BY <3>4, <3>5, <3>6 DEF ControlInv
  <2>2. CASE ~running
    <3>1. /\ pc[t] = "take" /\ pc' = [pc EXCEPT ![t] = "flush"] /\ mutex' = None
          /\ UNCHANGED <<queue, running, pending, dir_fd, local_dir_queue, next_file, unwound>>
      BY <1>7, <2>2 DEF Goto, Take, fate
    <3>2. /\ pc[Main] # "run" /\ pc'[t] = "flush" /\ ~(t = Main /\ unwound)
          /\ \A u \in Thread \ {t} : pc'[u] = pc[u]
      BY <3>1, ProcessorAssumption DEF IInv, TypeOK, ControlInv, PcInv, Ending
    <3>3. PcInv'
      BY <3>1, <3>2, ProcessorAssumption
         DEF IInv, ControlInv, PcInv, Listing, Opening, Ending
    <3>4. MutexInv' /\ FrontOfNonEmpty'
      BY <2>2, <3>1, <3>2 DEF IInv, ControlInv, MutexInv, FrontOfNonEmpty
    <3>5. StopInv' /\ AwakeInv'
      BY <2>2, <3>1, <3>2, ProcessorAssumption
         DEF IInv, TypeOK, ControlInv, StopInv, AwakeInv, Ending
    <3> QED
      BY <3>3, <3>4, <3>5 DEF ControlInv
  <2> QED
    BY <2>1, <2>2
<1> QED
  BY <1>1, <1>2, <1>3, <1>4, <1>5, <1>6, <1>7 DEF TakeWork

\* Reading the entries of a directory, searching its files and closing it keep it.
LEMMA ListControl ==
  ASSUME IInv, NEW t \in Thread,
         \/ GetDents(t) \/ GetDentsEnds(t)
         \/ \E e \in Entry : \/ SkipEntry(t, e) \/ OpenAtFails(t, e)
                             \/ OpenDir(t, e) \/ OpenFile(t, e)
         \/ Execute(t) \/ ExecuteThrows(t) \/ EndBatch(t) \/ CloseDir(t)
  PROVE  ControlInv'
PROOF
<1>1. CASE GetDents(t)
  <2>1. Advance(t, "entry")
    BY <1>1, ProcessorAssumption
       DEF Advance, Inside, Listing, Opening, Ending, IInv, TypeOK, ControlInv,
           PcInv, walk, fate, Goto, GetDents
  <2> QED
    BY <2>1, AdvanceControl
<1>2. CASE GetDentsEnds(t)
  <2>1. Advance(t, "close")
    BY <1>2, ProcessorAssumption
       DEF Advance, Inside, Listing, Opening, Ending, IInv, TypeOK, ControlInv,
           PcInv, walk, fate, Goto, GetDentsEnds
  <2> QED
    BY <2>1, AdvanceControl
<1>3. ASSUME NEW e \in Entry, SkipEntry(t, e) PROVE ControlInv'
  <2>1. Advance(t, "entry")
    BY <1>3, ProcessorAssumption
       DEF Advance, Inside, Listing, Opening, Ending, IInv, TypeOK, ControlInv,
           PcInv, walk, fate, NextEntry, SkipEntry
  <2> QED
    BY <2>1, AdvanceControl
<1>4. ASSUME NEW e \in Entry, OpenAtFails(t, e) PROVE ControlInv'
  <2>1. Advance(t, "entry")
    BY <1>4, ProcessorAssumption
       DEF Advance, Inside, Listing, Opening, Ending, IInv, TypeOK, ControlInv,
           PcInv, walk, fate, NextEntry, OpenAtFails
  <2> QED
    BY <2>1, AdvanceControl
<1>5. ASSUME NEW e \in Entry, OpenDir(t, e) PROVE ControlInv'
  <2>1. Advance(t, "entry")
    BY <1>5, ProcessorAssumption
       DEF Advance, Inside, Listing, Opening, Ending, IInv, TypeOK, ControlInv,
           PcInv, walk, fate, NextEntry, OpenDir
  <2> QED
    BY <2>1, AdvanceControl
<1>6. ASSUME NEW e \in Entry, OpenFile(t, e) PROVE ControlInv'
  <2>1. Advance(t, "execute")
    BY <1>6, ProcessorAssumption
       DEF Advance, Inside, Listing, Opening, Ending, IInv, TypeOK, ControlInv,
           PcInv, walk, fate, NextEntry, OpenFile
  <2> QED
    BY <2>1, AdvanceControl
<1>7. CASE Execute(t)
  <2>1. /\ pc[t] = "execute" /\ pc' = [pc EXCEPT ![t] = "entry"]
        /\ next_file' = [next_file EXCEPT ![t] = None]
        /\ UNCHANGED <<queue, mutex, running, pending, dir_fd, local_dir_queue, unwound>>
    BY <1>7 DEF Execute, Goto, fate
  <2>2. Advance(t, "entry")
    BY <2>1 DEF Advance, Inside, Listing, Opening, IInv, TypeOK
  <2> QED
    BY <2>2, AdvanceControl
<1>8. CASE ExecuteThrows(t)
  BY <1>8, ThrowControl DEF ExecuteThrows
<1>9. CASE EndBatch(t)
  <2>1. Advance(t, "add")
    BY <1>9, ProcessorAssumption
       DEF Advance, Inside, Listing, Opening, Ending, IInv, TypeOK, ControlInv,
           PcInv, walk, fate, Goto, EndBatch
  <2> QED
    BY <2>1, AdvanceControl
<1>10. CASE CloseDir(t)
  <2>1. Advance(t, "subtract")
    BY <1>10, ProcessorAssumption
       DEF Advance, Inside, Listing, Opening, Ending, IInv, TypeOK, ControlInv,
           PcInv, walk, fate, Goto, CloseDir
  <2> QED
    BY <2>1, AdvanceControl
<1> QED
  BY <1>1, <1>2, <1>3, <1>4, <1>5, <1>6, <1>7, <1>8, <1>9, <1>10

\* Counting and queueing what was found, and counting a directory as done, keep it.
LEMMA QueueControl ==
  ASSUME IInv, HoldersCounted, NEW t \in Thread,
         \/ AddPending(t) \/ AppendQueue(t) \/ NotifyOne(t) \/ SubtractPending(t)
  PROVE  ControlInv'
PROOF
<1>1. CASE AddPending(t)
  <2>1. /\ pc[t] = "add" /\ pc'[t] = "append"
        /\ pending' \in Nat /\ pending' >= pending
        /\ \A u \in Thread \ {t} : pc'[u] = pc[u]
        /\ UNCHANGED <<queue, mutex, running, dir_fd, local_dir_queue, next_file, unwound>>
    BY SMT, <1>1, ProcessorAssumption DEF AddPending, Goto, IInv, TypeOK, walk, fate
  <2>2. pc[Main] # "run" /\ ~(t = Main /\ unwound)
    BY <2>1, ProcessorAssumption DEF IInv, ControlInv, PcInv, Ending
  <2>3. pending \in Nat /\ pending > 0
    BY <2>1 DEF IInv, TypeOK, ControlInv, PcInv, Listing, HoldersCounted
  <2>4. (running \/ unwound) /\ \A u \in Thread : pc[u] # "stop"
    BY SMT, <2>2, <2>3 DEF IInv, ControlInv, StopInv
  <2>5. pending' > 0
    BY SMT, <2>1, <2>3
  <2>6. PcInv'
    BY <2>1, <2>2, ProcessorAssumption
       DEF IInv, ControlInv, PcInv, Listing, Opening, Ending
  <2>7. MutexInv' /\ FrontOfNonEmpty'
    BY <2>1, <2>2, ProcessorAssumption DEF IInv, ControlInv, MutexInv, FrontOfNonEmpty
  <2>8. StopInv'
    BY <2>1, <2>2, <2>4, <2>5, ProcessorAssumption DEF IInv, ControlInv, StopInv, Ending
  <2>9. AwakeInv'
    BY <2>1, <2>2, <2>4, <2>5, ProcessorAssumption DEF IInv, ControlInv, AwakeInv
  <2> QED
    BY <2>6, <2>7, <2>8, <2>9 DEF ControlInv
<1>2. CASE AppendQueue(t)
  <2>1. /\ pc[t] = "append" /\ pc'[t] = "notify" /\ mutex = None
        /\ local_dir_queue' = [local_dir_queue EXCEPT ![t] = <<>>]
        /\ local_dir_queue'[t] = <<>>
        /\ \A u \in Thread \ {t} : pc'[u] = pc[u]
        /\ \A u \in Thread \ {t} : local_dir_queue'[u] = local_dir_queue[u]
        /\ UNCHANGED <<mutex, running, pending, dir_fd, next_file, unwound>>
    BY <1>2, ProcessorAssumption DEF AppendQueue, Goto, IInv, TypeOK, walk, fate
  <2>2. pc[Main] # "run" /\ ~(t = Main /\ unwound)
    BY <2>1, ProcessorAssumption DEF IInv, ControlInv, PcInv, Ending
  <2>3. PcInv'
    BY <2>1, <2>2, ProcessorAssumption
       DEF IInv, ControlInv, PcInv, Listing, Opening, Ending
  <2>4. MutexInv' /\ FrontOfNonEmpty'
    BY <2>1, <2>2, ProcessorAssumption DEF IInv, ControlInv, MutexInv, FrontOfNonEmpty
  <2>5. StopInv'
    BY <2>1, <2>2, ProcessorAssumption DEF IInv, TypeOK, ControlInv, StopInv, Ending
  <2>6. AwakeInv'
    BY <2>1, <2>2, ProcessorAssumption DEF IInv, TypeOK, ControlInv, AwakeInv
  <2> QED
    BY <2>3, <2>4, <2>5, <2>6 DEF ControlInv
<1>3. CASE NotifyOne(t)
  <2>1. /\ pc[t] = "notify"
        /\ UNCHANGED <<queue, mutex, running, pending, dir_fd, local_dir_queue, next_file, unwound>>
    BY <1>3 DEF NotifyOne, walk, fate
  <2>2. /\ pc'[t] = "getdents"
        /\ \A u \in Thread \ {t} : pc'[u] = pc[u] \/ (pc[u] = "wait" /\ pc'[u] = "lock")
    BY <1>3, <2>1 DEF NotifyOne, Waiters, IInv, TypeOK
  <2>3. ~(t = Main /\ unwound) /\ pc[Main] # "run"
    BY <2>1, ProcessorAssumption DEF IInv, ControlInv, PcInv, Ending
  <2>4. PcInv'
    BY <2>1, <2>2, <2>3, ProcessorAssumption
       DEF IInv, ControlInv, PcInv, Listing, Opening, Ending
  <2>5. MutexInv' /\ FrontOfNonEmpty'
    BY <2>1, <2>2 DEF IInv, ControlInv, MutexInv, FrontOfNonEmpty
  <2>6. StopInv' /\ AwakeInv'
    BY <2>1, <2>2, <2>3, ProcessorAssumption
       DEF IInv, TypeOK, ControlInv, StopInv, AwakeInv, Ending
  <2> QED
    BY <2>4, <2>5, <2>6 DEF ControlInv
<1>4. CASE SubtractPending(t)
  <2>1. /\ pc[t] = "subtract"
        /\ \/ pc'[t] = "stop" /\ pending = 1
           \/ pc'[t] = "loop" /\ pending # 1
        /\ pending' = pending - 1 /\ dir_fd'[t] = None
        /\ \A u \in Thread \ {t} : pc'[u] = pc[u] /\ dir_fd'[u] = dir_fd[u]
        /\ UNCHANGED <<queue, mutex, running, local_dir_queue, next_file, unwound>>
    BY <1>4, ProcessorAssumption DEF SubtractPending, Goto, IInv, TypeOK, walk, fate
  <2>2. pc[Main] # "run" /\ ~(t = Main /\ unwound)
    BY <2>1, ProcessorAssumption DEF IInv, ControlInv, PcInv, Ending
  <2>3. pending \in Nat /\ pending > 0
    BY <2>1 DEF IInv, TypeOK, ControlInv, PcInv, Listing, HoldersCounted
  <2>4. (running \/ unwound) /\ \A u \in Thread : pc[u] # "stop"
    BY SMT, <2>2, <2>3 DEF IInv, ControlInv, StopInv
  <2>5. \/ pc'[t] = "stop" /\ pending' = 0
        \/ pc'[t] = "loop" /\ pending' > 0
    BY SMT, <2>1, <2>3
  <2>6. PcInv'
    BY <2>1, <2>2, ProcessorAssumption
       DEF IInv, ControlInv, PcInv, Listing, Opening, Ending
  <2>7. MutexInv' /\ FrontOfNonEmpty'
    BY <2>1, <2>2, ProcessorAssumption DEF IInv, ControlInv, MutexInv, FrontOfNonEmpty
  <2>8. StopInv'
    BY <2>1, <2>2, <2>4, <2>5, ProcessorAssumption DEF IInv, ControlInv, StopInv, Ending
  <2>9. AwakeInv'
    BY <2>1, <2>2, <2>4, <2>5, ProcessorAssumption DEF IInv, ControlInv, AwakeInv
  <2> QED
    BY <2>6, <2>7, <2>8, <2>9 DEF ControlInv
<1> QED
  BY <1>1, <1>2, <1>3, <1>4

\* Stopping the walk, waking everybody and flushing keep it.
LEMMA StopControl ==
  ASSUME IInv, NEW t \in Thread, StopRunning(t) \/ NotifyAll(t) \/ Flush(t)
  PROVE  ControlInv'
PROOF
<1>1. CASE StopRunning(t)
  <2>1. /\ \/ pc[t] = "stop" /\ pc'[t] = "notify_all"
           \/ pc[t] = "dtor" /\ pc'[t] = "dtor_notify_all"
        /\ ~running'
        /\ \A u \in Thread \ {t} : pc'[u] = pc[u]
        /\ UNCHANGED <<queue, mutex, pending, dir_fd, local_dir_queue, next_file, unwound>>
    BY <1>1, ProcessorAssumption DEF StopRunning, Goto, IInv, TypeOK, walk, fate
  <2>2. /\ pc[Main] # "run" /\ (unwound => t # Main \/ pc[t] \in Ending)
        /\ pc[t] \in Ending => t = Main
    BY <2>1, ProcessorAssumption DEF IInv, ControlInv, PcInv, Ending
  <2>3. PcInv'
    BY <2>1, <2>2, ProcessorAssumption
       DEF IInv, ControlInv, PcInv, Listing, Opening, Ending
  <2>4. MutexInv' /\ FrontOfNonEmpty'
    BY <2>1, <2>2, ProcessorAssumption DEF IInv, ControlInv, MutexInv, FrontOfNonEmpty
  <2>5. StopInv'
    BY <2>1, <2>2, ProcessorAssumption DEF IInv, TypeOK, ControlInv, StopInv, Ending
  <2>6. AwakeInv'
    BY <2>1, <2>2, ProcessorAssumption DEF IInv, TypeOK, ControlInv, AwakeInv
  <2> QED
    BY <2>3, <2>4, <2>5, <2>6 DEF ControlInv
<1>2. CASE NotifyAll(t)
  <2>1. /\ \/ pc[t] = "notify_all" /\ pc'[t] = "loop"
           \/ pc[t] = "dtor_notify_all" /\ pc'[t] = "join"
        /\ \A u \in Thread \ {t} : pc'[u] = pc[u] \/ (pc[u] = "wait" /\ pc'[u] = "lock")
        /\ UNCHANGED <<queue, mutex, running, pending, dir_fd, local_dir_queue, next_file, unwound>>
    BY <1>2, ProcessorAssumption DEF NotifyAll, IInv, TypeOK, walk, fate
  <2>2. /\ pc[Main] # "run" /\ (unwound => t # Main \/ pc[t] \in Ending)
        /\ pc[t] \in Ending => t = Main
        /\ ~running
    BY <2>1, ProcessorAssumption DEF IInv, ControlInv, PcInv, Ending, StopInv
  <2>3. PcInv'
    BY <2>1, <2>2, ProcessorAssumption
       DEF IInv, ControlInv, PcInv, Listing, Opening, Ending
  <2>4. MutexInv' /\ FrontOfNonEmpty'
    BY <2>1, <2>2, ProcessorAssumption DEF IInv, ControlInv, MutexInv, FrontOfNonEmpty
  <2>5. StopInv'
    BY <2>1, <2>2, ProcessorAssumption DEF IInv, TypeOK, ControlInv, StopInv, Ending
  <2>6. AwakeInv'
    BY <2>1, <2>2, ProcessorAssumption DEF IInv, TypeOK, ControlInv, AwakeInv
  <2> QED
    BY <2>3, <2>4, <2>5, <2>6 DEF ControlInv
<1>3. CASE Flush(t)
  <2>1. /\ pc[t] = "flush" /\ pc'[t] = (IF t = Main THEN "dtor" ELSE "done")
        /\ \A u \in Thread \ {t} : pc'[u] = pc[u]
        /\ UNCHANGED <<queue, mutex, running, pending, dir_fd, local_dir_queue, next_file, unwound>>
    BY <1>3, ProcessorAssumption DEF Flush, Goto, IInv, TypeOK, walk, fate
  <2>2. pc[Main] # "run" /\ ~(t = Main /\ unwound) /\ ~running
    BY <2>1, ProcessorAssumption DEF IInv, ControlInv, PcInv, Ending, StopInv
  <2>3. PcInv'
    BY <2>1, <2>2, ProcessorAssumption
       DEF IInv, ControlInv, PcInv, Listing, Opening, Ending
  <2>4. MutexInv' /\ FrontOfNonEmpty'
    BY <2>1, <2>2, ProcessorAssumption DEF IInv, ControlInv, MutexInv, FrontOfNonEmpty
  <2>5. StopInv'
    BY <2>1, <2>2, ProcessorAssumption DEF IInv, TypeOK, ControlInv, StopInv, Ending
  <2>6. AwakeInv'
    BY <2>1, <2>2, ProcessorAssumption DEF IInv, TypeOK, ControlInv, AwakeInv
  <2> QED
    BY <2>3, <2>4, <2>5, <2>6 DEF ControlInv
<1> QED
  BY <1>1, <1>2, <1>3

\* Every step keeps the control invariant.
LEMMA ControlStep ==
  ASSUME IInv, HoldersCounted, [Next]_vars
  PROVE  ControlInv'
PROOF
<1>1. CASE UNCHANGED vars
  BY <1>1
     DEF IInv, ControlInv, PcInv, MutexInv, StopInv, FrontOfNonEmpty, AwakeInv, vars,
         walk, fate
<1>2. ASSUME NEW t \in Thread, Worker(t) PROVE ControlInv'
  <2>1. CASE ListDir(t)
    BY <2>1, ListControl, QueueControl DEF ListDir
  <2> QED
    BY <1>2, <2>1, TakeWorkControl, StopControl DEF Worker
<1>3. ASSUME NEW t \in Thread, WakeSpuriously(t) PROVE ControlInv'
  BY <1>3, TakeWorkControl
<1>4. RunMain => ControlInv'
  BY RunMainControl
<1>5. Next => RunMain \/ \E t \in Thread : Worker(t) \/ WakeSpuriously(t)
  BY DEF Next, Step
<1> QED
  BY <1>1, <1>2, <1>3, <1>4, <1>5

-----------------------------------------------------------------------------
(* The types, the steps that move something, and the matches.              *)

\* An exception keeps the types.
LEMMA ThrowTypes ==
  ASSUME TypeOK, NEW t \in Thread, Throw(t), running' \in BOOLEAN, written' \subseteq File
  PROVE  TypeOK'
PROOF
<1>1. CASE t = Main
  BY <1>1 DEF TypeOK, ThreadState, Entry, walk, output, fate, Throw
<1>2. CASE t # Main
  BY <1>2 DEF TypeOK, ThreadState, Entry, walk, output, fate, Throw
<1> QED
  BY <1>1, <1>2

\* Every step keeps the types.
LEMMA TypeStep ==
  ASSUME IInv, HoldersCounted, [Next]_vars
  PROVE  TypeOK'
PROOF
<1>1. ASSUME OpenRoot
      PROVE  TypeOK'
  BY SMT, <1>1, ProcessorAssumption
     DEF IInv, TypeOK, ThreadState, Entry, walk, output, fate, Goto, OpenRoot
<1>2. ASSUME OpenRootFails
      PROVE  TypeOK'
  <2>1. running' \in BOOLEAN /\ written' \subseteq File /\ Throw(Main)
    BY <1>2 DEF IInv, TypeOK, OpenRootFails
  <2> QED
    BY <2>1, ThrowTypes, ProcessorAssumption DEF IInv
<1>3. ASSUME SpawnFails
      PROVE  TypeOK'
  BY <1>3, ThrowTypes, ProcessorAssumption DEF IInv, TypeOK, SpawnFails
<1>4. ASSUME EnterWorker
      PROVE  TypeOK'
  BY <1>4, ProcessorAssumption
     DEF IInv, TypeOK, ThreadState, Entry, walk, output, fate, Goto, EnterWorker
<1>5. ASSUME Join
      PROVE  TypeOK'
  BY <1>5, ProcessorAssumption
     DEF IInv, TypeOK, ThreadState, Entry, walk, output, fate, Goto, Join
<1>6. ASSUME NEW t \in Thread, SpawnThread(t)
      PROVE  TypeOK'
  BY <1>6, ProcessorAssumption
     DEF IInv, TypeOK, ThreadState, Entry, walk, output, fate, Goto, SpawnThread
<1>7. ASSUME NEW t \in Thread, Construct(t)
      PROVE  TypeOK'
  <2>1. CASE Goto(t, "construct", "loop") /\ UNCHANGED <<queue, mutex, running, pending, walk, fds, output, fate, spurious>>
    BY <2>1 DEF IInv, TypeOK, ThreadState, Entry, walk, output, fate, Goto
  <2> QED
    BY <1>7, <2>1, ThrowTypes DEF IInv, TypeOK, Construct
<1>8. ASSUME NEW t \in Thread, TestRunning(t)
      PROVE  TypeOK'
  BY <1>8, ProcessorAssumption
     DEF IInv, TypeOK, ThreadState, Entry, walk, output, fate, Goto, TestRunning
<1>9. ASSUME NEW t \in Thread, Lock(t)
      PROVE  TypeOK'
  BY <1>9, ProcessorAssumption
     DEF IInv, TypeOK, ThreadState, Entry, walk, output, fate, Goto, Lock
<1>10. ASSUME NEW t \in Thread, TestPredicate(t)
      PROVE  TypeOK'
  BY <1>10, ProcessorAssumption
     DEF IInv, TypeOK, ThreadState, Entry, walk, output, fate, Goto, TestPredicate
<1>11. ASSUME NEW t \in Thread, Sleep(t)
      PROVE  TypeOK'
  BY <1>11, ProcessorAssumption
     DEF IInv, TypeOK, ThreadState, Entry, walk, output, fate, Goto, Sleep
<1>12. ASSUME NEW t \in Thread, WakeSpuriously(t)
      PROVE  TypeOK'
  BY SMT, <1>12, ProcessorAssumption
     DEF IInv, TypeOK, ThreadState, Entry, walk, output, fate, Goto, WakeSpuriously
<1>13. ASSUME NEW t \in Thread, Take(t)
      PROVE  TypeOK'
  <2>1. running => Head(queue) \in Dir /\ Tail(queue) \in Seq(Dir)
    BY SMT, <1>13 DEF IInv, ControlInv, TypeOK, FrontOfNonEmpty, Goto, Take
  <2>2. queue' \in Seq(Dir) /\ dir_fd' \in [Thread -> Dir \cup {None}]
    BY <1>13, <2>1 DEF IInv, TypeOK, Take
  <2>3. pc' \in [Thread -> ThreadState]
    BY <1>13 DEF IInv, TypeOK, ThreadState, Goto, Take
  <2> QED
    BY <1>13, <2>2, <2>3 DEF IInv, TypeOK, ThreadState, Entry, walk, output, fate, Take
<1>14. ASSUME NEW t \in Thread, GetDents(t)
      PROVE  TypeOK'
  <2>1. dir_fd[t] \in Dir
    BY <1>14 DEF IInv, TypeOK, ControlInv, PcInv, Listing, Goto, GetDents
  <2>2. PICK b \in SUBSET unread[dir_fd[t]] : /\ batch' = [batch EXCEPT ![t] = b]
                                         /\ unread' = [unread EXCEPT ![dir_fd[t]] = @ \ b]
    BY <1>14 DEF GetDents
  <2>3. batch' \in [Thread -> SUBSET Entry] /\ unread' \in [Dir -> SUBSET Entry]
    BY <2>1, <2>2 DEF IInv, TypeOK
  <2> QED
    BY <1>14, <2>3 DEF IInv, TypeOK, ThreadState, Entry, walk, output, fate, Goto, GetDents
<1>15. ASSUME NEW t \in Thread, GetDentsEnds(t)
      PROVE  TypeOK'
  <2>1. dir_fd[t] \in Dir
    BY <1>15 DEF IInv, TypeOK, ControlInv, PcInv, Listing, Goto, GetDentsEnds
  <2> QED
    BY <1>15, <2>1
       DEF IInv, TypeOK, ThreadState, Entry, walk, output, fate, Goto, GetDentsEnds
<1>16. ASSUME NEW t \in Thread, NEW e \in Entry, SkipEntry(t, e)
      PROVE  TypeOK'
  BY <1>16, ProcessorAssumption
     DEF IInv, TypeOK, ThreadState, Entry, walk, output, fate, NextEntry, SkipEntry
<1>17. ASSUME NEW t \in Thread, NEW e \in Entry, OpenAtFails(t, e)
      PROVE  TypeOK'
  BY <1>17, ProcessorAssumption
     DEF IInv, TypeOK, ThreadState, Entry, walk, output, fate, NextEntry, OpenAtFails
<1>18. ASSUME NEW t \in Thread, NEW e \in Entry, OpenDir(t, e)
      PROVE  TypeOK'
  BY SMT, <1>18, ProcessorAssumption
     DEF IInv, TypeOK, ThreadState, Entry, walk, output, fate, NextEntry, OpenDir
<1>19. ASSUME NEW t \in Thread, NEW e \in Entry, OpenFile(t, e)
      PROVE  TypeOK'
  BY <1>19, ProcessorAssumption
     DEF IInv, TypeOK, ThreadState, Entry, walk, output, fate, NextEntry, OpenFile
<1>20. ASSUME NEW t \in Thread, Execute(t)
      PROVE  TypeOK'
  <2>1. next_file[t] \in File
    BY <1>20 DEF IInv, TypeOK, ControlInv, PcInv, Goto, Execute
  <2> QED
    BY SMT, <1>20, <2>1 DEF IInv, TypeOK, ThreadState, Entry, walk, output, fate, Goto, Execute
<1>21. ASSUME NEW t \in Thread, ExecuteThrows(t)
      PROVE  TypeOK'
  <2>1. written' \subseteq File
    BY <1>21 DEF IInv, TypeOK, ExecuteThrows
  <2> QED
    BY <1>21, <2>1, ThrowTypes DEF IInv, TypeOK, ExecuteThrows
<1>22. ASSUME NEW t \in Thread, EndBatch(t)
      PROVE  TypeOK'
  BY <1>22, ProcessorAssumption
     DEF IInv, TypeOK, ThreadState, Entry, walk, output, fate, Goto, EndBatch
<1>23. ASSUME NEW t \in Thread, AddPending(t)
      PROVE  TypeOK'
  BY SMT, <1>23, ProcessorAssumption
     DEF IInv, TypeOK, ThreadState, Entry, walk, output, fate, Goto, AddPending
<1>24. ASSUME NEW t \in Thread, AppendQueue(t)
      PROVE  TypeOK'
  BY SMT, <1>24, ProcessorAssumption
     DEF IInv, TypeOK, ThreadState, Entry, walk, output, fate, Goto, AppendQueue
<1>25. ASSUME NEW t \in Thread, NotifyOne(t)
      PROVE  TypeOK'
  <2>1. pc' \in [Thread -> ThreadState]
    <3>1. pc \in [Thread -> ThreadState] /\ {"getdents", "lock"} \subseteq ThreadState
      BY DEF IInv, TypeOK, ThreadState
    <3> QED
      BY <1>25, <3>1 DEF Waiters, NotifyOne
  <2> QED
    BY <1>25, <2>1 DEF IInv, TypeOK, ThreadState, Entry, walk, output, fate, NotifyOne
<1>26. ASSUME NEW t \in Thread, CloseDir(t)
      PROVE  TypeOK'
  BY <1>26, ProcessorAssumption
     DEF IInv, TypeOK, ThreadState, Entry, walk, output, fate, Goto, CloseDir
<1>27. ASSUME NEW t \in Thread, SubtractPending(t)
      PROVE  TypeOK'
  <2>1. dir_fd[t] \in Dir /\ pending > 0
    BY <1>27 DEF HoldersCounted, IInv, TypeOK, ControlInv, PcInv, Listing, Goto, SubtractPending
  <2> QED
    BY SMT, <1>27, <2>1
       DEF IInv, TypeOK, ThreadState, Entry, walk, output, fate, Goto, SubtractPending
<1>28. ASSUME NEW t \in Thread, StopRunning(t)
      PROVE  TypeOK'
  BY ZenonT(30), <1>28, ProcessorAssumption
     DEF IInv, TypeOK, ThreadState, Entry, walk, output, fate, Goto, StopRunning
<1>29. ASSUME NEW t \in Thread, NotifyAll(t)
      PROVE  TypeOK'
  BY <1>29, ProcessorAssumption
     DEF IInv, TypeOK, ThreadState, Entry, walk, output, fate, NotifyAll
<1>30. ASSUME NEW t \in Thread, Flush(t)
      PROVE  TypeOK'
  BY <1>30, ProcessorAssumption
     DEF IInv, TypeOK, ThreadState, Entry, walk, output, fate, Goto, Flush
<1>31. CASE UNCHANGED vars
  BY <1>31
     DEF IInv, TypeOK, ThreadState, Entry, walk, output, fate, vars, walk, output, fate
<1> QED
  BY <1>1, <1>2, <1>3, <1>4, <1>5, <1>6, <1>7, <1>8, <1>9, <1>10, <1>11, <1>12, <1>13,
     <1>14, <1>15, <1>16, <1>17, <1>18, <1>19, <1>20, <1>21, <1>22, <1>23, <1>24, <1>25,
     <1>26, <1>27, <1>28, <1>29, <1>30, <1>31
     DEF Next, Step, Worker, TakeWork, ListDir, RunMain

\* The steps that move no directory from one place to another.
Quiet ==
  /\ UNCHANGED <<queue, pending, dir_fd, batch, local_dir_queue, unread, scanned>>
  /\ \A u \in Thread : pc'[u] = "append" <=> pc[u] = "append"
  /\ pc'[Main] = "run" => pc[Main] = "run"

\* The steps that change a single thread's view of one entry.
LookAt(t, e) == SkipEntry(t, e) \/ OpenAtFails(t, e) \/ OpenFile(t, e)

\* Every step is quiet or one of the operations that move directories.
LEMMA DataCases ==
  ASSUME IInv, [Next]_vars
  PROVE  \/ Quiet \/ OpenRoot
         \/ \E t \in Thread :
              \/ (running /\ Take(t)) \/ GetDents(t) \/ AddPending(t) \/ AppendQueue(t)
              \/ SubtractPending(t)
              \/ \E e \in Entry : LookAt(t, e) \/ OpenDir(t, e)
PROOF
<1> USE ProcessorAssumption DEF Quiet, IInv, TypeOK, walk, Goto
<1>1. ASSUME NEW t \in Thread, Throw(t), pc[t] # "append" PROVE Quiet
  BY SMT, <1>1 DEF Throw
<1>2. ASSUME OpenRootFails \/ SpawnFails \/ EnterWorker \/ Join PROVE Quiet
  <2>1. CASE OpenRootFails
    BY <1>1, <2>1 DEF OpenRootFails
  <2>2. CASE SpawnFails
    BY <1>1, <2>2 DEF SpawnFails
  <2>3. CASE EnterWorker
    BY <2>3 DEF EnterWorker
  <2>4. CASE Join
    BY <2>4 DEF Join
  <2> QED
    BY <1>2, <2>1, <2>2, <2>3, <2>4
<1>3. ASSUME NEW t \in Thread, SpawnThread(t) \/ Construct(t) PROVE Quiet
  <2>1. CASE SpawnThread(t)
    BY <2>1 DEF SpawnThread
  <2>2. CASE Construct(t)
    BY <1>1, <2>2 DEF Construct
  <2> QED
    BY <1>3, <2>1, <2>2
<1>4. ASSUME NEW t \in Thread, \/ TestRunning(t) \/ Lock(t) \/ TestPredicate(t)
                               \/ Sleep(t) \/ WakeSpuriously(t)
      PROVE  Quiet
  <2>1. CASE TestRunning(t)
    BY <2>1 DEF TestRunning
  <2>2. CASE Lock(t)
    BY <2>2 DEF Lock
  <2>3. CASE TestPredicate(t)
    BY <2>3 DEF TestPredicate
  <2>4. CASE Sleep(t)
    BY <2>4 DEF Sleep
  <2>5. CASE WakeSpuriously(t)
    BY <2>5 DEF WakeSpuriously
  <2> QED
    BY <1>4, <2>1, <2>2, <2>3, <2>4, <2>5
<1>5. ASSUME NEW t \in Thread, Take(t), ~running PROVE Quiet
  BY <1>5 DEF Take
<1>6. ASSUME NEW t \in Thread, GetDentsEnds(t) \/ Execute(t) \/ ExecuteThrows(t) \/ EndBatch(t)
      PROVE  Quiet
  <2>1. CASE GetDentsEnds(t)
    BY <2>1 DEF GetDentsEnds
  <2>2. CASE Execute(t)
    BY <2>2 DEF Execute
  <2>3. CASE ExecuteThrows(t)
    BY <1>1, <2>3 DEF ExecuteThrows
  <2>4. CASE EndBatch(t)
    BY <2>4 DEF EndBatch
  <2> QED
    BY <1>6, <2>1, <2>2, <2>3, <2>4
<1>7. ASSUME NEW t \in Thread, NotifyOne(t) PROVE Quiet
  <2>1. /\ pc[t] = "notify" /\ pc'[t] = "getdents"
        /\ \A u \in Thread \ {t} : pc'[u] = pc[u] \/ (pc[u] = "wait" /\ pc'[u] = "lock")
    BY <1>7 DEF NotifyOne, Waiters
  <2> QED
    BY <1>7, <2>1 DEF NotifyOne
<1>8. ASSUME NEW t \in Thread, CloseDir(t) \/ StopRunning(t) \/ NotifyAll(t) \/ Flush(t)
      PROVE  Quiet
  <2>1. CASE CloseDir(t)
    BY <2>1 DEF CloseDir
  <2>2. CASE StopRunning(t)
    BY <2>2 DEF StopRunning
  <2>3. CASE NotifyAll(t)
    BY <2>3 DEF NotifyAll
  <2>4. CASE Flush(t)
    BY <2>4 DEF Flush
  <2> QED
    BY <1>8, <2>1, <2>2, <2>3, <2>4
<1>9. ASSUME UNCHANGED vars PROVE Quiet
  BY <1>9 DEF vars
<1> QED
  BY <1>2, <1>3, <1>4, <1>5, <1>6, <1>7, <1>8, <1>9
     DEF Next, Step, Worker, TakeWork, ListDir, RunMain, LookAt

-----------------------------------------------------------------------------

\* Where a thread has no batch.
Silent == {"idle", "done"} \cup Ending

\* The steps that leave the batches and the output alone.
OutputQuiet ==
  /\ UNCHANGED <<buffer, written, lost, searched>>
  /\ (unwound => unwound') /\ (aborted => aborted')
  /\ \A u \in Thread : pc'[u] \in Silent => pc[u] \in Silent
  /\ pc'[Main] = "exit" => \A u \in Thread \ {Main} : pc'[u] \in {"idle", "done"}

\* An exception, perhaps after the batch was written.
Discards(t) ==
  /\ Throw(t) /\ written' \in {written, written \cup buffer[t]}
  /\ pc[t] \notin Silent /\ pc[Main] # "exit"

\* Every step leaves the output alone, or searches, flushes or throws.
LEMMA OutputCases ==
  ASSUME IInv, OutputInv, [Next]_vars
  PROVE  OutputQuiet \/ \E t \in Thread : ~aborted /\ (Execute(t) \/ Flush(t) \/ Discards(t))
PROOF
<1> USE DEF Goto
<1>1. ASSUME NEW t \in Thread, NEW to, UNCHANGED <<buffer, written, lost, searched>>,
             unwound => unwound', aborted => aborted', pc' = [pc EXCEPT ![t] = to],
             pc[t] \notin {"idle", "done", "exit"} \/ pc[Main] = "spawn",
             to \in Silent => pc[t] \in Silent /\ to # "exit"
      PROVE  OutputQuiet
  <2>1. pc'[t] = to /\ \A u \in Thread \ {t} : pc'[u] = pc[u]
    BY <1>1 DEF IInv, TypeOK
  <2>2. t # Main /\ pc[Main] = "exit" => FALSE
    BY <1>1 DEF OutputInv
  <2> QED
    BY <1>1, <2>1, <2>2, ProcessorAssumption DEF OutputQuiet, Silent, Ending
<1>2. ASSUME NEW t \in Thread,
             TakeWork(t) \/ WakeSpuriously(t) \/ StopRunning(t) \/ SpawnThread(t)
      PROVE  OutputQuiet
  <2>1. CASE StopRunning(t)
    BY <1>1, <2>1 DEF StopRunning, output, fate, Silent, Ending
  <2>2. CASE SpawnThread(t)
    BY <1>1, <2>2 DEF SpawnThread, output, fate, Silent, Ending
  <2>3. CASE TakeWork(t) \/ WakeSpuriously(t)
    <3>1. /\ UNCHANGED <<output, fate>>
          /\ pc[t] \in {"loop", "lock", "predicate", "sleep", "wait", "take"}
          /\ \E to \in {"lock", "flush", "predicate", "take", "sleep", "wait", "getdents"} :
               pc' = [pc EXCEPT ![t] = to]
      BY <2>3 DEF TakeWork, TestRunning, Lock, TestPredicate, Sleep, WakeSpuriously, Take
    <3> QED
      BY <1>1, <3>1 DEF output, fate, Silent, Ending
  <2> QED
    BY <1>2, <2>1, <2>2, <2>3
<1>3. ASSUME NEW t \in Thread,
             \/ GetDents(t) \/ GetDentsEnds(t) \/ EndBatch(t) \/ AddPending(t)
             \/ AppendQueue(t) \/ CloseDir(t) \/ SubtractPending(t)
             \/ \E e \in Entry : OpenFile(t, e)
      PROVE  OutputQuiet
  <2>1. /\ UNCHANGED <<output, fate>> /\ pc[t] \in Listing
        /\ \E to \in Listing \cup {"stop", "loop"} : pc' = [pc EXCEPT ![t] = to]
    BY <1>3
       DEF GetDents, GetDentsEnds, EndBatch, AddPending, AppendQueue, CloseDir, SubtractPending,
           OpenFile, NextEntry, Listing
  <2> QED
    BY <1>1, <2>1 DEF output, fate, Silent, Ending, Listing
<1>4. ASSUME UNCHANGED vars \/ \E t \in Thread, e \in Entry :
                                SkipEntry(t, e) \/ OpenAtFails(t, e) \/ OpenDir(t, e)
      PROVE  OutputQuiet
  <2>1. UNCHANGED <<pc, output, fate>>
    BY <1>4 DEF vars, SkipEntry, OpenAtFails, OpenDir, NextEntry
  <2> QED
    BY <2>1 DEF OutputQuiet, OutputInv, output, fate
<1>5. ASSUME NEW t \in Thread, NotifyOne(t) \/ NotifyAll(t) PROVE OutputQuiet
  <2>1. /\ UNCHANGED <<output, fate>>
        /\ pc[t] \in {"notify", "notify_all", "dtor_notify_all"}
        /\ pc'[t] \in {"getdents", "loop"} \/ (pc'[t] = "join" /\ pc[t] = "dtor_notify_all")
        /\ \A u \in Thread \ {t} : pc'[u] = pc[u] \/ (pc[u] = "wait" /\ pc'[u] = "lock")
    BY <1>5 DEF NotifyOne, NotifyAll, Waiters, IInv, TypeOK
  <2>2. pc[Main] # "exit"
    BY <2>1 DEF OutputInv
  <2> QED
    BY <2>1, <2>2, ProcessorAssumption DEF OutputQuiet, output, fate, Silent, Ending
<1>6. ASSUME EnterWorker \/ Join PROVE OutputQuiet
  <2>1. CASE EnterWorker
    BY <1>1, <2>1, ProcessorAssumption DEF EnterWorker, output, fate, Silent, Ending
  <2>2. CASE Join
    <3>1. /\ UNCHANGED <<output, fate>> /\ pc[Main] = "join" /\ pc'[Main] = "exit"
          /\ \A u \in Thread \ {Main} : pc'[u] = pc[u] /\ pc[u] \in {"idle", "done"}
      BY <2>2, ProcessorAssumption DEF Join, IInv, TypeOK
    <3> QED
      BY <3>1 DEF OutputQuiet, output, fate, Silent, Ending
  <2> QED
    BY <1>6, <2>1, <2>2
<1>7. ASSUME OpenRoot PROVE OutputQuiet
  BY <1>1, <1>7, ProcessorAssumption DEF OpenRoot, output, fate, Silent, Ending
<1>8. ASSUME OpenRootFails \/ SpawnFails PROVE Discards(Main)
  BY <1>8 DEF OpenRootFails, SpawnFails, Discards, Silent, Ending
<1>9. ASSUME NEW t \in Thread, Construct(t) \/ ExecuteThrows(t)
      PROVE  OutputQuiet \/ Discards(t)
  <2>1. pc[Main] # "exit" /\ pc[t] \in {"construct", "execute"}
    BY <1>9 DEF OutputInv, Construct, ExecuteThrows
  <2>2. CASE Goto(t, "construct", "loop") /\ UNCHANGED <<output, fate>>
    BY <1>1, <2>2 DEF output, fate, Silent, Ending
  <2>3. CASE Throw(t) /\ written' \in {written, written \cup buffer[t]}
    BY <2>1, <2>3 DEF Discards, Silent, Ending
  <2> QED
    BY <1>9, <2>2, <2>3 DEF Construct, ExecuteThrows
<1> QED
  <2>1. ASSUME NEW t \in Thread, ListDir(t) PROVE OutputQuiet \/ Execute(t) \/ Discards(t)
    BY <1>3, <1>4, <1>5, <1>9, <2>1 DEF ListDir
  <2>2. ASSUME RunMain PROVE OutputQuiet \/ Discards(Main)
    BY <1>2, <1>6, <1>7, <1>8, <2>2 DEF RunMain
  <2> QED
    BY <1>2, <1>4, <1>5, <1>9, <2>1, <2>2, ProcessorAssumption DEF Next, Step, Worker

\* Thread t's batch changes: of it and of the files F it searched, W is written, L is
\* discarded and the rest stays.
Moved(t, F, W, L) ==
  /\ F \cap searched = {} /\ W \cap L = {} /\ W \cup L \subseteq buffer[t] \cup F
  /\ buffer'[t] = (buffer[t] \cup F) \ (W \cup L)
  /\ \A u \in Thread \ {t} : buffer'[u] = buffer[u]
  /\ written' = written \cup W /\ lost' = lost \cup L /\ searched' = searched \cup F

\* Every match is then in one place.
Account ==
  /\ searched = written \cup lost \cup UNION {buffer[u] : u \in Thread}
  /\ written \cap lost = {}
  /\ \A u \in Thread : /\ buffer[u] \cap (written \cup lost) = {}
                       /\ \A v \in Thread \ {u} : buffer[u] \cap buffer[v] = {}

\* No match gets lost on the way, or is in two places.
LEMMA BatchMoved ==
  ASSUME Account, NEW t \in Thread, NEW F, NEW W, NEW L, Moved(t, F, W, L)
  PROVE  Account'
PROOF
<1>1. /\ F \cap searched = {} /\ W \cap L = {} /\ W \cup L \subseteq buffer[t] \cup F
      /\ buffer'[t] = (buffer[t] \cup F) \ (W \cup L)
      /\ \A u \in Thread \ {t} : buffer'[u] = buffer[u]
      /\ written' = written \cup W /\ lost' = lost \cup L /\ searched' = searched \cup F
  BY DEF Moved
<1>2. /\ written \subseteq searched /\ lost \subseteq searched
      /\ \A u \in Thread : buffer[u] \subseteq searched
  BY DEF Account
<1>3. /\ written \cap lost = {}
      /\ \A u \in Thread : /\ buffer[u] \cap (written \cup lost) = {}
                           /\ \A v \in Thread \ {u} : buffer[u] \cap buffer[v] = {}
  BY DEF Account
<1>4. written' \cap lost' = {}
  BY <1>1, <1>2, <1>3
<1>5. \A u \in Thread : buffer'[u] \cap (written' \cup lost') = {}
  <2>1. buffer'[t] \cap (written' \cup lost') = {}
    BY <1>1, <1>2, <1>3
  <2>2. ASSUME NEW u \in Thread \ {t} PROVE buffer'[u] \cap (written' \cup lost') = {}
    BY <1>1, <1>2, <1>3, <2>2
  <2> QED
    BY <2>1, <2>2
<1>6. \A u \in Thread : \A v \in Thread \ {u} : buffer'[u] \cap buffer'[v] = {}
  BY SMT, <1>1, <1>2, <1>3
<1>7. ASSUME NEW x
      PROVE  x \in searched' <=> \/ x \in written' \cup lost'
                                \/ \E u \in Thread : x \in buffer'[u]
  <2>1. x \in searched <=> x \in written \cup lost \/ \E u \in Thread : x \in buffer[u]
    BY DEF Account
  <2>2. (\E u \in Thread : x \in buffer'[u]) <=>
          x \in buffer'[t] \/ \E u \in Thread \ {t} : x \in buffer[u]
    BY <1>1
  <2> QED
    BY <1>1, <2>1, <2>2
<1> QED
  BY SMT, <1>4, <1>5, <1>6, <1>7 DEF Account

\* Every step keeps the account of the matches.
LEMMA OutputStep ==
  ASSUME IInv, FileInv, OutputInv, [Next]_vars
  PROVE  OutputInv'
PROOF
<1>5. ~aborted => Account
  BY DEF OutputInv, Account
<1>1. CASE OutputQuiet
  BY <1>1 DEF OutputQuiet, OutputInv, Silent
<1>2. ASSUME NEW t \in Thread, ~aborted, Execute(t) PROVE OutputInv'
  <2>1. PICK flushed \in {{}, buffer[t], buffer[t] \cup {next_file[t]}} :
          /\ written' = written \cup flushed
          /\ buffer' = [buffer EXCEPT ![t] = (@ \cup {next_file[t]}) \ flushed]
    BY <1>2 DEF Execute
  <2>2. /\ pc[t] = "execute" /\ pc'[t] = "entry" /\ \A u \in Thread \ {t} : pc'[u] = pc[u]
        /\ searched' = searched \cup {next_file[t]} /\ UNCHANGED <<lost, unwound, aborted>>
    BY <1>2 DEF Execute, Goto, fate, IInv, TypeOK
  <2>3. next_file[t] \in File /\ next_file[t] \notin searched
    BY SMT, <2>2 DEF IInv, TypeOK, ControlInv, PcInv, FileInv
  <2>4. Moved(t, {next_file[t]}, flushed, {})
    <3>1. /\ buffer'[t] = (buffer[t] \cup {next_file[t]}) \ flushed
          /\ \A u \in Thread \ {t} : buffer'[u] = buffer[u]
      BY <2>1 DEF IInv, TypeOK
    <3> QED
      BY <2>1, <2>2, <2>3, <3>1 DEF Moved
  <2>5. Account'
    BY <1>2, <1>5, <2>4, BatchMoved
  <2>6. \A u \in Thread : pc'[u] \in Silent => buffer'[u] = {}
    BY <2>2, <2>4 DEF OutputInv, Silent, Ending, Moved
  <2>7. pc'[Main] # "exit"
    BY <2>2, ProcessorAssumption DEF OutputInv
  <2> QED
    BY <2>2, <2>5, <2>6, <2>7 DEF OutputInv, Silent, Account
<1>3. ASSUME NEW t \in Thread, ~aborted, Flush(t) PROVE OutputInv'
  <2>1. /\ pc[t] = "flush" /\ pc'[t] \in {"dtor", "done"} /\ \A u \in Thread \ {t} : pc'[u] = pc[u]
        /\ buffer'[t] = {} /\ \A u \in Thread \ {t} : buffer'[u] = buffer[u]
        /\ UNCHANGED <<searched, unwound, aborted>>
    BY <1>3 DEF Flush, Goto, fate, IInv, TypeOK
  <2>2. PICK W \in {{}, buffer[t]} : /\ written' = written \cup W /\ lost' = lost \cup (buffer[t] \ W)
                                     /\ W = buffer[t] \/ "write" \in Faults
    BY <1>3 DEF Flush
  <2>3. Moved(t, {}, W, buffer[t] \ W)
    BY <2>1, <2>2 DEF Moved
  <2>4. Account'
    BY <1>3, <1>5, <2>3, BatchMoved
  <2>5. \A u \in Thread : pc'[u] \in Silent => buffer'[u] = {}
    BY <2>1, <2>2, <2>3 DEF OutputInv, Silent, Ending, Moved
  <2>6. pc'[Main] # "exit" /\ (lost' # {} => unwound \/ "write" \in Faults)
    BY <2>1, <2>2, ProcessorAssumption DEF OutputInv
  <2> QED
    BY <2>1, <2>4, <2>5, <2>6 DEF OutputInv, Silent, Account
<1>4. ASSUME NEW t \in Thread, ~aborted, Discards(t) PROVE OutputInv'
  <2>1. PICK W \in {{}, buffer[t]} : written' = written \cup W
    BY <1>4 DEF Discards
  <2>2. pc[Main] # "exit" /\ searched' = searched
    BY <1>4 DEF Discards, Throw
  <2>3. CASE t = Main
    <3>1. /\ pc'[Main] = "dtor" /\ \A u \in Thread \ {Main} : pc'[u] = pc[u]
          /\ buffer'[Main] = {} /\ (\A u \in Thread \ {Main} : buffer'[u] = buffer[u]) /\ unwound'
          /\ lost' = lost \cup (buffer[Main] \ written')
      BY SMT, <1>4, <2>3, ProcessorAssumption DEF Discards, Throw, IInv, TypeOK
    <3>2. buffer[Main] \ written' = buffer[Main] \ W
      BY <1>4, <1>5, <2>1, <2>3 DEF Account
    <3>3. Moved(t, {}, W, buffer[t] \ W)
      BY <2>1, <2>2, <2>3, <3>1, <3>2 DEF Moved
    <3>4. Account'
      BY <1>4, <1>5, <3>3, BatchMoved
    <3>5. \A u \in Thread : pc'[u] \in Silent => buffer'[u] = {}
      BY <2>1, <2>3, <3>1, <3>3 DEF OutputInv, Silent, Moved
    <3> QED
      BY <3>1, <3>4, <3>5 DEF OutputInv, Silent, Account
  <2>4. CASE t # Main
    <3>1. UNCHANGED <<pc, buffer, lost, unwound>> /\ aborted'
      BY <1>4, <2>4 DEF Discards, Throw
    <3> QED
      BY <1>4, <2>1, <2>2, <3>1 DEF OutputInv
  <2> QED
    BY <2>3, <2>4
<1> QED
  BY <1>1, <1>2, <1>3, <1>4, OutputCases

-----------------------------------------------------------------------------
(* Where each entry of the tree and each descriptor is, TreeInv, and the    *)
(* steps of the abstract traversal.                                        *)

\* What the queues and the count rest on, for the finite set Dir.
SequenceLaws ==
  \A s \in Seq(Dir) :
    /\ Range(s) \subseteq Dir
    /\ s # <<>> => Head(s) \in Dir /\ Range(s) = Range(Tail(s)) \cup {Head(s)}
    /\ s # <<>> /\ IsInjective(s) => IsInjective(Tail(s)) /\ Head(s) \notin Range(Tail(s))
    /\ IsInjective(s) => Cardinality(Range(s)) = Len(s)
    /\ \A d \in Dir : /\ Range(Append(s, d)) = Range(s) \cup {d}
                      /\ IsInjective(s) /\ d \notin Range(s) => IsInjective(Append(s, d))
    /\ \A r \in Seq(Dir) :
         /\ Range(s \o r) = Range(s) \cup Range(r)
         /\ IsInjective(s) /\ IsInjective(r) /\ Range(s) \cap Range(r) = {} => IsInjective(s \o r)

CountLaws ==
  /\ Cardinality({}) = 0
  /\ \A S \in SUBSET Dir :
       /\ Cardinality(S) \in Nat /\ (Cardinality(S) = 0 => S = {})
       /\ \A d \in S : Cardinality(S \ {d}) = Cardinality(S) - 1
       /\ \A d \in Dir \ S : Cardinality(S \cup {d}) = Cardinality(S) + 1
       /\ \A R \in SUBSET Dir :
            S \cap R = {} => Cardinality(S \cup R) = Cardinality(S) + Cardinality(R)

Laws == SequenceLaws /\ CountLaws

\* The steps that leave the tree, the queues and the descriptors alone.
Calm ==
  /\ UNCHANGED <<queue, walk, fds, searched>>
  /\ \A u \in Thread :
       /\ pc[u] \in {"entry", "execute"} /\ batch[u] # {} =>
            pc'[u] \in {"entry", "execute"} \/ (u = Main /\ unwound')
       /\ pc[u] = "execute" => pc'[u] = "execute" \/ (u = Main /\ unwound')
       /\ pc'[u] = "close" <=> pc[u] = "close"
       /\ pc'[u] = "subtract" <=> pc[u] = "subtract"
  /\ pc'[Main] = "run" => pc[Main] = "run"
  /\ pc[Main] = "run" => pc'[Main] = "run" \/ unwound'
  /\ unwound => unwound'
  /\ running' => running \/ unwound'

\* An exception is calm: what the thread held stays where it is.
LEMMA ThrowCalm ==
  ASSUME TypeOK, NEW t \in Thread, Throw(t), pc[t] \notin {"close", "subtract"},
         running' => running \/ t = Main
  PROVE  Calm
PROOF
<1> USE ProcessorAssumption DEF TypeOK
<1>1. CASE t = Main
  <2>1. /\ pc'[Main] = "dtor" /\ unwound' = TRUE /\ \A u \in Thread \ {Main} : pc'[u] = pc[u]
        /\ UNCHANGED <<queue, walk, fds, searched>>
    BY <1>1 DEF Throw
  <2> QED
    BY <1>1, <2>1 DEF Calm
<1>2. CASE t # Main
  <2>1. UNCHANGED <<pc, unwound, queue, walk, fds, searched>>
    BY <1>2 DEF Throw
  <2> QED
    BY <1>2, <2>1 DEF Calm
<1> QED
  BY <1>1, <1>2

\* The steps of one thread that are calm by their effect on its pc alone.
LEMMA GotoCalm ==
  ASSUME TypeOK, NEW t \in Thread, UNCHANGED <<queue, walk, fds, searched>>,
         NEW to, pc' = [pc EXCEPT ![t] = to],
         pc[t] \in {"entry", "execute"} => batch[t] = {},
         {pc[t], to} \cap {"run", "execute", "close", "subtract"} = {},
         unwound => unwound', running' => running
  PROVE  Calm
PROOF
<1>1. pc'[t] = to /\ \A u \in Thread \ {t} : pc'[u] = pc[u]
  BY DEF TypeOK
<1> QED
  BY <1>1, ProcessorAssumption DEF Calm

\* Every step is calm or one of those that move an entry or a descriptor.
LEMMA WalkCases ==
  ASSUME IInv, [Next]_vars
  PROVE  \/ Calm \/ OpenRoot
         \/ \E t \in Thread :
              \/ (running /\ Take(t)) \/ GetDents(t) \/ GetDentsEnds(t) \/ Execute(t)
              \/ AppendQueue(t) \/ CloseDir(t) \/ SubtractPending(t)
              \/ \E e \in Entry : \/ SkipEntry(t, e) \/ OpenAtFails(t, e)
                                  \/ OpenDir(t, e) \/ OpenFile(t, e)
PROOF
<1>1. TypeOK
  BY DEF IInv
<1>2. ASSUME OpenRootFails \/ SpawnFails \/ EnterWorker \/ Join PROVE Calm
  <2>1. CASE OpenRootFails
    BY <1>1, <2>1, ThrowCalm, ProcessorAssumption DEF OpenRootFails
  <2>2. CASE SpawnFails
    BY <1>1, <2>2, ThrowCalm, ProcessorAssumption DEF SpawnFails
  <2>3. CASE EnterWorker
    BY <1>1, <2>3, GotoCalm, ProcessorAssumption DEF EnterWorker, Goto, output, fate
  <2>4. CASE Join
    BY <1>1, <2>4, GotoCalm, ProcessorAssumption DEF Join, Goto, output, fate
  <2> QED
    BY <1>2, <2>1, <2>2, <2>3, <2>4
<1>3. ASSUME NEW t \in Thread, SpawnThread(t) \/ Construct(t) PROVE Calm
  <2>1. CASE SpawnThread(t)
    BY <1>1, <2>1, GotoCalm DEF SpawnThread, Goto, output, fate
  <2>2. CASE pc[t] = "construct" /\ Throw(t) /\ UNCHANGED running
    BY <1>1, <2>2, ThrowCalm
  <2>3. CASE /\ Goto(t, "construct", "loop")
             /\ UNCHANGED <<queue, running, walk, fds, output, fate>>
    BY <1>1, <2>3, GotoCalm DEF Goto, output, fate
  <2> QED
    BY <1>3, <2>1, <2>2, <2>3 DEF Construct
<1>4. ASSUME NEW t \in Thread, \/ TestRunning(t) \/ Lock(t) \/ TestPredicate(t)
                               \/ Sleep(t) \/ WakeSpuriously(t) \/ (Take(t) /\ ~running)
      PROVE  Calm
  <2>1. /\ UNCHANGED <<queue, walk, fds, searched, unwound, running>>
        /\ pc[t] \in {"loop", "lock", "predicate", "sleep", "wait", "take"}
    BY <1>4
       DEF TestRunning, Lock, TestPredicate, Sleep, WakeSpuriously, Take, Goto, output, fate, walk
  <2>2. \E to \in {"lock", "flush", "predicate", "take", "sleep", "wait"} :
          pc' = [pc EXCEPT ![t] = to]
    BY <1>4 DEF TestRunning, Lock, TestPredicate, Sleep, WakeSpuriously, Take, Goto
  <2> QED
    BY <1>1, <2>1, <2>2, GotoCalm
<1>5. ASSUME NEW t \in Thread, ExecuteThrows(t) \/ EndBatch(t) \/ AddPending(t) PROVE Calm
  <2>1. CASE ExecuteThrows(t)
    BY <1>1, <2>1, ThrowCalm DEF ExecuteThrows
  <2>2. CASE EndBatch(t)
    BY <1>1, <2>2, GotoCalm DEF EndBatch, Goto, output, fate
  <2>3. CASE AddPending(t)
    BY <1>1, <2>3, GotoCalm DEF AddPending, Goto, output, fate
  <2> QED
    BY <1>5, <2>1, <2>2, <2>3
<1>6. ASSUME NEW t \in Thread, NotifyOne(t) \/ NotifyAll(t) PROVE Calm
  <2>1. /\ UNCHANGED <<queue, walk, fds, searched, unwound, running>>
        /\ \A u \in Thread : \/ pc'[u] = pc[u]
                             \/ /\ pc[u] \in {"notify", "notify_all", "dtor_notify_all", "wait"}
                                /\ pc'[u] \in {"getdents", "loop", "join", "lock"}
    BY <1>1, <1>6 DEF NotifyOne, NotifyAll, Waiters, output, fate, TypeOK
  <2> QED
    BY <2>1, ProcessorAssumption DEF Calm
<1>7. ASSUME NEW t \in Thread, StopRunning(t) \/ Flush(t) PROVE Calm
  <2>1. /\ UNCHANGED <<queue, walk, fds, searched, unwound>> /\ (running' => running)
        /\ pc[t] \in {"stop", "dtor", "flush"}
    BY SMT, <1>7 DEF StopRunning, Flush, Goto, output, fate
  <2>2. \E to \in {"notify_all", "dtor_notify_all", "dtor", "done"} : pc' = [pc EXCEPT ![t] = to]
    BY <1>7 DEF StopRunning, Flush, Goto
  <2> QED
    BY <1>1, <2>1, <2>2, GotoCalm
<1>8. ASSUME UNCHANGED vars PROVE Calm
  BY <1>8 DEF Calm, vars, output, fate
<1> QED
  BY <1>2, <1>3, <1>4, <1>5, <1>6, <1>7, <1>8
     DEF Next, Step, Worker, TakeWork, ListDir, RunMain

-----------------------------------------------------------------------------

\* What a thread that lists a directory may rely on.
LEMMA Lister ==
  ASSUME IInv, NEW t \in Thread, pc[t] \in Listing
  PROVE  /\ dir_fd[t] \in Dir /\ dir_fd[t] # None /\ dir_fd[t] \in WalkOpen
         /\ dir_fd[t] \notin scanned
         /\ \A u \in Thread \ {t} : dir_fd[u] # dir_fd[t]
         /\ ~(t = Main /\ unwound) /\ pc[Main] # "run"
PROOF
<1>1. dir_fd[t] \in Dir /\ dir_fd[t] # None
  BY DEF IInv, TypeOK, ControlInv, PcInv
<1>2. dir_fd[t] \in WalkOpen
  BY <1>1 DEF WalkOpen, Listed
<1>3. \A u \in Thread \ {t} : dir_fd[u] # dir_fd[t]
  BY <1>1 DEF IInv, DistinctInv
<1>4. ~(t = Main /\ unwound) /\ pc[Main] # "run"
  BY DEF IInv, ControlInv, PcInv, Listing, Ending
<1> QED
  BY <1>1, <1>2, <1>3, <1>4 DEF IInv, FreshInv

\* What is open, and in use, depends on the queue, the threads and where they are.
LEMMA SameOpen ==
  ASSUME UNCHANGED <<queue, dir_fd, local_dir_queue>>
  PROVE  /\ WalkOpen' = WalkOpen
         /\ UNCHANGED next_file /\ (\A u \in Thread : pc'[u] = "subtract" <=> pc[u] = "subtract")
              => InUse' = InUse
PROOF
<1>1. Range(queue)' = Range(queue) /\ \A u \in Thread : Opened(u)' = Opened(u)
  BY DEF Opened
<1>2. WalkOpen' = WalkOpen
  BY <1>1 DEF WalkOpen, Listed
<1>3. ASSUME UNCHANGED next_file, \A u \in Thread : pc'[u] = "subtract" <=> pc[u] = "subtract"
      PROVE  InUse' = InUse
  <2>1. Reading' = Reading /\ Searching' = Searching /\ Held' = Held
    BY <1>1, <1>3 DEF Reading, Searching, Held
  <2> QED
    BY <1>1, <2>1 DEF InUse
<1> QED
  BY <1>2, <1>3

\* A calm step keeps the places of everything.
LEMMA CalmStep ==
  ASSUME IInv, TreeInv, Calm
  PROVE  TreeInv'
PROOF
<1>1. /\ UNCHANGED <<queue, fds, searched, dir_fd, batch, local_dir_queue, next_file, unread,
                     dropped, scanned>>
      /\ WalkOpen' = WalkOpen /\ WalkHandled' = WalkHandled
  <2>1. UNCHANGED <<queue, fds, searched, dir_fd, batch, local_dir_queue, next_file, unread,
                    dropped, scanned>>
    BY DEF Calm, walk
  <2>2. WalkOpen' = WalkOpen
    BY <2>1, SameOpen
  <2> QED
    BY <2>1, <2>2 DEF WalkHandled
<1>2. BatchInv'
  BY <1>1 DEF Calm, TreeInv, BatchInv
<1>3. FileInv'
  BY <1>1 DEF Calm, TreeInv, FileInv
<1>4. UnreadInv'
  BY SMT, <1>1 DEF Calm, TreeInv, UnreadInv
<1>5. CoverInv'
  BY <1>1 DEF Calm, TreeInv, CoverInv
<1>6. FdsExact'
  <2>1. InUse' = InUse
    BY <1>1, SameOpen DEF Calm
  <2> QED
    BY <1>1, <2>1 DEF TreeInv, FdsExact
<1> QED
  BY <1>2, <1>3, <1>4, <1>5, <1>6 DEF TreeInv

\* getdents64 moves entries of the directory into the buffer.
LEMMA GetDentsTree ==
  ASSUME IInv, TreeInv, NEW t \in Thread, GetDents(t)
  PROVE  TreeInv'
PROOF
<1>1. PICK b \in SUBSET unread[dir_fd[t]] :
        /\ batch' = [batch EXCEPT ![t] = b]
        /\ unread' = [unread EXCEPT ![dir_fd[t]] = @ \ b]
  BY DEF GetDents
<1>2. /\ pc[t] = "getdents" /\ pc'[t] = "entry" /\ \A u \in Thread \ {t} : pc'[u] = pc[u]
      /\ UNCHANGED <<queue, fds, searched, dir_fd, local_dir_queue, next_file, dropped, scanned,
                     unwound>>
  BY DEF GetDents, Goto, output, fate, IInv, TypeOK
<1>3. /\ dir_fd[t] \in Dir /\ dir_fd[t] # None /\ dir_fd[t] \notin scanned
      /\ \A u \in Thread \ {t} : dir_fd[u] # dir_fd[t]
      /\ ~(t = Main /\ unwound) /\ pc[Main] # "run"
  BY <1>2, Lister DEF Listing
<1>4. /\ batch'[t] = b /\ \A u \in Thread \ {t} : batch'[u] = batch[u]
      /\ unread'[dir_fd[t]] = unread[dir_fd[t]] \ b
      /\ \A d \in Dir \ {dir_fd[t]} : unread'[d] = unread[d]
  BY <1>1, <1>3 DEF IInv, TypeOK
<1>5. /\ b \subseteq Children(dir_fd[t]) /\ batch[t] = {} /\ next_file[t] = None
      /\ b \cap (searched \cup dropped) = {}
  <2>1. b \subseteq Children(dir_fd[t])
    BY <1>1, <1>3 DEF IInv, FreshInv
  <2>2. batch[t] = {} /\ next_file[t] = None
    BY <1>2, <1>3 DEF TreeInv, BatchInv, FileInv
  <2>3. \A e \in b : Parent[e] = dir_fd[t]
    BY <2>1 DEF Children
  <2>4. b \cap searched = {}
    BY <1>1, <2>3 DEF TreeInv, UnreadInv
  <2>5. b \cap dropped = {}
    BY SMT, <1>1, <1>2, <1>3, <2>3 DEF TreeInv, UnreadInv
  <2> QED
    BY <2>1, <2>2, <2>4, <2>5
<1>6. WalkOpen' = WalkOpen /\ WalkHandled' = WalkHandled /\ InUse' = InUse
  <2>1. WalkOpen' = WalkOpen /\ InUse' = InUse
    BY <1>2, SameOpen
  <2> QED
    BY <1>2, <2>1 DEF WalkHandled
<1>7. BatchInv'
  BY <1>2, <1>3, <1>4, <1>5 DEF TreeInv, BatchInv
<1>8. FileInv'
  BY SMT, <1>2, <1>3, <1>4, <1>5 DEF TreeInv, FileInv, IInv, TypeOK
<1>9. UnreadInv'
  <2>1. /\ \A d \in Dir : unread'[d] \subseteq unread[d]
        /\ \A e \in searched \cup dropped : Parent[e] \in Dir
    <3>1. searched \subseteq Entry /\ dropped \subseteq Entry
      BY DEF IInv, TypeOK, Entry
    <3> QED
      BY <1>3, <1>4, <3>1, ProcessorAssumption
  <2>2. \A u \in Thread : /\ pc'[u] \in {"close", "subtract"} <=> pc[u] \in {"close", "subtract"}
                          /\ pc[u] \in {"close", "subtract"} => dir_fd[u] \in Dir
    BY <1>2, Lister DEF Listing
  <2>3. \A e \in searched : e \notin unread'[Parent[e]]
    BY <2>1 DEF TreeInv, UnreadInv
  <2>4. \A e \in dropped : e \in unread'[Parent[e]] =>
          \/ Parent[e] \in scanned
          \/ \E u \in Thread : dir_fd[u] = Parent[e] /\ pc'[u] \in {"close", "subtract"}
    BY <2>1, <2>2 DEF TreeInv, UnreadInv
  <2>5. \A u \in Thread : pc'[u] \in {"close", "subtract"} =>
          unread'[dir_fd[u]] \subseteq dropped \cup Other
    BY <2>1, <2>2 DEF TreeInv, UnreadInv
  <2> QED
    BY <1>2, <2>3, <2>4, <2>5 DEF UnreadInv
<1>10. CoverInv'
  <2>1. ASSUME NEW e \in Entry, e \in unread[Parent[e]]
        PROVE  e \in unread'[Parent[e]] \/ e \in batch'[t]
    BY <1>4, <2>1, ProcessorAssumption
  <2>2. ASSUME NEW e \in Entry, NEW u \in Thread, e \in batch[u]
        PROVE  e \in batch'[u]
    BY <1>4, <1>5, <2>2
  <2>3. pc'[Main] # "run"
    BY <1>2, <1>3, ProcessorAssumption
  <2> QED
    BY <1>2, <1>3, <1>6, <2>1, <2>2, <2>3 DEF TreeInv, CoverInv
<1> QED
  BY <1>2, <1>6, <1>7, <1>8, <1>9, <1>10 DEF TreeInv, FdsExact

\* The listing ends: what getdents64 did not return is dropped.
LEMMA GetDentsEndsTree ==
  ASSUME IInv, TreeInv, NEW t \in Thread, GetDentsEnds(t)
  PROVE  TreeInv'
PROOF
<1>1. /\ pc[t] = "getdents" /\ pc'[t] = "close" /\ \A u \in Thread \ {t} : pc'[u] = pc[u]
      /\ dropped' = dropped \cup (unread[dir_fd[t]] \ Other)
      /\ UNCHANGED <<queue, fds, searched, dir_fd, batch, local_dir_queue, next_file, unread,
                     scanned, unwound>>
  BY DEF GetDentsEnds, Goto, output, fate, IInv, TypeOK
<1>2. /\ dir_fd[t] \in Dir /\ \A u \in Thread \ {t} : dir_fd[u] # dir_fd[t]
      /\ ~(t = Main /\ unwound) /\ pc[Main] # "run"
  BY <1>1, Lister DEF Listing
<1>3. /\ batch[t] = {} /\ next_file[t] = None
      /\ \A e \in unread[dir_fd[t]] : Parent[e] = dir_fd[t]
  <2>1. batch[t] = {} /\ next_file[t] = None
    BY <1>1, <1>2 DEF TreeInv, BatchInv, FileInv
  <2> QED
    BY ZenonT(30), <1>2, <2>1 DEF IInv, FreshInv, Children
<1>4. WalkOpen' = WalkOpen /\ WalkHandled \subseteq WalkHandled' /\ InUse' = InUse
  <2>1. WalkOpen' = WalkOpen /\ InUse' = InUse
    BY <1>1, SameOpen
  <2> QED
    BY <1>1, <2>1 DEF WalkHandled
<1>5. BatchInv'
  <2>1. \A u \in Thread : batch[u] \cap unread[dir_fd[t]] = {}
    BY <1>2 DEF IInv, FreshInv
  <2> QED
    BY <1>1, <1>3, <2>1 DEF TreeInv, BatchInv
<1>6. FileInv'
  <2>1. \A u \in Thread : next_file[u] # None => next_file[u] \notin unread[dir_fd[t]]
    <3>1. \A u \in Thread : next_file[u] # None => u # t /\ Parent[next_file[u]] = dir_fd[u]
      BY <1>3 DEF TreeInv, FileInv
    <3> QED
      BY <1>2, <1>3, <3>1
  <2> QED
    BY <1>1, <1>3, <2>1 DEF TreeInv, FileInv
<1>7. UnreadInv'
  <2>1. \A e \in dropped' : e \in unread[Parent[e]] =>
          \/ Parent[e] \in scanned
          \/ \E u \in Thread : dir_fd[u] = Parent[e] /\ pc'[u] \in {"close", "subtract"}
    <3>1. \A e \in dropped' \ dropped : dir_fd[t] = Parent[e]
      BY <1>1, <1>3
    <3>2. \A u \in Thread : pc[u] \in {"close", "subtract"} => pc'[u] \in {"close", "subtract"}
      BY <1>1
    <3> QED
      BY <1>1, <3>1, <3>2 DEF TreeInv, UnreadInv
  <2>2. \A u \in Thread : pc'[u] \in {"close", "subtract"} =>
          unread[dir_fd[u]] \subseteq dropped' \cup Other
    BY <1>1 DEF TreeInv, UnreadInv
  <2> QED
    BY <1>1, <2>1, <2>2 DEF TreeInv, UnreadInv
<1>8. CoverInv'
  BY <1>1, <1>2, <1>4, ProcessorAssumption DEF TreeInv, CoverInv
<1> QED
  BY <1>1, <1>4, <1>5, <1>6, <1>7, <1>8 DEF TreeInv, FdsExact

\* What a thread may rely on when it takes entry e out of its buffer.
LEMMA AtEntry ==
  ASSUME IInv, TreeInv, NEW t \in Thread, NEW e \in Entry, NextEntry(t, e)
  PROVE  /\ pc[t] = "entry" /\ e \in batch[t] /\ Parent[e] = dir_fd[t]
         /\ e \notin searched \cup dropped /\ next_file[t] = None
         /\ \A d \in Dir : e \notin unread[d]
         /\ \A u \in Thread : /\ next_file[u] # None => next_file[u] # e
                              /\ e \notin batch'[u] /\ batch[u] \ {e} = batch'[u]
PROOF
<1>1. pc[t] = "entry" /\ e \in batch[t] /\ batch' = [batch EXCEPT ![t] = @ \ {e}]
  BY DEF NextEntry
<1>2. /\ \A u \in Thread \ {t} : dir_fd[u] # dir_fd[t]
      /\ ~(t = Main /\ unwound)
  BY <1>1, Lister DEF Listing
<1>3. Parent[e] = dir_fd[t] /\ e \notin searched \cup dropped
  BY <1>1 DEF TreeInv, BatchInv, Children
<1>4. next_file[t] = None
  BY <1>1, <1>2 DEF TreeInv, FileInv
<1>5. \A u \in Thread : next_file[u] # None => next_file[u] # e
  BY <1>2, <1>3, <1>4 DEF TreeInv, FileInv
<1>6. (\A u \in Thread \ {t} : e \notin batch[u]) /\ \A d \in Dir : e \notin unread[d]
  BY <1>1 DEF IInv, FreshInv
<1>7. \A u \in Thread : e \notin batch'[u] /\ batch[u] \ {e} = batch'[u]
  BY SMT, <1>1, <1>6 DEF IInv, TypeOK
<1> QED
  BY <1>1, <1>3, <1>4, <1>5, <1>6, <1>7

\* An entry that is skipped, or cannot be opened, is out of the buffer for good.
LEMMA PassedTree ==
  ASSUME IInv, TreeInv, NEW t \in Thread, NEW e \in Entry,
         SkipEntry(t, e) \/ OpenAtFails(t, e)
  PROVE  TreeInv'
PROOF
<1>1. /\ NextEntry(t, e)
      /\ UNCHANGED <<pc, queue, fds, searched, dir_fd, local_dir_queue, next_file, unread,
                     scanned, unwound>>
      /\ dropped' = dropped \/ (dropped' = dropped \cup {e} /\ e \in Dir \cup File)
      /\ e \in Other \cup dropped'
  BY DEF SkipEntry, OpenAtFails, NextEntry, output, fate
<1>2. /\ Parent[e] = dir_fd[t] /\ \A d \in Dir : e \notin unread[d]
      /\ \A u \in Thread : /\ next_file[u] # None => next_file[u] # e
                           /\ e \notin batch'[u] /\ batch[u] \ {e} = batch'[u]
  BY <1>1, AtEntry
<1>3. /\ WalkOpen' = WalkOpen /\ InUse' = InUse
      /\ WalkHandled \cup {e} \subseteq WalkHandled'
  <2>1. WalkOpen' = WalkOpen /\ InUse' = InUse
    BY <1>1, SameOpen
  <2> QED
    BY <1>1, <2>1 DEF WalkHandled
<1>4. BatchInv'
  BY <1>1, <1>2 DEF TreeInv, BatchInv
<1>5. FileInv'
  BY <1>1, <1>2 DEF TreeInv, FileInv
<1>6. UnreadInv'
  <2>1. e \notin unread[Parent[e]]
    <3>1. Parent[e] \in Dir
      BY ProcessorAssumption
    <3> QED
      BY <1>2, <3>1
  <2> QED
    BY SMT, <1>1, <2>1 DEF TreeInv, UnreadInv
<1>7. CoverInv'
  BY SMT, <1>1, <1>2, <1>3 DEF TreeInv, CoverInv
<1> QED
  BY <1>1, <1>3, <1>4, <1>5, <1>6, <1>7 DEF TreeInv, FdsExact

\* A directory that is opened joins those held by the thread.
LEMMA OpenDirTree ==
  ASSUME Laws, IInv, TreeInv, NEW t \in Thread, NEW e \in Entry, OpenDir(t, e)
  PROVE  TreeInv' /\ WalkOpen' = WalkOpen \cup {e}
PROOF
<1>1. /\ NextEntry(t, e) /\ e \in Dir /\ e # None /\ fds' = fds \cup {e}
      /\ local_dir_queue' = [local_dir_queue EXCEPT ![t] = Append(@, e)]
      /\ UNCHANGED <<pc, queue, searched, dir_fd, next_file, unread, dropped, scanned, unwound>>
  BY ProcessorAssumption DEF OpenDir, NextEntry, output, fate
<1>2. \A u \in Thread : e \notin batch'[u] /\ batch[u] \ {e} = batch'[u]
  BY SMT, <1>1, AtEntry
<1>3. Opened(t)' = Opened(t) \cup {e} /\ \A u \in Thread \ {t} : Opened(u)' = Opened(u)
  <2>1. Range(Append(local_dir_queue[t], e)) = Range(local_dir_queue[t]) \cup {e}
    BY <1>1 DEF IInv, TypeOK, Laws, SequenceLaws
  <2> QED
    BY <1>1, <2>1 DEF IInv, TypeOK, Opened
<1>4. WalkOpen' = WalkOpen \cup {e}
  <2>1. Range(queue)' = Range(queue) /\ Listed' = Listed
    BY <1>1 DEF Listed
  <2> QED
    BY <1>3, <2>1 DEF WalkOpen
<1>5. InUse' = InUse \cup {e}
  <2>1. Range(queue)' = Range(queue) /\ Reading' = Reading /\ Searching' = Searching
    BY <1>1 DEF Reading, Searching
  <2>2. Held' = Held \cup {e}
    BY <1>3 DEF Held
  <2> QED
    BY <2>1, <2>2 DEF InUse
<1>6. WalkHandled' = WalkHandled \cup {e}
  BY <1>1, <1>4 DEF WalkHandled
<1>7. BatchInv'
  BY <1>1, <1>2 DEF TreeInv, BatchInv
<1>8. FileInv'
  BY ZenonT(30), <1>1, <1>2 DEF TreeInv, FileInv
<1>9. UnreadInv'
  BY <1>1 DEF TreeInv, UnreadInv
<1>10. CoverInv'
  BY SMT, <1>1, <1>2, <1>4, <1>6 DEF TreeInv, CoverInv
<1> QED
  BY <1>1, <1>4, <1>5, <1>7, <1>8, <1>9, <1>10 DEF TreeInv, FdsExact

\* A file that is opened is the one the thread searches.
LEMMA OpenFileTree ==
  ASSUME IInv, TreeInv, NEW t \in Thread, NEW e \in Entry, OpenFile(t, e)
  PROVE  TreeInv' /\ WalkOpen' = WalkOpen
PROOF
<1>1. /\ NextEntry(t, e) /\ e \in File /\ e # None /\ fds' = fds \cup {e}
      /\ next_file' = [next_file EXCEPT ![t] = e] /\ pc' = [pc EXCEPT ![t] = "execute"]
      /\ UNCHANGED <<queue, searched, dir_fd, local_dir_queue, unread, dropped, scanned, unwound>>
  BY ProcessorAssumption DEF OpenFile, NextEntry, output, fate
<1>10. /\ next_file'[t] = e /\ pc'[t] = "execute"
       /\ \A u \in Thread \ {t} : next_file'[u] = next_file[u] /\ pc'[u] = pc[u]
  BY <1>1 DEF IInv, TypeOK
<1>2. /\ pc[t] = "entry" /\ Parent[e] = dir_fd[t] /\ e \notin searched \cup dropped
      /\ next_file[t] = None /\ \A d \in Dir : e \notin unread[d]
      /\ \A u \in Thread : e \notin batch'[u] /\ batch[u] \ {e} = batch'[u]
  BY SMT, <1>1, AtEntry
<1>3. dir_fd[t] \in Dir /\ dir_fd[t] # None /\ pc[Main] # "run"
  BY <1>2, Lister DEF Listing
<1>4. WalkOpen' = WalkOpen /\ WalkHandled' = WalkHandled
  <2>1. WalkOpen' = WalkOpen
    BY <1>1, SameOpen
  <2> QED
    BY <1>1, <2>1 DEF WalkHandled
<1>5. InUse' = InUse \cup {e}
  <2>1. \A u \in Thread : pc'[u] # "subtract" <=> pc[u] # "subtract"
    BY <1>1, <1>10, <1>2
  <2>2. Range(queue)' = Range(queue) /\ Held' = Held
    BY <1>1 DEF Held, Opened
  <2>3. Reading' = Reading
    BY <1>1, <2>1 DEF Reading
  <2>4. Searching' = Searching \cup {e}
    BY SMT, <1>1, <1>10, <1>2 DEF Searching
  <2> QED
    BY <2>2, <2>3, <2>4 DEF InUse
<1>6. BatchInv'
  BY <1>1, <1>10, <1>2, <1>3 DEF TreeInv, BatchInv
<1>7. FileInv'
  BY SMT, <1>1, <1>10, <1>2, <1>3 DEF TreeInv, FileInv
<1>8. UnreadInv'
  <2>1. \A u \in Thread : pc'[u] \in {"close", "subtract"} <=> pc[u] \in {"close", "subtract"}
    BY <1>1, <1>10, <1>2
  <2> QED
    BY <1>1, <2>1 DEF TreeInv, UnreadInv
<1>9. CoverInv'
  <2>1. \A x \in Entry, u \in Thread :
          x \in batch[u] \/ (x = next_file[u] /\ x # None) =>
            x \in batch'[u] \/ x = next_file'[u] \/ x = next_file'[t]
    BY <1>1, <1>10, <1>2
  <2>2. \A x \in Entry \ WalkHandled : x # None
    BY ProcessorAssumption DEF WalkHandled, Entry
  <2> QED
    BY SMT, <1>1, <1>10, <1>3, <1>4, <2>1, <2>2, ProcessorAssumption DEF TreeInv, CoverInv
<1> QED
  BY <1>1, <1>4, <1>5, <1>6, <1>7, <1>8, <1>9 DEF TreeInv, FdsExact

\* A file that was searched is closed.
LEMMA ExecuteTree ==
  ASSUME Laws, IInv, TreeInv, NEW t \in Thread, Execute(t)
  PROVE  TreeInv' /\ WalkOpen' = WalkOpen
PROOF
<1> DEFINE f == next_file[t]
<1>1. /\ pc[t] = "execute" /\ pc' = [pc EXCEPT ![t] = "entry"]
      /\ searched' = searched \cup {f} /\ fds' = fds \ {f}
      /\ next_file' = [next_file EXCEPT ![t] = None]
      /\ UNCHANGED <<queue, dir_fd, batch, local_dir_queue, unread, dropped, scanned, unwound>>
  BY DEF Execute, Goto, fate
<1>2. /\ pc'[t] = "entry" /\ next_file'[t] = None
      /\ \A u \in Thread \ {t} : next_file'[u] = next_file[u] /\ pc'[u] = pc[u]
  BY <1>1 DEF IInv, TypeOK
<1>3. f # None /\ f \in File
  BY <1>1 DEF IInv, TypeOK, ControlInv, PcInv
<1>4. /\ Parent[f] = dir_fd[t] /\ f \notin unread[dir_fd[t]] \cup batch[t]
  BY <1>3 DEF TreeInv, FileInv
<1>5. /\ \A u \in Thread \ {t} : dir_fd[u] # dir_fd[t]
      /\ ~(t = Main /\ unwound) /\ pc[Main] # "run"
  BY <1>1, Lister DEF Listing
<1>6. \A u \in Thread : f \notin batch[u] /\ (u # t /\ next_file[u] # None => next_file[u] # f)
  BY SMT, <1>4, <1>5 DEF TreeInv, BatchInv, FileInv, Children
<1>7. WalkOpen' = WalkOpen /\ WalkHandled' = WalkHandled \cup {f}
  <2>1. WalkOpen' = WalkOpen
    BY <1>1, SameOpen
  <2> QED
    BY <1>1, <2>1 DEF WalkHandled
<1>8. InUse' = InUse \ {f}
  <2>1. Range(queue)' = Range(queue) /\ Held' = Held
    BY <1>1 DEF Held, Opened
  <2>2. Reading' = Reading
    BY ZenonT(30), <1>1, <1>2 DEF Reading
  <2>3. Searching' = Searching \ {f}
    BY SMT, <1>2, <1>3, <1>6 DEF Searching
  <2>4. Range(queue) \subseteq Dir /\ Held \subseteq Dir /\ Reading \subseteq Dir
    BY SMT DEF Held, Opened, Reading, IInv, TypeOK, Laws, SequenceLaws
  <2> QED
    BY <1>3, <2>1, <2>2, <2>3, <2>4, ProcessorAssumption DEF InUse
<1>9. BatchInv'
  BY <1>1, <1>2, <1>6 DEF TreeInv, BatchInv
<1>10. FileInv'
  BY SMT, <1>1, <1>2, <1>6 DEF TreeInv, FileInv
<1>11. UnreadInv'
  <2>1. \A u \in Thread : pc'[u] \in {"close", "subtract"} <=> pc[u] \in {"close", "subtract"}
    BY <1>1, <1>2
  <2> QED
    BY <1>1, <1>4, <2>1 DEF TreeInv, UnreadInv
<1>12. CoverInv'
  BY SMT, <1>1, <1>2, <1>5, <1>7 DEF TreeInv, CoverInv
<1> QED
  BY <1>1, <1>7, <1>8, <1>9, <1>10, <1>11, <1>12 DEF TreeInv, FdsExact

\* The directories a thread opened are queued.
LEMMA AppendQueueTree ==
  ASSUME Laws, IInv, TreeInv, NEW t \in Thread, AppendQueue(t)
  PROVE  TreeInv' /\ WalkOpen' = WalkOpen
PROOF
<1>1. /\ pc[t] = "append" /\ pc' = [pc EXCEPT ![t] = "notify"]
      /\ queue' = queue \o local_dir_queue[t]
      /\ local_dir_queue' = [local_dir_queue EXCEPT ![t] = <<>>]
      /\ UNCHANGED <<fds, searched, dir_fd, batch, next_file, unread, dropped, scanned, unwound>>
  BY DEF AppendQueue, Goto, output, fate
<1>2. pc'[t] = "notify" /\ \A u \in Thread \ {t} : pc'[u] = pc[u]
  BY <1>1 DEF IInv, TypeOK
<1>3. ~(t = Main /\ unwound) /\ pc[Main] # "run"
  BY <1>1, Lister DEF Listing
<1>4. Range(queue') \cup Held' = Range(queue) \cup Held
  <2>1. Range(queue') = Range(queue) \cup Opened(t)
    BY <1>1 DEF IInv, TypeOK, Opened, Laws, SequenceLaws
  <2>2. Opened(t)' = {} /\ \A u \in Thread \ {t} : Opened(u)' = Opened(u)
    BY SMT, <1>1 DEF IInv, TypeOK, Opened, Range
  <2> QED
    BY <2>1, <2>2 DEF Held
<1>5. Listed' = Listed /\ Reading' = Reading /\ Searching' = Searching
  BY <1>1, <1>2 DEF Listed, Reading, Searching
<1>6. WalkOpen' = WalkOpen /\ WalkHandled' = WalkHandled /\ InUse' = InUse
  <2>1. WalkOpen' = WalkOpen
    BY <1>4, <1>5 DEF WalkOpen, Held
  <2> QED
    BY <1>1, <1>4, <1>5, <2>1 DEF WalkHandled, InUse
<1>7. BatchInv'
  BY <1>1, <1>2 DEF TreeInv, BatchInv
<1>8. FileInv'
  BY <1>1, <1>2 DEF TreeInv, FileInv
<1>9. UnreadInv'
  <2>1. \A u \in Thread : pc'[u] \in {"close", "subtract"} <=> pc[u] \in {"close", "subtract"}
    BY <1>1, <1>2
  <2> QED
    BY <1>1, <2>1 DEF TreeInv, UnreadInv
<1>10. CoverInv'
  BY <1>1, <1>3, <1>6 DEF TreeInv, CoverInv
<1> QED
  BY <1>1, <1>6, <1>7, <1>8, <1>9, <1>10 DEF TreeInv, FdsExact

\* The directory that was listed is closed before it is counted as done.
LEMMA CloseDirTree ==
  ASSUME Laws, IInv, TreeInv, NEW t \in Thread, CloseDir(t)
  PROVE  TreeInv' /\ WalkOpen' = WalkOpen
PROOF
<1>1. /\ pc[t] = "close" /\ pc'[t] = "subtract" /\ \A u \in Thread \ {t} : pc'[u] = pc[u]
      /\ fds' = fds \ {dir_fd[t]}
      /\ UNCHANGED <<queue, searched, dir_fd, batch, local_dir_queue, next_file, unread, dropped,
                     scanned, unwound>>
  BY DEF CloseDir, Goto, walk, output, fate, IInv, TypeOK
<1>2. /\ dir_fd[t] \in Dir /\ \A u \in Thread \ {t} : dir_fd[u] # dir_fd[t]
      /\ pc[Main] # "run"
  BY <1>1, Lister DEF Listing
<1>3. WalkOpen' = WalkOpen /\ WalkHandled' = WalkHandled
  <2>1. WalkOpen' = WalkOpen
    BY <1>1, SameOpen
  <2> QED
    BY <1>1, <2>1 DEF WalkHandled
<1>4. InUse' = InUse \ {dir_fd[t]}
  <2>1. Range(queue)' = Range(queue) /\ Held' = Held /\ Searching' = Searching
    BY <1>1 DEF Held, Opened, Searching
  <2>2. Reading' = Reading \ {dir_fd[t]}
    BY <1>1, <1>2 DEF Reading
  <2>3. dir_fd[t] \notin Range(queue) /\ dir_fd[t] \notin Held
    BY SMT DEF Held, IInv, DistinctInv
  <2>4. Searching \subseteq File
    BY DEF Searching, IInv, TypeOK
  <2> QED
    BY <1>2, <2>1, <2>2, <2>3, <2>4, ProcessorAssumption DEF InUse
<1>5. BatchInv'
  BY <1>1 DEF TreeInv, BatchInv
<1>6. FileInv'
  BY <1>1 DEF TreeInv, FileInv
<1>7. UnreadInv'
  <2>1. \A u \in Thread : pc'[u] \in {"close", "subtract"} <=> pc[u] \in {"close", "subtract"}
    BY <1>1
  <2> QED
    BY <1>1, <2>1 DEF TreeInv, UnreadInv
<1>8. CoverInv'
  BY <1>1, <1>2, <1>3 DEF TreeInv, CoverInv
<1> QED
  BY <1>1, <1>3, <1>4, <1>5, <1>6, <1>7, <1>8 DEF TreeInv, FdsExact

\* A directory is done when nothing of it is left.
LEMMA SubtractPendingTree ==
  ASSUME IInv, TreeInv, NEW t \in Thread, SubtractPending(t)
  PROVE  /\ TreeInv' /\ WalkOpen' = WalkOpen \ {dir_fd[t]}
         /\ \A e \in Children(dir_fd[t]) : e \in WalkHandled
PROOF
<1>1. /\ pc[t] = "subtract" /\ pc'[t] \in {"stop", "loop"} /\ \A u \in Thread \ {t} : pc'[u] = pc[u]
      /\ scanned' = scanned \cup {dir_fd[t]}
      /\ dir_fd'[t] = None /\ \A u \in Thread \ {t} : dir_fd'[u] = dir_fd[u]
      /\ UNCHANGED <<queue, fds, searched, batch, local_dir_queue, next_file, unread, dropped, unwound>>
  BY DEF SubtractPending, Goto, output, fate, IInv, TypeOK
<1>2. /\ dir_fd[t] \in Dir /\ dir_fd[t] # None /\ dir_fd[t] \in WalkOpen
      /\ \A u \in Thread \ {t} : dir_fd[u] # dir_fd[t]
      /\ ~(t = Main /\ unwound) /\ pc[Main] # "run"
  BY <1>1, Lister DEF Listing
<1>3. batch[t] = {} /\ next_file[t] = None
  BY <1>1, <1>2 DEF TreeInv, BatchInv, FileInv
<1>4. WalkOpen' = WalkOpen \ {dir_fd[t]} /\ WalkHandled' = WalkHandled
  <2>1. Range(queue)' = Range(queue) /\ \A u \in Thread : Opened(u)' = Opened(u)
    BY <1>1 DEF Opened
  <2>2. Listed' = Listed \ {dir_fd[t]}
    BY SMT, <1>1, <1>2 DEF Listed
  <2>3. dir_fd[t] \notin Range(queue) /\ \A u \in Thread : dir_fd[t] \notin Opened(u)
    BY DEF IInv, DistinctInv
  <2>4. WalkOpen' = WalkOpen \ {dir_fd[t]}
    BY <2>1, <2>2, <2>3 DEF WalkOpen
  <2> QED
    BY <1>1, <1>2, <2>4 DEF WalkHandled
<1>5. \A e \in Children(dir_fd[t]) : e \in WalkHandled
  <2>1. SUFFICES ASSUME NEW e \in Entry, Parent[e] = dir_fd[t], e \notin WalkHandled PROVE FALSE
    BY DEF Children
  <2>2. e # None /\ e \notin dropped \cup Other
    BY <2>1, ProcessorAssumption DEF WalkHandled, Entry
  <2>3. e \notin unread[Parent[e]]
    BY <1>1, <2>1, <2>2 DEF TreeInv, UnreadInv
  <2>4. \A u \in Thread : e \notin batch[u] /\ e # next_file[u]
    <3>1. \A u \in Thread \ {t} : e \in batch[u] => Parent[e] = dir_fd[u]
      BY DEF TreeInv, BatchInv, Children
    <3>2. \A u \in Thread \ {t} : e = next_file[u] => Parent[e] = dir_fd[u]
      BY <2>2 DEF TreeInv, FileInv
    <3> QED
      BY <1>2, <1>3, <2>1, <2>2, <3>1, <3>2
  <2> QED
    BY <2>1, <2>3, <2>4 DEF TreeInv, CoverInv
<1>6. InUse' = InUse
  <2>1. Held' = Held /\ Searching' = Searching
    BY <1>1 DEF Held, Opened, Searching
  <2>2. Reading' = Reading
    BY <1>1 DEF Reading
  <2> QED
    BY <1>1, <2>1, <2>2 DEF InUse
<1>7. BatchInv'
  BY <1>1, <1>2, <1>3 DEF TreeInv, BatchInv
<1>8. FileInv'
  BY <1>1, <1>2, <1>3 DEF TreeInv, FileInv
<1>9. UnreadInv'
  <2>1. \A u \in Thread : pc'[u] \in {"close", "subtract"} <=> u # t /\ pc[u] \in {"close", "subtract"}
    BY <1>1
  <2> QED
    BY SMT, <1>1, <2>1 DEF TreeInv, UnreadInv
<1>10. CoverInv'
  <2>1. \A e \in Entry \ WalkHandled : Parent[e] \notin scanned'
    BY <1>1, <1>5 DEF TreeInv, CoverInv, Children
  <2>2. Root \in WalkOpen \cup scanned => Root \in WalkOpen' \cup scanned'
    BY <1>1, <1>4
  <2> QED
    BY <1>1, <1>2, <1>4, <2>1, <2>2 DEF TreeInv, CoverInv
<1> QED
  BY <1>1, <1>4, <1>5, <1>6, <1>7, <1>8, <1>9, <1>10 DEF TreeInv, FdsExact

\* A thread takes a directory from the queue.
LEMMA TakeTree ==
  ASSUME Laws, IInv, TreeInv, NEW t \in Thread, running, Take(t)
  PROVE  TreeInv' /\ WalkOpen' = WalkOpen
PROOF
<1>1. /\ pc[t] = "take" /\ pc' = [pc EXCEPT ![t] = "getdents"]
      /\ dir_fd' = [dir_fd EXCEPT ![t] = Head(queue)] /\ queue' = Tail(queue)
      /\ UNCHANGED <<fds, searched, batch, local_dir_queue, next_file, unread, dropped, scanned, unwound>>
  BY DEF Take, Goto, output, fate
<1>2. /\ pc'[t] = "getdents" /\ dir_fd'[t] = Head(queue)
      /\ \A u \in Thread \ {t} : pc'[u] = pc[u] /\ dir_fd'[u] = dir_fd[u]
  BY <1>1 DEF IInv, TypeOK
<1>3. queue # <<>> /\ dir_fd[t] = None /\ pc[Main] # "run" /\ ~(t = Main /\ unwound)
  BY <1>1 DEF IInv, ControlInv, PcInv, FrontOfNonEmpty, Listing, Ending
<1>4. /\ Range(queue) = Range(queue') \cup {Head(queue)} /\ Head(queue) # None
  BY <1>1, <1>3, ProcessorAssumption DEF IInv, TypeOK, Laws, SequenceLaws
<1>5. batch[t] = {} /\ next_file[t] = None
  BY <1>1, <1>3 DEF TreeInv, BatchInv, FileInv
<1>6. Listed' = Listed \cup {Head(queue)} /\ Reading' = Reading \cup {Head(queue)}
  BY SMT, <1>1, <1>2, <1>3, <1>4 DEF Listed, Reading
<1>7. Held' = Held /\ Searching' = Searching
  BY <1>1 DEF Held, Opened, Searching
<1>8. WalkOpen' = WalkOpen /\ WalkHandled' = WalkHandled /\ InUse' = InUse
  <2>1. WalkOpen' = WalkOpen
    BY <1>4, <1>6, <1>7 DEF WalkOpen, Held
  <2> QED
    BY <1>1, <1>4, <1>6, <1>7, <2>1 DEF WalkHandled, InUse
<1>9. BatchInv'
  BY <1>1, <1>2, <1>5 DEF TreeInv, BatchInv
<1>10. FileInv'
  BY <1>1, <1>2, <1>5 DEF TreeInv, FileInv
<1>11. UnreadInv'
  <2>1. \A u \in Thread : pc[u] \in {"close", "subtract"} <=> u # t /\ pc'[u] \in {"close", "subtract"}
    BY <1>1, <1>2
  <2> QED
    BY SMT, <1>1, <1>2, <2>1 DEF TreeInv, UnreadInv
<1>12. CoverInv'
  BY <1>1, <1>3, <1>8 DEF TreeInv, CoverInv
<1> QED
  BY <1>1, <1>8, <1>9, <1>10, <1>11, <1>12 DEF TreeInv, FdsExact

\* run() opens the start directory; nothing else is open.
LEMMA OpenRootTree ==
  ASSUME IInv, TreeInv, OpenRoot
  PROVE  TreeInv' /\ WalkOpen = {} /\ WalkOpen' = {Root}
PROOF
<1>1. /\ pc[Main] = "run" /\ pc'[Main] = "spawn" /\ \A u \in Thread \ {Main} : pc'[u] = pc[u]
      /\ queue' = <<Root>> /\ fds' = {Root}
      /\ UNCHANGED <<searched, dir_fd, batch, local_dir_queue, next_file, unread, dropped,
                     scanned, unwound>>
  BY ProcessorAssumption DEF OpenRoot, Goto, walk, output, fate, IInv, TypeOK
<1>2. queue = <<>> /\ ~unwound /\ \A u \in Thread : pc[u] \in {"run", "idle"}
  BY <1>1 DEF IInv, ControlInv, PcInv
<1>3. \A u \in Thread : dir_fd[u] = None /\ local_dir_queue[u] = <<>>
  BY <1>2 DEF IInv, ControlInv, PcInv, Listing, Opening
<1>4. \A u \in Thread : batch[u] = {} /\ next_file[u] = None
  BY <1>2 DEF TreeInv, BatchInv, FileInv
<1>5. Range(queue) = {} /\ Range(queue') = {Root} /\ \A u \in Thread : Opened(u) = {} /\ Opened(u)' = {}
  BY SMT, <1>1, <1>2, <1>3 DEF Range, Opened
<1>6. Listed = {} /\ Listed' = {} /\ Reading' = {} /\ Searching' = {} /\ Held' = {}
  BY <1>1, <1>3, <1>4, <1>5 DEF Listed, Reading, Searching, Held
<1>7. WalkOpen = {} /\ WalkOpen' = {Root} /\ InUse' = {Root}
  BY <1>5, <1>6 DEF WalkOpen, InUse
<1>8. WalkHandled \subseteq WalkHandled'
  BY <1>1, <1>7 DEF WalkHandled
<1>9. BatchInv'
  BY <1>1, <1>4 DEF TreeInv, BatchInv
<1>10. FileInv'
  BY <1>1, <1>4 DEF TreeInv, FileInv
<1>11. UnreadInv'
  <2>1. \A u \in Thread : pc[u] \notin {"close", "subtract"} /\ pc'[u] \notin {"close", "subtract"}
    BY <1>1, <1>2
  <2> QED
    BY <1>1, <2>1 DEF TreeInv, UnreadInv
<1>12. CoverInv'
  BY <1>1, <1>7, <1>8 DEF TreeInv, CoverInv
<1> QED
  BY <1>1, <1>7, <1>9, <1>10, <1>11, <1>12 DEF TreeInv, FdsExact

\* Every step keeps the places.
LEMMA TreeStep ==
  ASSUME Laws, IInv, TreeInv, [Next]_vars
  PROVE  TreeInv'
PROOF
<1>1. ASSUME NEW t \in Thread, NEW e \in Entry,
             SkipEntry(t, e) \/ OpenAtFails(t, e) \/ OpenDir(t, e) \/ OpenFile(t, e)
      PROVE  TreeInv'
  BY <1>1, PassedTree, OpenDirTree, OpenFileTree
<1>2. ASSUME NEW t \in Thread,
             \/ GetDents(t) \/ GetDentsEnds(t) \/ Execute(t)
             \/ AppendQueue(t) \/ CloseDir(t) \/ SubtractPending(t)
      PROVE  TreeInv'
  BY <1>2, GetDentsTree, GetDentsEndsTree, ExecuteTree, AppendQueueTree, CloseDirTree,
     SubtractPendingTree
<1> QED
  BY <1>1, <1>2, WalkCases, CalmStep, OpenRootTree, TakeTree

\* At the end everything is closed, and what a listed directory held was handled.
LEMMA WalkDone ==
  ASSUME IInv, TreeInv, StopOnlyWhenDone
  PROVE  WalkComplete
PROOF
<1>1. SUFFICES ASSUME pc[Main] = "exit", ~unwound
               PROVE  /\ fds = {} /\ Root \in scanned
                      /\ \A e \in Entry : Parent[e] \in scanned =>
                                            e \in scanned \cup searched \cup dropped \cup Other
  BY DEF WalkComplete
<1>2. Outstanding = {} /\ \A t \in Thread : local_dir_queue[t] = <<>>
  BY <1>1 DEF IInv, ControlInv, StopInv, Ending, StopOnlyWhenDone
<1>3. Range(queue) = {} /\ Listed = {} /\ \A t \in Thread : Opened(t) = {} /\ dir_fd[t] = None
  <2>1. Range(queue) = {} /\ Listed = {}
    BY <1>2 DEF Outstanding
  <2>2. \A t \in Thread : dir_fd[t] = None
    BY <2>1 DEF Listed
  <2>3. \A t \in Thread : Opened(t) = {}
    BY SMT, <1>2 DEF Opened, Range
  <2> QED
    BY <2>1, <2>2, <2>3
<1>4. WalkOpen = {} /\ Held = {} /\ Reading = {}
  BY <1>3 DEF WalkOpen, Held, Reading
<1>5. Searching = {}
  BY <1>3 DEF Searching, TreeInv, FileInv
<1>6. fds = {}
  BY <1>3, <1>4, <1>5 DEF TreeInv, FdsExact, InUse
<1> QED
  BY <1>1, <1>4, <1>6 DEF TreeInv, CoverInv, WalkHandled
-----------------------------------------------------------------------------

\* What a step that lists, opens or searches means to the traversal's status.
LEMMA StatusKept ==
  ASSUME IInv, HoldersCounted, NEW t \in Thread, pc[t] \in Listing \cup {"take"},
         UNCHANGED <<running, unwound>>,
         NEW to, to # "run", pc' = pc \/ pc' = [pc EXCEPT ![t] = to]
  PROVE  /\ WalkStatus' = WalkStatus
         /\ pc[t] \in Listing => WalkStatus \in {"walking", "failed"} /\ dir_fd[t] \in WalkOpen
PROOF
<1>1. pc[Main] # "run" /\ pc'[Main] # "run"
  <2>1. pc[Main] # "run"
    BY DEF IInv, ControlInv, PcInv, Listing
  <2> QED
    BY <2>1, ProcessorAssumption DEF IInv, TypeOK
<1>2. WalkStatus' = WalkStatus
  BY <1>1 DEF WalkStatus
<1>3. ASSUME pc[t] \in Listing
      PROVE  WalkStatus \in {"walking", "failed"} /\ dir_fd[t] \in WalkOpen
  <2>1. dir_fd[t] # None /\ dir_fd[t] \in WalkOpen
    BY <1>3, Lister
  <2>2. pending > 0
    BY <2>1 DEF HoldersCounted
  <2>3. running \/ unwound
    BY SMT, <1>1, <2>2 DEF IInv, ControlInv, StopInv
  <2> QED
    BY <1>1, <2>1, <2>3 DEF WalkStatus
<1> QED
  BY <1>2, <1>3

\* An entry of d that is in none of its final places is unhandled for the traversal.
LEMMA UnhandledIs ==
  ASSUME NEW d
  PROVE  T!Unhandled(d) = Children(d) \ WalkHandled
PROOF
  BY ProcessorAssumption DEF T!Unhandled, T!Handled, WalkHandled, Children

\* In particular one that is still in a thread's buffer.
LEMMA EntryUnhandled ==
  ASSUME IInv, TreeInv, NEW t \in Thread, NEW e \in Dir \cup File, e \in Entry, NextEntry(t, e)
  PROVE  e \in T!Unhandled(dir_fd[t])
PROOF
<1>1. e \in batch[t] /\ Parent[e] = dir_fd[t] /\ e \notin searched \cup dropped
  BY AtEntry
<1>2. e \notin WalkOpen \cup scanned
  BY <1>1 DEF IInv, FreshInv
<1> QED
  BY <1>1, <1>2, UnhandledIs, ProcessorAssumption DEF Children, WalkHandled

\* A calm step is a step of the traversal only when run() fails or the last worker stops.
LEMMA CalmRefines ==
  ASSUME IInv, Calm, StopOnlyWhenDone'
  PROVE  [T!Next]_(T!avars)
PROOF
<1>1. UNCHANGED <<WalkOpen, scanned, searched, dropped>>
  BY SameOpen DEF Calm, walk
<1>2. CASE unwound' /\ ~unwound
  <2>1. T!Fail
    BY <1>1, <1>2 DEF T!Fail, WalkStatus
  <2> QED
    BY <2>1 DEF T!Next
<1>3. CASE unwound
  BY <1>1, <1>3 DEF Calm, T!avars, WalkStatus
<1>4. CASE ~unwound'
  <2>1. (pc'[Main] = "run" <=> pc[Main] = "run") /\ ~unwound /\ (running' => running)
    BY <1>4 DEF Calm
  <2>2. CASE pc[Main] = "run" \/ (running' <=> running)
    BY <1>1, <1>4, <2>1, <2>2 DEF T!avars, WalkStatus
  <2>3. CASE pc[Main] # "run" /\ ~running' /\ running
    <3>1. WalkOpen' = {}
      <4>1. Outstanding' = {} /\ \A t \in Thread : local_dir_queue'[t] = <<>>
        BY <1>4, <2>1, <2>3 DEF StopOnlyWhenDone
      <4>2. \A t \in Thread : Opened(t)' = {}
        BY SMT, <4>1 DEF Opened, Range
      <4>3. Range(queue') = {} /\ Listed' = {}
        BY <4>1 DEF Outstanding
      <4> QED
        BY <4>2, <4>3 DEF WalkOpen
    <3>2. T!Finish
      BY <1>1, <1>4, <2>1, <2>3, <3>1 DEF T!Finish, WalkStatus
    <3> QED
      BY <3>2 DEF T!Next
  <2> QED
    BY <2>1, <2>2, <2>3
<1> QED
  BY <1>2, <1>3, <1>4

\* Opening, searching, giving up and leaving are the traversal's visits of dir_fd.
LEMMA VisitRefines ==
  ASSUME Laws, IInv, TreeInv, HoldersCounted, NEW t \in Thread,
         \/ GetDentsEnds(t) \/ Execute(t) \/ SubtractPending(t)
         \/ \E e \in Entry : OpenAtFails(t, e) \/ OpenDir(t, e)
  PROVE  T!Next
PROOF
<1>1. /\ WalkStatus' = WalkStatus /\ WalkStatus \in {"walking", "failed"}
      /\ dir_fd[t] \in WalkOpen
  <2>1. /\ pc[t] \in Listing /\ UNCHANGED <<running, unwound>>
        /\ \/ pc' = pc
           \/ \E to \in {"close", "entry", "stop", "loop"} : pc' = [pc EXCEPT ![t] = to]
    BY DEF GetDentsEnds, Execute, SubtractPending, OpenAtFails, OpenDir, NextEntry, Goto, Listing,
           fate
  <2> QED
    BY SMT, <2>1, StatusKept
<1>2. SUFFICES T!Visit(dir_fd[t])
  BY <1>1 DEF T!Next
<1>3. ASSUME GetDentsEnds(t) PROVE T!Visit(dir_fd[t])
  <2>1. /\ pc[t] = "getdents" /\ dropped' = dropped \cup (unread[dir_fd[t]] \ Other)
        /\ UNCHANGED <<queue, dir_fd, local_dir_queue, scanned, searched>>
    BY <1>3 DEF GetDentsEnds, Goto, output
  <2>2. /\ dir_fd[t] \in Dir /\ dir_fd[t] \notin scanned
        /\ \A u \in Thread \ {t} : dir_fd[u] # dir_fd[t]
    BY <2>1, Lister DEF Listing
  <2>3. /\ unread[dir_fd[t]] \subseteq Children(dir_fd[t])
        /\ unread[dir_fd[t]] \cap (WalkOpen \cup scanned) = {}
    BY <2>2 DEF IInv, FreshInv
  <2>4. unread[dir_fd[t]] \cap (searched \cup dropped) = {}
    BY SMT, <2>1, <2>2, <2>3 DEF TreeInv, UnreadInv, Children
  <2>5. unread[dir_fd[t]] \ Other \in SUBSET T!Unhandled(dir_fd[t])
    BY <2>3, <2>4, UnhandledIs DEF WalkHandled
  <2>6. T!Drop(dir_fd[t], unread[dir_fd[t]] \ Other)
    BY <1>1, <2>1, SameOpen DEF T!Drop
  <2> QED
    BY <1>1, <2>5, <2>6 DEF T!Visit
<1>4. ASSUME NEW e \in Entry, OpenAtFails(t, e) PROVE T!Visit(dir_fd[t])
  <2>1. /\ NextEntry(t, e) /\ e \in Dir \cup File /\ dropped' = dropped \cup {e}
        /\ UNCHANGED <<queue, dir_fd, local_dir_queue, scanned, searched>>
    BY <1>4 DEF OpenAtFails, NextEntry, output
  <2>2. e \in T!Unhandled(dir_fd[t])
    BY <2>1, EntryUnhandled
  <2>3. T!Drop(dir_fd[t], {e})
    BY <1>1, <2>1, SameOpen DEF T!Drop
  <2> QED
    BY <1>1, <2>2, <2>3 DEF T!Visit
<1>5. ASSUME NEW e \in Entry, OpenDir(t, e) PROVE T!Visit(dir_fd[t])
  <2>1. /\ NextEntry(t, e) /\ e \in Dir /\ UNCHANGED <<scanned, searched, dropped>>
    BY <1>5 DEF OpenDir, NextEntry, output
  <2>2. e \in T!Unhandled(dir_fd[t])
    BY <2>1, EntryUnhandled
  <2>3. T!Enter(dir_fd[t], e)
    BY <1>1, <1>5, <2>1, <2>2, OpenDirTree DEF T!Enter
  <2> QED
    BY <1>1, <2>2, <2>3 DEF T!Visit
<1>6. ASSUME Execute(t) PROVE T!Visit(dir_fd[t])
  <2>1. /\ pc[t] = "execute" /\ searched' = searched \cup {next_file[t]}
        /\ UNCHANGED <<queue, dir_fd, local_dir_queue, scanned, dropped>>
    BY <1>6 DEF Execute, Goto
  <2>2. next_file[t] # None /\ next_file[t] \in File
    BY <2>1 DEF IInv, TypeOK, ControlInv, PcInv
  <2>3. Parent[next_file[t]] = dir_fd[t] /\ next_file[t] \notin searched \cup dropped
    BY <2>2 DEF TreeInv, FileInv
  <2>4. WalkOpen \cup scanned \subseteq Dir
    BY SMT DEF WalkOpen, Listed, Opened, IInv, TypeOK, Laws, SequenceLaws
  <2>5. next_file[t] \in T!Unhandled(dir_fd[t])
    BY <2>2, <2>3, <2>4, UnhandledIs, ProcessorAssumption DEF WalkHandled, Children, Entry
  <2>6. T!Search(dir_fd[t], next_file[t])
    BY <1>1, <2>1, <2>2, <2>5, SameOpen DEF T!Search
  <2> QED
    BY <1>1, <2>5, <2>6 DEF T!Visit
<1>7. ASSUME SubtractPending(t) PROVE T!Visit(dir_fd[t])
  <2>1. scanned' = scanned \cup {dir_fd[t]} /\ UNCHANGED <<searched, dropped>>
    BY <1>7 DEF SubtractPending, output
  <2>2. WalkOpen' = WalkOpen \ {dir_fd[t]} /\ T!Unhandled(dir_fd[t]) = {}
    BY <1>7, SubtractPendingTree, UnhandledIs
  <2>3. T!Leave(dir_fd[t])
    BY <1>1, <2>1, <2>2 DEF T!Leave
  <2> QED
    BY <1>1, <2>3 DEF T!Visit
<1> QED
  BY <1>3, <1>4, <1>5, <1>6, <1>7

\* The other operations move directories and entries the traversal does not tell apart.
LEMMA HiddenRefines ==
  ASSUME Laws, IInv, TreeInv, HoldersCounted, NEW t \in Thread,
         \/ (running /\ Take(t)) \/ GetDents(t) \/ AppendQueue(t) \/ CloseDir(t)
         \/ \E e \in Entry : SkipEntry(t, e) \/ OpenFile(t, e)
  PROVE  UNCHANGED T!avars
PROOF
<1>1. WalkStatus' = WalkStatus
  <2>1. /\ pc[t] \in Listing \cup {"take"} /\ UNCHANGED <<running, unwound>>
        /\ \/ pc' = pc
           \/ \E to \in {"getdents", "entry", "notify", "subtract", "execute"} :
                pc' = [pc EXCEPT ![t] = to]
    BY DEF Take, GetDents, AppendQueue, CloseDir, SkipEntry, OpenFile, NextEntry, Goto, Listing, fate
  <2> QED
    BY <2>1, StatusKept
<1>2. UNCHANGED <<scanned, searched, dropped>>
  BY DEF Take, GetDents, AppendQueue, CloseDir, SkipEntry, OpenFile, NextEntry, walk, output
<1>3. WalkOpen' = WalkOpen
  <2>1. CASE GetDents(t) \/ CloseDir(t) \/ \E e \in Entry : SkipEntry(t, e) \/ OpenFile(t, e)
    <3>1. UNCHANGED <<queue, dir_fd, local_dir_queue>>
      BY <2>1 DEF GetDents, CloseDir, SkipEntry, OpenFile, NextEntry, walk
    <3> QED
      BY <3>1, SameOpen
  <2> QED
    BY <2>1, TakeTree, AppendQueueTree
<1> QED
  BY <1>1, <1>2, <1>3 DEF T!avars

\* Every step of the threads is a step of the traversal, or none.
LEMMA TraversalStep ==
  ASSUME Laws, IInv, TreeInv, HoldersCounted, [Next]_vars, StopOnlyWhenDone'
  PROVE  [T!Next]_(T!avars)
PROOF
<1>1. ASSUME OpenRoot PROVE T!Next
  <2>1. /\ pc[Main] = "run" /\ pc' = [pc EXCEPT ![Main] = "spawn"] /\ running'
        /\ UNCHANGED <<scanned, searched, dropped, unwound>>
    BY <1>1 DEF OpenRoot, Goto, walk, output, fate
  <2>2. pc'[Main] = "spawn"
    BY <2>1, ProcessorAssumption DEF IInv, TypeOK
  <2>3. ~unwound
    BY <2>1 DEF IInv, ControlInv, PcInv
  <2>4. T!Start
    BY <1>1, <2>1, <2>2, <2>3, OpenRootTree DEF T!Start, WalkStatus
  <2> QED
    BY <2>4 DEF T!Next
<1> QED
  BY <1>1, WalkCases, CalmRefines, VisitRefines, HiddenRefines
=============================================================================
