--------------------------- MODULE ProcessorProofs ---------------------------
(***************************************************************************)
(* The theorems about the directory walk of Processor, for any number of   *)
(* threads, any finite tree and any failures.                              *)
(***************************************************************************)
EXTENDS ProcessorSteps, FiniteSetTheorems, SequenceTheorems

\* Zenon proves a leaf, unless the leaf names another prover.
USE Zenon

-----------------------------------------------------------------------------
(* Every step of the walk keeps the data invariants of Processor: each     *)
(* directory is in one place, and pending_ counts those to be finished.    *)


\* The directories pending_ counts are directories, and a thread that lists
\* one is counted: fetch_sub never takes pending_ below zero.
LEMMA HolderCounted ==
  ASSUME Laws, TypeOK, PendingExact
  PROVE  /\ Outstanding \subseteq Dir
         /\ pending = 0 => Outstanding = {}
         /\ \A t \in Thread : dir_fd[t] # None => dir_fd[t] \in Outstanding /\ pending > 0
PROOF
<1>1. /\ Range(queue) \subseteq Dir /\ Listed \subseteq Dir
      /\ \A t \in Thread : Opened(t) \subseteq Dir
  BY SMT DEF TypeOK, Laws, SequenceLaws, Opened, Listed
<1>2. Outstanding \subseteq Dir
  BY <1>1 DEF Outstanding
<1>3. pending = 0 => Outstanding = {}
  BY <1>2 DEF PendingExact, Laws, CountLaws
<1>4. \A t \in Thread : dir_fd[t] # None => dir_fd[t] \in Outstanding
  BY DEF Outstanding, Listed
<1>5. pending # 0 => pending > 0
  BY SMT DEF TypeOK
<1> QED
  BY <1>2, <1>3, <1>4, <1>5

\* Where a directory may be.
LEMMA InWalkOpen ==
  ASSUME NEW x
  PROVE  x \in WalkOpen <=> \/ x \in Range(queue)
                            \/ x # None /\ \E t \in Thread : x = dir_fd[t]
                            \/ \E t \in Thread : x \in Opened(t)
PROOF
  BY DEF WalkOpen, Listed

\* Where a counted directory may be.
LEMMA InOutstanding ==
  ASSUME NEW x
  PROVE  x \in Outstanding <=> \/ x \in Range(queue)
                               \/ x # None /\ \E t \in Thread : x = dir_fd[t]
                               \/ \E t \in Thread : pc[t] = "append" /\ x \in Opened(t)
PROOF
  BY DEF Outstanding, Listed

\* A quiet step keeps the data invariants.
LEMMA QuietStep ==
  ASSUME IInv, Quiet
  PROVE  DistinctInv' /\ FreshInv' /\ PendingExact'
PROOF
<1>1. Range(queue)' = Range(queue) /\ Listed' = Listed /\ \A t \in Thread : Opened(t)' = Opened(t)
  BY DEF Quiet, Range, Listed, Opened
<1>2. Outstanding' = Outstanding /\ WalkOpen' = WalkOpen
  BY <1>1 DEF Quiet, Outstanding, WalkOpen
<1>3. DistinctInv'
  BY <1>1 DEF Quiet, IInv, DistinctInv
<1>4. FreshInv'
  BY <1>2 DEF Quiet, IInv, FreshInv
<1> QED
  BY <1>2, <1>3, <1>4 DEF Quiet, IInv, PendingExact

\* run() queues the start directory, which nothing else can lead to.
LEMMA OpenRootStep ==
  ASSUME Laws, IInv, OpenRoot
  PROVE  DistinctInv' /\ FreshInv' /\ PendingExact'
PROOF
<1>1. /\ \A t \in Thread : dir_fd[t] = None /\ local_dir_queue[t] = <<>> /\ pc'[t] # "append"
      /\ scanned = {} /\ queue' = <<Root>> /\ pending' = 1
      /\ UNCHANGED <<dir_fd, batch, local_dir_queue, unread, scanned>>
      /\ pc'[Main] = "spawn"
  BY ProcessorAssumption
     DEF IInv, TypeOK, ControlInv, PcInv, FreshInv, Listing, Opening, OpenRoot, Goto,
         walk
<1>2. Range(queue') = {Root} /\ IsInjective(queue')
  BY SMT, <1>1 DEF Range, IsInjective
<1>3. \A t \in Thread : Opened(t)' = {} /\ dir_fd'[t] = None
  BY SMT, <1>1 DEF Opened, Range
<1>4. WalkOpen' = {Root} /\ Outstanding' = {Root}
  BY SMT, <1>1, <1>2, <1>3 DEF WalkOpen, Outstanding, Listed
<1>5. Root \notin Entry /\ Root # None
  BY ProcessorAssumption DEF Entry
<1>6. DistinctInv'
  BY <1>1, <1>2, <1>3, <1>5 DEF IInv, DistinctInv
<1>7. FreshInv'
  BY SMT, <1>1, <1>4, <1>5, ProcessorAssumption DEF IInv, TypeOK, FreshInv, Children
<1>8. PendingExact'
  <2>1. Cardinality({} \cup {Root}) = Cardinality({}) + 1
    BY ProcessorAssumption DEF Laws, CountLaws
  <2> QED
    BY SMT, <1>1, <1>4, <2>1 DEF PendingExact, Laws, CountLaws
<1> QED
  BY <1>6, <1>7, <1>8

\* front() and pop_front() move a directory from the queue to one thread.
LEMMA TakeStep ==
  ASSUME Laws, IInv, NEW t \in Thread, running, Take(t)
  PROVE  DistinctInv' /\ FreshInv' /\ PendingExact'
PROOF
<1>1. /\ pc[t] = "take" /\ pc' = [pc EXCEPT ![t] = "getdents"]
      /\ dir_fd' = [dir_fd EXCEPT ![t] = Head(queue)] /\ queue' = Tail(queue)
      /\ UNCHANGED <<pending, batch, local_dir_queue, unread, scanned>>
  BY DEF Take, Goto
<1>2. queue # <<>> /\ dir_fd[t] = None /\ pc[Main] # "run"
  BY <1>1, ProcessorAssumption
     DEF IInv, TypeOK, ControlInv, PcInv, FrontOfNonEmpty, Listing, Ending
<1>3. /\ Head(queue) \in Dir /\ Range(queue) = Range(queue') \cup {Head(queue)}
      /\ IsInjective(queue') /\ Head(queue) \notin Range(queue')
  BY <1>1, <1>2 DEF IInv, TypeOK, DistinctInv, Laws, SequenceLaws
<1>4. /\ dir_fd'[t] = Head(queue) /\ Head(queue) # None
      /\ \A u \in Thread : (u # t => dir_fd'[u] = dir_fd[u]) /\ Opened(u)' = Opened(u)
      /\ \A u \in Thread : pc'[u] = "append" <=> pc[u] = "append"
  BY <1>1, <1>3, ProcessorAssumption DEF IInv, TypeOK, Opened
<1>5. DistinctInv'
  BY SMT, <1>1, <1>2, <1>3, <1>4 DEF IInv, DistinctInv
<1>6. \A x : (x \in WalkOpen)' <=> x \in WalkOpen
  BY SMT, <1>2, <1>3, <1>4, InWalkOpen DEF WalkOpen, Listed
<1>7. \A x : (x \in Outstanding)' <=> x \in Outstanding
  BY SMT, <1>2, <1>3, <1>4 DEF Outstanding, Listed
<1>8. WalkOpen' = WalkOpen /\ Outstanding' = Outstanding
  BY <1>6, <1>7
<1>9. FreshInv'
  BY SMT, <1>1, <1>2, <1>4, <1>8, ProcessorAssumption DEF IInv, TypeOK, FreshInv
<1> QED
  BY <1>1, <1>5, <1>8, <1>9 DEF IInv, PendingExact

\* getdents64 moves entries from the directory to the buffer of one thread.
LEMMA GetDentsStep ==
  ASSUME IInv, NEW t \in Thread, GetDents(t)
  PROVE  DistinctInv' /\ FreshInv' /\ PendingExact'
PROOF
<1>1. PICK b \in SUBSET unread[dir_fd[t]] :
        /\ batch' = [batch EXCEPT ![t] = b]
        /\ unread' = [unread EXCEPT ![dir_fd[t]] = @ \ b]
  BY DEF GetDents
<1>2. /\ pc[t] = "getdents" /\ pc' = [pc EXCEPT ![t] = "entry"]
      /\ UNCHANGED <<queue, pending, dir_fd, local_dir_queue, scanned>>
  BY DEF GetDents, Goto
<1>3. dir_fd[t] \in Dir /\ pc[Main] # "run"
  BY <1>2, ProcessorAssumption DEF IInv, TypeOK, ControlInv, PcInv, Listing
<1>4. /\ \A u \in Thread : Opened(u)' = Opened(u) /\ (pc'[u] = "append" <=> pc[u] = "append")
      /\ Range(queue)' = Range(queue) /\ Listed' = Listed
  BY <1>2 DEF IInv, TypeOK, Opened, Listed, Range
<1>5. WalkOpen' = WalkOpen /\ Outstanding' = Outstanding
  BY SMT, <1>4 DEF WalkOpen, Outstanding
<1>6. /\ \A d \in Dir : unread'[d] \subseteq unread[d]
      /\ batch'[t] = b /\ unread'[dir_fd[t]] \cap b = {}
      /\ \A u \in Thread \ {t} : batch'[u] = batch[u]
      /\ \A d \in Dir \ {dir_fd[t]} : unread'[d] = unread[d]
  BY <1>1, <1>3 DEF IInv, TypeOK
<1>7. \A d \in Dir \ {dir_fd[t]} : unread[d] \cap b = {}
  BY SMT, <1>1, <1>3 DEF IInv, FreshInv, Children
<1>8. DistinctInv'
  BY <1>2, <1>4 DEF IInv, DistinctInv
<1>9. pc'[Main] # "run"
  BY <1>2, <1>3, ProcessorAssumption DEF IInv, TypeOK
<1>10. FreshInv'
  <2>1. \A d \in Dir : unread'[d] \subseteq Children(d) /\ unread'[d] \cap (WalkOpen \cup scanned) = {}
    BY <1>6 DEF IInv, FreshInv
  <2>2. \A u \in Thread : batch'[u] \cap (WalkOpen \cup scanned) = {}
    BY <1>1, <1>3, <1>6 DEF IInv, FreshInv
  <2>3. \A u \in Thread : \A v \in Thread \ {u} : batch'[u] \cap batch'[v] = {}
    BY <1>1, <1>3, <1>6 DEF IInv, FreshInv
  <2>4. \A u \in Thread, d \in Dir : unread'[d] \cap batch'[u] = {}
    BY <1>6, <1>7 DEF IInv, FreshInv
  <2> QED
    BY <1>2, <1>5, <1>9, <2>1, <2>2, <2>3, <2>4 DEF IInv, FreshInv
<1> QED
  BY <1>2, <1>5, <1>8, <1>10 DEF IInv, PendingExact

\* Looking at an entry that is not a directory, or cannot be opened, only
\* takes it out of the buffer.
LEMMA LookAtStep ==
  ASSUME IInv, NEW t \in Thread, NEW e \in Entry, LookAt(t, e)
  PROVE  DistinctInv' /\ FreshInv' /\ PendingExact'
PROOF
<1>1. /\ pc[t] = "entry" /\ batch' = [batch EXCEPT ![t] = @ \ {e}]
      /\ pc' = pc \/ pc' = [pc EXCEPT ![t] = "execute"]
      /\ UNCHANGED <<queue, pending, dir_fd, local_dir_queue, unread, scanned>>
  BY DEF LookAt, SkipEntry, OpenAtFails, OpenFile, NextEntry
<1>2. /\ \A u \in Thread : Opened(u)' = Opened(u) /\ (pc'[u] = "append" <=> pc[u] = "append")
      /\ Range(queue)' = Range(queue) /\ Listed' = Listed
  BY SMT, <1>1 DEF IInv, TypeOK, Opened, Listed, Range
<1>3. WalkOpen' = WalkOpen /\ Outstanding' = Outstanding
  BY <1>2 DEF WalkOpen, Outstanding
<1>4. /\ \A u \in Thread : batch'[u] \subseteq batch[u]
      /\ pc'[Main] = "run" => pc[Main] = "run"
  BY <1>1, ProcessorAssumption DEF IInv, TypeOK
<1>5. DistinctInv'
  BY <1>1, <1>2 DEF IInv, DistinctInv
<1>6. FreshInv'
  BY SMT, <1>1, <1>3, <1>4 DEF IInv, FreshInv
<1> QED
  BY <1>1, <1>3, <1>5, <1>6 DEF IInv, PendingExact

\* openat and push_back: a directory nobody held goes to one local queue.
LEMMA OpenDirStep ==
  ASSUME Laws, IInv, NEW t \in Thread, NEW e \in Entry, OpenDir(t, e)
  PROVE  DistinctInv' /\ FreshInv' /\ PendingExact'
PROOF
<1>1. /\ pc[t] = "entry" /\ e \in Dir /\ e \in batch[t]
      /\ batch' = [batch EXCEPT ![t] = @ \ {e}]
      /\ local_dir_queue' = [local_dir_queue EXCEPT ![t] = Append(@, e)]
      /\ UNCHANGED <<pc, queue, pending, dir_fd, unread, scanned>>
  BY DEF OpenDir, NextEntry
<1>2. /\ e \notin WalkOpen \cup scanned /\ e # None
      /\ \A d \in Dir : e \notin unread[d]
      /\ \A u \in Thread \ {t} : e \notin batch[u]
  BY <1>1, ProcessorAssumption DEF IInv, FreshInv
<1>3. /\ e \notin Range(queue)
      /\ \A u \in Thread : e # dir_fd[u] /\ e \notin Opened(u)
  BY <1>2, InWalkOpen
<1>4. /\ Opened(t)' = Opened(t) \cup {e} /\ IsInjective(local_dir_queue'[t])
      /\ \A u \in Thread \ {t} : /\ local_dir_queue'[u] = local_dir_queue[u]
                                 /\ Opened(u)' = Opened(u)
  <2>1. /\ Range(Append(local_dir_queue[t], e)) = Range(local_dir_queue[t]) \cup {e}
        /\ IsInjective(Append(local_dir_queue[t], e))
    BY <1>1, <1>3 DEF IInv, TypeOK, DistinctInv, Opened, Laws, SequenceLaws
  <2> QED
    BY <1>1, <2>1 DEF IInv, TypeOK, Opened
<1>5. DistinctInv'
  BY SMT, <1>1, <1>3, <1>4 DEF IInv, DistinctInv
<1>6. WalkOpen' = WalkOpen \cup {e}
  <2>1. Range(queue)' = Range(queue) /\ Listed' = Listed
    BY <1>1 DEF Range, Listed
  <2> QED
    BY <1>4, <2>1 DEF WalkOpen
<1>7. /\ \A u \in Thread : batch'[u] \subseteq batch[u] /\ e \notin batch'[u]
  BY <1>1, <1>2 DEF IInv, TypeOK
<1>8. FreshInv'
  BY SMT, <1>1, <1>2, <1>6, <1>7 DEF IInv, FreshInv
<1>9. Outstanding' = Outstanding
  BY SMT, <1>1, <1>4 DEF Outstanding, Listed, Range
<1> QED
  BY <1>1, <1>5, <1>8, <1>9 DEF IInv, PendingExact

\* fetch_add counts exactly the directories found.
LEMMA AddPendingStep ==
  ASSUME Laws, IInv, NEW t \in Thread, AddPending(t)
  PROVE  DistinctInv' /\ FreshInv' /\ PendingExact'
PROOF
<1>1. /\ pc[t] = "add" /\ pc' = [pc EXCEPT ![t] = "append"]
      /\ pending' = pending + Len(local_dir_queue[t])
      /\ UNCHANGED <<queue, dir_fd, batch, local_dir_queue, unread, scanned>>
  BY DEF AddPending, Goto, walk
<1>2. /\ \A u \in Thread : Opened(u)' = Opened(u)
      /\ Range(queue)' = Range(queue) /\ Listed' = Listed
  BY <1>1 DEF Opened, Listed, Range
<1>3. WalkOpen' = WalkOpen
  BY <1>2 DEF WalkOpen
<1>4. DistinctInv'
  BY SMT, <1>1, <1>2 DEF IInv, DistinctInv
<1>5. pc'[Main] = "run" => pc[Main] = "run"
  BY <1>1, ProcessorAssumption DEF IInv, TypeOK
<1>6. FreshInv'
  BY <1>1, <1>3, <1>5 DEF IInv, FreshInv
<1>7. Opened(t) \subseteq Dir /\ Cardinality(Opened(t)) = Len(local_dir_queue[t])
  BY DEF IInv, TypeOK, DistinctInv, Opened, Laws, SequenceLaws
<1>8. Outstanding' = Outstanding \cup Opened(t)
  <2>1. \A u \in Thread : pc'[u] = "append" <=> (pc[u] = "append" \/ u = t)
    BY <1>1 DEF IInv, TypeOK
  <2> QED
    BY <1>2, <2>1 DEF Outstanding
<1>9. Outstanding \cap Opened(t) = {}
  <2>1. \A x \in Opened(t) : /\ x \notin Range(queue)
                             /\ \A u \in Thread : x # dir_fd[u]
                             /\ \A u \in Thread \ {t} : x \notin Opened(u)
    BY DEF IInv, DistinctInv
  <2> QED
    BY <1>1, <2>1, InOutstanding
<1>10. PendingExact'
  <2>1. Outstanding \subseteq Dir
    BY HolderCounted DEF IInv
  <2>2. Cardinality(Outstanding \cup Opened(t)) =
          Cardinality(Outstanding) + Cardinality(Opened(t))
    BY <1>7, <1>9, <2>1 DEF Laws, CountLaws
  <2> QED
    BY <1>1, <1>7, <1>8, <2>2 DEF IInv, PendingExact
<1> QED
  BY <1>4, <1>6, <1>10

\* append_range moves the counted directories of a thread to the queue.
LEMMA AppendQueueStep ==
  ASSUME Laws, IInv, NEW t \in Thread, AppendQueue(t)
  PROVE  DistinctInv' /\ FreshInv' /\ PendingExact'
PROOF
<1>1. /\ pc[t] = "append" /\ pc' = [pc EXCEPT ![t] = "notify"]
      /\ queue' = queue \o local_dir_queue[t]
      /\ local_dir_queue' = [local_dir_queue EXCEPT ![t] = <<>>]
      /\ UNCHANGED <<pending, dir_fd, batch, unread, scanned>>
  BY DEF AppendQueue, Goto
<1>2. /\ Range(queue') = Range(queue) \cup Opened(t) /\ IsInjective(queue')
  <2>1. queue \in Seq(Dir) /\ local_dir_queue[t] \in Seq(Dir)
    BY DEF IInv, TypeOK
  <2>2. Range(queue) \cap Range(local_dir_queue[t]) = {}
    BY DEF IInv, DistinctInv, Opened
  <2> QED
    BY <1>1, <2>1, <2>2 DEF IInv, DistinctInv, Opened, Laws, SequenceLaws
<1>3. /\ Opened(t)' = {} /\ IsInjective(local_dir_queue'[t])
      /\ \A u \in Thread \ {t} : /\ local_dir_queue'[u] = local_dir_queue[u]
                                 /\ Opened(u)' = Opened(u)
  BY SMT, <1>1 DEF IInv, TypeOK, Opened, Range, IsInjective
<1>4. DistinctInv'
  BY SMT, <1>1, <1>2, <1>3 DEF IInv, DistinctInv
<1>5. WalkOpen' = WalkOpen /\ Listed' = Listed
  <2>1. Listed' = Listed
    BY <1>1 DEF Listed
  <2>2. \A x : (x \in WalkOpen)' <=> x \in WalkOpen
    BY <1>2, <1>3, <2>1 DEF WalkOpen
  <2> QED
    BY <2>1, <2>2
<1>6. Outstanding' = Outstanding
  <2>1. \A u \in Thread : pc'[u] = "append" <=> (pc[u] = "append" /\ u # t)
    BY <1>1 DEF IInv, TypeOK
  <2>2. \A x : (x \in Outstanding)' <=> x \in Outstanding
    BY SMT, <1>1, <1>2, <1>3, <1>5, <2>1 DEF Outstanding
  <2> QED
    BY <2>2
<1>7. FreshInv'
  BY <1>1, <1>5, ProcessorAssumption DEF IInv, TypeOK, FreshInv
<1> QED
  BY <1>1, <1>4, <1>6, <1>7 DEF IInv, PendingExact

\* fetch_sub takes the finished directory out of the count.
LEMMA SubtractPendingStep ==
  ASSUME Laws, IInv, NEW t \in Thread, SubtractPending(t)
  PROVE  DistinctInv' /\ FreshInv' /\ PendingExact'
PROOF
<1>1. /\ pc[t] = "subtract" /\ pc'[t] # "append" /\ pc'[t] # "run" /\ pending' = pending - 1
      /\ \A u \in Thread \ {t} : pc'[u] = pc[u]
      /\ scanned' = scanned \cup {dir_fd[t]}
      /\ dir_fd' = [dir_fd EXCEPT ![t] = None]
      /\ UNCHANGED <<queue, batch, local_dir_queue, unread>>
  BY DEF SubtractPending, Goto, IInv, TypeOK
<1>2. dir_fd[t] # None /\ dir_fd[t] \in Dir /\ pc[Main] # "run"
  BY <1>1, ProcessorAssumption DEF IInv, TypeOK, ControlInv, PcInv, Listing
<1>3. /\ \A u \in Thread : Opened(u)' = Opened(u) /\ (pc'[u] = "append" <=> pc[u] = "append")
      /\ Range(queue)' = Range(queue)
      /\ dir_fd'[t] = None /\ \A u \in Thread \ {t} : dir_fd'[u] = dir_fd[u]
  BY <1>1 DEF IInv, TypeOK, Opened, Range
<1>4. /\ dir_fd[t] \notin Range(queue)
      /\ \A u \in Thread : dir_fd[t] \notin Opened(u) /\ (u # t => dir_fd[u] # dir_fd[t])
      /\ None \notin Range(queue) /\ \A u \in Thread : None \notin Opened(u)
  <2>1. Range(queue) \subseteq Dir /\ \A u \in Thread : Opened(u) \subseteq Dir
    BY DEF IInv, TypeOK, Opened, Laws, SequenceLaws
  <2> QED
    BY <1>2, <2>1, ProcessorAssumption DEF IInv, DistinctInv
<1>5. DistinctInv'
  BY SMT, <1>1, <1>3, <1>4 DEF IInv, DistinctInv
<1>6. Listed' = Listed \ {dir_fd[t]}
  BY SMT, <1>2, <1>3, <1>4 DEF Listed
<1>7. WalkOpen' = WalkOpen \ {dir_fd[t]} /\ Outstanding' = Outstanding \ {dir_fd[t]}
  BY SMT, <1>3, <1>4, <1>6 DEF WalkOpen, Outstanding
<1>8. dir_fd[t] \in WalkOpen /\ dir_fd[t] \in Outstanding
  <2>1. dir_fd[t] \in Listed
    BY <1>2 DEF Listed
  <2> QED
    BY <2>1 DEF WalkOpen, Outstanding
<1>9. FreshInv'
  <2>1. WalkOpen' \cup scanned' = WalkOpen \cup scanned /\ scanned' \cap WalkOpen' = {}
    BY <1>1, <1>7, <1>8 DEF IInv, FreshInv
  <2>2. pc'[Main] # "run"
    BY <1>1, <1>2, ProcessorAssumption
  <2> QED
    BY <1>1, <2>1, <2>2 DEF IInv, FreshInv
<1>10. PendingExact'
  <2>1. Outstanding \subseteq Dir
    BY HolderCounted DEF IInv
  <2> QED
    BY <1>1, <1>7, <1>8, <2>1 DEF IInv, PendingExact, Laws, CountLaws
<1> QED
  BY <1>5, <1>9, <1>10

\* Every step keeps the data invariants.
LEMMA DataStep ==
  ASSUME Laws, IInv, [Next]_vars
  PROVE  DistinctInv' /\ FreshInv' /\ PendingExact'
PROOF
  BY DataCases, QuietStep, OpenRootStep, TakeStep, GetDentsStep, LookAtStep,
     OpenDirStep, AddPendingStep, AppendQueueStep, SubtractPendingStep

\* The initial state satisfies the inductive invariant.
LEMMA InitIInv ==
  ASSUME Laws, Init
  PROVE  IInv
PROOF
<1> USE ProcessorAssumption
<1>1. \A d \in Dir : Children(d) \subseteq Entry
  BY DEF Children
<1>2. TypeOK
  <2>1. /\ pc \in [Thread -> ThreadState] /\ unread \in [Dir -> SUBSET Entry]
        /\ dir_fd \in [Thread -> Dir \cup {None}] /\ next_file \in [Thread -> File \cup {None}]
    BY <1>1 DEF Init, ThreadState
  <2>2. queue \in Seq(Dir) /\ local_dir_queue \in [Thread -> Seq(Dir)]
    BY SMT DEF Init
  <2>3. batch \in [Thread -> SUBSET Entry] /\ buffer \in [Thread -> SUBSET File]
    BY DEF Init
  <2>4. running \in BOOLEAN /\ unwound \in BOOLEAN /\ aborted \in BOOLEAN
    BY DEF Init
  <2>5. pending \in Nat /\ spurious \in 0..MaxSpurious
    BY SMT DEF Init
  <2>6. /\ mutex \in Thread \cup {None} /\ fds \subseteq Dir \cup File
        /\ written \subseteq File /\ lost \subseteq File /\ searched \subseteq File
        /\ scanned \subseteq Dir /\ dropped \subseteq Entry
    BY DEF Init
  <2> QED
    BY <2>1, <2>2, <2>3, <2>4, <2>5, <2>6 DEF TypeOK
<1>3. ControlInv
  BY
     DEF Init, ControlInv, PcInv, MutexInv, StopInv, FrontOfNonEmpty, AwakeInv,
         Listing, Opening, Ending
<1>4. /\ Range(queue) = {} /\ IsInjective(queue) /\ Listed = {}
      /\ \A t \in Thread : Opened(t) = {} /\ IsInjective(local_dir_queue[t]) /\ dir_fd[t] = None
  BY SMT DEF Init, Range, IsInjective, Listed, Opened
<1>5. WalkOpen = {} /\ Outstanding = {}
  BY <1>4 DEF WalkOpen, Outstanding
<1>6. DistinctInv
  BY <1>4 DEF DistinctInv
<1>7. FreshInv
  BY <1>5 DEF Init, FreshInv
<1>8. PendingExact
  BY <1>5 DEF Init, PendingExact, Laws, CountLaws
<1> QED
  BY <1>2, <1>3, <1>6, <1>7, <1>8 DEF IInv

\* Who stops did so when no directory was left.
LEMMA StopDone ==
  ASSUME Laws, IInv
  PROVE  StopOnlyWhenDone
PROOF
<1>1. SUFFICES ASSUME ~running, pc[Main] # "run", ~unwound
               PROVE  Outstanding = {} /\ \A t \in Thread : local_dir_queue[t] = <<>>
  BY DEF StopOnlyWhenDone
<1>2. Outstanding = {} /\ \A t \in Thread : dir_fd[t] = None
  BY <1>1, HolderCounted DEF IInv, ControlInv, StopInv
<1>3. \A t \in Thread : pc[t] \notin Opening
  BY <1>1, <1>2 DEF IInv, ControlInv, PcInv, Listing, Opening
<1> QED
  BY <1>1, <1>2, <1>3 DEF IInv, ControlInv, PcInv

\* Somebody is awake while the walk runs.
LEMMA SomeAwake ==
  ASSUME Laws, IInv
  PROVE  NotAllAsleep
PROOF
<1>1. SUFFICES ASSUME running
               PROVE  \E t \in Thread : pc[t] \notin {"idle", "sleep", "wait", "done"}
  BY DEF NotAllAsleep
<1>2. CASE unwound \/ \E t \in Thread : pc[t] = "stop"
  BY <1>1, <1>2, ProcessorAssumption DEF IInv, ControlInv, AwakeInv
<1>3. CASE ~unwound /\ pending > 0
  <2>1. Outstanding # {}
    <3>1. pending = Cardinality(Outstanding) /\ pending # 0
      BY SMT, <1>1, <1>3 DEF IInv, TypeOK, PendingExact
    <3> QED
      BY <3>1 DEF Laws, CountLaws
  <2>2. CASE Range(queue) # {}
    <3>1. queue # <<>>
      BY SMT, <2>2 DEF Range
    <3> QED
      BY <1>1, <3>1 DEF IInv, ControlInv, AwakeInv
  <2>3. CASE \E t \in Thread : dir_fd[t] # None
    BY <1>1, <1>3, <2>3 DEF IInv, ControlInv, PcInv, Listing
  <2>4. CASE \E t \in Thread : pc[t] = "append"
    BY <2>4
  <2> QED
    BY <2>1, <2>2, <2>3, <2>4, InOutstanding
<1> QED
  BY <1>1, <1>2, <1>3 DEF IInv, ControlInv, AwakeInv

\* The step of TakenOnce.
Once ==
  \A t \in Thread : dir_fd'[t] \notin {dir_fd[t], None} =>
    /\ dir_fd'[t] \notin scanned
    /\ \A u \in Thread : dir_fd[u] # dir_fd'[t]

\* A directory a thread takes was in the queue, and nowhere else.
LEMMA OnceStep ==
  ASSUME Laws, IInv, [Next]_vars
  PROVE  Once
PROOF
<1>1. SUFFICES ASSUME NEW t \in Thread, dir_fd'[t] \notin {dir_fd[t], None}
               PROVE  /\ dir_fd'[t] \notin scanned
                      /\ \A u \in Thread : dir_fd[u] # dir_fd'[t]
  BY DEF Once
<1>2. dir_fd'[t] \in Range(queue)
  <2>1. ASSUME NEW u \in Thread, running, Take(u) PROVE dir_fd'[t] \in Range(queue)
    <3>1. pc[u] = "take" /\ dir_fd' = [dir_fd EXCEPT ![u] = Head(queue)]
      BY <2>1 DEF Take, Goto
    <3>2. queue # <<>> /\ queue \in Seq(Dir)
      BY <1>1, <2>1, <3>1 DEF IInv, TypeOK, ControlInv, FrontOfNonEmpty
    <3>3. Head(queue) \in Range(queue)
      BY <3>2 DEF Laws, SequenceLaws
    <3> QED
      BY <1>1, <3>1, <3>3 DEF IInv, TypeOK
  <2>2. ASSUME NEW u \in Thread, SubtractPending(u) PROVE FALSE
    BY <1>1, <2>2 DEF SubtractPending, IInv, TypeOK
  <2>3. ASSUME Quiet \/ OpenRoot PROVE FALSE
    BY <1>1, <2>3 DEF Quiet, OpenRoot, walk
  <2>4. ASSUME NEW u \in Thread, GetDents(u) \/ AddPending(u) \/ AppendQueue(u) PROVE FALSE
    BY <1>1, <2>4 DEF GetDents, AddPending, AppendQueue, walk
  <2>5. ASSUME NEW u \in Thread, NEW e \in Entry, LookAt(u, e) \/ OpenDir(u, e) PROVE FALSE
    BY <1>1, <2>5 DEF LookAt, SkipEntry, OpenAtFails, OpenFile, OpenDir, NextEntry
  <2> QED
    BY <1>1, <2>1, <2>2, <2>3, <2>4, <2>5, DataCases
<1> QED
  BY <1>1, <1>2 DEF IInv, DistinctInv, FreshInv, WalkOpen

----------------------------------------------------------------------------
(* Sequences without repetition, as the queues of directories are.         *)

\* The range of a sequence grows by what push_back appends.
LEMMA RangeAppend ==
  ASSUME NEW S, NEW s \in Seq(S), NEW e \in S
  PROVE  /\ Range(Append(s, e)) = Range(s) \cup {e}
         /\ IsInjective(s) /\ e \notin Range(s) => IsInjective(Append(s, e))
PROOF
<1>1. /\ Append(s, e) \in Seq(S) /\ Len(Append(s, e)) = Len(s) + 1
      /\ \A i \in 1..Len(s) : Append(s, e)[i] = s[i]
      /\ Append(s, e)[Len(s) + 1] = e
  BY SMT, AppendProperties
<1>2. Len(s) \in Nat /\ DOMAIN s = 1..Len(s) /\ DOMAIN Append(s, e) = 1..Len(s) + 1
  BY <1>1, LenProperties
<1>3. \A i \in 1..Len(s) + 1 : i \in 1..Len(s) \/ i = Len(s) + 1
  BY SMT, <1>2
<1>4. Range(Append(s, e)) = Range(s) \cup {e}
  BY SMT, <1>1, <1>2, <1>3 DEF Range
<1>5. IsInjective(s) /\ e \notin Range(s) => IsInjective(Append(s, e))
  BY SMT, <1>1, <1>2, <1>3 DEF Range, IsInjective
<1> QED
  BY <1>4, <1>5

\* front() and pop_front() split a queue into its head and the rest.
LEMMA RangeHeadTail ==
  ASSUME NEW S, NEW s \in Seq(S), s # <<>>
  PROVE  /\ Head(s) \in S /\ Tail(s) \in Seq(S)
         /\ Range(s) = Range(Tail(s)) \cup {Head(s)}
         /\ IsInjective(s) => IsInjective(Tail(s)) /\ Head(s) \notin Range(Tail(s))
PROOF
<1>1. /\ Head(s) \in S /\ Tail(s) \in Seq(S) /\ Len(Tail(s)) = Len(s) - 1
      /\ \A i \in 1..Len(Tail(s)) : Tail(s)[i] = s[i + 1]
  BY HeadTailProperties
<1>2. Len(s) \in Nat \ {0} /\ DOMAIN s = 1..Len(s) /\ DOMAIN Tail(s) = 1..Len(s) - 1
  BY <1>1, LenProperties, EmptySeq
<1>3. Head(s) = s[1]
  BY SMT
<1>4. \A i \in 1..Len(s) - 1 : i + 1 \in 1..Len(s) /\ Tail(s)[i] = s[i + 1] /\ i + 1 # 1
  BY SMT, <1>1, <1>2
<1>5. \A i \in 1..Len(s) : i = 1 \/ (i - 1 \in 1..Len(s) - 1 /\ (i - 1) + 1 = i)
  BY SMT, <1>2
<1>6. Range(s) \subseteq Range(Tail(s)) \cup {Head(s)}
  <2>1. SUFFICES ASSUME NEW i \in 1..Len(s), i # 1
                 PROVE  s[i] \in Range(Tail(s))
    BY <1>2, <1>3 DEF Range
  <2>2. i - 1 \in DOMAIN Tail(s) /\ Tail(s)[i - 1] = s[i]
    BY <1>2, <1>4, <1>5, <2>1
  <2> QED
    BY <2>2 DEF Range
<1>7. Range(Tail(s)) \cup {Head(s)} \subseteq Range(s)
  BY SMT, <1>2, <1>3, <1>4 DEF Range
<1>8. ASSUME IsInjective(s)
      PROVE  IsInjective(Tail(s)) /\ Head(s) \notin Range(Tail(s))
  BY SMT, <1>2, <1>3, <1>4, <1>8 DEF Range, IsInjective
<1> QED
  BY <1>1, <1>6, <1>7, <1>8

\* append_range keeps a queue free of repetitions when it adds new directories.
LEMMA InjectiveConcat ==
  ASSUME NEW S, NEW s \in Seq(S), NEW r \in Seq(S), IsInjective(s), IsInjective(r),
         Range(s) \cap Range(r) = {}
  PROVE  IsInjective(s \o r)
PROOF
<1>1. /\ s \o r \in Seq(S) /\ Len(s \o r) = Len(s) + Len(r)
      /\ \A i \in 1..Len(s) + Len(r) :
           (s \o r)[i] = IF i <= Len(s) THEN s[i] ELSE r[i - Len(s)]
  BY ConcatProperties
<1>2. /\ Len(s) \in Nat /\ DOMAIN s = 1..Len(s)
      /\ Len(r) \in Nat /\ DOMAIN r = 1..Len(r)
      /\ DOMAIN (s \o r) = 1..Len(s) + Len(r)
  BY <1>1, LenProperties
<1>3. SUFFICES ASSUME NEW a \in 1..Len(s) + Len(r), NEW b \in 1..Len(s) + Len(r),
                      (s \o r)[a] = (s \o r)[b]
               PROVE  a = b
  BY <1>2 DEF IsInjective
<1>4. \A i \in 1..Len(s) + Len(r) :
        \/ i \in 1..Len(s) /\ (s \o r)[i] = s[i]
        \/ ~(i <= Len(s)) /\ i - Len(s) \in 1..Len(r) /\ (s \o r)[i] = r[i - Len(s)]
  BY SMT, <1>1, <1>2
<1>5. \A i \in 1..Len(s), j \in 1..Len(r) : s[i] # r[j]
  BY <1>2 DEF Range
<1>6. CASE a \in 1..Len(s) /\ b \in 1..Len(s)
  BY SMT, <1>1, <1>2, <1>3, <1>6 DEF IsInjective
<1>7. CASE a \notin 1..Len(s) /\ b \notin 1..Len(s)
  <2>1. r[a - Len(s)] = r[b - Len(s)] /\ a - Len(s) \in DOMAIN r /\ b - Len(s) \in DOMAIN r
    BY <1>2, <1>3, <1>4, <1>7
  <2>2. a - Len(s) = b - Len(s)
    BY <2>1 DEF IsInjective
  <2> QED
    BY SMT, <1>2, <2>2
<1> QED
  BY SMT, <1>3, <1>4, <1>5, <1>6, <1>7

\* A sequence without repetition has as many elements as its length:
\* size(local_dir_queue) counts the directories found.
LEMMA CardinalityRange ==
  ASSUME NEW S, NEW s \in Seq(S), IsInjective(s)
  PROVE  IsFiniteSet(Range(s)) /\ Cardinality(Range(s)) = Len(s)
PROOF
<1>1. Len(s) \in Nat /\ s \in [1..Len(s) -> S] /\ DOMAIN s = 1..Len(s)
  BY LenProperties
<1>2. s \in Bijection(1..Len(s), Range(s))
  BY <1>1 DEF Range, IsInjective, Bijection, Injection, Surjection
<1>3. ExistsBijection(1..Len(s), Range(s))
  BY <1>2 DEF ExistsBijection
<1> QED
  BY <1>1, <1>3, FS_CountingElements, FS_NatBijection

----------------------------------------------------------------------------
(* The invariant and what it shows.                                        *)

\* The laws of sequences and counting that the steps rest on.
LEMMA LawsHold == Laws
PROOF
<1>1. SequenceLaws
  <2>1. SUFFICES ASSUME NEW s \in Seq(Dir)
                 PROVE  /\ Range(s) \subseteq Dir
                        /\ s # <<>> => Head(s) \in Dir /\ Range(s) = Range(Tail(s)) \cup {Head(s)}
                        /\ s # <<>> /\ IsInjective(s) =>
                             IsInjective(Tail(s)) /\ Head(s) \notin Range(Tail(s))
                        /\ IsInjective(s) => Cardinality(Range(s)) = Len(s)
                        /\ \A d \in Dir :
                             /\ Range(Append(s, d)) = Range(s) \cup {d}
                             /\ IsInjective(s) /\ d \notin Range(s) => IsInjective(Append(s, d))
                        /\ \A r \in Seq(Dir) :
                             /\ Range(s \o r) = Range(s) \cup Range(r)
                             /\ IsInjective(s) /\ IsInjective(r) /\ Range(s) \cap Range(r) = {} =>
                                  IsInjective(s \o r)
    BY DEF SequenceLaws
  <2>2. Range(s) \subseteq Dir
    BY RangeOfSeq
  <2>3. \A r \in Seq(Dir) : Range(s \o r) = Range(s) \cup Range(r)
    BY RangeConcatenation
  <2>4. \A r \in Seq(Dir) : IsInjective(s) /\ IsInjective(r) /\ Range(s) \cap Range(r) = {} =>
                              IsInjective(s \o r)
    BY InjectiveConcat
  <2>5. \A d \in Dir : /\ Range(Append(s, d)) = Range(s) \cup {d}
                       /\ IsInjective(s) /\ d \notin Range(s) => IsInjective(Append(s, d))
    BY RangeAppend
  <2> QED
    BY <2>2, <2>3, <2>4, <2>5, RangeHeadTail, CardinalityRange
<1>2. CountLaws
  <2>1. Cardinality({}) = 0
    BY FS_EmptySet
  <2>2. ASSUME NEW S \in SUBSET Dir
        PROVE  /\ Cardinality(S) \in Nat /\ (Cardinality(S) = 0 => S = {})
               /\ \A d \in S : Cardinality(S \ {d}) = Cardinality(S) - 1
               /\ \A d \in Dir \ S : Cardinality(S \cup {d}) = Cardinality(S) + 1
               /\ \A R \in SUBSET Dir :
                    S \cap R = {} => Cardinality(S \cup R) = Cardinality(S) + Cardinality(R)
    <3>1. \A R \in SUBSET Dir : IsFiniteSet(R) /\ Cardinality(R) \in Nat
      BY ProcessorAssumption, FS_Subset, FS_CardinalityType
    <3>2. Cardinality(S) = 0 => S = {}
      BY <3>1, FS_EmptySet
    <3>3. \A d \in S : Cardinality(S \ {d}) = Cardinality(S) - 1
      BY <3>1, FS_RemoveElement
    <3>4. \A d \in Dir \ S : Cardinality(S \cup {d}) = Cardinality(S) + 1
      BY <3>1, FS_AddElement
    <3>5. ASSUME NEW R \in SUBSET Dir, S \cap R = {}
          PROVE  Cardinality(S \cup R) = Cardinality(S) + Cardinality(R)
      <4>1. Cardinality(S \cup R) = Cardinality(S) + Cardinality(R) - Cardinality({})
        BY <3>1, <3>5, FS_Union
      <4> QED
        BY SMT, <2>1, <3>1, <4>1
    <3> QED
      BY <3>1, <3>2, <3>3, <3>4, <3>5
  <2> QED
    BY <2>1, <2>2 DEF CountLaws
<1> QED
  BY <1>1, <1>2 DEF Laws

\* The invariant holds in every reachable state.
THEOREM Invariance == Spec => []IInv
PROOF
<1>1. IInv => HoldersCounted
  BY LawsHold, HolderCounted DEF IInv, HoldersCounted
<1>2. IInv /\ [Next]_vars => IInv'
  BY <1>1, LawsHold, TypeStep, ControlStep, DataStep DEF IInv
<1> QED
  <2>1. Init => IInv
    BY LawsHold, InitIInv
  <2> QED
    BY <1>2, <2>1, PTL DEF Spec

\* Type correctness of the walk; in particular pending_, an unsigned counter,
\* never goes below zero.
THEOREM TypeCorrect == Spec => []TypeOK
PROOF
<1>1. IInv => TypeOK
  BY DEF IInv
<1> QED
  BY <1>1, Invariance, PTL

\* pending_ always equals the number of directories queued, being listed or
\* about to be queued, for any number of workers and any tree.
THEOREM PendingCorrect == Spec => []PendingExact
PROOF
<1>1. IInv => PendingExact
  BY DEF IInv
<1> QED
  BY <1>1, Invariance, PTL

\* No worker clears running_ while a directory is left anywhere.
THEOREM StopCorrect == Spec => []StopOnlyWhenDone
PROOF
<1>1. IInv => StopOnlyWhenDone
  BY LawsHold, StopDone
<1> QED
  BY <1>1, Invariance, PTL

\* queue_.front() is never called on an empty queue.
THEOREM FrontCorrect == Spec => []FrontOfNonEmpty
PROOF
<1>1. IInv => FrontOfNonEmpty
  BY DEF IInv, ControlInv
<1> QED
  BY <1>1, Invariance, PTL

\* While running_ holds, some thread is awake: one notify_one per batch of
\* directories is enough to keep the walk going.
THEOREM AwakeCorrect == Spec => []NotAllAsleep
PROOF
<1>1. IInv => NotAllAsleep
  BY LawsHold, SomeAwake
<1> QED
  BY <1>1, Invariance, PTL

\* No directory is ever listed by two workers or listed twice.
THEOREM TakenOnceCorrect == Spec => TakenOnce
PROOF
<1>1. IInv /\ [Next]_vars => [Once]_vars
  BY LawsHold, OnceStep
<1> QED
  BY <1>1, Invariance, PTL DEF Spec, TakenOnce, Once

----------------------------------------------------------------------------
(* What the threads do together.                                           *)

\* The threads start with nothing open, nothing batched and nothing handled.
LEMMA InitWalkInv ==
  ASSUME Laws, Init
  PROVE  WalkInv
PROOF
<1>1. /\ queue = <<>> /\ fds = {} /\ scanned = {} /\ searched = {} /\ dropped = {}
      /\ written = {} /\ lost = {} /\ ~unwound /\ pc[Main] = "run"
      /\ \A t \in Thread : /\ dir_fd[t] = None /\ next_file[t] = None /\ batch[t] = {}
                           /\ buffer[t] = {} /\ local_dir_queue[t] = <<>>
                           /\ pc[t] \in {"run", "idle"}
  BY ProcessorAssumption DEF Init
<1>2. Range(queue) = {} /\ Held = {} /\ Reading = {} /\ Searching = {}
  BY SMT, <1>1 DEF Held, Opened, Reading, Searching, Range
<1>3. BatchInv /\ FileInv /\ UnreadInv
  BY <1>1 DEF BatchInv, FileInv, UnreadInv
<1>4. CoverInv
  BY <1>1, ProcessorAssumption DEF Init, CoverInv, Children, Entry
<1>5. FdsExact
  BY <1>1, <1>2 DEF FdsExact, InUse
<1>6. OutputInv
  BY <1>1 DEF OutputInv, Ending
<1> QED
  BY <1>3, <1>4, <1>5, <1>6 DEF WalkInv, TreeInv

\* The invariant of the walk holds in every reachable state.
THEOREM WalkInvariance == Spec => []WalkInv
PROOF
<1>1. IInv /\ WalkInv /\ [Next]_vars => WalkInv'
  BY LawsHold, TreeStep, OutputStep DEF WalkInv, TreeInv
<1>2. Init => WalkInv
  BY LawsHold, InitWalkInv
<1> QED
  BY <1>1, <1>2, Invariance, PTL DEF Spec

\* The open descriptors are those of the queue and the threads, in every state.
THEOREM FdsCorrect == Spec => []FdsExact
PROOF
<1>1. WalkInv => FdsExact
  BY DEF WalkInv, TreeInv
<1> QED
  BY <1>1, WalkInvariance, PTL

\* A walk that ends without an exception missed no entry and left no descriptor open.
THEOREM WalkCompleteCorrect == Spec => []WalkComplete
PROOF
<1>1. IInv /\ WalkInv /\ StopOnlyWhenDone => WalkComplete
  BY WalkDone DEF WalkInv
<1> QED
  BY <1>1, Invariance, WalkInvariance, StopCorrect, PTL

\* No match is left behind in a thread's batch when the process ends.
THEOREM MatchesWrittenCorrect == Spec => []MatchesWritten
PROOF
<1>1. ASSUME WalkInv PROVE MatchesWritten
  <2>1. OutputInv
    BY <1>1 DEF WalkInv
  <2>2. ASSUME pc[Main] = "exit" PROVE \A t \in Thread : buffer[t] = {}
    BY <2>1, <2>2 DEF OutputInv, Ending
  <2>3. pc[Main] = "exit" => UNION {buffer[t] : t \in Thread} = {}
    BY <2>2
  <2> QED
    BY <2>1, <2>3 DEF OutputInv, MatchesWritten
<1> QED
  BY <1>1, WalkInvariance, PTL

\* The threads, their queue and their counter implement the abstract traversal.
THEOREM Refinement == Spec => ImplementsTraversal
PROOF
<1>1. Init => T!Init
  <2>1. ASSUME Init PROVE T!Init
    <3>1. /\ queue = <<>> /\ pc[Main] = "run" /\ ~unwound
          /\ \A t \in Thread : dir_fd[t] = None /\ local_dir_queue[t] = <<>>
          /\ scanned = {} /\ searched = {} /\ dropped = {}
      BY <2>1, ProcessorAssumption DEF Init
    <3>2. WalkOpen = {}
      BY SMT, <3>1 DEF WalkOpen, Listed, Opened, Range
    <3> QED
      BY <3>1, <3>2 DEF T!Init, WalkStatus
  <2> QED
    BY <2>1
<1>2. IInv /\ WalkInv /\ [Next]_vars /\ StopOnlyWhenDone' => [T!Next]_(T!avars)
  <2>1. IInv => HoldersCounted
    BY LawsHold, HolderCounted DEF IInv, HoldersCounted
  <2> QED
    BY <2>1, LawsHold, TraversalStep DEF WalkInv
<1> QED
  BY <1>1, <1>2, Invariance, WalkInvariance, StopCorrect, PTL DEF Spec, ImplementsTraversal, T!Spec
=============================================================================
