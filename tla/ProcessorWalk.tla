--------------------------- MODULE ProcessorWalk ---------------------------
(***************************************************************************)
(* What the threads of Processor do together: which descriptors are open,  *)
(* what was visited and written when the process ends, and that the walk   *)
(* implements the specification of a traversal.                            *)
(***************************************************************************)
EXTENDS Processor

\* The directories queued, opened or being listed and the files being searched.
Reading == {dir_fd[t] : t \in {u \in Thread : pc[u] # "subtract"}} \ {None}
Searching == {next_file[t] : t \in Thread} \ {None}
Held == UNION {Opened(t) : t \in Thread}
InUse == Range(queue) \cup Held \cup Reading \cup Searching

\* The open descriptors are those in use by the queue and the threads: nothing in
\* use is closed, and a walk that runs leaves nothing open.  After an exception left
\* run() they are those worker()'s locals named: nobody closes them any more.
FdsExact == fds = InUse

\* When the process ends without an exception every descriptor was closed, the
\* start directory was listed, and every entry of a listed directory was
\* handled or given up on by a failed system call.
WalkComplete ==
  pc[Main] = "exit" /\ ~unwound =>
    /\ fds = {} /\ Root \in scanned
    /\ \A e \in Entry : Parent[e] \in scanned =>
                          e \in scanned \cup searched \cup dropped \cup Other

\* When run() and ~Processor have ended, and std::terminate did not cut them short,
\* the matches of every searched file were written, or discarded by an
\* exception of run() or the failed write of a batch: whichever thread batched them,
\* none stays behind in a batch that nobody flushes.
MatchesWritten ==
  /\ pc[Main] = "exit" => searched = written \cup lost /\ written \cap lost = {}
  /\ lost # {} => unwound \/ "write" \in Faults

----------------------------------------------------------------------------
(* The walk implements the specification of a traversal.                   *)

WalkStatus ==
  IF unwound THEN "failed"
  ELSE IF pc[Main] = "run" THEN "idle"
  ELSE IF running THEN "walking" ELSE "finished"

T == INSTANCE Traversal WITH open <- WalkOpen, status <- WalkStatus

\* Every behaviour of the threads is one of the abstract traversal: each directory is entered
\* once and left when nothing in it is unhandled, each file is searched once, and the walk
\* finishes only with no directory open (Traversal), whatever fails.
ImplementsTraversal == T!Spec

----------------------------------------------------------------------------
(* The invariant behind them.                                              *)

\* A batch holds entries of the directory being listed, none of them handled.
BatchInv ==
  \A t \in Thread :
    /\ batch[t] # {} => dir_fd[t] # None /\ batch[t] \subseteq Children(dir_fd[t])
    /\ pc[t] \notin {"entry", "execute"} /\ ~(t = Main /\ unwound) => batch[t] = {}
    /\ batch[t] \cap (searched \cup dropped) = {}

\* So does the file being searched.
FileInv ==
  \A t \in Thread :
    /\ pc[t] # "execute" /\ ~(t = Main /\ unwound) => next_file[t] = None
    /\ next_file[t] # None =>
         /\ dir_fd[t] # None /\ Parent[next_file[t]] = dir_fd[t]
         /\ next_file[t] \notin searched \cup dropped \cup unread[dir_fd[t]] \cup batch[t]

\* What getdents64 has not returned was not handled either, unless it failed.
UnreadInv ==
  /\ \A e \in searched : e \notin unread[Parent[e]]
  /\ \A e \in dropped : e \in unread[Parent[e]] =>
       \/ Parent[e] \in scanned
       \/ \E t \in Thread : dir_fd[t] = Parent[e] /\ pc[t] \in {"close", "subtract"}
  /\ \A t \in Thread : pc[t] \in {"close", "subtract"} =>
       unread[dir_fd[t]] \subseteq dropped \cup Other

\* Every entry is somewhere, and handled once its directory was listed.
WalkHandled == WalkOpen \cup scanned \cup searched \cup dropped \cup Other

CoverInv ==
  /\ \A e \in Entry \ WalkHandled :
       /\ Parent[e] \notin scanned
       /\ e \in unread[Parent[e]] \/ \E t \in Thread : e \in batch[t] \/ e = next_file[t]
  /\ pc[Main] # "run" /\ ~unwound => Root \in WalkOpen \cup scanned

\* The matches of a searched file are written, discarded or in a live batch.
OutputInv ==
  /\ searched = written \cup lost \cup UNION {buffer[t] : t \in Thread}
  /\ written \cap lost = {}
  /\ ~aborted => \A t \in Thread : /\ buffer[t] \cap (written \cup lost) = {}
                                   /\ \A u \in Thread \ {t} : buffer[t] \cap buffer[u] = {}
  /\ lost # {} => unwound \/ "write" \in Faults
  /\ \A t \in Thread : pc[t] \in {"idle", "done"} \cup Ending => buffer[t] = {}
  /\ pc[Main] = "exit" => \A t \in Thread \ {Main} : pc[t] \in {"idle", "done"}

\* Where each entry and each descriptor is: it carries completeness and the refinement of
\* Traversal.
TreeInv == BatchInv /\ FileInv /\ UnreadInv /\ CoverInv /\ FdsExact

\* What every step preserves beside IInv.
WalkInv == TreeInv /\ OutputInv
=============================================================================
