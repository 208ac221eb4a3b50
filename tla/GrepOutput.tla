----------------------------- MODULE GrepOutput -----------------------------
(***************************************************************************)
(* What a worker of grep does with one file: ReadFile hands it on in       *)
(* chunks, VectorScan or Re2 finds the lines that match in a chunk, Batch  *)
(* collects the lines and Write sends a full batch to stdout under the     *)
(* mutex all workers share.  A character of the output is <<worker,        *)
(* position in its file>>, and <<worker, 0>> for the newline added after   *)
(* each line.                                                              *)
(***************************************************************************)
EXTENDS Integers, Sequences, SequencesExt, FiniteSets, FiniteSetsExt

CONSTANTS
  Worker,
  Brief,       \* workers whose files have at most one character
  MaxText,     \* longest file of the others
  MaxSize,     \* max_size of ReadFile
  BufferSize,  \* buffer_size of Batch
  Matcher,     \* "vectorscan", "re2"
  Faults,      \* "read", "scan", "write": these may fail; "short": calls may be short
  None

ASSUME GrepOutputAssumption ==
  /\ MaxText \in Nat /\ {MaxSize, BufferSize} \subseteq Nat \ {0}
  /\ Matcher \subseteq {"vectorscan", "re2"}
  /\ Faults \subseteq {"read", "scan", "write", "short"}
  /\ Brief \subseteq Worker /\ None \notin Worker

VARIABLES
  matcher,
  pc,
  text,         \* the file: "x", or "n" for a newline
  read_amount,  \* the chunk is the characters read_amount + 1 to chunk
  chunk,
  ends,         \* ctx.matches: match ends still to be reported, in order
  remaining,    \* characters of the file before the view remaining of Re2
  piece,        \* the newline that follows the line just batched
  buffer_,
  amount,       \* write_amount
  mutex,
  out,
  sent,         \* the batches written so far
  lines         \* the matches reported so far, with their chunks

readVars == <<matcher, text, read_amount, chunk>>
matchVars == <<ends, remaining, piece, lines>>
writeVars == <<buffer_, amount, mutex, out, sent>>
vars == <<pc, readVars, matchVars, writeVars>>

Init ==
  /\ matcher \in Matcher
  /\ pc = [t \in Worker |-> "read"]
  /\ text \in [Worker -> UNION {[1..n -> {"x", "n"}] : n \in 0..MaxText}]
  /\ \A t \in Brief : Len(text[t]) <= 1
  /\ read_amount = [t \in Worker |-> 0] /\ chunk = read_amount /\ remaining = read_amount
  /\ ends = [t \in Worker |-> <<>>] /\ piece = ends /\ lines = ends /\ buffer_ = ends
  /\ amount = [t \in Worker |-> 0]
  /\ mutex = None /\ out = <<>> /\ sent = <<>>

-----------------------------------------------------------------------------
(* ReadFile.                                                               *)

Goto(t, label) == pc' = [pc EXCEPT ![t] = label]

\* pread, and hs_scan, which may report any set of ends.
Read(t) ==
  /\ pc[t] = "read" /\ read_amount[t] < Len(text[t])
  /\ LET most == Min({MaxSize, Len(text[t]) - read_amount[t]}) IN
       \E n \in IF "short" \in Faults THEN 1..most ELSE {most} :
         /\ chunk' = [chunk EXCEPT ![t] = read_amount[t] + n]
         /\ IF matcher = "re2" THEN UNCHANGED ends ELSE
              \E found \in SUBSET ((read_amount[t] + 1)..(read_amount[t] + n)) :
                ends' = [ends EXCEPT ![t] = SetToSortSeq(found, <)]
  /\ remaining' = [remaining EXCEPT ![t] = read_amount[t]]
  /\ Goto(t, "scan")
  /\ UNCHANGED <<matcher, text, read_amount, piece, lines, writeVars>>

\* pread or the matcher fails; execute throws.
ReadFails(t) ==
  /\ pc[t] = "read"
  /\ "read" \in Faults \/ ("scan" \in Faults /\ read_amount[t] < Len(text[t]))
  /\ Goto(t, "failed")
  /\ UNCHANGED <<readVars, matchVars, writeVars>>

\* The end of the file, and the flush at the end of worker.
Flush(t) ==
  /\ pc[t] = "read" /\ read_amount[t] = Len(text[t])
  /\ Goto(t, "lock_last")
  /\ UNCHANGED <<readVars, matchVars, writeVars>>

EndChunk(t) ==
  /\ pc[t] = "scan" /\ piece[t] = <<>> /\ ends[t] = <<>>
  /\ matcher = "re2" => remaining[t] = chunk[t]
  /\ read_amount' = [read_amount EXCEPT ![t] = chunk[t]]
  /\ Goto(t, "read")
  /\ UNCHANGED <<matcher, text, chunk, matchVars, writeVars>>

-----------------------------------------------------------------------------
(* VectorScan and Re2.                                                     *)

Newlines(t, S) == {k \in S : text[t][k] = "n"}

\* find_last_of in the text before match_end, find from match_end on.
LineStart(t, match_end) ==
  LET previous == Newlines(t, (read_amount[t] + 1)..match_end)
  IN  IF previous = {} THEN read_amount[t] + 1 ELSE Max(previous) + 1

\* Faulty variant: the search for the next newline starts before the match end.
LineEndBefore(t, match_end) ==
  LET next == Newlines(t, match_end..chunk[t]) IN IF next = {} THEN chunk[t] ELSE Min(next) - 1

LineEnd(t, match_end) ==
  LET next == Newlines(t, (match_end + 1)..chunk[t])
  IN  IF next = {} THEN chunk[t] ELSE Min(next) - 1

Line(t, start, end) == [k \in 1..(end - start + 1) |-> <<t, start + k - 1>>]

\* Batch::operator()(data): append, and write when the buffer is full.
Append_(t, data) ==
  /\ buffer_' = [buffer_ EXCEPT ![t] = @ \o data]
  /\ Goto(t, IF Len(buffer_'[t]) >= BufferSize THEN "lock" ELSE "scan")
  /\ UNCHANGED <<readVars, amount, mutex, out, sent>>

\* next(line), which next("\n") follows.
PassLine(t, start, end, match) ==
  /\ Append_(t, Line(t, start, end))
  /\ piece' = [piece EXCEPT ![t] = <<<<t, 0>>>>]
  /\ lines' = [lines EXCEPT ![t] =
       Append(@, [at |-> match, from |-> read_amount[t] + 1, to |-> chunk[t]])]

\* The next match of VectorScan.
BatchLine(t) ==
  /\ pc[t] = "scan" /\ piece[t] = <<>> /\ ends[t] # <<>>
  /\ LET e == Head(ends[t]) IN PassLine(t, LineStart(t, e), LineEnd(t, e), e)
  /\ ends' = [ends EXCEPT ![t] = Tail(@)]
  /\ UNCHANGED remaining

\* The next line of Re2, which matches or not; an empty one is not tried.
Re2Line(t) ==
  /\ pc[t] = "scan" /\ matcher = "re2" /\ piece[t] = <<>> /\ remaining[t] < chunk[t]
  /\ LET end == LineEnd(t, remaining[t]) IN
       /\ remaining' = [remaining EXCEPT ![t] = Min({end + 1, chunk[t]})]
       /\ \/ end > remaining[t] /\ PassLine(t, remaining[t] + 1, end, remaining[t] + 1)
          \/ UNCHANGED <<pc, readVars, writeVars, piece, lines>>
  /\ UNCHANGED ends

BatchNewline(t) ==
  /\ pc[t] = "scan" /\ piece[t] # <<>>
  /\ Append_(t, piece[t])
  /\ piece' = [piece EXCEPT ![t] = <<>>]
  /\ UNCHANGED <<ends, remaining, lines>>

-----------------------------------------------------------------------------
(* Write.                                                                  *)

Writing(t) == pc[t] \in {"write", "write_last"}

\* Faulty variant: no mutex.
LockNothing(t) ==
  /\ pc[t] \in {"lock", "lock_last"}
  /\ pc' = [pc EXCEPT ![t] = IF @ = "lock" THEN "write" ELSE "write_last"]
  /\ amount' = [amount EXCEPT ![t] = 0]
  /\ UNCHANGED <<readVars, matchVars, buffer_, mutex, out, sent>>

Lock(t) ==
  /\ pc[t] \in {"lock", "lock_last"} /\ mutex = None
  /\ mutex' = t
  /\ pc' = [pc EXCEPT ![t] = IF @ = "lock" THEN "write" ELSE "write_last"]
  /\ amount' = [amount EXCEPT ![t] = 0]
  /\ UNCHANGED <<readVars, matchVars, buffer_, out, sent>>

WriteSome(t) ==
  /\ Writing(t) /\ amount[t] < Len(buffer_[t])
  /\ LET left == Len(buffer_[t]) - amount[t] IN
       \E n \in IF "short" \in Faults THEN 1..left ELSE {left} :
         /\ out' = out \o SubSeq(buffer_[t], amount[t] + 1, amount[t] + n)
         /\ amount' = [amount EXCEPT ![t] = @ + n]
  /\ UNCHANGED <<pc, readVars, matchVars, buffer_, mutex, sent>>

\* The sink returns and Batch clears the buffer.
EndWrite(t) ==
  /\ pc[t] = "write" /\ amount[t] = Len(buffer_[t])
  /\ sent' = Append(sent, buffer_[t])
  /\ mutex' = None
  /\ buffer_' = [buffer_ EXCEPT ![t] = <<>>]
  /\ amount' = [amount EXCEPT ![t] = 0]
  /\ Goto(t, "scan")
  /\ UNCHANGED <<readVars, matchVars, out>>

\* The last flush leaves the buffer as it is.
EndFlush(t) ==
  /\ pc[t] = "write_last" /\ amount[t] = Len(buffer_[t])
  /\ sent' = Append(sent, buffer_[t])
  /\ mutex' = None
  /\ Goto(t, "done")
  /\ UNCHANGED <<readVars, matchVars, buffer_, amount, out>>

\* Faulty variant: a return that leaves the mutex locked.
WriteFailsLocked(t) ==
  /\ Writing(t) /\ amount[t] < Len(buffer_[t]) /\ "write" \in Faults
  /\ sent' = Append(sent, SubSeq(buffer_[t], 1, amount[t]))
  /\ Goto(t, "failed")
  /\ UNCHANGED <<readVars, matchVars, buffer_, amount, mutex, out>>

\* The error goes up to execute, which throws; the result of the last flush is ignored.
WriteFails(t) ==
  /\ Writing(t) /\ amount[t] < Len(buffer_[t]) /\ "write" \in Faults
  /\ sent' = Append(sent, SubSeq(buffer_[t], 1, amount[t]))
  /\ mutex' = None
  /\ Goto(t, "failed")
  /\ UNCHANGED <<readVars, matchVars, buffer_, amount, out>>

Step(t) ==
  \/ Read(t) \/ ReadFails(t) \/ Flush(t) \/ EndChunk(t)
  \/ BatchLine(t) \/ Re2Line(t) \/ BatchNewline(t)
  \/ Lock(t) \/ WriteSome(t) \/ EndWrite(t) \/ EndFlush(t) \/ WriteFails(t)

Next == \E t \in Worker : Step(t)

\* Threads are scheduled; a worker locks the mutex finitely often, so weak fairness is
\* enough for the one that waits.
Spec == Init /\ [][Next]_vars /\ \A t \in Worker : WF_vars(Step(t))

-----------------------------------------------------------------------------

\* The characters of the line a match is in, defined without searches: those of its chunk
\* with no newline between them and the match.
Same(t, m) ==
  {p \in m.from..m.to : Newlines(t, IF p <= m.at THEN p..m.at ELSE (m.at + 1)..p) = {}}

\* The lines of the matches a worker has reported, each followed by a newline.
Reported(t) ==
  FlattenSeq([k \in 1..Len(lines[t]) |->
    LET line == Same(t, lines[t][k]) IN
      [j \in 1..Cardinality(line) |-> <<t, Min(line) + j - 1>>]
      \o (IF k = Len(lines[t]) /\ piece[t] # <<>> THEN <<>> ELSE <<<<t, 0>>>>)])

\* Of each worker, stdout and its batch together hold the lines its matches so far are in,
\* each match once and in order, also where a match ends on a newline or at an end of a
\* chunk (VectorScanNode, Re2RegexNode, BatchNode): no line is lost or repeated when a
\* batch is full, when a read or write is short or when another worker writes in between.
\* A line that a chunk of ReadFileNode cuts is reported as the part in the match's chunk.
LinesKept ==
  \A t \in Worker :
    /\ SelectSeq(out, LAMBDA c : c[1] = t) \o SubSeq(buffer_[t], amount[t] + 1, Len(buffer_[t]))
         = Reported(t)
    /\ \A k \in DOMAIN lines[t] : k > 1 => lines[t][k - 1].at < lines[t][k].at

\* stdout is a sequence of whole batches, and the part of the one being written: a batch is
\* never interleaved with the batch of another worker, even when its writes are short.
BatchesWhole ==
  out = FlattenSeq(sent) \o (IF mutex = None THEN <<>> ELSE SubSeq(buffer_[mutex], 1, amount[mutex]))

\* Every worker gets to the end of its file or to an error, also when another fails inside
\* write while it holds the mutex.
WorkersEnd == \A t \in Worker : <>(pc[t] \in {"done", "failed"})
=============================================================================
