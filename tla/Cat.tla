-------------------------------- MODULE Cat --------------------------------
(***************************************************************************)
(* The command cat of src/src/commands/cat.h with the pipelines it runs:   *)
(* CopyFileRange, DirectSplice, Splice | Splice, ReadFile | Write and      *)
(* ReadFile | TreeSitter | Write.  A byte of the file is its position, 1   *)
(* for the first.  Another process may change the length of the file while *)
(* cat runs, and every transfer may be short.                              *)
(***************************************************************************)
EXTENDS Integers, Sequences, SequencesExt, FiniteSets, FiniteSetsExt

CONSTANTS
  MaxLength,  \* bound on the length of the file
  MaxChunk,   \* max_chunk, pipe_size and max_size
  InMode,     \* kinds of input: "PROC" is a regular file with st_size 0
  OutMode,    \* kinds of stdout
  Faults      \* the system calls that may fail, "short" and "resize"

Fault == {"openat", "statx", "fadvise", "pipe", "in", "out", "short", "resize"}

ASSUME CatAssumption ==
  /\ MaxLength \in Nat /\ MaxChunk \in Nat \ {0}
  /\ InMode \subseteq {"REG", "PROC", "FIFO", "CHR", "DIR"}
  /\ OutMode \subseteq {"REG", "FIFO", "CHR", "SOCK"}
  /\ Faults \subseteq Fault

VARIABLES
  pc,
  in_mode, out_mode, colour_output,
  length,        \* bytes in the file now
  resized,
  size,          \* stx_size when cat looked
  route,         \* the pipeline chosen
  offset,        \* of the source
  chunk_size, sent_this_iter,
  pipe,          \* bytes in the pipe between the two Splice nodes
  buffer,        \* what the sink Write is given
  write_amount,  \* of the sink
  out            \* what stdout has received; 0 is an escape sequence

fileVars == <<length, resized>>
modeVars == <<in_mode, out_mode, colour_output>>
vars == <<pc, modeVars, fileVars, size, route, offset, chunk_size,
          sent_this_iter, pipe, buffer, write_amount, out>>

Init ==
  /\ pc = "open"
  /\ in_mode \in InMode /\ out_mode \in OutMode /\ colour_output \in BOOLEAN
  /\ length \in 0..MaxLength /\ resized = FALSE
  /\ size = 0 /\ route = "none" /\ offset = 0 /\ chunk_size = 0 /\ sent_this_iter = 0
  /\ pipe = <<>> /\ buffer = <<>> /\ write_amount = 0 /\ out = <<>>

Bytes(from, n) == [k \in 1..n |-> from + k]

\* A runtime_error leaves cat.
Throw ==
  /\ pc' = "threw"
  /\ UNCHANGED <<modeVars, fileVars, size, route, offset, chunk_size, sent_this_iter,
                 pipe, buffer, write_amount, out>>

-----------------------------------------------------------------------------
(* Opening and the choice of a pipeline.                                   *)

OpenFile ==
  /\ pc = "open" /\ in_mode # "FIFO"
  /\ size' = IF in_mode \in {"REG", "DIR"} THEN length ELSE 0
  /\ pc' = "choose"
  /\ UNCHANGED <<modeVars, fileVars, route, offset, chunk_size, sent_this_iter,
                 pipe, buffer, write_amount, out>>

\* openat of a FIFO returns once some process opens it for writing, and posix_fadvise then
\* refuses it.
OpenFileThrows ==
  /\ pc = "open"
  /\ in_mode = "FIFO" \/ Faults \cap {"openat", "statx", "fadvise"} # {}
  /\ Throw

S_ISREG(mode) == mode \in {"REG", "PROC"}

can_copy_file_range == S_ISREG(in_mode) /\ S_ISREG(out_mode)
can_middleman_splice == out_mode \in {"CHR", "REG"}
can_direct_pipe == out_mode = "FIFO"

\* A terminal is a character device, so is_terminal_output() adds nothing where it is asked.
Route ==
  IF can_copy_file_range THEN "copy_file_range"
  ELSE IF can_direct_pipe THEN "direct_splice"
  ELSE IF can_middleman_splice THEN "splice"
  ELSE IF colour_output THEN "coloured" ELSE "plain"

Choose ==
  /\ pc = "choose"
  /\ route' = Route
  /\ pc' = "loop"
  /\ UNCHANGED <<modeVars, fileVars, size, offset, chunk_size, sent_this_iter,
                 pipe, buffer, write_amount, out>>

\* statx of stdout, pipe or F_SETPIPE_SZ fails.
ChooseThrows ==
  /\ pc = "choose"
  /\ "statx" \in Faults \/ ("pipe" \in Faults /\ Route \in {"direct_splice", "splice"})
  /\ Throw

-----------------------------------------------------------------------------
(* Transfers.  The kernel moves at most want bytes from position from on.  *)

Available(from) == IF from < length THEN length - from ELSE 0

Moves(want, from) ==
  LET most == Min({want, Available(from)})
  IN  IF most > 0 /\ "short" \in Faults THEN 1..most ELSE {most}

Chunk == Min({MaxChunk, size - offset})

\* A directory has no bytes to transfer: the call fails.
InFails == in_mode = "DIR" \/ "in" \in Faults

Transfers == route \in {"copy_file_range", "direct_splice", "splice"}

\* Faulty variant: a transfer of nothing does not end the loop.
EndLoopAtSizeOnly ==
  /\ pc = "loop"
  /\ \/ Transfers /\ offset = size
     \/ ~Transfers /\ in_mode # "DIR" /\ Available(offset) = 0
  /\ pc' = "done"
  /\ UNCHANGED <<modeVars, fileVars, size, route, offset, chunk_size, sent_this_iter,
                 pipe, buffer, write_amount, out>>

\* The loop test offset != size, or nothing moved.
EndLoop ==
  /\ pc = "loop"
  /\ \/ Transfers /\ (offset = size \/ (in_mode # "DIR" /\ Available(offset) = 0))
     \/ ~Transfers /\ in_mode # "DIR" /\ Available(offset) = 0
  /\ pc' = "done"
  /\ UNCHANGED <<modeVars, fileVars, size, route, offset, chunk_size, sent_this_iter,
                 pipe, buffer, write_amount, out>>

SourceThrows ==
  /\ pc = "loop" /\ InFails
  /\ Transfers => offset # size
  /\ Throw

\* copy_file_range, or splice into stdout.
CopyChunk ==
  /\ pc = "loop" /\ route \in {"copy_file_range", "direct_splice"} /\ in_mode # "DIR"
  /\ offset # size
  /\ \E n \in Moves(Chunk, offset) \ {0} :
       /\ out' = out \o Bytes(offset, n)
       /\ offset' = offset + n
  /\ UNCHANGED <<pc, modeVars, fileVars, size, route, chunk_size, sent_this_iter,
                 pipe, buffer, write_amount>>

\* Faulty variants: the sink asked for one byte less than the source sent; a sink that
\* starts over after a short write.
SpliceInOneLess ==
  /\ pc = "loop" /\ route = "splice" /\ in_mode # "DIR" /\ offset # size
  /\ \E n \in Moves(Chunk, offset) \ {0} :
       /\ pipe' = pipe \o Bytes(offset, n)
       /\ sent_this_iter' = n /\ chunk_size' = n - 1
  /\ write_amount' = 0
  /\ pc' = "sink"
  /\ UNCHANGED <<modeVars, fileVars, size, route, offset, buffer, out>>

WriteAgain ==
  /\ pc = "write" /\ write_amount < Len(buffer)
  /\ \E n \in IF "short" \in Faults THEN 1..(Len(buffer) - write_amount)
                                    ELSE {Len(buffer) - write_amount} :
       /\ out' = out \o SubSeq(buffer, 1, n)
       /\ write_amount' = write_amount + n
  /\ UNCHANGED <<pc, modeVars, fileVars, size, route, offset, chunk_size, sent_this_iter,
                 pipe, buffer>>

\* splice into the pipe; the sink is then called with chunk_size, not sent_this_iter.
SpliceIn ==
  /\ pc = "loop" /\ route = "splice" /\ in_mode # "DIR" /\ offset # size
  /\ \E n \in Moves(Chunk, offset) \ {0} :
       /\ pipe' = pipe \o Bytes(offset, n)
       /\ sent_this_iter' = n /\ chunk_size' = Chunk
  /\ write_amount' = 0
  /\ pc' = "sink"
  /\ UNCHANGED <<modeVars, fileVars, size, route, offset, buffer, out>>

\* splice out of the pipe blocks while the pipe is empty: cat holds its write end open.
SpliceOut ==
  /\ pc = "sink" /\ write_amount < chunk_size /\ pipe # <<>>
  /\ LET most == Min({chunk_size, Len(pipe)}) IN
       \E n \in IF "short" \in Faults THEN 1..most ELSE {most} :
         /\ out' = out \o SubSeq(pipe, 1, n)
         /\ pipe' = SubSeq(pipe, n + 1, Len(pipe))
         /\ write_amount' = write_amount + n
  /\ UNCHANGED <<pc, modeVars, fileVars, size, route, offset, chunk_size, sent_this_iter, buffer>>

EndSpliceOut ==
  /\ pc = "sink" /\ write_amount >= chunk_size
  /\ offset' = offset + sent_this_iter
  /\ pc' = "loop"
  /\ UNCHANGED <<modeVars, fileVars, size, route, chunk_size, sent_this_iter,
                 pipe, buffer, write_amount, out>>

-----------------------------------------------------------------------------
(* ReadFile, TreeSitter and Write.                                         *)

\* What TreeSitter makes of data: escape sequences in front of some bytes and at the end.
Formatted(data, marks) ==
  Append(FlattenSeq([k \in 1..Len(data) |-> IF k \in marks THEN <<0, data[k]>> ELSE <<data[k]>>]), 0)

ReadChunk ==
  /\ pc = "loop" /\ ~Transfers /\ in_mode # "DIR"
  /\ \E n \in Moves(MaxChunk, offset) \ {0} :
       /\ sent_this_iter' = n
       /\ \/ route = "plain" /\ buffer' = Bytes(offset, n)
          \/ route = "coloured" /\ \E marks \in SUBSET (1..n) : buffer' = Formatted(Bytes(offset, n), marks)
  /\ write_amount' = 0
  /\ pc' = "write"
  /\ UNCHANGED <<modeVars, fileVars, size, route, offset, chunk_size, pipe, out>>

Write ==
  /\ pc = "write" /\ write_amount < Len(buffer)
  /\ \E n \in IF "short" \in Faults THEN 1..(Len(buffer) - write_amount)
                                    ELSE {Len(buffer) - write_amount} :
       /\ out' = out \o SubSeq(buffer, write_amount + 1, write_amount + n)
       /\ write_amount' = write_amount + n
  /\ UNCHANGED <<pc, modeVars, fileVars, size, route, offset, chunk_size, sent_this_iter,
                 pipe, buffer>>

\* Faulty variant: the offset advances by the size of the buffer, not by what was read.
EndWriteByMax ==
  /\ pc = "write" /\ write_amount = Len(buffer)
  /\ offset' = offset + MaxChunk
  /\ buffer' = <<>>
  /\ pc' = "loop"
  /\ UNCHANGED <<modeVars, fileVars, size, route, chunk_size, sent_this_iter,
                 pipe, write_amount, out>>

EndWrite ==
  /\ pc = "write" /\ write_amount = Len(buffer)
  /\ offset' = offset + sent_this_iter
  /\ buffer' = <<>>
  /\ pc' = "loop"
  /\ UNCHANGED <<modeVars, fileVars, size, route, chunk_size, sent_this_iter,
                 pipe, write_amount, out>>

SinkThrows ==
  /\ "out" \in Faults
  /\ \/ pc = "sink" /\ write_amount < chunk_size
     \/ pc = "write" /\ write_amount < Len(buffer)
  /\ Throw

\* Another process truncates the file or appends to it, once.
Resize ==
  /\ "resize" \in Faults /\ ~resized /\ in_mode = "REG"
  /\ \E n \in 0..MaxLength : n # length /\ length' = n
  /\ resized' = TRUE
  /\ UNCHANGED <<pc, modeVars, size, route, offset, chunk_size, sent_this_iter,
                 pipe, buffer, write_amount, out>>

Command ==
  \/ OpenFile \/ OpenFileThrows \/ Choose \/ ChooseThrows
  \/ CopyChunk \/ SpliceIn \/ SpliceOut \/ EndSpliceOut
  \/ ReadChunk \/ Write \/ EndWrite \/ EndLoop \/ SourceThrows \/ SinkThrows

Next == Command \/ Resize

Spec == Init /\ [][Next]_vars

-----------------------------------------------------------------------------

Content(s) == SelectSeq(s, LAMBDA b : b # 0)

\* Whatever pipeline runs, stdout has received the bytes of the file from the first one on,
\* in order, without a gap or a repetition: after short transfers, after an error and while
\* another process changes the file.
OutputIsPrefix == Content(out) = Bytes(0, Len(Content(out)))

\* When cat returns and nobody changed the file, stdout has all of it if it was read, and
\* the st_size bytes statx promised if it was transferred (none for a file of /proc or a
\* character device).
WholeFileOutput ==
  pc = "done" /\ ~resized => Len(Content(out)) = IF Transfers THEN size ELSE length

\* Nothing stays behind in the pipe between the two Splice nodes from one chunk to the
\* next, or when cat returns.
PipeDrained == pc \in {"loop", "done"} => pipe = <<>>
=============================================================================
