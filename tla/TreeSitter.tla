---------------------------- MODULE TreeSitter -----------------------------
(***************************************************************************)
(* TreeSitterNode of src/src/transform/tree_sitter.h: the captures of the  *)
(* highlighting query paint a mask over the data, later ones over earlier  *)
(* ones, and the data is output run by run with an escape sequence in      *)
(* front of each coloured run.  A byte is its position; the parser and the *)
(* query are external, so the captures are any intervals.                  *)
(***************************************************************************)
EXTENDS Integers, Sequences, SequencesExt, FiniteSetsExt

CONSTANTS
  MaxData,     \* bound on the length of the data
  MaxCaptures, \* bound on the number of captures
  Faults       \* "create": a parser, query, cursor or tree is not made; "next": the sink fails

ASSUME TreeSitterAssumption ==
  MaxData \in Nat /\ MaxCaptures \in Nat /\ Faults \subseteq {"create", "next"}

VARIABLES
  pc,
  made,              \* the objects of the library made so far, in the order of Objects
  colour_mask,
  captures,          \* those the cursor has returned, in order
  index,
  formatted_buffer   \* bytes, colours and the reset

vars == <<pc, made, colour_mask, captures, index, formatted_buffer>>

Objects == <<"parser", "language", "query", "cursor", "tree">>

Name == {"keyword", "function", "string", "variable", "type"}

\* capture_colour; every other capture name has no colour.
Colour(name) ==
  CASE name = "keyword" -> 1 [] name = "function" -> 2 [] name = "string" -> 3
    [] name = "variable" -> 4 [] OTHER -> 0

Byte(k) == [kind |-> "byte", value |-> k]
Escape(c) == [kind |-> "colour", value |-> c]
Reset == [kind |-> "reset", value |-> 0]

\* colours[c]: nothing for colour 0.
Colours(c) == IF c = 0 THEN <<>> ELSE <<Escape(c)>>

Init ==
  /\ pc = "make" /\ made = 0
  /\ \E n \in 0..MaxData : colour_mask = [k \in 1..n |-> 0]
  /\ captures = <<>> /\ index = 0 /\ formatted_buffer = <<>>

Make ==
  /\ pc = "make"
  /\ made' = made + 1
  /\ pc' = IF made' = Len(Objects) THEN "paint" ELSE pc
  /\ UNCHANGED <<colour_mask, captures, index, formatted_buffer>>

\* The error return; the unique_ptrs delete what was made.
MakeFails ==
  /\ pc = "make" /\ "create" \in Faults
  /\ pc' = "failed" /\ made' = 0
  /\ UNCHANGED <<colour_mask, captures, index, formatted_buffer>>

\* The captures the cursor may return: a node of the tree is a range of the data.
Capture ==
  {c \in [name : Name, begin : 0..Len(colour_mask), end : 0..Len(colour_mask)] : c.begin <= c.end}

\* Faulty variant: memset starts one byte late.
PaintLate ==
  /\ pc = "paint" /\ Len(captures) < MaxCaptures
  /\ \E c \in Capture :
       /\ colour_mask' = [k \in DOMAIN colour_mask |->
            IF Colour(c.name) # 0 /\ k \in (c.begin + 2)..c.end THEN Colour(c.name) ELSE colour_mask[k]]
       /\ captures' = Append(captures, c)
  /\ UNCHANGED <<pc, made, index, formatted_buffer>>

\* One capture; a name without a colour leaves the mask alone.
Paint ==
  /\ pc = "paint" /\ Len(captures) < MaxCaptures
  /\ \E c \in Capture :
       /\ colour_mask' = [k \in DOMAIN colour_mask |->
            IF Colour(c.name) # 0 /\ k \in (c.begin + 1)..c.end THEN Colour(c.name) ELSE colour_mask[k]]
       /\ captures' = Append(captures, c)
  /\ UNCHANGED <<pc, made, index, formatted_buffer>>

EndPaint ==
  /\ pc = "paint"
  /\ pc' = "emit"
  /\ UNCHANGED <<made, colour_mask, captures, index, formatted_buffer>>

\* Where the run of equal colours that starts at index ends (chunk_by).
RunEnd ==
  CHOOSE e \in (index + 1)..Len(colour_mask) :
    /\ \A k \in (index + 1)..e : colour_mask[k] = colour_mask[index + 1]
    /\ e < Len(colour_mask) => colour_mask[e + 1] # colour_mask[e]

\* Faulty variant: an index that advances by one byte for each run.
EmitByOne ==
  /\ pc = "emit" /\ index < Len(colour_mask)
  /\ formatted_buffer' = formatted_buffer \o Colours(colour_mask[index + 1])
                         \o [k \in 1..(RunEnd - index) |-> Byte(index + k)]
  /\ index' = index + 1
  /\ UNCHANGED <<pc, made, colour_mask, captures>>

\* One run; Colour gives no id that colours lacks, so the error for an unknown one is dead.
Emit ==
  /\ pc = "emit" /\ index < Len(colour_mask)
  /\ formatted_buffer' = formatted_buffer \o Colours(colour_mask[index + 1])
                         \o [k \in 1..(RunEnd - index) |-> Byte(index + k)]
  /\ index' = RunEnd
  /\ UNCHANGED <<pc, made, colour_mask, captures>>

\* The reset, next(formatted_buffer) and the return.
EndEmit ==
  /\ pc = "emit" /\ index = Len(colour_mask)
  /\ formatted_buffer' = Append(formatted_buffer, Reset)
  /\ pc' \in {"done"} \cup IF "next" \in Faults THEN {"failed"} ELSE {}
  /\ made' = 0
  /\ UNCHANGED <<colour_mask, captures, index>>

Next == Make \/ MakeFails \/ Paint \/ EndPaint \/ Emit \/ EndEmit

Spec == Init /\ [][Next]_vars

-----------------------------------------------------------------------------

\* The colour a terminal shows the element at position j of the buffer in.
Shown(j) ==
  LET escapes == {i \in 1..(j - 1) : formatted_buffer[i].kind # "byte"}
  IN  IF escapes = {} THEN 0
      ELSE formatted_buffer[Max(escapes)].value

Bytes == {j \in DOMAIN formatted_buffer : formatted_buffer[j].kind = "byte"}

\* Without its escape sequences the output is the data up to index, each byte once and in
\* order, however the captures overlap (the chunk loop of operator()).
ContentKept ==
  SelectSeq(formatted_buffer, LAMBDA x : x.kind = "byte") = [k \in 1..index |-> Byte(k)]

\* The captures with a colour that cover byte k.
Covering(k) ==
  {m \in DOMAIN captures :
     Colour(captures[m].name) # 0 /\ k \in (captures[m].begin + 1)..captures[m].end}

\* A byte is shown in the colour of the last coloured capture that covers it, from its first
\* byte to its last, whatever captures overlap it and whatever runs precede it: the memset
\* of a capture and the runs of chunk_by together.
CapturesShown ==
  \A j \in Bytes :
    LET covering == Covering(formatted_buffer[j].value)
    IN  covering # {} => Shown(j) = Colour(captures[Max(covering)].name)

\* What the comment "no-colour" on colours[0] says: a byte that no capture coloured is
\* shown without a colour.
NoColourShown ==
  \A j \in Bytes : Covering(formatted_buffer[j].value) = {} => Shown(j) = 0
=============================================================================
