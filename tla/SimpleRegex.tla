---------------------------- MODULE SimpleRegex ----------------------------
(***************************************************************************)
(* SimpleRegexNode of src/src/transform/simple_regex.h and the sinks that  *)
(* take its lines, Cout and Write.  The matcher is external: occurrences   *)
(* are the intervals of the text that the expression matches.  An offset   *)
(* is the number of characters before it, so <<b, e>> holds the characters *)
(* b + 1 to e, and is empty when b = e.                                    *)
(***************************************************************************)
EXTENDS Integers, Sequences, SequencesExt, FiniteSets, FiniteSetsExt

CONSTANTS
  MaxText,  \* longest text
  Faults    \* "write": the sink fails; "regex": the matcher throws

VARIABLES
  node,         \* where operator() is
  sink,         \* "cout" or "write"
  text,         \* of "x", "n" (newline) and "r" (carriage return)
  occurrences,
  str,          \* offset of the string_view str, which ends where the text ends
  out,          \* the lines the sink was given: [start, end, newline]
  found

nodeVars == <<node, sink, text, occurrences, str, out, found>>

Text == UNION {[1..n -> {"x", "n", "r"}] : n \in 0..MaxText}
Intervals(n) == {i \in (0..n) \X (0..n) : i[1] <= i[2]}

\* None, one or two: enough to overlap, to touch and to be hidden by one another.
Occurrences(n) == {{}} \cup {{i, j} : i, j \in Intervals(n)}

NodeInit ==
  /\ node = "idle" /\ sink \in {"cout", "write"}
  /\ text = <<>> /\ occurrences = {} /\ str = 0 /\ out = <<>> /\ found = 0

\* operator()(data).
Begin(data) ==
  /\ node' = "search" /\ text' = data
  /\ occurrences' \in Occurrences(Len(data))
  /\ str' = 0 /\ out' = <<>> /\ found' = 0 /\ UNCHANGED sink

Newlines(S) == {k \in S : text[k] = "n"}

\* regex_search in str: a leftmost occurrence.
Found == {o \in occurrences : str <= o[1] /\ \A p \in occurrences : str <= p[1] => o[1] <= p[1]}

\* After the last newline before the match, else the start of str.
LineStart(o) == Max({str} \cup Newlines((str + 1)..o[1]))

\* Offset of the next newline, found from the end of the match on; Len(text) stands for npos.
\* Faulty variant: from its beginning on.
NextNewlineOfBegin(o) ==
  Min({Len(text)} \cup {k - 1 : k \in Newlines((o[1] + 1)..Len(text))})

NextNewline(o) ==
  Min({Len(text)} \cup {k - 1 : k \in Newlines((o[2] + 1)..Len(text))})

\* The loop that removes newlines and carriage returns from the front of the line.
Trimmed(start, end) ==
  Min({s \in start..end : s = end \/ text[s + 1] \notin {"n", "r"}})

\* Write adds a newline without looking at the result, Cout unless data.back() is one; of
\* an empty line that is undefined.
AddsNewline(start, end) ==
  CASE sink = "write" -> IF "write" \in Faults THEN BOOLEAN ELSE {TRUE}
    [] sink = "cout" /\ start = end -> BOOLEAN
    [] OTHER -> {text[end] # "n"}

\* data.back() of an empty line at the start of the text reads in front of the mapping, where
\* there may be nothing.
BackMayFault ==
  /\ node = "search" /\ sink = "cout"
  /\ \E o \in Found : NextNewline(o) = 0

\* One turn of the loop.  There is nothing in front of the text of an empty file, MAP_FAILED.
PassLine ==
  /\ node = "search" /\ (sink = "cout" => text # <<>>)
  /\ \E o \in Found :
       LET end == NextNewline(o) start == Trimmed(LineStart(o), end) IN
         /\ \E newline \in AddsNewline(start, end) :
              out' = Append(out, [start |-> start, end |-> end, newline |-> newline])
         /\ IF end = Len(text) THEN node' = "done" /\ UNCHANGED str
                               ELSE node' = node /\ str' = end + 1
  /\ found' = found + 1
  /\ UNCHANGED <<sink, text, occurrences>>

NoMatch ==
  /\ node = "search" /\ Found = {}
  /\ node' = "done"
  /\ UNCHANGED <<sink, text, occurrences, str, out, found>>

\* Write returns an error, or regex_search throws: both become an error of this node.
NodeFails ==
  /\ node = "search"
  /\ "regex" \in Faults \/ ("write" \in Faults /\ sink = "write" /\ Found # {})
  /\ node' = "failed"
  /\ UNCHANGED <<sink, text, occurrences, str, out, found>>

\* operator() returns; its locals end.
End ==
  /\ node' = "idle" /\ UNCHANGED sink
  /\ text' = <<>> /\ occurrences' = {} /\ str' = 0 /\ out' = <<>> /\ found' = 0

NodeStep == PassLine \/ NoMatch \/ NodeFails

-----------------------------------------------------------------------------

Blank(from, to) == \A k \in (from + 1)..to : text[k] \in {"n", "r"}

\* The lines passed on are whole lines, without blank characters in front; they do not
\* overlap and are in order; each holds an occurrence that begins in its first line, and a
\* line in which an occurrence begins is passed on when the node is done, however
\* occurrences overlap, are empty or reach over newlines.  Each ends with a newline on the
\* output, which only an empty line or a failed write may lack.
LinesFound ==
  /\ found = Len(out)
  /\ \A j \in DOMAIN out :
       LET p == out[j] before == IF j = 1 THEN 0 ELSE out[j - 1].end IN
         /\ before <= p.start /\ p.start <= p.end
         /\ \E s \in before..p.start : (s = 0 \/ text[s] = "n") /\ Blank(s, p.start)
         /\ p.end = Len(text) \/ text[p.end + 1] = "n"
         /\ \E o \in occurrences :
              o[2] <= p.end /\ Blank(o[1], p.start) /\ Newlines((p.start + 1)..o[1]) = {}
         /\ p.newline \/ p.start = p.end \/ text[p.end] = "n" \/ ("write" \in Faults /\ sink = "write")
  /\ node = "done" =>
       \A o \in occurrences : \E j \in DOMAIN out :
         o[1] <= out[j].end /\ Blank(o[1], out[j].start)
=============================================================================
