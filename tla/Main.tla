-------------------------------- MODULE Main --------------------------------
(***************************************************************************)
(* main of src/src/main.cpp around the command cat.  The command grep is   *)
(* the subject of Processor; here it may return, throw, be terminated or   *)
(* never end.  The build evaluates contracts with the semantic enforce     *)
(* (Debug) or ignore (RelWithDebInfo).                                     *)
(***************************************************************************)
EXTENDS Cat

CONSTANT MaxArgc  \* bound on argc

ASSUME MainAssumption == MaxArgc \in Nat \ {0}

VARIABLES
  at,        \* where main is
  argc, name,
  semantic   \* of contracts

mainVars == <<at, argc, name, semantic>>
allVars == <<vars, mainVars>>

MainInit ==
  /\ Init
  /\ at = "start"
  /\ argc \in 1..MaxArgc
  /\ name \in {"cat", "grep", "omnipp"}
  /\ semantic \in {"enforce", "ignore"}

Goto(from, to) == at = from /\ at' = to /\ UNCHANGED <<argc, name, semantic>>

SetRlimit == Goto("start", "convert") /\ UNCHANGED vars

\* setrlimit is refused; main catches and returns 0.
SetRlimitThrows == Goto("start", "return") /\ UNCHANGED vars

\* convert_raw_args, whose precondition is evaluated on entry.
ConvertRawArgs ==
  /\ argc > 1 \/ semantic = "ignore"
  /\ Goto("convert", "dispatch")
  /\ UNCHANGED vars

ConvertRawArgsAborts ==
  /\ ~(argc > 1) /\ semantic = "enforce"
  /\ Goto("convert", "abort")
  /\ UNCHANGED vars

DispatchCat ==
  /\ name = "cat" /\ argc > 1
  /\ Goto("dispatch", "cat")
  /\ UNCHANGED vars

\* args[0] of no arguments: undefined, its precondition not being evaluated.
DispatchCatUndefined ==
  /\ name = "cat" /\ argc = 1
  /\ \E to \in {"abort", "return"} : Goto("dispatch", to)
  /\ UNCHANGED vars

\* grep throws unless it has two arguments.
DispatchGrep ==
  /\ name = "grep"
  /\ Goto("dispatch", IF argc - 1 = 2 THEN "grep" ELSE "return")
  /\ UNCHANGED vars

\* Processor::run returns or throws an exception main catches, if it ends.
GrepReturns == Goto("grep", "return") /\ UNCHANGED vars

\* An exception leaves a thread of Processor.
GrepTerminates == Goto("grep", "abort") /\ UNCHANGED vars

DispatchOther ==
  /\ name = "omnipp"
  /\ Goto("dispatch", "return")
  /\ UNCHANGED vars

RunCat == at = "cat" /\ Command /\ UNCHANGED mainVars

CatReturns == pc \in {"done", "threw"} /\ Goto("cat", "return") /\ UNCHANGED vars

MainStep ==
  \/ SetRlimit \/ SetRlimitThrows \/ ConvertRawArgs \/ ConvertRawArgsAborts
  \/ DispatchCat \/ DispatchCatUndefined \/ DispatchGrep \/ GrepReturns \/ GrepTerminates
  \/ DispatchOther
  \/ RunCat \/ CatReturns

MainNext == MainStep \/ (Resize /\ UNCHANGED mainVars)

\* The process is scheduled.  Nothing rests on a call that may fail and does, on somebody
\* opening a FIFO for writing, or on the end of grep: an error of cat is counted on only where
\* the kind of file makes it certain.
Progress == MainStep /\ at # "grep" /\ (pc' = "threw" => pc = "threw" \/ in_mode = "DIR")

MainSpec == MainInit /\ [][MainNext]_allVars /\ WF_allVars(Progress)

-----------------------------------------------------------------------------

\* Where main may stay for ever: in grep, in openat of a FIFO that nobody opens for writing,
\* and in the sink after a splice into cat's own pipe was short, where it waits for chunk_size
\* bytes that nobody will send.
Blocked ==
  \/ at = "grep"
  \/ at = "cat" /\ pc = "open" /\ in_mode = "FIFO"
  \/ at = "cat" /\ pc = "sink" /\ sent_this_iter < chunk_size

\* Whatever the arguments, the build, errors, short transfers and changes of the file, main
\* ends, unless it stays in one of these three places: no other loop of cat can hang, and
\* every error of cat is caught.  Whether grep ends is Termination of Processor.
MainReturns == <>[](at \in {"return", "abort"} \/ Blocked)

\* The precondition convert_raw_args states of its caller, pre(argc > 1).
ArgcContract == at = "convert" => argc > 1
=============================================================================
