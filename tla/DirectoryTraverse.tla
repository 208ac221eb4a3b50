------------------------- MODULE DirectoryTraverse -------------------------
(***************************************************************************)
(* The sequential search DirectoryTraverse | MappedFile | SimpleRegex with *)
(* one of its sinks: src/src/source/directory_traverse_source.h and        *)
(* src/src/source/mapped_file.h.  The descriptor of a file is owned by an  *)
(* AutoRelease, its mapping by an AutoMap.                                 *)
(***************************************************************************)
EXTENDS SimpleRegex

CONSTANTS
  Regular, Other,  \* the entries of the directory, by kind
  Object, Invalid

VARIABLES
  at,       \* where operator() of the outer node is
  todo,     \* entries the iterator has not reached
  entry,
  alive, obj_, open,  \* of the handle fd
  mapped,   \* the file is mapped
  searched,
  matches

Fd == INSTANCE AutoRelease WITH Handle <- {"fd"}

fdVars == <<alive, obj_, open>>
loopVars == <<at, todo, entry, mapped, searched, matches>>
vars == <<nodeVars, loopVars, fdVars>>

Init ==
  /\ NodeInit /\ Fd!Init
  /\ at = "loop" /\ todo = Regular \cup Other /\ entry = Invalid
  /\ mapped = FALSE /\ searched = {} /\ matches = 0

\* The root is not a directory.
RootFails ==
  /\ at = "loop" /\ todo = Regular \cup Other /\ "root" \in Faults
  /\ at' = "error"
  /\ UNCHANGED <<todo, entry, mapped, searched, matches, nodeVars, fdVars>>

\* Faulty variant: the iterator does not advance.
SkipEntryAgain ==
  /\ at = "loop" /\ todo \cap Other # {}
  /\ UNCHANGED <<loopVars, nodeVars, fdVars>>

SkipEntry ==
  /\ at = "loop"
  /\ \E e \in todo \cap Other : todo' = todo \ {e}
  /\ UNCHANGED <<at, entry, mapped, searched, matches, nodeVars, fdVars>>

OpenEntry ==
  /\ at = "loop"
  /\ \E e \in todo \cap Regular : todo' = todo \ {e} /\ entry' = e
  /\ \E o \in Object : Fd!Construct("fd", o)
  /\ at' = "map"
  /\ UNCHANGED <<mapped, searched, matches, nodeVars>>

\* The handle of -1 closes nothing; the traversal ends.
OpenEntryFails ==
  /\ at = "loop" /\ todo \cap Regular # {} /\ "openat" \in Faults
  /\ at' = "error"
  /\ UNCHANGED <<todo, entry, mapped, searched, matches, nodeVars, fdVars>>

\* The iterator or file_size throws in a function that is noexcept.
Terminate ==
  /\ at \in {"loop", "map"} /\ "filesystem" \in Faults
  /\ at' = "terminated"
  /\ UNCHANGED <<todo, entry, mapped, searched, matches, nodeVars, fdVars>>

\* mmap refuses a file of length 0; the result MAP_FAILED passes the test !map_ptr and is
\* the begin of an empty span.
Map ==
  /\ at = "map"
  /\ \E data \in Text : Begin(data) /\ mapped' = (data # <<>>)
  /\ at' = "next"
  /\ UNCHANGED <<todo, entry, searched, matches, fdVars>>

\* Of a longer file MAP_FAILED is read from.
MapFails ==
  /\ at = "map" /\ "mmap" \in Faults
  /\ at' = "terminated"
  /\ UNCHANGED <<todo, entry, mapped, searched, matches, nodeVars, fdVars>>

Next_ == at = "next" /\ NodeStep /\ UNCHANGED <<loopVars, fdVars>>

\* Cout reads in front of the text and the process ends.
BackFaults ==
  /\ at = "next" /\ BackMayFault
  /\ at' = "terminated"
  /\ UNCHANGED <<todo, entry, mapped, searched, matches, nodeVars, fdVars>>

\* Faulty variant: an early return past the destructors.
ReturnErrorOpen ==
  /\ at = "next" /\ node = "failed"
  /\ at' = "error"
  /\ UNCHANGED <<todo, entry, mapped, searched, matches, nodeVars, fdVars>>

\* ~AutoMap, then ~AutoRelease at the end of the loop body.
Return ==
  /\ at = "next" /\ node = "done"
  /\ at' = "loop" /\ End /\ mapped' = FALSE
  /\ matches' = matches + found /\ searched' = searched \cup {entry}
  /\ Fd!Destroy("fd")
  /\ UNCHANGED <<todo, entry>>

ReturnError ==
  /\ at = "next" /\ node = "failed"
  /\ at' = "error" /\ End /\ mapped' = FALSE /\ Fd!Destroy("fd")
  /\ UNCHANGED <<todo, entry, searched, matches>>

Finish ==
  /\ at = "loop" /\ todo = {}
  /\ at' = "done"
  /\ UNCHANGED <<todo, entry, mapped, searched, matches, nodeVars, fdVars>>

Step == SkipEntry \/ OpenEntry \/ Map \/ Next_ \/ BackFaults \/ Return \/ ReturnError \/ Finish

Next == Step \/ RootFails \/ OpenEntryFails \/ Terminate \/ MapFails

\* The process is scheduled; no call is owed a failure.
Spec == Init /\ [][Next]_vars /\ WF_vars(Step)

-----------------------------------------------------------------------------

\* Between two files, and on every way out of the traversal, the descriptor of the last
\* file is closed and its mapping removed; while a file is searched one descriptor is open.
FileReleased ==
  /\ at \in {"loop", "error", "done"} => open = {} /\ ~mapped
  /\ at \in {"map", "next"} => open = {obj_["fd"]} /\ alive = {"fd"}

\* The traversal returns, ends the process or fails, whatever the texts and matches are;
\* it returns only when every regular file was searched.
TraverseEnds == <>(at \in {"error", "terminated"} \/ (at = "done" /\ searched = Regular))
=============================================================================
