------------------------------ MODULE Traversal ------------------------------
(***************************************************************************)
(* What the walk of ogrep promises, without threads: starting from one     *)
(* directory it handles the entries of every open directory, each once,    *)
(* leaves a directory when all its entries were handled, and finishes when *)
(* no directory is open.  An entry may be dropped when the system refuses  *)
(* it, and the walk may fail, after which what was open may be abandoned.  *)
(***************************************************************************)
CONSTANTS Dir, File, Other, Root, Parent

VARIABLES open, scanned, searched, dropped, status

avars == <<open, scanned, searched, dropped, status>>

Handled == open \cup scanned \cup searched \cup dropped \cup Other

Unhandled(d) == {e \in DOMAIN Parent : Parent[e] = d} \ Handled

Init ==
  /\ open = {} /\ scanned = {} /\ searched = {} /\ dropped = {}
  /\ status = "idle"

Start ==
  /\ status = "idle"
  /\ open' = {Root} /\ status' = "walking"
  /\ UNCHANGED <<scanned, searched, dropped>>

Enter(d, e) ==
  /\ e \in Unhandled(d) \cap Dir
  /\ open' = open \cup {e}
  /\ UNCHANGED <<scanned, searched, dropped, status>>

Search(d, e) ==
  /\ e \in Unhandled(d) \cap File
  /\ searched' = searched \cup {e}
  /\ UNCHANGED <<open, scanned, dropped, status>>

Drop(d, E) ==
  /\ dropped' = dropped \cup E
  /\ UNCHANGED <<open, scanned, searched, status>>

Leave(d) ==
  /\ Unhandled(d) = {}
  /\ open' = open \ {d} /\ scanned' = scanned \cup {d}
  /\ UNCHANGED <<searched, dropped, status>>

Visit(d) ==
  /\ status \in {"walking", "failed"}
  /\ \/ \E e \in Unhandled(d) : Enter(d, e) \/ Search(d, e)
     \/ \E E \in SUBSET Unhandled(d) : Drop(d, E)
     \/ Leave(d)

Finish ==
  /\ status = "walking" /\ open = {}
  /\ status' = "finished"
  /\ UNCHANGED <<open, scanned, searched, dropped>>

Fail ==
  /\ status \in {"idle", "walking", "finished"}
  /\ status' = "failed"
  /\ UNCHANGED <<open, scanned, searched, dropped>>

Next == Start \/ (\E d \in open : Visit(d)) \/ Finish \/ Fail

Spec == Init /\ [][Next]_avars
=============================================================================
