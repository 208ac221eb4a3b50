---------------------------- MODULE AutoRelease ----------------------------
(***************************************************************************)
(* AutoRelease<int, FdCloser, -1> of src/src/utils/auto_release.h: handles *)
(* that own a descriptor and are moved, swapped, reset and destroyed in    *)
(* any order.  The kernel gives a closed number out again, so a handle     *)
(* that kept a closed one would close the file of another.  The client is  *)
(* external; it owes the class two things: it gives a handle only a        *)
(* descriptor that no handle owns (Acquired), and writes through           *)
(* operator& only into an empty handle.                                    *)
(***************************************************************************)
CONSTANTS
  Handle,   \* variables of type AutoRelease
  Object,   \* descriptor numbers
  Invalid   \* -1

ASSUME AutoReleaseAssumption == Invalid \notin Object

VARIABLES
  alive,  \* handles that are constructed and not destroyed
  obj_,
  open    \* descriptors open in the kernel

vars == <<alive, obj_, open>>

Init ==
  /\ alive = {} /\ open = {}
  /\ obj_ = [h \in Handle |-> Invalid]

\* What openat or pipe returns: a free number, lowest or not, or -1.
Acquired == (Object \ open) \cup {Invalid}

\* Faulty variant: an assignment that closes what *this has before it moves.
MoveAssignReleasesFirst(h, other) ==
  /\ {h, other} \subseteq alive
  /\ obj_' = [obj_ EXCEPT ![other] = Invalid, ![h] = obj_[other]]
  /\ open' = open \ {obj_[h]} /\ UNCHANGED alive

-----------------------------------------------------------------------------

\* AutoRelease() and AutoRelease(obj).
Construct(h, o) ==
  /\ h \notin alive /\ o \in Acquired
  /\ alive' = alive \cup {h} /\ obj_' = [obj_ EXCEPT ![h] = o]
  /\ open' = open \cup ({o} \ {Invalid})

\* The deleter closes obj_ unless it is Invalid, which is never open.
Destroy(h) ==
  /\ h \in alive
  /\ alive' = alive \ {h} /\ obj_' = [obj_ EXCEPT ![h] = Invalid]
  /\ open' = open \ {obj_[h]}

\* The default constructor, then swap.
MoveConstruct(h, other) ==
  /\ h \notin alive /\ other \in alive
  /\ alive' = alive \cup {h}
  /\ obj_' = [obj_ EXCEPT ![h] = obj_[other], ![other] = Invalid]
  /\ UNCHANGED open

\* new_obj takes the object of other and swaps with *this; its destructor closes what *this
\* had.  For h = other the swap gives *this its object back.
MoveAssign(h, other) ==
  /\ {h, other} \subseteq alive /\ UNCHANGED alive
  /\ LET moved == [obj_ EXCEPT ![other] = Invalid]
     IN  /\ obj_' = [moved EXCEPT ![h] = obj_[other]]
         /\ open' = open \ {moved[h]}

Swap(h, other) ==
  /\ {h, other} \subseteq alive
  /\ obj_' = [obj_ EXCEPT ![h] = obj_[other], ![other] = obj_[h]]
  /\ UNCHANGED <<alive, open>>

\* The new object was opened before reset closes the old one.
Reset(h, o) ==
  /\ h \in alive /\ o \in Acquired
  /\ obj_' = [obj_ EXCEPT ![h] = o]
  /\ open' = (open \cup ({o} \ {Invalid})) \ {obj_[h]}
  /\ UNCHANGED alive

\* *&h = o.
Assign(h, o) ==
  /\ h \in alive /\ obj_[h] = Invalid /\ o \in Acquired
  /\ obj_' = [obj_ EXCEPT ![h] = o]
  /\ open' = open \cup ({o} \ {Invalid})
  /\ UNCHANGED alive

Next ==
  \E h \in Handle :
    \/ Destroy(h)
    \/ \E o \in Object \cup {Invalid} : Construct(h, o) \/ Reset(h, o) \/ Assign(h, o)
    \/ \E other \in Handle : MoveConstruct(h, other) \/ MoveAssign(h, other) \/ Swap(h, other)

Spec == Init /\ [][Next]_vars

-----------------------------------------------------------------------------

\* After any sequence of moves, swaps, resets and destructions every open descriptor has
\* exactly one handle, and no handle has a closed one: nothing leaks, nothing is closed
\* twice, and no handle closes a number the kernel has given to another file.
OwnedOnce ==
  /\ open = {obj_[h] : h \in alive} \ {Invalid}
  /\ \A h, other \in Handle : obj_[h] = obj_[other] => h = other \/ obj_[h] = Invalid
  /\ \A h \in Handle \ alive : obj_[h] = Invalid
=============================================================================
