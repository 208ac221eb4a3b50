---------------------------- MODULE MCEventLoop ----------------------------
(* Instances of EventLoop for TLC: a directory a inside root, and a file f. *)
EXTENDS EventLoop, TLC

CONSTANTS root, a, f

Flat == (a :> root) @@ (f :> root)
FlatChunks == f :> 2
Nested == (a :> root) @@ (f :> a)
NestedChunks == f :> 1
=============================================================================
