----------------------------- MODULE MCProcessor -----------------------------
(* Small instances of Processor for TLC. *)
EXTENDS ProcessorWalk, TLC

\* root lists a and b, and a lists c: several directories found in one
\* directory, one of them with a directory of its own.
ParentTree == ("a" :> "root") @@ ("b" :> "root") @@ ("c" :> "a")

\* root lists a and f and an entry that is skipped, and a lists g.
ParentFiles == ("a" :> "root") @@ ("f" :> "root") @@ ("g" :> "a") @@ ("dot" :> "root")
=============================================================================
