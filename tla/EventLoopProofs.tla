-------------------------- MODULE EventLoopProofs ---------------------------
(***************************************************************************)
(* The theorems about EventLoop. Its inductive invariant holds in the      *)
(* first state and is kept by every step: those of the kernel here, those  *)
(* of pump in LoopSteps and RequestProofs.                                 *)
(***************************************************************************)
EXTENDS RequestProofs, LoopSteps, FiniteSetTheorems

\* Zenon proves a leaf, unless the leaf names another prover.
USE Zenon

-----------------------------------------------------------------------------
(* The first state.                                                        *)

\* Pools with nothing in the ring, whose requests are those the client queues.
Fresh(p) ==
  /\ p \in PoolType(Arg) /\ PoolInv(p, {}) /\ p.in_flight = Len(p.sq)
  /\ InUse(p, {}, "close") = {} /\ InUse(p, {}, "read") = {}
  /\ \A r \in InUse(p, {}, "openat") : r[2] = <<AtCwd, Root>>
  /\ \A r \in InUse(p, {}, "write") : r[2] = <<0>>

\* The pools as their constructors leave them.
LEMMA FreshAtFirst == Fresh(NewPools) /\ \A o \in Op : InUse(NewPools, {}, o) = {}
PROOF
<1>1. /\ NewPools \in PoolType(Arg) /\ PoolInv(NewPools, {}) /\ Used(NewPools) = {}
      /\ NewPools.in_flight = 0 /\ NewPools.sq = <<>>
  BY NewPoolsSound DEF Arg
<1>2. PICK p : p = NewPools
  OBVIOUS
<1>3. /\ p \in PoolType(Arg) /\ PoolInv(p, {}) /\ Used(p) = {}
      /\ p.in_flight = 0 /\ p.sq = <<>>
  BY <1>1, <1>2
<1>4. p.in_flight = Len(p.sq)
  BY SMT, <1>3
<1>5. ASSUME NEW o \in Op
      PROVE  InUse(p, {}, o) = {}
  <2>1. ASSUME NEW i \in DOMAIN p.arg[o]
        PROVE  i \notin Range(p.overflow[o]) /\ <<o, i>> \notin Range(p.sq)
    <3>1. i \in Nat /\ <<o, i>> \in Op \X Nat /\ <<o, i>>[1] = o /\ <<o, i>>[2] = i
      BY <1>3, UsedOrRing
    <3> QED
      BY <1>3, <3>1 DEF Used
  <2> QED
    BY <2>1 DEF InUse
<1>6. Fresh(p)
  BY <1>3, <1>4, <1>5 DEF Fresh, Op
<1> QED
  BY <1>2, <1>5, <1>6

\* The client queues its first requests.
LEMMA FreshNext ==
  ASSUME NEW p, Fresh(p), NEW o \in {"openat", "write"}, NEW args,
         o = "openat" => args = <<AtCwd, Root>>, o = "write" => args = << 0 >>
  PROVE  /\ Fresh(PoolNext(p, o, args))
         /\ \E x : x[2] = args /\ InUse(PoolNext(p, o, args), {}, o) = InUse(p, {}, o) \cup {x}
         /\ \A k \in Op : k # o => InUse(PoolNext(p, o, args), {}, k) = InUse(p, {}, k)
PROOF
<1>1. p \in PoolType(Arg) /\ PoolInv(p, {}) /\ o \in Op /\ p.in_flight = Len(p.sq)
  BY DEF Fresh, Op
<1>2. args \in Arg
  BY SMT, EventLoopAssumption DEF Arg, OpenArg, WriteArg, Entry
<1>3. PICK q : q = PoolNext(p, o, args)
  OBVIOUS
<1>4. Sound(Arg, p, q, {}) /\ Adds(p, q, {}, {}, o, args)
  BY <1>1, <1>2, <1>3, NextAdds
<1>5. q \in PoolType(Arg) /\ PoolInv(q, {}) /\ q.in_flight = Len(q.sq)
  <2>1. q \in PoolType(Arg) /\ PoolInv(q, {}) /\ q.in_flight - Len(q.sq) = p.in_flight - Len(p.sq)
    BY <1>4 DEF Sound
  <2>2. q.in_flight \in Int /\ Len(q.sq) \in Nat /\ Len(p.sq) \in Nat
    BY <1>1, <2>1, LenIs DEF PoolType
  <2> QED
    BY SMT, <1>1, <2>1, <2>2
<1>6. PICK i \in Nat :
        /\ InUse(q, {}, o) = InUse(p, {}, o) \cup {<<i, args>>}
        /\ \A k \in Op : k # o => InUse(q, {}, k) = InUse(p, {}, k)
  BY <1>4 DEF Adds
<1>7. PICK x : x = <<i, args>>
  OBVIOUS
<1>8. x[2] = args /\ InUse(q, {}, o) = InUse(p, {}, o) \cup {x}
  BY <1>6, <1>7
<1>9. Fresh(q)
  BY <1>5, <1>6, <1>8 DEF Fresh, Op
<1> QED
  BY <1>3, <1>6, <1>8, <1>9

\* When pump is called, an openat of the root and a write, if any, are queued.
LEMMA FirstRequests ==
  ASSUME Init
  PROVE  /\ Fresh(pools) /\ \E x : x[2] = <<AtCwd, Root>> /\ InUse(pools, {}, "openat") = {x}
         /\ WriteSize > 0 => InUse(pools, {}, "write") # {}
PROOF
<1>1. PICK p : p = PoolNext(NewPools, "openat", <<AtCwd, Root>>)
  OBVIOUS
<1>2. Fresh(p) /\ \E x : x[2] = <<AtCwd, Root>> /\ InUse(p, {}, "openat") = {x}
  <2>1. PICK args : args = <<AtCwd, Root>>
    OBVIOUS
  <2>2. PICK q : q = NewPools
    OBVIOUS
  <2>3. Fresh(q) /\ InUse(q, {}, "openat") = {} /\ p = PoolNext(q, "openat", args)
    BY <1>1, <2>1, <2>2, FreshAtFirst DEF Op
  <2>4. Fresh(p) /\ \E x : x[2] = args /\ InUse(p, {}, "openat") = InUse(q, {}, "openat") \cup {x}
    <3>1. PICK o \in {"openat", "write"} : o = "openat"
      OBVIOUS
    <3>2. (o = "openat" => args = <<AtCwd, Root>>) /\ (o = "write" => args = << 0 >>)
      BY <2>1, <3>1
    <3>3. /\ Fresh(PoolNext(q, o, args))
          /\ \E x : x[2] = args /\ InUse(PoolNext(q, o, args), {}, o) = InUse(q, {}, o) \cup {x}
      BY SMTT(20), <2>3, <3>2, FreshNext
    <3> QED
      BY <2>3, <3>1, <3>3
  <2> QED
    BY <2>1, <2>3, <2>4
<1>3. PICK q : q = PoolNext(p, "write", << 0 >>)
  OBVIOUS
<1>4. Fresh(q) /\ InUse(q, {}, "openat") = InUse(p, {}, "openat") /\ InUse(q, {}, "write") # {}
  BY <1>2, <1>3, FreshNext DEF Op
<1>5. CASE WriteSize = 0
  <2>1. pools = p /\ ~(WriteSize > 0)
    BY SMT, <1>1, <1>5 DEF Init
  <2> QED
    BY <1>2, <2>1
<1>6. CASE WriteSize # 0
  <2>1. pools = q
    BY <1>1, <1>3, <1>6 DEF Init
  <2> QED
    BY <1>2, <1>4, <2>1
<1> QED
  BY <1>5, <1>6

\* The inductive invariant holds when pump is called.
LEMMA InitIInv ==
  ASSUME Laws, Init
  PROVE  IInv
PROOF
<1>1. Fresh(pools)
  BY FirstRequests
<1>2. /\ read_free_queue = <<>> /\ returned = <<>> /\ held = {} /\ handed = {} /\ lost = {}
      /\ kernel = {} /\ cq = <<>> /\ pc = "getdents" /\ getdents_queue = <<>> /\ current = <<>> /\ todo = {}
      /\ dir_ref_count = [fd \in Fd |-> 0] /\ table = [fd \in Fd |-> None]
  BY DEF Init
<1>3. /\ Range(cq) = {} /\ Range(read_free_queue) = {} /\ Range(returned) = {}
      /\ Range(getdents_queue) = {} /\ DOMAIN cq = {} /\ DOMAIN current = {}
  BY SMT, <1>2 DEF Range
<1>4. Completed = {} /\ Ring = {} /\ Out = {} /\ OpenedFds = {}
  BY <1>2, <1>3 DEF Completed, Ring, Out, Buffers, OpenedFds
<1>5. RequestTypes
  BY SMT, <1>1, <1>2, EmptySet DEF RequestTypes, Fresh
<1>6. RequestsConserved
  <2>1. IsInjective(read_free_queue) /\ IsInjective(returned)
    BY SMT, <1>2 DEF IsInjective
  <2> QED
    BY <1>1, <1>3, <1>4, <2>1 DEF RequestsConserved, Fresh
<1>7. InFlightExact
  <2>1. Cardinality(kernel) = 0 /\ Cardinality(lost) = 0 /\ Len(cq) = 0
    BY <1>2, EmptySet
  <2>2. pools.in_flight = Len(pools.sq) /\ Len(pools.sq) \in Nat
    BY <1>1, LenIs DEF Fresh, PoolType
  <2> QED
    BY SMT, <2>1, <2>2 DEF InFlightExact
<1>8. /\ Uses("read") = {} /\ Uses("close") = {}
      /\ \A r \in Uses("openat") : r[2] = <<AtCwd, Root>>
      /\ \A r \in Uses("write") : r[2] = <<0>>
  BY <1>1, <1>2, <1>4 DEF Uses, Using, Lost, Unfinished, Fresh
<1>9. ArgsSound
  <2>1. <<AtCwd, Root>> \in OpenArg /\ <<0>> \in WriteArg
    BY SMT, EventLoopAssumption DEF OpenArg, WriteArg, Entry
  <2> QED
    BY <1>8, <2>1, UsesAre DEF ArgsSound
<1>10. DirRefExact
  <2> SUFFICES ASSUME NEW fd \in Fd
               PROVE  Cardinality({r \in Active("openat") : r[2][1] = fd}) = 0
    BY SMT, <1>2 DEF DirRefExact
  <2>1. <<AtCwd, Root>>[1] # fd
    BY EventLoopAssumption
  <2>2. {r \in Active("openat") : r[2][1] = fd} = {}
    BY <1>8, <2>1, UsesAre
  <2> QED
    BY <2>2, EmptySet
<1>11. OneOwner
  <2>1. Closers = {} /\ Unlisted = {} /\ Referenced = {}
    BY SMT, <1>2, <1>3, <1>8, ClosersAre DEF Unlisted, Referenced, Unserved
  <2>2. ReadFds = {} /\ ClosingFds = {}
    BY <1>8, <2>1, OwnersAre DEF FdsOf
  <2>3. \A fd \in Fd : Owners(fd) = 0
    BY SMT, <1>3, <1>4, <2>1, <2>2 DEF Owners, Present
  <2>4. Owned
    BY SMT, <1>2, <2>3, EventLoopAssumption DEF Owned, Present
  <2>5. QueuesApart
    BY <1>2, <1>3, <1>8, <2>1 DEF QueuesApart, OneOpen, Apart, IsInjective
  <2> QED
    BY <2>4, <2>5, OneOwnerParts
<1>12. LoopTypes /\ ControlInv
  BY SMT, <1>2 DEF LoopTypes, ControlInv
<1>13. HandedInv
  BY <1>2 DEF HandedInv
<1> QED
  BY <1>5, <1>6, <1>7, <1>9, <1>10, <1>11, <1>12, <1>13, IInvParts DEF RInv

-----------------------------------------------------------------------------
(* The kernel.                                                             *)

\* The types after the kernel has served a request: it opens and closes descriptors of the table.
LEMMA KernelTypes ==
  ASSUME Laws, RInv, LoopTypes, ControlInv, ArgsSound, Kernel
  PROVE  LoopTypes' /\ ControlInv'
PROOF
<1>1. UNCHANGED <<pc, loopVars, workVars>>
  BY DEF Kernel, ServeOpenAt, ServeClose, ServeRead, ServeWrite, Complete
<1>2. table' \in [Fd -> Entry \cup {None}]
  <2>1. CASE ServeOpenAt
    <3>1. PICK i \in Submitted("openat") :
            \/ table' = table
            \/ \E fd \in Lowest : table' = [table EXCEPT ![fd] = pools.arg["openat"][i][2]]
      BY <2>1 DEF ServeOpenAt
    <3>2. <<"openat", i>> \in kernel /\ "openat" \in Op /\ i \in Nat
      BY DEF Submitted, Op, RInv, RequestTypes
    <3>3. <<i, pools.arg["openat"][i]>> \in Uses("openat")
      BY <3>2, CompletedUsed
    <3>4. pools.arg["openat"][i] \in OpenArg
      BY SMT, <3>2, <3>3, UsesAre DEF ArgsSound
    <3>5. pools.arg["openat"][i][2] \in Entry
      BY <3>4 DEF OpenArg
    <3> QED
      BY <3>1, <3>5 DEF LoopTypes, Lowest, Free
  <2>2. CASE ServeClose
    <3>1. PICK i : table' = [table EXCEPT ![pools.arg["close"][i][1]] = None]
      BY <2>2 DEF ServeClose
    <3> QED
      BY <3>1 DEF LoopTypes
  <2>3. CASE ServeRead \/ ServeWrite
    BY <2>3 DEF ServeRead, ServeWrite, LoopTypes
  <2> QED
    BY <2>1, <2>2, <2>3 DEF Kernel
<1>3. ControlInv'
  BY <1>1 DEF ControlInv, loopVars, workVars
<1>4. LoopTypes'
  BY <1>1, <1>2 DEF LoopTypes, loopVars
<1> QED
  BY <1>3, <1>4

\* The kernel serves a request: what pump knows of its requests does not change.
LEMMA ServedParts ==
  ASSUME Laws, CompleteLaw, IInv, NEW o \in Op, NEW i \in Submitted(o), NEW res \in Int, Complete(o, i, res),
         o = "openat" => res = -1 \/ res \notin OpenedFds
  PROVE  /\ RInv' /\ ArgsSound' /\ DirRefExact' /\ OneOpen(cq')
         /\ Completed' = Completed \cup {<<o, i>>} /\ \A k \in Op : Same(k)
         /\ OpenedFds' = OpenedFds \cup (IF o = "openat" THEN {res} ELSE {})
         /\ UNCHANGED <<pc, getdents_queue, current, dir_ref_count>>
PROOF
<1>1. /\ UNCHANGED <<pc, getdents_queue, current, dir_ref_count>> /\ UNCHANGED <<pools, workVars>>
      /\ kernel' = kernel \ {<<o, i>>} /\ cq' = Append(cq, [req |-> <<o, i>>, res |-> res])
  BY DEF Complete, loopVars
<1>2. RInv /\ ArgsSound /\ DirRefExact
  BY IInvParts
<1>3. QueuesApart
  BY OneOwnerParts DEF IInv
<1>4. i \in Nat /\ <<o, i>> \in kernel
  BY <1>2, ArgIndex DEF Submitted
<1>5. RInv' /\ Kept /\ Completed' = Completed \cup {<<o, i>>}
  BY <1>1, <1>2, <1>4 DEF CompleteLaw
<1>6. ArgsSound' /\ \A k \in Op : Same(k)
  BY <1>2, <1>5, KeptStep
<1>7. DirRefExact'
  <2>1. Same("openat")
    BY <1>6 DEF Op
  <2>2. \A fd : Refs(fd)' = Refs(fd) /\ Enumerated(fd)' = Enumerated(fd)
    BY <1>1, <2>1, RefsSame DEF Enumerated
  <2> QED
    BY <1>1, <1>2, <2>2, DirRefIs, DirRefAfter
<1>8. OneOpen(cq') /\ OpenedFds' = OpenedFds \cup (IF o = "openat" THEN {res} ELSE {})
  <2>1. PICK c : c = [req |-> <<o, i>>, res |-> res]
    OBVIOUS
  <2>2. /\ c \in [req : Op \X Nat, res : Int] /\ c.req[1] = o /\ c.res = res
        /\ cq' = Append(cq, c)
    BY <1>1, <1>4, <2>1
  <2>3. cq \in Seq([req : Op \X Nat, res : Int]) /\ OneOpen(cq)
    BY <1>2, <1>3 DEF RInv, RequestTypes, QueuesApart
  <2>4. OpenedFds = OpensOf(cq) /\ OpenedFds' = OpensOf(cq')
    BY OwnersAre
  <2>5. c.req[1] = "openat" => c.res = -1 \/ c.res \notin OpensOf(cq)
    BY <2>2, <2>4
  <2>6. /\ OneOpen(Append(cq, c))
        /\ OpensOf(Append(cq, c)) = OpensOf(cq) \cup (IF c.req[1] = "openat" THEN {c.res} ELSE {})
    <3>1. PICK S : S = [req : Op \X Nat, res : Int]
      OBVIOUS
    <3>2. cq \in Seq(S) /\ c \in S
      BY <2>2, <2>3, <3>1
    <3> QED
      BY <2>3, <2>5, <3>2, OpensPush
  <2> QED
    BY <2>2, <2>4, <2>6
<1> QED
  BY <1>1, <1>5, <1>6, <1>7, <1>8

\* A read or a write is served, or an openat fails: the descriptors keep their owners.
LEMMA ServedQuietly ==
  ASSUME Laws, CompleteLaw, IInv, NEW o \in Op, o # "close", NEW i \in Submitted(o), NEW res \in Int,
         o = "openat" => res = -1, Complete(o, i, res), table' = table
  PROVE  DirRefExact' /\ OneOwner' /\ RInv' /\ ArgsSound'
PROOF
<1>1. /\ RInv' /\ ArgsSound' /\ DirRefExact' /\ OneOpen(cq')
      /\ Completed' = Completed \cup {<<o, i>>} /\ \A k \in Op : Same(k)
      /\ OpenedFds' = OpenedFds \cup (IF o = "openat" THEN {res} ELSE {})
      /\ UNCHANGED <<pc, getdents_queue, current, dir_ref_count>>
  BY ServedParts
<1>2. Owned /\ QueuesApart
  BY OneOwnerParts DEF IInv
<1>3. Same("read") /\ Same("close")
  BY <1>1 DEF Op
<1>4. Closers' = Closers
  <2>1. SameCloses
    BY <1>1 DEF SameCloses, SameServed
  <2> QED
    BY <1>3, <2>1, ClosersSame
<1>5. QueuesApart'
  BY <1>1, <1>2, <1>3, <1>4 DEF QueuesApart, Same
<1>6. \A fd \in Fd : SameOwners(fd)
  <2>1. \A fd \in Fd : fd \in OpenedFds' <=> fd \in OpenedFds
    BY SMT, <1>1 DEF Fd
  <2> QED
    BY <1>1, <1>3, <1>4, <2>1, OwnersAre DEF SameOwners, Referenced, Same
<1>7. Owned'
  BY <1>1, <1>2, <1>6, OwnersSame, OwnedAfter
<1> QED
  BY <1>1, <1>5, <1>7, OneOwnerParts

\* An openat succeeds: the completion owns the descriptor, which was free.
LEMMA OpenedByKernel ==
  ASSUME Laws, CompleteLaw, IInv, NEW i \in Submitted("openat"), NEW f \in Free, NEW e \in Entry,
         Complete("openat", i, f), table' = [table EXCEPT ![f] = e]
  PROVE  DirRefExact' /\ OneOwner' /\ RInv' /\ ArgsSound'
PROOF
<1>1. Owned /\ QueuesApart /\ table \in [Fd -> Entry \cup {None}]
  BY OneOwnerParts, IInvParts DEF LoopTypes
<1>2. f \in Fd /\ f \in Int /\ table[f] \notin Entry
  BY SMT, EventLoopAssumption DEF Free, Fd
<1>3. Owners(f) = 0 /\ f \notin OpenedFds
  <2>1. Owners(f) <= 0
    BY <1>1, <1>2, SoleOwner
  <2> QED
    BY SMT, <2>1 DEF Owners, Present
<1>4. /\ RInv' /\ ArgsSound' /\ DirRefExact' /\ OneOpen(cq')
      /\ Completed' = Completed \cup {<<"openat", i>>} /\ \A k \in Op : Same(k)
      /\ OpenedFds' = OpenedFds \cup {f}
      /\ UNCHANGED <<pc, getdents_queue, current, dir_ref_count>>
  BY <1>2, <1>3, ServedParts DEF Op
<1>5. Same("read") /\ Same("close")
  BY <1>4 DEF Op
<1>6. Closers' = Closers
  <2>1. SameCloses
    BY <1>4 DEF SameCloses, SameServed
  <2> QED
    BY <1>5, <2>1, ClosersSame
<1>7. QueuesApart'
  BY <1>1, <1>4, <1>5, <1>6 DEF QueuesApart, Same
<1>8. /\ Unlisted' = Unlisted /\ Referenced' = Referenced /\ ReadFds' = ReadFds
      /\ ClosingFds' = ClosingFds /\ getdents_queue' = getdents_queue
  BY <1>4, <1>5, <1>6, OwnersAre DEF Unlisted, Referenced, Same
<1>9. Owners(f)' = 1
  BY SMT, <1>3, <1>4, <1>8 DEF Owners, Present
<1>10. \A fd \in Fd : fd # f => Owners(fd)' = Owners(fd)
  BY <1>4, <1>8 DEF Owners, Present
<1>11. table'[f] = e /\ \A fd \in Fd : fd # f => table'[fd] = table[fd]
  BY <1>1, <1>2
<1>12. Owned'
  <2> SUFFICES ASSUME NEW fd \in Fd
               PROVE  /\ Owners(fd)' <= Present(table'[fd], Entry)
                      /\ pc' # "failed" => Owners(fd)' = Present(table'[fd], Entry)
    BY DEF Owned
  <2>1. CASE fd = f
    BY SMT, <1>9, <1>11, <2>1 DEF Present
  <2>2. CASE fd # f
    BY <1>1, <1>4, <1>10, <1>11, <2>2 DEF Owned
  <2> QED
    BY <2>1, <2>2
<1> QED
  BY <1>4, <1>7, <1>12, OneOwnerParts

\* A close is served: the descriptor is free and its owner is gone.
LEMMA ClosedByKernel ==
  ASSUME Laws, CompleteLaw, IInv, ServeClose
  PROVE  DirRefExact' /\ OneOwner' /\ RInv' /\ ArgsSound'
PROOF
<1>1. PICK i \in Submitted("close") :
        /\ Complete("close", i, IF table[pools.arg["close"][i][1]] = None THEN -1 ELSE 0)
        /\ table' = [table EXCEPT ![pools.arg["close"][i][1]] = None]
  BY DEF ServeClose
<1>2. PICK res \in Int : Complete("close", i, res)
  <2>1. (IF table[pools.arg["close"][i][1]] = None THEN -1 ELSE 0) \in Int
    BY SMT
  <2> QED
    BY <1>1, <2>1
<1>3. Owned /\ QueuesApart /\ RInv /\ ArgsSound /\ table \in [Fd -> Entry \cup {None}]
  BY OneOwnerParts, IInvParts DEF LoopTypes
<1>4. /\ RInv' /\ ArgsSound' /\ DirRefExact' /\ OneOpen(cq')
      /\ Completed' = Completed \cup {<<"close", i>>} /\ \A k \in Op : Same(k)
      /\ OpenedFds' = OpenedFds /\ UNCHANGED <<pc, getdents_queue, current, dir_ref_count>>
  BY <1>2, ServedParts DEF Op
<1>5. Same("read") /\ Same("close")
  BY <1>4 DEF Op
<1>6. i \in Nat /\ <<"close", i>> \in kernel
  BY <1>3, ArgIndex DEF Submitted, Op
<1>7. PICK x : x = <<i, pools.arg["close"][i]>>
  OBVIOUS
<1>8. x \in Uses("close") /\ x[1] = i /\ x[2] = pools.arg["close"][i]
  BY <1>3, <1>6, <1>7, CompletedUsed DEF Op
<1>9. PICK f \in Fd : pools.arg["close"][i] = <<f>> /\ x[2][1] = f
  BY SMT, <1>3, <1>8, ArgsFit DEF Op, Fits, ArgOf, CloseArg
<1>10. x \in Closers /\ Closers' = Closers \ {x}
  <2>1. <<"close", i>> \notin Completed
    BY <1>3, <1>6, KernelApart
  <2>2. x \in Closers
    BY <1>8, <2>1, ClosersAre DEF Unserved
  <2> QED
    BY <1>4, <1>5, <1>8, <2>2, ClosersServed
<1>11. Apart(Closers') /\ f \in ClosingFds /\ ClosingFds' = ClosingFds \ {f}
  <2>1. Apart(Closers)
    BY <1>3 DEF QueuesApart
  <2>2. Apart(Closers') /\ FdsOf(Closers') = FdsOf(Closers) \ {f}
    BY <1>9, <1>10, <2>1, FdsLose
  <2>3. f \in FdsOf(Closers)
    BY <1>9, <1>10 DEF FdsOf
  <2> QED
    BY <2>2, <2>3, OwnersAre
<1>12. QueuesApart'
  BY <1>3, <1>4, <1>5, <1>11 DEF QueuesApart, Same
<1>13. /\ Unlisted' = Unlisted /\ Referenced' = Referenced /\ ReadFds' = ReadFds
       /\ getdents_queue' = getdents_queue
  BY <1>4, <1>5, OwnersAre DEF Unlisted, Referenced, Same
<1>14. Owners(f)' = 0
  <2>1. Owners(f) <= 1
    BY <1>3, SoleOwner
  <2> QED
    BY SMT, <1>4, <1>11, <1>13, <2>1 DEF Owners, Present
<1>15. \A fd \in Fd : fd # f => Owners(fd)' = Owners(fd)
  BY <1>4, <1>11, <1>13 DEF Owners, Present
<1>16. table'[f] \notin Entry /\ \A fd \in Fd : fd # f => table'[fd] = table[fd]
  <2>1. table' = [table EXCEPT ![f] = None]
    BY SMT, <1>1, <1>9
  <2> QED
    BY <1>3, <2>1, EventLoopAssumption
<1>17. Owned'
  <2> SUFFICES ASSUME NEW fd \in Fd
               PROVE  /\ Owners(fd)' <= Present(table'[fd], Entry)
                      /\ pc' # "failed" => Owners(fd)' = Present(table'[fd], Entry)
    BY DEF Owned
  <2>1. CASE fd = f
    BY SMT, <1>14, <1>16, <2>1 DEF Present
  <2>2. CASE fd # f
    BY <1>3, <1>4, <1>15, <1>16, <2>2 DEF Owned
  <2> QED
    BY <2>1, <2>2
<1> QED
  BY <1>4, <1>12, <1>17, OneOwnerParts

\* A request served by the kernel keeps the inductive invariant.
LEMMA KernelActions ==
  ASSUME Laws, RequestLaws, IInv, Kernel
  PROVE  IInv'
PROOF
<1>1. LoopTypes' /\ ControlInv'
  BY IInvParts, KernelTypes
<1>0. CompleteLaw
  BY DEF RequestLaws
<1>2. CASE ServeOpenAt
  <2>1. PICK i \in Submitted("openat") :
          \/ \E fd \in Lowest : /\ Complete("openat", i, fd)
                                /\ table' = [table EXCEPT ![fd] = pools.arg["openat"][i][2]]
          \/ Complete("openat", i, -1) /\ table' = table
    BY <1>2 DEF ServeOpenAt
  <2>2. CASE Complete("openat", i, -1) /\ table' = table
    <3>1. PICK res \in Int : res = -1
      BY SMT
    <3>2. DirRefExact' /\ OneOwner' /\ RInv' /\ ArgsSound'
      BY <1>0, <2>2, <3>1, ServedQuietly DEF Op
    <3> QED
      BY <1>1, <3>2, IInvParts
  <2>3. CASE \E fd \in Lowest : /\ Complete("openat", i, fd)
                                /\ table' = [table EXCEPT ![fd] = pools.arg["openat"][i][2]]
    <3>0. PICK fd \in Lowest : /\ Complete("openat", i, fd)
                               /\ table' = [table EXCEPT ![fd] = pools.arg["openat"][i][2]]
      BY <2>3
    <3>1. RInv /\ ArgsSound
      BY IInvParts
    <3>2. i \in Nat /\ <<"openat", i>> \in kernel /\ "openat" \in Op
      BY <3>1, ArgIndex DEF Submitted, Op
    <3>3. PICK x : x = <<i, pools.arg["openat"][i]>>
      OBVIOUS
    <3>4. x \in Uses("openat") /\ x[2] = pools.arg["openat"][i]
      BY <3>1, <3>2, <3>3, CompletedUsed
    <3>5. pools.arg["openat"][i] \in OpenArg
      BY <3>1, <3>4, ArgsFit DEF Op, Fits, ArgOf
    <3>6. PICK e \in Entry : e = pools.arg["openat"][i][2]
      BY <3>5 DEF OpenArg
    <3>7. fd \in Free /\ table' = [table EXCEPT ![fd] = e]
      BY <3>0, <3>6 DEF Lowest
    <3>8. DirRefExact' /\ OneOwner' /\ RInv' /\ ArgsSound'
      BY <1>0, <3>0, <3>7, OpenedByKernel
    <3> QED
      BY <1>1, <3>8, IInvParts
  <2> QED
    BY <2>1, <2>2, <2>3
<1>3. CASE ServeClose
  <2>1. DirRefExact' /\ OneOwner' /\ RInv' /\ ArgsSound'
    BY <1>0, <1>3, ClosedByKernel
  <2> QED
    BY <1>1, <2>1, IInvParts
<1>4. CASE ServeRead
  <2>1. PICK i \in Submitted("read"), res \in {-1, 0, 1} : Complete("read", i, res) /\ table' = table
    BY <1>4 DEF ServeRead
  <2>2. DirRefExact' /\ OneOwner' /\ RInv' /\ ArgsSound'
    BY SMT, <1>0, <2>1, ServedQuietly DEF Op
  <2> QED
    BY <1>1, <2>2, IInvParts
<1>5. CASE ServeWrite
  <2>1. PICK i \in Submitted("write"), res \in Int : Complete("write", i, res) /\ table' = table
    BY SMT, <1>5, EventLoopAssumption DEF ServeWrite, WriteResults
  <2>2. DirRefExact' /\ OneOwner' /\ RInv' /\ ArgsSound'
    BY <1>0, <2>1, ServedQuietly DEF Op
  <2> QED
    BY <1>1, <2>2, IInvParts
<1> QED
  BY <1>2, <1>3, <1>4, <1>5 DEF Kernel

-----------------------------------------------------------------------------
(* The other steps, and the facts taken as hypotheses.                     *)

\* What the steps of pump that leave the descriptors alone, and those of a worker, do to the requests.
LEMMA SteadyRequests ==
  ASSUME Laws, IInv, SteadyTurn
  PROVE  RInv' /\ Kept
PROOF
<1>0. RInv /\ ControlInv
  BY IInvParts
<1>1. CASE Drain
  BY <1>0, <1>1, DrainStep
<1>2. CASE SwapFreed
  BY <1>0, <1>2, SwapRequests DEF ControlInv, SwapFreed
<1>3. CASE FreeRead
  BY <1>0, <1>3, FreeRequests
<1>4. CASE SubmitNext
  BY <1>0, <1>4, SubmitRequests
<1>5. CASE FreeReadRequest
  BY <1>0, <1>5, ReturnRequests
<1>6. CASE \/ EndDrain \/ EndFree \/ Exit \/ Submit \/ EndSubmit \/ SubmitFails \/ Wait
           \/ EndGetDents \/ EndReap
  <2>1. UNCHANGED <<pools, kernel, cq, workVars>>
    BY <1>6 DEF EndDrain, EndFree, Exit, Submit, EndSubmit, SubmitFails, Wait, EndGetDents, EndReap,
                ringVars
  <2> QED
    BY <1>0, <2>1, QuietRequests
<1> QED
  BY <1>1, <1>2, <1>3, <1>4, <1>5, <1>6 DEF SteadyTurn, SubmitTurn

\* The steps of pump that leave the descriptors alone, and of a worker.
LEMMA SteadyActions ==
  ASSUME Laws, IInv, SteadyTurn
  PROVE  IInv'
PROOF
<1>1. RInv /\ LoopTypes /\ ControlInv /\ ArgsSound
  BY IInvParts
<1>2. LoopTypes' /\ ControlInv'
  BY <1>1, SubmitTypes, GetDentsTypes DEF SteadyTurn, GetDentsTurn
<1>3. RInv' /\ Kept
  BY SteadyRequests
<1>4. ArgsSound'
  BY <1>1, <1>3, KeptStep
<1>5. /\ UNCHANGED <<cq, getdents_queue, current, dir_ref_count, table>>
      /\ (pc' = "dir" <=> pc = "dir") /\ (pc = "failed" => pc' = "failed")
  BY DEF SteadyTurn, SubmitTurn, Drain, EndDrain, SwapFreed, FreeRead, EndFree, Exit, Submit, SubmitNext,
         EndSubmit, SubmitFails, Wait, EndGetDents, EndReap, FreeReadRequest, ringVars, loopVars
<1>6. DirRefExact' /\ OneOwner'
  BY <1>3, <1>5, SteadyStep
<1> QED
  BY <1>2, <1>3, <1>4, <1>6, IInvParts

\* The laws of finite sets hold.
LEMMA LawsHold == Laws
PROOF
<1>1. /\ \A S : IsFiniteSet(S) => Cardinality(S) \in Nat
      /\ IsFiniteSet({}) /\ Cardinality({}) = 0
  BY FS_CardinalityType, FS_EmptySet
<1>2. \A S, x : IsFiniteSet(S) /\ x \notin S =>
        IsFiniteSet(S \cup {x}) /\ Cardinality(S \cup {x}) = Cardinality(S) + 1
  BY FS_AddElement
<1>3. \A S : \A x \in S : IsFiniteSet(S) =>
        IsFiniteSet(S \ {x}) /\ Cardinality(S \ {x}) = Cardinality(S) - 1
  BY FS_RemoveElement
<1>4. ASSUME NEW S, NEW T, IsFiniteSet(S), IsFiniteSet(T), S \cap T = {}
      PROVE  IsFiniteSet(S \cup T) /\ Cardinality(S \cup T) = Cardinality(S) + Cardinality(T)
  <2>1. /\ IsFiniteSet(S \cup T)
        /\ Cardinality(S \cup T) = Cardinality(S) + Cardinality(T) - Cardinality(S \cap T)
    BY <1>4, FS_Union
  <2>2. Cardinality(S) \in Nat /\ Cardinality(T) \in Nat /\ Cardinality(S \cap T) = 0
    BY <1>1, <1>4
  <2> QED
    BY SMT, <2>1, <2>2
<1>5. \A S, T : T \subseteq S /\ IsFiniteSet(S) => IsFiniteSet(T)
  BY FS_Subset
<1>6. ASSUME NEW S, NEW s \in Seq(S)
      PROVE  /\ IsFiniteSet(Range(s))
             /\ IsInjective(s) => /\ Cardinality(Range(s)) = Len(s)
                                  /\ \A n \in Nat : Range(s) \subseteq 1..n => Len(s) <= n
  <2>1. Len(s) \in Nat /\ DOMAIN s = 1..Len(s) /\ s \in [1..Len(s) -> S]
    BY LenIs
  <2>2. \A n \in Nat : IsFiniteSet(1..n) /\ Cardinality(1..n) = n
    BY SMT, FS_Interval
  <2>3. s \in Surjection(1..Len(s), Range(s))
    BY <2>1 DEF Surjection, Range
  <2>4. IsFiniteSet(Range(s)) /\ (Cardinality(Range(s)) = Len(s) <=> s \in Injection(1..Len(s), Range(s)))
    BY <2>1, <2>2, <2>3, FS_Surjection
  <2>5. IsInjective(s) => s \in Injection(1..Len(s), Range(s))
    BY <2>1, <2>3 DEF IsInjective, Injection, Surjection
  <2>6. ASSUME IsInjective(s), NEW n \in Nat, Range(s) \subseteq 1..n
        PROVE  Len(s) <= n
    <3>1. Cardinality(Range(s)) <= Cardinality(1..n)
      BY <2>2, <2>6, FS_Subset
    <3> QED
      BY <2>2, <2>4, <2>5, <2>6, <3>1
  <2> QED
    BY <2>4, <2>5, <2>6
<1>7. \A S : \A s \in Seq(S) : IsInjective(s) =>
        /\ IsFiniteSet(Range(s)) /\ Cardinality(Range(s)) = Len(s)
        /\ \A n \in Nat : Range(s) \subseteq 1..n => Len(s) <= n
  BY <1>6
<1>8. \A S : \A s \in Seq(S) : IsFiniteSet(Range(s))
  BY <1>6
<1>9. \A S, T : IsFiniteSet(S) /\ IsFiniteSet(T) /\ S \cap T = {} =>
        IsFiniteSet(S \cup T) /\ Cardinality(S \cup T) = Cardinality(S) + Cardinality(T)
  BY <1>4
<1> QED
  BY <1>1, <1>2, <1>3, <1>5, <1>7, <1>8, <1>9 DEF Laws

\* What RequestProofs proves of the steps.
LEMMA RequestLawsHold ==
  ASSUME Laws, RInv
  PROVE  RequestLaws
PROOF
<1>1. NextLaw
  <2> USE DEF NextLaw
  <2> TAKE o \in Op
  <2> TAKE args \in Arg
  <2> HAVE pools' = PoolNext(pools, o, args) /\ UNCHANGED <<kernel, cq, workVars>>
  <2> QED
    BY NextStep
<1>2. FreeLaw
  <2> USE DEF FreeLaw
  <2> TAKE o \in Op
  <2> TAKE i \in Nat
  <2> TAKE res
  <2> HAVE /\ Pops(o, i, res)
           /\ UNCHANGED <<kernel, workVars>> /\ pools' = PoolFree(pools, o, i)
  <2> QED
    BY FreeStep
<1>3. NextFreeLaw
  <2> USE DEF NextFreeLaw
  <2> TAKE o, k \in Op
  <2> TAKE i \in Nat
  <2> TAKE res
  <2> TAKE args \in Arg
  <2> HAVE /\ Pops(o, i, res)
           /\ UNCHANGED <<kernel, workVars>> /\ pools' = PoolFree(PoolNext(pools, k, args), o, i)
  <2> QED
    BY NextFreeStep
<1>4. OpenedLaw
  <2> USE DEF OpenedLaw
  <2> TAKE i \in Nat
  <2> TAKE res, reads, closes, rarg, carg, q, t
  <2> HAVE /\ Pops("openat", i, res)
           /\ UNCHANGED <<kernel, workVars>> /\ (reads => rarg \in Arg) /\ (closes => carg \in Arg)
           /\ q = MayNext(pools, "read", rarg, reads)
           /\ t = MayNext(q, "close", carg, closes)
           /\ pools' = PoolFree(t, "openat", i)
  <2> QED
    BY OpenedStep
<1>5. DataLaw
  <2> USE DEF DataLaw
  <2> TAKE i \in Nat
  <2> TAKE res
  <2> HAVE /\ Pops("read", i, res)
           /\ kernel' = kernel /\ handed = {} /\ held' = held \cup {i} /\ handed' = {i}
           /\ UNCHANGED <<read_free_queue, returned, lost>>
           /\ pools' = [pools EXCEPT !.in_flight = @ - 1]
  <2> QED
    BY DataStep
<1>6. QueueLaw
  <2> USE DEF QueueLaw
  <2> TAKE i
  <2> TAKE args \in Arg
  <2> HAVE /\ handed = {i} /\ handed' = {} /\ pools' = PoolNext(pools, "read", args)
           /\ UNCHANGED <<kernel, cq, read_free_queue, returned, held, lost>>
  <2> QED
    BY QueueStep
<1>7. RefusedLaw
  <2> USE DEF RefusedLaw
  <2> TAKE i
  <2> HAVE /\ handed = {i} /\ handed' = {}
           /\ UNCHANGED <<pools, kernel, cq, read_free_queue, returned, held, lost>>
  <2> QED
    BY RefusedStep
<1>8. ErrorLaw
  <2> USE DEF ErrorLaw
  <2> TAKE i \in Nat
  <2> TAKE res
  <2> HAVE /\ Pops("read", i, res)
           /\ kernel' = kernel /\ lost' = lost \cup {i}
           /\ UNCHANGED <<pools, read_free_queue, returned, held, handed>>
  <2> QED
    BY ErrorStep
<1>9. CompleteLaw
  <2> USE DEF CompleteLaw
  <2> TAKE o \in Op
  <2> TAKE i \in Nat
  <2> TAKE res \in Int
  <2> HAVE /\ <<o, i>> \in kernel /\ kernel' = kernel \ {<<o, i>>}
           /\ cq' = Append(cq, [req |-> <<o, i>>, res |-> res]) /\ UNCHANGED <<pools, workVars>>
  <2> QED
    BY CompleteRequests
<1> QED
  BY <1>1, <1>2, <1>3, <1>4, <1>5, <1>6, <1>7, <1>8, <1>9 DEF RequestLaws

\* Every step of the loop, its workers and the kernel keeps the inductive invariant.
LEMMA NextIInv ==
  ASSUME Laws, IInv, [Next]_vars
  PROVE  IInv'
PROOF
<1>1. CASE UNCHANGED vars
  <2>1. /\ UNCHANGED <<pc, pools, getdents_queue, current, todo, dir_ref_count>>
        /\ UNCHANGED <<read_free_queue, returned, held, handed, lost, kernel, cq, table>>
    BY <1>1 DEF vars, loopVars, ringVars, workVars
  <2>2. UNCHANGED <<pools, kernel, cq, workVars>>
    BY <2>1 DEF workVars
  <2>3. RInv' /\ Kept
    BY <2>2, IInvParts, QuietRequests
  <2>4. LoopTypes' /\ ControlInv'
    BY <2>1, IInvParts DEF LoopTypes, ControlInv
  <2>5. DirRefExact' /\ OneOwner'
    BY <2>1, <2>3, SteadyStep
  <2>6. ArgsSound'
    BY <2>3, KeptStep DEF IInv
  <2> QED
    BY <2>3, <2>4, <2>5, <2>6, IInvParts
<1>2. CASE Next
  <2>1. RequestLaws
    BY IInvParts, RequestLawsHold
  <2> QED
    BY <1>2, <2>1, SteadyActions, GetDentsActions, ReapActions, KernelActions
       DEF Next, Pump, GetDentsTurn, SteadyTurn
<1> QED
  BY <1>1, <1>2

-----------------------------------------------------------------------------
(* The theorems.                                                           *)

\* IInv is an inductive invariant of the loop, for every tree of directories, every size of
\* the pools, the ring and the descriptor table, and every set of failing calls.
THEOREM LoopInvariance == Spec => []IInv
PROOF
<1>1. Init => IInv
  BY LawsHold, InitIInv
<1>2. IInv /\ [Next]_vars => IInv'
  BY LawsHold, NextIInv
<1> QED
  BY <1>1, <1>2, PTL DEF Spec

\* No request object is lost, none is in two places and none is reused while the kernel or a
\* worker still uses its buffer: what pump, the handlers, the pools and free_read_request do
\* together, in every interleaving with the kernel and the workers.
THEOREM RequestsConservedCorrect == Spec => []RequestsConserved
PROOF
<1>1. IInv => RequestsConserved
  BY DEF IInv
<1> QED
  BY <1>1, LoopInvariance, PTL

\* in_flight_, by which pump decides to return or to block, counts the requests in the ring
\* and the failed reads, and nothing else.
THEOREM InFlightExactCorrect == Spec => []InFlightExact
PROOF
<1>1. IInv => InFlightExact
  BY DEF IInv
<1> QED
  BY <1>1, LoopInvariance, PTL

\* dir_ref_count_ is the number of openat requests relative to a directory, and one more while
\* getdents enumerates it: decrease_dir_ref never finds a count of zero, and never closes a
\* directory that a request still names.
THEOREM DirRefExactCorrect == Spec => []DirRefExact
PROOF
<1>1. IInv => DirRefExact
  BY DEF IInv
<1> QED
  BY <1>1, LoopInvariance, PTL

\* Every open descriptor has one owner in the loop, and no closed one has any: no double
\* close, no close under a read, no leak while pump has not failed.
THEOREM OneOwnerCorrect == Spec => []OneOwner
PROOF
<1>1. IInv => OneOwner
  BY DEF IInv
<1> QED
  BY <1>1, LoopInvariance, PTL

=============================================================================
