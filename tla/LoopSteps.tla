----------------------------- MODULE LoopSteps ------------------------------
(***************************************************************************)
(* Every step of pump keeps the arguments of its requests, the references  *)
(* of directories and the owners of descriptors as the inductive           *)
(* invariant says, given what the step does to the requests in use.        *)
(***************************************************************************)
EXTENDS LoopFacts

\* Zenon proves a leaf, unless the leaf names another prover.
USE Zenon

-----------------------------------------------------------------------------
(* What the steps do to the requests, which RequestProofs proves.          *)

\* next queues a request.
NextLaw ==
  \A o \in Op : \A args \in Arg :
    pools' = PoolNext(pools, o, args) /\ UNCHANGED <<kernel, cq, workVars>> =>
      RInv' /\ Gains(o, args) /\ Completed' = Completed /\ \A k \in Op : k # o => Same(k)

\* pump frees the request it sees completed.
FreeLaw ==
  \A o \in Op : \A i \in Nat : \A res :
    /\ Pops(o, i, res)
    /\ UNCHANGED <<kernel, workVars>> /\ pools' = PoolFree(pools, o, i)
    => /\ RInv' /\ Completed' = Completed \ {<<o, i>>} /\ <<o, i>> \in Completed
       /\ Loses(o, <<i, pools.arg[o][i]>>) /\ \A k \in Op : k # o => Same(k)

\* Before that it queues another.
NextFreeLaw ==
  \A o, k \in Op : \A i \in Nat : \A res : \A args \in Arg :
    /\ Pops(o, i, res)
    /\ UNCHANGED <<kernel, workVars>> /\ pools' = PoolFree(PoolNext(pools, k, args), o, i)
    => /\ RInv' /\ Completed' = Completed \ {<<o, i>>} /\ <<o, i>> \in Completed
       /\ k = o => Trades(o, <<i, pools.arg[o][i]>>, args)
       /\ k # o => Loses(o, <<i, pools.arg[o][i]>>) /\ Gains(k, args)
       /\ \A l \in Op : l # o /\ l # k => Same(l)

\* The handler of an openat queues a read and the last entry of a directory a close.
OpenedLaw ==
  \A i \in Nat : \A res, reads, closes, rarg, carg, q, t :
    /\ Pops("openat", i, res)
    /\ UNCHANGED <<kernel, workVars>> /\ (reads => rarg \in Arg) /\ (closes => carg \in Arg)
    /\ q = MayNext(pools, "read", rarg, reads)
    /\ t = MayNext(q, "close", carg, closes)
    /\ pools' = PoolFree(t, "openat", i)
    => /\ RInv' /\ Completed' = Completed \ {<<"openat", i>>} /\ <<"openat", i>> \in Completed
       /\ Loses("openat", <<i, pools.arg["openat"][i]>>) /\ Same("write")
       /\ MayGain("read", rarg, reads) /\ MayGain("close", carg, closes)

\* A buffer with data goes to a worker.
DataLaw ==
  \A i \in Nat : \A res :
    /\ Pops("read", i, res)
    /\ kernel' = kernel /\ handed = {} /\ held' = held \cup {i} /\ handed' = {i}
    /\ UNCHANGED <<read_free_queue, returned, lost>>
    /\ pools' = [pools EXCEPT !.in_flight = @ - 1]
    => /\ RInv' /\ Completed' = Completed \ {<<"read", i>>} /\ <<"read", i>> \in Completed
       /\ \A k \in Op : Same(k)

\* The read of the next chunk is queued.
QueueLaw ==
  \A i : \A args \in Arg :
    /\ handed = {i} /\ handed' = {} /\ pools' = PoolNext(pools, "read", args)
    /\ UNCHANGED <<kernel, cq, read_free_queue, returned, held, lost>>
    => /\ RInv' /\ Completed' = Completed
       /\ Trades("read", <<i, pools.arg["read"][i]>>, args) /\ \A k \in Op : k # "read" => Same(k)

\* The handler has failed: nothing is queued.
RefusedLaw ==
  \A i :
    /\ handed = {i} /\ handed' = {}
    /\ UNCHANGED <<pools, kernel, cq, read_free_queue, returned, held, lost>>
    => /\ RInv' /\ Completed' = Completed
       /\ Loses("read", <<i, pools.arg["read"][i]>>) /\ \A k \in Op : k # "read" => Same(k)

\* A failed read is left where it is.
ErrorLaw ==
  \A i \in Nat : \A res :
    /\ Pops("read", i, res)
    /\ kernel' = kernel /\ lost' = lost \cup {i}
    /\ UNCHANGED <<pools, read_free_queue, returned, held, handed>>
    => RInv' /\ Completed' = Completed \ {<<"read", i>>} /\ \A k \in Op : Same(k)

\* The kernel completes a request.
CompleteLaw ==
  \A o \in Op : \A i \in Nat : \A res \in Int :
    /\ <<o, i>> \in kernel /\ kernel' = kernel \ {<<o, i>>}
    /\ cq' = Append(cq, [req |-> <<o, i>>, res |-> res]) /\ UNCHANGED <<pools, workVars>>
    => RInv' /\ Kept /\ Completed' = Completed \cup {<<o, i>>}

RequestLaws ==
  /\ NextLaw /\ FreeLaw /\ NextFreeLaw /\ OpenedLaw
  /\ DataLaw /\ QueueLaw /\ RefusedLaw /\ ErrorLaw /\ CompleteLaw

-----------------------------------------------------------------------------
(* The arguments of the requests in use.                                   *)

ArgOf(o) == CASE o = "openat" -> OpenArg [] o = "close" -> CloseArg
              [] o = "read" -> ReadArg [] o = "write" -> WriteArg

Fits(o) == \A r \in Uses(o) : r[2] \in ArgOf(o)

\* ArgsSound, said of each kind of request.
LEMMA ArgsFit ==
  ASSUME ArgsSound
  PROVE  \A o \in Op : Fits(o)
PROOF
<1>1. Fits("read") /\ Fits("openat") /\ Fits("close") /\ Fits("write")
  BY UsesAre DEF ArgsSound, Fits, ArgOf
<1> QED
  BY <1>1 DEF Op

\* A step changes the requests of one kind in at most one of these ways.
LEMMA FitsAfter ==
  ASSUME NEW o, Fits(o), NEW args \in ArgOf(o), NEW x,
         Same(o) \/ Loses(o, x) \/ Gains(o, args) \/ Trades(o, x, args)
  PROVE  Fits(o)'
PROOF
<1>1. \A r \in Uses(o)' : r \in Uses(o) \/ r[2] = args
  <2>1. CASE Same(o) \/ Loses(o, x)
    BY <2>1 DEF Same, Loses
  <2>2. CASE Gains(o, args)
    <3>1. PICK i \in Nat : Uses(o)' = Uses(o) \cup {<<i, args>>}
      BY <2>2 DEF Gains
    <3> QED
      BY SMT, <3>1
  <2>3. CASE Trades(o, x, args)
    <3>1. PICK i \in Nat : Uses(o)' = (Uses(o) \ {x}) \cup {<<i, args>>}
      BY <2>3 DEF Trades
    <3> QED
      BY SMT, <3>1
  <2> QED
    BY <2>1, <2>2, <2>3
<1> QED
  BY <1>1 DEF Fits, ArgOf

\* A step that queues no request of kind o keeps the arguments of those in use right.
LEMMA FitsKept ==
  ASSUME NEW o, Fits(o), NEW x, Same(o) \/ Loses(o, x)
  PROVE  Fits(o)'
PROOF
<1>1. \A r \in Uses(o)' : r \in Uses(o)
  BY DEF Same, Loses
<1> QED
  BY <1>1 DEF Fits, ArgOf

\* ArgsSound from its four parts, after a step.
LEMMA ArgsSoundAfter ==
  ASSUME Fits("openat")', Fits("close")', Fits("read")', Fits("write")'
  PROVE  ArgsSound'
PROOF
<1>1. /\ Uses("read")' = Readers' /\ Uses("openat")' = Active("openat")'
      /\ Uses("close")' = Active("close")' /\ Uses("write")' = Active("write")'
  BY DEF Uses, Using, Lost, Readers, Active
<1> QED
  BY <1>1 DEF Fits, ArgOf, ArgsSound

-----------------------------------------------------------------------------
(* The references of directories.                                          *)

\* The openat requests relative to fd.
Relative(fd) == {r \in Uses("openat") : r[2][1] = fd}

Refs(fd) == Cardinality(Relative(fd))

Enumerated(fd) == IF pc = "dir" /\ Head(current) = fd THEN 1 ELSE 0

\* Finitely many openat requests are relative to a directory.
LEMMA RelativeFinite ==
  ASSUME Laws, RInv, NEW fd
  PROVE  IsFiniteSet(Relative(fd)) /\ Refs(fd) \in Nat
PROOF
<1> DEFINE a == pools.arg["openat"]
           h == [i \in 1..Len(a) |-> <<i, a[i]>>]
<1>1. a \in Seq(Arg)
  BY RequestFacts DEF PoolType, Op
<1>2. Len(a) \in Nat /\ DOMAIN a = 1..Len(a) /\ \A i \in 1..Len(a) : a[i] \in Arg
  BY <1>1, LenIs
<1>3. h \in Seq(Nat \X Arg)
  <2>1. h \in [1..Len(a) -> Nat \X Arg]
    BY SMT, <1>2
  <2> HIDE DEF h
  <2> QED
    BY <1>2, <2>1, FunctionSeq
<1>4. Relative(fd) \subseteq Range(h)
  <2>1. Relative(fd) \subseteq {<<i, a[i]>> : i \in DOMAIN a}
    BY UsesAre DEF Relative, Active, InUse
  <2>2. \A i \in 1..Len(a) : <<i, a[i]>> \in Range(h)
    BY DEF Range
  <2> QED
    BY <1>2, <2>1, <2>2
<1> HIDE DEF h
<1>5. IsFiniteSet(Relative(fd))
  BY <1>3, <1>4, FiniteRange, FiniteSubset
<1> QED
  BY <1>5, CardinalityType DEF Refs

\* A step that leaves the openat requests alone keeps the references to every directory.
LEMMA RefsSame ==
  ASSUME Same("openat"), NEW fd
  PROVE  Refs(fd)' = Refs(fd)
  BY DEF Same, Refs, Relative

\* One more, or one less, request is relative to f.
RefsUp(f) == Refs(f)' = Refs(f) + 1 /\ \A fd : fd # f => Refs(fd)' = Refs(fd)

RefsDown(f) ==
  Refs(f)' = Refs(f) - 1 /\ Refs(f) >= 1 /\ \A fd : fd # f => Refs(fd)' = Refs(fd)

\* An openat queued for an entry of directory f is one more reference to f.
LEMMA RefsGain ==
  ASSUME Laws, RInv, NEW f, NEW e, Gains("openat", <<f, e>>)
  PROVE  RefsUp(f)
PROOF
<1>1. PICK i \in Nat : /\ \A r \in Uses("openat") : r[1] # i
                       /\ Uses("openat")' = Uses("openat") \cup {<<i, <<f, e>>>>}
  BY DEF Gains
<1> DEFINE x == <<i, <<f, e>>>>
<1>2. x \notin Uses("openat") /\ x[2][1] = f
  BY <1>1
<1> HIDE DEF x
<1>3. Uses("openat")' = Uses("openat") \cup {x}
  BY <1>1 DEF x
<1>4. Relative(f)' = Relative(f) \cup {x} /\ x \notin Relative(f)
  BY <1>2, <1>3 DEF Relative
<1>5. IsFiniteSet(Relative(f))
  BY RelativeFinite
<1>6. Refs(f)' = Refs(f) + 1
  BY <1>4, <1>5, AddElement DEF Refs
<1>7. \A fd : fd # f => Relative(fd)' = Relative(fd)
  BY <1>2, <1>3 DEF Relative
<1> QED
  BY <1>6, <1>7 DEF RefsUp, Refs

\* An openat that is freed is one reference less to its directory.
LEMMA RefsLose ==
  ASSUME Laws, RInv, NEW x, Loses("openat", x)
  PROVE  RefsDown(x[2][1])
PROOF
<1> DEFINE f == x[2][1]
<1>1. Uses("openat")' = Uses("openat") \ {x} /\ x \in Uses("openat")
  BY DEF Loses
<1>2. Relative(f)' = Relative(f) \ {x} /\ x \in Relative(f)
  BY <1>1 DEF Relative
<1>3. IsFiniteSet(Relative(f))
  BY RelativeFinite
<1>4. Refs(f)' = Refs(f) - 1 /\ IsFiniteSet(Relative(f)') /\ Refs(f) \in Nat
  BY <1>2, <1>3, RemoveElement, CardinalityType DEF Refs
<1>5. Refs(f)' \in Nat
  BY <1>4, CardinalityType DEF Refs
<1>6. Refs(f) >= 1
  BY SMT, <1>4, <1>5
<1>7. \A fd : fd # f => Relative(fd)' = Relative(fd)
  BY <1>1 DEF Relative
<1> QED
  BY <1>4, <1>6, <1>7 DEF RefsDown, Refs

\* DirRefExact, with these names.
LEMMA DirRefIs ==
  ASSUME DirRefExact, NEW fd \in Fd
  PROVE  dir_ref_count[fd] = Enumerated(fd) + Refs(fd)
PROOF
<1>1. Refs(fd) = Cardinality({r \in Active("openat") : r[2][1] = fd})
  BY UsesAre DEF Refs, Relative
<1> QED
  BY <1>1 DEF DirRefExact, Enumerated

\* dir_ref_count is right after a step if it counts the enumeration and the openat requests.
LEMMA DirRefAfter ==
  ASSUME \A fd \in Fd : dir_ref_count'[fd] = Enumerated(fd)' + Refs(fd)'
  PROVE  DirRefExact'
PROOF
<1>1. Uses("openat")' = Active("openat")'
  BY DEF Uses, Using, Active
<1>2. \A fd : Refs(fd)' = Cardinality({r \in Active("openat") : r[2][1] = fd})'
  BY <1>1 DEF Refs, Relative
<1> QED
  BY <1>2 DEF DirRefExact, Enumerated

-----------------------------------------------------------------------------
(* The owners of descriptors.                                              *)

\* Requests with different descriptors, and their descriptors.
Apart(S) == \A r, s \in S : r[2][1] = s[2][1] => r = s

FdsOf(S) == {r[2][1] : r \in S}

\* A request for a descriptor no other has keeps the descriptors apart.
LEMMA FdsGain ==
  ASSUME NEW S, NEW T, NEW x, NEW fd, T = S \cup {x}, x[2][1] = fd, Apart(S), fd \notin FdsOf(S)
  PROVE  Apart(T) /\ FdsOf(T) = FdsOf(S) \cup {fd}
PROOF
<1>1. FdsOf(T) = FdsOf(S) \cup {fd}
  BY DEF FdsOf
<1>2. Apart(T)
  BY SMT DEF Apart, FdsOf
<1> QED
  BY <1>1, <1>2

\* The same of a request that the loop queues.
LEMMA FdsGained ==
  ASSUME NEW o, NEW args, NEW fd, Gains(o, args), args[1] = fd, Apart(Uses(o)), fd \notin FdsOf(Uses(o))
  PROVE  Apart(Uses(o)') /\ FdsOf(Uses(o)') = FdsOf(Uses(o)) \cup {fd}
PROOF
<1>1. PICK j \in Nat : Uses(o)' = Uses(o) \cup {<<j, args>>}
  BY DEF Gains
<1>2. <<j, args>>[2][1] = fd
  <2>1. <<j, args>>[2] = args
    OBVIOUS
  <2> QED
    BY <2>1
<1>3. PICK x : x = <<j, args>>
  OBVIOUS
<1> DEFINE S == Uses(o)
           T == Uses(o)'
<1>4. T = S \cup {x} /\ x[2][1] = fd /\ Apart(S) /\ fd \notin FdsOf(S)
  BY <1>1, <1>2, <1>3
<1> HIDE DEF S, T
<1>5. Apart(T)
  BY SMT, <1>4 DEF Apart, FdsOf
<1>6. FdsOf(T) = FdsOf(S) \cup {fd}
  BY <1>4 DEF FdsOf
<1> QED
  BY <1>5, <1>6 DEF S, T

\* A request that is freed gives up its descriptor.
LEMMA FdsLose ==
  ASSUME NEW S, NEW T, NEW x \in S, T = S \ {x}, Apart(S)
  PROVE  Apart(T) /\ FdsOf(T) = FdsOf(S) \ {x[2][1]}
  BY DEF Apart, FdsOf

\* The read of the next chunk takes over the descriptor of the read before it.
LEMMA FdsTrade ==
  ASSUME NEW S, NEW T, NEW x \in S, NEW y, T = (S \ {x}) \cup {y}, Apart(S), y[2][1] = x[2][1]
  PROVE  Apart(T) /\ FdsOf(T) = FdsOf(S)
PROOF
<1>1. FdsOf(T) = FdsOf(S)
  BY DEF FdsOf
<1>2. Apart(T)
  BY SMT DEF Apart
<1> QED
  BY <1>1, <1>2

\* The descriptors opened by completions of queue q, each by one of them.
OpensOf(q) == {c.res : c \in {d \in Range(q) : d.req[1] = "openat"}}

OneOpen(q) ==
  \A k, l \in DOMAIN q :
    q[k].req[1] = "openat" /\ q[l].req[1] = "openat" /\ q[k].res = q[l].res =>
      k = l \/ q[k].res = -1

\* A completion of an openat holds the descriptor it opened.
LEMMA OpensPush ==
  ASSUME NEW S, NEW q \in Seq(S), NEW c \in S, OneOpen(q),
         c.req[1] = "openat" => c.res = -1 \/ c.res \notin OpensOf(q)
  PROVE  /\ OneOpen(Append(q, c))
         /\ OpensOf(Append(q, c)) = OpensOf(q) \cup (IF c.req[1] = "openat" THEN {c.res} ELSE {})
PROOF
<1>1. Len(Append(q, c)) = Len(q) + 1 /\ Len(q) \in Nat /\ Range(Append(q, c)) = Range(q) \cup {c}
  BY SMT, PushBack
<1>2. OpensOf(Append(q, c)) = OpensOf(q) \cup (IF c.req[1] = "openat" THEN {c.res} ELSE {})
  BY <1>1 DEF OpensOf
<1>3. /\ DOMAIN q = 1..Len(q) /\ DOMAIN Append(q, c) = 1..Len(q) + 1
      /\ \A k \in 1..Len(q) : Append(q, c)[k] = q[k]
      /\ Append(q, c)[Len(q) + 1] = c
  BY SMT, <1>1, AppendIs, LenIs
<1>4. \A k \in 1..Len(q) + 1 : k \in 1..Len(q) \/ k = Len(q) + 1
  BY SMT, <1>1
<1>5. \A k \in 1..Len(q) : q[k].req[1] = "openat" => q[k].res \in OpensOf(q)
  BY <1>3 DEF OpensOf, Range
<1>6. OneOpen(Append(q, c))
  BY SMT, <1>3, <1>4, <1>5 DEF OneOpen
<1> QED
  BY <1>2, <1>6

\* pump takes the descriptor with the completion.
LEMMA OpensPop ==
  ASSUME NEW S, NEW q \in Seq(S), q # <<>>, OneOpen(q)
  PROVE  /\ OneOpen(Tail(q))
         /\ Head(q).req[1] = "openat" => Head(q).res \in OpensOf(q)
         /\ \A f : f # -1 =>
              (f \in OpensOf(Tail(q)) <=>
                 f \in OpensOf(q) /\ ~(Head(q).req[1] = "openat" /\ Head(q).res = f))
PROOF
<1>1. Range(q) = Range(Tail(q)) \cup {Head(q)} /\ Len(q) \in Nat
  BY PopFront
<1>2. /\ DOMAIN q = 1..Len(q) /\ DOMAIN Tail(q) = 1..Len(q) - 1 /\ Len(q) # 0
      /\ \A k \in 1..Len(q) - 1 : Tail(q)[k] = q[k + 1]
      /\ Head(q) = q[1]
  BY <1>1, TailIs, LenIs
<1>3. \A k \in 1..Len(q) - 1 : k + 1 \in 1..Len(q) /\ 1 \in 1..Len(q) /\ k + 1 # 1
  BY SMT, <1>1
<1>4. OneOpen(Tail(q))
  <2>1. ASSUME NEW k \in 1..Len(q) - 1, NEW l \in 1..Len(q) - 1, Tail(q)[k].req[1] = "openat",
               Tail(q)[l].req[1] = "openat", Tail(q)[k].res = Tail(q)[l].res, Tail(q)[k].res # -1
        PROVE  k = l
    <3>1. k + 1 = l + 1
      BY SMT, <1>2, <1>3, <2>1 DEF OneOpen
    <3> QED
      BY SMT, <1>1, <3>1
  <2> QED
    BY <1>2, <2>1 DEF OneOpen
<1>5. \A k \in 1..Len(q) - 1 :
        Tail(q)[k].req[1] = "openat" /\ Head(q).req[1] = "openat" =>
          Tail(q)[k].res # Head(q).res \/ Head(q).res = -1
  BY <1>2, <1>3 DEF OneOpen
<1>6. \A d \in Range(Tail(q)) : \E k \in 1..Len(q) - 1 : d = Tail(q)[k]
  BY <1>2 DEF Range
<1>7. Head(q).req[1] = "openat" /\ Head(q).res # -1 => Head(q).res \notin OpensOf(Tail(q))
  BY SMT, <1>5, <1>6 DEF OpensOf
<1>8. OpensOf(q) = OpensOf(Tail(q)) \cup (IF Head(q).req[1] = "openat" THEN {Head(q).res} ELSE {})
  BY <1>1 DEF OpensOf
<1> QED
  BY <1>4, <1>7, <1>8

\* The directories of c that remain to be enumerated, with the first in hand or not.
Waiting(c, dir) == {c[k] : k \in DOMAIN c \ (IF dir THEN {1} ELSE {})}

\* The directories that wait are those of the list, less the one enumerated.
LEMMA WaitingIs ==
  ASSUME NEW S, NEW c \in Seq(S)
  PROVE  Waiting(c, FALSE) = Range(c) /\ (c # <<>> => Waiting(c, TRUE) = Range(Tail(c)))
PROOF
<1>1. Waiting(c, FALSE) = Range(c)
  BY DEF Waiting, Range
<1>2. ASSUME c # <<>>
      PROVE  Waiting(c, TRUE) = Range(Tail(c))
  <2>1. Len(c) \in Nat /\ Len(c) # 0 /\ DOMAIN c = 1..Len(c)
    BY <1>2, LenIs
  <2>2. DOMAIN Tail(c) = 1..Len(c) - 1 /\ \A k \in 1..Len(c) - 1 : Tail(c)[k] = c[k + 1]
    BY <1>2, <2>1, TailIs, LenIs
  <2>3. \A k \in 1..Len(c) - 1 : k + 1 \in 1..Len(c) \ {1}
    BY SMT, <2>1
  <2>4. \A k \in 1..Len(c) \ {1} : k - 1 \in 1..Len(c) - 1 /\ (k - 1) + 1 = k
    BY SMT, <2>1
  <2>5. Range(Tail(c)) \subseteq Waiting(c, TRUE)
    BY <2>1, <2>2, <2>3 DEF Waiting, Range
  <2>6. Waiting(c, TRUE) \subseteq Range(Tail(c))
    <3>1. ASSUME NEW k \in 1..Len(c) \ {1}
          PROVE  c[k] \in Range(Tail(c))
      <4>1. k - 1 \in 1..Len(c) - 1 /\ Tail(c)[k - 1] = c[k]
        BY <2>2, <2>4
      <4> QED
        BY <2>2, <4>1 DEF Range
    <3> QED
      BY <2>1, <3>1 DEF Waiting
  <2> QED
    BY <2>5, <2>6
<1> QED
  BY <1>1, <1>2

\* The requests of kind o the kernel has not served, after each kind of step.
Unserved(o) == {r \in Uses(o) : <<o, r[1]>> \notin Completed}

SameServed(o) == \A j : <<o, j>> \in Completed' <=> <<o, j>> \in Completed

\* Requests that are neither queued, served nor freed stay as they are.
LEMMA UnservedSame ==
  ASSUME NEW o, Same(o), SameServed(o)
  PROVE  Unserved(o)' = Unserved(o)
  BY DEF Unserved, Same, SameServed

\* A request queued is one that is not served.
LEMMA UnservedGain ==
  ASSUME NEW o, NEW args, Gains(o, args), SameServed(o)
  PROVE  \E j \in Nat : Unserved(o)' = Unserved(o) \cup {<<j, args>>}
PROOF
<1>1. PICK j \in Nat : <<o, j>> \notin Out /\ Uses(o)' = Uses(o) \cup {<<j, args>>}
  BY DEF Gains
<1>2. <<o, j>> \notin Completed'
  BY <1>1 DEF SameServed, Out, Ring
<1> DEFINE x == <<j, args>>
<1>3. x[1] = j
  OBVIOUS
<1> HIDE DEF x
<1>4. Uses(o)' = Uses(o) \cup {x}
  BY <1>1 DEF x
<1>5. Unserved(o)' = Unserved(o) \cup {x}
  BY <1>2, <1>3, <1>4 DEF SameServed, Unserved
<1> QED
  BY <1>5 DEF x

\* Freeing a served request changes nothing of those not served.
LEMMA UnservedFreed ==
  ASSUME NEW o, NEW i, NEW x, x[1] = i, Loses(o, x), <<o, i>> \in Completed,
         Completed' = Completed \ {<<o, i>>}
  PROVE  Unserved(o)' = Unserved(o)
PROOF
<1>1. x \in Uses(o) /\ Uses(o)' = Uses(o) \ {x}
  BY DEF Loses
<1>2. \A r \in Uses(o) : r[1] = i => r = x
  BY <1>1, UsesHaveArg
<1>3. \A r \in Uses(o)' : <<o, r[1]>> \notin Completed' <=> <<o, r[1]>> \notin Completed
  BY <1>1, <1>2
<1> QED
  BY <1>1, <1>3 DEF Unserved

\* The kernel serves a request.
LEMMA UnservedLess ==
  ASSUME NEW o, NEW i, NEW x \in Uses(o), x[1] = i, Same(o), Completed' = Completed \cup {<<o, i>>}
  PROVE  Unserved(o)' = Unserved(o) \ {x}
PROOF
<1>1. \A r \in Uses(o) : r[1] = i => r = x
  BY UsesHaveArg
<1>2. \A r \in Uses(o) :
        <<o, r[1]>> \notin Completed' <=> <<o, r[1]>> \notin Completed /\ r # x
  BY <1>1
<1> QED
  BY <1>2 DEF Same, Unserved

\* Closers, by the close requests in use.
LEMMA ClosersAre == Closers = Unserved("close") /\ Closers' = Unserved("close")'
  BY DEF Closers, Unserved, Uses, Using, Active

\* The closes not served, after each kind of step.
SameCloses == SameServed("close")

\* Closes that are neither queued, served nor freed stay as they are.
LEMMA ClosersSame ==
  ASSUME Same("close"), SameCloses
  PROVE  Closers' = Closers
  BY ClosersAre, UnservedSame DEF SameCloses

\* A close queued is one that is not served.
LEMMA ClosersGain ==
  ASSUME NEW args, Gains("close", args), SameCloses
  PROVE  \E j \in Nat : Closers' = Closers \cup {<<j, args>>}
  BY ClosersAre, UnservedGain DEF SameCloses

\* Freeing a served close changes nothing of those not served.
LEMMA ClosersFreed ==
  ASSUME NEW i, NEW x, x[1] = i, Loses("close", x), <<"close", i>> \in Completed,
         Completed' = Completed \ {<<"close", i>>}
  PROVE  Closers' = Closers
  BY ClosersAre, UnservedFreed

\* The kernel closes the descriptor when it serves the request.
LEMMA ClosersServed ==
  ASSUME NEW i, NEW x \in Uses("close"), x[1] = i, Same("close"),
         Completed' = Completed \cup {<<"close", i>>}
  PROVE  Closers' = Closers \ {x}
  BY ClosersAre, UnservedLess

\* The parts of OneOwner.
Owned ==
  \A fd \in Fd : /\ Owners(fd) <= Present(table[fd], Entry)
                 /\ pc # "failed" => Owners(fd) = Present(table[fd], Entry)

QueuesApart ==
  /\ OneOpen(cq) /\ IsInjective(getdents_queue) /\ IsInjective(current)
  /\ Apart(Uses("read")) /\ Apart(Closers)

\* OneOwner in two parts: the owners of a descriptor, and the queues that name it once.
LEMMA OneOwnerParts ==
  /\ OneOwner <=> Owned /\ QueuesApart
  /\ OneOwner' <=> Owned' /\ QueuesApart'
PROOF
<1>1. Uses("read") = Readers /\ Uses("read")' = Readers'
  BY DEF Uses, Using, Lost, Readers, Active
<1>2. OneOwner <=> Owned /\ QueuesApart
  BY <1>1 DEF OneOwner, Owned, QueuesApart, OneOpen, Apart
<1>3. OneOwner' <=> Owned' /\ QueuesApart'
  BY <1>1 DEF OneOwner, Owned, QueuesApart, OneOpen, Apart
<1> QED
  BY <1>2, <1>3

\* The places of a descriptor, by the operators the lemmas above are about.
LEMMA OwnersAre ==
  /\ OpenedFds = OpensOf(cq) /\ OpenedFds' = OpensOf(cq')
  /\ Unlisted = Waiting(current, pc = "dir") /\ Unlisted' = Waiting(current', pc' = "dir")
  /\ ReadFds = FdsOf(Uses("read")) /\ ReadFds' = FdsOf(Uses("read")')
  /\ ClosingFds = FdsOf(Closers) /\ ClosingFds' = FdsOf(Closers')
PROOF
<1>1. Uses("read") = Readers /\ Uses("read")' = Readers'
  BY DEF Uses, Using, Lost, Readers, Active
<1> QED
  BY <1>1 DEF OpenedFds, OpensOf, Unlisted, Waiting, ReadFds, ClosingFds, FdsOf

\* The descriptors in fd's six places, before and after a step.
SameOwners(fd) ==
  /\ fd \in OpenedFds' <=> fd \in OpenedFds
  /\ fd \in Range(getdents_queue)' <=> fd \in Range(getdents_queue)
  /\ fd \in Unlisted' <=> fd \in Unlisted
  /\ fd \in Referenced' <=> fd \in Referenced
  /\ fd \in ReadFds' <=> fd \in ReadFds
  /\ fd \in ClosingFds' <=> fd \in ClosingFds

\* A descriptor that is in the same places has as many owners.
LEMMA OwnersSame ==
  ASSUME NEW fd, SameOwners(fd)
  PROVE  Owners(fd)' = Owners(fd)
  BY DEF SameOwners, Owners, Present

\* A descriptor has at most one owner, and none when it is not open.
LEMMA SoleOwner ==
  ASSUME Owned, NEW fd \in Fd
  PROVE  Owners(fd) \in Int /\ Owners(fd) <= 1 /\ (table[fd] \notin Entry => Owners(fd) <= 0)
PROOF
<1>1. Owners(fd) \in Int
  BY SMT DEF Owners, Present
<1>2. Owners(fd) <= Present(table[fd], Entry)
  BY DEF Owned
<1>3. CASE table[fd] \in Entry
  BY <1>1, <1>2, <1>3 DEF Present
<1>4. CASE table[fd] \notin Entry
  BY SMT, <1>1, <1>2, <1>4 DEF Present
<1> QED
  BY <1>3, <1>4

\* A step that keeps the owners of every descriptor and the open ones keeps Owned.
LEMMA OwnedAfter ==
  ASSUME Owned, pc = "failed" => pc' = "failed",
         \A fd \in Fd : /\ table'[fd] \in Entry <=> table[fd] \in Entry
                        /\ Owners(fd)' = Owners(fd)
  PROVE  Owned'
PROOF
<1>1. \A fd \in Fd : Present(table[fd], Entry)' = Present(table[fd], Entry)
  BY DEF Present
<1> QED
  BY <1>1 DEF Owned

-----------------------------------------------------------------------------
(* The types, and where pump is.                                           *)

LoopTypes ==
  /\ pc \in {"getdents", "list", "dir", "drain", "free", "return",
             "test", "submit", "wait", "reap", "handed", "done", "failed"}
  /\ getdents_queue \in Seq(Fd) /\ current \in Seq(Fd) /\ todo \subseteq Entry \ {Root}
  /\ dir_ref_count \in [Fd -> Int]
  /\ table \in [Fd -> Entry \cup {None}]

\* The parts of the inductive invariant.
LEMMA IInvParts ==
  /\ IInv <=> RInv /\ LoopTypes /\ ControlInv /\ ArgsSound /\ DirRefExact /\ OneOwner
  /\ IInv' <=> RInv' /\ LoopTypes' /\ ControlInv' /\ ArgsSound' /\ DirRefExact' /\ OneOwner'
  BY DEF IInv, RInv, TypeOK, LoopTypes

\* The counts stay integers.
LEMMA CountTypes ==
  ASSUME dir_ref_count \in [Fd -> Int], NEW fd
  PROVE  IncreaseDirRef(fd) \in [Fd -> Int] /\ DecreaseDirRef(fd) \in [Fd -> Int]
PROOF
<1>1. CASE fd \in Fd
  BY SMT, <1>1 DEF IncreaseDirRef, DecreaseDirRef
<1>2. CASE fd \notin Fd
  <2>1. IncreaseDirRef(fd) = dir_ref_count /\ DecreaseDirRef(fd) = dir_ref_count
    BY <1>2 DEF IncreaseDirRef, DecreaseDirRef
  <2> QED
    BY <2>1
<1> QED
  BY <1>1, <1>2

\* The types and the place of pump after a step of its getdents loop.
LEMMA GetDentsTypes ==
  ASSUME LoopTypes, ControlInv, GetDentsTurn
  PROVE  LoopTypes' /\ ControlInv'
PROOF
<1>1. CASE SwapGetDents
  BY <1>1, NoElements DEF SwapGetDents, LoopTypes, ControlInv, workVars, ringVars
<1>2. CASE StartDir
  <2>1. Head(current) \in Fd
    BY <1>2, PopFront DEF StartDir, LoopTypes
  <2>2. PICK entries \in SUBSET Children(table[Head(current)]) :
          /\ todo' = entries /\ dir_ref_count' = [dir_ref_count EXCEPT ![Head(current)] = 1]
    BY <1>2 DEF StartDir
  <2>3. todo' \subseteq Entry \ {Root} /\ dir_ref_count' \in [Fd -> Int]
    BY SMT, <2>1, <2>2 DEF Children, LoopTypes
  <2> QED
    BY <1>2, <2>3 DEF StartDir, LoopTypes, ControlInv, workVars, ringVars
<1>3. CASE QueueOpenAt
  <2>1. todo' \subseteq todo /\ dir_ref_count' = IncreaseDirRef(Head(current))
    BY <1>3 DEF QueueOpenAt
  <2>2. dir_ref_count' \in [Fd -> Int]
    BY <2>1, CountTypes DEF LoopTypes
  <2> QED
    BY <1>3, <2>1, <2>2 DEF QueueOpenAt, LoopTypes, ControlInv, workVars, ringVars
<1>4. CASE EndDir
  <2>1. dir_ref_count' \in [Fd -> Int]
    BY <1>4, CountTypes DEF EndDir, LoopTypes
  <2>2. current' \in Seq(Fd)
    BY <1>4, PopFront DEF EndDir, LoopTypes, ControlInv
  <2> QED
    BY <1>4, <2>1, <2>2 DEF EndDir, LoopTypes, ControlInv, workVars, ringVars
<1>5. CASE EndGetDents
  BY <1>5 DEF EndGetDents, LoopTypes, ControlInv, workVars, ringVars, loopVars
<1> QED
  BY <1>1, <1>2, <1>3, <1>4, <1>5 DEF GetDentsTurn

\* The same of the steps from the last completion to the next wait.
LEMMA SubmitTypes ==
  ASSUME LoopTypes, ControlInv, SubmitTurn \/ EndReap \/ FreeReadRequest
  PROVE  LoopTypes' /\ ControlInv'
PROOF
<1>1. UNCHANGED <<loopVars, table, handed>>
  BY DEF SubmitTurn, Drain, EndDrain, SwapFreed, FreeRead, EndFree, Exit, Submit, SubmitNext,
         EndSubmit, SubmitFails, Wait, EndReap, FreeReadRequest, ringVars, workVars
<1>2. \/ pc' = pc /\ (returned' = returned \/ pc = "return")
      \/ /\ <<pc, pc'>> \in {<<"drain", "free">>, <<"free", "return">>, <<"return", "test">>,
                             <<"test", "done">>, <<"test", "submit">>, <<"submit", "wait">>,
                             <<"test", "failed">>, <<"wait", "reap">>, <<"reap", "getdents">>}
         /\ pc' # "return" => returned' = <<>>
  BY DEF SubmitTurn, Drain, EndDrain, SwapFreed, FreeRead, EndFree, Exit, Submit, SubmitNext,
         EndSubmit, SubmitFails, Wait, EndReap, FreeReadRequest, ringVars, workVars, ControlInv
<1> QED
  BY <1>1, <1>2 DEF LoopTypes, ControlInv, loopVars

\* What ReapOpenAt does for the completion of request i.
Opened(i, res) ==
  LET args == pools.arg["openat"][i]
      reads == res \in Fd /\ args[2] \in File
      closes == args[1] # AtCwd /\ dir_ref_count[args[1]] = 1
  IN /\ Reap("openat", i, res)
     /\ getdents_queue' = IF res \in Fd /\ args[2] \in Dir THEN Append(getdents_queue, res)
                                                           ELSE getdents_queue
     /\ dir_ref_count' = IF args[1] # AtCwd THEN DecreaseDirRef(args[1]) ELSE dir_ref_count
     /\ \E q, t : /\ q = (IF reads THEN PoolNext(pools, "read", <<res, 0>>) ELSE pools)
                  /\ t = (IF closes THEN PoolNext(q, "close", <<args[1]>>) ELSE q)
                  /\ pools' = PoolFree(t, "openat", i)
     /\ skipped' = IF res = -1 THEN skipped \cup {args[2]} ELSE skipped
     /\ UNCHANGED <<current, todo, workVars, got, listed, finished, written>>

\* ReapOpenAt sees the completion of one request.
LEMMA OpenedParts ==
  ASSUME ReapOpenAt
  PROVE  \E i \in DOMAIN pools.arg["openat"], res \in Fd \cup {-1} : Opened(i, res)
PROOF
<1>1. PICK i \in DOMAIN pools.arg["openat"], res \in Fd \cup {-1} :
        LET args == pools.arg["openat"][i]
            relative == args[1] # AtCwd
            opened == IF res \in Fd /\ args[2] \in File THEN PoolNext(pools, "read", <<res, 0>>)
                                                        ELSE pools
            dropped == IF relative THEN CloseIfLast(opened, args[1]) ELSE opened
        IN /\ Reap("openat", i, res)
           /\ getdents_queue' = IF res \in Fd /\ args[2] \in Dir THEN Append(getdents_queue, res)
                                                                 ELSE getdents_queue
           /\ dir_ref_count' = IF relative THEN DecreaseDirRef(args[1]) ELSE dir_ref_count
           /\ pools' = PoolFree(dropped, "openat", i)
           /\ skipped' = IF res = -1 THEN skipped \cup {args[2]} ELSE skipped
           /\ UNCHANGED <<current, todo, workVars, got, listed, finished, written>>
  BY DEF ReapOpenAt
<1> DEFINE args == pools.arg["openat"][i]
           q == IF res \in Fd /\ args[2] \in File THEN PoolNext(pools, "read", <<res, 0>>) ELSE pools
           t == IF args[1] # AtCwd /\ dir_ref_count[args[1]] = 1
                THEN PoolNext(q, "close", <<args[1]>>) ELSE q
<1>2. t = IF args[1] # AtCwd THEN CloseIfLast(q, args[1]) ELSE q
  BY DEF CloseIfLast
<1>3. pools' = PoolFree(t, "openat", i)
  BY <1>1, <1>2
<1>4. Opened(i, res)
  BY <1>1, <1>3 DEF Opened
<1> QED
  BY <1>4

\* The types and the place of pump after it has handled a completion.
LEMMA ReapTypes ==
  ASSUME Laws, RInv, LoopTypes, ControlInv, ReapTurn, ~EndReap
  PROVE  LoopTypes' /\ ControlInv' /\ pc \in {"reap", "handed"} /\ pc' \in {"reap", "handed", "failed"}
PROOF
<1>1. /\ pc \in {"reap", "handed"} /\ pc' \in {"reap", "handed", "failed"}
      /\ UNCHANGED <<current, todo, table, returned>>
  BY DEF ReapTurn, ReapOpenAt, ReapClose, ReapReadEnd, ReapReadData, QueueRead, ReadHandlerFails,
         ReapReadError, ReapWrite, Reap, See, loopVars, ringVars, workVars
<1>2. ControlInv'
  <2>1. CASE ReapReadData
    <3>1. PICK i \in DOMAIN pools.arg["read"] : handed' = {i}
      BY <2>1 DEF ReapReadData
    <3>2. pc' = "handed" /\ i \in Nat
      BY <2>1, ArgIndex DEF ReapReadData, Op
    <3> QED
      BY <1>1, <3>1, <3>2 DEF ControlInv
  <2>2. CASE ~ReapReadData
    <3>1. pc' # "handed" /\ handed' = {}
      BY <2>2 DEF ReapTurn, ReapOpenAt, ReapClose, ReapReadEnd, QueueRead, ReadHandlerFails,
         ReapReadError, ReapWrite, Reap, See, loopVars, ringVars, workVars, ControlInv
    <3> QED
      BY <1>1, <3>1 DEF ControlInv
  <2> QED
    BY <2>1, <2>2
<1>3. ASSUME ReapOpenAt
      PROVE  getdents_queue' \in Seq(Fd) /\ dir_ref_count' \in [Fd -> Int]
  <2>1. PICK i \in DOMAIN pools.arg["openat"], res \in Fd \cup {-1} : Opened(i, res)
    BY <1>3, OpenedParts
  <2>2. /\ \/ getdents_queue' = getdents_queue
           \/ res \in Fd /\ getdents_queue' = Append(getdents_queue, res)
        /\ \/ dir_ref_count' = dir_ref_count
           \/ dir_ref_count' = DecreaseDirRef(pools.arg["openat"][i][1])
    BY <2>1 DEF Opened
  <2>3. getdents_queue' \in Seq(Fd)
    <3>1. getdents_queue \in Seq(Fd)
      BY DEF LoopTypes
    <3> QED
      BY SMT, <2>2, <3>1, PushBack
  <2>4. dir_ref_count' \in [Fd -> Int]
    <3>1. dir_ref_count \in [Fd -> Int]
      BY DEF LoopTypes
    <3> QED
      BY <2>2, <3>1, CountTypes
  <2> QED
    BY <2>3, <2>4
<1>4. ASSUME ~ReapOpenAt
      PROVE  UNCHANGED <<getdents_queue, dir_ref_count>>
  BY <1>4 DEF ReapTurn, ReapClose, ReapReadEnd, ReapReadData, QueueRead, ReadHandlerFails,
              ReapReadError, ReapWrite, loopVars
<1>5. getdents_queue' \in Seq(Fd) /\ dir_ref_count' \in [Fd -> Int]
  BY <1>3, <1>4 DEF LoopTypes
<1>6. LoopTypes'
  BY <1>1, <1>5 DEF LoopTypes
<1> QED
  BY <1>1, <1>2, <1>6

-----------------------------------------------------------------------------
(* Steps that leave the requests in use as they are.                       *)

\* The arguments stay right in a step that keeps the requests in use and the failed reads.
LEMMA KeptStep ==
  ASSUME ArgsSound, Kept
  PROVE  ArgsSound' /\ \A o \in Op : Same(o)
PROOF
<1>1. \A o \in Op : Same(o)
  BY KeptUses DEF Same
<1>2. \A o \in Op : Fits(o)'
  BY <1>1, ArgsFit, FitsKept
<1>3. ArgsSound'
  BY <1>2, ArgsSoundAfter DEF Op
<1> QED
  BY <1>1, <1>3

\* Steps that change neither the queues of descriptors nor the completions.
LEMMA SteadyStep ==
  ASSUME Laws, IInv, Kept, UNCHANGED <<cq, getdents_queue, current, dir_ref_count, table>>,
         pc' = "dir" <=> pc = "dir", pc = "failed" => pc' = "failed"
  PROVE  DirRefExact' /\ OneOwner'
PROOF
<1>1. /\ cq' = cq /\ getdents_queue' = getdents_queue /\ current' = current
      /\ dir_ref_count' = dir_ref_count /\ table' = table
  OBVIOUS
<1>2. Same("openat") /\ Same("close") /\ Same("read")
  BY KeptUses DEF Same, Op
<1>3. DirRefExact'
  <2>1. \A fd : Refs(fd)' = Refs(fd) /\ Enumerated(fd)' = Enumerated(fd)
    BY <1>1, <1>2, RefsSame DEF Enumerated
  <2>2. \A fd \in Fd : dir_ref_count[fd] = Enumerated(fd) + Refs(fd)
    BY DirRefIs DEF IInv
  <2> QED
    BY <1>1, <2>1, <2>2, DirRefAfter
<1>4. Completed' = Completed
  BY <1>1 DEF Completed
<1>5. Closers' = Closers
  BY <1>2, <1>4, ClosersSame DEF SameCloses, SameServed
<1>6. Owned /\ QueuesApart
  BY OneOwnerParts DEF IInv
<1>7. QueuesApart'
  BY <1>1, <1>2, <1>5, <1>6 DEF QueuesApart, Same
<1>8. \A fd : SameOwners(fd)
  BY <1>1, <1>2, <1>5, OwnersAre DEF SameOwners, Same, Referenced
<1>9. Owned'
  BY <1>1, <1>6, <1>8, OwnersSame, OwnedAfter
<1> QED
  BY <1>3, <1>7, <1>9, OneOwnerParts

-----------------------------------------------------------------------------
(* The first phase of pump.                                                *)

\* pump swaps its directory queue for an empty one: the directories it takes wait in the list.
LEMMA SwapGetDentsStep ==
  ASSUME Laws, IInv, SwapGetDents
  PROVE  DirRefExact' /\ OneOwner' /\ RInv' /\ ArgsSound'
PROOF
<1>1. /\ pc = "getdents" /\ pc' = "list" /\ cq' = cq /\ current' = getdents_queue
      /\ getdents_queue' = <<>> /\ dir_ref_count' = dir_ref_count /\ table' = table
  BY DEF SwapGetDents, ringVars
<1>2. RInv /\ LoopTypes /\ ControlInv /\ ArgsSound /\ DirRefExact
  BY IInvParts
<1>3. UNCHANGED <<pools, kernel, cq, workVars>>
  BY DEF SwapGetDents, ringVars
<1>4. RInv' /\ Kept
  BY <1>2, <1>3, QuietRequests
<1>5. ArgsSound' /\ Same("openat") /\ Same("close") /\ Same("read")
  BY <1>2, <1>4, KeptStep DEF Op
<1>6. DirRefExact'
  <2>1. \A fd : Refs(fd)' = Refs(fd) /\ Enumerated(fd)' = Enumerated(fd)
    BY <1>1, <1>5, RefsSame DEF Enumerated
  <2> QED
    BY <1>1, <1>2, <2>1, DirRefIs, DirRefAfter
<1>7. Closers' = Closers
  BY <1>1, <1>5, ClosersSame DEF SameCloses, SameServed, Completed
<1>8. Owned /\ QueuesApart
  BY OneOwnerParts DEF IInv
<1>9. QueuesApart'
  <2>1. IsInjective(<<>>)
    BY SMT, NoElements DEF IsInjective
  <2> QED
    BY <1>1, <1>5, <1>7, <1>8, <2>1 DEF QueuesApart, Same
<1>10. /\ Unlisted = {} /\ Unlisted' = Range(getdents_queue) /\ Range(getdents_queue)' = {}
  <2>1. current = <<>> /\ getdents_queue \in Seq(Fd) /\ Range(<<>>) = {} /\ <<>> \in Seq(Fd)
    BY SMT, <1>1, <1>2, NoElements DEF ControlInv, LoopTypes, Range
  <2>2. Unlisted = Waiting(<<>>, FALSE) /\ Unlisted' = Waiting(getdents_queue, FALSE)
    BY <1>1, <2>1, OwnersAre
  <2> QED
    BY <1>1, <2>1, <2>2, WaitingIs
<1>11. \A fd : Owners(fd)' = Owners(fd)
  <2>1. OpenedFds' = OpenedFds /\ ReadFds' = ReadFds /\ ClosingFds' = ClosingFds
    BY <1>1, <1>5, <1>7, OwnersAre DEF Same
  <2>2. Referenced' = Referenced
    BY <1>1 DEF Referenced
  <2> QED
    BY SMT, <1>10, <2>1, <2>2 DEF Owners, Present
<1>12. Owned'
  BY <1>1, <1>8, <1>11, OwnedAfter
<1> QED
  BY <1>4, <1>5, <1>6, <1>9, <1>12, OneOwnerParts

\* No request is relative to a directory before it is enumerated, and nobody else has it.
LEMMA StartDirStep ==
  ASSUME Laws, IInv, StartDir
  PROVE  DirRefExact' /\ OneOwner' /\ RInv' /\ ArgsSound'
PROOF
<1> DEFINE f == Head(current)
<1>1. /\ pc = "list" /\ pc' = "dir" /\ cq' = cq /\ current' = current /\ current # <<>>
      /\ getdents_queue' = getdents_queue /\ table' = table
      /\ dir_ref_count' = [dir_ref_count EXCEPT ![f] = 1]
  BY DEF StartDir, ringVars
<1>2. RInv /\ LoopTypes /\ ControlInv /\ ArgsSound /\ DirRefExact
  BY IInvParts
<1>3. UNCHANGED <<pools, kernel, cq, workVars>>
  BY DEF StartDir, ringVars
<1>4. RInv' /\ Kept
  BY <1>2, <1>3, QuietRequests
<1>5. ArgsSound' /\ Same("openat") /\ Same("close") /\ Same("read")
  BY <1>2, <1>4, KeptStep DEF Op
<1>6. Owned /\ QueuesApart
  BY OneOwnerParts DEF IInv
<1>7. current \in Seq(Fd) /\ IsInjective(current)
  BY <1>2, <1>6 DEF LoopTypes, QueuesApart
<1>8. /\ f \in Fd /\ Range(current) = Range(Tail(current)) \cup {f} /\ f \notin Range(Tail(current))
  BY <1>1, <1>7, PopFront
<1>9. Unlisted = Range(current) /\ Unlisted' = Range(Tail(current))
  <2>1. Unlisted = Waiting(current, FALSE) /\ Unlisted' = Waiting(current, TRUE)
    BY <1>1, OwnersAre
  <2> QED
    BY <1>1, <1>7, <2>1, WaitingIs
<1>10. f \in Unlisted /\ f \notin Referenced
  <2>1. f \in Unlisted
    BY <1>8, <1>9
  <2>2. Owners(f) <= 1
    BY <1>6, <1>8, SoleOwner
  <2> QED
    BY SMT, <2>1, <2>2 DEF Owners, Present
<1>11. dir_ref_count[f] = 0 /\ Refs(f) = 0
  <2>1. dir_ref_count[f] = Refs(f) /\ Refs(f) \in Nat
    <3>1. dir_ref_count[f] = Enumerated(f) + Refs(f) /\ Refs(f) \in Nat
      BY <1>2, <1>8, DirRefIs, RelativeFinite
    <3> QED
      BY SMT, <1>1, <3>1 DEF Enumerated
  <2>2. ~(dir_ref_count[f] > 0)
    BY <1>8, <1>10 DEF Referenced
  <2> QED
    BY SMT, <2>1, <2>2
<1> HIDE DEF f
<1>12. DirRefExact'
  <2>1. ASSUME NEW fd \in Fd
        PROVE  dir_ref_count'[fd] = Enumerated(fd)' + Refs(fd)'
    <3>1. Refs(fd)' = Refs(fd) /\ dir_ref_count[fd] = Enumerated(fd) + Refs(fd)
      BY <1>2, <1>5, RefsSame, DirRefIs
    <3>2. Enumerated(fd) = 0 /\ Enumerated(fd)' = IF fd = f THEN 1 ELSE 0
      BY <1>1 DEF Enumerated, f
    <3>3. dir_ref_count \in [Fd -> Int] /\ Refs(fd) \in Nat
      BY <1>2, RelativeFinite DEF LoopTypes
    <3> QED
      BY SMT, <1>1, <1>8, <1>11, <3>1, <3>2, <3>3
  <2> QED
    BY <2>1, DirRefAfter
<1>13. Closers' = Closers
  BY <1>1, <1>5, ClosersSame DEF SameCloses, SameServed, Completed
<1>14. QueuesApart'
  BY <1>1, <1>5, <1>6, <1>13 DEF QueuesApart, Same
<1>15. Referenced' = Referenced \cup {f}
  BY SMT, <1>1, <1>2, <1>8 DEF Referenced, LoopTypes
<1>16. \A fd : Owners(fd)' = Owners(fd)
  <2>1. OpenedFds' = OpenedFds /\ ReadFds' = ReadFds /\ ClosingFds' = ClosingFds
    BY <1>1, <1>5, <1>13, OwnersAre DEF Same
  <2> QED
    BY SMT, <1>1, <1>8, <1>9, <1>10, <1>15, <2>1 DEF Owners, Present
<1>17. Owned'
  BY <1>1, <1>6, <1>16, OwnedAfter
<1> QED
  BY <1>4, <1>5, <1>12, <1>14, <1>17, OneOwnerParts

\* An openat queued for a directory entry: increase_dir_ref counts it.
LEMMA QueueOpenAtStep ==
  ASSUME Laws, NextLaw, IInv, QueueOpenAt
  PROVE  DirRefExact' /\ OneOwner' /\ RInv' /\ ArgsSound'
PROOF
<1>0. PICK f : f = Head(current)
  OBVIOUS
<1>1. PICK e \in todo : /\ dir_ref_count' = IncreaseDirRef(f)
                        /\ pools' = PoolNext(pools, "openat", <<f, e>>)
  BY <1>0 DEF QueueOpenAt
<1>2. /\ pc = "dir" /\ pc' = pc /\ cq' = cq /\ current' = current
      /\ getdents_queue' = getdents_queue /\ table' = table /\ UNCHANGED <<kernel, cq, workVars>>
  BY DEF QueueOpenAt, ringVars
<1>3. RInv /\ LoopTypes /\ ControlInv /\ ArgsSound /\ DirRefExact
  BY IInvParts
<1>4. f \in Fd /\ e \in Entry
  BY <1>0, <1>2, <1>3, PopFront DEF LoopTypes, ControlInv
<1>5. <<f, e>> \in OpenArg /\ <<f, e>> \in Arg /\ "openat" \in Op
  BY <1>4 DEF OpenArg, Arg, Op
<1>6. /\ RInv' /\ Gains("openat", <<f, e>>) /\ Completed' = Completed
      /\ Same("close") /\ Same("read") /\ Same("write")
  <2>1. /\ RInv' /\ Gains("openat", <<f, e>>) /\ Completed' = Completed
        /\ \A k \in Op : k # "openat" => Same(k)
    BY <1>1, <1>2, <1>3, <1>5 DEF NextLaw
  <2> QED
    BY <2>1 DEF Op
<1>7. ArgsSound'
  <2>1. Fits("openat") /\ Fits("close") /\ Fits("read") /\ Fits("write")
    BY <1>3, ArgsFit DEF Op
  <2>2. Fits("openat")'
    BY <1>5, <1>6, <2>1, FitsAfter DEF ArgOf
  <2>3. Fits("close")' /\ Fits("read")' /\ Fits("write")'
    BY <1>6, <2>1, FitsKept
  <2> QED
    BY <2>2, <2>3, ArgsSoundAfter
<1>8. Refs(f)' = Refs(f) + 1 /\ \A fd : fd # f => Refs(fd)' = Refs(fd)
  <2>1. RefsUp(f)
    BY <1>3, <1>6, RefsGain
  <2> QED
    BY <2>1 DEF RefsUp
<1>9. dir_ref_count \in [Fd -> Int] /\ dir_ref_count' = [dir_ref_count EXCEPT ![f] = @ + 1]
  BY <1>1, <1>3 DEF LoopTypes, IncreaseDirRef
<1>10. DirRefExact'
  <2>1. ASSUME NEW fd \in Fd
        PROVE  dir_ref_count'[fd] = Enumerated(fd)' + Refs(fd)'
    <3>1. dir_ref_count[fd] = Enumerated(fd) + Refs(fd) /\ Refs(fd) \in Nat
      BY <1>3, DirRefIs, RelativeFinite
    <3>2. Enumerated(fd)' = Enumerated(fd) /\ Enumerated(fd) \in Nat
      BY <1>2 DEF Enumerated
    <3>3. CASE fd = f
      <4>1. dir_ref_count'[fd] = dir_ref_count[fd] + 1 /\ Refs(fd)' = Refs(fd) + 1
        BY <1>8, <1>9, <3>3
      <4> QED
        BY SMT, <3>1, <3>2, <4>1
    <3>4. CASE fd # f
      BY <1>8, <1>9, <3>1, <3>2, <3>4
    <3> QED
      BY <3>3, <3>4
  <2> QED
    BY <2>1, DirRefAfter
<1>11. Owned /\ QueuesApart
  BY OneOwnerParts DEF IInv
<1>12. Closers' = Closers
  BY <1>6, ClosersSame DEF SameCloses, SameServed
<1>13. QueuesApart'
  BY <1>2, <1>6, <1>11, <1>12 DEF QueuesApart, Same
<1>14. Referenced' = Referenced
  <2>1. dir_ref_count[f] >= 1
    <3>1. dir_ref_count[f] = Enumerated(f) + Refs(f) /\ Refs(f) \in Nat /\ Enumerated(f) = 1
      BY <1>0, <1>2, <1>3, <1>4, DirRefIs, RelativeFinite DEF Enumerated
    <3> QED
      BY SMT, <3>1
  <2> QED
    BY SMT, <1>9, <2>1 DEF Referenced
<1>15. \A fd : SameOwners(fd)
  BY <1>2, <1>6, <1>12, <1>14, OwnersAre DEF SameOwners, Same
<1>16. Owned'
  BY <1>2, <1>11, <1>15, OwnersSame, OwnedAfter
<1> QED
  BY <1>6, <1>7, <1>10, <1>13, <1>16, OneOwnerParts

\* A directory that loses a reference keeps one or is handed to its close.
DirOwners(fd) == Present(fd, Referenced) + Present(fd, ClosingFds)

\* decrease_dir_ref queues the close of the directory with the last reference, so the
\* descriptor keeps its one owner.
LEMMA DropRef ==
  ASSUME Owned, Apart(Closers), dir_ref_count \in [Fd -> Int], NEW f \in Fd,
         dir_ref_count[f] >= 1, dir_ref_count' = DecreaseDirRef(f),
         MayGain("close", <<f>>, dir_ref_count[f] = 1), SameCloses
  PROVE  Apart(Closers)' /\ \A fd : DirOwners(fd)' = DirOwners(fd)
PROOF
<1>1. f \in Referenced
  BY SMT DEF Referenced
<1>2. f \notin ClosingFds
  <2>1. Owners(f) <= 1
    BY SoleOwner
  <2> QED
    BY SMT, <1>1, <2>1 DEF Owners, Present
<1>3. dir_ref_count' = [dir_ref_count EXCEPT ![f] = @ - 1]
  BY DEF DecreaseDirRef
<1>4. CASE dir_ref_count[f] = 1
  <2>1. Gains("close", <<f>>)
    BY <1>4 DEF MayGain
  <2>2. PICK x : Closers' = Closers \cup {x} /\ x[2][1] = f
    <3>1. PICK j \in Nat : Closers' = Closers \cup {<<j, <<f>>>>}
      BY <2>1, ClosersGain
    <3>2. <<j, <<f>>>>[2][1] = f
      OBVIOUS
    <3> QED
      BY <3>1, <3>2
  <2>3. /\ ClosingFds = FdsOf(Closers) /\ ClosingFds' = FdsOf(Closers') /\ f \notin FdsOf(Closers)
    BY <1>2, OwnersAre
  <2>4. Apart(Closers') /\ FdsOf(Closers') = FdsOf(Closers) \cup {f}
    BY SMT, <2>2, <2>3, FdsGain
  <2>5. Referenced' = Referenced \ {f}
    BY SMT, <1>3, <1>4 DEF Referenced
  <2>6. \A fd : DirOwners(fd)' = DirOwners(fd)
    BY SMT, <1>1, <1>2, <2>3, <2>4, <2>5 DEF DirOwners, Present
  <2> QED
    BY <2>4, <2>6
<1>5. CASE dir_ref_count[f] # 1
  <2>1. Same("close")
    BY <1>5 DEF MayGain
  <2>2. Closers' = Closers
    BY <2>1, ClosersSame
  <2>3. Referenced' = Referenced
    BY SMT, <1>3, <1>5 DEF Referenced
  <2>4. \A fd : DirOwners(fd)' = DirOwners(fd)
    BY <2>2, <2>3, OwnersAre DEF DirOwners, Present
  <2> QED
    BY <2>2, <2>4
<1> QED
  BY <1>4, <1>5

\* The end of an enumeration gives up its reference to the directory.
LEMMA EndDirStep ==
  ASSUME Laws, NextLaw, IInv, EndDir
  PROVE  DirRefExact' /\ OneOwner' /\ RInv' /\ ArgsSound'
PROOF
<1>0. PICK f : f = Head(current)
  OBVIOUS
<1>1. /\ pc = "dir" /\ pc' = "list" /\ cq' = cq /\ current' = Tail(current)
      /\ getdents_queue' = getdents_queue /\ table' = table /\ UNCHANGED <<kernel, cq, workVars>>
      /\ dir_ref_count' = DecreaseDirRef(f) /\ pools' = CloseIfLast(pools, f)
  BY <1>0 DEF EndDir, ringVars
<1>2. RInv /\ LoopTypes /\ ControlInv /\ ArgsSound /\ DirRefExact
  BY IInvParts
<1>3. Owned /\ QueuesApart
  BY OneOwnerParts DEF IInv
<1>4. current \in Seq(Fd) /\ current # <<>> /\ IsInjective(current) /\ dir_ref_count \in [Fd -> Int]
  BY <1>1, <1>2, <1>3 DEF LoopTypes, ControlInv, QueuesApart
<1>5. f \in Fd /\ Tail(current) \in Seq(Fd) /\ IsInjective(Tail(current))
  BY <1>0, <1>4, PopFront
<1>6. <<f>> \in CloseArg /\ <<f>> \in Arg /\ "close" \in Op
  BY <1>5 DEF CloseArg, Arg, Op
<1>7. /\ RInv' /\ MayGain("close", <<f>>, dir_ref_count[f] = 1) /\ Completed' = Completed
      /\ Same("openat") /\ Same("read") /\ Same("write")
  <2>1. CASE dir_ref_count[f] = 1
    <3>1. pools' = PoolNext(pools, "close", <<f>>)
      BY <1>1, <2>1 DEF CloseIfLast
    <3>2. /\ RInv' /\ Gains("close", <<f>>) /\ Completed' = Completed
          /\ \A k \in Op : k # "close" => Same(k)
      BY <1>1, <1>2, <1>6, <3>1 DEF NextLaw
    <3> QED
      BY <2>1, <3>2 DEF MayGain, Op
  <2>2. CASE dir_ref_count[f] # 1
    <3>1. UNCHANGED <<pools, kernel, cq, workVars>>
      BY <1>1, <2>2 DEF CloseIfLast
    <3>2. RInv' /\ Kept
      BY <1>2, <3>1, QuietRequests
    <3>3. \A o \in Op : Same(o)
      BY <1>2, <3>2, KeptStep
    <3> QED
      BY <1>1, <2>2, <3>2, <3>3 DEF MayGain, Op, Completed
  <2> QED
    BY <2>1, <2>2
<1>8. ArgsSound'
  <2>1. Fits("openat") /\ Fits("close") /\ Fits("read") /\ Fits("write")
    BY <1>2, ArgsFit DEF Op
  <2>2. Same("close") \/ Gains("close", <<f>>)
    BY <1>7 DEF MayGain
  <2>3. Fits("close")'
    BY <1>6, <2>1, <2>2, FitsAfter DEF ArgOf
  <2>4. Fits("openat")' /\ Fits("read")' /\ Fits("write")'
    BY <1>7, <2>1, FitsKept
  <2> QED
    BY <2>3, <2>4, ArgsSoundAfter
<1>9. dir_ref_count[f] >= 1
  <2>1. dir_ref_count[f] = Enumerated(f) + Refs(f) /\ Refs(f) \in Nat /\ Enumerated(f) = 1
    BY <1>0, <1>1, <1>2, <1>5, DirRefIs, RelativeFinite DEF Enumerated
  <2> QED
    BY SMT, <2>1
<1>10. DirRefExact'
  <2>1. ASSUME NEW fd \in Fd
        PROVE  dir_ref_count'[fd] = Enumerated(fd)' + Refs(fd)'
    <3>1. /\ dir_ref_count[fd] = Enumerated(fd) + Refs(fd) /\ Refs(fd) \in Nat
          /\ Refs(fd)' = Refs(fd)
      BY <1>2, <1>7, DirRefIs, RelativeFinite, RefsSame
    <3>2. Enumerated(fd)' = 0 /\ Enumerated(fd) = IF fd = f THEN 1 ELSE 0
      BY <1>0, <1>1 DEF Enumerated
    <3>3. dir_ref_count'[fd] = IF fd = f THEN dir_ref_count[fd] - 1 ELSE dir_ref_count[fd]
      BY <1>1, <1>4 DEF DecreaseDirRef
    <3> QED
      BY SMT, <3>1, <3>2, <3>3
  <2> QED
    BY <2>1, DirRefAfter
<1>11. Apart(Closers') /\ \A fd : DirOwners(fd)' = DirOwners(fd)
  <2>1. SameCloses /\ Apart(Closers)
    BY <1>3, <1>7 DEF SameCloses, SameServed, QueuesApart
  <2> QED
    BY <1>1, <1>3, <1>4, <1>5, <1>7, <1>9, <2>1, DropRef
<1>12. QueuesApart'
  BY <1>1, <1>3, <1>5, <1>7, <1>11 DEF QueuesApart, Same
<1>13. Unlisted' = Unlisted
  <2>1. Unlisted = Waiting(current, TRUE) /\ Unlisted' = Waiting(Tail(current), FALSE)
    BY <1>1, OwnersAre
  <2> QED
    BY <1>4, <1>5, <2>1, WaitingIs
<1>14. \A fd : Owners(fd)' = Owners(fd)
  <2>1. OpenedFds' = OpenedFds /\ ReadFds' = ReadFds
    BY <1>1, <1>7, OwnersAre DEF Same
  <2> QED
    BY SMT, <1>1, <1>11, <1>13, <2>1 DEF Owners, DirOwners, Present
<1>15. Owned'
  BY <1>1, <1>3, <1>14, OwnedAfter
<1> QED
  BY <1>7, <1>8, <1>10, <1>12, <1>15, OneOwnerParts

\* The getdents loop of pump keeps the inductive invariant.
LEMMA GetDentsActions ==
  ASSUME Laws, RequestLaws, IInv, SwapGetDents \/ StartDir \/ QueueOpenAt \/ EndDir
  PROVE  IInv'
PROOF
<1>1. LoopTypes' /\ ControlInv'
  BY IInvParts, GetDentsTypes DEF GetDentsTurn
<1>2. DirRefExact' /\ OneOwner' /\ RInv' /\ ArgsSound'
  BY SwapGetDentsStep, StartDirStep, QueueOpenAtStep, EndDirStep DEF RequestLaws
<1> QED
  BY <1>1, <1>2, IInvParts

-----------------------------------------------------------------------------
(* The completions that pump sees.                                         *)

\* What pump does to the completions of queue cq.
LEMMA SeenOpens ==
  ASSUME Laws, RInv, OneOpen(cq), NEW o, NEW i, NEW res, Pops(o, i, res)
  PROVE  /\ OneOpen(cq') /\ (o = "openat" => res \in OpenedFds)
         /\ \A fd \in Fd : fd \in OpenedFds' <=> fd \in OpenedFds /\ ~(o = "openat" /\ res = fd)
PROOF
<1>1. /\ cq # <<>> /\ cq' = Tail(cq) /\ Head(cq) = [req |-> <<o, i>>, res |-> res]
      /\ cq \in Seq([req : Op \X Nat, res : Int])
  BY DEF Pops, RInv, RequestTypes
<1>2. Head(cq).req[1] = o /\ Head(cq).res = res
  BY SMT, <1>1
<1>3. /\ OneOpen(Tail(cq))
      /\ Head(cq).req[1] = "openat" => Head(cq).res \in OpensOf(cq)
      /\ \A fd : fd # -1 =>
           (fd \in OpensOf(Tail(cq)) <=>
              fd \in OpensOf(cq) /\ ~(Head(cq).req[1] = "openat" /\ Head(cq).res = fd))
  BY <1>1, OpensPop
<1>4. \A fd \in Fd : fd # -1
  BY SMT DEF Fd
<1> QED
  BY <1>1, <1>2, <1>3, <1>4, OwnersAre

\* The same when the completion is not of an openat.
LEMMA SameOpens ==
  ASSUME Laws, RInv, QueuesApart, NEW o, o # "openat", NEW i, NEW res, Pops(o, i, res)
  PROVE  OneOpen(cq') /\ \A fd \in Fd : fd \in OpenedFds' <=> fd \in OpenedFds
PROOF
<1>1. OneOpen(cq)
  BY DEF QueuesApart
<1> QED
  BY <1>1, SeenOpens

\* pump sees a completion, not of an openat, and the descriptors stay with their owners.
LEMMA SeenSteady ==
  ASSUME Laws, IInv, NEW o, o # "openat", NEW i, NEW res, See(o, i, res), Same("openat"),
         pc' \in {"reap", "handed"}, Closers' = Closers, Apart(Uses("read")'), FdsOf(Uses("read")') = FdsOf(Uses("read")),
         UNCHANGED <<getdents_queue, current, dir_ref_count>>
  PROVE  DirRefExact' /\ OneOwner'
PROOF
<1>1. /\ pc = "reap" /\ pc' # "dir" /\ current' = current /\ getdents_queue' = getdents_queue
      /\ dir_ref_count' = dir_ref_count /\ table' = table
  BY DEF See
<1>2. RInv /\ DirRefExact
  BY IInvParts
<1>3. Owned /\ QueuesApart
  BY OneOwnerParts DEF IInv
<1>4. DirRefExact'
  <2>1. \A fd : Refs(fd)' = Refs(fd) /\ Enumerated(fd)' = Enumerated(fd)
    BY <1>1, RefsSame DEF Enumerated
  <2> QED
    BY <1>1, <1>2, <2>1, DirRefIs, DirRefAfter
<1>5. OneOpen(cq') /\ \A fd \in Fd : fd \in OpenedFds' <=> fd \in OpenedFds
  <2>1. Pops(o, i, res)
    BY DEF See, Pops
  <2> QED
    BY <1>2, <1>3, <2>1, SameOpens
<1>6. QueuesApart'
  BY <1>1, <1>3, <1>5 DEF QueuesApart
<1>7. \A fd \in Fd : SameOwners(fd)
  BY <1>1, <1>5, OwnersAre DEF SameOwners, Referenced
<1>8. Owned'
  BY <1>1, <1>3, <1>7, OwnersSame, OwnedAfter
<1> QED
  BY <1>4, <1>6, <1>8, OneOwnerParts

\* A close that was served is seen and freed.
LEMMA ReapCloseStep ==
  ASSUME Laws, FreeLaw, IInv, ReapClose
  PROVE  DirRefExact' /\ OneOwner' /\ RInv' /\ ArgsSound'
PROOF
<1>1. PICK i \in DOMAIN pools.arg["close"], res \in {0, -1} :
        Reap("close", i, res) /\ pools' = PoolFree(pools, "close", i)
  BY DEF ReapClose
<1>2. /\ UNCHANGED <<getdents_queue, current, dir_ref_count>> /\ UNCHANGED <<kernel, workVars>>
      /\ Pops("close", i, res) /\ See("close", i, res) /\ pc' \in {"reap", "handed"}
  BY <1>1 DEF ReapClose, Reap, See, Pops, loopVars
<1>3. RInv /\ ArgsSound /\ QueuesApart
  BY IInvParts, OneOwnerParts
<1>4. i \in Nat /\ "close" \in Op
  BY <1>3, ArgIndex DEF Op
<1>5. PICK x : x = <<i, pools.arg["close"][i]>>
  OBVIOUS
<1>6. /\ RInv' /\ Completed' = Completed \ {<<"close", i>>} /\ <<"close", i>> \in Completed
      /\ Loses("close", x) /\ Same("openat") /\ Same("read") /\ Same("write")
  <2>1. /\ RInv' /\ Completed' = Completed \ {<<"close", i>>} /\ <<"close", i>> \in Completed
        /\ Loses("close", x) /\ \A k \in Op : k # "close" => Same(k)
    BY <1>1, <1>2, <1>3, <1>4, <1>5 DEF FreeLaw
  <2> QED
    BY <2>1 DEF Op
<1>7. ArgsSound'
  <2>1. Fits("openat") /\ Fits("close") /\ Fits("read") /\ Fits("write")
    BY <1>3, ArgsFit DEF Op
  <2>2. Fits("openat")' /\ Fits("close")' /\ Fits("read")' /\ Fits("write")'
    BY <1>6, <2>1, FitsKept
  <2> QED
    BY <2>2, ArgsSoundAfter
<1>8. Closers' = Closers
  <2>1. x[1] = i
    BY <1>5
  <2> QED
    BY <1>6, <2>1, ClosersFreed
<1>9. Apart(Uses("read")') /\ FdsOf(Uses("read")') = FdsOf(Uses("read"))
  BY <1>3, <1>6 DEF Same, QueuesApart
<1>10. DirRefExact' /\ OneOwner'
  BY <1>1, <1>2, <1>6, <1>8, <1>9, SeenSteady
<1> QED
  BY <1>6, <1>7, <1>10

\* A write is freed, and queued again until its buffer ends.
LEMMA ReapWriteStep ==
  ASSUME Laws, FreeLaw, NextFreeLaw, IInv, ReapWrite
  PROVE  DirRefExact' /\ OneOwner' /\ RInv' /\ ArgsSound'
PROOF
<1>1. PICK i \in DOMAIN pools.arg["write"], res \in (-MaxErrno)..WriteSize :
        /\ Reap("write", i, res)
        /\ LET next == pools.arg["write"][i][1] + res IN
             pools' = PoolFree(IF next = WriteSize THEN pools
                                                   ELSE PoolNext(pools, "write", <<next>>),
                               "write", i)
  BY DEF ReapWrite
<1>2. /\ UNCHANGED <<getdents_queue, current, dir_ref_count>> /\ UNCHANGED <<kernel, workVars>>
      /\ Pops("write", i, res) /\ See("write", i, res) /\ pc' \in {"reap", "handed"}
  BY <1>1 DEF ReapWrite, Reap, See, Pops, loopVars
<1>3. RInv /\ ArgsSound /\ QueuesApart
  BY IInvParts, OneOwnerParts
<1>4. i \in Nat /\ "write" \in Op
  BY <1>3, ArgIndex DEF Op
<1>5. PICK x : x = <<i, pools.arg["write"][i]>>
  OBVIOUS
<1>6. PICK next : next = pools.arg["write"][i][1] + res
  OBVIOUS
<1>7. Fits("openat") /\ Fits("close") /\ Fits("read") /\ Fits("write")
  BY <1>3, ArgsFit DEF Op
<1>8. <<"write", i>> \in Completed
  BY <1>2, <1>3, <1>4, SeenRequest
<1>9. next \in Int
  <2>1. x \in Uses("write") /\ x[2] = pools.arg["write"][i]
    BY <1>3, <1>4, <1>5, <1>8, CompletedUsed
  <2>2. pools.arg["write"][i] \in WriteArg
    BY <1>7, <2>1 DEF Fits, ArgOf
  <2>3. pools.arg["write"][i][1] \in Int
    BY SMT, <2>2 DEF WriteArg
  <2> QED
    BY SMT, <1>6, <2>3, EventLoopAssumption
<1>10. <<next>> \in Arg /\ <<next>> \in ArgOf("write")
  <2>1. <<next>> \in WriteArg
    BY SMT, <1>9 DEF WriteArg
  <2> QED
    BY <2>1 DEF Arg, ArgOf
<1>11. /\ RInv' /\ Completed' = Completed \ {<<"write", i>>}
       /\ Loses("write", x) \/ Trades("write", x, <<next>>)
       /\ Same("openat") /\ Same("read") /\ Same("close")
  <2>1. CASE next = WriteSize
    <3>1. pools' = PoolFree(pools, "write", i)
      BY <1>1, <1>6, <2>1
    <3>2. /\ RInv' /\ Completed' = Completed \ {<<"write", i>>}
          /\ Loses("write", x) /\ \A k \in Op : k # "write" => Same(k)
      BY <1>2, <1>3, <1>4, <1>5, <3>1 DEF FreeLaw
    <3> QED
      BY <3>2 DEF Op
  <2>2. CASE next # WriteSize
    <3>1. pools' = PoolFree(PoolNext(pools, "write", <<next>>), "write", i)
      BY <1>1, <1>6, <2>2
    <3>2. /\ RInv' /\ Completed' = Completed \ {<<"write", i>>}
          /\ Trades("write", x, <<next>>) /\ \A k \in Op : k # "write" => Same(k)
      BY <1>2, <1>3, <1>4, <1>5, <1>10, <3>1 DEF NextFreeLaw
    <3> QED
      BY <3>2 DEF Op
  <2> QED
    BY <2>1, <2>2
<1>12. ArgsSound'
  <2>1. Fits("openat")' /\ Fits("close")' /\ Fits("read")'
    BY <1>7, <1>11, FitsKept
  <2>2. Fits("write")'
    BY <1>7, <1>10, <1>11, FitsAfter
  <2> QED
    BY <2>1, <2>2, ArgsSoundAfter
<1>13. Closers' = Closers
  <2>1. SameCloses
    BY <1>11 DEF SameCloses, SameServed
  <2> QED
    BY <1>11, <2>1, ClosersSame
<1>14. Apart(Uses("read")') /\ FdsOf(Uses("read")') = FdsOf(Uses("read"))
  BY <1>3, <1>11 DEF Same, QueuesApart
<1>15. DirRefExact' /\ OneOwner'
  BY <1>1, <1>2, <1>11, <1>13, <1>14, SeenSteady
<1> QED
  BY <1>11, <1>12, <1>15

\* A failed read is left where it is, still counted and still the owner of its descriptor.
LEMMA ReapReadErrorStep ==
  ASSUME Laws, ErrorLaw, IInv, ReapReadError
  PROVE  DirRefExact' /\ OneOwner' /\ RInv' /\ ArgsSound'
PROOF
<1>1. PICK i \in DOMAIN pools.arg["read"] : Reap("read", i, -1) /\ lost' = lost \cup {i}
  BY DEF ReapReadError
<1>2. /\ UNCHANGED <<getdents_queue, current, dir_ref_count>>
      /\ UNCHANGED <<pools, read_free_queue, returned, held, handed>> /\ kernel' = kernel
      /\ Pops("read", i, -1) /\ See("read", i, -1) /\ pc' \in {"reap", "handed"}
  BY <1>1 DEF ReapReadError, Reap, See, Pops, loopVars
<1>3. RInv /\ ArgsSound /\ QueuesApart
  BY IInvParts, OneOwnerParts
<1>4. i \in Nat
  BY <1>3, ArgIndex DEF Op
<1>5. RInv' /\ Completed' = Completed \ {<<"read", i>>} /\ \A k \in Op : Same(k)
  BY <1>1, <1>2, <1>3, <1>4 DEF ErrorLaw
<1>6. Same("openat") /\ Same("close") /\ Same("read") /\ Same("write")
  BY <1>5 DEF Op
<1>7. ArgsSound'
  <2>1. Fits("openat") /\ Fits("close") /\ Fits("read") /\ Fits("write")
    BY <1>3, ArgsFit DEF Op
  <2>2. Fits("openat")' /\ Fits("close")' /\ Fits("read")' /\ Fits("write")'
    BY <1>6, <2>1, FitsKept
  <2> QED
    BY <2>2, ArgsSoundAfter
<1>8. Closers' = Closers
  <2>1. SameCloses
    BY <1>5 DEF SameCloses, SameServed
  <2> QED
    BY <1>6, <2>1, ClosersSame
<1>9. Apart(Uses("read")') /\ FdsOf(Uses("read")') = FdsOf(Uses("read"))
  BY <1>3, <1>6 DEF Same, QueuesApart
<1>10. DirRefExact' /\ OneOwner'
  BY <1>1, <1>2, <1>6, <1>8, <1>9, SeenSteady
<1> QED
  BY <1>5, <1>7, <1>10

\* The arguments of a read in use, and of one that pump sees.
LEMMA UsedReadArgs ==
  ASSUME ArgsSound, NEW i, <<i, pools.arg["read"][i]>> \in Uses("read")
  PROVE  \E fd \in Fd, offset \in Nat :
           /\ pools.arg["read"][i] = <<fd, offset>>
           /\ pools.arg["read"][i][1] = fd /\ pools.arg["read"][i][2] = offset
PROOF
<1>1. PICK x : x = <<i, pools.arg["read"][i]>>
  OBVIOUS
<1>2. x \in Uses("read") /\ x[2] = pools.arg["read"][i]
  BY <1>1
<1>3. pools.arg["read"][i] \in Fd \X Nat
  BY <1>2, ArgsFit DEF Op, Fits, ArgOf, ReadArg
<1> QED
  BY SMT, <1>3

LEMMA ReadArgs ==
  ASSUME Laws, RInv, ArgsSound, NEW i \in Nat, <<"read", i>> \in Completed
  PROVE  \E fd \in Fd, offset \in Nat :
           /\ pools.arg["read"][i] = <<fd, offset>>
           /\ pools.arg["read"][i][1] = fd /\ pools.arg["read"][i][2] = offset
PROOF
<1>1. <<i, pools.arg["read"][i]>> \in Uses("read")
  BY CompletedUsed DEF Op
<1> QED
  BY <1>1, UsedReadArgs

\* A read with data is passed on: its request stays the owner of the descriptor.
LEMMA ReapReadDataStep ==
  ASSUME Laws, DataLaw, IInv, ReapReadData
  PROVE  DirRefExact' /\ OneOwner' /\ RInv' /\ ArgsSound'
PROOF
<1>1. PICK i \in DOMAIN pools.arg["read"] :
        See("read", i, 1) /\ held' = held \cup {i} /\ handed' = {i}
  BY DEF ReapReadData
<1>2. /\ UNCHANGED <<getdents_queue, current, dir_ref_count>>
      /\ UNCHANGED <<read_free_queue, returned, lost>> /\ kernel' = kernel
      /\ pools' = [pools EXCEPT !.in_flight = @ - 1]
      /\ Pops("read", i, 1) /\ pc = "reap" /\ pc' \in {"reap", "handed"}
  BY <1>1 DEF ReapReadData, See, Pops, loopVars
<1>3. RInv /\ ArgsSound /\ QueuesApart /\ handed = {}
  BY <1>2, IInvParts, OneOwnerParts DEF ControlInv
<1>4. i \in Nat
  BY <1>3, ArgIndex DEF Op
<1>5. RInv' /\ Completed' = Completed \ {<<"read", i>>} /\ \A k \in Op : Same(k)
  BY <1>1, <1>2, <1>3, <1>4 DEF DataLaw
<1>6. Same("openat") /\ Same("close") /\ Same("read") /\ Same("write")
  BY <1>5 DEF Op
<1>7. ArgsSound'
  <2>1. Fits("openat") /\ Fits("close") /\ Fits("read") /\ Fits("write")
    BY <1>3, ArgsFit DEF Op
  <2>2. Fits("openat")' /\ Fits("close")' /\ Fits("read")' /\ Fits("write")'
    BY <1>6, <2>1, FitsKept
  <2> QED
    BY <2>2, ArgsSoundAfter
<1>8. Closers' = Closers
  <2>1. SameCloses
    BY <1>5 DEF SameCloses, SameServed
  <2> QED
    BY <1>6, <2>1, ClosersSame
<1>9. Apart(Uses("read")') /\ FdsOf(Uses("read")') = FdsOf(Uses("read"))
  BY <1>3, <1>6 DEF Same, QueuesApart
<1>10. DirRefExact' /\ OneOwner'
  BY <1>1, <1>2, <1>6, <1>8, <1>9, SeenSteady
<1> QED
  BY <1>5, <1>7, <1>10

\* The read of the next chunk takes over the descriptor of the one passed to a worker.
LEMMA QueueReadStep ==
  ASSUME Laws, QueueLaw, IInv, QueueRead
  PROVE  DirRefExact' /\ OneOwner' /\ RInv' /\ ArgsSound'
PROOF
<1>1. PICK i \in handed :
        pools' = PoolNext(pools, "read", <<pools.arg["read"][i][1], pools.arg["read"][i][2] + 1>>)
  BY DEF QueueRead
<1>2. /\ UNCHANGED <<getdents_queue, current, dir_ref_count, table>>
      /\ UNCHANGED <<kernel, cq, read_free_queue, returned, held, lost>>
      /\ handed' = {} /\ pc = "handed" /\ pc' = "reap"
  BY DEF QueueRead, loopVars, ringVars
<1>3. RInv /\ ArgsSound /\ DirRefExact /\ handed = {i}
  BY <1>1, <1>2, IInvParts DEF ControlInv
<1>4. Owned /\ QueuesApart
  BY OneOwnerParts DEF IInv
<1>5. <<i, pools.arg["read"][i]>> \in Uses("read")
  BY <1>1 DEF Uses, Using, Lost, Unfinished
<1>6. PICK fd \in Fd, offset \in Nat :
        /\ pools.arg["read"][i] = <<fd, offset>>
        /\ pools.arg["read"][i][1] = fd /\ pools.arg["read"][i][2] = offset
  BY <1>3, <1>5, UsedReadArgs
<1>7. PICK x : x = <<i, pools.arg["read"][i]>>
  OBVIOUS
<1>8. PICK args : args = <<fd, offset + 1>>
  OBVIOUS
<1>9. args \in ArgOf("read") /\ args \in Arg /\ args[1] = fd /\ x[2][1] = fd
  BY <1>6, <1>7, <1>8, SMTT(20) DEF ArgOf, ReadArg, Arg
<1>10. /\ RInv' /\ Completed' = Completed /\ Trades("read", x, args)
       /\ Same("openat") /\ Same("close") /\ Same("write")
  <2>1. pools' = PoolNext(pools, "read", args)
    BY <1>1, <1>6, <1>8
  <2>2. /\ RInv' /\ Completed' = Completed /\ Trades("read", x, args)
        /\ \A k \in Op : k # "read" => Same(k)
    BY <1>2, <1>3, <1>7, <1>9, <2>1 DEF QueueLaw
  <2> QED
    BY <2>2 DEF Op
<1>11. ArgsSound'
  <2>1. Fits("openat") /\ Fits("close") /\ Fits("read") /\ Fits("write")
    BY <1>3, ArgsFit DEF Op
  <2>2. Fits("openat")' /\ Fits("close")' /\ Fits("write")'
    BY <1>10, <2>1, FitsKept
  <2>3. Fits("read")'
    BY <1>9, <1>10, <2>1, FitsAfter
  <2> QED
    BY <2>2, <2>3, ArgsSoundAfter
<1>12. Closers' = Closers
  <2>1. SameCloses
    BY <1>10 DEF SameCloses, SameServed
  <2> QED
    BY <1>10, <2>1, ClosersSame
<1>13. Apart(Uses("read")') /\ FdsOf(Uses("read")') = FdsOf(Uses("read"))
  <2>1. PICK j \in Nat : x \in Uses("read") /\ Uses("read")' = (Uses("read") \ {x}) \cup {<<j, args>>}
    BY <1>10 DEF Trades
  <2>2. PICK y : y = <<j, args>>
    OBVIOUS
  <2>3. Uses("read")' = (Uses("read") \ {x}) \cup {y} /\ y[2][1] = x[2][1]
    BY <1>9, <2>1, <2>2
  <2>4. Apart(Uses("read"))
    BY <1>4 DEF QueuesApart
  <2> QED
    BY <2>1, <2>3, <2>4, FdsTrade
<1>14. DirRefExact'
  <2>1. \A fd2 : Refs(fd2)' = Refs(fd2) /\ Enumerated(fd2)' = Enumerated(fd2)
    BY <1>2, <1>10, RefsSame DEF Enumerated
  <2> QED
    BY <1>2, <1>3, <2>1, DirRefIs, DirRefAfter
<1>15. QueuesApart'
  BY <1>2, <1>4, <1>12, <1>13 DEF QueuesApart
<1>16. \A fd2 : SameOwners(fd2)
  BY <1>2, <1>12, <1>13, OwnersAre DEF SameOwners, Referenced
<1>17. Owned'
  BY <1>2, <1>4, <1>16, OwnersSame, OwnedAfter
<1> QED
  BY <1>10, <1>11, <1>14, <1>15, <1>17, OneOwnerParts

\* At the end of a file its descriptor passes from the read to the close.
LEMMA ReapReadEndStep ==
  ASSUME Laws, NextFreeLaw, IInv, ReapReadEnd
  PROVE  DirRefExact' /\ OneOwner' /\ RInv' /\ ArgsSound'
PROOF
<1>1. PICK i \in DOMAIN pools.arg["read"] :
        /\ Reap("read", i, 0)
        /\ pools' = PoolFree(PoolNext(pools, "close", <<pools.arg["read"][i][1]>>), "read", i)
  BY DEF ReapReadEnd
<1>2. /\ UNCHANGED <<getdents_queue, current, dir_ref_count, table, pc>>
      /\ UNCHANGED <<kernel, workVars>>
      /\ Pops("read", i, 0)
  BY <1>1 DEF ReapReadEnd, Reap, See, Pops, loopVars
<1>3. RInv /\ ArgsSound /\ DirRefExact
  BY IInvParts
<1>4. Owned /\ QueuesApart
  BY OneOwnerParts DEF IInv
<1>5. i \in Nat /\ "read" \in Op /\ "close" \in Op
  BY <1>3, ArgIndex DEF Op
<1>6. <<"read", i>> \in Completed
  BY <1>2, <1>3, <1>5, SeenRequest
<1>7. PICK f \in Fd : pools.arg["read"][i][1] = f
  BY <1>3, <1>5, <1>6, ReadArgs
<1>8. PICK x : x = <<i, pools.arg["read"][i]>>
  OBVIOUS
<1>9. <<f>> \in Arg /\ <<f>> \in ArgOf("close") /\ x[2][1] = f
  BY <1>7, <1>8 DEF Arg, CloseArg, ArgOf
<1>10. /\ RInv' /\ Completed' = Completed \ {<<"read", i>>}
       /\ Loses("read", x) /\ Gains("close", <<f>>) /\ Same("openat") /\ Same("write")
  <2>1. pools' = PoolFree(PoolNext(pools, "close", <<f>>), "read", i)
    BY <1>1, <1>7
  <2>2. /\ RInv' /\ Completed' = Completed \ {<<"read", i>>}
        /\ "close" # "read" => Loses("read", x) /\ Gains("close", <<f>>)
        /\ \A l \in Op : l # "read" /\ l # "close" => Same(l)
    BY <1>2, <1>3, <1>5, <1>8, <1>9, <2>1 DEF NextFreeLaw
  <2> QED
    BY <2>2 DEF Op
<1>11. ArgsSound'
  <2>1. Fits("openat") /\ Fits("close") /\ Fits("read") /\ Fits("write")
    BY <1>3, ArgsFit DEF Op
  <2>2. Fits("openat")' /\ Fits("read")' /\ Fits("write")'
    BY <1>10, <2>1, FitsKept
  <2>3. Fits("close")'
    BY <1>9, <1>10, <2>1, FitsAfter
  <2> QED
    BY <2>2, <2>3, ArgsSoundAfter
<1>12. DirRefExact'
  <2>1. \A fd : Refs(fd)' = Refs(fd) /\ Enumerated(fd)' = Enumerated(fd)
    BY <1>2, <1>10, RefsSame DEF Enumerated
  <2> QED
    BY <1>2, <1>3, <2>1, DirRefIs, DirRefAfter
<1>13. OneOpen(cq') /\ \A fd \in Fd : fd \in OpenedFds' <=> fd \in OpenedFds
  BY <1>2, <1>3, <1>4, SameOpens
<1>14. /\ Apart(Uses("read")') /\ f \in ReadFds /\ ReadFds' = ReadFds \ {f}
  <2>1. x \in Uses("read") /\ Uses("read")' = Uses("read") \ {x} /\ Apart(Uses("read"))
    BY <1>4, <1>10 DEF Loses, QueuesApart
  <2>2. Apart(Uses("read")') /\ FdsOf(Uses("read")') = FdsOf(Uses("read")) \ {f}
    BY ZenonT(30), <1>9, <2>1, FdsLose
  <2>3. f \in FdsOf(Uses("read"))
    BY <1>9, <2>1 DEF FdsOf
  <2> QED
    BY <2>2, <2>3, OwnersAre
<1>15. f \notin ClosingFds
  <2>1. Owners(f) <= 1
    BY <1>4, SoleOwner
  <2> QED
    BY SMT, <1>14, <2>1 DEF Owners, Present
<1>16. Apart(Closers') /\ ClosingFds' = ClosingFds \cup {f}
  <2>1. SameCloses
    BY <1>10 DEF SameCloses, SameServed
  <2>2. PICK y : Closers' = Closers \cup {y} /\ y[2][1] = f
    <3>1. PICK j \in Nat : Closers' = Closers \cup {<<j, <<f>>>>}
      BY <1>10, <2>1, ClosersGain
    <3>2. <<j, <<f>>>>[2][1] = f
      OBVIOUS
    <3> QED
      BY <3>1, <3>2
  <2>3. Apart(Closers) /\ f \notin FdsOf(Closers)
    BY <1>4, <1>15, OwnersAre DEF QueuesApart
  <2>4. Apart(Closers') /\ FdsOf(Closers') = FdsOf(Closers) \cup {f}
    BY SMTT(30), <2>2, <2>3, FdsGain
  <2> QED
    BY <2>4, OwnersAre
<1>17. QueuesApart'
  BY <1>2, <1>4, <1>13, <1>14, <1>16 DEF QueuesApart
<1>18. \A fd \in Fd : Owners(fd)' = Owners(fd)
  <2>1. Unlisted' = Unlisted /\ Referenced' = Referenced
    BY <1>2 DEF Unlisted, Referenced
  <2>2. \A fd : Present(fd, ReadFds') + Present(fd, ClosingFds')
                  = Present(fd, ReadFds) + Present(fd, ClosingFds)
    BY SMT, <1>14, <1>15, <1>16 DEF Present
  <2> QED
    BY <1>2, <1>13, <2>1, <2>2, SMTT(20) DEF Owners, Present
<1>19. Owned'
  BY <1>2, <1>4, <1>18, OwnedAfter
<1> QED
  BY <1>10, <1>11, <1>12, <1>17, <1>19, OneOwnerParts

\* read_handler_ fails: the descriptor of the read is owned no more.
LEMMA ReadHandlerFailsStep ==
  ASSUME Laws, RefusedLaw, IInv, ReadHandlerFails
  PROVE  DirRefExact' /\ OneOwner' /\ RInv' /\ ArgsSound'
PROOF
<1>1. /\ UNCHANGED <<getdents_queue, current, dir_ref_count, table>> /\ pc' = "failed" /\ pc = "handed"
      /\ UNCHANGED <<pools, kernel, cq, read_free_queue, returned, held, lost>> /\ handed' = {}
  BY DEF ReadHandlerFails, loopVars, ringVars
<1>2. cq' = cq /\ current' = current
  BY <1>1
<1>3. RInv /\ ArgsSound /\ DirRefExact /\ ControlInv
  BY IInvParts
<1>4. Owned /\ QueuesApart
  BY OneOwnerParts DEF IInv
<1>5. PICK i : handed = {i}
  BY <1>1, <1>3 DEF ControlInv
<1>6. PICK x : x = <<i, pools.arg["read"][i]>>
  OBVIOUS
<1>7. /\ RInv' /\ Completed' = Completed /\ Loses("read", x)
      /\ Same("openat") /\ Same("close") /\ Same("write")
  <2>1. /\ RInv' /\ Completed' = Completed /\ Loses("read", x)
        /\ \A k \in Op : k # "read" => Same(k)
    BY <1>1, <1>3, <1>5, <1>6 DEF RefusedLaw
  <2> QED
    BY <2>1 DEF Op
<1>8. ArgsSound'
  <2>1. Fits("openat") /\ Fits("close") /\ Fits("read") /\ Fits("write")
    BY <1>3, ArgsFit DEF Op
  <2>2. Fits("openat")' /\ Fits("close")' /\ Fits("read")' /\ Fits("write")'
    BY <1>7, <2>1, FitsKept
  <2> QED
    BY <2>2, ArgsSoundAfter
<1>9. DirRefExact'
  <2>1. \A fd : Refs(fd)' = Refs(fd) /\ Enumerated(fd)' = Enumerated(fd)
    BY <1>1, <1>7, RefsSame DEF Enumerated
  <2> QED
    BY <1>1, <1>3, <2>1, DirRefIs, DirRefAfter
<1>10. OneOpen(cq') /\ \A fd \in Fd : fd \in OpenedFds' <=> fd \in OpenedFds
  BY <1>2, <1>4, OwnersAre DEF QueuesApart
<1>11. Apart(Uses("read")') /\ ReadFds' \subseteq ReadFds
  <2>1. x \in Uses("read") /\ Uses("read")' = Uses("read") \ {x} /\ Apart(Uses("read"))
    BY <1>4, <1>7 DEF Loses, QueuesApart
  <2>2. Apart(Uses("read")') /\ FdsOf(Uses("read")') = FdsOf(Uses("read")) \ {x[2][1]}
    BY <2>1, FdsLose
  <2> QED
    BY <2>2, OwnersAre
<1>12. Closers' = Closers
  <2>1. SameCloses
    BY <1>7 DEF SameCloses, SameServed
  <2> QED
    BY <1>7, <2>1, ClosersSame
<1>13. QueuesApart'
  BY <1>1, <1>4, <1>10, <1>11, <1>12 DEF QueuesApart
<1>14. ASSUME NEW fd \in Fd
       PROVE  Owners(fd)' <= Owners(fd)
  <2>1. Unlisted' = Unlisted /\ Referenced' = Referenced /\ ClosingFds' = ClosingFds
    BY <1>1, <1>12, OwnersAre DEF Referenced
  <2>2. Present(fd, ReadFds') <= Present(fd, ReadFds)
    BY SMT, <1>11 DEF Present
  <2> QED
    BY SMT, <1>1, <1>10, <2>1, <2>2 DEF Owners, Present
<1>15. Owned'
  <2>1. SUFFICES ASSUME NEW fd \in Fd PROVE Owners(fd)' <= Present(table[fd], Entry)
    BY <1>1, <2>1 DEF Owned
  <2>2. Owners(fd) <= Present(table[fd], Entry)
    BY <1>4 DEF Owned
  <2>3. Owners(fd) \in Int /\ Owners(fd)' \in Int /\ Present(table[fd], Entry) \in Int
    BY SMT DEF Owners, Present
  <2> QED
    BY SMT, <1>14, <2>2, <2>3
<1> QED
  BY <1>7, <1>8, <1>9, <1>13, <1>15, OneOwnerParts

\* What openat_handler_ does with a descriptor: it passes from the completion to the queue of
\* directories, or to the first read of a file.
FirstOwners(fd) == Present(fd, OpenedFds) + Present(fd, Range(getdents_queue)) + Present(fd, ReadFds)

\* The handler passes the descriptor of the completion on, to one place.
LEMMA PassOn ==
  ASSUME Laws, RInv, LoopTypes, Owned, QueuesApart, NEW i, NEW res \in Fd \cup {-1}, NEW e \in Entry,
         Pops("openat", i, res),
         getdents_queue' = IF res \in Fd /\ e \in Dir THEN Append(getdents_queue, res)
                                                      ELSE getdents_queue,
         MayGain("read", <<res, 0>>, res \in Fd /\ e \in File)
  PROVE  /\ OneOpen(cq') /\ IsInjective(getdents_queue') /\ Apart(Uses("read")')
         /\ \A fd \in Fd : FirstOwners(fd)' = FirstOwners(fd)
PROOF
<1>1. /\ OneOpen(cq) /\ IsInjective(getdents_queue) /\ Apart(Uses("read"))
      /\ getdents_queue \in Seq(Fd)
  BY DEF QueuesApart, LoopTypes
<1>2. /\ OneOpen(cq') /\ res \in OpenedFds
      /\ \A fd \in Fd : fd \in OpenedFds' <=> fd \in OpenedFds /\ res # fd
  BY <1>1, SeenOpens
<1>3. -1 \notin Fd
  BY SMT DEF Fd
<1>4. CASE res \notin Fd
  <2>1. getdents_queue' = getdents_queue /\ Uses("read")' = Uses("read")
    BY <1>4 DEF MayGain, Same
  <2>2. \A fd \in Fd : fd \in OpenedFds' <=> fd \in OpenedFds
    BY <1>2, <1>4
  <2>3. ReadFds' = ReadFds
    BY <2>1, OwnersAre
  <2>4. \A fd \in Fd : FirstOwners(fd)' = FirstOwners(fd)
    BY <2>1, <2>2, <2>3 DEF FirstOwners, Present
  <2> QED
    BY <1>1, <1>2, <2>1, <2>4
<1>5. ASSUME res \in Fd
      PROVE  res \notin Range(getdents_queue) /\ res \notin ReadFds
  <2>1. Owners(res) <= 1
    BY <1>5, SoleOwner
  <2> QED
    BY SMT, <1>2, <2>1 DEF Owners, Present
<1>6. CASE res \in Fd /\ e \in Dir
  <2>1. e \notin File
    BY <1>6, EventLoopAssumption
  <2>2. getdents_queue' = Append(getdents_queue, res) /\ Uses("read")' = Uses("read")
    BY <1>6, <2>1 DEF MayGain, Same
  <2>3. /\ Range(getdents_queue') = Range(getdents_queue) \cup {res}
        /\ IsInjective(getdents_queue')
    BY SMTT(30), <1>1, <1>5, <1>6, <2>2, PushBack
  <2>4. ReadFds' = ReadFds
    BY <2>2, OwnersAre
  <2>5. \A fd \in Fd : FirstOwners(fd)' = FirstOwners(fd)
    BY SMTT(30), <1>2, <1>5, <1>6, <2>3, <2>4 DEF FirstOwners, Present
  <2> QED
    BY <1>1, <1>2, <2>2, <2>3, <2>5
<1>7. CASE res \in Fd /\ e \notin Dir
  <2>1. e \in File
    BY <1>7 DEF Entry
  <2>2. getdents_queue' = getdents_queue /\ Gains("read", <<res, 0>>)
    BY <1>7, <2>1 DEF MayGain
  <2>3. <<res, 0>>[1] = res
    OBVIOUS
  <2>4. res \notin FdsOf(Uses("read"))
    BY <1>5, <1>7, OwnersAre
  <2>5. Apart(Uses("read")') /\ FdsOf(Uses("read")') = FdsOf(Uses("read")) \cup {res}
    <3>1. PICK a : a = <<res, 0>> /\ a[1] = res
      BY <2>3
    <3> QED
      BY <1>1, <2>2, <2>4, <3>1, FdsGained
  <2>6. ReadFds' = ReadFds \cup {res}
    BY <2>5, OwnersAre
  <2>7. \A fd \in Fd : FirstOwners(fd)' = FirstOwners(fd)
    BY SMT, <1>2, <1>5, <1>7, <2>2, <2>6 DEF FirstOwners, Present
  <2> QED
    BY <1>1, <1>2, <2>2, <2>5, <2>7
<1> QED
  BY <1>4, <1>6, <1>7

\* Pump sees the openat x at i, whose arguments are a: an entry and the descriptor f it is below.
Opening(i, res, a, x, f) ==
  /\ i \in DOMAIN pools.arg["openat"] /\ Opened(i, res)
  /\ a = pools.arg["openat"][i] /\ x = <<i, a>> /\ f = a[1]

\* What an openat that pump sees is for, and what becomes of the requests.
LEMMA OpenedRequests ==
  ASSUME Laws, OpenedLaw, IInv, NEW i, NEW res, NEW a, NEW x, NEW f, Opening(i, res, a, x, f)
  PROVE  /\ a[2] \in Entry /\ f \in Fd \cup {AtCwd} /\ x[1] = i /\ x[2] = a
         /\ RInv' /\ Completed' = Completed \ {<<"openat", i>>} /\ <<"openat", i>> \in Completed
         /\ Loses("openat", x) /\ Same("write")
         /\ MayGain("read", <<res, 0>>, res \in Fd /\ a[2] \in File)
         /\ MayGain("close", <<f>>, f # AtCwd /\ dir_ref_count[f] = 1)
PROOF
<1> DEFINE reads == res \in Fd /\ a[2] \in File
           closes == f # AtCwd /\ dir_ref_count[f] = 1
<1>0. i \in DOMAIN pools.arg["openat"] /\ x = <<i, pools.arg["openat"][i]>>
  BY DEF Opening
<1>1. PICK q, t :
         /\ q = (IF reads THEN PoolNext(pools, "read", <<res, 0>>) ELSE pools)
         /\ t = (IF closes THEN PoolNext(q, "close", <<f>>) ELSE q)
         /\ pools' = PoolFree(t, "openat", i)
  BY DEF Opening, Opened
<1>2. UNCHANGED <<kernel, workVars>> /\ Pops("openat", i, res)
  BY DEF Opening, Opened, Reap, See, Pops
<1>3. RInv /\ ArgsSound
  BY IInvParts
<1>4. i \in Nat /\ "openat" \in Op
  BY <1>3, ArgIndex DEF Opening, Op
<1>5. a[2] \in Entry /\ f \in Fd \cup {AtCwd} /\ x[1] = i /\ x[2] = a
  <2>1. <<"openat", i>> \in Completed
    BY <1>2, <1>3, <1>4, SeenRequest
  <2>2. x \in Uses("openat") /\ x[1] = i /\ x[2] = a
    BY <1>3, <1>4, <2>1, CompletedUsed DEF Opening
  <2>3. a \in OpenArg
    BY <1>3, <2>2, ArgsFit DEF Op, Fits, ArgOf
  <2> QED
    BY <2>2, <2>3 DEF OpenArg, Opening
<1>6. reads => <<res, 0>> \in Arg
  BY DEF Arg, ReadArg
<1>7. closes => <<f>> \in Arg
  BY <1>5 DEF Arg, CloseArg
<1> HIDE DEF reads, closes
<1>8. /\ RInv' /\ Completed' = Completed \ {<<"openat", i>>} /\ <<"openat", i>> \in Completed
      /\ Loses("openat", x) /\ Same("write")
      /\ MayGain("read", <<res, 0>>, reads) /\ MayGain("close", <<f>>, closes)
  BY ZenonT(30), <1>0, <1>1, <1>2, <1>3, <1>4, <1>6, <1>7 DEF OpenedLaw, MayNext
<1> QED
  BY <1>5, <1>8 DEF reads, closes

\* A directory is opened or not; its name's openat no longer refers to its parent, which is
\* closed with its last reference.
LEMMA ReapOpenAtStep ==
  ASSUME Laws, OpenedLaw, IInv, ReapOpenAt
  PROVE  DirRefExact' /\ OneOwner' /\ RInv' /\ ArgsSound'
PROOF
<1>1. PICK i \in DOMAIN pools.arg["openat"], res \in Fd \cup {-1} : Opened(i, res)
  BY OpenedParts
<1>2. PICK a : a = pools.arg["openat"][i]
  OBVIOUS
<1>3. PICK x : x = <<i, a>>
  OBVIOUS
<1>4. PICK f : f = a[1]
  OBVIOUS
<1> DEFINE reads == res \in Fd /\ a[2] \in File
           closes == f # AtCwd /\ dir_ref_count[f] = 1
<1>5. /\ Reap("openat", i, res)
      /\ getdents_queue' = IF res \in Fd /\ a[2] \in Dir THEN Append(getdents_queue, res)
                                                         ELSE getdents_queue
      /\ dir_ref_count' = IF f # AtCwd THEN DecreaseDirRef(f) ELSE dir_ref_count
      /\ current' = current /\ UNCHANGED workVars
  BY <1>1, <1>2, <1>4 DEF Opened
<1>6. /\ pc' = pc /\ pc = "reap" /\ table' = table /\ UNCHANGED <<kernel, workVars>>
      /\ Pops("openat", i, res)
  BY <1>5 DEF Reap, See, Pops
<1>7. RInv /\ LoopTypes /\ ArgsSound /\ DirRefExact
  BY IInvParts
<1>8. Owned /\ QueuesApart
  BY OneOwnerParts DEF IInv
<1>9. /\ a[2] \in Entry /\ f \in Fd \cup {AtCwd}
       /\ RInv' /\ Completed' = Completed \ {<<"openat", i>>}
       /\ Loses("openat", x) /\ Same("write")
       /\ MayGain("read", <<res, 0>>, reads) /\ MayGain("close", <<f>>, closes)
  <2>1. Opening(i, res, a, x, f)
    BY <1>1, <1>2, <1>3, <1>4 DEF Opening
  <2> QED
    BY <2>1, OpenedRequests
<1>10. reads => <<res, 0>> \in ArgOf("read")
  BY DEF ReadArg, ArgOf
<1>11. closes => <<f>> \in ArgOf("close")
  BY <1>9 DEF CloseArg, ArgOf
<1> HIDE DEF reads, closes
<1>12. ArgsSound'
  <2>1. Fits("openat") /\ Fits("close") /\ Fits("read") /\ Fits("write")
    BY <1>7, ArgsFit DEF Op
  <2>2. Fits("openat")' /\ Fits("write")'
    BY <1>9, <2>1, FitsKept
  <2>3. Fits("read")'
    <3>1. CASE reads
      BY <1>10, <1>9, <2>1, <3>1, FitsAfter DEF MayGain
    <3>2. CASE ~reads
      BY <1>9, <2>1, <3>2, FitsKept DEF MayGain
    <3> QED
      BY <3>1, <3>2
  <2>4. Fits("close")'
    <3>1. CASE closes
      BY <1>11, <1>9, <2>1, <3>1, FitsAfter DEF MayGain
    <3>2. CASE ~closes
      BY <1>9, <2>1, <3>2, FitsKept DEF MayGain
    <3> QED
      BY <3>1, <3>2
  <2> QED
    BY <2>2, <2>3, <2>4, ArgsSoundAfter
<1>13. RefsDown(f)
  <2>1. x[2][1] = f
    BY <1>3, <1>4
  <2> QED
    BY <1>7, <1>9, <2>1, RefsLose
<1>14. ASSUME NEW fd \in Fd
       PROVE  /\ dir_ref_count[fd] = Refs(fd) /\ Refs(fd) \in Nat
              /\ Enumerated(fd)' = 0
  <2>1. dir_ref_count[fd] = Enumerated(fd) + Refs(fd) /\ Refs(fd) \in Nat
    BY <1>7, DirRefIs, RelativeFinite
  <2>2. Enumerated(fd) = 0 /\ Enumerated(fd)' = 0
    BY <1>6 DEF Enumerated
  <2> QED
    BY SMT, <2>1, <2>2
<1>15. DirRefExact'
  <2>1. ASSUME NEW fd \in Fd
        PROVE  dir_ref_count'[fd] = Enumerated(fd)' + Refs(fd)'
    <3>1. dir_ref_count \in [Fd -> Int]
      BY <1>7 DEF LoopTypes
    <3>2. dir_ref_count'[fd] = IF fd = f THEN dir_ref_count[fd] - 1 ELSE dir_ref_count[fd]
      BY <1>5, <1>9, <3>1, EventLoopAssumption DEF DecreaseDirRef
    <3>3. Refs(fd)' = IF fd = f THEN Refs(fd) - 1 ELSE Refs(fd)
      BY <1>13 DEF RefsDown
    <3> QED
      BY SMT, <1>14, <3>2, <3>3
  <2> QED
    BY <2>1, DirRefAfter
<1>16. Apart(Closers') /\ \A fd : DirOwners(fd)' = DirOwners(fd)
  <2>1. SameCloses /\ Apart(Closers)
    BY <1>8, <1>9 DEF SameCloses, SameServed, QueuesApart
  <2>2. CASE f = AtCwd
    <3>1. Same("close") /\ dir_ref_count' = dir_ref_count
      BY <1>5, <1>9, <2>2 DEF MayGain, closes
    <3>2. Closers' = Closers
      BY <2>1, <3>1, ClosersSame
    <3> QED
      BY <2>1, <3>1, <3>2, OwnersAre DEF DirOwners, Present, Referenced
  <2>3. CASE f # AtCwd
    <3>1. f \in Fd /\ dir_ref_count' = DecreaseDirRef(f)
      BY <1>5, <1>9, <2>3
    <3>2. dir_ref_count \in [Fd -> Int] /\ dir_ref_count[f] >= 1
      BY <1>7, <1>13, <1>14, <3>1 DEF RefsDown, LoopTypes
    <3>3. MayGain("close", <<f>>, dir_ref_count[f] = 1)
      BY <1>9, <2>3 DEF closes
    <3> QED
      BY <1>8, <2>1, <3>1, <3>2, <3>3, DropRef
  <2> QED
    BY <2>2, <2>3
<1>17. /\ OneOpen(cq') /\ IsInjective(getdents_queue') /\ Apart(Uses("read")')
       /\ \A fd \in Fd : FirstOwners(fd)' = FirstOwners(fd)
  <2>1. MayGain("read", <<res, 0>>, res \in Fd /\ a[2] \in File)
    BY <1>9 DEF reads
  <2> QED
    BY <1>5, <1>6, <1>7, <1>8, <1>9, <2>1, PassOn
<1>18. QueuesApart'
  BY <1>5, <1>8, <1>16, <1>17 DEF QueuesApart
<1>19. \A fd \in Fd : Owners(fd)' = Owners(fd)
  <2>1. Unlisted' = Unlisted
    BY <1>5, <1>6 DEF Unlisted
  <2> QED
    BY SMT, <1>16, <1>17, <2>1 DEF Owners, DirOwners, FirstOwners, Present
<1>20. Owned'
  BY <1>6, <1>8, <1>19, OwnedAfter
<1> QED
  BY <1>9, <1>12, <1>15, <1>18, <1>20, OneOwnerParts

\* The handling of a completion keeps the inductive invariant.
LEMMA ReapActions ==
  ASSUME Laws, RequestLaws, IInv, ReapTurn, ~EndReap
  PROVE  IInv'
PROOF
<1>1. LoopTypes' /\ ControlInv'
  BY IInvParts, ReapTypes
<1>2. DirRefExact' /\ OneOwner' /\ RInv' /\ ArgsSound'
  BY ReapOpenAtStep, ReapCloseStep, ReapReadEndStep, ReapReadDataStep, QueueReadStep,
     ReadHandlerFailsStep, ReapReadErrorStep, ReapWriteStep DEF ReapTurn, RequestLaws
<1> QED
  BY <1>1, <1>2, IInvParts

\* The steps from the list of directories to the next completion, and those of a worker.
SteadyTurn == SubmitTurn \/ EndGetDents \/ EndReap \/ FreeReadRequest

=============================================================================
