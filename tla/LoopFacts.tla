----------------------------- MODULE LoopFacts ------------------------------
(***************************************************************************)
(* The facts that the proofs about EventLoop share: finite sets,           *)
(* sequences, and the requests that the loop has in use. Those about       *)
(* finite sets are hypotheses here, Laws, and are proved where the         *)
(* theorems are: the library that states them makes every later step of a  *)
(* proof slow.                                                             *)
(***************************************************************************)
EXTENDS EventLoop, TLAPS

\* Zenon proves a leaf, unless the leaf names another prover.
USE Zenon

-----------------------------------------------------------------------------
(* Finite sets.                                                            *)

\* The laws of finite sets and of what a list without repetition holds.
Laws ==
  /\ \A S : IsFiniteSet(S) => Cardinality(S) \in Nat
  /\ IsFiniteSet({}) /\ Cardinality({}) = 0
  /\ \A S, x : IsFiniteSet(S) /\ x \notin S =>
       IsFiniteSet(S \cup {x}) /\ Cardinality(S \cup {x}) = Cardinality(S) + 1
  /\ \A S : \A x \in S : IsFiniteSet(S) =>
       IsFiniteSet(S \ {x}) /\ Cardinality(S \ {x}) = Cardinality(S) - 1
  /\ \A S, T : IsFiniteSet(S) /\ IsFiniteSet(T) /\ S \cap T = {} =>
       IsFiniteSet(S \cup T) /\ Cardinality(S \cup T) = Cardinality(S) + Cardinality(T)
  /\ \A S, T : T \subseteq S /\ IsFiniteSet(S) => IsFiniteSet(T)
  /\ \A S : \A s \in Seq(S) : IsFiniteSet(Range(s))
  /\ \A S : \A s \in Seq(S) : IsInjective(s) =>
       /\ IsFiniteSet(Range(s)) /\ Cardinality(Range(s)) = Len(s)
       /\ \A n \in Nat : Range(s) \subseteq 1..n => Len(s) <= n

\* The number of requests of a finite set is a natural number.
LEMMA CardinalityType ==
  ASSUME Laws, NEW S, IsFiniteSet(S)
  PROVE  Cardinality(S) \in Nat
  BY DEF Laws

\* Nothing is in the ring before the first submission: no request, number 0.
LEMMA EmptySet == ASSUME Laws PROVE IsFiniteSet({}) /\ Cardinality({}) = 0
  BY DEF Laws

\* A request handed out to the kernel counts for one more.
LEMMA AddElement ==
  ASSUME Laws, NEW S, NEW x, IsFiniteSet(S), x \notin S
  PROVE  IsFiniteSet(S \cup {x}) /\ Cardinality(S \cup {x}) = Cardinality(S) + 1
  BY DEF Laws

\* A request that leaves a place counts there for one less.
LEMMA RemoveElement ==
  ASSUME Laws, NEW S, NEW x \in S, IsFiniteSet(S)
  PROVE  IsFiniteSet(S \ {x}) /\ Cardinality(S \ {x}) = Cardinality(S) - 1
  BY DEF Laws

\* The submitted entries add to the requests the kernel has.
LEMMA DisjointUnion ==
  ASSUME Laws, NEW S, NEW T, IsFiniteSet(S), IsFiniteSet(T), S \cap T = {}
  PROVE  IsFiniteSet(S \cup T) /\ Cardinality(S \cup T) = Cardinality(S) + Cardinality(T)
  BY DEF Laws

\* Some of finitely many requests are finitely many.
LEMMA FiniteSubset ==
  ASSUME Laws, NEW S, NEW T, T \subseteq S, IsFiniteSet(S)
  PROVE  IsFiniteSet(T)
  BY DEF Laws

\* A queue holds finitely many elements.
LEMMA FiniteRange ==
  ASSUME Laws, NEW S, NEW s \in Seq(S)
  PROVE  IsFiniteSet(Range(s))
  BY DEF Laws

\* A list of distinct numbers up to n has at most n of them.
LEMMA InjectiveLength ==
  ASSUME Laws, NEW S, NEW s \in Seq(S), IsInjective(s)
  PROVE  /\ IsFiniteSet(Range(s)) /\ Cardinality(Range(s)) = Len(s)
         /\ \A n \in Nat : Range(s) \subseteq 1..n => Len(s) <= n
  BY DEF Laws

-----------------------------------------------------------------------------
(* Sequences.                                                              *)

\* A queue is a list of its elements, numbered from 1.
LEMMA LenIs ==
  ASSUME NEW S, NEW s \in Seq(S)
  PROVE  /\ Len(s) \in Nat /\ DOMAIN s = 1..Len(s) /\ s \in [1..Len(s) -> S]
         /\ \A i \in 1..Len(s) : s[i] \in S
         /\ s # <<>> => Len(s) # 0
  BY SMT

\* push_back keeps the elements and puts the new one last.
LEMMA AppendIs ==
  ASSUME NEW S, NEW s \in Seq(S), NEW e \in S
  PROVE  /\ Append(s, e) \in Seq(S) /\ Len(Append(s, e)) = Len(s) + 1
         /\ \A i \in 1..Len(s) : Append(s, e)[i] = s[i]
         /\ Append(s, e)[Len(s) + 1] = e
  BY SMT

\* pop_front moves every element but the first one place forward.
LEMMA TailIs ==
  ASSUME NEW S, NEW s \in Seq(S), s # <<>>
  PROVE  /\ Head(s) \in S /\ Head(s) = s[1]
         /\ Tail(s) \in Seq(S) /\ Len(Tail(s)) = Len(s) - 1
         /\ \A i \in 1..Len(s) - 1 : Tail(s)[i] = s[i + 1]
  BY SMT

\* A vector that is written element by element has the length of its indices.
LEMMA FunctionSeq ==
  ASSUME NEW S, NEW n \in Nat, NEW s \in [1..n -> S]
  PROVE  s \in Seq(S) /\ Len(s) = n /\ DOMAIN s = 1..n
  BY SMT

\* A queue is empty at first.
LEMMA NoElements == ASSUME NEW S PROVE <<>> \in Seq(S) /\ Len(<<>>) = 0
  BY SMT

\* The elements of a queue have the type of the queue.
LEMMA SeqRange ==
  ASSUME NEW S, NEW s \in Seq(S)
  PROVE  Len(s) \in Nat /\ Range(s) \subseteq S
  BY SMT, LenIs DEF Range

\* push_back adds an element at the end, and only that.
LEMMA PushBack ==
  ASSUME NEW S, NEW s \in Seq(S), NEW e \in S
  PROVE  /\ Append(s, e) \in Seq(S) /\ Len(Append(s, e)) = Len(s) + 1 /\ Len(s) \in Nat
         /\ Range(Append(s, e)) = Range(s) \cup {e}
         /\ IsInjective(s) /\ e \notin Range(s) => IsInjective(Append(s, e))
PROOF
<1>1. /\ Append(s, e) \in Seq(S) /\ Len(Append(s, e)) = Len(s) + 1
      /\ \A i \in 1..Len(s) : Append(s, e)[i] = s[i]
      /\ Append(s, e)[Len(s) + 1] = e
  BY AppendIs
<1>2. Len(s) \in Nat /\ DOMAIN s = 1..Len(s) /\ DOMAIN Append(s, e) = 1..Len(s) + 1
  BY <1>1, LenIs
<1>3. \A i \in 1..Len(s) + 1 : i \in 1..Len(s) \/ i = Len(s) + 1
  BY SMT, <1>2
<1>4. Range(Append(s, e)) = Range(s) \cup {e}
  BY SMT, <1>1, <1>2, <1>3 DEF Range
<1>5. IsInjective(s) /\ e \notin Range(s) => IsInjective(Append(s, e))
  BY <1>1, <1>2, <1>3 DEF Range, IsInjective
<1> QED
  BY <1>1, <1>2, <1>4, <1>5

\* front and pop_front split a queue into its first element and the others.
LEMMA PopFront ==
  ASSUME NEW S, NEW s \in Seq(S), s # <<>>
  PROVE  /\ Head(s) \in S /\ Tail(s) \in Seq(S) /\ Len(Tail(s)) = Len(s) - 1 /\ Len(s) \in Nat
         /\ Range(s) = Range(Tail(s)) \cup {Head(s)}
         /\ IsInjective(s) => IsInjective(Tail(s)) /\ Head(s) \notin Range(Tail(s))
PROOF
<1>1. /\ Head(s) \in S /\ Tail(s) \in Seq(S) /\ Len(Tail(s)) = Len(s) - 1
      /\ \A i \in 1..Len(Tail(s)) : Tail(s)[i] = s[i + 1]
  BY TailIs
<1>2. Len(s) \in Nat \ {0} /\ DOMAIN s = 1..Len(s) /\ DOMAIN Tail(s) = 1..Len(s) - 1
  BY <1>1, LenIs
<1>3. Head(s) = s[1]
  BY SMT
<1>4. \A i \in 1..Len(s) - 1 : i + 1 \in 1..Len(s) /\ Tail(s)[i] = s[i + 1] /\ i + 1 # 1
  BY SMT, <1>1, <1>2
<1>5. \A i \in 1..Len(s) : i = 1 \/ (i - 1 \in 1..Len(s) - 1 /\ (i - 1) + 1 = i)
  BY SMT, <1>2
<1>6. ASSUME NEW i \in 1..Len(s), i # 1
      PROVE  i - 1 \in DOMAIN Tail(s) /\ Tail(s)[i - 1] = s[i]
  BY <1>2, <1>4, <1>5, <1>6
<1>7. ASSUME NEW e \in Range(s)
      PROVE  e \in Range(Tail(s)) \cup {Head(s)}
  <2>1. PICK i \in 1..Len(s) : e = s[i]
    BY <1>2 DEF Range
  <2> QED
    BY <1>3, <1>6, <2>1 DEF Range
<1>8. Range(Tail(s)) \cup {Head(s)} \subseteq Range(s)
  BY SMT, <1>2, <1>3, <1>4 DEF Range
<1>9. ASSUME IsInjective(s)
      PROVE  IsInjective(Tail(s)) /\ Head(s) \notin Range(Tail(s))
  BY SMT, <1>2, <1>3, <1>4, <1>9 DEF Range, IsInjective
<1> QED
  BY <1>1, <1>2, <1>7, <1>8, <1>9

-----------------------------------------------------------------------------
(* The requests of a pool in use.                                          *)

\* The requests that wait for an entry or have one.
Used(p) == {r \in Op \X Nat : r[2] \in Range(p.overflow[r[1]]) \/ r \in Range(p.sq)}

\* The requests in use are those that are used and those of ring.
LEMMA UsedOrRing ==
  ASSUME NEW A, NEW p \in PoolType(A), NEW ring, NEW o \in Op, NEW i \in DOMAIN p.arg[o]
  PROVE  /\ i \in Nat
         /\ <<i, p.arg[o][i]>> \in InUse(p, ring, o) <=> <<o, i>> \in Used(p) \/ <<o, i>> \in ring
PROOF
<1>1. p.arg[o] \in Seq(A)
  BY DEF PoolType
<1>2. i \in Nat
  BY SMT, <1>1, LenIs
<1>3. <<o, i>> \in Used(p) <=> i \in Range(p.overflow[o]) \/ <<o, i>> \in Range(p.sq)
  BY <1>2 DEF Used
<1> QED
  BY <1>2, <1>3 DEF InUse

\* A request in use is an object of the pool with its arguments.
LEMMA InUseHasArg ==
  ASSUME NEW p, NEW ring, NEW o, NEW x \in InUse(p, ring, o)
  PROVE  x[1] \in DOMAIN p.arg[o] /\ x = <<x[1], p.arg[o][x[1]]>>
PROOF
<1>1. PICK i \in DOMAIN p.arg[o] : x = <<i, p.arg[o][i]>>
  BY DEF InUse
<1>2. x[1] = i
  BY <1>1
<1> QED
  BY <1>1, <1>2

-----------------------------------------------------------------------------
(* The requests of the loop.                                               *)

Reqs(q) == {c.req : c \in Range(q)}

Once(q) == \A k, l \in DOMAIN q : q[k].req = q[l].req => k = l

\* A completion pump sees.
LEMMA ReqsPop ==
  ASSUME NEW S, NEW q \in Seq(S), q # <<>>, Once(q)
  PROVE  /\ Head(q) \in S /\ Tail(q) \in Seq(S) /\ Len(Tail(q)) = Len(q) - 1 /\ Len(q) \in Nat
         /\ Reqs(Tail(q)) = Reqs(q) \ {Head(q).req} /\ Head(q).req \in Reqs(q) /\ Once(Tail(q))
PROOF
<1>1. /\ Head(q) \in S /\ Tail(q) \in Seq(S) /\ Len(Tail(q)) = Len(q) - 1 /\ Len(q) \in Nat
      /\ Range(q) = Range(Tail(q)) \cup {Head(q)}
  BY PopFront
<1>2. /\ DOMAIN q = 1..Len(q) /\ DOMAIN Tail(q) = 1..Len(q) - 1 /\ Len(q) # 0
      /\ \A k \in 1..Len(q) - 1 : Tail(q)[k] = q[k + 1]
      /\ Head(q) = q[1]
  BY <1>1, TailIs, LenIs
<1>3. \A k \in 1..Len(q) - 1 : k + 1 \in 1..Len(q) /\ 1 \in 1..Len(q) /\ k + 1 # 1
  BY SMT, <1>1
<1>4. \A k \in 1..Len(q) - 1 : Tail(q)[k].req # Head(q).req
  BY <1>2, <1>3 DEF Once
<1>5. Once(Tail(q))
  <2>1. ASSUME NEW k \in 1..Len(q) - 1, NEW l \in 1..Len(q) - 1, Tail(q)[k].req = Tail(q)[l].req
        PROVE  k = l
    <3>1. k + 1 = l + 1
      BY SMT, <1>2, <1>3, <2>1 DEF Once
    <3> QED
      BY SMT, <1>1, <3>1
  <2> QED
    BY <1>2, <2>1 DEF Once
<1>6. Head(q).req \notin Reqs(Tail(q))
  BY <1>2, <1>4 DEF Reqs, Range
<1>7. Reqs(q) = Reqs(Tail(q)) \cup {Head(q).req}
  BY <1>1 DEF Reqs
<1> QED
  BY <1>1, <1>5, <1>6, <1>7

\* The part of the inductive invariant that is about requests alone.
RInv == RequestTypes /\ RequestsConserved /\ InFlightExact /\ HandedInv

\* The requests in use stay as they are, and so do the reads.
Kept == (\A o \in Op : Active(o)' = Active(o)) /\ Readers' = Readers

\* A step that touches neither the pools, the ring nor the read buffers keeps what is said
\* of the requests.
LEMMA QuietRequests ==
  ASSUME Laws, RInv, UNCHANGED <<pools, kernel, cq, workVars>>
  PROVE  RInv' /\ Kept
PROOF
<1>1. /\ pools' = pools /\ kernel' = kernel /\ cq' = cq /\ held' = held /\ lost' = lost
      /\ read_free_queue' = read_free_queue /\ returned' = returned /\ handed' = handed
  BY DEF workVars
<1>2. RequestTypes' /\ InFlightExact' /\ HandedInv'
  BY <1>1 DEF RInv, RequestTypes, InFlightExact, HandedInv
<1>3. Completed' = Completed /\ Ring' = Ring /\ Out' = Out
  BY <1>1 DEF Completed, Ring, Out
<1>4. \A r : Places(r)' = Places(r)
  BY <1>1, <1>3 DEF Places
<1>5. RequestsConserved'
  BY <1>1, <1>3, <1>4 DEF RInv, RequestsConserved
<1>6. Kept
  BY <1>1, <1>3 DEF Kept, Active, Readers, Unfinished
<1> QED
  BY <1>2, <1>5, <1>6 DEF RInv

\* The numbers and sets the invariant is about.
LEMMA RequestFacts ==
  ASSUME Laws, RInv
  PROVE  /\ pools \in PoolType(Arg) /\ PoolInv(pools, Out) /\ Out \in SUBSET (Op \X Nat)
         /\ Ring \in SUBSET Out /\ Completed = Reqs(cq) /\ Once(cq)
         /\ pools.in_flight \in Int /\ Len(pools.sq) \in Nat /\ Len(cq) \in Nat
         /\ Cardinality(kernel) \in Nat /\ Cardinality(lost) \in Nat
PROOF
<1>1. pools \in PoolType(Arg) /\ PoolInv(pools, Out)
  BY DEF RInv, RequestTypes, RequestsConserved
<1>2. pools.in_flight \in Int /\ pools.sq \in Seq(Op \X Nat)
  BY <1>1 DEF PoolType
<1>3. Len(pools.sq) \in Nat
  BY <1>2, LenIs
<1>4. Completed = Reqs(cq) /\ Once(cq)
  BY DEF RInv, RequestsConserved, Completed, Reqs, Once
<1>5. cq \in Seq([req : Op \X Nat, res : Int])
  BY DEF RInv, RequestTypes
<1>6. Len(cq) \in Nat /\ Range(cq) \subseteq [req : Op \X Nat, res : Int]
  BY <1>5, SeqRange
<1>7. Completed \subseteq Op \X Nat
  BY <1>6 DEF Completed
<1>8. Range(read_free_queue) \subseteq Nat /\ Range(returned) \subseteq Nat
  BY SeqRange DEF RInv, RequestTypes
<1>9. Out \in SUBSET (Op \X Nat)
  BY <1>7, <1>8 DEF RInv, RequestTypes, Out, Ring, Buffers, Op
<1>10. Ring \in SUBSET Out
  BY DEF Out
<1>11. Cardinality(kernel) \in Nat /\ Cardinality(lost) \in Nat
  BY CardinalityType DEF RInv, RequestTypes
<1> QED
  BY <1>1, <1>2, <1>3, <1>4, <1>6, <1>9, <1>10, <1>11

\* pump takes the completion of request i of kind o from the queue.
Pops(o, i, res) ==
  cq # <<>> /\ Head(cq) = [req |-> <<o, i>>, res |-> res] /\ cq' = Tail(cq)

\* pump sees a completion: what it does to the queue.
LEMMA SeenRequest ==
  ASSUME Laws, RInv, NEW o \in Op, NEW i \in Nat, NEW res, Pops(o, i, res), kernel' = kernel
  PROVE  /\ cq' \in Seq([req : Op \X Nat, res : Int]) /\ Len(cq') = Len(cq) - 1 /\ Once(cq')
         /\ Completed' = Completed \ {<<o, i>>} /\ Ring' = Ring \ {<<o, i>>}
         /\ <<o, i>> \in Completed /\ <<o, i>> \in Out /\ <<o, i>> \notin kernel
         /\ <<o, i>> \notin Buffers(held) /\ <<o, i>> \notin Buffers(lost)
         /\ <<o, i>> \notin Buffers(Range(read_free_queue))
         /\ <<o, i>> \notin Buffers(Range(returned)) /\ <<o, i>> \notin Buffers(Unfinished)
         /\ i \in DOMAIN pools.arg[o]
PROOF
<1> DEFINE r == <<o, i>>
           S == [req : Op \X Nat, res : Int]
<1>1. cq \in Seq(S) /\ Head(cq).req = r /\ cq # <<>> /\ cq' = Tail(cq)
  BY SMT DEF Pops, RInv, RequestTypes
<1>2. Completed = Reqs(cq) /\ Once(cq)
  BY RequestFacts
<1>3. r[1] = o /\ r[2] = i
  OBVIOUS
<1> HIDE DEF r, S
<1>4. /\ cq' \in Seq(S) /\ Len(cq') = Len(cq) - 1 /\ Once(cq')
      /\ Reqs(cq') = Completed \ {r} /\ r \in Completed
  BY <1>1, <1>2, ReqsPop
<1>5. Completed' = Completed \ {r}
  BY <1>4 DEF Completed, Reqs
<1>6. r \in Out
  BY <1>4 DEF Out, Ring
<1>7. Places(r) = 1 /\ r[1] \in Op /\ r[2] \in DOMAIN pools.arg[r[1]]
  BY <1>6 DEF RInv, RequestsConserved, PoolInv
<1>8. /\ r \notin kernel /\ r \notin Buffers(held) /\ r \notin Buffers(lost)
      /\ r \notin Buffers(Range(read_free_queue)) /\ r \notin Buffers(Range(returned))
  BY SMT, <1>4, <1>7 DEF Places, Present
<1>9. Ring' = Ring \ {r}
  BY <1>5, <1>8 DEF Ring
<1>10. r \notin Buffers(Unfinished)
  BY <1>8 DEF RInv, HandedInv, Buffers, Unfinished
<1> QED
  BY <1>3, <1>4, <1>5, <1>6, <1>7, <1>8, <1>9, <1>10 DEF r, S

\* A request the kernel has is not completed.
LEMMA KernelApart ==
  ASSUME Laws, RInv, NEW r \in kernel
  PROVE  r \notin Completed
PROOF
<1>1. Places(r) = 1
  BY DEF RInv, RequestsConserved, Out, Ring
<1> QED
  BY SMT, <1>1 DEF Places, Present

\* The requests of kind o in use, with pools p, and the reads the ring no longer has.
Lost(p) == {<<i, p.arg["read"][i]>> : i \in Unfinished}

Using(p, o) == InUse(p, Ring, o) \cup (IF o = "read" THEN Lost(p) ELSE {})

Uses(o) == Using(pools, o)

\* The requests in use, by the names the loop has for them.
LEMMA UsesAre ==
  /\ Uses("read") = Readers /\ Uses("openat") = Active("openat")
  /\ Uses("close") = Active("close") /\ Uses("write") = Active("write")
  BY DEF Uses, Using, Lost, Readers, Active

\* A step that keeps the requests in use and the failed reads keeps Uses.
LEMMA KeptUses ==
  ASSUME Kept
  PROVE  \A o \in Op : Uses(o)' = Uses(o)
PROOF
<1>1. ASSUME NEW o \in Op, o = "read"
      PROVE  Uses(o)' = Uses(o)
  BY <1>1 DEF Kept, Uses, Using, Lost, Readers, Active
<1>2. ASSUME NEW o \in Op, o # "read"
      PROVE  Uses(o)' = Uses(o)
  BY <1>2 DEF Kept, Uses, Using, Active
<1> QED
  BY <1>1, <1>2

\* A completed request is in use.
LEMMA CompletedUsed ==
  ASSUME Laws, RInv, NEW o \in Op, NEW i \in Nat, <<o, i>> \in Completed \/ <<o, i>> \in kernel
  PROVE  i \in DOMAIN pools.arg[o] /\ <<i, pools.arg[o][i]>> \in Uses(o) /\ <<o, i>> \in Out
PROOF
<1>1. <<o, i>> \in Ring /\ <<o, i>> \in Out
  BY DEF Ring, Out
<1>2. <<o, i>>[1] = o /\ <<o, i>>[2] = i
  OBVIOUS
<1>3. i \in DOMAIN pools.arg[o]
  BY <1>1, <1>2 DEF RInv, RequestsConserved, PoolInv
<1>4. pools \in PoolType(Arg)
  BY RequestFacts
<1>5. <<i, pools.arg[o][i]>> \in InUse(pools, Ring, o)
  BY <1>1, <1>3, <1>4, UsedOrRing
<1> QED
  BY <1>1, <1>3, <1>5 DEF Uses, Using

\* An object of a pool is known by a number.
LEMMA ArgIndex ==
  ASSUME Laws, RInv, NEW o \in Op, NEW i \in DOMAIN pools.arg[o]
  PROVE  i \in Nat
PROOF
<1>1. pools.arg[o] \in Seq(Arg)
  BY RequestFacts DEF PoolType
<1> QED
  BY SMT, <1>1, LenIs

\* A request in use is determined by its object.
LEMMA UsesHaveArg ==
  ASSUME NEW o, NEW r \in Uses(o)
  PROVE  r = <<r[1], pools.arg[o][r[1]]>>
PROOF
<1>1. CASE r \in InUse(pools, Ring, o)
  BY SMT, <1>1, InUseHasArg
<1>2. CASE o = "read" /\ r \in Lost(pools)
  BY SMT, <1>2 DEF Lost
<1> QED
  BY <1>1, <1>2 DEF Uses, Using

Gains(o, args) ==
  \E i \in Nat : /\ <<o, i>> \notin Out /\ \A r \in Uses(o) : r[1] # i
                 /\ Uses(o)' = Uses(o) \cup {<<i, args>>}

Loses(o, r) == r \in Uses(o) /\ Uses(o)' = Uses(o) \ {r}

Trades(o, r, args) ==
  \E i \in Nat : /\ <<o, i>> \notin Out /\ r \in Uses(o) /\ \A s \in Uses(o) : s[1] # i
                 /\ Uses(o)' = (Uses(o) \ {r}) \cup {<<i, args>>}

Same(o) == Uses(o)' = Uses(o)

\* The two requests pump may queue when it sees an opened file, and the freed one.
MayGain(o, args, yes) == (yes => Gains(o, args)) /\ (~yes => Same(o))

MayNext(p, o, args, yes) == IF yes THEN PoolNext(p, o, args) ELSE p

=============================================================================
