--------------------------- MODULE RequestProofs ----------------------------
(***************************************************************************)
(* What the operations of RequestPool do to the requests, and the steps    *)
(* of EventLoop that use them: each keeps every object in exactly one      *)
(* place and in_flight_ exact, and adds, takes or keeps the requests in    *)
(* use.                                                                    *)
(***************************************************************************)
EXTENDS LoopFacts

\* Zenon proves a leaf, unless the leaf names another prover.
USE Zenon

-----------------------------------------------------------------------------
(* The queues of the pools.                                                *)

\* pop_back takes the last free object and keeps the others.
LEMMA PopBackIs ==
  ASSUME NEW S, NEW s \in Seq(S), s # <<>>
  PROVE  /\ PopBack(s) \in Seq(S) /\ Len(PopBack(s)) = Len(s) - 1
         /\ \A i \in 1..Len(s) - 1 : PopBack(s)[i] = s[i]
PROOF
<1>1. PICK m \in Nat : m = Len(s) - 1 /\ m <= Len(s)
  <2>1. Len(s) \in Nat /\ Len(s) # 0
    BY LenIs
  <2> DEFINE n == Len(s)
  <2> HIDE DEF n
  <2>2. n \in Nat /\ n # 0 => n - 1 \in Nat /\ n - 1 <= n
    BY SMT
  <2> QED
    BY <2>1, <2>2 DEF n
<1>2. PopBack(s) = SubSeq(s, 1, m)
  BY <1>1 DEF PopBack
<1>3. SubSeq(s, 1, m) = [i \in 1..m |-> s[i]]
  BY SMT, <1>1
<1>4. [i \in 1..m |-> s[i]] \in [1..m -> S]
  BY SMT, <1>1
<1> QED
  BY SMT, <1>1, <1>2, <1>3, <1>4, FunctionSeq

\* An element of a vector is overwritten.
LEMMA SetElement ==
  ASSUME NEW S, NEW s \in Seq(S), NEW i \in DOMAIN s, NEW e \in S
  PROVE  /\ [s EXCEPT ![i] = e] \in Seq(S) /\ DOMAIN [s EXCEPT ![i] = e] = DOMAIN s
         /\ [s EXCEPT ![i] = e][i] = e
  BY SMT

\* back and pop_back split a list into its last element and the others.
LEMMA BackPopBack ==
  ASSUME NEW S, NEW s \in Seq(S), s # <<>>
  PROVE  /\ Back(s) \in S /\ PopBack(s) \in Seq(S)
         /\ Len(PopBack(s)) \in Nat /\ Len(s) = Len(PopBack(s)) + 1
         /\ Range(s) = Range(PopBack(s)) \cup {Back(s)}
         /\ IsInjective(s) => IsInjective(PopBack(s)) /\ Back(s) \notin Range(PopBack(s))
PROOF
<1>1. Len(s) \in Nat \ {0} /\ DOMAIN s = 1..Len(s)
  BY LenIs
<1> DEFINE n == Len(s)
<1> HIDE DEF n
<1>2. n \in Nat \ {0} => \A i \in 1..n - 1 : i \in 1..n /\ i # n
  BY SMT
<1>3. n \in Nat \ {0} => n \in 1..n /\ \A i \in 1..n : i = n \/ i \in 1..n - 1
  BY SMT
<1>4. Back(s) = s[Len(s)] /\ Back(s) \in S /\ \A i \in 1..Len(s) - 1 : s[i] \in S
  BY <1>1, <1>2, <1>3, LenIs DEF Back, n
<1>5. /\ PopBack(s) \in Seq(S) /\ Len(PopBack(s)) = Len(s) - 1
      /\ \A i \in 1..Len(s) - 1 : PopBack(s)[i] = s[i]
  BY <1>1, <1>4, PopBackIs DEF PopBack
<1>6. DOMAIN PopBack(s) = 1..Len(s) - 1
  BY <1>5, LenIs
<1>7. Range(s) = Range(PopBack(s)) \cup {Back(s)}
  BY <1>1, <1>2, <1>3, <1>4, <1>5, <1>6 DEF Range, n
<1>8. ASSUME IsInjective(s)
      PROVE  IsInjective(PopBack(s)) /\ Back(s) \notin Range(PopBack(s))
  <2>1. \A i \in 1..Len(s) - 1 : i \in DOMAIN s /\ s[i] # Back(s)
    BY <1>1, <1>2, <1>3, <1>4, <1>8 DEF IsInjective, n
  <2>2. IsInjective(PopBack(s))
    BY <1>5, <1>6, <1>8, <2>1 DEF IsInjective
  <2>3. Back(s) \notin Range(PopBack(s))
    BY <1>5, <1>6, <2>1 DEF Range
  <2> QED
    BY <2>2, <2>3
<1>9. Len(PopBack(s)) \in Nat /\ Len(s) = Len(PopBack(s)) + 1
  BY SMT, <1>1, <1>5
<1> QED
  BY <1>4, <1>5, <1>7, <1>8, <1>9

\* What holds of the pools q after an operation on the pools p: the objects of out are
\* still handed out, and the requests in flight that are not in the submission queue are
\* as many as before.
Sound(A, p, q, out) ==
  /\ q \in PoolType(A) /\ PoolInv(q, out)
  /\ q.in_flight - Len(q.sq) = p.in_flight - Len(p.sq)

Prepared(A, p, q, out, o, i) ==
  Sound(A, p, q, out) /\ q.arg = p.arg /\ Used(q) = Used(p) \cup {<<o, i>>}

\* A request that is given a submission entry or a place in sqe_overflow_ is used.
LEMMA PrepareUses ==
  ASSUME NEW A, NEW p \in PoolType(A), NEW out, PoolInv(p, out),
         NEW o \in Op, NEW i \in DOMAIN p.arg[o], <<o, i>> \in out
  PROVE  Prepared(A, p, Prepare(p, o, i), out \ {<<o, i>>}, o, i)
PROOF
<1> DEFINE q == Prepare(p, o, i)
<1>1. /\ p.free \in [Op -> Seq(Nat)] /\ p.spare \in [Op -> Seq(Nat)] /\ p.arg \in [Op -> Seq(A)]
      /\ p.overflow \in [Op -> Seq(Nat)] /\ p.sq \in Seq(Op \X Nat) /\ p.in_flight \in Int
  BY DEF PoolType
<1>2. i \in Nat /\ Len(p.sq) \in Nat
  BY SMT, <1>1, LenIs
<1>3. Lists(p, o, i) = 0
  <2>1. Lists(p, o, i) + Present(<<o, i>>, out) = 1
    BY DEF PoolInv
  <2> QED
    BY SMT, <2>1 DEF Present, Lists
<1>4. CASE HasSqe(p)
  <2> DEFINE r == <<o, i>>
             x == Append(p.sq, r)
  <2>0. r \in Op \X Nat
    BY <1>2
  <2>1. /\ x \in Seq(Op \X Nat) /\ Len(x) = Len(p.sq) + 1
        /\ Range(x) = Range(p.sq) \cup {r}
        /\ IsInjective(p.sq) /\ r \notin Range(p.sq) => IsInjective(x)
    <3> HIDE DEF r
    <3> QED
      BY SMTT(30), <1>1, <2>0, PushBack
  <2>2. q = [p EXCEPT !.sq = x, !.in_flight = p.in_flight + 1]
    BY <1>4 DEF Prepare
  <2> HIDE DEF x, q
  <2>3. /\ q.arg = p.arg /\ q.free = p.free /\ q.spare = p.spare
        /\ q.overflow = p.overflow /\ q.sq = x
    BY <2>2 DEF PoolType
  <2>4. q.in_flight = p.in_flight + 1
    BY <2>2 DEF PoolType
  <2>5. q \in PoolType(A)
    <3>1. p.in_flight + 1 \in Int
      BY SMT, <1>1
    <3> QED
      BY <2>1, <2>2, <3>1 DEF PoolType
  <2>6. r \notin Range(p.sq)
    BY SMT, <1>1, <1>3 DEF Lists, Present
  <2>7. ListsSound(q)
    <3>1. IsInjective(x) /\ \A y \in Range(x) : y[1] \in Op /\ y[2] \in DOMAIN p.arg[y[1]]
      BY <2>1, <2>6 DEF PoolInv, ListsSound
    <3> QED
      BY <2>3, <3>1 DEF PoolInv, ListsSound
  <2>8. ASSUME NEW o2 \in Op, NEW j \in DOMAIN p.arg[o2]
        PROVE  Lists(q, o2, j) + Present(<<o2, j>>, out \ {r}) = 1
    <3>1. Lists(p, o2, j) + Present(<<o2, j>>, out) = 1
      BY DEF PoolInv
    <3>2. CASE <<o2, j>> = r
      BY SMT, <1>3, <2>1, <2>3, <2>6, <3>1, <3>2 DEF Lists, Present
    <3>3. CASE <<o2, j>> # r
      BY <2>1, <2>3, <3>1, <3>3 DEF Lists, Present
    <3> QED
      BY <3>2, <3>3
  <2>9. Used(q) = Used(p) \cup {r}
    BY <2>0, <2>1, <2>3 DEF Used
  <2> QED
    <3>1. q.in_flight - Len(q.sq) = p.in_flight - Len(p.sq)
      <4>1. Len(q.sq) = Len(p.sq) + 1 /\ p.in_flight \in Int
        BY <1>1, <2>1, <2>3
      <4> QED
        BY SMTT(30), <1>2, <2>4, <4>1
    <3>2. PoolInv(q, out \ {<<o, i>>})
      BY <2>3, <2>7, <2>8 DEF PoolInv
    <3> QED
      BY <2>3, <2>5, <2>9, <3>1, <3>2 DEF Prepared, Sound, q
<1>5. CASE ~HasSqe(p)
  <2> DEFINE r == <<o, i>>
             x == Append(p.overflow[o], i)
  <2>0. p.overflow[o] \in Seq(Nat) /\ r \in Op \X Nat
    BY <1>1, <1>2
  <2>1. /\ x \in Seq(Nat) /\ Range(x) = Range(p.overflow[o]) \cup {i}
        /\ IsInjective(p.overflow[o]) /\ i \notin Range(p.overflow[o]) => IsInjective(x)
    BY SMT, <1>2, <2>0, PushBack
  <2>2. q = [p EXCEPT !.overflow[o] = x]
    BY <1>5 DEF Prepare
  <2> HIDE DEF x, q
  <2>3. /\ q.arg = p.arg /\ q.free = p.free /\ q.spare = p.spare
        /\ q.sq = p.sq /\ q.in_flight = p.in_flight
    BY <2>2 DEF PoolType
  <2>4. q.overflow = [p.overflow EXCEPT ![o] = x]
    BY <2>2 DEF PoolType
  <2>5. q \in PoolType(A)
    BY <1>1, <2>1, <2>2 DEF PoolType
  <2>6. i \notin Range(p.overflow[o])
    BY SMT, <1>1, <1>3 DEF Lists, Present
  <2>7. ListsSound(q)
    <3>1. Distinct(x, DOMAIN p.arg[o])
      BY <2>1, <2>6 DEF PoolInv, ListsSound, Distinct
    <3> QED
      BY <1>1, <2>3, <2>4, <3>1 DEF PoolInv, ListsSound
  <2>8. ASSUME NEW o2 \in Op, NEW j \in DOMAIN p.arg[o2]
        PROVE  Lists(q, o2, j) + Present(<<o2, j>>, out \ {r}) = 1
    <3>1. Lists(p, o2, j) + Present(<<o2, j>>, out) = 1
      BY DEF PoolInv
    <3>2. CASE o2 = o /\ j = i
      BY SMT, <1>1, <1>3, <2>1, <2>3, <2>4, <2>6, <3>1, <3>2 DEF Lists, Present
    <3>3. CASE ~(o2 = o /\ j = i)
      BY <1>1, <2>1, <2>3, <2>4, <3>1, <3>3 DEF Lists, Present
    <3> QED
      BY <3>2, <3>3
  <2>9. Used(q) = Used(p) \cup {r}
    BY SMTT(30), <1>1, <2>1, <2>3, <2>4 DEF Used
  <2>10. PoolInv(q, out \ {<<o, i>>})
    BY <2>3, <2>7, <2>8 DEF PoolInv
  <2> QED
    BY <2>3, <2>5, <2>9, <2>10 DEF Prepared, Sound, q
<1> QED
  BY <1>4, <1>5

\* Object i of kind o, unused before, has the arguments args in q, and every other object
\* that was constructed in p has those it had.
Given(p, q, o, i, args) ==
  /\ i \in Nat /\ i \in DOMAIN q.arg[o] /\ q.arg[o][i] = args
  /\ \A o2 \in Op : \A j \in DOMAIN p.arg[o2] :
       j \in DOMAIN q.arg[o2] /\ (<<o2, j>> # <<o, i>> => q.arg[o2][j] = p.arg[o2][j])

Queued(A, p, q, out, o, args) ==
  /\ Sound(A, p, q, out)
  /\ \E i \in Nat : /\ Given(p, q, o, i, args)
                    /\ <<o, i>> \notin out \cup Used(p)
                    /\ Used(q) = Used(p) \cup {<<o, i>>}

\* next(args) uses an object that was free, or a new one.
LEMMA NextUses ==
  ASSUME NEW A, NEW p \in PoolType(A), NEW out, PoolInv(p, out),
         NEW o \in Op, NEW args \in A
  PROVE  Queued(A, p, PoolNext(p, o, args), out, o, args)
PROOF
<1> DEFINE q == PoolNext(p, o, args)
<1>1. /\ p.free \in [Op -> Seq(Nat)] /\ p.spare \in [Op -> Seq(Nat)] /\ p.arg \in [Op -> Seq(A)]
      /\ p.overflow \in [Op -> Seq(Nat)] /\ p.sq \in Seq(Op \X Nat) /\ p.in_flight \in Int
  BY DEF PoolType
<1>2. /\ p.free[o] \in Seq(Nat) /\ p.spare[o] \in Seq(Nat) /\ p.arg[o] \in Seq(A)
      /\ Len(p.arg[o]) \in Nat /\ DOMAIN p.arg[o] = 1..Len(p.arg[o])
  BY <1>1, LenIs
<1>3. ASSUME NEW t \in PoolType(A), NEW i \in Nat, q = Prepare(t, o, i), Given(p, t, o, i, args),
             <<o, i>> \notin out \cup Used(p), PoolInv(t, out \cup {<<o, i>>}),
             t.overflow = p.overflow, t.sq = p.sq, t.in_flight = p.in_flight
      PROVE  Queued(A, p, q, out, o, args)
  <2> DEFINE all == out \cup {<<o, i>>}
  <2> HIDE DEF q, all
  <2>1. i \in DOMAIN t.arg[o] /\ <<o, i>> \in all /\ PoolInv(t, all)
    BY <1>3 DEF Given, all
  <2>2. Prepared(A, t, q, all \ {<<o, i>>}, o, i)
    BY <1>3, <2>1, PrepareUses
  <2>3. all \ {<<o, i>>} = out
    BY <1>3 DEF all
  <2>4. Used(t) = Used(p)
    BY <1>3 DEF Used
  <2>5. Given(p, q, o, i, args)
    BY <1>3, <2>2 DEF Given, Prepared
  <2>6. Sound(A, p, q, out) /\ Used(q) = Used(p) \cup {<<o, i>>}
    BY <1>3, <2>2, <2>3, <2>4 DEF Prepared, Sound
  <2> QED
    BY <1>3, <2>5, <2>6 DEF Queued
<1>4. CASE p.free[o] # <<>>
  <2> DEFINE i == Back(p.free[o])
             x == PopBack(p.free[o])
             a == [p.arg[o] EXCEPT ![i] = args]
             t == [p EXCEPT !.free[o] = x, !.arg[o] = a]
  <2>1. q = Prepare(t, o, i)
    BY <1>4 DEF PoolNext
  <2>2. /\ i \in Nat /\ x \in Seq(Nat) /\ Len(x) \in Nat /\ Len(p.free[o]) = Len(x) + 1
        /\ Range(p.free[o]) = Range(x) \cup {i}
        /\ IsInjective(p.free[o]) => IsInjective(x) /\ i \notin Range(x)
    BY <1>2, <1>4, BackPopBack
  <2>3. Distinct(p.free[o], DOMAIN p.arg[o])
    BY DEF PoolInv, ListsSound, Distinct
  <2>4. i \in DOMAIN p.arg[o] /\ i \notin Range(x)
    BY <2>2, <2>3 DEF Distinct
  <2>5. a \in Seq(A) /\ DOMAIN a = DOMAIN p.arg[o] /\ a[i] = args
    BY <1>2, <2>4, SetElement
  <2>6. \A j \in DOMAIN p.arg[o] : j # i => a[j] = p.arg[o][j]
    BY <1>2
  <2> HIDE DEF i, x, a, t, q
  <2>7. /\ t.free = [p.free EXCEPT ![o] = x] /\ t.arg = [p.arg EXCEPT ![o] = a]
        /\ t.spare = p.spare /\ t.overflow = p.overflow
    BY DEF PoolType, t
  <2>8. t.sq = p.sq /\ t.in_flight = p.in_flight
    BY DEF PoolType, t
  <2>9. t \in PoolType(A)
    BY <2>2, <2>5 DEF PoolType, t
  <2>10. Given(p, t, o, i, args)
    BY <1>1, <2>2, <2>4, <2>5, <2>6, <2>7 DEF Given
  <2>11. \A o2 \in Op : DOMAIN t.arg[o2] = DOMAIN p.arg[o2]
    BY <1>1, <2>5, <2>7
  <2>12. <<o, i>> \notin out \cup Range(p.sq) /\ i \notin Range(p.overflow[o]) \cup Range(p.spare[o])
    BY SMT, <2>2, <2>4 DEF PoolInv, Lists, Present
  <2>13. <<o, i>> \notin Used(p)
    BY <2>12 DEF Used
  <2>14. ListsSound(t)
    <3>1. Distinct(x, DOMAIN p.arg[o] \cap 1..PoolSize) /\ Len(x) <= PoolSize
      BY SMT, <2>2, <2>3, RequestPoolAssumption DEF PoolInv, ListsSound, Distinct
    <3>2. \A o2 \in Op :
            /\ o2 # o => t.free[o2] = p.free[o2] /\ t.spare[o2] = p.spare[o2]
            /\ t.free[o] = x /\ t.spare[o] = p.spare[o] /\ t.overflow[o2] = p.overflow[o2]
      BY <1>1, <2>7
    <3>3. ListsSound(p)
      BY DEF PoolInv
    <3> QED
      BY <2>8, <2>11, <3>1, <3>2, <3>3 DEF ListsSound
  <2>15. ASSUME NEW o2 \in Op, NEW j \in DOMAIN p.arg[o2]
         PROVE  Lists(t, o2, j) + Present(<<o2, j>>, out \cup {<<o, i>>}) = 1
    <3>1. Lists(p, o2, j) + Present(<<o2, j>>, out) = 1
      BY DEF PoolInv
    <3>2. CASE o2 = o /\ j = i
      BY SMT, <1>1, <2>4, <2>7, <2>8, <2>12, <3>2 DEF Lists, Present
    <3>3. CASE ~(o2 = o /\ j = i)
      BY <1>1, <2>2, <2>7, <2>8, <3>1, <3>3 DEF Lists, Present
    <3> QED
      BY <3>2, <3>3
  <2>16. PoolInv(t, out \cup {<<o, i>>})
    <3>1. \A r \in out : r[1] \in Op /\ r[2] \in DOMAIN t.arg[r[1]]
      BY <2>11 DEF PoolInv
    <3>2. <<o, i>>[1] \in Op /\ <<o, i>>[2] \in DOMAIN t.arg[<<o, i>>[1]]
      BY <2>4, <2>11
    <3> QED
      BY <2>11, <2>14, <2>15, <3>1, <3>2 DEF PoolInv
  <2>17. Queued(A, p, q, out, o, args)
    BY <1>3, <2>1, <2>2, <2>7, <2>8, <2>9, <2>10, <2>12, <2>13, <2>16
  <2> QED
    BY <2>17 DEF q
<1>5. CASE p.free[o] = <<>> /\ p.spare[o] # <<>>
  <2> DEFINE i == Back(p.spare[o])
             x == PopBack(p.spare[o])
             a == [p.arg[o] EXCEPT ![i] = args]
             t == [p EXCEPT !.spare[o] = x, !.arg[o] = a]
  <2>1. q = Prepare(t, o, i)
    BY <1>5 DEF PoolNext
  <2>2. /\ i \in Nat /\ x \in Seq(Nat)
        /\ Range(p.spare[o]) = Range(x) \cup {i}
        /\ IsInjective(p.spare[o]) => IsInjective(x) /\ i \notin Range(x)
    BY <1>2, <1>5, BackPopBack
  <2>3. Distinct(p.spare[o], DOMAIN p.arg[o])
    BY DEF PoolInv, ListsSound, Distinct
  <2>4. i \in DOMAIN p.arg[o] /\ i \notin Range(x)
    BY <2>2, <2>3 DEF Distinct
  <2>5. a \in Seq(A) /\ DOMAIN a = DOMAIN p.arg[o] /\ a[i] = args
    BY <1>2, <2>4, SetElement
  <2>6. \A j \in DOMAIN p.arg[o] : j # i => a[j] = p.arg[o][j]
    BY <1>2
  <2> HIDE DEF i, x, a, t, q
  <2>7. /\ t.spare = [p.spare EXCEPT ![o] = x] /\ t.arg = [p.arg EXCEPT ![o] = a]
        /\ t.free = p.free /\ t.overflow = p.overflow
    BY DEF PoolType, t
  <2>8. t.sq = p.sq /\ t.in_flight = p.in_flight
    BY DEF PoolType, t
  <2>9. t \in PoolType(A)
    BY <2>2, <2>5 DEF PoolType, t
  <2>10. Given(p, t, o, i, args)
    BY <1>1, <2>2, <2>4, <2>5, <2>6, <2>7 DEF Given
  <2>11. \A o2 \in Op : DOMAIN t.arg[o2] = DOMAIN p.arg[o2]
    BY <1>1, <2>5, <2>7
  <2>12. <<o, i>> \notin out \cup Range(p.sq) /\ i \notin Range(p.overflow[o]) \cup Range(p.free[o])
    BY SMT, <2>2, <2>4 DEF PoolInv, Lists, Present
  <2>13. <<o, i>> \notin Used(p)
    BY <2>12 DEF Used
  <2>14. ListsSound(t)
    <3>1. Distinct(x, DOMAIN p.arg[o])
      BY <2>2, <2>3 DEF PoolInv, ListsSound, Distinct
    <3>2. \A o2 \in Op :
            /\ o2 # o => t.free[o2] = p.free[o2] /\ t.spare[o2] = p.spare[o2]
            /\ t.spare[o] = x /\ t.free[o] = p.free[o] /\ t.overflow[o2] = p.overflow[o2]
      BY <1>1, <2>7
    <3>3. ListsSound(p)
      BY DEF PoolInv
    <3> QED
      BY <2>8, <2>11, <3>1, <3>2, <3>3, ZenonT(30) DEF ListsSound
  <2>15. ASSUME NEW o2 \in Op, NEW j \in DOMAIN p.arg[o2]
         PROVE  Lists(t, o2, j) + Present(<<o2, j>>, out \cup {<<o, i>>}) = 1
    <3>1. Lists(p, o2, j) + Present(<<o2, j>>, out) = 1
      BY DEF PoolInv
    <3>2. CASE o2 = o /\ j = i
      BY SMT, <1>1, <2>4, <2>7, <2>8, <2>12, <3>2 DEF Lists, Present
    <3>3. CASE ~(o2 = o /\ j = i)
      BY <1>1, <2>2, <2>7, <2>8, <3>1, <3>3 DEF Lists, Present
    <3> QED
      BY <3>2, <3>3
  <2>16. PoolInv(t, out \cup {<<o, i>>})
    <3>1. \A r \in out : r[1] \in Op /\ r[2] \in DOMAIN t.arg[r[1]]
      BY <2>11 DEF PoolInv
    <3>2. <<o, i>>[1] \in Op /\ <<o, i>>[2] \in DOMAIN t.arg[<<o, i>>[1]]
      BY <2>4, <2>11
    <3> QED
      BY <2>11, <2>14, <2>15, <3>1, <3>2 DEF PoolInv
  <2>17. Queued(A, p, q, out, o, args)
    BY <1>3, <2>1, <2>2, <2>7, <2>8, <2>9, <2>10, <2>12, <2>13, <2>16
  <2> QED
    BY <2>17 DEF q
<1>6. CASE p.free[o] = <<>> /\ p.spare[o] = <<>>
  <2> DEFINE i == Len(p.arg[o]) + 1
             a == Append(p.arg[o], args)
             t == [p EXCEPT !.arg[o] = a]
  <2>1. q = Prepare(t, o, i)
    BY <1>6 DEF PoolNext
  <2>2. /\ i \in Nat /\ a \in Seq(A) /\ Len(a) = i /\ a[i] = args
        /\ \A j \in DOMAIN p.arg[o] : a[j] = p.arg[o][j]
    BY SMT, <1>2, AppendIs
  <2>3. DOMAIN a = DOMAIN p.arg[o] \cup {i} /\ i \notin DOMAIN p.arg[o]
    <3>1. DOMAIN a = 1..i
      BY <2>2, LenIs
    <3> QED
      BY SMTT(30), <1>2, <3>1
  <2> HIDE DEF i, a, t, q
  <2>4. t.arg = [p.arg EXCEPT ![o] = a] /\ t.free = p.free /\ t.spare = p.spare
    BY DEF PoolType, t
  <2>5. t.overflow = p.overflow /\ t.sq = p.sq /\ t.in_flight = p.in_flight
    BY DEF PoolType, t
  <2>6. t \in PoolType(A)
    BY <2>2 DEF PoolType, t
  <2>7. \A o2 \in Op : DOMAIN p.arg[o2] \subseteq DOMAIN t.arg[o2]
    BY <1>1, <2>3, <2>4
  <2>8. Given(p, t, o, i, args)
    BY <1>1, <2>2, <2>3, <2>4, <2>7 DEF Given
  <2>9. <<o, i>> \notin out \cup Range(p.sq) /\ i \notin Range(p.overflow[o])
    BY <2>2, <2>3 DEF PoolInv, ListsSound, Distinct
  <2>10. <<o, i>> \notin Used(p) /\ i \notin Range(p.free[o]) \cup Range(p.spare[o])
    BY <2>3, <2>9 DEF Used, PoolInv, ListsSound, Distinct
  <2>11. ListsSound(t)
    <3>1. \A o2 \in Op : /\ Distinct(p.free[o2], DOMAIN t.arg[o2] \cap 1..PoolSize)
                         /\ Distinct(p.spare[o2], DOMAIN t.arg[o2])
                         /\ Distinct(p.overflow[o2], DOMAIN t.arg[o2])
      BY <2>7 DEF PoolInv, ListsSound, Distinct
    <3> QED
      BY <2>4, <2>5, <2>7, <3>1 DEF PoolInv, ListsSound
  <2>12. ASSUME NEW o2 \in Op, NEW j \in DOMAIN t.arg[o2]
         PROVE  Lists(t, o2, j) + Present(<<o2, j>>, out \cup {<<o, i>>}) = 1
    <3>1. CASE o2 = o /\ j = i
      BY SMT, <2>4, <2>5, <2>9, <2>10, <3>1 DEF Lists, Present
    <3>2. CASE ~(o2 = o /\ j = i)
      <4>1. j \in DOMAIN p.arg[o2]
        BY SMT, <1>1, <2>3, <2>4, <3>2
      <4>2. Lists(p, o2, j) + Present(<<o2, j>>, out) = 1
        BY <4>1 DEF PoolInv
      <4> QED
        BY <2>4, <2>5, <3>2, <4>2 DEF Lists, Present
    <3> QED
      BY <3>1, <3>2
  <2>13. PoolInv(t, out \cup {<<o, i>>})
    <3>1. \A r \in out : r[1] \in Op /\ r[2] \in DOMAIN t.arg[r[1]]
      BY <2>8 DEF PoolInv, Given
    <3>2. <<o, i>>[1] \in Op /\ <<o, i>>[2] \in DOMAIN t.arg[<<o, i>>[1]]
      BY <2>8 DEF Given
    <3> QED
      BY <2>11, <2>12, <3>1, <3>2 DEF PoolInv
  <2>14. Queued(A, p, q, out, o, args)
    BY <1>3, <2>1, <2>2, <2>5, <2>6, <2>8, <2>9, <2>10, <2>13
  <2> QED
    BY <2>14 DEF q
<1> QED
  BY <1>4, <1>5, <1>6

Popped(A, p, q, out) == Sound(A, p, q, out) /\ q.arg = p.arg /\ Used(q) = Used(p)

\* try_pop_overflow moves a request that waits into the submission queue.
LEMMA PopUses ==
  ASSUME NEW A, NEW p \in PoolType(A), NEW out, PoolInv(p, out),
         NEW o \in Op, CanPopOverflow(p, o)
  PROVE  Popped(A, p, PopOverflow(p, o), out)
PROOF
<1> DEFINE i == Head(p.overflow[o])
           r == <<o, i>>
           x == Tail(p.overflow[o])
           y == Append(p.sq, r)
           q == PopOverflow(p, o)
<1>1. /\ p.free \in [Op -> Seq(Nat)] /\ p.spare \in [Op -> Seq(Nat)] /\ p.arg \in [Op -> Seq(A)]
      /\ p.overflow \in [Op -> Seq(Nat)] /\ p.sq \in Seq(Op \X Nat) /\ p.in_flight \in Int
  BY DEF PoolType
<1>2. p.overflow[o] \in Seq(Nat) /\ p.overflow[o] # <<>> /\ Len(p.sq) \in Nat
  BY <1>1, LenIs DEF CanPopOverflow
<1>3. /\ i \in Nat /\ x \in Seq(Nat) /\ Range(p.overflow[o]) = Range(x) \cup {i}
      /\ IsInjective(p.overflow[o]) => IsInjective(x) /\ i \notin Range(x)
  BY <1>2, PopFront
<1>4. Distinct(p.overflow[o], DOMAIN p.arg[o])
  BY DEF PoolInv, ListsSound
<1>5. i \in DOMAIN p.arg[o] /\ Distinct(x, DOMAIN p.arg[o]) /\ i \notin Range(x)
  BY <1>3, <1>4 DEF Distinct
<1>6. r \in Op \X Nat
  BY <1>3
<1>7. r \notin out \cup Range(p.sq) /\ i \notin Range(p.free[o]) \cup Range(p.spare[o])
  BY SMT, <1>3, <1>5 DEF PoolInv, Lists, Present
<1>8. /\ y \in Seq(Op \X Nat) /\ Len(y) = Len(p.sq) + 1 /\ Range(y) = Range(p.sq) \cup {r}
      /\ IsInjective(p.sq) => IsInjective(y)
  <2> HIDE DEF r
  <2> QED
    BY SMT, <1>1, <1>6, <1>7, PushBack
<1>9. q = [p EXCEPT !.overflow[o] = x, !.in_flight = p.in_flight + 1, !.sq = y]
  BY DEF PopOverflow
<1> HIDE DEF i, x, y, q
<1>10. q.arg = p.arg /\ q.free = p.free /\ q.spare = p.spare
  BY <1>9 DEF PoolType
<1>11. q.overflow = [p.overflow EXCEPT ![o] = x] /\ q.sq = y
  BY <1>9 DEF PoolType
<1>12. q.in_flight = p.in_flight + 1
  BY <1>9 DEF PoolType
<1>13. q \in PoolType(A)
  <2>1. p.in_flight + 1 \in Int
    BY SMT, <1>1
  <2> QED
    BY <1>3, <1>8, <1>9, <2>1 DEF PoolType
<1>14. ListsSound(q)
  <2>1. IsInjective(y) /\ \A z \in Range(y) : z[1] \in Op /\ z[2] \in DOMAIN p.arg[z[1]]
    BY SMT, <1>5, <1>8 DEF PoolInv, ListsSound
  <2> QED
    BY <1>1, <1>5, <1>10, <1>11, <2>1 DEF PoolInv, ListsSound
<1>15. ASSUME NEW o2 \in Op, NEW j \in DOMAIN p.arg[o2]
       PROVE  Lists(q, o2, j) + Present(<<o2, j>>, out) = 1
  <2>1. Lists(p, o2, j) + Present(<<o2, j>>, out) = 1
    BY DEF PoolInv
  <2>2. CASE o2 = o /\ j = i
    <3>1. /\ i \notin Range(q.free[o]) /\ i \notin Range(q.spare[o]) /\ i \notin Range(q.overflow[o])
          /\ <<o, i>> \in Range(q.sq) /\ <<o, i>> \notin out
      BY <1>1, <1>5, <1>7, <1>8, <1>10, <1>11
    <3> QED
      BY SMT, <2>2, <3>1 DEF Lists, Present
  <2>3. CASE ~(o2 = o /\ j = i)
    BY <1>1, <1>3, <1>8, <1>10, <1>11, <2>1, <2>3 DEF Lists, Present
  <2> QED
    BY <2>2, <2>3
<1>16. Used(q) = Used(p)
  <2>1. ASSUME NEW o2 \in Op, NEW j \in Nat
        PROVE  j \in Range(q.overflow[o2]) \/ <<o2, j>> \in Range(q.sq)
               <=> j \in Range(p.overflow[o2]) \/ <<o2, j>> \in Range(p.sq)
    <3>1. q.overflow[o] = x /\ \A k \in Op : k # o => q.overflow[k] = p.overflow[k]
      BY <1>1, <1>11
    <3>2. CASE o2 = o /\ j = i
      BY <1>3, <1>8, <1>11, <3>2
    <3>3. CASE ~(o2 = o /\ j = i)
      <4>1. <<o2, j>> # r
        BY <3>3 DEF r
      <4>2. <<o2, j>> \in Range(q.sq) <=> <<o2, j>> \in Range(p.sq)
        BY <1>8, <1>11, <4>1
      <4>3. j \in Range(q.overflow[o2]) <=> j \in Range(p.overflow[o2])
        BY <1>3, <3>1, <3>3
      <4> QED
        BY <4>2, <4>3
    <3> QED
      BY <3>2, <3>3
  <2>2. ASSUME NEW z \in Op \X Nat
        PROVE  z \in Used(q) <=> z \in Used(p)
    <3>1. z = <<z[1], z[2]>> /\ z[1] \in Op /\ z[2] \in Nat
      BY SMT
    <3> QED
      BY <2>1, <3>1 DEF Used
  <2> QED
    BY <2>2 DEF Used
<1>17. q.in_flight - Len(q.sq) = p.in_flight - Len(p.sq)
  <2>1. Len(q.sq) = Len(p.sq) + 1 /\ p.in_flight \in Int
    BY <1>1, <1>8, <1>11
  <2> DEFINE n == Len(p.sq)
             m == Len(q.sq)
  <2>2. n \in Nat /\ m = n + 1 /\ p.in_flight \in Int /\ q.in_flight = p.in_flight + 1
    BY <1>2, <1>12, <2>1
  <2> HIDE DEF n, m
  <2>3. q.in_flight - m = p.in_flight - n
    BY SMT, <2>2
  <2> QED
    BY <2>3 DEF n, m
<1>18. PoolInv(q, out)
  BY <1>10, <1>14, <1>15 DEF PoolInv
<1> QED
  BY <1>10, <1>13, <1>16, <1>17, <1>18 DEF Popped, Sound, q

Freed(A, p, q, out) ==
  /\ q \in PoolType(A) /\ PoolInv(q, out)
  /\ q.arg = p.arg /\ Used(q) = Used(p) /\ q.sq = p.sq /\ q.in_flight = p.in_flight - 1

\* free(req) puts the request into the free list it belongs to.
LEMMA FreeReturns ==
  ASSUME Laws, NEW A, NEW p \in PoolType(A), NEW out, PoolInv(p, out),
         NEW o \in Op, NEW i \in DOMAIN p.arg[o], <<o, i>> \in out
  PROVE  Freed(A, p, PoolFree(p, o, i), out \ {<<o, i>>})
PROOF
<1> DEFINE q == PoolFree(p, o, i)
<1>1. /\ p.free \in [Op -> Seq(Nat)] /\ p.spare \in [Op -> Seq(Nat)] /\ p.arg \in [Op -> Seq(A)]
      /\ p.overflow \in [Op -> Seq(Nat)] /\ p.sq \in Seq(Op \X Nat) /\ p.in_flight \in Int
  BY DEF PoolType
<1>2. p.free[o] \in Seq(Nat) /\ p.spare[o] \in Seq(Nat) /\ p.arg[o] \in Seq(A)
  BY <1>1
<1>3. i \in Nat /\ i >= 1 /\ p.in_flight - 1 \in Int
  BY SMT, <1>1, <1>2, LenIs
<1>4. /\ i \notin Range(p.free[o]) /\ i \notin Range(p.spare[o]) /\ i \notin Range(p.overflow[o])
      /\ <<o, i>> \notin Range(p.sq)
  <2>1. Lists(p, o, i) + Present(<<o, i>>, out) = 1
    BY DEF PoolInv
  <2> QED
    BY SMT, <2>1 DEF Present, Lists
<1>5. CASE i <= PoolSize
  <2> DEFINE x == Append(p.free[o], i)
  <2>1. /\ x \in Seq(Nat) /\ Range(x) = Range(p.free[o]) \cup {i}
        /\ IsInjective(p.free[o]) => IsInjective(x)
    <3> DEFINE s == p.free[o]
    <3>1. s \in Seq(Nat) /\ i \in Nat /\ i \notin Range(s)
      BY <1>2, <1>3, <1>4
    <3> HIDE DEF s
    <3>2. /\ Append(s, i) \in Seq(Nat) /\ Range(Append(s, i)) = Range(s) \cup {i}
          /\ IsInjective(s) => IsInjective(Append(s, i))
      BY SMT, <3>1, PushBack
    <3> QED
      BY <3>2 DEF s
  <2>2. q = [p EXCEPT !.free[o] = x, !.in_flight = p.in_flight - 1]
    BY <1>5 DEF PoolFree
  <2> HIDE DEF x, q
  <2>3. q.arg = p.arg /\ q.sq = p.sq /\ q.overflow = p.overflow
    BY <2>2 DEF PoolType
  <2>4. q.free = [p.free EXCEPT ![o] = x] /\ q.spare = p.spare /\ q.in_flight = p.in_flight - 1
    BY <2>2 DEF PoolType
  <2>5. q \in PoolType(A)
    BY <1>3, <2>1, <2>2 DEF PoolType
  <2>6. Distinct(x, DOMAIN p.arg[o] \cap 1..PoolSize) /\ Len(x) <= PoolSize
    <3>1. Distinct(x, DOMAIN p.arg[o] \cap 1..PoolSize)
      BY SMT, <1>3, <1>5, <2>1, RequestPoolAssumption DEF PoolInv, ListsSound, Distinct
    <3> QED
      BY <2>1, <3>1, InjectiveLength, RequestPoolAssumption DEF Distinct
  <2>7. ListsSound(q)
    BY <1>1, <2>3, <2>4, <2>6 DEF PoolInv, ListsSound
  <2>8. ASSUME NEW o2 \in Op, NEW j \in DOMAIN p.arg[o2]
        PROVE  Lists(q, o2, j) + Present(<<o2, j>>, out \ {<<o, i>>}) = 1
    <3>1. Lists(p, o2, j) + Present(<<o2, j>>, out) = 1
      BY DEF PoolInv
    <3>2. CASE o2 = o /\ j = i
      BY SMT, <1>1, <1>4, <2>1, <2>3, <2>4, <3>2 DEF Lists, Present
    <3>3. CASE ~(o2 = o /\ j = i)
      BY <1>1, <2>1, <2>3, <2>4, <3>1, <3>3 DEF Lists, Present
    <3> QED
      BY <3>2, <3>3
  <2>9. Used(q) = Used(p)
    BY <2>3 DEF Used
  <2>10. PoolInv(q, out \ {<<o, i>>})
    BY <2>3, <2>7, <2>8 DEF PoolInv
  <2> QED
    BY <2>3, <2>4, <2>5, <2>9, <2>10 DEF Freed, q
<1>6. CASE ~(i <= PoolSize)
  <2> DEFINE x == Append(p.spare[o], i)
  <2>1. /\ x \in Seq(Nat) /\ Range(x) = Range(p.spare[o]) \cup {i}
        /\ IsInjective(p.spare[o]) => IsInjective(x)
    <3> DEFINE s == p.spare[o]
    <3>1. s \in Seq(Nat) /\ i \in Nat /\ i \notin Range(s)
      BY <1>2, <1>3, <1>4
    <3> HIDE DEF s
    <3>2. /\ Append(s, i) \in Seq(Nat) /\ Range(Append(s, i)) = Range(s) \cup {i}
          /\ IsInjective(s) => IsInjective(Append(s, i))
      BY SMT, <3>1, PushBack
    <3> QED
      BY <3>2 DEF s
  <2>2. q = [p EXCEPT !.spare[o] = x, !.in_flight = p.in_flight - 1]
    BY <1>6 DEF PoolFree
  <2> HIDE DEF x, q
  <2>3. q.arg = p.arg /\ q.sq = p.sq /\ q.overflow = p.overflow
    BY <2>2 DEF PoolType
  <2>4. q.spare = [p.spare EXCEPT ![o] = x] /\ q.free = p.free /\ q.in_flight = p.in_flight - 1
    BY <2>2 DEF PoolType
  <2>5. q \in PoolType(A)
    BY <1>3, <2>1, <2>2 DEF PoolType
  <2>6. Distinct(x, DOMAIN p.arg[o])
    BY <2>1 DEF PoolInv, ListsSound, Distinct
  <2>7. ListsSound(q)
    BY <1>1, <2>3, <2>4, <2>6 DEF PoolInv, ListsSound
  <2>8. ASSUME NEW o2 \in Op, NEW j \in DOMAIN p.arg[o2]
        PROVE  Lists(q, o2, j) + Present(<<o2, j>>, out \ {<<o, i>>}) = 1
    <3>1. Lists(p, o2, j) + Present(<<o2, j>>, out) = 1
      BY DEF PoolInv
    <3>2. CASE o2 = o /\ j = i
      BY SMT, <1>1, <1>4, <2>1, <2>3, <2>4, <3>2 DEF Lists, Present
    <3>3. CASE ~(o2 = o /\ j = i)
      BY <1>1, <2>1, <2>3, <2>4, <3>1, <3>3 DEF Lists, Present
    <3> QED
      BY <3>2, <3>3
  <2>9. Used(q) = Used(p)
    BY <2>3 DEF Used
  <2>10. PoolInv(q, out \ {<<o, i>>})
    BY <2>3, <2>7, <2>8 DEF PoolInv
  <2> QED
    BY <2>3, <2>4, <2>5, <2>9, <2>10 DEF Freed, q
<1> QED
  BY <1>5, <1>6

Sent(A, p, q, out) ==
  /\ q \in PoolType(A) /\ PoolInv(q, out \cup {Head(p.sq)})
  /\ q.arg = p.arg /\ Used(q) \cup {Head(p.sq)} = Used(p)
  /\ Len(q.sq) = Len(p.sq) - 1 /\ q.in_flight = p.in_flight

\* io_uring_submit hands out the first request of the submission queue.
LEMMA SubmitUses ==
  ASSUME Laws, NEW A, NEW p \in PoolType(A), NEW out, PoolInv(p, out), p.sq # <<>>
  PROVE  /\ Sent(A, p, [p EXCEPT !.sq = Tail(@)], out)
         /\ Head(p.sq) \notin out /\ Head(p.sq) \in Op \X Nat
PROOF
<1> DEFINE q == [p EXCEPT !.sq = Tail(@)]
           e == Head(p.sq)
<1>1. p.arg \in [Op -> Seq(A)] /\ p.sq \in Seq(Op \X Nat) /\ p.in_flight \in Int
  BY DEF PoolType
<1>2. IsInjective(p.sq) /\ \A r \in Range(p.sq) : r[1] \in Op /\ r[2] \in DOMAIN p.arg[r[1]]
  BY DEF PoolInv, ListsSound
<1>3. /\ e \in Op \X Nat /\ Tail(p.sq) \in Seq(Op \X Nat) /\ Len(Tail(p.sq)) = Len(p.sq) - 1
      /\ Range(p.sq) = Range(Tail(p.sq)) \cup {e}
      /\ IsInjective(Tail(p.sq)) /\ e \notin Range(Tail(p.sq))
  BY <1>1, <1>2, PopFront
<1>4. e = <<e[1], e[2]>> /\ e[1] \in Op /\ e[2] \in DOMAIN p.arg[e[1]]
  BY SMT, <1>2, <1>3
<1>5. q \in PoolType(A)
  BY <1>3 DEF PoolType
<1>6. q.free = p.free /\ q.spare = p.spare /\ q.overflow = p.overflow /\ q.arg = p.arg
  BY DEF PoolType
<1>7. q.sq = Tail(p.sq) /\ q.in_flight = p.in_flight
  BY DEF PoolType
<1> HIDE DEF q, e
<1>8. e \notin out
  <2>1. Lists(p, e[1], e[2]) + Present(<<e[1], e[2]>>, out) = 1
    BY <1>4 DEF PoolInv
  <2>2. Present(<<e[1], e[2]>>, Range(p.sq)) = 1
    BY <1>3, <1>4 DEF Present
  <2> QED
    BY SMT, <1>4, <2>1, <2>2 DEF Lists, Present
<1>9. ASSUME NEW o \in Op, NEW i \in DOMAIN q.arg[o]
      PROVE  Lists(q, o, i) + Present(<<o, i>>, out \cup {e}) = 1
  <2>1. Lists(p, o, i) + Present(<<o, i>>, out) = 1
    BY <1>6 DEF PoolInv
  <2>2. CASE <<o, i>> = e
    <3>1. <<o, i>> \in Range(p.sq) /\ <<o, i>> \notin Range(q.sq) /\ <<o, i>> \notin out
      BY <1>3, <1>7, <1>8, <2>2
    <3> QED
      BY SMT, <1>6, <2>1, <2>2, <3>1 DEF Lists, Present
  <2>3. CASE <<o, i>> # e
    <3>1. <<o, i>> \in Range(p.sq) <=> <<o, i>> \in Range(q.sq)
      BY <1>3, <1>7, <2>3
    <3>2. <<o, i>> \in out \cup {e} <=> <<o, i>> \in out
      BY <2>3
    <3> QED
      BY <1>6, <2>1, <3>1, <3>2 DEF Lists, Present
  <2> QED
    BY <2>2, <2>3
<1>10. ListsSound(q)
  BY <1>2, <1>3, <1>6, <1>7 DEF PoolInv, ListsSound
<1>11. PoolInv(q, out \cup {e})
  BY <1>4, <1>6, <1>9, <1>10 DEF PoolInv
<1>12. Used(q) \cup {e} = Used(p)
  BY <1>3, <1>6, <1>7 DEF Used
<1> QED
  BY <1>3, <1>5, <1>6, <1>7, <1>8, <1>11, <1>12 DEF Sent, q, e

\* A pool is constructed with all its objects free.
LEMMA NewPoolsSound ==
  ASSUME NEW A, <<>> \in A
  PROVE  /\ NewPools \in PoolType(A) /\ PoolInv(NewPools, {}) /\ Used(NewPools) = {}
         /\ NewPools.in_flight = 0 /\ NewPools.sq = <<>>
PROOF
<1> DEFINE ids == [i \in 1..PoolSize |-> i]
           unused == [i \in 1..PoolSize |-> <<>>]
           none == <<>>
           q == NewPools
<1>1. ids \in Seq(Nat) /\ DOMAIN ids = 1..PoolSize /\ Len(ids) = PoolSize
  BY SMT, RequestPoolAssumption, FunctionSeq
<1>2. unused \in Seq(A) /\ DOMAIN unused = 1..PoolSize
  BY RequestPoolAssumption, FunctionSeq
<1>3. IsInjective(ids) /\ Range(ids) = 1..PoolSize
  BY <1>1 DEF IsInjective, Range
<1>4. IsInjective(none) /\ Range(none) = {} /\ none \in Seq(Nat) /\ none \in Seq(Op \X Nat)
  BY SMT, NoElements DEF IsInjective, Range
<1>5. q = [free |-> [o \in Op |-> ids], spare |-> [o \in Op |-> none],
           arg |-> [o \in Op |-> unused], overflow |-> [o \in Op |-> none],
           sq |-> none, in_flight |-> 0]
  BY DEF NewPools
<1> HIDE DEF ids, unused, none, q
<1>6. /\ q.free = [o \in Op |-> ids] /\ q.spare = [o \in Op |-> none]
      /\ q.arg = [o \in Op |-> unused] /\ q.overflow = [o \in Op |-> none]
  BY <1>5
<1>7. q.sq = none /\ q.in_flight = 0
  BY <1>5
<1>8. q \in PoolType(A)
  BY SMT, <1>1, <1>2, <1>4, <1>5 DEF PoolType
<1>9. ListsSound(q)
  BY SMT, <1>1, <1>2, <1>3, <1>4, <1>6, <1>7, RequestPoolAssumption DEF ListsSound, Distinct
<1>10. \A o \in Op : \A i \in DOMAIN q.arg[o] : Lists(q, o, i) + Present(<<o, i>>, {}) = 1
  BY SMT, <1>2, <1>3, <1>4, <1>6, <1>7 DEF Lists, Present
<1>11. Used(q) = {}
  BY <1>4, <1>6, <1>7 DEF Used
<1> QED
  BY <1>7, <1>8, <1>9, <1>10, <1>11 DEF PoolInv, q, none

-----------------------------------------------------------------------------
(* The requests in use.                                                    *)

\* A request that moves between the overflow, the submission queue and the ring is in use.
LEMMA SameUse ==
  ASSUME NEW A, NEW p \in PoolType(A), NEW q \in PoolType(A), NEW ring, NEW sent, NEW o \in Op,
         q.arg = p.arg, Used(q) \cup sent = Used(p) \cup ring
  PROVE  InUse(q, sent, o) = InUse(p, ring, o)
PROOF
<1>1. ASSUME NEW x
      PROVE  x \in InUse(q, sent, o) <=> x \in InUse(p, ring, o)
  <2>1. CASE x[1] \in DOMAIN p.arg[o] /\ x = <<x[1], p.arg[o][x[1]]>>
    <3>1. x \in InUse(q, sent, o) <=> <<o, x[1]>> \in Used(q) \/ <<o, x[1]>> \in sent
      BY <2>1, UsedOrRing
    <3>2. x \in InUse(p, ring, o) <=> <<o, x[1]>> \in Used(p) \/ <<o, x[1]>> \in ring
      BY <2>1, UsedOrRing
    <3> QED
      BY <3>1, <3>2
  <2>2. CASE ~(x[1] \in DOMAIN p.arg[o] /\ x = <<x[1], p.arg[o][x[1]]>>)
    BY SMT, <2>2, InUseHasArg
  <2> QED
    BY <2>1, <2>2
<1> QED
  BY <1>1

\* With pools q, request i of kind o has left the ring and is in use no more.
Leaves(p, q, ring, o, i) ==
  /\ InUse(q, ring \ {<<o, i>>}, o) = InUse(p, ring, o) \ {<<i, p.arg[o][i]>>}
  /\ \A k \in Op : k # o => InUse(q, ring \ {<<o, i>>}, k) = InUse(p, ring, k)

\* A request that was handed out and leaves the ring is in none of the lists of its pool.
LEMMA LeaveRing ==
  ASSUME NEW A, NEW p \in PoolType(A), NEW out, PoolInv(p, out),
         NEW ring \in SUBSET out, NEW o \in Op, NEW i \in DOMAIN p.arg[o], <<o, i>> \in out
  PROVE  Leaves(p, p, ring, o, i)
PROOF
<1>1. <<o, i>> \notin Used(p)
  <2>1. Lists(p, o, i) + Present(<<o, i>>, out) = 1
    BY DEF PoolInv
  <2>2. i \notin Range(p.overflow[o]) /\ <<o, i>> \notin Range(p.sq)
    BY SMT, <2>1 DEF Lists, Present
  <2> QED
    BY <2>2 DEF Used
<1>2. ASSUME NEW k \in Op, NEW x
      PROVE  x \in InUse(p, ring \ {<<o, i>>}, k) <=>
               x \in InUse(p, ring, k) /\ ~(k = o /\ x = <<i, p.arg[o][i]>>)
  <2> DEFINE left == ring \ {<<o, i>>}
             j == x[1]
  <2> HIDE DEF left
  <2>1. CASE j \in DOMAIN p.arg[k] /\ x = <<j, p.arg[k][j]>>
    <3>1. x \in InUse(p, ring, k) <=> <<k, j>> \in Used(p) \/ <<k, j>> \in ring
      BY <2>1, UsedOrRing
    <3>2. x \in InUse(p, left, k) <=> <<k, j>> \in Used(p) \/ <<k, j>> \in left
      BY <2>1, UsedOrRing
    <3>3. <<k, j>> = <<o, i>> <=> k = o /\ x = <<i, p.arg[o][i]>>
      BY SMT, <2>1
    <3> QED
      BY <1>1, <3>1, <3>2, <3>3 DEF left
  <2>2. CASE ~(j \in DOMAIN p.arg[k] /\ x = <<j, p.arg[k][j]>>)
    <3>1. x \notin InUse(p, ring, k) /\ x \notin InUse(p, left, k)
      BY SMT, <2>2, InUseHasArg
    <3> QED
      BY <3>1 DEF left
  <2> QED
    BY <2>1, <2>2
<1>3. InUse(p, ring \ {<<o, i>>}, o) = InUse(p, ring, o) \ {<<i, p.arg[o][i]>>}
  BY <1>2
<1>4. \A k \in Op : k # o => InUse(p, ring \ {<<o, i>>}, k) = InUse(p, ring, k)
  BY <1>2
<1> QED
  BY <1>3, <1>4 DEF Leaves

\* What PoolNext adds to the requests in use.
Adds(p, q, ring, out, o, args) ==
  \E i \in Nat :
    /\ <<o, i>> \notin out /\ \A r \in InUse(p, ring, o) : r[1] # i
    /\ InUse(q, ring, o) = InUse(p, ring, o) \cup {<<i, args>>}
    /\ \A k \in Op : k # o => InUse(q, ring, k) = InUse(p, ring, k)
    /\ \A r \in out : q.arg[r[1]][r[2]] = p.arg[r[1]][r[2]]

\* next adds one request to those in use.
LEMMA NextAdds ==
  ASSUME NEW A, NEW p \in PoolType(A), NEW out \in SUBSET (Op \X Nat), PoolInv(p, out),
         NEW ring \in SUBSET out, NEW o \in Op, NEW args \in A
  PROVE  /\ Sound(A, p, PoolNext(p, o, args), out)
         /\ Adds(p, PoolNext(p, o, args), ring, out, o, args)
PROOF
<1> DEFINE q == PoolNext(p, o, args)
<1>1. Queued(A, p, q, out, o, args)
  BY NextUses
<1> HIDE DEF q
<1>2. Sound(A, p, q, out) /\ q \in PoolType(A)
  BY <1>1 DEF Queued, Sound
<1>3. PICK i \in Nat : /\ Given(p, q, o, i, args) /\ <<o, i>> \notin out \cup Used(p)
                       /\ Used(q) = Used(p) \cup {<<o, i>>}
  BY <1>1 DEF Queued
<1>4. i \in DOMAIN q.arg[o] /\ q.arg[o][i] = args
  BY <1>3 DEF Given
<1>5. ASSUME NEW k \in Op, NEW j \in DOMAIN p.arg[k]
      PROVE  j \in DOMAIN q.arg[k] /\ (<<k, j>> # <<o, i>> => q.arg[k][j] = p.arg[k][j])
  BY <1>3 DEF Given
<1>6. ASSUME NEW k \in Op, NEW j \in DOMAIN q.arg[k], <<k, j>> \in Used(p) \cup ring
      PROVE  j \in DOMAIN p.arg[k]
  <2>1. \A r \in Used(p) \cup out : r[1] \in Op /\ r[2] \in DOMAIN p.arg[r[1]]
    BY DEF Used, PoolInv, ListsSound, Distinct
  <2> QED
    BY SMT, <1>6, <2>1
<1>7. ASSUME NEW r \in InUse(p, ring, o)
      PROVE  r[1] # i
  <2>1. r[1] \in DOMAIN p.arg[o] /\ r = <<r[1], p.arg[o][r[1]]>>
    BY SMT, InUseHasArg
  <2>2. <<o, r[1]>> \in Used(p) \/ <<o, r[1]>> \in ring
    BY <2>1, UsedOrRing
  <2> QED
    BY <1>3, <2>2
<1>8. ASSUME NEW k \in Op, NEW x
      PROVE  x \in InUse(q, ring, k) <=> x \in InUse(p, ring, k) \/ (k = o /\ x = <<i, args>>)
  <2> DEFINE j == x[1]
  <2>1. ASSUME x \in InUse(q, ring, k)
        PROVE  x \in InUse(p, ring, k) \/ (k = o /\ x = <<i, args>>)
    <3>1. j \in DOMAIN q.arg[k] /\ x = <<j, q.arg[k][j]>>
      BY SMT, <2>1, InUseHasArg
    <3>2. <<k, j>> \in Used(q) \/ <<k, j>> \in ring
      BY <1>2, <2>1, <3>1, UsedOrRing
    <3>3. CASE <<k, j>> = <<o, i>>
      BY <1>4, <3>1, <3>3
    <3>4. CASE <<k, j>> # <<o, i>>
      <4>1. <<k, j>> \in Used(p) \/ <<k, j>> \in ring
        BY <1>3, <3>2, <3>4
      <4>2. j \in DOMAIN p.arg[k]
        BY <1>6, <3>1, <4>1
      <4>3. x = <<j, p.arg[k][j]>>
        BY <1>5, <3>1, <3>4, <4>2
      <4> QED
        BY <4>1, <4>2, <4>3, UsedOrRing
    <3> QED
      BY <3>3, <3>4
  <2>2. ASSUME x \in InUse(p, ring, k)
        PROVE  x \in InUse(q, ring, k)
    <3>1. j \in DOMAIN p.arg[k] /\ x = <<j, p.arg[k][j]>>
      BY SMT, <2>2, InUseHasArg
    <3>2. <<k, j>> \in Used(p) \/ <<k, j>> \in ring
      BY <2>2, <3>1, UsedOrRing
    <3>3. <<k, j>> # <<o, i>> /\ (<<k, j>> \in Used(q) \/ <<k, j>> \in ring)
      BY <1>3, <3>2
    <3>4. j \in DOMAIN q.arg[k] /\ x = <<j, q.arg[k][j]>>
      BY <1>5, <3>1, <3>3
    <3> QED
      BY <1>2, <3>3, <3>4, UsedOrRing
  <2>3. <<i, args>> \in InUse(q, ring, o)
    BY <1>2, <1>3, <1>4, UsedOrRing
  <2> QED
    BY <2>1, <2>2, <2>3
<1>9. \A r \in out : q.arg[r[1]][r[2]] = p.arg[r[1]][r[2]]
  <2>1. ASSUME NEW r \in out
        PROVE  q.arg[r[1]][r[2]] = p.arg[r[1]][r[2]]
    <3>1. r[1] \in Op /\ r[2] \in DOMAIN p.arg[r[1]]
      BY DEF PoolInv
    <3>2. <<r[1], r[2]>> # <<o, i>>
      BY SMT, <1>3
    <3> QED
      BY <1>5, <3>1, <3>2
  <2> QED
    BY <2>1
<1> QED
  BY <1>2, <1>3, <1>7, <1>8, <1>9 DEF Adds, q

\* The requests in use stay so: q is p after an operation, ring and sent are the requests
\* submitted before and after it.
Keeps(p, q, ring, sent) ==
  \A o \in Op : InUse(q, sent, o) = InUse(p, ring, o)

\* pop_overflow gives a waiting request an entry: it was in use and stays so.
LEMMA PopKeeps ==
  ASSUME NEW A, NEW p \in PoolType(A), NEW out, PoolInv(p, out), NEW ring,
         NEW o \in Op, CanPopOverflow(p, o)
  PROVE  /\ Sound(A, p, PopOverflow(p, o), out) /\ PopOverflow(p, o).arg = p.arg
         /\ Keeps(p, PopOverflow(p, o), ring, ring)
PROOF
<1> DEFINE q == PopOverflow(p, o)
<1>1. Popped(A, p, q, out)
  BY PopUses
<1> HIDE DEF q
<1>2. Sound(A, p, q, out) /\ q.arg = p.arg /\ Used(q) = Used(p) /\ q \in PoolType(A)
  BY <1>1 DEF Popped, Sound
<1>3. ASSUME NEW k \in Op
      PROVE  InUse(q, ring, k) = InUse(p, ring, k)
  BY SMT, <1>2, SameUse
<1> QED
  BY <1>2, <1>3 DEF Keeps, q

\* What PoolFree takes from the requests in use.
Takes(A, p, q, ring, out, o, i) ==
  /\ q \in PoolType(A) /\ PoolInv(q, out \ {<<o, i>>}) /\ q.arg = p.arg
  /\ q.sq = p.sq /\ q.in_flight = p.in_flight - 1
  /\ Leaves(p, q, ring, o, i)

\* free takes one request from those in use.
LEMMA FreeTakes ==
  ASSUME Laws, NEW A, NEW p \in PoolType(A), NEW out, PoolInv(p, out), NEW ring \in SUBSET out,
         NEW o \in Op, NEW i \in DOMAIN p.arg[o], <<o, i>> \in out
  PROVE  Takes(A, p, PoolFree(p, o, i), ring, out, o, i)
PROOF
<1> DEFINE q == PoolFree(p, o, i)
           left == ring \ {<<o, i>>}
<1>1. Freed(A, p, q, out \ {<<o, i>>})
  BY FreeReturns
<1>2. Leaves(p, p, ring, o, i)
  BY LeaveRing
<1> HIDE DEF q
<1>3. q.arg = p.arg /\ Used(q) = Used(p) /\ q \in PoolType(A)
  BY <1>1 DEF Freed
<1>4. ASSUME NEW k \in Op
      PROVE  InUse(q, left, k) = InUse(p, left, k)
  <2> HIDE DEF left
  <2> QED
    BY SMT, <1>3, SameUse
<1>5. Leaves(p, q, ring, o, i)
  BY <1>2, <1>4 DEF Leaves
<1>6. Takes(A, p, q, ring, out, o, i)
  BY <1>1, <1>5 DEF Freed, Takes
<1> QED
  BY <1>6 DEF q

\* io_uring_submit moves an entry to the ring: its request stays in use.
LEMMA SubmitKeeps ==
  ASSUME Laws, NEW A, NEW p \in PoolType(A), NEW out, PoolInv(p, out), p.sq # <<>>, NEW ring
  PROVE  LET q == [p EXCEPT !.sq = Tail(@)] IN
           Sent(A, p, q, out) /\ Keeps(p, q, ring, ring \cup {Head(p.sq)})
PROOF
<1> DEFINE q == [p EXCEPT !.sq = Tail(@)]
           sent == ring \cup {Head(p.sq)}
<1>1. Sent(A, p, q, out)
  BY SubmitUses
<1> HIDE DEF q
<1>2. q.arg = p.arg /\ Used(q) \cup {Head(p.sq)} = Used(p) /\ q \in PoolType(A)
  BY <1>1 DEF Sent
<1>3. Used(q) \cup sent = Used(p) \cup ring
  BY <1>2
<1> HIDE DEF sent
<1>4. ASSUME NEW k \in Op
      PROVE  InUse(q, sent, k) = InUse(p, ring, k)
  BY SMT, <1>2, <1>3, SameUse
<1> QED
  BY <1>1, <1>4 DEF Keeps, q, sent

\* pump corrects in_flight_ alone.
LEMMA Recount ==
  ASSUME NEW A, NEW p \in PoolType(A), NEW out, PoolInv(p, out), NEW n \in Int
  PROVE  LET q == [p EXCEPT !.in_flight = n] IN
           /\ q \in PoolType(A) /\ PoolInv(q, out)
           /\ q.arg = p.arg /\ q.sq = p.sq /\ q.in_flight = n
           /\ \A ring, o : InUse(q, ring, o) = InUse(p, ring, o)
PROOF
<1> DEFINE q == [p EXCEPT !.in_flight = n]
<1>1. q \in PoolType(A)
  BY DEF PoolType
<1>2. q.free = p.free /\ q.spare = p.spare /\ q.overflow = p.overflow
  BY DEF PoolType
<1>3. q.arg = p.arg /\ q.sq = p.sq /\ q.in_flight = n
  BY DEF PoolType
<1> HIDE DEF q
<1>4. PoolInv(q, out)
  BY <1>2, <1>3 DEF PoolInv, ListsSound, Lists
<1>5. \A ring, o : InUse(q, ring, o) = InUse(p, ring, o)
  BY <1>2, <1>3 DEF InUse
<1> QED
  BY <1>1, <1>3, <1>4, <1>5 DEF q

-----------------------------------------------------------------------------
(* The requests are conserved and counted.                                 *)

\* A completion the kernel adds.
LEMMA ReqsPush ==
  ASSUME NEW S, NEW q \in Seq(S), NEW c \in S, Once(q), c.req \notin Reqs(q)
  PROVE  /\ Append(q, c) \in Seq(S) /\ Len(Append(q, c)) = Len(q) + 1 /\ Len(q) \in Nat
         /\ Reqs(Append(q, c)) = Reqs(q) \cup {c.req} /\ Once(Append(q, c))
PROOF
<1>1. /\ Append(q, c) \in Seq(S) /\ Len(Append(q, c)) = Len(q) + 1 /\ Len(q) \in Nat
      /\ Range(Append(q, c)) = Range(q) \cup {c}
  BY ZenonT(30), PushBack
<1>2. Reqs(Append(q, c)) = Reqs(q) \cup {c.req}
  BY <1>1 DEF Reqs
<1>3. /\ DOMAIN q = 1..Len(q) /\ DOMAIN Append(q, c) = 1..Len(q) + 1
      /\ \A k \in 1..Len(q) : Append(q, c)[k] = q[k] /\ q[k].req # c.req
      /\ Append(q, c)[Len(q) + 1] = c
  BY SMT, <1>1, AppendIs, LenIs DEF Reqs, Range
<1>4. \A k \in 1..Len(q) + 1 : k \in 1..Len(q) \/ k = Len(q) + 1
  BY SMT, <1>1
<1>5. Once(Append(q, c))
  BY <1>3, <1>4 DEF Once
<1> QED
  BY <1>1, <1>2, <1>5

\* A step that changes the pools alone, as next and try_pop_overflow do.
LEMMA SoundRequests ==
  ASSUME Laws, RInv, UNCHANGED <<kernel, cq, read_free_queue, returned, held, lost>>,
         handed' \subseteq handed, Sound(Arg, pools, pools', Out)
  PROVE  RInv' /\ Ring' = Ring /\ Completed' = Completed
PROOF
<1>1. /\ kernel' = kernel /\ cq' = cq /\ held' = held /\ lost' = lost
      /\ read_free_queue' = read_free_queue /\ returned' = returned
  OBVIOUS
<1>2. Completed' = Completed /\ Ring' = Ring /\ Out' = Out
  BY <1>1 DEF Completed, Ring, Out
<1>3. \A r : Places(r)' = Places(r)
  BY <1>1, <1>2 DEF Places
<1>4. RequestsConserved' /\ RequestTypes' /\ HandedInv'
  BY <1>1, <1>2, <1>3 DEF RInv, RequestsConserved, RequestTypes, HandedInv, Sound
<1>5. InFlightExact'
  <2>1. pools'.in_flight - Len(pools'.sq) = pools.in_flight - Len(pools.sq)
    BY DEF Sound
  <2>2. pools'.sq \in Seq(Op \X Nat) /\ pools'.in_flight \in Int
    BY DEF Sound, PoolType
  <2>3. Len(pools'.sq) \in Nat
    BY <2>2, LenIs
  <2>4. pools.in_flight = Len(pools.sq) + Cardinality(kernel) + Len(cq) + Cardinality(lost)
    BY DEF RInv, InFlightExact
  <2> DEFINE f == pools.in_flight
             g == pools'.in_flight
             s == Len(pools.sq)
             t == Len(pools'.sq)
             k == Cardinality(kernel)
             c == Len(cq)
             l == Cardinality(lost)
  <2>5. f \in Int /\ g \in Int /\ s \in Nat /\ t \in Nat /\ k \in Nat /\ c \in Nat /\ l \in Nat
    BY <2>2, <2>3, RequestFacts
  <2>6. g - t = f - s /\ f = s + k + c + l
    BY <2>1, <2>4
  <2> HIDE DEF f, g, s, t, k, c, l
  <2>7. g = t + k + c + l
    BY SMT, <2>5, <2>6
  <2> QED
    BY <1>1, <2>7 DEF InFlightExact, f, g, s, t, k, c, l
<1> QED
  BY <1>2, <1>4, <1>5 DEF RInv

\* The kernel serves a request.
LEMMA CompleteRequests ==
  ASSUME Laws, RInv, NEW o \in Op, NEW i \in Nat, <<o, i>> \in kernel, NEW res \in Int,
         kernel' = kernel \ {<<o, i>>}, cq' = Append(cq, [req |-> <<o, i>>, res |-> res]),
         UNCHANGED <<pools, workVars>>
  PROVE  RInv' /\ Kept /\ Completed' = Completed \cup {<<o, i>>}
PROOF
<1> DEFINE r == <<o, i>>
           c == [req |-> r, res |-> res]
           S == [req : Op \X Nat, res : Int]
<1>1. /\ pools' = pools /\ held' = held /\ lost' = lost /\ handed' = handed
      /\ read_free_queue' = read_free_queue /\ returned' = returned
  BY DEF workVars
<1>2. Places(r) = 1 /\ r \in Op \X Nat
  BY DEF RInv, RequestsConserved, Out, Ring
<1>3. r \notin Completed /\ r \notin Buffers(held) /\ r \notin Buffers(lost)
      /\ r \notin Buffers(Range(read_free_queue)) /\ r \notin Buffers(Range(returned))
  BY SMT, <1>2 DEF Places, Present
<1>4. cq \in Seq(S) /\ c \in S /\ c.req = r
  BY <1>2 DEF RInv, RequestTypes
<1>5. Completed = Reqs(cq) /\ Once(cq)
  BY RequestFacts
<1> HIDE DEF r, c, S
<1>6. cq' = Append(cq, c) /\ kernel' = kernel \ {r} /\ r \in kernel
  BY DEF c, r
<1>7. /\ cq' \in Seq(S) /\ Len(cq') = Len(cq) + 1
      /\ Reqs(cq') = Completed \cup {r} /\ Once(cq')
  BY <1>3, <1>4, <1>5, <1>6, ReqsPush, SMTT(30)
<1>8. Completed' = Completed \cup {r}
  BY <1>7 DEF Completed, Reqs
<1>9. Ring' = Ring /\ Out' = Out
  BY <1>1, <1>6, <1>8 DEF Ring, Out
<1>10. IsFiniteSet(kernel') /\ Cardinality(kernel') = Cardinality(kernel) - 1
  <2>1. IsFiniteSet(kernel)
    BY DEF RInv, RequestTypes
  <2>2. IsFiniteSet(kernel \ {r}) /\ Cardinality(kernel \ {r}) = Cardinality(kernel) - 1
    BY <1>6, <2>1, RemoveElement
  <2> QED
    BY <1>6, <2>2
<1>11. RequestTypes' /\ HandedInv'
  BY <1>1, <1>6, <1>7, <1>10 DEF RInv, RequestTypes, HandedInv, S
<1>12. ASSUME NEW s \in Out
       PROVE  Places(s)' = 1
  <2>1. Places(s) = 1
    BY DEF RInv, RequestsConserved
  <2>2. CASE s = r
    BY SMT, <1>1, <1>3, <1>6, <1>8, <2>2 DEF Places, Present
  <2>3. CASE s # r
    BY <1>1, <1>6, <1>8, <2>1, <2>3 DEF Places, Present
  <2> QED
    BY <2>2, <2>3
<1>13. RequestsConserved'
  BY <1>1, <1>7, <1>9, <1>12 DEF RInv, RequestsConserved, Once
<1>14. InFlightExact'
  <2>1. pools.in_flight = Len(pools.sq) + Cardinality(kernel) + Len(cq) + Cardinality(lost)
    BY DEF RInv, InFlightExact
  <2> DEFINE f == pools.in_flight
             n == Len(pools.sq)
             k == Cardinality(kernel)
             k2 == Cardinality(kernel')
             q == Len(cq)
             q2 == Len(cq')
             l == Cardinality(lost)
  <2>2. f \in Int /\ n \in Nat /\ k \in Nat /\ q \in Nat /\ l \in Nat
    BY RequestFacts
  <2>3. f = n + k + q + l /\ k2 = k - 1 /\ q2 = q + 1
    BY <1>7, <1>10, <2>1
  <2> HIDE DEF f, n, k, k2, q, q2, l
  <2>4. f = n + k2 + q2 + l
    BY SMT, <2>2, <2>3
  <2> QED
    BY <1>1, <2>4 DEF InFlightExact, f, n, k, k2, q, q2, l
<1>15. Kept
  BY <1>1, <1>9 DEF Kept, Active, Readers, Unfinished
<1> QED
  BY <1>8, <1>11, <1>13, <1>14, <1>15 DEF RInv, r

\* pump sees a completion and frees its request, having queued others.
LEMMA ReapFrees ==
  ASSUME Laws, RInv, NEW o \in Op, NEW i \in Nat, NEW res, Pops(o, i, res), UNCHANGED <<kernel, workVars>>,
         NEW q, Sound(Arg, pools, q, Out), pools' = PoolFree(q, o, i)
  PROVE  /\ RInv' /\ Completed' = Completed \ {<<o, i>>} /\ pools'.arg = q.arg
         /\ Active(o)' = InUse(q, Ring, o) \ {<<i, q.arg[o][i]>>}
         /\ \A k \in Op : k # o => Active(k)' = InUse(q, Ring, k)
PROOF
<1> DEFINE r == <<o, i>>
<1>1. /\ kernel' = kernel /\ held' = held /\ lost' = lost /\ handed' = handed
      /\ read_free_queue' = read_free_queue /\ returned' = returned
  BY DEF workVars
<1>2. /\ cq' \in Seq([req : Op \X Nat, res : Int]) /\ Len(cq') = Len(cq) - 1 /\ Once(cq')
      /\ Completed' = Completed \ {r} /\ Ring' = Ring \ {r}
      /\ r \in Out /\ r \notin kernel /\ r \notin Buffers(held) /\ r \notin Buffers(lost)
      /\ r \notin Buffers(Range(read_free_queue)) /\ r \notin Buffers(Range(returned))
  BY <1>1, SeenRequest
<1>3. q \in PoolType(Arg) /\ PoolInv(q, Out) /\ r[1] = o /\ r[2] = i
  BY DEF Sound
<1>4. i \in DOMAIN q.arg[o]
  BY <1>2, <1>3 DEF PoolInv
<1>5. Ring \in SUBSET Out
  BY RequestFacts
<1>6. /\ pools' \in PoolType(Arg) /\ PoolInv(pools', Out \ {r}) /\ pools'.arg = q.arg
      /\ pools'.sq = q.sq /\ pools'.in_flight = q.in_flight - 1
      /\ InUse(pools', Ring \ {r}, o) = InUse(q, Ring, o) \ {<<i, q.arg[o][i]>>}
      /\ \A k \in Op : k # o => InUse(pools', Ring \ {r}, k) = InUse(q, Ring, k)
  <2>1. Takes(Arg, q, pools', Ring, Out, o, i)
    BY <1>2, <1>3, <1>4, <1>5, FreeTakes
  <2> QED
    BY <2>1 DEF Takes, Leaves
<1> HIDE DEF r
<1>7. Out' = Out \ {r}
  <2>1. Buffers(held \cup Range(read_free_queue) \cup Range(returned) \cup lost)
        = Buffers(held) \cup Buffers(Range(read_free_queue)) \cup Buffers(Range(returned)) \cup Buffers(lost)
    BY DEF Buffers
  <2> QED
    BY <1>1, <1>2, <2>1 DEF Out
<1>8. ASSUME NEW s \in Out \ {r}
      PROVE  Places(s)' = 1
  <2>1. Places(s) = 1
    BY DEF RInv, RequestsConserved
  <2>2. s \in Completed' <=> s \in Completed
    BY <1>2
  <2> QED
    BY <1>1, <2>1, <2>2 DEF Places, Present
<1>9. RequestsConserved'
  BY <1>1, <1>2, <1>6, <1>7, <1>8 DEF RInv, RequestsConserved, Once
<1>10. RequestTypes' /\ HandedInv'
  BY <1>1, <1>2, <1>6 DEF RInv, RequestTypes, HandedInv
<1>11. InFlightExact'
  <2> DEFINE f == pools.in_flight
             n == Len(pools.sq)
             g == q.in_flight
             m == Len(q.sq)
             k == Cardinality(kernel)
             c == Len(cq)
             c2 == Len(cq')
             l == Cardinality(lost)
  <2>1. q.in_flight \in Int /\ q.sq \in Seq(Op \X Nat)
    BY <1>3 DEF PoolType
  <2>2. f \in Int /\ n \in Nat /\ g \in Int /\ m \in Nat /\ k \in Nat /\ c \in Nat /\ l \in Nat
    BY <2>1, RequestFacts, LenIs
  <2>3. f = n + k + c + l /\ c2 = c - 1 /\ g - m = f - n
    BY <1>2 DEF RInv, InFlightExact, Sound
  <2> HIDE DEF f, n, g, m, k, c, c2, l
  <2>4. g - 1 = m + k + c2 + l
    BY SMT, <2>2, <2>3
  <2> QED
    BY <1>1, <1>6, <2>4 DEF InFlightExact, g, m, k, c2, l
<1>12. /\ Active(o)' = InUse(q, Ring, o) \ {<<i, q.arg[o][i]>>}
       /\ \A k \in Op : k # o => Active(k)' = InUse(q, Ring, k)
  BY <1>2, <1>6 DEF Active
<1> QED
  BY <1>2, <1>6, <1>9, <1>10, <1>11, <1>12 DEF RInv, r

\* The pools with one request less in flight.
Lowered(p) == p.in_flight = pools.in_flight - 1 /\ p.sq = pools.sq

\* pump sees a completed read and leaves its buffer to a worker.
LEMMA ReapHolds ==
  ASSUME Laws, RInv, NEW i \in Nat, NEW res, Pops("read", i, res), kernel' = kernel,
         held' = held \cup {i}, handed' = {i}, UNCHANGED <<read_free_queue, returned, lost>>,
         NEW low, Lowered(low), Sound(Arg, low, pools', Out)
  PROVE  RInv' /\ Completed' = Completed \ {<<"read", i>>} /\ Ring' = Ring \ {<<"read", i>>}
PROOF
<1> DEFINE r == <<"read", i>>
<1>1. lost' = lost /\ read_free_queue' = read_free_queue /\ returned' = returned /\ "read" \in Op
  BY DEF Op
<1>2. /\ cq' \in Seq([req : Op \X Nat, res : Int]) /\ Len(cq') = Len(cq) - 1 /\ Once(cq')
      /\ Completed' = Completed \ {r} /\ Ring' = Ring \ {r}
      /\ r \in Completed /\ r \notin kernel /\ r \notin Buffers(held) /\ r \notin Buffers(lost)
      /\ r \notin Buffers(Range(read_free_queue)) /\ r \notin Buffers(Range(returned))
  BY <1>1, SeenRequest
<1>3. Buffers(held') = Buffers(held) \cup {r}
  BY SMT DEF Buffers
<1>4. pools' \in PoolType(Arg) /\ PoolInv(pools', Out)
  BY DEF Sound
<1> HIDE DEF r
<1>5. Out' = Out
  <2>1. Out = kernel \cup Completed \cup Buffers(held) \cup Buffers(Range(read_free_queue))
              \cup Buffers(Range(returned)) \cup Buffers(lost)
    BY DEF Out, Ring, Buffers
  <2>2. Out' = kernel' \cup Completed' \cup Buffers(held') \cup Buffers(Range(read_free_queue'))
               \cup Buffers(Range(returned')) \cup Buffers(lost')
    BY DEF Out, Ring, Buffers
  <2> QED
    BY <1>1, <1>2, <1>3, <2>1, <2>2
<1>6. ASSUME NEW s \in Out
      PROVE  Places(s)' = 1
  <2>1. Places(s) = 1
    BY DEF RInv, RequestsConserved
  <2>2. CASE s = r
    <3>1. /\ r \notin kernel' /\ r \notin Completed' /\ r \in Buffers(held') /\ r \notin Buffers(lost')
          /\ r \notin Buffers(Range(read_free_queue')) /\ r \notin Buffers(Range(returned'))
      BY <1>1, <1>2, <1>3
    <3> QED
      BY SMT, <2>2, <3>1 DEF Places, Present
  <2>3. CASE s # r
    BY <1>1, <1>2, <1>3, <2>1, <2>3 DEF Places, Present
  <2> QED
    BY <2>2, <2>3
<1>7. RequestsConserved'
  BY <1>1, <1>2, <1>4, <1>5, <1>6 DEF RInv, RequestsConserved, Once
<1>8. RequestTypes' /\ HandedInv'
  BY <1>1, <1>2, <1>4 DEF RInv, RequestTypes, HandedInv
<1>9. InFlightExact'
  <2> DEFINE f == pools.in_flight
             n == Len(pools.sq)
             g == pools'.in_flight
             m == Len(pools'.sq)
             k == Cardinality(kernel)
             c == Len(cq)
             c2 == Len(cq')
             l == Cardinality(lost)
  <2>1. pools'.in_flight \in Int /\ pools'.sq \in Seq(Op \X Nat)
    BY <1>4 DEF PoolType
  <2>2. f \in Int /\ n \in Nat /\ g \in Int /\ m \in Nat /\ k \in Nat /\ c \in Nat /\ l \in Nat
    BY <2>1, RequestFacts, LenIs
  <2>3. f = n + k + c + l /\ c2 = c - 1 /\ g - m = (f - 1) - n
    BY <1>2 DEF RInv, InFlightExact, Sound, Lowered
  <2> HIDE DEF f, n, g, m, k, c, c2, l
  <2>4. g = m + k + c2 + l
    BY SMT, <2>2, <2>3
  <2> QED
    BY <1>1, <2>4 DEF InFlightExact, g, m, k, c2, l
<1> QED
  BY <1>2, <1>7, <1>8, <1>9 DEF RInv, r

\* pump sees a failed read, which stays counted.
LEMMA ReapLoses ==
  ASSUME Laws, RInv, NEW i \in Nat, NEW res, Pops("read", i, res), kernel' = kernel,
         lost' = lost \cup {i}, UNCHANGED <<pools, read_free_queue, returned, held, handed>>
  PROVE  RInv' /\ Completed' = Completed \ {<<"read", i>>} /\ Ring' = Ring \ {<<"read", i>>}
PROOF
<1> DEFINE r == <<"read", i>>
<1>1. /\ held' = held /\ read_free_queue' = read_free_queue /\ returned' = returned
      /\ pools' = pools /\ handed' = handed /\ "read" \in Op
  BY DEF Op
<1>2. /\ cq' \in Seq([req : Op \X Nat, res : Int]) /\ Len(cq') = Len(cq) - 1 /\ Once(cq')
      /\ Completed' = Completed \ {r} /\ Ring' = Ring \ {r}
      /\ r \in Completed /\ r \notin kernel /\ r \notin Buffers(held) /\ r \notin Buffers(lost)
      /\ r \notin Buffers(Range(read_free_queue)) /\ r \notin Buffers(Range(returned))
  BY <1>1, SeenRequest
<1>3. Buffers(lost') = Buffers(lost) \cup {r} /\ i \notin lost
  BY SMT, <1>2 DEF Buffers
<1>4. IsFiniteSet(lost') /\ Cardinality(lost') = Cardinality(lost) + 1
  BY <1>3, AddElement DEF RInv, RequestTypes
<1> HIDE DEF r
<1>5. Out' = Out
  <2>1. Out = kernel \cup Completed \cup Buffers(held) \cup Buffers(Range(read_free_queue))
              \cup Buffers(Range(returned)) \cup Buffers(lost)
    BY DEF Out, Ring, Buffers
  <2>2. Out' = kernel' \cup Completed' \cup Buffers(held') \cup Buffers(Range(read_free_queue'))
               \cup Buffers(Range(returned')) \cup Buffers(lost')
    BY DEF Out, Ring, Buffers
  <2> QED
    BY <1>1, <1>2, <1>3, <2>1, <2>2
<1>6. ASSUME NEW s \in Out
      PROVE  Places(s)' = 1
  <2>1. Places(s) = 1
    BY DEF RInv, RequestsConserved
  <2>2. CASE s = r
    <3>1. /\ r \notin kernel' /\ r \notin Completed' /\ r \in Buffers(lost') /\ r \notin Buffers(held')
          /\ r \notin Buffers(Range(read_free_queue')) /\ r \notin Buffers(Range(returned'))
      BY <1>1, <1>2, <1>3
    <3> QED
      BY SMT, <2>2, <3>1 DEF Places, Present
  <2>3. CASE s # r
    BY <1>1, <1>2, <1>3, <2>1, <2>3 DEF Places, Present
  <2> QED
    BY <2>2, <2>3
<1>7. RequestsConserved'
  BY <1>1, <1>2, <1>5, <1>6 DEF RInv, RequestsConserved, Once
<1>8. RequestTypes' /\ HandedInv'
  BY <1>1, <1>2, <1>4 DEF RInv, RequestTypes, HandedInv
<1>9. InFlightExact'
  <2> DEFINE f == pools.in_flight
             n == Len(pools.sq)
             k == Cardinality(kernel)
             c == Len(cq)
             c2 == Len(cq')
             l == Cardinality(lost)
             l2 == Cardinality(lost')
  <2>1. f \in Int /\ n \in Nat /\ k \in Nat /\ c \in Nat /\ l \in Nat
    BY RequestFacts
  <2>2. f = n + k + c + l /\ c2 = c - 1 /\ l2 = l + 1
    BY <1>2, <1>4 DEF RInv, InFlightExact
  <2> HIDE DEF f, n, k, c, c2, l, l2
  <2>3. f = n + k + c2 + l2
    BY SMT, <2>1, <2>2
  <2> QED
    BY <1>1, <2>3 DEF InFlightExact, f, n, k, c2, l2
<1> QED
  BY <1>2, <1>7, <1>8, <1>9 DEF RInv, r

\* The buffers move from workers to the queue, from the queue to pump, and into the pool.
LEMMA ReturnRequests ==
  ASSUME Laws, RInv, FreeReadRequest
  PROVE  RInv' /\ Kept
PROOF
<1>1. PICK i \in held : held' = held \ {i} /\ read_free_queue' = Append(read_free_queue, i)
  BY DEF FreeReadRequest
<1> DEFINE r == <<"read", i>>
<1>2. /\ pools' = pools /\ kernel' = kernel /\ cq' = cq /\ lost' = lost /\ returned' = returned
      /\ handed' = handed
  BY DEF FreeReadRequest, ringVars
<1>3. Completed' = Completed /\ Ring' = Ring
  BY <1>2 DEF Completed, Ring
<1>4. i \in Nat /\ read_free_queue \in Seq(Nat)
  BY DEF RInv, RequestTypes
<1>5. r \in Out /\ r \in Buffers(held)
  BY DEF Out, Buffers
<1>6. Places(r) = 1
  BY <1>5 DEF RInv, RequestsConserved
<1>7. /\ r \notin kernel /\ r \notin Completed /\ r \notin Buffers(Range(read_free_queue))
      /\ r \notin Buffers(Range(returned)) /\ r \notin Buffers(lost)
  BY SMT, <1>5, <1>6 DEF Places, Present
<1>8. i \notin Range(read_free_queue)
  BY <1>7 DEF Buffers
<1>9. /\ read_free_queue' \in Seq(Nat) /\ Range(read_free_queue') = Range(read_free_queue) \cup {i}
      /\ IsInjective(read_free_queue')
  BY SMT, <1>1, <1>4, <1>8, PushBack DEF RInv, RequestsConserved
<1>10. /\ Buffers(held') = Buffers(held) \ {r}
       /\ Buffers(Range(read_free_queue')) = Buffers(Range(read_free_queue)) \cup {r}
  BY SMT, <1>1, <1>9 DEF Buffers
<1> HIDE DEF r
<1>11. Out' = Out
  BY <1>1, <1>2, <1>3, <1>9 DEF Out
<1>12. ASSUME NEW s \in Out
       PROVE  Places(s)' = 1
  <2>1. Places(s) = 1
    BY DEF RInv, RequestsConserved
  <2>2. CASE s = r
    <3>1. /\ r \notin kernel' /\ r \notin Completed' /\ r \notin Buffers(held') /\ r \notin Buffers(lost')
          /\ r \in Buffers(Range(read_free_queue')) /\ r \notin Buffers(Range(returned'))
      BY <1>2, <1>3, <1>7, <1>10
    <3> QED
      BY SMT, <2>2, <3>1 DEF Places, Present
  <2>3. CASE s # r
    BY <1>2, <1>3, <1>10, <2>1, <2>3 DEF Places, Present
  <2> QED
    BY <2>2, <2>3
<1>13. RequestsConserved'
  BY <1>2, <1>9, <1>11, <1>12 DEF RInv, RequestsConserved
<1>14. RequestTypes' /\ InFlightExact' /\ HandedInv'
  BY <1>1, <1>2, <1>9 DEF RInv, RequestTypes, InFlightExact, HandedInv
<1>15. Kept
  BY <1>2, <1>3 DEF Kept, Active, Readers, Unfinished
<1> QED
  BY <1>13, <1>14, <1>15 DEF RInv

\* The swap of the free queue moves the buffers the workers returned to the list of pump.
LEMMA SwapRequests ==
  ASSUME Laws, RInv, SwapFreed, returned = <<>>, handed = {}
  PROVE  RInv' /\ Kept
PROOF
<1>1. /\ pools' = pools /\ kernel' = kernel /\ cq' = cq /\ held' = held /\ lost' = lost
      /\ returned' = read_free_queue /\ read_free_queue' = <<>> /\ handed' = handed
  BY DEF SwapFreed, ringVars
<1>2. Completed' = Completed /\ Ring' = Ring
  BY <1>1 DEF Completed, Ring
<1>3. /\ <<>> \in Seq(Nat) /\ IsInjective(<<>>) /\ Range(<<>>) = {}
      /\ Buffers(Range(<<>>)) = {}
  BY SMT, NoElements DEF IsInjective, Range, Buffers
<1>4. Out' = Out
  BY <1>1, <1>2, <1>3 DEF Out
<1>5. \A r : Places(r)' = Places(r)
  <2>1. ASSUME NEW r
        PROVE  Places(r)' = Places(r)
    <3>1. Present(r, Buffers(Range(<<>>))) = 0
      BY <1>3 DEF Present
    <3>2. Present(r, Buffers(Range(read_free_queue))) \in Int
      BY SMT DEF Present
    <3> QED
      BY SMT, <1>1, <1>2, <3>1, <3>2 DEF Places, Present
  <2> QED
    BY <2>1
<1>6. RequestsConserved'
  BY <1>1, <1>3, <1>4, <1>5 DEF RInv, RequestsConserved
<1>7. RequestTypes' /\ InFlightExact' /\ HandedInv'
  BY <1>1, <1>3 DEF RInv, RequestTypes, InFlightExact, HandedInv
<1>8. Kept
  BY <1>1, <1>2 DEF Kept, Active, Readers, Unfinished
<1> QED
  BY <1>6, <1>7, <1>8 DEF RInv

\* pump frees a read whose buffer a worker has returned.
LEMMA FreeRequests ==
  ASSUME Laws, RInv, FreeRead
  PROVE  RInv' /\ Kept
PROOF
<1> DEFINE i == Head(returned)
           r == <<"read", i>>
           t == PoolFree(pools, "read", i)
<1>1. /\ kernel' = kernel /\ cq' = cq /\ held' = held /\ lost' = lost /\ handed' = handed
      /\ read_free_queue' = read_free_queue /\ returned' = Tail(returned) /\ returned # <<>>
      /\ pools' = [t EXCEPT !.in_flight = @ + 1]
  BY DEF FreeRead, ringVars
<1>2. Completed' = Completed /\ Ring' = Ring
  BY <1>1 DEF Completed, Ring
<1>3. returned \in Seq(Nat) /\ IsInjective(returned)
  BY DEF RInv, RequestTypes, RequestsConserved
<1>4. /\ i \in Nat /\ returned' \in Seq(Nat) /\ IsInjective(returned')
      /\ Range(returned) = Range(returned') \cup {i} /\ i \notin Range(returned')
  BY <1>1, <1>3, PopFront
<1>5. r \in Out /\ r \in Buffers(Range(returned)) /\ "read" \in Op
  BY <1>4 DEF Out, Buffers, Op
<1>6. Places(r) = 1 /\ i \in DOMAIN pools.arg["read"]
  BY <1>5 DEF RInv, RequestsConserved, PoolInv
<1>7. /\ r \notin kernel /\ r \notin Completed /\ r \notin Buffers(Range(read_free_queue))
      /\ r \notin Buffers(held) /\ r \notin Buffers(lost)
  BY SMT, <1>5, <1>6 DEF Places, Present
<1>8. Buffers(Range(returned')) = Buffers(Range(returned)) \ {r}
  BY SMT, <1>4 DEF Buffers
<1>9. pools \in PoolType(Arg) /\ PoolInv(pools, Out) /\ pools.in_flight \in Int
  BY RequestFacts
<1>10. Freed(Arg, pools, t, Out \ {r})
  BY <1>5, <1>6, <1>9, FreeReturns
<1> HIDE DEF r, t, i
<1>11. /\ t \in PoolType(Arg) /\ PoolInv(t, Out \ {r}) /\ t.arg = pools.arg /\ t.sq = pools.sq
       /\ Used(t) = Used(pools) /\ t.in_flight = pools.in_flight - 1
  BY <1>10 DEF Freed
<1>12. pools' = [t EXCEPT !.in_flight = pools.in_flight]
  <2>1. t.in_flight + 1 = pools.in_flight
    BY SMT, <1>9, <1>11
  <2> QED
    BY <1>1, <2>1
<1>13. /\ pools' \in PoolType(Arg) /\ PoolInv(pools', Out \ {r}) /\ pools'.arg = pools.arg
       /\ pools'.sq = pools.sq /\ pools'.in_flight = pools.in_flight
       /\ \A o : InUse(pools', Ring, o) = InUse(t, Ring, o)
  BY SMT, <1>9, <1>11, <1>12, Recount
<1>14. Out' = Out \ {r}
  <2>1. Out = kernel \cup Completed \cup Buffers(held) \cup Buffers(Range(read_free_queue))
              \cup Buffers(Range(returned)) \cup Buffers(lost)
    BY DEF Out, Ring, Buffers
  <2>2. Out' = kernel' \cup Completed' \cup Buffers(held') \cup Buffers(Range(read_free_queue'))
               \cup Buffers(Range(returned')) \cup Buffers(lost')
    BY DEF Out, Ring, Buffers
  <2> QED
    BY <1>1, <1>2, <1>7, <1>8, <2>1, <2>2
<1>15. ASSUME NEW s \in Out \ {r}
       PROVE  Places(s)' = 1
  <2>1. Places(s) = 1
    BY DEF RInv, RequestsConserved
  <2> QED
    BY <1>1, <1>2, <1>8, <2>1 DEF Places, Present
<1>16. RequestsConserved'
  BY <1>1, <1>4, <1>13, <1>14, <1>15 DEF RInv, RequestsConserved
<1>17. RequestTypes' /\ InFlightExact' /\ HandedInv'
  BY <1>1, <1>4, <1>13 DEF RInv, RequestTypes, InFlightExact, HandedInv
<1>18. ASSUME NEW o \in Op
       PROVE  Active(o)' = Active(o)
  <2>1. InUse(t, Ring, o) = InUse(pools, Ring, o)
    BY SMT, <1>9, <1>11, SameUse
  <2> QED
    BY <1>2, <1>13, <2>1 DEF Active
<1>19. Kept
  BY <1>1, <1>5, <1>13, <1>18 DEF Kept, Readers, Unfinished
<1> QED
  BY <1>16, <1>17, <1>19 DEF RInv

\* io_uring_submit hands a prepared request to the kernel.
LEMMA SubmitRequests ==
  ASSUME Laws, RInv, SubmitNext
  PROVE  RInv' /\ Kept
PROOF
<1> DEFINE new == Head(pools.sq)
<1>1. /\ cq' = cq /\ held' = held /\ lost' = lost /\ read_free_queue' = read_free_queue
      /\ returned' = returned /\ handed' = handed /\ pools.sq # <<>>
      /\ kernel' = kernel \cup {new} /\ pools' = [pools EXCEPT !.sq = Tail(@)]
  BY DEF SubmitNext, workVars
<1>2. pools \in PoolType(Arg) /\ PoolInv(pools, Out) /\ pools.in_flight \in Int
  BY RequestFacts
<1>3. new \notin Out /\ new \in Op \X Nat
  BY <1>1, <1>2, SubmitUses
<1>4. Sent(Arg, pools, pools', Out) /\ Keeps(pools, pools', Ring, Ring \cup {new})
  BY <1>1, <1>2, SubmitKeeps
<1> HIDE DEF new
<1>5. /\ pools' \in PoolType(Arg) /\ PoolInv(pools', Out \cup {new}) /\ pools'.arg = pools.arg
      /\ Len(pools'.sq) = Len(pools.sq) - 1 /\ pools'.in_flight = pools.in_flight
  BY <1>4 DEF Sent, new
<1>6. Completed' = Completed /\ Ring' = Ring \cup {new}
  BY <1>1 DEF Completed, Ring
<1>7. Out' = Out \cup {new}
  BY <1>1, <1>6 DEF Out
<1>8. new \notin kernel
  BY <1>3 DEF Out, Ring
<1>9. IsFiniteSet(kernel') /\ Cardinality(kernel') = Cardinality(kernel) + 1
  <2>1. IsFiniteSet(kernel)
    BY DEF RInv, RequestTypes
  <2> QED
    BY <1>1, <1>8, <2>1, AddElement
<1>10. ASSUME NEW s \in Out \cup {new}
       PROVE  Places(s)' = 1
  <2>1. CASE s \in Out
    <3>1. Places(s) = 1 /\ s # new
      BY <1>3, <2>1 DEF RInv, RequestsConserved
    <3>2. s \in kernel' <=> s \in kernel
      BY <1>1, <3>1
    <3> QED
      BY <1>1, <1>6, <3>1, <3>2 DEF Places, Present
  <2>2. CASE s = new
    <3>1. s \notin Out
      BY <1>3, <2>2
    <3>2. /\ s \notin Completed /\ s \notin Buffers(held) /\ s \notin Buffers(lost)
          /\ s \notin Buffers(Range(read_free_queue)) /\ s \notin Buffers(Range(returned))
      BY <3>1 DEF Out, Ring, Buffers
    <3> QED
      BY SMT, <1>1, <1>6, <2>2, <3>2 DEF Places, Present
  <2> QED
    BY <2>1, <2>2
<1>11. RequestsConserved'
  BY <1>1, <1>5, <1>7, <1>10 DEF RInv, RequestsConserved
<1>12. RequestTypes' /\ HandedInv'
  BY <1>1, <1>3, <1>5, <1>9 DEF RInv, RequestTypes, HandedInv
<1>13. InFlightExact'
  <2> DEFINE f == pools.in_flight
             n == Len(pools.sq)
             n2 == Len(pools'.sq)
             k == Cardinality(kernel)
             k2 == Cardinality(kernel')
             c == Len(cq)
             l == Cardinality(lost)
  <2>1. f \in Int /\ n \in Nat /\ k \in Nat /\ c \in Nat /\ l \in Nat
    BY RequestFacts
  <2>2. f = n + k + c + l /\ k2 = k + 1 /\ n2 = n - 1
    BY <1>5, <1>9 DEF RInv, InFlightExact
  <2> HIDE DEF f, n, n2, k, k2, c, l
  <2>3. f = n2 + k2 + c + l
    BY SMT, <2>1, <2>2
  <2> QED
    BY <1>1, <1>5, <2>3 DEF InFlightExact, f, n2, k2, c, l
<1>14. \A o \in Op : Active(o)' = Active(o)
  BY <1>4, <1>6 DEF Keeps, Active
<1>15. Kept
  BY <1>1, <1>5, <1>14 DEF Kept, Readers, Unfinished, Op
<1> QED
  BY <1>11, <1>12, <1>13, <1>15 DEF RInv

-----------------------------------------------------------------------------
(* What the steps of the loop do to the requests in use.                   *)

\* Pools q have one more request of kind o in use than p, with arguments args.
Grows(p, q, o, args) ==
  \E i \in Nat : /\ <<o, i>> \notin Out /\ \A r \in Using(p, o) : r[1] # i
                 /\ Using(q, o) = Using(p, o) \cup {<<i, args>>}

Adding(p, q, o, args) ==
  /\ Sound(Arg, p, q, Out) /\ Grows(p, q, o, args)
  /\ \A k \in Op : k # o => Using(q, k) = Using(p, k)
  /\ \A r \in Out : q.arg[r[1]][r[2]] = p.arg[r[1]][r[2]]

\* next, on pools that differ from those of the loop in their counter or by other requests.
LEMMA NextAdding ==
  ASSUME Laws, RInv, NEW p \in PoolType(Arg), PoolInv(p, Out), NEW o \in Op, NEW args \in Arg
  PROVE  Adding(p, PoolNext(p, o, args), o, args)
PROOF
<1> DEFINE q == PoolNext(p, o, args)
<1>1. Out \in SUBSET (Op \X Nat) /\ Ring \in SUBSET Out
  BY RequestFacts
<1>2. Sound(Arg, p, q, Out) /\ Adds(p, q, Ring, Out, o, args)
  BY <1>1, NextAdds
<1> HIDE DEF q
<1>3. PICK i \in Nat :
        /\ <<o, i>> \notin Out /\ \A r \in InUse(p, Ring, o) : r[1] # i
        /\ InUse(q, Ring, o) = InUse(p, Ring, o) \cup {<<i, args>>}
        /\ \A k \in Op : k # o => InUse(q, Ring, k) = InUse(p, Ring, k)
        /\ \A r \in Out : q.arg[r[1]][r[2]] = p.arg[r[1]][r[2]]
  BY <1>2 DEF Adds
<1>4. \A j \in Unfinished : <<"read", j>> \in Out
  BY DEF Out, Buffers, Unfinished, RInv, HandedInv
<1>5. Lost(q) = Lost(p)
  <2>1. ASSUME NEW j \in Unfinished
        PROVE  q.arg["read"][j] = p.arg["read"][j]
    <3>1. <<"read", j>>[1] = "read" /\ <<"read", j>>[2] = j
      OBVIOUS
    <3> QED
      BY <1>3, <1>4, <3>1
  <2> QED
    BY <2>1 DEF Lost
<1>6. o = "read" => i \notin Unfinished
  BY <1>3, <1>4
<1>7. \A r \in Using(p, o) : r[1] # i
  BY SMT, <1>3, <1>6 DEF Using, Lost
<1>8. Using(q, o) = Using(p, o) \cup {<<i, args>>}
  BY <1>3, <1>5 DEF Using
<1>9. Grows(p, q, o, args)
  BY <1>3, <1>7, <1>8 DEF Grows
<1>10. \A k \in Op : k # o => Using(q, k) = Using(p, k)
  BY <1>3, <1>5 DEF Using
<1> QED
  BY <1>2, <1>3, <1>9, <1>10 DEF Adding, q

\* Two operations in a row, each of which keeps the pools sound.
LEMMA SoundTwice ==
  ASSUME NEW A, NEW out, NEW p \in PoolType(A), NEW q, NEW t, Sound(A, p, q, out), Sound(A, q, t, out)
  PROVE  Sound(A, p, t, out)
  BY DEF Sound

\* The pools are sound as they are.
LEMMA SoundSelf ==
  ASSUME Laws, RInv
  PROVE  Sound(Arg, pools, pools, Out)
  BY RequestFacts DEF Sound

\* The requests of a completion that pump sees, before and after it frees its request.
LEMMA ReapUsing ==
  ASSUME Laws, RInv, NEW o \in Op, NEW i \in Nat, NEW res, Pops(o, i, res), UNCHANGED <<kernel, workVars>>,
         NEW q, Sound(Arg, pools, q, Out), pools' = PoolFree(q, o, i)
  PROVE  /\ RInv' /\ Completed' = Completed \ {<<o, i>>} /\ <<o, i>> \in Completed
         /\ Uses(o)' = Using(q, o) \ {<<i, q.arg[o][i]>>}
         /\ \A k \in Op : k # o => Uses(k)' = Using(q, k)
PROOF
<1>1. /\ RInv' /\ Completed' = Completed \ {<<o, i>>} /\ pools'.arg = q.arg
      /\ Active(o)' = InUse(q, Ring, o) \ {<<i, q.arg[o][i]>>}
      /\ \A k \in Op : k # o => Active(k)' = InUse(q, Ring, k)
  BY ReapFrees, SMTT(30)
<1>2. Unfinished' = Unfinished /\ kernel' = kernel
  BY DEF workVars, Unfinished
<1>3. Lost(pools)' = Lost(q)
  BY <1>1, <1>2 DEF Lost
<1>4. <<o, i>> \in Completed /\ <<o, i>> \notin Buffers(Unfinished)
  BY <1>2, SeenRequest
<1>5. o = "read" => <<i, q.arg[o][i]>> \notin Lost(q)
  BY <1>4 DEF Lost, Buffers
<1>6. \A k : Uses(k)' = Active(k)' \cup (IF k = "read" THEN Lost(q) ELSE {})
  BY <1>3 DEF Uses, Using, Active
<1>7. Uses(o)' = Using(q, o) \ {<<i, q.arg[o][i]>>}
  <2> DEFINE x == <<i, q.arg[o][i]>>
  <2>1. /\ Active(o)' = InUse(q, Ring, o) \ {x} /\ (o = "read" => x \notin Lost(q))
        /\ Uses(o)' = Active(o)' \cup (IF o = "read" THEN Lost(q) ELSE {})
    BY <1>1, <1>5, <1>6
  <2> HIDE DEF x
  <2>2. Uses(o)' = Using(q, o) \ {x}
    BY <2>1 DEF Using
  <2> QED
    BY <2>2 DEF x
<1>8. \A k \in Op : k # o => Uses(k)' = Using(q, k)
  BY <1>1, <1>6 DEF Using
<1> QED
  BY <1>1, <1>4, <1>7, <1>8

\* A step that queues one request.
LEMMA NextStep ==
  ASSUME Laws, RInv, NEW o \in Op, NEW args \in Arg, pools' = PoolNext(pools, o, args),
         UNCHANGED <<kernel, cq, workVars>>
  PROVE  RInv' /\ Gains(o, args) /\ Completed' = Completed /\ \A k \in Op : k # o => Same(k)
PROOF
<1>1. pools \in PoolType(Arg) /\ PoolInv(pools, Out)
  BY RequestFacts
<1>2. Adding(pools, pools', o, args)
  BY <1>1, NextAdding
<1>3. Sound(Arg, pools, pools', Out) /\ Grows(pools, pools', o, args)
  BY <1>2 DEF Adding
<1>4. UNCHANGED <<kernel, cq, read_free_queue, returned, held, lost, handed>>
  BY DEF workVars
<1>5. RInv' /\ Ring' = Ring /\ Completed' = Completed /\ Unfinished' = Unfinished
  BY <1>3, <1>4, SoundRequests DEF Unfinished
<1>6. \A k : Uses(k)' = Using(pools', k)
  BY <1>5 DEF Uses, Using, Lost
<1>7. Gains(o, args)
  BY <1>3, <1>6 DEF Gains, Grows, Uses
<1>8. \A k \in Op : k # o => Same(k)
  BY <1>2, <1>6 DEF Same, Adding, Uses
<1> QED
  BY <1>5, <1>7, <1>8

\* pump moves waiting requests to free entries.
LEMMA DrainStep ==
  ASSUME Laws, RInv, Drain
  PROVE  RInv' /\ Kept
PROOF
<1>1. PICK k \in DOMAIN DrainOrder : /\ CanPopOverflow(pools, DrainOrder[k])
                                     /\ pools' = PopOverflow(pools, DrainOrder[k])
  BY DEF Drain
<1>2. DrainOrder[k] \in Op
  BY SMT DEF DrainOrder, Op
<1>3. pools \in PoolType(Arg) /\ PoolInv(pools, Out)
  BY RequestFacts
<1>4. /\ Sound(Arg, pools, pools', Out) /\ pools'.arg = pools.arg
      /\ Keeps(pools, pools', Ring, Ring)
  BY <1>1, <1>2, <1>3, PopKeeps
<1>5. UNCHANGED <<kernel, cq, read_free_queue, returned, held, lost, handed>>
  BY DEF Drain, ringVars, workVars
<1>6. RInv' /\ Ring' = Ring
  BY <1>4, <1>5, SoundRequests
<1>7. \A o \in Op : Active(o)' = Active(o)
  BY <1>4, <1>6 DEF Active, Keeps
<1>8. Kept
  BY <1>4, <1>5, <1>7 DEF Kept, Readers, Unfinished, Op
<1> QED
  BY <1>6, <1>8

\* A step that queues no request and frees the one that was completed.
LEMMA FreeStep ==
  ASSUME Laws, RInv, NEW o \in Op, NEW i \in Nat, NEW res, Pops(o, i, res), UNCHANGED <<kernel, workVars>>,
         pools' = PoolFree(pools, o, i)
  PROVE  /\ RInv' /\ Completed' = Completed \ {<<o, i>>} /\ <<o, i>> \in Completed
         /\ Loses(o, <<i, pools.arg[o][i]>>) /\ \A k \in Op : k # o => Same(k)
PROOF
<1>1. Sound(Arg, pools, pools, Out)
  BY SoundSelf
<1>2. /\ RInv' /\ Completed' = Completed \ {<<o, i>>} /\ <<o, i>> \in Completed
      /\ Uses(o)' = Using(pools, o) \ {<<i, pools.arg[o][i]>>}
      /\ \A k \in Op : k # o => Uses(k)' = Using(pools, k)
  BY <1>1, ReapUsing
<1>3. <<i, pools.arg[o][i]>> \in Uses(o)
  BY <1>2, CompletedUsed
<1> QED
  BY <1>2, <1>3 DEF Loses, Same, Uses

\* A step that queues one request, of the same kind or not, and frees the one that was
\* completed.
LEMMA NextFreeStep ==
  ASSUME Laws, RInv, NEW o \in Op, NEW i \in Nat, NEW res, Pops(o, i, res), UNCHANGED <<kernel, workVars>>,
         NEW k \in Op, NEW args \in Arg, pools' = PoolFree(PoolNext(pools, k, args), o, i)
  PROVE  /\ RInv' /\ Completed' = Completed \ {<<o, i>>} /\ <<o, i>> \in Completed
         /\ k = o => Trades(o, <<i, pools.arg[o][i]>>, args)
         /\ k # o => Loses(o, <<i, pools.arg[o][i]>>) /\ Gains(k, args)
         /\ \A l \in Op : l # o /\ l # k => Same(l)
PROOF
<1> DEFINE q == PoolNext(pools, k, args)
           x == <<i, pools.arg[o][i]>>
<1>1. pools \in PoolType(Arg) /\ PoolInv(pools, Out)
  BY RequestFacts
<1>2. Adding(pools, q, k, args)
  BY <1>1, NextAdding
<1> HIDE DEF q
<1>3. /\ Sound(Arg, pools, q, Out) /\ Grows(pools, q, k, args)
      /\ \A l \in Op : l # k => Using(q, l) = Using(pools, l)
      /\ \A r \in Out : q.arg[r[1]][r[2]] = pools.arg[r[1]][r[2]]
  BY <1>2 DEF Adding
<1>4. /\ RInv' /\ Completed' = Completed \ {<<o, i>>} /\ <<o, i>> \in Completed
      /\ Uses(o)' = Using(q, o) \ {<<i, q.arg[o][i]>>}
      /\ \A l \in Op : l # o => Uses(l)' = Using(q, l)
  <2>1. pools' = PoolFree(q, o, i)
    BY DEF q
  <2> QED
    BY <1>3, <2>1, ReapUsing, SMTT(30)
<1>5. x \in Uses(o) /\ <<o, i>> \in Out
  BY <1>4, CompletedUsed
<1>6. q.arg[o][i] = pools.arg[o][i]
  <2>1. <<o, i>>[1] = o /\ <<o, i>>[2] = i
    OBVIOUS
  <2> QED
    BY <1>3, <1>5, <2>1
<1>7. Uses(o)' = Using(q, o) \ {x} /\ x[1] = i
  BY <1>4, <1>6
<1> HIDE DEF x
<1>8. PICK j \in Nat : /\ <<k, j>> \notin Out /\ \A r \in Uses(k) : r[1] # j
                       /\ Using(q, k) = Uses(k) \cup {<<j, args>>}
  BY <1>3 DEF Grows, Uses
<1>9. CASE k = o
  <2>1. <<j, args>> # x
    BY SMT, <1>5, <1>8, <1>9
  <2>2. Uses(o)' = (Uses(o) \ {x}) \cup {<<j, args>>}
    BY <1>7, <1>8, <1>9, <2>1
  <2>3. Trades(o, x, args)
    BY <1>5, <1>8, <1>9, <2>2 DEF Trades
  <2>4. \A l \in Op : l # o /\ l # k => Same(l)
    BY <1>3, <1>4 DEF Same, Uses
  <2> QED
    BY <1>4, <1>9, <2>3, <2>4 DEF x
<1>10. CASE k # o
  <2>1. Uses(k)' = Uses(k) \cup {<<j, args>>} /\ Uses(o)' = Uses(o) \ {x}
    BY <1>3, <1>4, <1>7, <1>8, <1>10 DEF Uses
  <2>2. Gains(k, args) /\ Loses(o, x)
    BY <1>5, <1>8, <2>1 DEF Gains, Loses
  <2>3. \A l \in Op : l # o /\ l # k => Same(l)
    BY <1>3, <1>4 DEF Same, Uses
  <2> QED
    BY <1>4, <1>10, <2>2, <2>3 DEF x
<1> QED
  BY <1>9, <1>10

\* The handler of an openat may queue a read and a close, and frees the openat.
LEMMA OpenedStep ==
  ASSUME Laws, RInv, NEW i \in Nat, NEW res, Pops("openat", i, res),
         UNCHANGED <<kernel, workVars>>,
         NEW reads, NEW closes, NEW rarg, NEW carg, reads => rarg \in Arg, closes => carg \in Arg,
         NEW q, q = MayNext(pools, "read", rarg, reads),
         NEW t, t = MayNext(q, "close", carg, closes),
         pools' = PoolFree(t, "openat", i)
  PROVE  /\ RInv' /\ Completed' = Completed \ {<<"openat", i>>} /\ <<"openat", i>> \in Completed
         /\ Loses("openat", <<i, pools.arg["openat"][i]>>) /\ Same("write")
         /\ MayGain("read", rarg, reads) /\ MayGain("close", carg, closes)
PROOF
<1> DEFINE x == <<i, pools.arg["openat"][i]>>
<1>1. pools \in PoolType(Arg) /\ PoolInv(pools, Out) /\ Sound(Arg, pools, pools, Out)
  BY RequestFacts, SoundSelf
<1>2. "openat" \in Op /\ "read" \in Op /\ "close" \in Op /\ "write" \in Op
  BY DEF Op
<1>3. /\ Sound(Arg, pools, q, Out)
      /\ IF reads THEN Grows(pools, q, "read", rarg) ELSE Using(q, "read") = Using(pools, "read")
      /\ \A l \in Op : l # "read" => Using(q, l) = Using(pools, l)
      /\ \A r \in Out : q.arg[r[1]][r[2]] = pools.arg[r[1]][r[2]]
  <2>1. CASE reads
    <3>1. Adding(pools, q, "read", rarg)
      BY <1>1, <1>2, <2>1, NextAdding DEF MayNext
    <3> QED
      BY <2>1, <3>1 DEF Adding
  <2>2. CASE ~reads
    BY <1>1, <2>2 DEF MayNext
  <2> QED
    BY <2>1, <2>2
<1>4. q \in PoolType(Arg) /\ PoolInv(q, Out)
  BY <1>3 DEF Sound
<1>5. /\ Sound(Arg, q, t, Out)
      /\ IF closes THEN Grows(q, t, "close", carg) ELSE Using(t, "close") = Using(q, "close")
      /\ \A l \in Op : l # "close" => Using(t, l) = Using(q, l)
      /\ \A r \in Out : t.arg[r[1]][r[2]] = q.arg[r[1]][r[2]]
  <2>1. CASE closes
    <3>1. Adding(q, t, "close", carg)
      BY <1>2, <1>4, <2>1, NextAdding DEF MayNext
    <3> QED
      BY <2>1, <3>1 DEF Adding
  <2>2. CASE ~closes
    <3>1. Sound(Arg, q, q, Out)
      BY <1>4 DEF Sound, PoolType
    <3> QED
      BY <2>2, <3>1 DEF MayNext
  <2> QED
    BY <2>1, <2>2
<1>6. Sound(Arg, pools, t, Out)
  BY <1>1, <1>3, <1>5, SoundTwice
<1>7. /\ RInv' /\ Completed' = Completed \ {<<"openat", i>>} /\ <<"openat", i>> \in Completed
      /\ Uses("openat")' = Using(t, "openat") \ {<<i, t.arg["openat"][i]>>}
      /\ \A l \in Op : l # "openat" => Uses(l)' = Using(t, l)
  BY SMT, <1>2, <1>6, ReapUsing
<1>8. x \in Uses("openat") /\ <<"openat", i>> \in Out
  BY <1>2, <1>7, CompletedUsed
<1>9. t.arg["openat"][i] = pools.arg["openat"][i]
  <2>1. <<"openat", i>>[1] = "openat" /\ <<"openat", i>>[2] = i
    OBVIOUS
  <2> QED
    BY <1>3, <1>5, <1>8, <2>1
<1>10. Uses("openat")' = Using(t, "openat") \ {x}
  BY <1>7, <1>9
<1> HIDE DEF x
<1>11. Using(t, "openat") = Uses("openat") /\ Using(t, "write") = Uses("write")
  BY <1>2, <1>3, <1>5 DEF Uses
<1>12. Loses("openat", x) /\ Same("write")
  BY <1>2, <1>7, <1>8, <1>10, <1>11 DEF Loses, Same
<1>13. MayGain("read", rarg, reads)
  <2>1. Uses("read")' = Using(q, "read")
    BY <1>2, <1>5, <1>7
  <2> QED
    BY <1>3, <2>1 DEF MayGain, Gains, Same, Grows, Uses
<1>14. MayGain("close", carg, closes)
  <2>1. Uses("close")' = Using(t, "close") /\ Using(q, "close") = Uses("close")
    BY <1>2, <1>3, <1>7 DEF Uses
  <2> QED
    BY <1>5, <2>1 DEF MayGain, Gains, Same, Grows
<1> QED
  BY <1>7, <1>12, <1>13, <1>14 DEF x

\* The counter alone.
LEMMA LowerPools ==
  ASSUME Laws, RInv
  PROVE  LET low == [pools EXCEPT !.in_flight = @ - 1] IN
           /\ low \in PoolType(Arg) /\ PoolInv(low, Out) /\ Lowered(low) /\ Sound(Arg, low, low, Out)
           /\ low.arg = pools.arg /\ \A o : InUse(low, Ring, o) = InUse(pools, Ring, o)
PROOF
<1> DEFINE low == [pools EXCEPT !.in_flight = pools.in_flight - 1]
<1>1. pools \in PoolType(Arg) /\ PoolInv(pools, Out) /\ pools.in_flight - 1 \in Int
  BY SMT, RequestFacts
<1>2. low = [pools EXCEPT !.in_flight = @ - 1]
  OBVIOUS
<1>3. /\ low \in PoolType(Arg) /\ PoolInv(low, Out) /\ low.arg = pools.arg /\ low.sq = pools.sq
      /\ low.in_flight = pools.in_flight - 1
      /\ \A ring, o : InUse(low, ring, o) = InUse(pools, ring, o)
  BY SMT, <1>1, Recount
<1> HIDE DEF low
<1>4. Lowered(low)
  BY <1>3 DEF Lowered
<1>5. Sound(Arg, low, low, Out)
  BY <1>3 DEF Sound, PoolType
<1>6. /\ low \in PoolType(Arg) /\ PoolInv(low, Out) /\ Lowered(low) /\ Sound(Arg, low, low, Out)
      /\ low.arg = pools.arg /\ \A o : InUse(low, Ring, o) = InUse(pools, Ring, o)
  BY <1>3, <1>4, <1>5
<1> QED
  BY <1>2, <1>6

\* A read that leaves the ring and is not finished stays in use.
LEMMA StaysUsing ==
  ASSUME Laws, RInv, NEW i \in Nat, NEW res, Pops("read", i, res), kernel' = kernel,
         pools' \in PoolType(Arg), pools'.arg = pools.arg, Ring' = Ring \ {<<"read", i>>},
         \A o : InUse(pools', Ring, o) = InUse(pools, Ring, o),
         Unfinished' = Unfinished \cup {i}, PoolInv(pools', Out)
  PROVE  \A k \in Op : Same(k)
PROOF
<1> DEFINE r == <<"read", i>>
           x == <<i, pools.arg["read"][i]>>
<1>1. "read" \in Op
  BY DEF Op
<1>2. r \in Completed /\ r \in Out /\ i \in DOMAIN pools.arg["read"]
  BY <1>1, SeenRequest
<1>3. pools \in PoolType(Arg) /\ Ring \in SUBSET Out
  BY RequestFacts
<1>4. x \in InUse(pools, Ring, "read")
  BY <1>1, <1>2, <1>3, UsedOrRing DEF Ring
<1>5. /\ InUse(pools', Ring \ {r}, "read") = InUse(pools, Ring, "read") \ {x}
      /\ \A k \in Op : k # "read" => InUse(pools', Ring \ {r}, k) = InUse(pools, Ring, k)
  <2>1. Leaves(pools', pools', Ring, "read", i)
    BY <1>1, <1>2, <1>3, LeaveRing
  <2> QED
    BY <2>1 DEF Leaves
<1>6. Lost(pools)' = Lost(pools) \cup {x}
  BY DEF Lost
<1> HIDE DEF r, x
<1>7. \A k : Uses(k)' = InUse(pools', Ring \ {r}, k) \cup (IF k = "read" THEN Lost(pools)' ELSE {})
  BY DEF Uses, Using, Lost, r
<1>8. Uses("read")' = Uses("read")
  BY <1>4, <1>5, <1>6, <1>7 DEF Uses, Using
<1>9. \A k \in Op : k # "read" => Uses(k)' = Uses(k)
  BY <1>5, <1>7 DEF Uses, Using
<1> QED
  BY <1>8, <1>9 DEF Same

\* Data: the buffer goes to a worker, and the next read is to be queued.
LEMMA DataStep ==
  ASSUME Laws, RInv, NEW i \in Nat, NEW res, Pops("read", i, res), kernel' = kernel, handed = {},
         held' = held \cup {i}, handed' = {i}, UNCHANGED <<read_free_queue, returned, lost>>,
         pools' = [pools EXCEPT !.in_flight = @ - 1]
  PROVE  /\ RInv' /\ Completed' = Completed \ {<<"read", i>>} /\ <<"read", i>> \in Completed
         /\ \A k \in Op : Same(k)
PROOF
<1>1. /\ pools' \in PoolType(Arg) /\ PoolInv(pools', Out) /\ Lowered(pools')
      /\ Sound(Arg, pools', pools', Out) /\ pools'.arg = pools.arg
      /\ \A o : InUse(pools', Ring, o) = InUse(pools, Ring, o)
  BY LowerPools
<1>2. RInv' /\ Completed' = Completed \ {<<"read", i>>} /\ Ring' = Ring \ {<<"read", i>>}
  BY <1>1, ReapHolds
<1>3. <<"read", i>> \in Completed
  BY SeenRequest DEF Op
<1>4. Unfinished' = Unfinished \cup {i}
  BY DEF Unfinished
<1>5. \A k \in Op : Same(k)
  BY <1>1, <1>2, <1>4, StaysUsing
<1> QED
  BY <1>2, <1>3, <1>5

\* The request read_handler_ was called with is neither in the ring nor in a list of its
\* pool, nor is it a failed one.
LEMMA HandedApart ==
  ASSUME Laws, RInv, NEW i \in handed
  PROVE  /\ i \in Nat /\ i \in DOMAIN pools.arg["read"] /\ i \notin lost
         /\ <<"read", i>> \in Out /\ <<"read", i>> \notin Ring
PROOF
<1> DEFINE r == <<"read", i>>
<1>1. r \in Buffers(held) \/ r \in Buffers(Range(read_free_queue))
  BY DEF RInv, HandedInv, Buffers
<1>2. r \in Out
  BY <1>1 DEF Out, Buffers
<1>3. r[1] = "read" /\ r[2] = i
  OBVIOUS
<1>4. Places(r) = 1 /\ i \in DOMAIN pools.arg["read"]
  BY <1>2, <1>3 DEF RInv, RequestsConserved, PoolInv
<1> HIDE DEF r
<1>5. r \notin kernel /\ r \notin Completed /\ r \notin Buffers(lost)
  BY SMT, <1>1, <1>4 DEF Places, Present
<1>6. i \notin lost
  BY <1>5 DEF Buffers, r
<1>7. i \in Nat
  BY DEF RInv, RequestTypes
<1> QED
  BY <1>2, <1>4, <1>5, <1>6, <1>7 DEF Ring, r

\* Once the next read is queued, or given up, the request is no longer in use.
LEMMA LeavesUsing ==
  ASSUME Laws, RInv, NEW i, handed = {i}, handed' = {}, lost' = lost, Ring' = Ring,
         pools' \in PoolType(Arg), PoolInv(pools', Out)
  PROVE  /\ Uses("read")' = Using(pools', "read") \ {<<i, pools'.arg["read"][i]>>}
         /\ \A k \in Op : k # "read" => Uses(k)' = Using(pools', k)
PROOF
<1> DEFINE r == <<"read", i>>
           x == <<i, pools'.arg["read"][i]>>
<1>1. i \in Nat /\ i \notin lost /\ r \in Out /\ r \notin Ring /\ "read" \in Op
  BY HandedApart DEF Op
<1>2. r[1] = "read" /\ r[2] = i
  OBVIOUS
<1>3. i \in DOMAIN pools'.arg["read"]
  BY <1>1, <1>2 DEF PoolInv
<1>4. r \notin Used(pools')
  <2>1. Lists(pools', "read", i) + Present(r, Out) = 1
    BY <1>1, <1>3 DEF PoolInv
  <2>2. i \notin Range(pools'.overflow["read"]) /\ r \notin Range(pools'.sq)
    BY SMT, <1>1, <2>1 DEF Lists, Present
  <2> QED
    BY <1>2, <2>2 DEF Used
<1>5. x \notin InUse(pools', Ring, "read")
  BY <1>1, <1>3, <1>4, UsedOrRing
<1>6. /\ Unfinished = lost \cup {i} /\ Unfinished' = lost
  BY DEF Unfinished
<1>7. x \notin Lost(pools)' /\ Lost(pools') = Lost(pools)' \cup {x}
  BY <1>1, <1>6 DEF Lost
<1> HIDE DEF x, r
<1>8. \A k : Uses(k)' = InUse(pools', Ring, k) \cup (IF k = "read" THEN Lost(pools)' ELSE {})
  BY DEF Uses, Using, Lost
<1>9. Uses("read")' = Using(pools', "read") \ {x}
  BY <1>5, <1>7, <1>8 DEF Using
<1>10. \A k \in Op : k # "read" => Uses(k)' = Using(pools', k)
  BY <1>8 DEF Using
<1> QED
  BY <1>9, <1>10 DEF x

\* The next read is queued: it takes the place of the request passed on.
LEMMA QueueStep ==
  ASSUME Laws, RInv, NEW i, handed = {i}, handed' = {}, NEW args \in Arg,
         pools' = PoolNext(pools, "read", args),
         UNCHANGED <<kernel, cq, read_free_queue, returned, held, lost>>
  PROVE  /\ RInv' /\ Completed' = Completed
         /\ Trades("read", <<i, pools.arg["read"][i]>>, args) /\ \A k \in Op : k # "read" => Same(k)
PROOF
<1> DEFINE x == <<i, pools.arg["read"][i]>>
<1>1. pools \in PoolType(Arg) /\ PoolInv(pools, Out) /\ "read" \in Op
  BY RequestFacts DEF Op
<1>2. Adding(pools, pools', "read", args)
  BY <1>1, NextAdding
<1>3. /\ Sound(Arg, pools, pools', Out) /\ Grows(pools, pools', "read", args)
      /\ \A k \in Op : k # "read" => Using(pools', k) = Using(pools, k)
      /\ \A r \in Out : pools'.arg[r[1]][r[2]] = pools.arg[r[1]][r[2]]
  BY <1>2 DEF Adding
<1>4. RInv' /\ Ring' = Ring /\ Completed' = Completed
  BY <1>3, SoundRequests
<1>5. pools' \in PoolType(Arg) /\ PoolInv(pools', Out)
  BY <1>3 DEF Sound
<1>6. /\ Uses("read")' = Using(pools', "read") \ {<<i, pools'.arg["read"][i]>>}
      /\ \A k \in Op : k # "read" => Uses(k)' = Using(pools', k)
  BY <1>4, <1>5, LeavesUsing
<1>7. pools'.arg["read"][i] = pools.arg["read"][i]
  <2>1. <<"read", i>> \in Out
    BY HandedApart
  <2>2. <<"read", i>>[1] = "read" /\ <<"read", i>>[2] = i
    OBVIOUS
  <2> QED
    BY <1>3, <2>1, <2>2
<1>8. x \in Uses("read") /\ x[1] = i
  BY DEF Uses, Using, Lost, Unfinished
<1>9. Uses("read")' = Using(pools', "read") \ {x}
  BY <1>6, <1>7
<1> HIDE DEF x
<1>10. PICK j \in Nat : /\ <<"read", j>> \notin Out /\ \A r \in Uses("read") : r[1] # j
                        /\ Using(pools', "read") = Uses("read") \cup {<<j, args>>}
  BY <1>3 DEF Grows, Uses
<1>11. <<j, args>> # x
  BY SMT, <1>8, <1>10
<1>12. Uses("read")' = (Uses("read") \ {x}) \cup {<<j, args>>}
  BY <1>9, <1>10, <1>11
<1>13. Trades("read", x, args)
  BY <1>8, <1>10, <1>12 DEF Trades
<1> QED
  BY <1>3, <1>4, <1>6, <1>13 DEF Same, Uses, x

\* The handler refuses the data: no read is queued.
LEMMA RefusedStep ==
  ASSUME Laws, RInv, NEW i, handed = {i}, handed' = {},
         UNCHANGED <<pools, kernel, cq, read_free_queue, returned, held, lost>>
  PROVE  /\ RInv' /\ Completed' = Completed
         /\ Loses("read", <<i, pools.arg["read"][i]>>) /\ \A k \in Op : k # "read" => Same(k)
PROOF
<1> DEFINE x == <<i, pools.arg["read"][i]>>
<1>1. pools \in PoolType(Arg) /\ PoolInv(pools, Out) /\ Sound(Arg, pools, pools, Out)
  BY RequestFacts, SoundSelf
<1>2. RInv' /\ Ring' = Ring /\ Completed' = Completed
  BY <1>1, SoundRequests
<1>3. /\ Uses("read")' = Using(pools', "read") \ {<<i, pools'.arg["read"][i]>>}
      /\ \A k \in Op : k # "read" => Uses(k)' = Using(pools', k)
  BY <1>1, <1>2, LeavesUsing
<1>4. x \in Uses("read")
  BY DEF Uses, Using, Lost, Unfinished
<1>5. Uses("read")' = Uses("read") \ {x} /\ \A k \in Op : k # "read" => Same(k)
  BY <1>3 DEF Same, Uses
<1> QED
  BY <1>2, <1>4, <1>5 DEF Loses

\* A read fails: the request stays among the readers.
LEMMA ErrorStep ==
  ASSUME Laws, RInv, NEW i \in Nat, NEW res, Pops("read", i, res), kernel' = kernel,
         lost' = lost \cup {i}, UNCHANGED <<pools, read_free_queue, returned, held, handed>>
  PROVE  /\ RInv' /\ Completed' = Completed \ {<<"read", i>>} /\ \A k \in Op : Same(k)
PROOF
<1>1. RInv' /\ Completed' = Completed \ {<<"read", i>>} /\ Ring' = Ring \ {<<"read", i>>}
  BY ReapLoses
<1>2. pools \in PoolType(Arg) /\ PoolInv(pools, Out)
  BY RequestFacts
<1>3. Unfinished' = Unfinished \cup {i}
  BY DEF Unfinished
<1>4. \A k \in Op : Same(k)
  BY <1>1, <1>2, <1>3, StaysUsing
<1> QED
  BY <1>1, <1>4

=============================================================================
