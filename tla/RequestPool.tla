---------------------------- MODULE RequestPool ----------------------------
(***************************************************************************)
(* RequestPool of src/src/utils/request_pool.h, as operators on the state  *)
(* the four pools share: for each kind of operation the request objects    *)
(* that are free, those waiting for a submission entry and the arguments   *)
(* of each object; and, common to all, the submission queue of the ring    *)
(* and the counter in_flight_.  Objects 1..PoolSize are those of pool_,    *)
(* the later ones those of pool_overflow_.                                 *)
(***************************************************************************)
EXTENDS Integers, Sequences, Functions

CONSTANTS
  PoolSize,  \* N, the number of objects in pool_
  SqSize     \* entries of the submission queue

ASSUME RequestPoolAssumption == PoolSize \in Nat /\ SqSize \in Nat \ {0}

Op == {"openat", "close", "read", "write"}

\* back() and pop_back() of a list that is not empty.
Back(s) == s[Len(s)]
PopBack(s) == SubSeq(s, 1, Len(s) - 1)

\* A pool as constructed, with unused objects.
NewPools ==
  [free |-> [o \in Op |-> [i \in 1..PoolSize |-> i]],
   spare |-> [o \in Op |-> <<>>],
   arg |-> [o \in Op |-> [i \in 1..PoolSize |-> <<>>]],
   overflow |-> [o \in Op |-> <<>>],
   sq |-> <<>>,
   in_flight |-> 0]

\* io_uring_get_sqe returns an entry.
HasSqe(p) == Len(p.sq) < SqSize

\* prep and io_uring_sqe_set_data, or a place in sqe_overflow_.
Prepare(p, o, i) ==
  IF HasSqe(p) THEN [p EXCEPT !.sq = Append(@, <<o, i>>), !.in_flight = @ + 1]
               ELSE [p EXCEPT !.overflow[o] = Append(@, i)]

\* next(args...): an object of pool_, else a returned one of pool_overflow_,
\* else a new one, is given the arguments and prepared.
PoolNext(p, o, args) ==
  IF p.free[o] # <<>>
  THEN LET i == Back(p.free[o]) IN
         Prepare([p EXCEPT !.free[o] = PopBack(@), !.arg[o] = [@ EXCEPT ![i] = args]], o, i)
  ELSE IF p.spare[o] # <<>>
  THEN LET i == Back(p.spare[o]) IN
         Prepare([p EXCEPT !.spare[o] = PopBack(@), !.arg[o] = [@ EXCEPT ![i] = args]], o, i)
  ELSE Prepare([p EXCEPT !.arg[o] = Append(@, args)], o, Len(p.arg[o]) + 1)

\* try_pop_overflow() returns true, and its effect.
CanPopOverflow(p, o) == p.overflow[o] # <<>> /\ HasSqe(p)

PopOverflow(p, o) ==
  [p EXCEPT !.overflow[o] = Tail(@), !.in_flight = @ + 1,
            !.sq = Append(@, <<o, Head(p.overflow[o])>>)]

\* free(req).
PoolFree(p, o, i) ==
  IF i <= PoolSize THEN [p EXCEPT !.free[o] = Append(@, i), !.in_flight = @ - 1]
                   ELSE [p EXCEPT !.spare[o] = Append(@, i), !.in_flight = @ - 1]

-----------------------------------------------------------------------------

\* 1 if x is in S: sums of these say in how many places something is.
Present(x, S) == IF x \in S THEN 1 ELSE 0

\* In how many lists of its pool, and of the submission queue, object i of kind o is.
Lists(p, o, i) ==
  Present(i, Range(p.free[o])) + Present(i, Range(p.spare[o]))
  + Present(i, Range(p.overflow[o])) + Present(<<o, i>>, Range(p.sq))

\* A list of elements of S, none of them twice.
Distinct(s, S) == IsInjective(s) /\ Range(s) \subseteq S

\* The lists hold objects of the pool, none of them twice, and free_list_ only those of
\* pool_: it never holds more than its capacity N, which unchecked_push_back relies on.
ListsSound(p) ==
  /\ IsInjective(p.sq) /\ \A r \in Range(p.sq) : r[1] \in Op /\ r[2] \in DOMAIN p.arg[r[1]]
  /\ \A o \in Op :
       /\ Distinct(p.free[o], DOMAIN p.arg[o] \cap 1..PoolSize) /\ Len(p.free[o]) <= PoolSize
       /\ Distinct(p.spare[o], DOMAIN p.arg[o]) /\ Distinct(p.overflow[o], DOMAIN p.arg[o])

\* Every object is in exactly one of the lists or in out, the requests the pools have
\* handed out and not got back.
PoolInv(p, out) ==
  /\ ListsSound(p)
  /\ \A o \in Op : \A i \in DOMAIN p.arg[o] : Lists(p, o, i) + Present(<<o, i>>, out) = 1
  /\ \A r \in out : r[1] \in Op /\ r[2] \in DOMAIN p.arg[r[1]]

\* The requests of kind o in use, with their arguments: those that wait for an entry, have
\* one, or are in ring, the requests that were submitted.
InUse(p, ring, o) ==
  {<<i, p.arg[o][i]>> : i \in {i \in DOMAIN p.arg[o] : \/ i \in Range(p.overflow[o])
                                                       \/ <<o, i>> \in Range(p.sq) \cup ring}}

\* The state of the pools, with arguments from A.
PoolType(A) ==
  [free : [Op -> Seq(Nat)], spare : [Op -> Seq(Nat)], arg : [Op -> Seq(A)],
   overflow : [Op -> Seq(Nat)], sq : Seq(Op \X Nat), in_flight : Int]
=============================================================================
