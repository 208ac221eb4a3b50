------------------------- MODULE RegexHandlerProofs -------------------------
(***************************************************************************)
(* The worker pool of RegexHandler is correct for any number of workers,   *)
(* any requests and any failures: its invariant is inductive, and each     *)
(* safety property that is model checked follows from it.                  *)
(***************************************************************************)
EXTENDS RegexHandler, SequenceTheorems, TLAPS

\* push_back adds its request to the queue, and only that.
LEMMA PushBack ==
  ASSUME NEW S, NEW s \in Seq(S), NEW e \in S
  PROVE  /\ Append(s, e) \in Seq(S) /\ Append(s, e) # <<>>
         /\ Range(Append(s, e)) = Range(s) \cup {e}
         /\ IsInjective(s) /\ e \notin Range(s) => IsInjective(Append(s, e))
PROOF
<1>1. /\ Append(s, e) \in Seq(S) /\ Append(s, e) # <<>> /\ Len(Append(s, e)) = Len(s) + 1
      /\ \A i \in 1..Len(s) : Append(s, e)[i] = s[i]
      /\ Append(s, e)[Len(s) + 1] = e
  BY AppendProperties
<1>2. Len(s) \in Nat /\ DOMAIN s = 1..Len(s) /\ DOMAIN Append(s, e) = 1..Len(s) + 1
  BY <1>1, LenProperties
<1>3. \A i \in 1..Len(s) + 1 : i \in 1..Len(s) \/ i = Len(s) + 1
  BY <1>2
<1>4. Range(Append(s, e)) = Range(s) \cup {e}
  BY <1>1, <1>2, <1>3 DEF Range
<1>5. IsInjective(s) /\ e \notin Range(s) => IsInjective(Append(s, e))
  BY <1>1, <1>2, <1>3 DEF Range, IsInjective
<1> QED
  BY <1>1, <1>4, <1>5

\* front and pop_front split the queue into its first request and the others.
LEMMA PopFront ==
  ASSUME NEW S, NEW s \in Seq(S), s # <<>>
  PROVE  /\ Head(s) \in S /\ Tail(s) \in Seq(S)
         /\ Range(s) = Range(Tail(s)) \cup {Head(s)}
         /\ IsInjective(s) => IsInjective(Tail(s)) /\ Head(s) \notin Range(Tail(s))
PROOF
<1>1. /\ Head(s) \in S /\ Tail(s) \in Seq(S) /\ Len(Tail(s)) = Len(s) - 1
      /\ \A i \in 1..Len(Tail(s)) : Tail(s)[i] = s[i + 1]
  BY HeadTailProperties
<1>2. Len(s) \in Nat \ {0} /\ DOMAIN s = 1..Len(s) /\ DOMAIN Tail(s) = 1..Len(s) - 1
  BY <1>1, LenProperties, EmptySeq
<1>3. Head(s) = s[1]
  OBVIOUS
<1>4. \A i \in 1..Len(s) - 1 : i + 1 \in 1..Len(s) /\ Tail(s)[i] = s[i + 1] /\ i + 1 # 1
  BY <1>1, <1>2
<1>5. \A i \in 1..Len(s) : i = 1 \/ (i - 1 \in 1..Len(s) - 1 /\ (i - 1) + 1 = i)
  BY <1>2
<1>6. ASSUME NEW i \in 1..Len(s), i # 1
      PROVE  i - 1 \in DOMAIN Tail(s) /\ Tail(s)[i - 1] = s[i]
  BY <1>2, <1>4, <1>5, <1>6
<1>7. Range(s) \subseteq Range(Tail(s)) \cup {Head(s)}
  BY <1>2, <1>3, <1>6 DEF Range
<1>8. Range(Tail(s)) \cup {Head(s)} \subseteq Range(s)
  BY <1>2, <1>3, <1>4 DEF Range
<1>9. ASSUME IsInjective(s)
      PROVE  IsInjective(Tail(s)) /\ Head(s) \notin Range(Tail(s))
  BY <1>2, <1>3, <1>4, <1>9 DEF Range, IsInjective
<1> QED
  BY <1>1, <1>7, <1>8, <1>9

-----------------------------------------------------------------------------

\* A wake-up sends some of the sleeping workers to the lock and moves no other.
Wakes ==
  /\ pc' \in [Worker -> {"idle", "start", "test", "lock", "predicate", "block", "asleep",
                         "take", "scan", "write", "free", "flush", "exit"}]
  /\ \A t \in Worker : pc'[t] = pc[t] \/ (pc[t] = "asleep" /\ pc'[t] = "lock")

\* A step of worker t from one place in its loop to another.
Moves(t, from, to) == pc[t] = from /\ pc' = [pc EXCEPT ![t] = to]

\* notify_one and notify_all wake sleeping workers only.
LEMMA NotifyWakes ==
  ASSUME TypeOK, PassOn \/ NotifyAll
  PROVE  Wakes
PROOF
<1>1. CASE PassOn
  <2>1. CASE UNCHANGED pc
    BY <2>1 DEF TypeOK, Wakes
  <2>2. CASE \E t \in Waiters : pc' = Woken({t})
    BY <2>2 DEF TypeOK, Wakes, Woken, Waiters
  <2> QED
    BY <1>1, <2>1, <2>2 DEF PassOn
<1>2. CASE NotifyAll
  BY <1>2 DEF NotifyAll, TypeOK, Wakes, Woken, Waiters
<1> QED
  BY <1>1, <1>2

\* Every step keeps the types.
LEMMA TypeStep ==
  ASSUME TypeOK, ControlInv, FrontOfNonEmpty, [Next]_vars
  PROVE  TypeOK'
PROOF
<1>1. CASE PassOn
  <2>1. PICK r \in Request \ passed : to_process' = Append(to_process, r) /\ passed' = passed \cup {r}
    BY <1>1 DEF PassOn
  <2>2. to_process' \in Seq(Request)
    BY <2>1 DEF TypeOK
  <2>3. Wakes
    BY <1>1, NotifyWakes
  <2> QED
    BY <1>1, <2>1, <2>2, <2>3 DEF PassOn, TypeOK, Wakes, outputVars
<1>2. CASE StopRunning
  BY <1>2 DEF StopRunning, TypeOK, workerVars, outputVars
<1>3. CASE NotifyAll
  <2>1. Wakes
    BY <1>3, NotifyWakes
  <2> QED
    BY <1>3, <2>1 DEF NotifyAll, TypeOK, Wakes, outputVars
<1>4. CASE Join \/ EndConstruct \/ ConstructThrows
  BY <1>4 DEF Join, EndConstruct, ConstructThrows, TypeOK, workerVars, outputVars
<1>5. ASSUME NEW t \in Worker,
             Spawn(t) \/ Start(t) \/ TestRunning(t) \/ TestPredicate(t) \/ WakeSpuriously(t)
      PROVE  TypeOK'
  BY <1>5 DEF Spawn, Start, TestRunning, TestPredicate, WakeSpuriously, Goto, TypeOK, outputVars
<1>6. ASSUME NEW t \in Worker, Lock(t) \/ Sleep(t)
      PROVE  TypeOK'
  BY <1>6 DEF Lock, Sleep, Goto, TypeOK, outputVars
<1>7. ASSUME NEW t \in Worker, Terminate(t)
      PROVE  TypeOK'
  BY <1>7 DEF Terminate, TypeOK, workerVars
<1>8. ASSUME NEW t \in Worker, Take(t)
      PROVE  TypeOK'
  <2>1. CASE running
    <3>1. to_process # <<>>
      BY <1>8, <2>1 DEF Take, At, FrontOfNonEmpty
    <3>2. Head(to_process) \in Request /\ Tail(to_process) \in Seq(Request)
      BY <3>1, PopFront DEF TypeOK
    <3> QED
      BY <1>8, <2>1, <3>2 DEF Take, Goto, TypeOK, outputVars
  <2>2. CASE ~running
    BY <1>8, <2>2 DEF Take, Goto, TypeOK, outputVars
  <2> QED
    BY <2>1, <2>2
<1>9. ASSUME NEW t \in Worker, Scan(t) \/ FreeRequest(t)
      PROVE  TypeOK'
  <2>1. req[t] \in Request
    BY <1>9 DEF Scan, FreeRequest, At, TypeOK, ControlInv
  <2>2. CASE Scan(t)
    BY <2>1, <2>2 DEF Scan, Goto, TypeOK, outputVars
  <2>3. CASE FreeRequest(t)
    BY <2>1, <2>3 DEF FreeRequest, Goto, TypeOK
  <2> QED
    BY <1>9, <2>2, <2>3
<1>10. ASSUME NEW t \in Worker, WriteFull(t) \/ WriteRest(t)
       PROVE  TypeOK'
  <2>1. CASE WriteFull(t)
    <3>1. SUBSET {req[t]} \subseteq SUBSET Request
      BY <2>1 DEF WriteFull, At, TypeOK, ControlInv
    <3>2. PICK rest \in SUBSET Request : WriteBuffer(t, rest)
      BY <2>1, <3>1 DEF WriteFull
    <3> QED
      BY <2>1, <3>2 DEF WriteFull, WriteBuffer, Goto, TypeOK
  <2>2. CASE WriteRest(t)
    BY <2>2 DEF WriteRest, WriteBuffer, Goto, TypeOK
  <2> QED
    BY <1>10, <2>1, <2>2
<1>11. CASE UNCHANGED vars
  BY <1>11 DEF vars, workerVars, outputVars, TypeOK
<1> QED
  BY <1>1, <1>2, <1>3, <1>4, <1>5, <1>6, <1>7, <1>8, <1>9, <1>10, <1>11 DEF Next, Owner, Step

-----------------------------------------------------------------------------

\* Every step keeps what the workers may rely on at each place of their loop: the only step
\* that clears running is the destructor's, and only the holder of the mutex moves under it.
LEMMA ControlStep ==
  ASSUME TypeOK, ControlInv, FrontOfNonEmpty, TypeOK', [Next]_vars
  PROVE  ControlInv'
PROOF
<1>1. CASE PassOn
  <2>1. Wakes
    BY <1>1, NotifyWakes
  <2> QED
    BY <1>1, <2>1 DEF PassOn, Wakes, ControlInv
<1>2. CASE StopRunning
  BY <1>2 DEF StopRunning, ControlInv, workerVars
<1>3. CASE NotifyAll
  <2>1. Wakes
    BY <1>3, NotifyWakes
  <2> QED
    BY <1>3, <2>1 DEF NotifyAll, Wakes, ControlInv
<1>4. CASE Join \/ EndConstruct \/ ConstructThrows
  BY <1>4 DEF Join, EndConstruct, ConstructThrows, ControlInv, workerVars
<1>5. ASSUME NEW t \in Worker, NEW to \in {"start", "test", "lock", "predicate", "block", "take",
                                           "write", "free", "flush", "exit"},
             UNCHANGED <<owner, running, mutex, req>>, pc' = [pc EXCEPT ![t] = to],
             ~(owner = "gone"), to \in {"flush", "exit"} => ~running,
             pc[t] \in {"predicate", "block", "take"} <=> to \in {"predicate", "block", "take"},
             pc[t] \in {"scan", "write", "free"} <=> to \in {"scan", "write", "free"}
      PROVE  ControlInv'
  BY <1>5 DEF ControlInv, TypeOK
<1>6. ASSUME NEW t \in Worker, ~terminated, pc[t] \notin {"idle", "exit"}
      PROVE  owner # "gone"
  BY <1>6 DEF ControlInv
<1>7. ASSUME NEW t \in Worker, Start(t) \/ TestRunning(t) \/ TestPredicate(t) \/ WakeSpuriously(t)
      PROVE  ControlInv'
  BY <1>5, <1>6, <1>7 DEF Start, TestRunning, TestPredicate, WakeSpuriously, At, Goto
<1>8. ASSUME NEW t \in Worker, Scan(t) \/ WriteFull(t) \/ WriteRest(t)
      PROVE  ControlInv'
  <2>1. CASE Scan(t)
    BY <1>5, <1>6, <2>1 DEF Scan, At, Goto
  <2>2. CASE WriteFull(t)
    BY <1>5, <1>6, <2>2 DEF WriteFull, At, Goto
  <2>3. CASE WriteRest(t)
    <3>1. ~running
      BY <2>3 DEF WriteRest, At, ControlInv
    <3> QED
      BY <1>5, <1>6, <2>3, <3>1 DEF WriteRest, At, Goto
  <2> QED
    BY <1>8, <2>1, <2>2, <2>3
<1>9. ASSUME NEW t \in Worker, Lock(t)
      PROVE  ControlInv'
  BY <1>6, <1>9, RegexHandlerAssumption DEF Lock, At, Goto, ControlInv, TypeOK
<1>10. ASSUME NEW t \in Worker, Sleep(t)
       PROVE  ControlInv'
  BY <1>6, <1>10, RegexHandlerAssumption DEF Sleep, At, Goto, ControlInv, TypeOK
<1>11. ASSUME NEW t \in Worker, Take(t)
       PROVE  ControlInv'
  <2>1. CASE running
    <3>1. to_process # <<>>
      BY <1>11, <2>1 DEF Take, At, FrontOfNonEmpty
    <3>2. Head(to_process) \in Request /\ Head(to_process) # None
      BY <3>1, PopFront, RegexHandlerAssumption DEF TypeOK
    <3> QED
      BY <1>6, <1>11, <2>1, <3>2, RegexHandlerAssumption DEF Take, At, Goto, ControlInv, TypeOK
  <2>2. CASE ~running
    BY <1>6, <1>11, <2>2, RegexHandlerAssumption DEF Take, At, Goto, ControlInv, TypeOK
  <2> QED
    BY <2>1, <2>2
<1>12. ASSUME NEW t \in Worker, FreeRequest(t)
       PROVE  ControlInv'
  BY <1>6, <1>12 DEF FreeRequest, At, Goto, ControlInv, TypeOK
<1>13. ASSUME NEW t \in Worker, Terminate(t)
       PROVE  ControlInv'
  BY <1>13 DEF Terminate, ControlInv, workerVars
<1>14. CASE UNCHANGED vars
  BY <1>14 DEF vars, workerVars, ControlInv
<1>15. ASSUME NEW t \in Worker, Spawn(t)
       PROVE  ControlInv'
  BY <1>5, <1>15 DEF Spawn, At, Goto
<1> QED
  BY <1>1, <1>2, <1>3, <1>4, <1>7, <1>8, <1>9, <1>10, <1>11, <1>12, <1>13, <1>14, <1>15
  DEF Next, Owner, Step

\* front() finds an element: between the predicate and the test of running the mutex keeps
\* every other worker from popping, and the destructor can only clear running.
LEMMA FrontStep ==
  ASSUME TypeOK, ControlInv, FrontOfNonEmpty, [Next]_vars
  PROVE  FrontOfNonEmpty'
PROOF
<1>1. CASE PassOn
  <2>1. to_process' # <<>>
    BY <1>1, PushBack DEF PassOn, TypeOK
  <2> QED
    BY <2>1 DEF FrontOfNonEmpty
<1>2. CASE StopRunning
  BY <1>2 DEF StopRunning, FrontOfNonEmpty
<1>3. CASE NotifyAll
  BY <1>3 DEF NotifyAll, ControlInv, FrontOfNonEmpty
<1>4. ASSUME NEW t \in Worker, NEW to, to # "take",
             UNCHANGED <<to_process, running>>, pc' = [pc EXCEPT ![t] = to]
      PROVE  FrontOfNonEmpty'
  BY <1>4 DEF FrontOfNonEmpty, TypeOK
<1>5. ASSUME NEW t \in Worker, Spawn(t) \/ Step(t) \/ WakeSpuriously(t), ~TestPredicate(t), ~Take(t)
      PROVE  FrontOfNonEmpty'
  BY <1>4, <1>5 DEF Step, Spawn, Start, TestRunning, Lock, Sleep, Scan, WriteFull, FreeRequest,
                    WriteRest, WakeSpuriously, Goto
<1>6. ASSUME NEW t \in Worker, TestPredicate(t)
      PROVE  FrontOfNonEmpty'
  BY <1>6 DEF TestPredicate, Goto, FrontOfNonEmpty, TypeOK
<1>7. ASSUME NEW t \in Worker, Take(t)
      PROVE  FrontOfNonEmpty'
  <2>1. pc'[t] # "take" /\ \A u \in Worker \ {t} : pc'[u] = pc[u]
    BY <1>7 DEF Take, Goto, TypeOK
  <2>2. \A u \in Worker \ {t} : pc[u] # "take"
    BY <1>7 DEF Take, At, ControlInv
  <2> QED
    BY <2>1, <2>2 DEF FrontOfNonEmpty
<1>8. CASE UNCHANGED <<pc, to_process, running>>
  BY <1>8 DEF FrontOfNonEmpty
<1> QED
  BY <1>1, <1>2, <1>3, <1>5, <1>6, <1>7, <1>8
  DEF Next, Owner, EndConstruct, ConstructThrows, Join, Terminate, vars, workerVars

\* Every step leaves each request in one place: operator() puts a new one into the queue,
\* pop_front moves it into the hands of one worker, free_read_request gives it back.
LEMMA PlaceStep ==
  ASSUME TypeOK, ControlInv, FrontOfNonEmpty, OnePlace, [Next]_vars
  PROVE  OnePlace'
PROOF
<1>1. CASE PassOn
  <2>1. PICK r \in Request \ passed : to_process' = Append(to_process, r) /\ passed' = passed \cup {r}
    BY <1>1 DEF PassOn
  <2>2. Hands' = Hands /\ freed' = freed /\ req' = req
    BY <1>1 DEF PassOn, outputVars, Hands
  <2>3. r \notin Range(to_process) /\ r \notin Hands /\ r \notin freed
    BY <2>1 DEF OnePlace
  <2>4. Range(to_process') = Range(to_process) \cup {r} /\ IsInjective(to_process')
    BY <2>1, <2>3, PushBack DEF TypeOK, OnePlace
  <2> QED
    BY <2>1, <2>2, <2>3, <2>4 DEF OnePlace
<1>2. ASSUME NEW t \in Worker, Take(t), running
      PROVE  OnePlace'
  <2> DEFINE r == Head(to_process)
  <2>1. to_process # <<>> /\ req[t] = None
    BY <1>2 DEF Take, At, FrontOfNonEmpty, ControlInv
  <2>2. /\ r \in Request /\ IsInjective(Tail(to_process)) /\ r \notin Range(Tail(to_process))
        /\ Range(to_process) = Range(Tail(to_process)) \cup {r}
    BY <2>1, PopFront DEF TypeOK, OnePlace
  <2>3. /\ to_process' = Tail(to_process) /\ req' = [req EXCEPT ![t] = r]
        /\ UNCHANGED <<passed, freed>>
    BY <1>2 DEF Take, outputVars
  <2>4. r # None
    BY <2>2, RegexHandlerAssumption
  <2>5. Hands' = Hands \cup {r}
    BY <2>1, <2>3, <2>4 DEF Hands, TypeOK
  <2>6. r \notin Hands /\ r \notin freed
    BY <2>2 DEF OnePlace
  <2>7. \A u, v \in Worker : req'[u] = req'[v] => u = v \/ req'[u] = None
    BY <2>1, <2>3, <2>4, <2>6 DEF OnePlace, Hands, TypeOK
  <2> QED
    BY <2>2, <2>3, <2>5, <2>6, <2>7 DEF OnePlace
<1>3. ASSUME NEW t \in Worker, FreeRequest(t)
      PROVE  OnePlace'
  <2>1. /\ req' = [req EXCEPT ![t] = None] /\ freed' = freed \cup {req[t]}
        /\ UNCHANGED <<passed, to_process>>
    BY <1>3 DEF FreeRequest
  <2>2. req[t] \in Hands /\ req[t] # None
    BY <1>3 DEF FreeRequest, At, ControlInv, Hands
  <2>3. Hands' = Hands \ {req[t]}
    BY <2>1, <2>2 DEF Hands, TypeOK, OnePlace
  <2>4. \A u, v \in Worker : req'[u] = req'[v] => u = v \/ req'[u] = None
    BY <2>1 DEF OnePlace, TypeOK
  <2> QED
    BY <2>1, <2>2, <2>3, <2>4 DEF OnePlace
<1>4. CASE UNCHANGED <<to_process, req, passed, freed>>
  BY <1>4 DEF OnePlace, Hands
<1>5. ASSUME NEW t \in Worker, Step(t), ~(Take(t) /\ running), ~FreeRequest(t)
      PROVE  UNCHANGED <<to_process, req, passed, freed>>
  BY <1>5 DEF Step, Start, TestRunning, TestPredicate, Lock, Sleep, Take, Scan, WriteFull,
              WriteRest, outputVars
<1> QED
  BY <1>1, <1>2, <1>3, <1>4, <1>5
  DEF Next, Owner, EndConstruct, ConstructThrows, StopRunning, NotifyAll, Join, Spawn, Terminate,
      WakeSpuriously, vars, workerVars, outputVars

-----------------------------------------------------------------------------

\* Every step keeps the matches of a request in a buffer until a write takes them out.
LEMMA MatchStep ==
  ASSUME TypeOK, ControlInv, OnePlace, CollectInv, MatchesKept, ControlInv', OnePlace', [Next]_vars
  PROVE  CollectInv' /\ MatchesKept'
PROOF
<1> DEFINE Buffered == UNION {write_buffer[t] : t \in Worker}
<1>1. ASSUME CollectInv', \A t \in Worker : pc'[t] \in {"idle", "exit"} => write_buffer'[t] = {},
             freed' \subseteq written' \cup dropped' \cup Buffered'
      PROVE  CollectInv' /\ MatchesKept'
  <2>1. CASE owner' # "gone"
    BY <1>1, <2>1 DEF MatchesKept
  <2>2. CASE owner' = "gone"
    <3>1. \A t \in Worker : pc'[t] \in {"idle", "exit"}
      BY <2>2 DEF ControlInv
    <3>2. Hands' = {} /\ Buffered' = {}
      BY <1>1, <3>1 DEF ControlInv, Hands
    <3> QED
      BY <1>1, <3>2 DEF MatchesKept, OnePlace
  <2> QED
    BY <2>1, <2>2
<1>2. ASSUME UNCHANGED <<freed, written, dropped, write_buffer, req>>,
             \A t \in Worker : pc'[t] \in {"idle", "write", "free", "exit"} => pc'[t] = pc[t]
      PROVE  CollectInv' /\ MatchesKept'
  <2>1. CollectInv' /\ \A t \in Worker : pc'[t] \in {"idle", "exit"} => write_buffer'[t] = {}
    BY <1>2 DEF CollectInv, MatchesKept
  <2> QED
    BY <1>1, <1>2, <2>1 DEF MatchesKept
<1>3. ASSUME NEW t \in Worker, Scan(t)
      PROVE  CollectInv' /\ MatchesKept'
  <2>1. /\ pc[t] = "scan" /\ \E to \in {"write", "free"} : pc' = [pc EXCEPT ![t] = to]
        /\ write_buffer' = [write_buffer EXCEPT ![t] = @ \cup {req[t]}]
        /\ UNCHANGED <<req, freed, written, dropped>>
    BY <1>3 DEF Scan, At, Goto, outputVars
  <2>2. CollectInv'
    BY <2>1 DEF CollectInv, TypeOK
  <2>3. \A u \in Worker : pc'[u] \in {"idle", "exit"} => write_buffer'[u] = {}
    BY <2>1 DEF MatchesKept, TypeOK
  <2>4. Buffered \subseteq Buffered'
    BY <2>1 DEF TypeOK
  <2> QED
    BY <1>1, <2>1, <2>2, <2>3, <2>4 DEF MatchesKept
<1>4. ASSUME NEW t \in Worker, NEW rest \in SUBSET {req[t]}, NEW to, WriteBuffer(t, rest),
             pc' = [pc EXCEPT ![t] = to], UNCHANGED <<req, freed>>,
             \/ pc[t] = "write" /\ to = "free"
             \/ pc[t] = "flush" /\ to = "exit" /\ rest = {}
      PROVE  CollectInv' /\ MatchesKept'
  <2>1. /\ write_buffer' = [write_buffer EXCEPT ![t] = rest]
        /\ write_buffer[t] \subseteq written' \cup dropped' \cup rest
        /\ written \subseteq written' /\ dropped \subseteq dropped'
    BY <1>4 DEF WriteBuffer
  <2>2. CollectInv'
    BY <1>4, <2>1 DEF CollectInv, TypeOK
  <2>3. \A u \in Worker : pc'[u] \in {"idle", "exit"} => write_buffer'[u] = {}
    BY <1>4, <2>1 DEF MatchesKept, TypeOK
  <2>4. Buffered \subseteq written' \cup dropped' \cup Buffered'
    BY <2>1 DEF TypeOK
  <2> QED
    BY <1>1, <1>4, <2>1, <2>2, <2>3, <2>4 DEF MatchesKept
<1>5. ASSUME NEW t \in Worker, WriteFull(t) \/ WriteRest(t)
      PROVE  CollectInv' /\ MatchesKept'
  BY <1>4, <1>5 DEF WriteFull, WriteRest, At, Goto
<1>6. ASSUME NEW t \in Worker, FreeRequest(t)
      PROVE  CollectInv' /\ MatchesKept'
  <2>1. /\ pc[t] = "free" /\ pc' = [pc EXCEPT ![t] = "test"]
        /\ freed' = freed \cup {req[t]} /\ req' = [req EXCEPT ![t] = None]
        /\ UNCHANGED <<write_buffer, written, dropped>>
    BY <1>6 DEF FreeRequest, At, Goto
  <2>2. CollectInv' /\ \A u \in Worker : pc'[u] \in {"idle", "exit"} => write_buffer'[u] = {}
    BY <2>1 DEF CollectInv, MatchesKept, TypeOK
  <2>3. req[t] \in written \cup dropped \cup Buffered
    BY <2>1 DEF CollectInv
  <2> QED
    BY <1>1, <2>1, <2>2, <2>3 DEF MatchesKept
<1>7. ASSUME NEW t \in Worker, Take(t)
      PROVE  CollectInv' /\ MatchesKept'
  <2>1. /\ \E to \in {"scan", "flush"} : pc' = [pc EXCEPT ![t] = to]
        /\ \A u \in Worker \ {t} : req'[u] = req[u]
        /\ UNCHANGED <<write_buffer, freed, written, dropped>>
    BY <1>7 DEF Take, Goto, TypeOK, outputVars
  <2>2. CollectInv' /\ \A u \in Worker : pc'[u] \in {"idle", "exit"} => write_buffer'[u] = {}
    BY <2>1 DEF CollectInv, MatchesKept, TypeOK
  <2> QED
    BY <1>1, <2>1, <2>2 DEF MatchesKept
<1>8. ASSUME NEW t \in Worker,
             \/ Spawn(t) \/ Start(t) \/ TestRunning(t) \/ Lock(t) \/ TestPredicate(t) \/ Sleep(t)
             \/ WakeSpuriously(t) \/ Terminate(t)
      PROVE  CollectInv' /\ MatchesKept'
  BY <1>2, <1>8 DEF Spawn, Start, TestRunning, Lock, TestPredicate, Sleep, WakeSpuriously, Terminate,
                    Goto, TypeOK, workerVars, outputVars
<1>9. CASE Owner \/ UNCHANGED vars
  <2>1. CASE PassOn \/ NotifyAll
    BY <1>2, <2>1, NotifyWakes DEF Wakes, PassOn, NotifyAll, outputVars
  <2>2. CASE EndConstruct \/ ConstructThrows \/ StopRunning \/ Join \/ UNCHANGED vars
    BY <1>2, <2>2 DEF EndConstruct, ConstructThrows, StopRunning, Join, vars, workerVars, outputVars
  <2> QED
    BY <1>9, <2>1, <2>2 DEF Owner
<1> QED
  BY <1>3, <1>5, <1>6, <1>7, <1>8, <1>9 DEF Next, Step

-----------------------------------------------------------------------------

\* IInv is an inductive invariant of RegexHandler: operator(), the destructor and the
\* workers keep it, whatever fails and however they interleave.
THEOREM HandlerInvariance == Spec => []IInv
PROOF
<1>1. Init => IInv
  <2>1. SUFFICES ASSUME Init PROVE IInv
    OBVIOUS
  <2>2. Range(to_process) = {} /\ IsInjective(to_process) /\ to_process \in Seq(Request)
    BY <2>1 DEF Init, Range, IsInjective
  <2>3. TypeOK /\ ControlInv /\ FrontOfNonEmpty /\ CollectInv
    BY <2>1, <2>2, RegexHandlerAssumption
    DEF Init, TypeOK, ControlInv, FrontOfNonEmpty, CollectInv
  <2>4. OnePlace
    BY <2>1, <2>2 DEF Init, OnePlace, Hands
  <2>5. MatchesKept
    BY <2>1 DEF Init, MatchesKept
  <2> QED
    BY <2>3, <2>4, <2>5 DEF IInv
<1>2. IInv /\ [Next]_vars => IInv'
  BY TypeStep, ControlStep, FrontStep, PlaceStep, MatchStep DEF IInv
<1> QED
  BY <1>1, <1>2, PTL DEF Spec

\* The variables of the handler and of its workers keep their types.
THEOREM HandlerTypes == Spec => []TypeOK
PROOF
<1>1. IInv => TypeOK
  BY DEF IInv
<1> QED
  BY <1>1, HandlerInvariance, PTL

\* No request is lost, scanned by two workers or given back twice: each one handed to
\* operator() is in the queue, with one worker, or given back with free_read_request.
THEOREM OnePlaceCorrect == Spec => []OnePlace
PROOF
<1>1. IInv => OnePlace
  BY DEF IInv
<1> QED
  BY <1>1, HandlerInvariance, PTL

\* The matches of a request that was given back are never forgotten: they are in the buffer
\* of a live worker, written, or lost to a write that failed.
THEOREM MatchesKeptCorrect == Spec => []MatchesKept
PROOF
<1>1. IInv => MatchesKept
  BY DEF IInv
<1> QED
  BY <1>1, HandlerInvariance, PTL

\* The worker never calls front() on an empty queue.
THEOREM FrontOfNonEmptyCorrect == Spec => []FrontOfNonEmpty
PROOF
<1>1. IInv => FrontOfNonEmpty
  BY DEF IInv
<1> QED
  BY <1>1, HandlerInvariance, PTL
=============================================================================
