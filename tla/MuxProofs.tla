----------------------------- MODULE MuxProofs ------------------------------
(***************************************************************************)
(* Proofs about Mux: types, where every job is and what becomes of it, and *)
(* the retry fields of the jobs: how much retry time a job has used, and   *)
(* why it is on the timeout list.                                          *)
(***************************************************************************)
EXTENDS Mux, SequenceTheorems, TLAPS

\* What an LPUSH does to the elements of a list ...
LEMMA AppendRange ==
  ASSUME NEW T, NEW s \in Seq(T), NEW x \in T
  PROVE  /\ Append(s, x) \in Seq(T)
         /\ Range(Append(s, x)) = Range(s) \cup {x}
         /\ IsInjective(s) /\ x \notin Range(s) => IsInjective(Append(s, x))
<1>1. /\ Append(s, x) \in Seq(T)
      /\ Len(Append(s, x)) = Len(s) + 1
      /\ \A i \in 1 .. Len(s) : Append(s, x)[i] = s[i]
      /\ Append(s, x)[Len(s) + 1] = x
  BY AppendProperties
<1>2. /\ DOMAIN s = 1 .. Len(s) /\ Len(s) \in Nat
      /\ DOMAIN Append(s, x) = 1 .. Len(s) + 1
  BY <1>1
<1>3. Range(Append(s, x)) = Range(s) \cup {x}
  BY <1>1, <1>2 DEF Range
<1>4. IsInjective(s) /\ x \notin Range(s) => IsInjective(Append(s, x))
  BY <1>1, <1>2 DEF Range, IsInjective
<1> QED BY <1>1, <1>3, <1>4, Zenon

\* ... and what an RPOP does.
LEMMA TailRange ==
  ASSUME NEW T, NEW s \in Seq(T), s # <<>>
  PROVE  /\ Head(s) \in Range(s) /\ Head(s) \in T
         /\ Tail(s) \in Seq(T)
         /\ Range(Tail(s)) \subseteq Range(s)
         /\ Range(s) = Range(Tail(s)) \cup {Head(s)}
         /\ IsInjective(s) => /\ IsInjective(Tail(s))
                              /\ Head(s) \notin Range(Tail(s))
<1>1. /\ Head(s) \in T /\ Tail(s) \in Seq(T)
      /\ Len(Tail(s)) = Len(s) - 1
      /\ \A i \in 1 .. Len(Tail(s)) : Tail(s)[i] = s[i + 1]
  BY HeadTailProperties, Zenon
<1>2. /\ DOMAIN s = 1 .. Len(s) /\ Len(s) \in Nat /\ Len(s) > 0
      /\ DOMAIN Tail(s) = 1 .. Len(s) - 1
      /\ Head(s) = s[1]
  BY <1>1, EmptySeq
<1>3. \A i \in 2 .. Len(s) : s[i] = Tail(s)[i - 1]
  BY <1>1, <1>2
<1>4. Range(s) = Range(Tail(s)) \cup {Head(s)}
  <2>1. Range(s) \subseteq Range(Tail(s)) \cup {Head(s)}
    <3> SUFFICES ASSUME NEW i \in 1 .. Len(s), s[i] # Head(s)
                 PROVE  s[i] \in Range(Tail(s))
      BY <1>2, Zenon DEF Range
    <3>1. i \in 2 .. Len(s) /\ i - 1 \in DOMAIN Tail(s)
      BY <1>2
    <3>2. s[i] = Tail(s)[i - 1]
      BY <1>3, <3>1, Zenon
    <3> QED BY <3>1, <3>2, Zenon DEF Range
  <2>2. Range(Tail(s)) \cup {Head(s)} \subseteq Range(s)
    BY <1>1, <1>2 DEF Range
  <2> QED BY <2>1, <2>2, Zenon
<1>5. IsInjective(s) => /\ IsInjective(Tail(s))
                        /\ Head(s) \notin Range(Tail(s))
  BY <1>1, <1>2 DEF Range, IsInjective
<1> QED BY <1>1, <1>4, <1>5, Zenon

-----------------------------------------------------------------------------
\* A goroutine holds a job exactly while it has one to settle, and before Serve
\* has started there is no worker.
PcOK ==
  /\ \A w \in Workers : hold[w] # NoJob <=> wpc[w] = "send"
  /\ \A m \in Muxers : rhold[m] # NoJob <=> rpc[m] \in QueueTyp
  /\ \A w \in Workers : rpc[w[1]] = "off" => wpc[w] = "off"

-----------------------------------------------------------------------------
\* The retry fields of a job stay well typed.
LEMMA AttrType ==
  ASSUME NEW a \in Attr, NEW c \in Confs
  PROVE  NewAttr(c) \in Attr /\ Executed(a, c) \in Attr /\ Judged(a) \in Attr
<1>1. /\ c.isRetry \in BOOLEAN /\ c.retryTime \in Int /\ RetryDur \in Int
  BY ConfsAssumption, BoundsAssumption
<1>2. NewAttr(c) \in Attr
  BY <1>1 DEF NewAttr, Attr
<1>3. Executed(a, c) \in Attr
  <2>1. CASE a.begin
    BY <1>1, <2>1 DEF Executed, Attr
  <2>2. CASE ~a.begin
    BY <1>1, <2>2 DEF Executed, Attr
  <2> QED BY <2>1, <2>2, Zenon
<1>4. Judged(a) \in Attr
  <2>1. DurTime(a) \in Int
    BY <1>1 DEF DurTime, Attr
  <2>2. CASE RetryDest(a) = "common"
    BY <2>1, <2>2 DEF Judged, Attr
  <2>3. CASE RetryDest(a) # "common"
    BY <2>1, <2>3, Zenon DEF Judged, Attr
  <2> QED BY <2>2, <2>3, Zenon
<1> QED BY <1>2, <1>3, <1>4, Zenon

\* storage.AddQueue keeps lists and fields well typed.
LEMMA AddQueueType ==
  ASSUME TypeOK, NEW typ \in QueueTyp, NEW id \in Ids, NEW at \in [Ids -> Attr],
         NEW free \in 1 .. MaxJobs + 1, AddQueue(typ, id, at, free)
  PROVE  /\ list' \in [QueueTyp -> Seq(Ids)]
         /\ attr' \in [Ids -> Attr]
         /\ next' \in 1 .. MaxJobs + 1
         /\ lost' \subseteq Ids
         /\ faults' \in Nat
<1>1. MaxJobs \in Nat /\ list[typ] \in Seq(Ids)
  BY BoundsAssumption, Zenon DEF TypeOK
<1>2. /\ Append(list[typ], id) \in Seq(Ids)
      /\ free \in Ids => Append(Append(list[typ], id), free) \in Seq(Ids)
  BY <1>1, AppendRange, Zenon
<1>3. CASE Pushed(typ, id, at, free)
  BY <1>1, <1>2, <1>3, Zenon DEF TypeOK, Pushed
<1>4. CASE PushLost(id, at, free)
  BY <1>1, <1>2, <1>4 DEF TypeOK, Fault, PushLost
<1>5. CASE PushedTwice(typ, id, at, free)
  BY <1>1, <1>2, <1>5 DEF TypeOK, Fault, Ids, PushedTwice
<1> QED BY <1>3, <1>4, <1>5, Zenon DEF AddQueue

\* So do the two outcomes of GetJobsFromQueue.
LEMMA TakeType ==
  ASSUME TypeOK, NEW typ \in QueueTyp, Take(typ)
  PROVE  /\ list' \in [QueueTyp -> Seq(Ids)]
         /\ Head(list[typ]) \in Ids
<1>1. list[typ] \in Seq(Ids) /\ list[typ] # <<>>
  BY Zenon DEF TypeOK, Take
<1> QED BY <1>1, TailRange, Zenon DEF TypeOK, Take

\* The bus starts with empty lists and no muxer.
LEMMA InitType == Init => TypeOK
<1> SUFFICES ASSUME Init PROVE TypeOK
  OBVIOUS
<1> DEFINE c0 == [isRetry |-> FALSE, retryTime |-> 0]
<1>1. NewAttr(c0) \in Attr
  BY DEF NewAttr, Attr
<1>2. \A q \in QueueTyp : <<>> \in Seq(Ids)
  BY EmptySeq, Zenon
<1>3. (CHOOSE c \in Confs : TRUE) \in Confs
  BY ConfsAssumption, Zenon
<1> QED BY <1>1, <1>2, <1>3, BoundsAssumption DEF Init, TypeOK, QueueTyp

\* Every action keeps every variable well typed; PcOK gives the goroutines
\* that settle a job a job to settle.
LEMMA NextType == TypeOK /\ PcOK /\ [Next]_vars => TypeOK'
<1> SUFFICES ASSUME TypeOK, PcOK, [Next]_vars PROVE TypeOK'
  OBVIOUS
<1> USE DEF redisVars, muxVars, workerVars, retryVars, adminVars
<1>1. ASSUME NEW m \in Muxers, NEW c \in Confs, Open(m, c) PROVE TypeOK'
  BY <1>1, Zenon DEF TypeOK, Open
<1>2. ASSUME NEW m \in Muxers, NEW c \in Confs, Serve(m, c) PROVE TypeOK'
  BY <1>2, Zenon DEF TypeOK, Serve
<1>3. ASSUME NEW m \in Muxers, Close(m) PROVE TypeOK'
  BY <1>3, Zenon DEF TypeOK, Close
<1>4. ASSUME NEW m \in Muxers, AddJobs(m) PROVE TypeOK'
  <2> DEFINE at == [attr EXCEPT ![next] = NewAttr(applied[m])]
  <2>1. applied[m] \in Confs /\ next \in Ids /\ next + 1 \in 1 .. MaxJobs + 1
    BY <1>4, BoundsAssumption DEF TypeOK, AddJobs, Ids
  <2>2. at \in [Ids -> Attr]
    BY <2>1, AttrType, Zenon DEF TypeOK
  <2>3. AddQueue("common", next, at, next + 1)
    BY <1>4, Zenon DEF AddJobs
  <2> HIDE DEF at
  <2> QED BY <1>4, <2>1, <2>2, <2>3, AddQueueType, Zenon DEF AddJobs, TypeOK, QueueTyp
<1>5. ASSUME NEW m \in Muxers, GetJobs(m) PROVE TypeOK'
  BY <1>5, TakeType, Zenon DEF TypeOK, GetJobs, QueueTyp
<1>6. ASSUME NEW m \in Muxers, GetJobsLost(m) PROVE TypeOK'
  BY <1>6, TakeType DEF TypeOK, GetJobsLost, TakeLost, QueueTyp, Fault
<1>7. ASSUME NEW m \in Muxers, RetryIdle(m) \/ RetryCheck(m) PROVE TypeOK'
  BY <1>7, Zenon DEF TypeOK, RetryIdle, RetryCheck
<1>8. ASSUME NEW m \in Muxers, RetryPop(m) PROVE TypeOK'
  <2>1. Head(list["retry"]) \in Ids /\ list' \in [QueueTyp -> Seq(Ids)]
    BY <1>8, TakeType, Zenon DEF QueueTyp, RetryPop
  <2>2. /\ attr[Head(list["retry"])] \in Attr
        /\ Judged(attr[Head(list["retry"])]) \in Attr
        /\ RetryDest(attr[Head(list["retry"])]) \in QueueTyp
    BY <2>1, AttrType, ConfsAssumption, Zenon DEF TypeOK, RetryDest, QueueTyp
  <2> QED BY <1>8, <2>1, <2>2, Zenon DEF TypeOK, RetryPop
<1>9. ASSUME NEW m \in Muxers, RetryPopLost(m) PROVE TypeOK'
  BY <1>9, TakeType DEF TypeOK, RetryPopLost, TakeLost, QueueTyp, Fault
<1>10. ASSUME NEW m \in Muxers, RetryMiss(m) PROVE TypeOK'
  BY <1>10 DEF TypeOK, RetryMiss, Miss, Fault
<1>11. ASSUME NEW m \in Muxers, RetryPut(m) PROVE TypeOK'
  <2>1. rhold[m] \in Ids /\ attr \in [Ids -> Attr] /\ next \in 1 .. MaxJobs + 1
    BY <1>11, Zenon DEF TypeOK, PcOK, RetryPut
  <2> QED BY <1>11, <2>1, AddQueueType, Zenon DEF RetryPut, TypeOK
<1>12. ASSUME NEW m \in Muxers, NEW count \in 0 .. MaxJobs, RecoverStart(m, count)
       PROVE  TypeOK'
  BY <1>12, BoundsAssumption DEF TypeOK, RecoverStart, All
<1>13. ASSUME NEW m \in Muxers, Clean(m) PROVE TypeOK'
  <2>1. <<>> \in Seq(Ids)
    BY EmptySeq, Zenon
  <2>2. Elements("retry") \subseteq Ids
    BY RangeOfSeq, Zenon DEF TypeOK, QueueTyp, Elements
  <2> QED BY <1>13, <2>1, <2>2 DEF TypeOK, Clean, QueueTyp
<1>14. ASSUME NEW w \in Workers, LoopPing(w) \/ WorkerCheck(w) PROVE TypeOK'
  BY <1>14, Zenon DEF TypeOK, LoopPing, WorkerCheck
<1>15. ASSUME NEW w \in Workers, WorkerPop(w) PROVE TypeOK'
  <2>1. /\ Head(list["common"]) \in Ids /\ list' \in [QueueTyp -> Seq(Ids)]
        /\ conf[w[1]] \in Confs
    BY <1>15, TakeType, Zenon DEF QueueTyp, WorkerPop, Workers, TypeOK
  <2>2. Executed(attr[Head(list["common"])], conf[w[1]]) \in Attr
    BY <2>1, AttrType, Zenon DEF TypeOK
  <2> QED BY <1>15, <2>1, <2>2, Zenon DEF TypeOK, WorkerPop
<1>16. ASSUME NEW w \in Workers, WorkerPopLost(w) PROVE TypeOK'
  BY <1>16, TakeType DEF TypeOK, WorkerPopLost, TakeLost, QueueTyp, Fault
<1>17. ASSUME NEW w \in Workers, WorkerMiss(w) PROVE TypeOK'
  BY <1>17 DEF TypeOK, WorkerMiss, Miss, Fault
<1>18. ASSUME NEW w \in Workers, WorkerSuccess(w) PROVE TypeOK'
  BY <1>18, Zenon DEF TypeOK, WorkerSuccess, PcOK
<1>19. ASSUME NEW w \in Workers, NEW code \in Failures, WorkerFailure(w, code)
       PROVE  TypeOK'
  <2>1. hold[w] \in Ids /\ attr \in [Ids -> Attr] /\ next \in 1 .. MaxJobs + 1
    BY <1>19 DEF TypeOK, PcOK, WorkerFailure
  <2> QED BY <1>19, <2>1, AddQueueType, Zenon DEF WorkerFailure, TypeOK, QueueTyp
<1>20. CASE RecoverMove
  <2>1. /\ Head(list["retry"]) \in Ids /\ Tail(list["retry"]) \in Seq(Ids)
        /\ list["common"] \in Seq(Ids)
    BY <1>20, TailRange, Zenon DEF TypeOK, QueueTyp, RecoverMove
  <2>2. Append(list["common"], Head(list["retry"])) \in Seq(Ids)
    BY <2>1, AppendRange, Zenon
  <2>3. list' \in [QueueTyp -> Seq(Ids)]
    BY <1>20, <2>1, <2>2, Zenon DEF TypeOK, RecoverMove, QueueTyp
  <2>4. recover' \in {All} \cup Nat
    BY <1>20 DEF TypeOK, RecoverMove
  <2>5. faults' \in Nat /\ admin' \in Nat
    BY <1>20 DEF TypeOK, RecoverMove, Fault
  <2> QED BY <1>20, <2>3, <2>4, <2>5, Zenon DEF TypeOK, RecoverMove
<1>21. CASE RecoverEnd
  BY <1>21 DEF TypeOK, RecoverEnd, Miss, Fault
<1>22. CASE Tick
  <2>1. \A a \in Attr : Older(a) \in Attr
    BY DEF Older, Attr
  <2> QED BY <1>22, <2>1, Zenon DEF TypeOK, Tick
<1>23. CASE Crash
  BY <1>23 DEF TypeOK, Crash, InMemory
<1>24. CASE UNCHANGED vars
  BY <1>24, Zenon DEF TypeOK, vars
<1> QED BY <1>1, <1>2, <1>3, <1>4, <1>5, <1>6, <1>7, <1>8, <1>9, <1>10, <1>11,
           <1>12, <1>13, <1>14, <1>15, <1>16, <1>17, <1>18, <1>19, <1>20, <1>21,
           <1>22, <1>23, <1>24, Zenon DEF Next, Worker, RetryLoop

-----------------------------------------------------------------------------
\* A goroutine holds a job exactly while it has one to settle: a pop gives it
\* one, the reply or the push takes it away, and no other step touches either.
LEMMA NextPc == TypeOK /\ PcOK /\ [Next]_vars => PcOK'
<1> SUFFICES ASSUME TypeOK, PcOK, [Next]_vars PROVE PcOK'
  OBVIOUS
<1> USE DEF redisVars, muxVars, workerVars, retryVars, adminVars
<1>1. ASSUME NEW m \in Muxers, NEW c \in Confs, Serve(m, c) PROVE PcOK'
  BY <1>1 DEF TypeOK, Serve, PcOK, Workers, QueueTyp
<1>2. ASSUME NEW m \in Muxers, RetryIdle(m) \/ RetryCheck(m) \/ RetryMiss(m)
      PROVE  PcOK'
  <2>1. /\ rpc[m] \notin QueueTyp
        /\ \/ rpc' = [rpc EXCEPT ![m] = "exit"]
           \/ rpc' = [rpc EXCEPT ![m] = "check"]
           \/ rpc' = [rpc EXCEPT ![m] = "pop"]
        /\ UNCHANGED <<wpc, hold, rhold>> /\ rpc[m] # "off"
    BY <1>2, Zenon DEF RetryIdle, RetryCheck, RetryMiss, QueueTyp
  <2>2. \A n \in Muxers : /\ rpc'[n] \in QueueTyp <=> rpc[n] \in QueueTyp
                          /\ rpc'[n] = "off" <=> rpc[n] = "off"
    BY <2>1 DEF TypeOK, QueueTyp
  <2>3. \A w \in Workers : w[1] \in Muxers
    BY Zenon DEF Workers
  <2> QED BY <2>1, <2>2, <2>3, Zenon DEF PcOK
<1>3. ASSUME NEW m \in Muxers, RetryPop(m) PROVE PcOK'
  <2>1. Head(list["retry"]) \in Ids
    BY <1>3, TakeType, Zenon DEF QueueTyp, RetryPop
  <2>2. Head(list["retry"]) # NoJob
    BY <2>1, BoundsAssumption DEF Ids, NoJob
  <2>3. RetryDest(attr[Head(list["retry"])]) \in QueueTyp \ {"off"}
    BY Zenon DEF RetryDest, QueueTyp
  <2> QED BY <1>3, <2>2, <2>3 DEF TypeOK, RetryPop, PcOK
<1>4. ASSUME NEW m \in Muxers, RetryPut(m) PROVE PcOK'
  BY <1>4 DEF TypeOK, RetryPut, PcOK, QueueTyp
<1>5. ASSUME NEW w \in Workers, LoopPing(w) \/ WorkerCheck(w) \/ WorkerMiss(w)
      PROVE  PcOK'
  BY <1>5 DEF TypeOK, LoopPing, WorkerCheck, WorkerMiss, PcOK
<1>6. ASSUME NEW w \in Workers, WorkerPop(w) PROVE PcOK'
  <2>1. Head(list["common"]) \in Ids
    BY <1>6, TakeType, Zenon DEF QueueTyp, WorkerPop
  <2>2. Head(list["common"]) # NoJob
    BY <2>1, BoundsAssumption DEF Ids, NoJob
  <2> QED BY <1>6, <2>2, Zenon DEF TypeOK, WorkerPop, PcOK
<1>7. ASSUME NEW w \in Workers, WorkerSuccess(w) PROVE PcOK'
  BY <1>7, Zenon DEF TypeOK, WorkerSuccess, PcOK
<1>8. ASSUME NEW w \in Workers, NEW code \in Failures, WorkerFailure(w, code)
      PROVE  PcOK'
  BY <1>8, Zenon DEF TypeOK, WorkerFailure, PcOK
<1>9. CASE Crash
  <2>1. /\ \A w \in Workers : /\ hold'[w] = NoJob
                              /\ wpc'[w] \in {"off", "exit"}
                              /\ up[w[1]] = "new" <=> wpc'[w] = "off"
        /\ \A m \in Muxers : /\ rhold'[m] = NoJob
                             /\ rpc'[m] \in {"off", "exit"}
                             /\ up[m] = "new" <=> rpc'[m] = "off"
        /\ \A w \in Workers : w[1] \in Muxers
    BY <1>9, Zenon DEF Crash, Workers
  <2>2. /\ \A w \in Workers : wpc'[w] # "send"
        /\ \A m \in Muxers : rpc'[m] \notin QueueTyp
        /\ \A w \in Workers : rpc'[w[1]] = "off" => wpc'[w] = "off"
    BY <2>1, Zenon DEF QueueTyp
  <2> QED BY <2>1, <2>2, Zenon DEF PcOK
<1>10. CASE UNCHANGED <<workerVars, retryVars>>
  BY <1>10, Zenon DEF PcOK
<1>11. ASSUME NEW m \in Muxers,
              \/ \E c \in Confs : Open(m, c)
              \/ Close(m) \/ AddJobs(m) \/ GetJobs(m) \/ GetJobsLost(m)
              \/ RetryPopLost(m)
              \/ \E count \in 0 .. MaxJobs : RecoverStart(m, count)
              \/ Clean(m)
       PROVE  UNCHANGED <<workerVars, retryVars>>
  BY <1>11, Zenon DEF Open, Close, AddJobs, GetJobs, GetJobsLost, RetryPopLost,
               RecoverStart, Clean
<1>12. ASSUME \/ \E w \in Workers : WorkerPopLost(w)
              \/ RecoverMove \/ RecoverEnd \/ Tick \/ UNCHANGED vars
       PROVE  UNCHANGED <<workerVars, retryVars>>
  BY <1>12, Zenon DEF WorkerPopLost, RecoverMove, RecoverEnd, Tick, vars
<1> QED BY <1>1, <1>2, <1>3, <1>4, <1>5, <1>6, <1>7, <1>8, <1>9, <1>10, <1>11,
           <1>12, Zenon DEF Next, Worker, RetryLoop

\* Every variable of the program holds what its type says, for any number of
\* muxers, workers and jobs: no goroutine settles a job it does not hold.
THEOREM TypeCorrect == Spec => [](TypeOK /\ PcOK)
<1>1. Init => TypeOK /\ PcOK
  BY InitType, Zenon DEF Init, PcOK, QueueTyp
<1>2. TypeOK /\ PcOK /\ [Next]_vars => (TypeOK /\ PcOK)'
  BY NextType, NextPc, Zenon
<1> QED BY <1>1, <1>2, PTL DEF Spec

-----------------------------------------------------------------------------
\* What each kind of step does to the places of the jobs.

\* An LPUSH of jobs that are on no list, when "s" is the list after it.
LEMMA PushEffect ==
  ASSUME TypeOK, ListsDistinct, NEW typ \in QueueTyp,
         NEW S \in SUBSET Ids, S \cap Queued = {},
         NEW s, Range(s) = Elements(typ) \cup S, IsInjective(s),
         list' = [list EXCEPT ![typ] = s]
  PROVE  /\ ListsDistinct'
         /\ Queued' = Queued \cup S
<1>1. \A q \in QueueTyp : list'[q] = IF q = typ THEN s ELSE list[q]
  BY Zenon DEF TypeOK
<1>2. \A q \in QueueTyp :
        Elements(q)' = IF q = typ THEN Elements(typ) \cup S ELSE Elements(q)
  BY <1>1 DEF Elements
<1>3. \A q \in QueueTyp : S \cap Elements(q) = {}
  BY DEF Queued
<1>4. ListsDistinct'
  BY <1>1, <1>2, <1>3 DEF ListsDistinct
<1> QED BY <1>2, <1>4 DEF Queued

\* An RPOP.
LEMMA TakeEffect ==
  ASSUME TypeOK, ListsDistinct, NEW typ \in QueueTyp, Take(typ)
  PROVE  /\ ListsDistinct'
         /\ Head(list[typ]) \in Queued
         /\ Queued' = Queued \ {Head(list[typ])}
<1>1. list[typ] \in Seq(Ids) /\ list[typ] # <<>>
  BY Zenon DEF TypeOK, Take
<1>2. /\ Range(list[typ]) = Range(Tail(list[typ])) \cup {Head(list[typ])}
      /\ IsInjective(Tail(list[typ]))
      /\ Head(list[typ]) \notin Range(Tail(list[typ]))
  BY <1>1, TailRange, Zenon DEF ListsDistinct
<1>3. \A q \in QueueTyp :
        list'[q] = IF q = typ THEN Tail(list[typ]) ELSE list[q]
  BY Zenon DEF TypeOK, Take
<1>4. \A q \in QueueTyp :
        Elements(q)' = IF q = typ THEN Elements(typ) \ {Head(list[typ])}
                                  ELSE Elements(q)
  BY <1>2, <1>3, Zenon DEF Elements
<1>5. ListsDistinct'
  BY <1>2, <1>3, <1>4, Zenon DEF ListsDistinct, Elements
<1>6. \A q \in QueueTyp \ {typ} : Head(list[typ]) \notin Elements(q)
  BY <1>2, Zenon DEF ListsDistinct, Elements
<1>7. Queued' = Queued \ {Head(list[typ])}
  BY <1>4, <1>6, Zenon DEF Queued
<1> QED BY <1>2, <1>5, <1>7, Zenon DEF Queued, Elements

\* A worker gets a job nobody holds, or gives up the one it holds.
LEMMA HoldEffect ==
  ASSUME TypeOK, HandsDistinct, NEW w \in Workers, NEW id \in Ids \cup {NoJob},
         hold' = [hold EXCEPT ![w] = id], UNCHANGED rhold, id \notin Held
  PROVE  /\ HandsDistinct'
         /\ Held' = (Held \cup {id}) \ {hold[w], NoJob}
<1>1. \A v \in Workers : hold'[v] = IF v = w THEN id ELSE hold[v]
  BY Zenon DEF TypeOK
<1>2. \A v \in Workers : hold[v] \in Held \/ hold[v] = NoJob
  BY Zenon DEF Held, InMemory
<1>3. \A m \in Muxers : rhold[m] \in Held \/ rhold[m] = NoJob
  BY Zenon DEF Held, InMemory
<1>4. HandsDistinct'
  BY <1>1, <1>2, <1>3 DEF HandsDistinct
<1>5. Held' \subseteq (Held \cup {id}) \ {hold[w], NoJob}
  BY <1>1, <1>2, <1>3 DEF HandsDistinct, Held, InMemory
<1>6. (Held \cup {id}) \ {hold[w], NoJob} \subseteq Held'
  BY <1>1, Zenon DEF Held, InMemory
<1> QED BY <1>4, <1>5, <1>6, Zenon

\* The retry loop gets a job nobody holds, or gives up the one it holds.
LEMMA RholdEffect ==
  ASSUME TypeOK, HandsDistinct, NEW m \in Muxers, NEW id \in Ids \cup {NoJob},
         rhold' = [rhold EXCEPT ![m] = id], UNCHANGED hold, id \notin Held
  PROVE  /\ HandsDistinct'
         /\ Held' = (Held \cup {id}) \ {rhold[m], NoJob}
<1>1. \A n \in Muxers : rhold'[n] = IF n = m THEN id ELSE rhold[n]
  BY Zenon DEF TypeOK
<1>2. \A v \in Workers : hold[v] \in Held \/ hold[v] = NoJob
  BY Zenon DEF Held, InMemory
<1>3. \A n \in Muxers : rhold[n] \in Held \/ rhold[n] = NoJob
  BY Zenon DEF Held, InMemory
<1>4. HandsDistinct'
  BY <1>1, <1>2, <1>3 DEF HandsDistinct
<1>5. Held' \subseteq (Held \cup {id}) \ {rhold[m], NoJob}
  BY <1>1, <1>2, <1>3 DEF HandsDistinct, Held, InMemory
<1>6. (Held \cup {id}) \ {rhold[m], NoJob} \subseteq Held'
  BY <1>1, Zenon DEF Held, InMemory
<1> QED BY <1>4, <1>5, <1>6, Zenon

\* storage.AddQueue: the job is on its list, or gone, or there is a second
\* element for it.
LEMMA AddQueueEffect ==
  ASSUME TypeOK, ListsDistinct, NEW typ \in QueueTyp, NEW id \in Ids,
         NEW at \in [Ids -> Attr], NEW free \in 1 .. MaxJobs + 1,
         id \notin Queued, free \notin Queued, id # free,
         AddQueue(typ, id, at, free)
  PROVE  /\ ListsDistinct'
         /\ \/ Queued' = Queued \cup {id} /\ lost' = lost /\ next' = free
            \/ Queued' = Queued /\ lost' = lost \cup {id} /\ next' = free
            \/ /\ Queued' = Queued \cup {id, free} /\ lost' = lost
               /\ next' = free + 1 /\ free \in Ids
<1>1. /\ list[typ] \in Seq(Ids) /\ IsInjective(list[typ])
      /\ id \notin Range(list[typ]) /\ free \notin Range(list[typ])
  BY Zenon DEF TypeOK, ListsDistinct, Queued, Elements
<1> DEFINE s == Append(list[typ], id)
           t == Append(s, free)
<1>2. s \in Seq(Ids) /\ Range(s) = Range(list[typ]) \cup {id} /\ IsInjective(s)
  BY <1>1, AppendRange
<1>3. CASE Pushed(typ, id, at, free)
  <2>1. list' = [list EXCEPT ![typ] = s] /\ lost' = lost /\ next' = free
    BY <1>3, Zenon DEF Pushed
  <2> HIDE DEF s
  <2>2. /\ {id} \in SUBSET Ids /\ {id} \cap Queued = {}
        /\ Range(s) = Elements(typ) \cup {id}
    BY <1>2, Zenon DEF Elements
  <2>3. ListsDistinct' /\ Queued' = Queued \cup {id}
    BY <1>2, <2>1, <2>2, PushEffect, Zenon
  <2> QED BY <2>1, <2>3, Zenon
<1>4. CASE PushLost(id, at, free)
  BY <1>4, Zenon DEF PushLost, ListsDistinct, Queued, Elements
<1>5. CASE PushedTwice(typ, id, at, free)
  <2> HIDE DEF s
  <2>1. free \in Ids /\ free \notin Range(s)
    BY <1>1, <1>2, <1>5, Zenon DEF PushedTwice
  <2>2. Range(t) = Range(s) \cup {free} /\ IsInjective(t)
    BY <1>2, <2>1, AppendRange
  <2>3. list' = [list EXCEPT ![typ] = t] /\ lost' = lost /\ next' = free + 1
    BY <1>5, Zenon DEF PushedTwice, s
  <2> HIDE DEF t
  <2>4. /\ {id, free} \in SUBSET Ids /\ {id, free} \cap Queued = {}
        /\ Range(t) = Elements(typ) \cup {id, free}
    BY <1>2, <2>1, <2>2, Zenon DEF Elements
  <2>5. ListsDistinct' /\ Queued' = Queued \cup {id, free}
    BY <2>1, <2>2, <2>3, <2>4, PushEffect, Zenon
  <2> QED BY <2>1, <2>3, <2>5, Zenon
<1> QED BY <1>3, <1>4, <1>5, Zenon DEF AddQueue

\* Where the jobs are: every element created so far is in exactly one place.
Places == OnePlace /\ NothingForgotten

\* The five kinds of place partition the elements created so far.
LEMMA PlacesArePartition ==
  ASSUME TypeOK, Places
  PROVE  /\ Queued \subseteq Ids /\ Held \subseteq Ids
         /\ Settled \subseteq Ids /\ NoJob \notin Ids
         /\ \A i \in Queued \cup Held \cup Settled : i < next
         /\ next \notin Queued \cup Held \cup Settled
<1>1. \A q \in QueueTyp : Elements(q) \subseteq Ids
  BY RangeOfSeq, Zenon DEF TypeOK, Elements
<1>2. Queued \subseteq Ids
  BY <1>1, Zenon DEF Queued
<1>3. Held \subseteq Ids /\ NoJob \notin Ids
  BY BoundsAssumption DEF TypeOK, Held, InMemory, Ids, NoJob
<1>4. next \in Nat /\ \A i \in 1 .. next - 1 : i < next
  BY BoundsAssumption DEF TypeOK
<1>5. Settled \subseteq Ids
  BY Zenon DEF TypeOK, Settled
<1> QED BY <1>2, <1>3, <1>4, <1>5 DEF Places, NothingForgotten

\* A new job takes the next number.
LEMMA OneMore == \A n \in Nat \ {0} : 1 .. (n + 1) - 1 = (1 .. n - 1) \cup {n}
  OBVIOUS

\* Every step moves a job from one place to another, adds elements that did not
\* exist before, or moves nothing.
LEMMA NextPlaces ==
  TypeOK /\ PcOK /\ Places /\ [Next]_vars => Places'
<1> SUFFICES ASSUME TypeOK, PcOK, Places, [Next]_vars PROVE Places'
  OBVIOUS
<1> USE DEF redisVars, muxVars, workerVars, retryVars, adminVars
<1>0. /\ ListsDistinct /\ HandsDistinct
      /\ Queued \subseteq Ids /\ Held \subseteq Ids /\ Settled \subseteq Ids
      /\ NoJob \notin Ids
      /\ \A i \in Queued \cup Held \cup Settled : i < next
      /\ next \notin Queued \cup Held \cup Settled
      /\ next \in 1 .. MaxJobs + 1 /\ next \in Nat \ {0}
      /\ attr \in [Ids -> Attr]
  BY PlacesArePartition, BoundsAssumption DEF Places, OnePlace, TypeOK
<1>1. ASSUME NEW m \in Muxers, AddJobs(m) PROVE Places'
  <2> DEFINE at == [attr EXCEPT ![next] = NewAttr(applied[m])]
  <2>0. \A i \in Queued \cup Held \cup Settled : i \in Int /\ i # next + 1
    BY <1>0 DEF Ids
  <2>1. /\ applied[m] \in Confs /\ next \in Ids
        /\ next + 1 \in 1 .. MaxJobs + 1 /\ next # next + 1
        /\ next + 1 \notin Queued \cup Held \cup Settled
    BY <1>0, <1>1, <2>0, BoundsAssumption DEF TypeOK, AddJobs, Ids
  <2>2. at \in [Ids -> Attr]
    BY <2>1, AttrType, Zenon DEF TypeOK
  <2>3. AddQueue("common", next, at, next + 1) /\ "common" \in QueueTyp
    BY <1>1, Zenon DEF AddJobs, QueueTyp
  <2> HIDE DEF at
  <2>4. /\ ListsDistinct'
        /\ \/ Queued' = Queued \cup {next} /\ lost' = lost /\ next' = next + 1
           \/ Queued' = Queued /\ lost' = lost \cup {next} /\ next' = next + 1
           \/ /\ Queued' = Queued \cup {next, next + 1} /\ lost' = lost
              /\ next' = next + 1 + 1
    BY <1>0, <2>1, <2>2, <2>3, AddQueueEffect
  <2>5. HandsDistinct' /\ Held' = Held /\ done' = done /\ taken' = taken
    BY <1>0, <1>1, ZenonT(30) DEF AddJobs, HandsDistinct, Held, InMemory
  <2>6. OnePlace'
    <3> HIDE DEF Ids
    <3>1. /\ Queued \cap Held = {} /\ (Queued \cup Held) \cap Settled = {}
          /\ done \cap taken = {} /\ done \cap lost = {} /\ taken \cap lost = {}
      BY Zenon DEF Places, OnePlace
    <3>2. next \notin Queued \cup Held \cup Settled
      BY <1>0, Zenon
    <3>3. CASE Queued' = Queued \cup {next} /\ lost' = lost
      BY <2>4, <2>5, <3>1, <3>2, <3>3 DEF OnePlace, Settled
    <3>4. CASE Queued' = Queued /\ lost' = lost \cup {next}
      BY <2>4, <2>5, <3>1, <3>2, <3>4 DEF OnePlace, Settled
    <3>5. CASE Queued' = Queued \cup {next, next + 1} /\ lost' = lost
      BY <2>1, <2>4, <2>5, <3>1, <3>2, <3>5 DEF OnePlace, Settled
    <3> QED BY <2>4, <3>3, <3>4, <3>5, Zenon
  <2>7. /\ 1 .. (next + 1) - 1 = (1 .. next - 1) \cup {next}
        /\ 1 .. (next + 1 + 1) - 1 = (1 .. (next + 1) - 1) \cup {next + 1}
    BY <1>0, OneMore
  <2>8. NothingForgotten'
    BY <2>4, <2>5, <2>7, Zenon DEF Places, NothingForgotten, Settled
  <2> QED BY <2>6, <2>8, Zenon DEF Places
<1>2. ASSUME NEW typ \in QueueTyp, Take(typ), UNCHANGED <<next, hold, rhold, done>>,
             \/ /\ taken' = taken \cup {Head(list[typ])}
                /\ lost' = lost
             \/ /\ taken' = taken
                /\ lost' = lost \cup {Head(list[typ])}
      PROVE  Places'
  <2>1. /\ ListsDistinct' /\ Head(list[typ]) \in Queued
        /\ Queued' = Queued \ {Head(list[typ])}
    BY <1>0, <1>2, TakeEffect, Zenon
  <2>2. HandsDistinct' /\ Held' = Held
    BY <1>0, <1>2, Zenon DEF HandsDistinct, Held, InMemory
  <2> HIDE DEF NoJob
  <2>3. OnePlace'
    BY <1>2, <2>1, <2>2, Zenon DEF Places, OnePlace, Settled
  <2>4. NothingForgotten'
    BY <1>2, <2>1, <2>2, Zenon DEF Places, NothingForgotten, Settled
  <2> QED BY <2>3, <2>4, Zenon DEF Places
<1>3. ASSUME NEW m \in Muxers, GetJobs(m) \/ GetJobsLost(m) \/ RetryPopLost(m)
      PROVE  Places'
  BY <1>2, <1>3, Zenon DEF GetJobs, GetJobsLost, RetryPopLost, TakeLost, QueueTyp
<1>4. ASSUME NEW w \in Workers, WorkerPopLost(w) PROVE Places'
  BY <1>2, <1>4, Zenon DEF WorkerPopLost, TakeLost, QueueTyp
\* A pop by a goroutine moves the job from a list into its hands.
<1>5. ASSUME NEW typ \in QueueTyp, Take(typ), UNCHANGED <<next, done, taken, lost>>,
             HandsDistinct', Held' = Held \cup {Head(list[typ])}
      PROVE  Places'
  <2>1. /\ ListsDistinct' /\ Head(list[typ]) \in Queued
        /\ Queued' = Queued \ {Head(list[typ])}
    BY <1>0, <1>5, TakeEffect, Zenon
  <2>2. OnePlace'
    BY <1>5, <2>1, Zenon DEF Places, OnePlace, Settled
  <2>3. NothingForgotten'
    BY <1>5, <2>1, Zenon DEF Places, NothingForgotten, Settled
  <2> QED BY <2>2, <2>3, Zenon DEF Places
<1>6. ASSUME NEW w \in Workers, WorkerPop(w) PROVE Places'
  <2> DEFINE id == Head(list["common"])
  <2>1. Take("common") /\ "common" \in QueueTyp /\ id \in Queued
    BY <1>0, <1>6, TakeEffect, Zenon DEF WorkerPop, QueueTyp
  <2>2. id \in Ids /\ id \notin Held /\ hold[w] = NoJob
    BY <1>0, <1>6, <2>1, Zenon DEF Places, OnePlace, PcOK, WorkerPop
  <2>3. /\ hold' = [hold EXCEPT ![w] = id] /\ UNCHANGED rhold
        /\ UNCHANGED <<next, done, taken, lost>>
    BY <1>6, Zenon DEF WorkerPop
  <2> HIDE DEF id
  <2>4. HandsDistinct' /\ Held' = (Held \cup {id}) \ {hold[w], NoJob}
    BY <1>0, <2>2, <2>3, HoldEffect, Zenon
  <2>5. Held' = Held \cup {id}
    BY <1>0, <2>2, <2>4, Zenon
  <2> QED BY <1>5, <2>1, <2>3, <2>4, <2>5, Zenon DEF id
<1>7. ASSUME NEW m \in Muxers, RetryPop(m) PROVE Places'
  <2> DEFINE id == Head(list["retry"])
  <2>1. Take("retry") /\ "retry" \in QueueTyp /\ id \in Queued
    BY <1>0, <1>7, TakeEffect, Zenon DEF RetryPop, QueueTyp
  <2>2. id \in Ids /\ id \notin Held /\ rhold[m] = NoJob
    BY <1>0, <1>7, <2>1, Zenon DEF Places, OnePlace, PcOK, RetryPop, QueueTyp
  <2>3. /\ rhold' = [rhold EXCEPT ![m] = id] /\ UNCHANGED hold
        /\ UNCHANGED <<next, done, taken, lost>>
    BY <1>7, Zenon DEF RetryPop
  <2> HIDE DEF id
  <2>4. HandsDistinct' /\ Held' = (Held \cup {id}) \ {rhold[m], NoJob}
    BY <1>0, <2>2, <2>3, RholdEffect, Zenon
  <2>5. Held' = Held \cup {id}
    BY <1>0, <2>2, <2>4, Zenon
  <2> QED BY <1>5, <2>1, <2>3, <2>4, <2>5, Zenon DEF id
\* AddQueue by a goroutine moves the job from its hands to a list, or loses it.
<1>8. ASSUME NEW typ \in QueueTyp, NEW id \in Held, AddQueue(typ, id, attr, next),
             HandsDistinct', Held' = Held \ {id}, UNCHANGED <<done, taken>>
      PROVE  Places'
  <2>1. id \in Ids /\ id \notin Queued /\ id # next /\ next \notin Queued
    BY <1>0, Zenon DEF Places, OnePlace
  <2>2. /\ ListsDistinct'
        /\ \/ Queued' = Queued \cup {id} /\ lost' = lost /\ next' = next
           \/ Queued' = Queued /\ lost' = lost \cup {id} /\ next' = next
           \/ /\ Queued' = Queued \cup {id, next} /\ lost' = lost
              /\ next' = next + 1
    BY <1>0, <1>8, <2>1, AddQueueEffect, Zenon
  <2>3. /\ Queued \cap Held = {} /\ (Queued \cup Held) \cap Settled = {}
        /\ done \cap taken = {} /\ done \cap lost = {} /\ taken \cap lost = {}
        /\ next \notin Queued \cup Held \cup Settled
    BY <1>0, Zenon DEF Places, OnePlace
  <2>4. OnePlace'
    <3>1. CASE Queued' = Queued \cup {id} /\ lost' = lost
      BY <1>8, <2>2, <2>3, <3>1 DEF OnePlace, Settled
    <3>2. CASE Queued' = Queued /\ lost' = lost \cup {id}
      BY <1>8, <2>2, <2>3, <3>2 DEF OnePlace, Settled
    <3>3. CASE Queued' = Queued \cup {id, next} /\ lost' = lost
      BY <1>8, <2>2, <2>3, <3>3 DEF OnePlace, Settled
    <3> QED BY <2>2, <3>1, <3>2, <3>3, Zenon
  <2>5. 1 .. (next + 1) - 1 = (1 .. next - 1) \cup {next}
    BY <1>0, OneMore, Zenon
  <2>6. NothingForgotten'
    BY <1>8, <2>2, <2>5 DEF Places, NothingForgotten, Settled
  <2> QED BY <2>4, <2>6, Zenon DEF Places
<1>9. ASSUME NEW w \in Workers, wpc[w] = "send",
             hold' = [hold EXCEPT ![w] = NoJob], UNCHANGED rhold
      PROVE  HandsDistinct' /\ hold[w] \in Held /\ Held' = Held \ {hold[w]}
  <2>1. hold[w] \in Held /\ NoJob \notin Held
    BY <1>9, Zenon DEF PcOK, Held, InMemory
  <2>2. HandsDistinct' /\ Held' = (Held \cup {NoJob}) \ {hold[w], NoJob}
    BY <1>0, <1>9, <2>1, HoldEffect, Zenon
  <2> QED BY <2>1, <2>2, Zenon
<1>10. ASSUME NEW w \in Workers, NEW code \in Failures, WorkerFailure(w, code)
       PROVE  Places'
  <2>1. /\ wpc[w] = "send" /\ hold' = [hold EXCEPT ![w] = NoJob]
        /\ AddQueue("retry", hold[w], attr, next) /\ "retry" \in QueueTyp
        /\ UNCHANGED <<rhold, done, taken>>
    BY <1>10, Zenon DEF WorkerFailure, QueueTyp
  <2> QED BY <1>8, <1>9, <2>1, Zenon
<1>11. ASSUME NEW w \in Workers, WorkerSuccess(w) PROVE Places'
  <2>1. /\ wpc[w] = "send" /\ hold' = [hold EXCEPT ![w] = NoJob]
        /\ done' = done \cup {hold[w]}
        /\ UNCHANGED <<list, next, lost, rhold, taken>>
    BY <1>11, Zenon DEF WorkerSuccess
  <2>2. HandsDistinct' /\ hold[w] \in Held /\ Held' = Held \ {hold[w]}
    BY <1>9, <2>1, Zenon
  <2>3. ListsDistinct' /\ Queued' = Queued
    BY <1>0, <2>1, Zenon DEF ListsDistinct, Queued, Elements
  <2>4. OnePlace'
    BY <2>1, <2>2, <2>3 DEF Places, OnePlace, Settled
  <2>5. NothingForgotten'
    BY <2>1, <2>2, <2>3, Zenon DEF Places, NothingForgotten, Settled
  <2> QED BY <2>4, <2>5, Zenon DEF Places
<1>12. ASSUME NEW m \in Muxers, RetryPut(m) PROVE Places'
  <2>1. /\ rpc[m] \in QueueTyp /\ rhold' = [rhold EXCEPT ![m] = NoJob]
        /\ AddQueue(rpc[m], rhold[m], attr, next)
        /\ UNCHANGED <<hold, done, taken>>
    BY <1>12, Zenon DEF RetryPut
  <2>2. rhold[m] \in Held /\ NoJob \notin Held
    BY <2>1, Zenon DEF PcOK, Held, InMemory
  <2>3. HandsDistinct' /\ Held' = (Held \cup {NoJob}) \ {rhold[m], NoJob}
    BY <1>0, <2>1, <2>2, RholdEffect, Zenon
  <2>4. Held' = Held \ {rhold[m]}
    BY <2>2, <2>3, Zenon
  <2> QED BY <1>8, <2>1, <2>2, <2>3, <2>4, Zenon
<1>13. CASE RecoverMove
  <2> DEFINE id == Head(list["retry"])
             s == Tail(list["retry"])
             t == Append(list["common"], id)
  <2>1. /\ list["retry"] \in Seq(Ids) /\ list["retry"] # <<>>
        /\ list["common"] \in Seq(Ids) /\ list["timeout"] \in Seq(Ids)
        /\ UNCHANGED <<next, hold, rhold, done, taken, lost>>
        /\ IsInjective(list["retry"]) /\ IsInjective(list["common"])
        /\ IsInjective(list["timeout"])
    BY <1>0, <1>13, Zenon DEF RecoverMove, TypeOK, QueueTyp, ListsDistinct
  <2>2. /\ id \in Ids /\ s \in Seq(Ids) /\ IsInjective(s) /\ id \notin Range(s)
        /\ Range(list["retry"]) = Range(s) \cup {id}
    BY <2>1, TailRange, Zenon
  <2>3. id \notin Range(list["common"]) /\ id \notin Range(list["timeout"])
    BY <1>0, <2>2, Zenon DEF ListsDistinct, QueueTyp, Elements
  <2>4. IsInjective(t) /\ Range(t) = Range(list["common"]) \cup {id}
    BY <2>1, <2>2, <2>3, AppendRange
  <2>5. list'["retry"] = s /\ list'["common"] = t /\ list'["timeout"] = list["timeout"]
    BY <1>13, Zenon DEF RecoverMove, TypeOK, QueueTyp
  <2> HIDE DEF id, s, t
  <2>6. /\ Elements("retry")' = Elements("retry") \ {id}
        /\ Elements("common")' = Elements("common") \cup {id}
        /\ Elements("timeout")' = Elements("timeout")
        /\ id \in Elements("retry")
    BY <2>2, <2>4, <2>5, Zenon DEF Elements
  <2>7. /\ Queued = Elements("common") \cup Elements("retry") \cup Elements("timeout")
        /\ Queued' = Elements("common")' \cup Elements("retry")' \cup Elements("timeout")'
    BY Zenon DEF Queued, QueueTyp
  <2>8. Queued' = Queued
    BY <2>6, <2>7, Zenon
  <2>9. ListsDistinct'
    <3>1. \A q \in QueueTyp : IsInjective(list'[q])
      BY <2>1, <2>2, <2>4, <2>5, Zenon DEF QueueTyp
    <3>2. /\ Elements("retry") \cap Elements("common") = {}
          /\ Elements("retry") \cap Elements("timeout") = {}
          /\ Elements("common") \cap Elements("timeout") = {}
      BY <1>0, Zenon DEF ListsDistinct, QueueTyp
    <3>3. /\ Elements("retry")' \cap Elements("common")' = {}
          /\ Elements("retry")' \cap Elements("timeout")' = {}
          /\ Elements("common")' \cap Elements("timeout")' = {}
      BY <2>6, <3>2, Zenon
    <3>4. \A p, q \in QueueTyp : p # q => (Elements(p) \cap Elements(q))' = {}
      BY <3>3 DEF QueueTyp
    <3> QED BY <3>1, <3>4, Zenon DEF ListsDistinct
  <2>10. HandsDistinct' /\ Held' = Held
    BY <1>0, <2>1, Zenon DEF HandsDistinct, Held, InMemory
  <2> QED BY <2>1, <2>8, <2>9, <2>10, Zenon DEF Places, OnePlace, NothingForgotten, Settled
<1>14. ASSUME NEW m \in Muxers, Clean(m) PROVE Places'
  <2>1. /\ list' = [list EXCEPT !["retry"] = <<>>] /\ lost' = lost \cup Elements("retry")
        /\ UNCHANGED <<next, hold, rhold, done, taken>> /\ "retry" \in QueueTyp
    BY <1>14, Zenon DEF Clean, QueueTyp
  <2>2. \A q \in QueueTyp : list'[q] = IF q = "retry" THEN <<>> ELSE list[q]
    BY <2>1, Zenon DEF TypeOK
  <2>3. Range(<<>>) = {} /\ IsInjective(<<>>)
    BY DEF Range, IsInjective
  <2>4. \A q \in QueueTyp :
          Elements(q)' = IF q = "retry" THEN {} ELSE Elements(q)
    BY <2>2, <2>3, Zenon DEF Elements
  <2>5. ListsDistinct'
    BY <1>0, <2>4, <2>2, <2>3, Zenon DEF ListsDistinct
  <2>6. Elements("retry") \subseteq Queued /\ Queued' = Queued \ Elements("retry")
    BY <1>0, <2>1, <2>4 DEF Queued, ListsDistinct
  <2>7. HandsDistinct' /\ Held' = Held
    BY <1>0, <2>1, Zenon DEF HandsDistinct, Held, InMemory
  <2>8. OnePlace'
    BY <2>1, <2>5, <2>6, <2>7, Zenon DEF Places, OnePlace, Settled
  <2>9. NothingForgotten'
    BY <2>1, <2>6, <2>7, Zenon DEF Places, NothingForgotten, Settled
  <2> QED BY <2>8, <2>9, Zenon DEF Places
<1>15. CASE Crash
  <2>1. /\ UNCHANGED <<list, next, done, taken>> /\ lost' = lost \cup Held
        /\ \A w \in Workers : hold'[w] = NoJob
        /\ \A m \in Muxers : rhold'[m] = NoJob
    BY <1>15, Zenon DEF Crash, Held
  <2>2. HandsDistinct' /\ Held' = {}
    BY <2>1, Zenon DEF HandsDistinct, Held, InMemory
  <2>3. ListsDistinct' /\ Queued' = Queued
    BY <1>0, <2>1 DEF ListsDistinct, Queued, Elements
  <2>4. OnePlace'
    BY <2>1, <2>2, <2>3, Zenon DEF Places, OnePlace, Settled
  <2>5. NothingForgotten'
    BY <2>1, <2>2, <2>3, Zenon DEF Places, NothingForgotten, Settled
  <2> QED BY <2>4, <2>5, Zenon DEF Places
<1>16. CASE UNCHANGED <<list, next, hold, rhold, done, taken, lost>>
  <2>1. /\ ListsDistinct' /\ HandsDistinct' /\ Queued' = Queued /\ Held' = Held
        /\ next' = next /\ done' = done /\ taken' = taken /\ lost' = lost
    BY <1>0, <1>16 DEF ListsDistinct, HandsDistinct, Queued, Elements, Held, InMemory
  <2> QED BY <2>1, Zenon DEF Places, OnePlace, NothingForgotten, Settled
<1>17. ASSUME NEW m \in Muxers,
              \/ \E c \in Confs : Open(m, c) \/ Serve(m, c)
              \/ Close(m) \/ RetryIdle(m) \/ RetryCheck(m) \/ RetryMiss(m)
              \/ \E count \in 0 .. MaxJobs : RecoverStart(m, count)
       PROVE  UNCHANGED <<list, next, hold, rhold, done, taken, lost>>
  BY <1>17, Zenon DEF Open, Serve, Close, RetryIdle, RetryCheck, RetryMiss, Miss,
               RecoverStart
<1>18. ASSUME \/ \E w \in Workers : LoopPing(w) \/ WorkerCheck(w) \/ WorkerMiss(w)
              \/ RecoverEnd \/ Tick \/ UNCHANGED vars
       PROVE  UNCHANGED <<list, next, hold, rhold, done, taken, lost>>
  BY <1>18, Zenon DEF LoopPing, WorkerCheck, WorkerMiss, Miss, RecoverEnd, Tick, vars
<1> QED BY <1>1, <1>3, <1>4, <1>6, <1>7, <1>10, <1>11, <1>12, <1>13, <1>14, <1>15,
           <1>16, <1>17, <1>18, Zenon DEF Next, Worker, RetryLoop

-----------------------------------------------------------------------------
\* The inductive invariant: neither conjunct of Places is inductive without the
\* other (an element that was forgotten could be created again) nor without
\* PcOK (a goroutine would put down a job it does not hold).
Accounting == TypeOK /\ PcOK /\ Places

\* Nothing exists when the bus starts.
LEMMA InitAccounting == Init => Accounting
<1> SUFFICES ASSUME Init PROVE Accounting
  OBVIOUS
<1>1. TypeOK /\ PcOK
  BY InitType, Zenon DEF Init, PcOK, QueueTyp
<1>2. Range(<<>>) = {} /\ IsInjective(<<>>)
  BY DEF Range, IsInjective
<1>3. \A q \in QueueTyp : list[q] = <<>> /\ Elements(q) = {}
  BY <1>2, Zenon DEF Init, Elements
<1>4. ListsDistinct /\ Queued = {}
  BY <1>2, <1>3, Zenon DEF ListsDistinct, Queued
<1>5. HandsDistinct /\ Held = {} /\ Settled = {}
  BY Zenon DEF Init, HandsDistinct, Held, InMemory, Settled
<1>6. 1 .. next - 1 = {}
  BY DEF Init
<1> QED BY <1>1, <1>4, <1>5, <1>6, Zenon
           DEF Accounting, Places, OnePlace, NothingForgotten, Settled, Init

\* Every step of the bus keeps the invariant.
LEMMA NextAccounting == Accounting /\ [Next]_vars => Accounting'
  BY NextType, NextPc, NextPlaces, Zenon DEF Accounting

\* The invariant holds of every behaviour of the bus.
THEOREM AccountingHolds == Spec => []Accounting
  BY InitAccounting, NextAccounting, PTL DEF Spec

\* No job is ever in two places, whatever the workers, retry loops, admin
\* commands, config updates, redis failures and restarts do.
THEOREM OnePlaceHolds == Spec => []OnePlace
<1>1. Accounting => OnePlace
  BY Zenon DEF Accounting, Places
<1> QED BY <1>1, AccountingHolds, PTL

\* Every job the bus accepted is queued, held, or left it in one of the ways
\* the model names.
THEOREM NothingForgottenHolds == Spec => []NothingForgotten
<1>1. Accounting => NothingForgotten
  BY Zenon DEF Accounting, Places
<1> QED BY <1>1, AccountingHolds, PTL

-----------------------------------------------------------------------------
\* What the retry fields of any job satisfy.  The n-th time the retry loop sends
\* a job back it has run at least n times and pays for n - 1 durations or more.
Paid(a) ==
  /\ a.paid <= a.times
  /\ ~a.begin => a.paid = 0 /\ a.residue = a.budget
  /\ RetryDur * (a.paid * (a.paid - 1)) <= 2 * (a.budget - a.residue)
  /\ a.paid > 0 => RetryDur * ((a.paid - 1) * (a.paid - 2)) < 2 * a.budget

\* A job that has run since the retry loop last sent it back.
Ran(a) == a.paid < a.times

\* A job that belongs on the timeout list.
Expired(a) == a.times > 0 /\ (a.isRetry => a.residue <= 0)

\* The next price: with p < t executions, the p + 1st retry costs (t - 1) * d.
LEMMA Price ==
  ASSUME NEW d \in Nat, NEW p \in Nat, NEW t \in Nat, p < t
  PROVE  d * ((p + 1) * p) <= d * (p * (p - 1)) + 2 * ((t - 1) * d)
<1> DEFINE k == (t - 1) - p
<1>1. k \in Nat /\ t - 1 = p + k
  OBVIOUS
<1>2. (p + 1) * p = p * (p - 1) + 2 * p
  OBVIOUS
<1>3. d * (p * (p - 1) + 2 * p) = d * (p * (p - 1)) + 2 * (p * d)
  OBVIOUS
<1> HIDE DEF k
<1>4. (p + k) * d = p * d + k * d /\ k * d >= 0
  BY <1>1
<1>5. /\ d * (p * (p - 1)) \in Int /\ p * d \in Int /\ k * d \in Int
      /\ d * ((p + 1) * p) = d * (p * (p - 1)) + 2 * (p * d)
      /\ (t - 1) * d = p * d + k * d
  BY <1>1, <1>2, <1>3, <1>4
<1> QED BY <1>4, <1>5

\* A job that enters the bus.
LEMMA NewPaid ==
  ASSUME NEW c \in Confs
  PROVE  Paid(NewAttr(c)) /\ ~NewAttr(c).begin
<1>1. c.isRetry \in BOOLEAN /\ c.retryTime \in Int /\ RetryDur \in Int
  BY ConfsAssumption, BoundsAssumption
<1> QED BY <1>1 DEF NewAttr, Paid

\* An execution.
LEMMA ExecutedPaid ==
  ASSUME NEW a \in Attr, Paid(a), NEW c \in Confs
  PROVE  /\ Paid(Executed(a, c)) /\ Ran(Executed(a, c))
         /\ a.begin => Executed(a, c).begin /\ Executed(a, c).residue = a.residue
<1>1. c.retryTime \in Int /\ RetryDur \in Int
  BY ConfsAssumption, BoundsAssumption
<1>2. CASE a.begin
  BY <1>1, <1>2 DEF Executed, Paid, Ran, Attr
<1>3. CASE ~a.begin
  <2>1. /\ Executed(a, c).paid = 0 /\ Executed(a, c).times = a.times + 1
        /\ Executed(a, c).residue = c.retryTime /\ Executed(a, c).budget = c.retryTime
    BY <1>3, Zenon DEF Executed, Paid
  <2>2. a.times \in Nat /\ RetryDur * (0 * (0 - 1)) = 0
    BY <1>1 DEF Attr
  <2> QED BY <1>1, <1>3, <2>1, <2>2 DEF Paid, Ran
<1> QED BY <1>2, <1>3, Zenon

\* The passing of time changes nothing the invariant speaks about.
LEMMA OlderPaid ==
  ASSUME NEW a \in Attr
  PROVE  /\ Paid(a) => Paid(Older(a))
         /\ Ran(a) => Ran(Older(a))
         /\ Expired(a) => Expired(Older(a))
         /\ Older(a).begin = a.begin /\ Older(a).residue = a.residue
  BY Zenon DEF Older, Paid, Ran, Expired, Attr

\* The decision of the retry loop.
LEMMA JudgedPaid ==
  ASSUME NEW a \in Attr, Paid(a), Ran(a)
  PROVE  /\ Paid(Judged(a))
         /\ RetryDest(a) # "common" => Ran(Judged(a))
         /\ RetryDest(a) = "timeout" => Expired(Judged(a))
         /\ Judged(a).begin /\ Judged(a).residue <= a.residue
<1>1. /\ RetryDur \in Nat /\ a.paid \in Nat /\ a.times \in Nat
      /\ a.residue \in Int /\ a.budget \in Int /\ a.paid < a.times
  BY BoundsAssumption, Zenon DEF Attr, Ran
<1>2. CASE RetryDest(a) = "common"
  <2>1. /\ a.residue > 0
        /\ Judged(a).begin
        /\ Judged(a).times = a.times /\ Judged(a).paid = a.paid + 1
        /\ Judged(a).budget = a.budget
        /\ Judged(a).residue = a.residue - (a.times - 1) * RetryDur
    BY <1>2, Zenon DEF RetryDest, Judged, DurTime
  <2>2. RetryDur * ((a.paid + 1) * a.paid)
          <= RetryDur * (a.paid * (a.paid - 1)) + 2 * ((a.times - 1) * RetryDur)
    BY <1>1, Price, Zenon
  <2>3. RetryDur * (a.paid * (a.paid - 1)) <= 2 * (a.budget - a.residue)
    BY Zenon DEF Paid
  <2>4. (a.paid + 1) - 1 = a.paid /\ (a.paid + 1) - 2 = a.paid - 1
    BY <1>1
  <2>5. (a.times - 1) * RetryDur \in Nat
    BY <1>1
  <2>6. /\ RetryDur * ((a.paid + 1) * a.paid) \in Int
        /\ RetryDur * (a.paid * (a.paid - 1)) \in Int
    BY <1>1
  <2>7. RetryDur * ((a.paid + 1) * a.paid)
          <= 2 * (a.budget - (a.residue - (a.times - 1) * RetryDur))
    BY <1>1, <2>2, <2>3, <2>5, <2>6
  <2>8. RetryDur * (a.paid * (a.paid - 1)) < 2 * a.budget
    BY <1>1, <2>1, <2>3, <2>6
  <2>9. Paid(Judged(a))
    BY <1>1, <2>1, <2>4, <2>7, <2>8 DEF Paid
  <2> QED BY <1>1, <1>2, <2>1, <2>5, <2>9
<1>3. CASE RetryDest(a) # "common"
  <2>1. /\ Judged(a).begin
        /\ Judged(a).times = a.times /\ Judged(a).paid = a.paid
        /\ Judged(a).budget = a.budget /\ Judged(a).residue = a.residue
        /\ Judged(a).isRetry = a.isRetry
    BY <1>3, Zenon DEF Judged
  <2>2. Paid(Judged(a)) /\ Ran(Judged(a))
    BY <2>1, Zenon DEF Paid, Ran
  <2>3. RetryDest(a) = "timeout" => ~(a.isRetry /\ a.residue > 0)
    BY Zenon DEF RetryDest
  <2>4. RetryDest(a) = "timeout" => Expired(Judged(a))
    BY <1>1, <2>1, <2>3 DEF Expired
  <2> QED BY <1>1, <2>1, <2>2, <2>4
<1> QED BY <1>2, <1>3, Zenon

-----------------------------------------------------------------------------
\* The invariant.  Which fields a job has depends on where it is: what waits to
\* be judged has run since it was last sent back, and what is on the timeout
\* list, or on its way there, has expired.
Waiting(i) ==
  \/ i \in Elements("retry")
  \/ \E w \in Workers : hold[w] = i
  \/ \E m \in Muxers : rhold[m] = i /\ rpc[m] \in {"retry", "timeout"}

Leaving(i) ==
  \/ i \in Elements("timeout")
  \/ \E m \in Muxers : rhold[m] = i /\ rpc[m] = "timeout"

RetryAcc ==
  \A i \in Ids :
    /\ Paid(attr[i])
    /\ i >= next => ~attr[i].begin
    /\ Waiting(i) => Ran(attr[i])
    /\ Leaving(i) => Expired(attr[i])

\* What a step may do to the fields of a job that exists.
FieldStep(i) ==
  \/ attr'[i] = attr[i]
  \/ attr'[i] = Older(attr[i])
  \/ \E c \in Confs : attr'[i] = Executed(attr[i], c)
  \/ Ran(attr[i]) /\ attr'[i] = Judged(attr[i])

\* A push: the other lists stay, and a second element has the fields of the
\* first.
LEMMA PushFields ==
  ASSUME TypeOK, NEW typ \in QueueTyp, NEW id \in Ids, NEW at \in [Ids -> Attr],
         NEW free \in Int, AddQueue(typ, id, at, free)
  PROVE  /\ \A q \in QueueTyp \ {typ} : Elements(q)' = Elements(q)
         /\ \/ /\ Elements(typ)' \subseteq Elements(typ) \cup {id}
               /\ attr' = at /\ next' = free
            \/ /\ free \in Ids
               /\ Elements(typ)' \subseteq Elements(typ) \cup {id, free}
               /\ attr' = [at EXCEPT ![free] = at[id]] /\ next' = free + 1
<1>1. list[typ] \in Seq(Ids)
  BY Zenon DEF TypeOK
<1> DEFINE s == Append(list[typ], id)
<1>2. s \in Seq(Ids) /\ Range(s) = Elements(typ) \cup {id}
  BY <1>1, AppendRange DEF Elements
<1>3. CASE Pushed(typ, id, at, free)
  <2>1. list' = [list EXCEPT ![typ] = s] /\ attr' = at /\ next' = free
    BY <1>3, Zenon DEF Pushed
  <2> HIDE DEF s
  <2> QED BY <1>2, <2>1, Zenon DEF TypeOK, Elements
<1>4. CASE PushLost(id, at, free)
  BY <1>4, Zenon DEF PushLost, Elements
<1>5. CASE PushedTwice(typ, id, at, free)
  <2>1. /\ list' = [list EXCEPT ![typ] = Append(s, free)] /\ free \in Ids
        /\ attr' = [at EXCEPT ![free] = at[id]] /\ next' = free + 1
    BY <1>5, Zenon DEF PushedTwice
  <2> HIDE DEF s
  <2>2. Range(Append(s, free)) = Range(s) \cup {free}
    BY <1>2, <2>1, AppendRange
  <2>3. Elements(typ)' = Elements(typ) \cup {id, free}
    BY <1>2, <2>1, <2>2, Zenon DEF TypeOK, Elements
  <2>4. \A q \in QueueTyp \ {typ} : Elements(q)' = Elements(q)
    BY <2>1, Zenon DEF TypeOK, Elements
  <2> QED BY <2>1, <2>3, <2>4, Zenon
<1> QED BY <1>3, <1>4, <1>5, Zenon DEF AddQueue

\* A pop.
LEMMA TakeFields ==
  ASSUME TypeOK, ListsDistinct, NEW typ \in QueueTyp, Take(typ)
  PROVE  /\ Head(list[typ]) \in Elements(typ)
         /\ Elements(typ)' = Elements(typ) \ {Head(list[typ])}
         /\ \A q \in QueueTyp \ {typ} :
              Elements(q)' = Elements(q) /\ Head(list[typ]) \notin Elements(q)
<1>1. list[typ] \in Seq(Ids) /\ list[typ] # <<>>
  BY Zenon DEF TypeOK, Take
<1>2. /\ Range(list[typ]) = Range(Tail(list[typ])) \cup {Head(list[typ])}
      /\ Head(list[typ]) \notin Range(Tail(list[typ]))
  BY <1>1, TailRange, Zenon DEF ListsDistinct
<1>3. \A q \in QueueTyp :
        list'[q] = IF q = typ THEN Tail(list[typ]) ELSE list[q]
  BY Zenon DEF TypeOK, Take
<1>4. /\ Elements(typ)' = Elements(typ) \ {Head(list[typ])}
      /\ Head(list[typ]) \in Elements(typ)
  BY <1>2, <1>3, Zenon DEF Elements
<1>5. \A q \in QueueTyp \ {typ} : Elements(q)' = Elements(q)
  BY <1>3, Zenon DEF Elements
<1>6. \A q \in QueueTyp \ {typ} : Head(list[typ]) \notin Elements(q)
  BY <1>4, Zenon DEF ListsDistinct
<1> QED BY <1>4, <1>5, <1>6, Zenon

\* A job is in one place.
LEMMA OnlyThere ==
  ASSUME Accounting, NEW i \in Queued
  PROVE  /\ \A w \in Workers : hold[w] # i
         /\ \A m \in Muxers : rhold[m] # i
         /\ i \in Ids /\ i < next
<1>1. i \notin Held /\ i \in Ids /\ NoJob \notin Ids /\ i < next
  BY PlacesArePartition, Zenon DEF Accounting, Places, OnePlace
<1> QED BY <1>1, Zenon DEF Held, InMemory

\* A number not yet handed out is nowhere.
LEMMA Unused ==
  ASSUME Accounting, NEW i \in Ids, i >= next
  PROVE  ~Waiting(i) /\ ~Leaving(i)
<1>1. i \notin Queued \cup Held /\ i # NoJob
  <2>1. next \in Int /\ i \in Int /\ NoJob \notin Ids
    BY BoundsAssumption DEF Accounting, TypeOK, Ids, NoJob
  <2>2. \A k \in Queued \cup Held : k < next
    BY PlacesArePartition, Zenon DEF Accounting
  <2> QED BY <2>1, <2>2
<1> QED BY <1>1, Zenon DEF Waiting, Leaving, Queued, QueueTyp, Held, InMemory

\* A step that changes no field, puts no job on the retry or timeout list and
\* gives no goroutine a job.
LEMMA KeepsAcc ==
  ASSUME TypeOK, RetryAcc, UNCHANGED attr, next' = next,
         Elements("retry")' \subseteq Elements("retry"),
         Elements("timeout")' \subseteq Elements("timeout"),
         \A w \in Workers : hold'[w] \in {hold[w], NoJob},
         \A m \in Muxers : \/ rhold'[m] = NoJob
                           \/ rhold'[m] = rhold[m] /\ rpc'[m] = rpc[m]
  PROVE  RetryAcc'
<1>1. NoJob \notin Ids
  BY BoundsAssumption DEF Ids, NoJob
<1>2. \A i \in Ids : (Waiting(i)' => Waiting(i)) /\ (Leaving(i)' => Leaving(i))
  BY <1>1, Zenon DEF Waiting, Leaving
<1> QED BY <1>2, Zenon DEF RetryAcc

\* Every step keeps the invariant, and changes the fields of an existing job
\* in one of four ways.
LEMMA NextRetryAcc ==
  Accounting /\ RetryAcc /\ [Next]_vars
    => RetryAcc' /\ \A i \in Ids : i < next => FieldStep(i)
<1> SUFFICES ASSUME Accounting, RetryAcc, [Next]_vars
             PROVE  RetryAcc' /\ \A i \in Ids : i < next => FieldStep(i)
  OBVIOUS
<1> USE DEF redisVars, muxVars, workerVars, retryVars, adminVars
<1>0. /\ TypeOK /\ PcOK /\ ListsDistinct /\ HandsDistinct
      /\ NoJob \notin Ids /\ next \in Nat \ {0} /\ next \in 1 .. MaxJobs + 1
      /\ Ids \subseteq Int
      /\ attr \in [Ids -> Attr] /\ attr' \in [Ids -> Attr]
      /\ {"common", "retry", "timeout"} \subseteq QueueTyp
      /\ "common" # "retry" /\ "common" # "timeout" /\ "retry" # "timeout"
  <2>1. TypeOK /\ PcOK /\ ListsDistinct /\ HandsDistinct
    BY Zenon DEF Accounting, Places, OnePlace
  <2>2. TypeOK'
    BY <2>1, NextType, Zenon
  <2>3. /\ NoJob \notin Ids /\ Ids \subseteq Int
        /\ next \in Nat \ {0} /\ next \in 1 .. MaxJobs + 1
    BY <2>1, BoundsAssumption DEF TypeOK, Ids, NoJob
  <2>4. attr \in [Ids -> Attr] /\ attr' \in [Ids -> Attr]
    BY <2>1, <2>2, Zenon DEF TypeOK
  <2> QED BY <2>1, <2>3, <2>4, Zenon DEF QueueTyp
<1>1. ASSUME NEW m \in Muxers, AddJobs(m)
      PROVE  RetryAcc' /\ \A i \in Ids : i < next => FieldStep(i)
  <2> DEFINE at == [attr EXCEPT ![next] = NewAttr(applied[m])]
  <2>1. /\ applied[m] \in Confs /\ next \in Ids /\ next + 1 \in Int
        /\ UNCHANGED <<hold, rhold, rpc>>
    BY <1>0, <1>1 DEF TypeOK, AddJobs
  <2>2. /\ at \in [Ids -> Attr] /\ at[next] = NewAttr(applied[m])
        /\ \A i \in Ids \ {next} : at[i] = attr[i]
    BY <1>0, <2>1, AttrType, Zenon
  <2>3. AddQueue("common", next, at, next + 1)
    BY <1>1, Zenon DEF AddJobs
  <2> HIDE DEF at
  <2>4. Elements("retry")' = Elements("retry") /\ Elements("timeout")' = Elements("timeout")
    BY <1>0, <2>1, <2>2, <2>3, PushFields
  <2>5. \/ attr' = at /\ next' = next + 1
        \/ /\ next + 1 \in Ids
           /\ attr' = [at EXCEPT ![next + 1] = at[next]] /\ next' = next + 2
    BY <1>0, <2>1, <2>2, <2>3, PushFields
  <2>6. \A i \in Ids : (Waiting(i)' <=> Waiting(i)) /\ (Leaving(i)' <=> Leaving(i))
    BY <2>1, <2>4, Zenon DEF Waiting, Leaving
  <2>7. Paid(NewAttr(applied[m])) /\ ~NewAttr(applied[m]).begin
    BY <2>1, NewPaid, Zenon
  <2>8. \A i \in Ids : attr'[i] = attr[i] \/ (i >= next /\ attr'[i] = NewAttr(applied[m]))
    BY <1>0, <2>1, <2>2, <2>5
  <2>9. next' >= next /\ next' \in Int
    BY <1>0, <2>5
  <2>10. ASSUME NEW i \in Ids
         PROVE  /\ Paid(attr'[i])
                /\ i >= next' => ~attr'[i].begin
                /\ Waiting(i)' => Ran(attr'[i])
                /\ Leaving(i)' => Expired(attr'[i])
    <3>1. CASE attr'[i] = attr[i]
      BY <1>0, <2>6, <2>9, <3>1 DEF RetryAcc
    <3>2. CASE i >= next /\ attr'[i] = NewAttr(applied[m])
      BY <2>6, <2>7, <3>2, Unused, Zenon
    <3> QED BY <2>8, <3>1, <3>2, Zenon
  <2> QED BY <1>0, <2>8, <2>10 DEF RetryAcc, FieldStep
\* A pop by a client, or one whose answer is lost.
<1>2. ASSUME NEW typ \in QueueTyp, Take(typ), UNCHANGED <<attr, next, hold, rhold, rpc>>
      PROVE  RetryAcc'
  <2>1. Elements("retry")' \subseteq Elements("retry")
    BY <1>0, <1>2, TakeFields
  <2>2. Elements("timeout")' \subseteq Elements("timeout")
    BY <1>0, <1>2, TakeFields, Zenon
  <2> QED BY <1>0, <1>2, <2>1, <2>2, KeepsAcc, Zenon
<1>3. ASSUME NEW m \in Muxers, GetJobs(m) \/ GetJobsLost(m) \/ RetryPopLost(m)
      PROVE  RetryAcc' /\ attr' = attr
  <2>1. (Take("common") \/ Take("retry")) /\ UNCHANGED <<attr, next, hold, rhold, rpc>>
    BY <1>3, Zenon DEF GetJobs, GetJobsLost, RetryPopLost, TakeLost
  <2> QED BY <1>0, <1>2, <2>1, Zenon
<1>4. ASSUME NEW w \in Workers, WorkerPopLost(w) PROVE RetryAcc' /\ attr' = attr
  <2>1. Take("common") /\ UNCHANGED <<attr, next, hold, rhold, rpc>>
    BY <1>4, Zenon DEF WorkerPopLost, TakeLost
  <2> QED BY <1>0, <1>2, <2>1, Zenon
<1>5. ASSUME NEW w \in Workers, WorkerPop(w)
      PROVE  RetryAcc' /\ \A i \in Ids : i < next => FieldStep(i)
  <2>0. PICK id \in Ids : id = Head(list["common"])
    BY <1>0, <1>5, TakeType, ZenonT(30) DEF WorkerPop
  <2>1. /\ Take("common") /\ hold' = [hold EXCEPT ![w] = id]
        /\ attr' = [attr EXCEPT ![id] = Executed(attr[id], conf[w[1]])]
        /\ UNCHANGED <<next, rhold, rpc>>
        /\ conf[w[1]] \in Confs
    BY <1>0, <1>5, <2>0, Zenon DEF WorkerPop, TypeOK, Workers
  <2>2. /\ id \in Elements("common") /\ id \notin Elements("retry")
        /\ id \notin Elements("timeout")
        /\ Elements("retry")' = Elements("retry")
        /\ Elements("timeout")' = Elements("timeout")
    BY <1>0, <2>0, <2>1, TakeFields, Zenon
  <2>3. id \in Queued
    BY <1>0, <2>2, Zenon DEF Queued
  <2>4. /\ id \in Ids /\ id < next
        /\ \A v \in Workers : hold[v] # id
        /\ \A m \in Muxers : rhold[m] # id
    BY <2>3, OnlyThere, Zenon
  <2>5. attr[id] \in Attr /\ Paid(attr[id])
    BY <1>0, <2>4, Zenon DEF RetryAcc
  <2>6. /\ Paid(Executed(attr[id], conf[w[1]])) /\ Ran(Executed(attr[id], conf[w[1]]))
    BY <2>1, <2>5, ExecutedPaid, Zenon
  <2>7. /\ attr'[id] = Executed(attr[id], conf[w[1]])
        /\ \A i \in Ids \ {id} : attr'[i] = attr[i]
        /\ \A v \in Workers : hold'[v] = hold[v] \/ hold'[v] = id
    BY <1>0, <2>1, <2>4, Zenon DEF TypeOK
  <2>8. \A i \in Ids \ {id} : (Waiting(i)' => Waiting(i)) /\ (Leaving(i)' => Leaving(i))
    BY <2>1, <2>2, <2>7 DEF Waiting, Leaving
  <2>9. ~Leaving(id)'
    BY <2>1, <2>2, <2>4, Zenon DEF Leaving
  <2>10. RetryAcc'
    <3> SUFFICES ASSUME NEW i \in Ids
                 PROVE  /\ Paid(attr'[i])
                        /\ i >= next' => ~attr'[i].begin
                        /\ Waiting(i)' => Ran(attr'[i])
                        /\ Leaving(i)' => Expired(attr'[i])
      BY Zenon DEF RetryAcc
    <3>1. CASE i = id
      <4>1. ~(id >= next')
        BY <1>0, <2>1, <2>4
      <4> QED BY <2>6, <2>7, <2>9, <3>1, <4>1, Zenon
    <3>2. CASE i # id
      BY <2>1, <2>7, <2>8, <3>2, Zenon DEF RetryAcc
    <3> QED BY <3>1, <3>2, Zenon
  <2> QED BY <2>1, <2>7, <2>10, Zenon DEF FieldStep
\* A goroutine puts the job it holds on a list.
<1>6. ASSUME NEW typ \in QueueTyp, NEW id \in Ids, id < next,
             AddQueue(typ, id, attr, next),
             typ = "retry" => Ran(attr[id]),
             typ = "timeout" => Expired(attr[id]),
             \A w \in Workers : hold'[w] \in {hold[w], NoJob},
             \A m \in Muxers : \/ rhold'[m] = NoJob
                               \/ rhold'[m] = rhold[m] /\ rpc'[m] = rpc[m]
      PROVE  RetryAcc' /\ \A i \in Ids : i < next => FieldStep(i)
  <2>1. /\ \A q \in QueueTyp \ {typ} : Elements(q)' = Elements(q)
        /\ \/ /\ Elements(typ)' \subseteq Elements(typ) \cup {id}
              /\ attr' = attr /\ next' = next
           \/ /\ next \in Ids
              /\ Elements(typ)' \subseteq Elements(typ) \cup {id, next}
              /\ attr' = [attr EXCEPT ![next] = attr[id]] /\ next' = next + 1
    BY <1>0, <1>6, PushFields
  <2>2. \A i \in Ids : attr'[i] = attr[i] \/ (i = next /\ next' = next + 1 /\ attr'[i] = attr[id])
    BY <1>0, <2>1, Zenon
  <2>3. \A i \in Ids : i # next => attr'[i] = attr[i]
    BY <1>0, <2>1, Zenon
  <2>4. next' >= next /\ next' \in Int
    BY <1>0, <2>1
  <2>5. /\ \A i \in Elements("retry")' :
             i \in Elements("retry") \/ (typ = "retry" /\ i \in {id, next})
        /\ \A i \in Elements("timeout")' :
             i \in Elements("timeout") \/ (typ = "timeout" /\ i \in {id, next})
        /\ next \in Elements(typ)' => \/ next \in Elements(typ)
                                      \/ attr' = [attr EXCEPT ![next] = attr[id]]
    BY <1>0, <1>6, <2>1, Zenon
  <2>6. ASSUME NEW i \in Ids
        PROVE  /\ Waiting(i)' => Waiting(i) \/ (typ = "retry" /\ i \in {id, next})
               /\ Leaving(i)' => Leaving(i) \/ (typ = "timeout" /\ i \in {id, next})
    BY <1>0, <1>6, <2>5, Zenon DEF Waiting, Leaving
  <2>7. ASSUME NEW i \in Ids
        PROVE  /\ Paid(attr'[i])
               /\ i >= next' => ~attr'[i].begin
               /\ Waiting(i)' => Ran(attr'[i])
               /\ Leaving(i)' => Expired(attr'[i])
    <3>1. CASE i # next
      <4>1. attr'[i] = attr[i]
        BY <2>3, <3>1, Zenon
      <4>2. i >= next' => i >= next
        BY <1>0, <2>4
      <4> QED BY <1>6, <2>6, <3>1, <4>1, <4>2, Zenon DEF RetryAcc
    <3>2. CASE i = next /\ attr' = [attr EXCEPT ![next] = attr[id]] /\ next' = next + 1
      <4>1. attr'[i] = attr[id] /\ ~(i >= next') /\ Paid(attr[id])
        BY <1>0, <3>2 DEF RetryAcc
      <4>2. ~Waiting(i) /\ ~Leaving(i)
        BY <1>0, <3>2, Unused
      <4> QED BY <1>6, <2>6, <4>1, <4>2, Zenon
    <3>3. CASE i = next /\ attr' = attr /\ next' = next
      <4>1. ~Waiting(i) /\ ~Leaving(i)
        BY <1>0, <3>3, Unused
      <4>2. Elements(typ)' \subseteq Elements(typ) \cup {id} /\ i # id
        <5>1. i # id
          BY <1>0, <1>6, <3>3
        <5>2. next' # next + 1
          BY <1>0, <3>3
        <5> QED BY <2>1, <5>1, <5>2, Zenon
      <4>3. i \notin Elements("retry")' /\ i \notin Elements("timeout")'
        BY <1>0, <2>1, <4>1, <4>2 DEF Waiting, Leaving
      <4>4. ~Waiting(i)' /\ ~Leaving(i)'
        BY <1>0, <1>6, <4>1, <4>3, Zenon DEF Waiting, Leaving
      <4> QED BY <3>3, <4>4, Zenon DEF RetryAcc
    <3> QED BY <2>1, <3>1, <3>2, <3>3, Zenon
  <2>8. \A i \in Ids : i < next => FieldStep(i)
    BY <1>0, <2>3 DEF FieldStep
  <2> QED BY <2>7, <2>8, ZenonT(30) DEF RetryAcc
<1>7. ASSUME NEW w \in Workers, NEW code \in Failures, WorkerFailure(w, code)
      PROVE  RetryAcc' /\ \A i \in Ids : i < next => FieldStep(i)
  <2>1. /\ hold[w] \in Ids /\ hold[w] \in Held
        /\ hold' = [hold EXCEPT ![w] = NoJob] /\ UNCHANGED <<rhold, rpc>>
        /\ AddQueue("retry", hold[w], attr, next)
    BY <1>0, <1>7 DEF WorkerFailure, PcOK, TypeOK, Held, InMemory
  <2>2. hold[w] < next /\ Ran(attr[hold[w]])
    BY <1>0, <2>1, PlacesArePartition, Zenon DEF RetryAcc, Waiting, Accounting
  <2>3. \A v \in Workers : hold'[v] \in {hold[v], NoJob}
    BY <1>0, <2>1, Zenon DEF TypeOK
  <2> QED BY <1>0, <1>6, <2>1, <2>2, <2>3, ZenonT(30)
<1>8. ASSUME NEW m \in Muxers, RetryPut(m)
      PROVE  RetryAcc' /\ \A i \in Ids : i < next => FieldStep(i)
  <2>0. PICK typ \in QueueTyp, id \in Ids : typ = rpc[m] /\ id = rhold[m]
    BY <1>0, <1>8, ZenonT(30) DEF RetryPut, PcOK, TypeOK
  <2>1. /\ id \in Held
        /\ rhold' = [rhold EXCEPT ![m] = NoJob] /\ rpc' = [rpc EXCEPT ![m] = "check"]
        /\ UNCHANGED hold
        /\ AddQueue(typ, id, attr, next)
    BY <1>0, <1>8, <2>0, Zenon DEF RetryPut, Held, InMemory
  <2>2. /\ id < next
        /\ typ = "retry" => Ran(attr[id])
        /\ typ = "timeout" => Expired(attr[id])
    BY <1>0, <2>0, <2>1, PlacesArePartition, Zenon DEF RetryAcc, Waiting, Leaving, Accounting
  <2>3. \A n \in Muxers : \/ rhold'[n] = NoJob
                          \/ rhold'[n] = rhold[n] /\ rpc'[n] = rpc[n]
    BY <1>0, <2>1, Zenon DEF TypeOK
  <2> QED BY <1>0, <1>6, <2>1, <2>2, <2>3, Zenon
<1>9. ASSUME NEW m \in Muxers, RetryPop(m)
      PROVE  RetryAcc' /\ \A i \in Ids : i < next => FieldStep(i)
  <2>0. PICK id \in Ids : id = Head(list["retry"])
    BY <1>0, <1>9, TakeType, ZenonT(30) DEF RetryPop
  <2>1. /\ Take("retry") /\ rhold' = [rhold EXCEPT ![m] = id]
        /\ rpc' = [rpc EXCEPT ![m] = RetryDest(attr[id])]
        /\ attr' = [attr EXCEPT ![id] = Judged(attr[id])]
        /\ UNCHANGED <<next, hold>>
    BY <1>9, <2>0, Zenon DEF RetryPop
  <2>2. /\ id \in Elements("retry") /\ id \notin Elements("timeout")
        /\ Elements("retry")' = Elements("retry") \ {id}
        /\ Elements("timeout")' = Elements("timeout")
    BY <1>0, <2>0, <2>1, TakeFields, Zenon
  <2>3. id \in Queued
    BY <1>0, <2>2, Zenon DEF Queued
  <2>4. /\ id \in Ids /\ id < next
        /\ \A v \in Workers : hold[v] # id
        /\ \A n \in Muxers : rhold[n] # id
    BY <2>3, OnlyThere, Zenon
  <2>5. attr[id] \in Attr /\ Paid(attr[id]) /\ Ran(attr[id])
    BY <1>0, <2>2, <2>4, Zenon DEF RetryAcc, Waiting
  <2>6. /\ Paid(Judged(attr[id]))
        /\ RetryDest(attr[id]) # "common" => Ran(Judged(attr[id]))
        /\ RetryDest(attr[id]) = "timeout" => Expired(Judged(attr[id]))
    BY <2>5, JudgedPaid, Zenon
  <2>7. /\ attr'[id] = Judged(attr[id])
        /\ \A i \in Ids \ {id} : attr'[i] = attr[i]
        /\ rhold'[m] = id /\ rpc'[m] = RetryDest(attr[id])
        /\ \A n \in Muxers \ {m} : rhold'[n] = rhold[n] /\ rpc'[n] = rpc[n]
    BY <1>0, <2>1, <2>4, Zenon DEF TypeOK
  <2>8. \A i \in Ids \ {id} : (Waiting(i)' => Waiting(i)) /\ (Leaving(i)' => Leaving(i))
    BY <2>1, <2>2, <2>7, Zenon DEF Waiting, Leaving
  <2>9. /\ Waiting(id)' => RetryDest(attr[id]) # "common"
        /\ Leaving(id)' => RetryDest(attr[id]) = "timeout"
    BY <1>0, <2>1, <2>2, <2>4, <2>7, Zenon DEF Waiting, Leaving
  <2>10. RetryAcc'
    <3> SUFFICES ASSUME NEW i \in Ids
                 PROVE  /\ Paid(attr'[i])
                        /\ i >= next' => ~attr'[i].begin
                        /\ Waiting(i)' => Ran(attr'[i])
                        /\ Leaving(i)' => Expired(attr'[i])
      BY Zenon DEF RetryAcc
    <3>1. CASE i = id
      <4>1. ~(id >= next')
        BY <1>0, <2>1, <2>4
      <4> QED BY <2>6, <2>7, <2>9, <3>1, <4>1, Zenon
    <3>2. CASE i # id
      BY <2>1, <2>7, <2>8, <3>2, Zenon DEF RetryAcc
    <3> QED BY <3>1, <3>2, Zenon
  <2> QED BY <2>5, <2>7, <2>10, Zenon DEF FieldStep
<1>10. CASE Tick
  <2>1. /\ \A i \in Ids : attr'[i] \in {attr[i], Older(attr[i])}
        /\ UNCHANGED <<list, next, hold, rhold, rpc>>
    BY <1>10, Zenon DEF Tick
  <2>2. \A i \in Ids : (Waiting(i)' <=> Waiting(i)) /\ (Leaving(i)' <=> Leaving(i))
    BY <2>1, Zenon DEF Waiting, Leaving, Elements
  <2>3. ASSUME NEW i \in Ids
        PROVE  /\ Paid(attr'[i])
               /\ i >= next' => ~attr'[i].begin
               /\ Waiting(i)' => Ran(attr'[i])
               /\ Leaving(i)' => Expired(attr'[i])
    <3>1. /\ Paid(attr[i]) /\ (i >= next => ~attr[i].begin)
          /\ Waiting(i) => Ran(attr[i])
          /\ Leaving(i) => Expired(attr[i])
          /\ attr[i] \in Attr
      BY <1>0, Zenon DEF RetryAcc
    <3>2. CASE attr'[i] = attr[i]
      BY <2>1, <2>2, <3>1, <3>2, Zenon
    <3>3. CASE attr'[i] = Older(attr[i])
      BY <2>1, <2>2, <3>1, <3>3, OlderPaid, Zenon
    <3> QED BY <2>1, <3>2, <3>3, Zenon
  <2> QED BY <2>1, <2>3, Zenon DEF RetryAcc, FieldStep
<1>11. CASE RecoverMove
  <2> DEFINE id == Head(list["retry"])
  <2>1. /\ list' = [list EXCEPT !["retry"] = Tail(list["retry"]),
                                !["common"] = Append(list["common"], id)]
        /\ list["retry"] # <<>> /\ list["retry"] \in Seq(Ids)
        /\ UNCHANGED <<attr, next, hold, rhold, rpc>>
    BY <1>0, <1>11, Zenon DEF RecoverMove, TypeOK
  <2>2. Range(list["retry"]) = Range(Tail(list["retry"])) \cup {Head(list["retry"])}
    BY <2>1, TailRange, Zenon
  <2>3. list'["retry"] = Tail(list["retry"]) /\ list'["timeout"] = list["timeout"]
    BY <1>0, <2>1, Zenon DEF TypeOK, QueueTyp
  <2>4. /\ Elements("retry")' \subseteq Elements("retry")
        /\ Elements("timeout")' \subseteq Elements("timeout")
    BY <2>2, <2>3, Zenon DEF Elements
  <2> HIDE DEF id
  <2>5. RetryAcc'
    BY <1>0, <2>1, <2>4, KeepsAcc, Zenon
  <2> QED BY <2>1, <2>5, Zenon DEF FieldStep
<1>12. ASSUME NEW m \in Muxers, Clean(m)
       PROVE  RetryAcc' /\ \A i \in Ids : i < next => FieldStep(i)
  <2>1. /\ list' = [list EXCEPT !["retry"] = <<>>]
        /\ UNCHANGED <<attr, next, hold, rhold, rpc>>
    BY <1>12, Zenon DEF Clean
  <2>2. list'["retry"] = <<>> /\ list'["timeout"] = list["timeout"] /\ Range(<<>>) = {}
    BY <1>0, <2>1 DEF TypeOK, QueueTyp, Range
  <2>3. /\ Elements("retry")' \subseteq Elements("retry")
        /\ Elements("timeout")' \subseteq Elements("timeout")
    BY <2>2, Zenon DEF Elements
  <2>4. RetryAcc'
    BY <1>0, <2>1, <2>3, KeepsAcc, Zenon
  <2> QED BY <2>1, <2>4, Zenon DEF FieldStep
\* The steps that leave the lists and the fields alone.
<1>13. ASSUME UNCHANGED <<list, attr, next>>,
              \A w \in Workers : hold'[w] \in {hold[w], NoJob},
              \A m \in Muxers : \/ rhold'[m] = NoJob
                                \/ rhold'[m] = rhold[m] /\ rpc'[m] = rpc[m]
       PROVE  RetryAcc' /\ \A i \in Ids : i < next => FieldStep(i)
  <2>1. Elements("retry")' = Elements("retry") /\ Elements("timeout")' = Elements("timeout")
    BY <1>13, Zenon DEF Elements
  <2>2. RetryAcc'
    BY <1>0, <1>13, <2>1, KeepsAcc, Zenon
  <2> QED BY <1>13, <2>2, Zenon DEF FieldStep
<1>14. ASSUME NEW m \in Muxers,
              \/ \E c \in Confs : Open(m, c)
              \/ Close(m) \/ \E count \in 0 .. MaxJobs : RecoverStart(m, count)
       PROVE  UNCHANGED <<list, attr, next, hold, rhold, rpc>>
  BY <1>14, Zenon DEF Open, Close, RecoverStart
<1>15. ASSUME \/ \E w \in Workers : LoopPing(w) \/ WorkerCheck(w) \/ WorkerMiss(w)
              \/ RecoverEnd \/ UNCHANGED vars
       PROVE  UNCHANGED <<list, attr, next, hold, rhold, rpc>>
  BY <1>15, Zenon DEF LoopPing, WorkerCheck, WorkerMiss, Miss, RecoverEnd, vars
<1>16. ASSUME NEW m \in Muxers,
              \/ \E c \in Confs : Serve(m, c)
              \/ RetryIdle(m) \/ RetryCheck(m) \/ RetryMiss(m)
       PROVE  /\ UNCHANGED <<list, attr, next, hold, rhold>>
              /\ \A n \in Muxers : \/ rhold'[n] = NoJob
                                   \/ rhold'[n] = rhold[n] /\ rpc'[n] = rpc[n]
  <2>1. /\ UNCHANGED <<list, attr, next, hold, rhold>>
        /\ rpc[m] \notin QueueTyp
        /\ \A n \in Muxers \ {m} : rpc'[n] = rpc[n]
    BY <1>0, <1>16 DEF Serve, RetryIdle, RetryCheck, RetryMiss, Miss, QueueTyp, TypeOK
  <2>2. rhold[m] = NoJob
    BY <1>0, <2>1, Zenon DEF PcOK
  <2>3. ASSUME NEW n \in Muxers
        PROVE  rhold'[n] = NoJob \/ (rhold'[n] = rhold[n] /\ rpc'[n] = rpc[n])
    <3>1. CASE n = m
      BY <2>1, <2>2, <3>1, Zenon
    <3>2. CASE n # m
      BY <2>1, <3>2, Zenon
    <3> QED BY <3>1, <3>2, Zenon
  <2> QED BY <2>1, <2>3, Zenon
<1>17. ASSUME NEW w \in Workers, WorkerSuccess(w)
       PROVE  /\ UNCHANGED <<list, attr, next, rhold, rpc>>
              /\ \A v \in Workers : hold'[v] \in {hold[v], NoJob}
  BY <1>0, <1>17, Zenon DEF WorkerSuccess, TypeOK
<1>18. CASE Crash
  <2>1. /\ UNCHANGED <<list, attr, next>>
        /\ \A v \in Workers : hold'[v] = NoJob
        /\ \A n \in Muxers : rhold'[n] = NoJob
    BY <1>18, Zenon DEF Crash
  <2>2. /\ \A v \in Workers : hold'[v] \in {hold[v], NoJob}
        /\ \A n \in Muxers : \/ rhold'[n] = NoJob
                             \/ rhold'[n] = rhold[n] /\ rpc'[n] = rpc[n]
    BY <2>1, Zenon
  <2> QED BY <1>13, <2>1, <2>2, Zenon
<1>19. CASE UNCHANGED <<list, attr, next, hold, rhold, rpc>>
  BY <1>13, <1>19, Zenon
<1>20. ASSUME NEW m \in Muxers,
              \/ \E c \in Confs : Serve(m, c)
              \/ RetryIdle(m) \/ RetryCheck(m) \/ RetryMiss(m)
       PROVE  RetryAcc' /\ \A i \in Ids : i < next => FieldStep(i)
  BY <1>13, <1>16, <1>20, Zenon
<1>21. ASSUME NEW w \in Workers, WorkerSuccess(w)
       PROVE  RetryAcc' /\ \A i \in Ids : i < next => FieldStep(i)
  BY <1>13, <1>17, <1>21, Zenon
<1>22. ASSUME attr' = attr PROVE \A i \in Ids : i < next => FieldStep(i)
  BY <1>22, Zenon DEF FieldStep
<1> HIDE DEF redisVars, muxVars, workerVars, retryVars, adminVars
<1>23. CASE \E m \in Muxers :
              \/ \E c \in Confs : Open(m, c) \/ Serve(m, c)
              \/ Close(m) \/ AddJobs(m) \/ GetJobs(m) \/ GetJobsLost(m)
              \/ RetryLoop(m)
              \/ \E count \in 0 .. MaxJobs : RecoverStart(m, count)
              \/ Clean(m)
  BY <1>23, <1>1, <1>3, <1>8, <1>9, <1>12, <1>14, <1>19, <1>20, <1>22, Zenon DEF RetryLoop
<1>24. CASE \E w \in Workers : Worker(w)
  BY <1>24, <1>4, <1>5, <1>7, <1>15, <1>19, <1>21, <1>22, Zenon DEF Worker
<1>25. CASE RecoverMove \/ RecoverEnd \/ Tick \/ Crash \/ UNCHANGED vars
  BY <1>25, <1>10, <1>11, <1>15, <1>18, <1>19, Zenon
<1> QED BY <1>23, <1>24, <1>25, Zenon DEF Next

-----------------------------------------------------------------------------
\* No job has been seen by the retry loop when the bus starts.
LEMMA InitRetryAcc == Init => RetryAcc
<1> SUFFICES ASSUME Init, NEW i \in Ids
             PROVE  /\ Paid(attr[i])
                    /\ i >= next => ~attr[i].begin
                    /\ Waiting(i) => Ran(attr[i])
                    /\ Leaving(i) => Expired(attr[i])
  BY Zenon DEF RetryAcc
<1>1. attr[i] = NewAttr([isRetry |-> FALSE, retryTime |-> 0])
  BY ZenonT(30) DEF Init
<1>2. /\ attr[i].paid = 0 /\ attr[i].times = 0 /\ ~attr[i].begin
      /\ attr[i].residue = 0 /\ attr[i].budget = 0
  BY <1>1 DEF NewAttr
<1>3. RetryDur * (0 * (0 - 1)) = 0
  BY BoundsAssumption
<1>4. Paid(attr[i])
  BY <1>2, <1>3 DEF Paid
<1>5. i # NoJob /\ Range(<<>>) = {}
  BY BoundsAssumption DEF Ids, NoJob, Range
<1>6. ~Waiting(i) /\ ~Leaving(i)
  BY <1>5, Zenon DEF Init, Waiting, Leaving, Elements, QueueTyp
<1> QED BY <1>2, <1>4, <1>6, Zenon

\* The inductive invariant of the retry fields.
THEOREM RetryAccHolds == Spec => [](Accounting /\ RetryAcc)
<1>1. Init => Accounting /\ RetryAcc
  BY InitAccounting, InitRetryAcc, Zenon
<1>2. Accounting /\ RetryAcc /\ [Next]_vars => (Accounting /\ RetryAcc)'
  BY NextAccounting, NextRetryAcc, Zenon
<1> QED BY <1>1, <1>2, PTL DEF Spec

\* However configurations change, whatever the admin recovers and whichever redis
\* calls fail, the retry loop sends a job back only so often as the retry time
\* it was given pays for: the n-th retry costs n - 1 times RetryDur or more.
THEOREM RetriesBoundedHolds == Spec => []RetriesBounded
<1>1. Accounting /\ RetryAcc => RetriesBounded
  <2> SUFFICES ASSUME Accounting, RetryAcc, NEW i \in 1 .. next - 1
               PROVE  attr[i].paid > 0 =>
                        RetryDur * ((attr[i].paid - 1) * (attr[i].paid - 2))
                          < 2 * attr[i].budget
    BY Zenon DEF RetriesBounded
  <2>1. i \in Ids
    BY BoundsAssumption DEF Accounting, TypeOK, Ids
  <2> QED BY <2>1, Zenon DEF RetryAcc, Paid
<1> QED BY <1>1, RetryAccHolds, PTL

\* A job reaches the timeout list only after it has run, and if its topic
\* retries only when its retry time is used up.
THEOREM TimeoutDeservedHolds == Spec => []TimeoutDeserved
<1>1. Accounting /\ RetryAcc => TimeoutDeserved
  <2> SUFFICES ASSUME Accounting, RetryAcc, NEW i \in Elements("timeout")
               PROVE  attr[i].times > 0 /\ (attr[i].isRetry => attr[i].residue <= 0)
    BY Zenon DEF TimeoutDeserved
  <2>1. i \in Queued
    BY Zenon DEF Queued, QueueTyp
  <2>2. i \in Ids
    BY <2>1, OnlyThere, Zenon
  <2> QED BY <2>2, Zenon DEF RetryAcc, Leaving, Expired
<1> QED BY <1>1, RetryAccHolds, PTL

\* What any of the four changes leaves of the retry time of a job the retry loop
\* has seen.
LEMMA ResidueShrinks ==
  ASSUME NEW a \in Attr, NEW b, Paid(a), a.begin,
         \/ b = a
         \/ b = Older(a)
         \/ \E c \in Confs : b = Executed(a, c)
         \/ Ran(a) /\ b = Judged(a)
  PROVE  b.begin /\ b.residue <= a.residue
<1>1. a.residue \in Int
  BY Zenon DEF Attr
<1>2. CASE b = a
  BY <1>1, <1>2
<1>3. CASE b = Older(a)
  <2>1. b.begin = a.begin /\ b.residue = a.residue
    BY <1>3, OlderPaid, ZenonT(30)
  <2> QED BY <1>1, <2>1
<1>4. CASE \E c \in Confs : b = Executed(a, c)
  <2>1. PICK c \in Confs : b = Executed(a, c)
    BY <1>4, Zenon
  <2>2. b.begin /\ b.residue = a.residue
    BY <2>1, ExecutedPaid, Zenon
  <2> QED BY <1>1, <2>2
<1>5. CASE Ran(a) /\ b = Judged(a)
  BY <1>5, JudgedPaid, Zenon
<1> QED BY <1>2, <1>3, <1>4, <1>5, Zenon

\* Once the retry loop has seen a job, no execution, config update, repeated
\* push or recovery gives it new retry time.
THEOREM BudgetNeverRefilledHolds == Spec => BudgetNeverRefilled
<1> DEFINE Shrinks == \A i \in Ids : attr[i].begin =>
                        attr'[i].begin /\ attr'[i].residue <= attr[i].residue
<1>1. Accounting /\ RetryAcc /\ [Next]_vars => [Shrinks]_vars
  <2>1. ASSUME Accounting, RetryAcc, [Next]_vars, NEW i \in Ids, attr[i].begin
        PROVE  FieldStep(i) /\ attr[i] \in Attr /\ Paid(attr[i])
    <3>1. attr[i] \in Attr /\ Paid(attr[i])
      BY <2>1, Zenon DEF Accounting, TypeOK, RetryAcc
    <3>2. ~(i >= next)
      BY <2>1, Zenon DEF RetryAcc
    <3>3. i \in Int /\ next \in Int
      BY <2>1, BoundsAssumption DEF Accounting, TypeOK, Ids
    <3>4. i < next
      BY <3>2, <3>3
    <3>5. FieldStep(i)
      BY <2>1, <3>4, NextRetryAcc, Zenon
    <3> QED BY <3>1, <3>5, Zenon
  <2>2. ASSUME NEW i \in Ids, attr[i].begin,
               FieldStep(i), attr[i] \in Attr, Paid(attr[i])
        PROVE  attr'[i].begin /\ attr'[i].residue <= attr[i].residue
    BY <2>2, ResidueShrinks, Zenon DEF FieldStep
  <2> QED BY <2>1, <2>2, Zenon
<1>2. Spec => [][Shrinks]_vars
  BY <1>1, RetryAccHolds, PTL DEF Spec
<1> QED BY <1>2, Zenon DEF BudgetNeverRefilled
=============================================================================
