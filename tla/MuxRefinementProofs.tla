------------------------ MODULE MuxRefinementProofs -------------------------
(***************************************************************************)
(* Proofs that new jobs of Mux run first in, first out, and that its       *)
(* pipeline implements JobBus. Steps of the pipeline are first described   *)
(* by what becomes of each job, and then matched with the steps of JobBus. *)
(***************************************************************************)
EXTENDS MuxProofs, MuxRefinesJobBus

\* The order of new jobs.

\* Jobs of s that never ran, by the fields in a, are in the order of their
\* numbers.
Ordered(s, a) ==
  \A i, k \in 1 .. Len(s) :
     i < k /\ a[s[i]].times = 0 /\ a[s[k]].times = 0 => s[i] < s[k]

\* No job of s becomes one that never ran.
NoneNewer(s, a, b) ==
  \A i \in 1 .. Len(s) : b[s[i]].times = 0 => a[s[i]].times = 0

\* A pop, or new fields.
LEMMA OrderedPop ==
  ASSUME NEW s \in Seq(Ids), NEW a, NEW b, Ordered(s, a), NoneNewer(s, a, b)
  PROVE  /\ Ordered(s, b)
         /\ s # <<>> => Ordered(Tail(s), b)
<1>1. Ordered(s, b)
  BY Zenon DEF Ordered, NoneNewer
<1>2. ASSUME s # <<>> PROVE Ordered(Tail(s), b)
  <2>1. /\ Len(s) \in Nat /\ Len(Tail(s)) = Len(s) - 1
        /\ \A i \in 1 .. Len(Tail(s)) : Tail(s)[i] = s[i + 1]
    BY <1>2, HeadTailProperties, LenProperties, Zenon
  <2>2. ASSUME NEW i \in 1 .. Len(Tail(s)), NEW k \in 1 .. Len(Tail(s)), i < k,
               b[Tail(s)[i]].times = 0, b[Tail(s)[k]].times = 0
        PROVE  Tail(s)[i] < Tail(s)[k]
    <3>1. /\ i + 1 \in 1 .. Len(s) /\ k + 1 \in 1 .. Len(s) /\ i + 1 < k + 1
          /\ Tail(s)[i] = s[i + 1] /\ Tail(s)[k] = s[k + 1]
      BY <2>1, <2>2
    <3> QED BY <1>1, <2>2, <3>1, Zenon DEF Ordered
  <2> QED BY <2>2, Zenon DEF Ordered
<1> QED BY <1>1, <1>2, Zenon

\* A push of a job that has run, or of one newer than all in the list.
LEMMA OrderedPush ==
  ASSUME NEW s \in Seq(Ids), NEW b, Ordered(s, b), NEW x \in Ids,
         b[x].times # 0 \/ \A i \in 1 .. Len(s) : s[i] < x
  PROVE  Append(s, x) \in Seq(Ids) /\ Ordered(Append(s, x), b)
<1> DEFINE t == Append(s, x)
<1>1. /\ t \in Seq(Ids) /\ Len(s) \in Nat /\ Len(t) = Len(s) + 1
      /\ \A i \in 1 .. Len(s) : t[i] = s[i]
      /\ t[Len(s) + 1] = x
  BY AppendProperties, LenProperties
<1> HIDE DEF t
<1>2. ASSUME NEW i \in 1 .. Len(t), NEW k \in 1 .. Len(t), i < k,
             b[t[i]].times = 0, b[t[k]].times = 0
      PROVE  t[i] < t[k]
  <2>1. i \in 1 .. Len(s) /\ t[i] = s[i]
    BY <1>1, <1>2
  <2>2. CASE k \in 1 .. Len(s)
    BY <1>1, <1>2, <2>1, <2>2, Zenon DEF Ordered
  <2>3. CASE k = Len(s) + 1
    BY <1>1, <1>2, <2>1, <2>3, Zenon
  <2> QED BY <1>1, <2>2, <2>3
<1>3. Ordered(t, b)
  BY <1>2, Zenon DEF Ordered
<1> QED BY <1>1, <1>3, Zenon DEF t

\* The fields of an existing job only move away from those of a job that never
\* ran.
LEMMA RanStaysRan ==
  ASSUME NEW a \in Attr, NEW b,
         \/ b = a
         \/ b = Older(a)
         \/ \E c \in Confs : b = Executed(a, c)
         \/ Ran(a) /\ b = Judged(a)
  PROVE  b.times = 0 => a.times = 0
<1>1. a.times \in Nat
  BY Zenon DEF Attr
<1>2. CASE b = a \/ b = Older(a) \/ b = Judged(a)
  BY <1>2 DEF Older, Judged
<1>3. CASE \E c \in Confs : b = Executed(a, c)
  BY <1>1, <1>3 DEF Executed
<1> QED BY <1>2, <1>3, Zenon

\* A job that the retry loop holds has run.
RetriedRan == \A m \in Muxers : rhold[m] \in Ids => attr[rhold[m]].times # 0

\* What every step of the pipeline tells about the fields and the list.
LEMMA CommonFacts ==
  ASSUME Accounting, RetryAcc, [Next]_vars
  PROVE  /\ TypeOK /\ TypeOK' /\ PcOK
         /\ list["common"] \in Seq(Ids) /\ list'["common"] \in Seq(Ids)
         /\ attr \in [Ids -> Attr] /\ next \in Nat \ {0} /\ Ids \subseteq Int
         /\ \A i \in Ids : i < next => (attr'[i].times = 0 => attr[i].times = 0)
         /\ \A i \in 1 .. Len(list["common"]) :
              list["common"][i] \in Ids /\ list["common"][i] < next
         /\ NoneNewer(list["common"], attr, attr')
         /\ \A i \in Ids : Waiting(i) => i < next /\ attr[i].times # 0
<1>1. TypeOK /\ PcOK /\ TypeOK'
  BY NextType, Zenon DEF Accounting
<1>2. /\ list["common"] \in Seq(Ids) /\ list'["common"] \in Seq(Ids)
      /\ attr \in [Ids -> Attr] /\ next \in Nat \ {0} /\ Ids \subseteq Int
  BY <1>1, BoundsAssumption DEF TypeOK, QueueTyp, Ids
<1>3. ASSUME NEW i \in Ids, i < next PROVE attr'[i].times = 0 => attr[i].times = 0
  <2>1. FieldStep(i) /\ attr[i] \in Attr
    BY <1>2, <1>3, NextRetryAcc, Zenon
  <2> QED BY <2>1, RanStaysRan, Zenon DEF FieldStep
<1>4. ASSUME NEW i \in 1 .. Len(list["common"])
      PROVE  list["common"][i] \in Ids /\ list["common"][i] < next
  <2>1. list["common"][i] \in Elements("common") /\ "common" \in QueueTyp
    BY <1>2 DEF Elements, Range, QueueTyp
  <2>2. list["common"][i] \in Queued
    BY <2>1, Zenon DEF Queued
  <2> QED BY <2>2, OnlyThere, Zenon
<1>5. NoneNewer(list["common"], attr, attr')
  BY <1>3, <1>4, Zenon DEF NoneNewer
<1>6. ASSUME NEW i \in Ids, Waiting(i) PROVE i < next /\ attr[i].times # 0
  <2>1. Ran(attr[i]) /\ attr[i] \in Attr
    BY <1>2, <1>6, Zenon DEF RetryAcc
  <2>2. attr[i].times # 0
    BY <2>1 DEF Ran, Attr
  <2>3. i < next
    BY <1>2, <1>6, Unused
  <2> QED BY <2>2, <2>3, Zenon
<1> QED BY <1>1, <1>2, <1>3, <1>4, <1>5, <1>6, Zenon

\* What a step may do to the list of waiting jobs: a pop, a push of jobs that
\* have run, or a push of new jobs.
CommonMoves ==
  LET old == list["common"]
      new == list'["common"]
  IN  \/ new = old
      \/ old # <<>> /\ new = Tail(old)
      \/ \E x \in Ids : /\ new = Append(old, x)
                        /\ attr'[x].times # 0 \/ x = next
      \/ \E x, y \in Ids : /\ new = Append(Append(old, x), y)
                           /\ \/ attr'[x].times # 0 /\ attr'[y].times # 0
                              \/ x = next /\ y = next + 1

\* The retry loops let go of a job, or take the oldest of the retry list.
HandMoves ==
  \A m \in Muxers :
     \/ rhold'[m] \in {rhold[m], NoJob}
     \/ list["retry"] # <<>> /\ rhold'[m] = Head(list["retry"])

\* A job that was handed back to its list by a goroutine has run.
LEMMA RequeueMoves ==
  ASSUME Accounting, RetryAcc, [Next]_vars, NEW typ \in QueueTyp, NEW id \in Ids,
         id < next, attr[id].times # 0, AddQueue(typ, id, attr, next)
  PROVE  CommonMoves
<1>1. /\ list \in [QueueTyp -> Seq(Ids)] /\ attr \in [Ids -> Attr] /\ next \in Nat
      /\ Ids \subseteq Int /\ "common" \in QueueTyp
  BY CommonFacts, Zenon DEF TypeOK, QueueTyp
<1>2. CASE typ # "common" \/ PushLost(id, attr, next)
  BY <1>1, <1>2, Zenon DEF AddQueue, Pushed, PushedTwice, PushLost, CommonMoves
<1>3. CASE typ = "common" /\ Pushed(typ, id, attr, next)
  BY <1>1, <1>3, Zenon DEF Pushed, CommonMoves
<1>4. CASE typ = "common" /\ PushedTwice(typ, id, attr, next)
  <2>1. /\ next \in Ids /\ attr'[next] = attr[id] /\ attr'[id] = attr[id]
        /\ list'["common"] = Append(Append(list["common"], id), next)
    BY <1>1, <1>4, Zenon DEF PushedTwice
  <2> QED BY <2>1, Zenon DEF CommonMoves
<1> QED BY <1>2, <1>3, <1>4, Zenon DEF AddQueue

\* The steps of clients and admins.
LEMMA ClientMoves ==
  ASSUME Accounting, RetryAcc, [Next]_vars,
         \/ \E m \in Muxers : AddJobs(m) \/ GetJobs(m) \/ GetJobsLost(m) \/ Clean(m)
         \/ RecoverMove
  PROVE  CommonMoves /\ UNCHANGED rhold
<1>0. /\ list \in [QueueTyp -> Seq(Ids)] /\ next \in Nat \ {0} /\ Ids \subseteq Int
      /\ {"common", "retry"} \subseteq QueueTyp
  BY CommonFacts, Zenon DEF TypeOK, QueueTyp
<1>1. UNCHANGED rhold
  BY Zenon DEF AddJobs, GetJobs, GetJobsLost, Clean, RecoverMove, retryVars
<1>2. ASSUME NEW m \in Muxers, AddJobs(m) PROVE CommonMoves
  <2> DEFINE at == [attr EXCEPT ![next] = NewAttr(applied[m])]
  <2>1. next \in Ids /\ AddQueue("common", next, at, next + 1)
    BY <1>2, Zenon DEF AddJobs
  <2> HIDE DEF at
  <2>2. CASE Pushed("common", next, at, next + 1)
    BY <1>0, <1>1, <2>1, <2>2, Zenon DEF Pushed, CommonMoves
  <2>3. CASE PushLost(next, at, next + 1)
    BY <1>1, <2>3, Zenon DEF PushLost, CommonMoves
  <2>4. CASE PushedTwice("common", next, at, next + 1)
    BY <1>0, <1>1, <2>1, <2>4, Zenon DEF PushedTwice, CommonMoves
  <2> QED BY <2>1, <2>2, <2>3, <2>4, Zenon DEF AddQueue
<1>3. ASSUME NEW m \in Muxers, GetJobs(m) \/ GetJobsLost(m) PROVE CommonMoves
  BY <1>0, <1>1, <1>3, Zenon DEF GetJobs, GetJobsLost, TakeLost, Take, CommonMoves
<1>4. ASSUME NEW m \in Muxers, Clean(m) PROVE CommonMoves
  BY <1>0, <1>1, <1>4, Zenon DEF Clean, CommonMoves
<1>5. CASE RecoverMove
  <2>1. /\ list["retry"] \in Seq(Ids) /\ list["retry"] # <<>> /\ attr' = attr
        /\ list'["common"] = Append(list["common"], Head(list["retry"]))
    BY <1>0, <1>5, Zenon DEF RecoverMove
  <2>2. Head(list["retry"]) \in Ids /\ Head(list["retry"]) \in Elements("retry")
    BY <2>1, TailRange, Zenon DEF Elements
  <2>3. attr[Head(list["retry"])].times # 0
    BY <2>2, CommonFacts, Zenon DEF Waiting
  <2> QED BY <1>1, <2>1, <2>2, <2>3, Zenon DEF CommonMoves
<1> QED BY <1>1, <1>2, <1>3, <1>4, <1>5, Zenon

\* The steps of the workers.
LEMMA WorkerMoves ==
  ASSUME Accounting, RetryAcc, [Next]_vars, NEW w \in Workers, Worker(w)
  PROVE  CommonMoves /\ UNCHANGED rhold
<1> USE DEF redisVars, retryVars
<1>0. /\ list \in [QueueTyp -> Seq(Ids)] /\ PcOK /\ TypeOK
      /\ {"common", "retry"} \subseteq QueueTyp
  BY CommonFacts, Zenon DEF TypeOK, QueueTyp
<1>1. CASE LoopPing(w) \/ WorkerCheck(w) \/ WorkerMiss(w) \/ WorkerSuccess(w)
  BY <1>1, Zenon DEF LoopPing, WorkerCheck, WorkerMiss, Miss, WorkerSuccess, CommonMoves
<1>2. CASE WorkerPop(w) \/ WorkerPopLost(w)
  BY <1>0, <1>2, Zenon DEF WorkerPop, WorkerPopLost, TakeLost, Take, CommonMoves
<1>3. ASSUME NEW code \in Failures, WorkerFailure(w, code)
      PROVE  CommonMoves /\ UNCHANGED rhold
  <2>1. /\ hold[w] \in Ids /\ AddQueue("retry", hold[w], attr, next)
        /\ UNCHANGED rhold
    BY <1>0, <1>3, Zenon DEF WorkerFailure, PcOK, TypeOK
  <2>2. hold[w] < next /\ attr[hold[w]].times # 0
    BY <2>1, CommonFacts, Zenon DEF Waiting
  <2> QED BY <1>0, <2>1, <2>2, RequeueMoves, Zenon
<1> QED BY <1>1, <1>2, <1>3, Zenon DEF Worker

\* The steps of the retry loops.
LEMMA RetryMoves ==
  ASSUME Accounting, RetryAcc, RetriedRan, [Next]_vars, NEW m \in Muxers, RetryLoop(m)
  PROVE  CommonMoves /\ HandMoves
<1> USE DEF redisVars
<1>0. /\ list \in [QueueTyp -> Seq(Ids)] /\ PcOK /\ TypeOK
      /\ {"common", "retry"} \subseteq QueueTyp
  BY CommonFacts, Zenon DEF TypeOK, QueueTyp
<1>1. CASE RetryIdle(m) \/ RetryCheck(m) \/ RetryMiss(m)
  BY <1>1, Zenon DEF RetryIdle, RetryCheck, RetryMiss, Miss, CommonMoves, HandMoves
<1>2. CASE RetryPop(m) \/ RetryPopLost(m)
  <2>1. /\ list["retry"] # <<>> /\ list'["common"] = list["common"]
        /\ rhold' \in {rhold, [rhold EXCEPT ![m] = Head(list["retry"])]}
    BY <1>0, <1>2, Zenon DEF RetryPop, RetryPopLost, TakeLost, Take, retryVars
  <2> QED BY <1>0, <2>1, Zenon DEF CommonMoves, HandMoves, TypeOK
<1>3. CASE RetryPut(m)
  <2>1. PICK typ \in QueueTyp, id \in Ids : typ = rpc[m] /\ id = rhold[m]
    BY <1>0, <1>3, ZenonT(30) DEF RetryPut, PcOK, TypeOK
  <2>2. AddQueue(typ, id, attr, next) /\ rhold' = [rhold EXCEPT ![m] = NoJob]
    BY <1>3, <2>1, Zenon DEF RetryPut
  <2>3. id < next /\ attr[id].times # 0
    <3>1. id \in Held /\ Accounting
      BY <1>0, <2>1, BoundsAssumption DEF Held, InMemory, Ids, NoJob
    <3> QED BY <2>1, <3>1, PlacesArePartition, Zenon DEF RetriedRan, Accounting
  <2>4. CommonMoves
    BY <2>2, <2>3, RequeueMoves, Zenon
  <2> QED BY <1>0, <2>2, <2>4, Zenon DEF HandMoves, TypeOK
<1> QED BY <1>1, <1>2, <1>3, Zenon DEF RetryLoop

\* Every step does one of these to the list and to the loops.
LEMMA NextMoves ==
  ASSUME Accounting, RetryAcc, RetriedRan, [Next]_vars
  PROVE  CommonMoves /\ HandMoves
<1>1. ASSUME UNCHANGED rhold PROVE HandMoves
  BY <1>1, Zenon DEF HandMoves
<1>2. ASSUME UNCHANGED list PROVE CommonMoves
  BY <1>2, Zenon DEF CommonMoves
<1>3. CASE \E m \in Muxers :
             \/ \E c \in Confs : Open(m, c) \/ Serve(m, c)
             \/ Close(m)
             \/ \E count \in 0 .. MaxJobs : RecoverStart(m, count)
  BY <1>1, <1>2, <1>3, Zenon DEF Open, Serve, Close, RecoverStart, redisVars, retryVars
<1>4. CASE \E m \in Muxers : AddJobs(m) \/ GetJobs(m) \/ GetJobsLost(m) \/ Clean(m)
  BY <1>1, <1>4, ClientMoves, Zenon
<1>5. CASE \E m \in Muxers : RetryLoop(m)
  BY <1>5, RetryMoves, Zenon
<1>6. CASE \E w \in Workers : Worker(w)
  BY <1>1, <1>6, WorkerMoves, Zenon
<1>7. CASE RecoverMove
  BY <1>1, <1>7, ClientMoves, Zenon
<1>8. CASE RecoverEnd \/ Tick \/ UNCHANGED vars
  BY <1>1, <1>2, <1>8, Zenon DEF RecoverEnd, Miss, Tick, vars, redisVars, retryVars
<1>9. CASE Crash
  BY <1>2, <1>9, Zenon DEF Crash, HandMoves
<1> QED BY <1>3, <1>4, <1>5, <1>6, <1>7, <1>8, <1>9, Zenon DEF Next

\* A move of the list keeps the order of the jobs that never ran.
LEMMA NextOrdered ==
  Accounting /\ RetryAcc /\ RetriedRan /\ FirstInFirstOut /\ [Next]_vars
    => (RetriedRan /\ FirstInFirstOut)'
<1> SUFFICES ASSUME Accounting, RetryAcc, RetriedRan, FirstInFirstOut, [Next]_vars
             PROVE  RetriedRan' /\ FirstInFirstOut'
  OBVIOUS
<1> DEFINE old == list["common"]
           new == list'["common"]
<1>1. CommonMoves /\ HandMoves
  BY NextMoves, Zenon
<1>2. RetriedRan'
  <2> SUFFICES ASSUME NEW m \in Muxers, rhold'[m] \in Ids
               PROVE  attr'[rhold'[m]].times # 0
    BY Zenon DEF RetriedRan
  <2>1. CASE rhold'[m] = rhold[m]
    <3>1. rhold[m] \in Held
      BY <2>1, BoundsAssumption DEF Held, InMemory, Ids, NoJob
    <3>2. rhold[m] < next
      BY <3>1, PlacesArePartition, Zenon DEF Accounting
    <3> QED BY <2>1, <3>2, CommonFacts, Zenon DEF RetriedRan
  <2>2. CASE list["retry"] # <<>> /\ rhold'[m] = Head(list["retry"])
    <3>1. list["retry"] \in Seq(Ids)
      BY CommonFacts, Zenon DEF TypeOK, QueueTyp
    <3>2. rhold'[m] \in Elements("retry")
      BY <2>2, <3>1, TailRange DEF Elements
    <3> QED BY <3>2, CommonFacts, Zenon DEF Waiting
  <2>3. rhold'[m] # NoJob
    BY BoundsAssumption DEF Ids, NoJob
  <2> QED BY <1>1, <2>1, <2>2, <2>3, Zenon DEF HandMoves
<1>3. /\ old \in Seq(Ids) /\ NoneNewer(old, attr, attr') /\ next \in Nat
      /\ \A i \in 1 .. Len(old) : old[i] \in Ids /\ old[i] < next
      /\ Ids \subseteq Int
  BY CommonFacts, Zenon
<1>4. Ordered(old, attr)
  BY Zenon DEF FirstInFirstOut, Ordered
<1> HIDE DEF old
<1>5. Ordered(old, attr') /\ (old # <<>> => Ordered(Tail(old), attr'))
  BY <1>3, <1>4, OrderedPop, Zenon
<1>6. ASSUME NEW x \in Ids, attr'[x].times # 0 \/ x = next
      PROVE  Append(old, x) \in Seq(Ids) /\ Ordered(Append(old, x), attr')
  BY <1>3, <1>5, <1>6, OrderedPush, Zenon
<1>7. ASSUME NEW x \in Ids, NEW y \in Ids,
             \/ attr'[x].times # 0 /\ attr'[y].times # 0
             \/ x = next /\ y = next + 1
      PROVE  Ordered(Append(Append(old, x), y), attr')
  <2> DEFINE s == Append(old, x)
  <2>1. s \in Seq(Ids) /\ Ordered(s, attr')
    BY <1>6, <1>7, Zenon
  <2>2. x = next => \A i \in 1 .. Len(s) : s[i] < next + 1
    <3>1. /\ Len(old) \in Nat /\ Len(s) = Len(old) + 1 /\ s[Len(old) + 1] = x
          /\ \A i \in 1 .. Len(old) : s[i] = old[i]
      BY <1>3, AppendProperties, LenProperties
    <3> HIDE DEF s
    <3>2. ASSUME x = next, NEW i \in 1 .. Len(s) PROVE s[i] < next + 1
      <4>1. CASE i \in 1 .. Len(old)
        <5>1. s[i] = old[i] /\ old[i] \in Int /\ old[i] < next
          BY <1>3, <3>1, <4>1, Zenon
        <5> QED BY <1>3, <5>1
      <4>2. CASE i = Len(old) + 1
        BY <1>3, <3>1, <3>2, <4>2
      <4> QED BY <3>1, <4>1, <4>2
    <3> QED BY <3>2, Zenon
  <2> HIDE DEF s
  <2>3. attr'[y].times # 0 \/ \A i \in 1 .. Len(s) : s[i] < y
    BY <1>7, <2>2, Zenon
  <2>4. Ordered(Append(s, y), attr')
    BY <2>1, <2>3, OrderedPush, Zenon
  <2> QED BY <2>4, Zenon DEF s
<1>8. Ordered(new, attr')
  <2>1. \/ new = old
        \/ old # <<>> /\ new = Tail(old)
        \/ \E x \in Ids : /\ new = Append(old, x)
                          /\ attr'[x].times # 0 \/ x = next
        \/ \E x, y \in Ids : /\ new = Append(Append(old, x), y)
                             /\ \/ attr'[x].times # 0 /\ attr'[y].times # 0
                                \/ x = next /\ y = next + 1
    BY <1>1, Zenon DEF CommonMoves, old
  <2> HIDE DEF new
  <2> QED BY <1>5, <1>6, <1>7, <2>1, Zenon
<1>9. FirstInFirstOut'
  BY <1>8, Zenon DEF FirstInFirstOut, Ordered
<1> QED BY <1>2, <1>9, Zenon

\* Jobs that were never executed leave their list in the order they entered it:
\* retried, recovered and repeated jobs come between them and never swap two.
THEOREM FirstInFirstOutHolds == Spec => []FirstInFirstOut
<1> DEFINE Inv == Accounting /\ RetryAcc /\ RetriedRan /\ FirstInFirstOut
<1>1. Init => Inv
  <2>1. ASSUME Init PROVE RetriedRan /\ FirstInFirstOut
    <3>1. list["common"] = <<>> /\ Len(<<>>) = 0 /\ NoJob \notin Ids
      BY <2>1, BoundsAssumption DEF Init, QueueTyp, Ids, NoJob
    <3>2. FirstInFirstOut
      BY <3>1 DEF FirstInFirstOut
    <3>3. RetriedRan
      BY <2>1, <3>1, Zenon DEF Init, RetriedRan
    <3> QED BY <3>2, <3>3, Zenon
  <2> QED BY <2>1, InitAccounting, InitRetryAcc, Zenon
<1>2. Inv /\ [Next]_vars => Inv'
  BY NextAccounting, NextRetryAcc, NextOrdered, Zenon
<1>3. Inv => FirstInFirstOut
  OBVIOUS
<1> QED BY <1>1, <1>2, <1>3, PTL DEF Spec

-----------------------------------------------------------------------------
\* A worker holds the job.
Running(i) == \E w \in Workers : hold[w] = i

\* No job that was not created yet has run.
Fresh == \A i \in Ids : i >= next => attr[i].times = 0

\* No job runs, or takes over the history of one that ran.
SameRan == \A i \in Ids : attr'[i].times = attr[i].times

\* From what becomes of single jobs to steps of JobBus: nothing changes ...
LEMMA BusStutter ==
  ASSUME \A i \in Ids : StateOf(i)' = StateOf(i), SameRan
  PROVE  UNCHANGED Bus!busVars
BY Zenon DEF SameRan, Bus!busVars

\* ... some jobs leave ...
LEMMA BusLeave ==
  ASSUME NEW D \in SUBSET Ids, SameRan,
         \A j \in D : StateOf(j) \in {"queued", "running"} /\ StateOf(j)' = "gone",
         \A i \in Ids \ D : StateOf(i)' = StateOf(i)
  PROVE  Bus!BusNext
<1>1. Bus!Leave(D)
  BY Zenon DEF SameRan, Bus!Leave
<1> QED BY <1>1, Zenon DEF Bus!BusNext

\* ... one job changes its state ...
LEMMA BusOne ==
  ASSUME NEW j \in Ids, SameRan,
         \A i \in Ids \ {j} : StateOf(i)' = StateOf(i)
  PROVE  /\ StateOf(j) = "absent" /\ StateOf(j)' = "gone" => Bus!BusNext
         /\ StateOf(j) = "running" /\ StateOf(j)' = "done" => Bus!BusNext
         /\ \A from, to \in Bus!States :
              StateOf(j) = from /\ StateOf(j)' = to => Bus!Move(j, from, to)
<1>1. StateOf(j) = "absent" /\ StateOf(j)' = "gone" => Bus!Reject(j)
  BY ZenonT(30) DEF SameRan, Bus!Reject
<1>2. StateOf(j) = "running" /\ StateOf(j)' = "done" => Bus!Finish(j)
  BY ZenonT(30) DEF SameRan, Bus!Finish
<1>3. \A from, to \in Bus!States :
              StateOf(j) = from /\ StateOf(j)' = to => Bus!Move(j, from, to)
  BY ZenonT(30) DEF SameRan, Bus!Move
<1> QED BY <1>1, <1>2, <1>3, Zenon DEF Bus!BusNext

\* ... one job is handed to a consumer ...
LEMMA BusStart ==
  ASSUME NEW j \in Ids, StateOf(j) = "queued", StateOf(j)' = "running",
         attr'[j].times > 0,
         \A i \in Ids \ {j} : StateOf(i)' = StateOf(i) /\ attr'[i].times = attr[i].times
  PROVE  Bus!BusNext
<1> DEFINE ran == {i \in Ids : attr[i].times > 0}
           ranN == {i \in Ids : attr'[i].times > 0}
           st == [i \in Ids |-> StateOf(i)]
           stN == [i \in Ids |-> StateOf(i)']
<1>1. ranN = ran \cup {j}
  <2>1. \A i \in Ids : i \in ranN <=> i \in ran \/ i = j
    OBVIOUS
  <2> QED BY <2>1, Zenon
<1>2. stN = [st EXCEPT ![j] = "running"] /\ st[j] = "queued"
  BY ZenonT(30)
<1>3. Bus!Start(j)
  BY <1>1, <1>2, Zenon DEF Bus!Start
<1> QED BY <1>3, Zenon DEF Bus!BusNext

\* ... or a job moves on and leaves a copy.
LEMMA BusTwo ==
  ASSUME NEW j \in Ids, NEW k \in Ids \ {j}, NEW from, NEW to,
         StateOf(j) = from, StateOf(j)' = to,
         StateOf(k) = "absent", StateOf(k)' = to,
         attr[k].times = 0, attr'[k].times = attr'[j].times,
         attr[j].times \in Nat,
         \A i \in Ids \ {k} : attr'[i].times = attr[i].times,
         \A i \in Ids \ {j, k} : StateOf(i)' = StateOf(i)
  PROVE  Bus!Move(j, from, to)
<1> DEFINE ran == {i \in Ids : attr[i].times > 0}
           ranN == {i \in Ids : attr'[i].times > 0}
           st == [i \in Ids |-> StateOf(i)]
           stN == [i \in Ids |-> StateOf(i)']
<1>1. stN = [st EXCEPT ![j] = to, ![k] = to] /\ st[j] = from /\ st[k] = "absent"
  BY ZenonT(30)
<1>2. ranN = IF j \in ran THEN ran \cup {k} ELSE ran
  OBVIOUS
<1> QED BY <1>1, <1>2, ZenonT(30) DEF Bus!Move

-----------------------------------------------------------------------------
\* A step of JobBus, or none.
BusStep == Bus!BusNext \/ UNCHANGED Bus!busVars

\* A step that gives no run to a job that still does not exist after it.
FreshStep == /\ next' \in Int /\ next' >= next
             /\ \A i \in Ids : i >= next' => attr'[i].times = attr[i].times

\* Where a job is, and the state of its life.
LEMMA StateIs ==
  ASSUME Accounting, NEW i \in Ids
  PROVE  /\ i >= next => StateOf(i) = "absent"
         /\ i \in Queued /\ i \notin Elements("timeout") => StateOf(i) = "queued"
         /\ Running(i) => StateOf(i) = "running"
         /\ (\E m \in Muxers : rhold[m] = i) => StateOf(i) = "queued"
<1>1. /\ i # NoJob /\ i \in Int /\ next \in Int
      /\ Elements("timeout") \subseteq Queued
      /\ Queued \cap Held = {} /\ (Queued \cup Held) \cap Settled = {}
      /\ HandsDistinct
  BY BoundsAssumption DEF Accounting, Places, OnePlace, TypeOK, Ids, NoJob, Queued, QueueTyp
<1>2. \A k \in Queued \cup Held : k < next
  BY PlacesArePartition, Zenon DEF Accounting
<1>3. /\ Running(i) => i \in Held
      /\ (\E m \in Muxers : rhold[m] = i) => i \in Held /\ ~Running(i)
      /\ i \in Queued => ~Running(i)
  BY <1>1 DEF Running, Held, InMemory, HandsDistinct
<1>4. i \in Queued \cup Held => /\ ~(i >= next) /\ i \notin done /\ i \notin taken \cup lost
  BY <1>1, <1>2 DEF Settled
<1>5. i \in Held => i \notin Elements("timeout")
  BY <1>1, Zenon
<1> QED BY <1>3, <1>4, <1>5, Zenon DEF StateOf, Running

\* What the state of a job depends on.
LEMMA StateFrame ==
  ASSUME NEW i \in Ids, i >= next' <=> i >= next,
         i \in done' <=> i \in done,
         i \in taken' \cup lost' <=> i \in taken \cup lost,
         i \in Elements("timeout")' <=> i \in Elements("timeout"),
         Running(i)' <=> Running(i)
  PROVE  StateOf(i)' = StateOf(i)
BY Zenon DEF StateOf, Running

\* A step that moves no job on.
LEMMA StutterStep ==
  ASSUME Accounting, UNCHANGED <<next, done, taken, lost, hold>>,
         Elements("timeout")' = Elements("timeout"), SameRan
  PROVE  BusStep /\ FreshStep
<1>1. \A i \in Ids : StateOf(i)' = StateOf(i)
  BY StateFrame, Zenon DEF Running
<1>2. next \in Int
  BY BoundsAssumption DEF Accounting, TypeOK
<1> QED BY <1>1, <1>2, BusStutter DEF BusStep, FreshStep, SameRan

\* Jobs that are queued or running leave.
LEMMA LeaveStep ==
  ASSUME Accounting, NEW D \in SUBSET Ids,
         \A j \in D : StateOf(j) \in {"queued", "running"},
         taken' \cup lost' = taken \cup lost \cup D,
         UNCHANGED <<next, done>>, Elements("timeout")' = Elements("timeout"), SameRan,
         \A i \in Ids \ D : Running(i)' <=> Running(i)
  PROVE  BusStep /\ FreshStep
<1>1. \A i \in Ids \ D : StateOf(i)' = StateOf(i)
  BY StateFrame, Zenon
<1>2. \A j \in D : StateOf(j)' = "gone"
  BY Zenon DEF StateOf
<1>3. next \in Int
  BY BoundsAssumption DEF Accounting, TypeOK
<1> QED BY <1>1, <1>2, <1>3, BusLeave DEF BusStep, FreshStep, SameRan

\* The three outcomes of storage.AddQueue.
LEMMA AddQueueOutcome ==
  ASSUME TypeOK, NEW typ \in QueueTyp, NEW id \in Ids, NEW at \in [Ids -> Attr],
         NEW free \in Int, AddQueue(typ, id, at, free)
  PROVE  \/ /\ lost' = lost /\ next' = free /\ attr' = at
            /\ Elements("timeout")' =
                 IF typ = "timeout" THEN Elements("timeout") \cup {id} ELSE Elements("timeout")
         \/ /\ lost' = lost \cup {id} /\ next' = free /\ attr' = at
            /\ Elements("timeout")' = Elements("timeout")
         \/ /\ free \in Ids /\ lost' = lost /\ next' = free + 1
            /\ attr' = [at EXCEPT ![free] = at[id]]
            /\ Elements("timeout")' =
                 IF typ = "timeout" THEN Elements("timeout") \cup {id, free}
                                    ELSE Elements("timeout")
<1>1. list[typ] \in Seq(Ids) /\ "timeout" \in QueueTyp
  BY Zenon DEF TypeOK, QueueTyp
<1> DEFINE s == Append(list[typ], id)
<1>2. s \in Seq(Ids) /\ Range(s) = Elements(typ) \cup {id}
  BY <1>1, AppendRange DEF Elements
<1>3. CASE Pushed(typ, id, at, free)
  <2>1. list' = [list EXCEPT ![typ] = s] /\ attr' = at /\ next' = free /\ lost' = lost
    BY <1>3, Zenon DEF Pushed
  <2> HIDE DEF s
  <2>2. list'["timeout"] = IF typ = "timeout" THEN s ELSE list["timeout"]
    BY <1>1, <2>1, Zenon DEF TypeOK
  <2>3. Elements("timeout")' = IF typ = "timeout" THEN Range(s) ELSE Elements("timeout")
    BY <2>2, Zenon DEF Elements
  <2> QED BY <1>2, <2>1, <2>3, Zenon
<1>4. CASE PushLost(id, at, free)
  BY <1>4, Zenon DEF PushLost, Elements
<1>5. CASE PushedTwice(typ, id, at, free)
  <2>1. /\ list' = [list EXCEPT ![typ] = Append(s, free)] /\ free \in Ids /\ lost' = lost
        /\ attr' = [at EXCEPT ![free] = at[id]] /\ next' = free + 1
    BY <1>5, Zenon DEF PushedTwice
  <2> HIDE DEF s
  <2>2. Range(Append(s, free)) = Range(s) \cup {free}
    BY <1>2, <2>1, AppendRange
  <2>3. list'["timeout"] = IF typ = "timeout" THEN Append(s, free) ELSE list["timeout"]
    BY <1>1, <2>1, Zenon DEF TypeOK
  <2>4. Elements("timeout")' = IF typ = "timeout" THEN Range(s) \cup {free}
                                                  ELSE Elements("timeout")
    BY <2>2, <2>3, ZenonT(30) DEF Elements
  <2> QED BY <1>2, <2>1, <2>4, Zenon
<1> QED BY <1>3, <1>4, <1>5, Zenon DEF AddQueue

-----------------------------------------------------------------------------
\* A goroutine puts the job it holds on a list: the job is queued again or
\* expires, with or without a copy, or it is lost.
LEMMA PutDownStep ==
  ASSUME Accounting, Fresh, NEW typ \in QueueTyp, NEW id \in Held,
         AddQueue(typ, id, attr, next), UNCHANGED <<done, taken>>,
         ~Running(id)', \A i \in Ids \ {id} : Running(i)' <=> Running(i),
         \/ StateOf(id) = "queued"
         \/ StateOf(id) = "running" /\ typ # "timeout",
         typ = "timeout" => attr[id].times > 0
  PROVE  BusStep /\ FreshStep
<1> DEFINE to == IF typ = "timeout" THEN "expired" ELSE "queued"
           from == StateOf(id)
<1>1. /\ id \in Ids /\ id < next /\ id \notin Queued /\ id \notin Settled
      /\ next \notin Queued \cup Held \cup Settled
      /\ next \in Int /\ Ids \subseteq Int /\ TypeOK
      /\ attr \in [Ids -> Attr]
  BY PlacesArePartition, BoundsAssumption
     DEF Accounting, Places, OnePlace, TypeOK, Ids
<1>2. /\ id \notin Elements("timeout") /\ next \notin Elements("timeout")
      /\ id \notin done /\ id \notin taken \cup lost
      /\ next \notin done /\ next \notin taken \cup lost
      /\ next \in Ids => ~Running(next)
  <2>1. Elements("timeout") \subseteq Queued
    BY Zenon DEF Queued, QueueTyp
  <2>2. ASSUME next \in Ids PROVE ~Running(next)
    <3>1. next # NoJob
      BY <2>2, BoundsAssumption DEF Ids, NoJob
    <3> QED BY <1>1, <3>1, Zenon DEF Running, Held, InMemory
  <2> QED BY <1>1, <2>1, <2>2, Zenon DEF Settled
<1>3. ASSUME Bus!Move(id, from, to) PROVE BusStep
  <2>1. CASE typ = "timeout"
    <3>1. Bus!Expire(id)
      BY <1>1, <1>3, <2>1, Zenon DEF Bus!Expire
    <3> QED BY <1>1, <3>1, Zenon DEF BusStep, Bus!BusNext
  <2>2. CASE typ # "timeout"
    <3>1. Bus!Requeue(id)
      BY <1>3, <2>2, Zenon DEF Bus!Requeue
    <3> QED BY <1>1, <3>1, Zenon DEF BusStep, Bus!BusNext
  <2> QED BY <2>1, <2>2, Zenon
<1>4. CASE /\ lost' = lost /\ next' = next /\ attr' = attr
           /\ Elements("timeout")' =
                IF typ = "timeout" THEN Elements("timeout") \cup {id} ELSE Elements("timeout")
  <2>1. \A i \in Ids \ {id} : StateOf(i)' = StateOf(i)
    BY <1>4, StateFrame, Zenon
  <2>2. StateOf(id)' = to
    BY <1>1, <1>2, <1>4, Zenon DEF StateOf, Running
  <2>3. SameRan /\ FreshStep
    BY <1>1, <1>4 DEF SameRan, FreshStep
  <2>4. from \in Bus!States /\ to \in Bus!States
    BY Zenon DEF Bus!States
  <2> HIDE DEF to, from
  <2>5. Bus!Move(id, from, to)
    BY <1>1, <2>1, <2>2, <2>3, <2>4, BusOne, Zenon DEF from
  <2> QED BY <1>3, <2>3, <2>5, Zenon
<1>5. CASE /\ lost' = lost \cup {id} /\ next' = next /\ attr' = attr
           /\ Elements("timeout")' = Elements("timeout")
  <2>1. /\ {id} \in SUBSET Ids /\ taken' \cup lost' = taken \cup lost \cup {id}
        /\ \A j \in {id} : StateOf(j) \in {"queued", "running"}
        /\ UNCHANGED <<next, done>> /\ SameRan
    BY <1>1, <1>5, Zenon DEF SameRan
  <2> QED BY <1>5, <2>1, LeaveStep, ZenonT(30)
<1>6. CASE /\ next \in Ids /\ lost' = lost /\ next' = next + 1
           /\ attr' = [attr EXCEPT ![next] = attr[id]]
           /\ Elements("timeout")' =
                IF typ = "timeout" THEN Elements("timeout") \cup {id, next}
                                   ELSE Elements("timeout")
  <2>0. PICK k \in Ids : k = next
    BY <1>6, Zenon
  <2>1. /\ k \in Ids \ {id} /\ next' = k + 1 /\ next' \in Int
        /\ \A i \in Ids \ {id, k} : i >= next' <=> i >= next
        /\ ~(id >= next') /\ ~(k >= next')
        /\ k >= next
    BY <1>1, <1>6, <2>0
  <2>2. \A i \in Ids \ {id, k} : StateOf(i)' = StateOf(i)
    <3>1. \A i \in Ids \ {id, k} : i \in Elements("timeout")' <=> i \in Elements("timeout")
      BY <1>6, <2>0, Zenon
    <3> QED BY <1>6, <2>1, <3>1, StateFrame, Zenon
  <2>3. StateOf(id)' = to
    BY <1>1, <1>2, <1>6, <2>1, Zenon DEF StateOf, Running
  <2>4. /\ k \notin done' /\ k \notin taken' \cup lost' /\ ~Running(k)'
        /\ k \in Elements("timeout")' <=> typ = "timeout"
    BY <1>2, <1>6, <2>0, <2>1, Zenon
  <2>5. StateOf(k)' = to /\ StateOf(k) = "absent"
    BY <2>1, <2>4, Zenon DEF StateOf, Running
  <2>6. /\ attr[k].times = 0 /\ attr'[k].times = attr'[id].times
        /\ attr[id].times \in Nat
        /\ \A i \in Ids \ {k} : attr'[i].times = attr[i].times
    BY <1>1, <1>6, <2>0, <2>1, Zenon DEF Fresh, Attr
  <2>7. FreshStep
    BY <1>1, <1>6, <2>0, <2>1, <2>6 DEF FreshStep
  <2> HIDE DEF to, from
  <2>8. Bus!Move(id, from, to)
    BY <1>1, <2>1, <2>2, <2>3, <2>5, <2>6, BusTwo, Zenon DEF from
  <2> QED BY <1>3, <2>7, <2>8, Zenon
<1> QED BY <1>1, <1>4, <1>5, <1>6, AddQueueOutcome, Zenon

\* A client submits a job: it is queued, with or without a copy, or refused.
LEMMA SubmitStep ==
  ASSUME Accounting, Fresh, NEW m \in Muxers, AddJobs(m)
  PROVE  BusStep /\ FreshStep
<1>0. PICK k \in Ids : k = next
  BY Zenon DEF AddJobs
<1> DEFINE at == [attr EXCEPT ![k] = NewAttr(applied[m])]
<1>1. /\ TypeOK /\ Ids \subseteq Int /\ next \in Int /\ k + 1 \in Int
      /\ attr \in [Ids -> Attr] /\ applied[m] \in Confs
      /\ UNCHANGED <<hold, done, taken>>
  BY BoundsAssumption DEF Accounting, TypeOK, Ids, AddJobs, workerVars
<1>2. /\ at \in [Ids -> Attr] /\ at[k] = NewAttr(applied[m])
      /\ \A i \in Ids \ {k} : at[i] = attr[i]
  BY <1>1, AttrType, Zenon
<1>3. /\ AddQueue("common", k, at, k + 1)
      /\ "common" \in QueueTyp /\ "common" # "timeout"
  BY <1>0, Zenon DEF AddJobs, QueueTyp
<1>4. at[k].times = 0 /\ NewAttr(applied[m]).times = 0 /\ attr[k].times = 0
  <2>1. NewAttr(applied[m]).times = 0
    BY Zenon DEF NewAttr
  <2>2. k >= next
    BY <1>0, <1>1
  <2> HIDE DEF at
  <2> QED BY <1>2, <2>1, <2>2, Zenon DEF Fresh
<1>5. /\ \A i \in Ids : i >= k => StateOf(i) = "absent"
      /\ \A i \in Ids : i >= k => /\ i \notin done /\ i \notin taken \cup lost
                                  /\ i \notin Elements("timeout") /\ ~Running(i)
  <2>1. \A i \in Queued \cup Held \cup Settled : i < next
    BY PlacesArePartition, Zenon DEF Accounting
  <2>2. Elements("timeout") \subseteq Queued
    BY Zenon DEF Queued, QueueTyp
  <2>3. \A i \in Ids : i # NoJob
    BY BoundsAssumption DEF Ids, NoJob
  <2>4. \A i \in Ids : i >= k => i \notin Queued \cup Held \cup Settled
    BY <1>0, <1>1, <2>1
  <2>5. \A i \in Ids : Running(i) => i \in Held
    BY <2>3, Zenon DEF Running, Held, InMemory
  <2> QED BY <1>0, <2>2, <2>4, <2>5, Zenon DEF StateOf, Settled
<1> HIDE DEF at
<1>6. CASE /\ lost' = lost /\ next' = k + 1 /\ attr' = at
           /\ Elements("timeout")' = Elements("timeout")
  <2>1. \A i \in Ids \ {k} : i >= next' <=> i >= next
    BY <1>0, <1>1, <1>6
  <2>2. \A i \in Ids \ {k} : StateOf(i)' = StateOf(i)
    BY <1>1, <1>6, <2>1, StateFrame, Zenon DEF Running
  <2>3. ~(k >= next') /\ k >= k
    BY <1>1, <1>6
  <2>4. StateOf(k)' = "queued"
    BY <1>1, <1>5, <1>6, <2>3, Zenon DEF StateOf, Running
  <2>5. SameRan /\ FreshStep
    BY <1>0, <1>1, <1>2, <1>4, <1>6 DEF SameRan, FreshStep
  <2>6. Bus!Move(k, "absent", "queued")
    BY <1>5, <2>2, <2>3, <2>4, <2>5, BusOne, Zenon DEF Bus!States
  <2> QED BY <2>5, <2>6, Zenon DEF BusStep, Bus!BusNext, Bus!Submit
<1>7. CASE /\ lost' = lost \cup {k} /\ next' = k + 1 /\ attr' = at
           /\ Elements("timeout")' = Elements("timeout")
  <2>1. \A i \in Ids \ {k} : i >= next' <=> i >= next
    BY <1>0, <1>1, <1>7
  <2>2. \A i \in Ids \ {k} : StateOf(i)' = StateOf(i)
    BY <1>1, <1>7, <2>1, StateFrame, Zenon DEF Running
  <2>3. ~(k >= next') /\ k >= k
    BY <1>1, <1>7
  <2>4. StateOf(k)' = "gone"
    BY <1>1, <1>5, <1>7, <2>3, Zenon DEF StateOf
  <2>5. SameRan /\ FreshStep
    BY <1>0, <1>1, <1>2, <1>4, <1>7 DEF SameRan, FreshStep
  <2> QED BY <1>5, <2>2, <2>3, <2>4, <2>5, BusOne, Zenon DEF BusStep
<1>8. CASE /\ k + 1 \in Ids /\ lost' = lost /\ next' = k + 1 + 1
           /\ attr' = [at EXCEPT ![k + 1] = at[k]]
           /\ Elements("timeout")' = Elements("timeout")
  <2>0. PICK l \in Ids : l = k + 1
    BY <1>8, Zenon
  <2>1. /\ l \in Ids \ {k} /\ ~(k >= next') /\ ~(l >= next') /\ k >= k /\ l >= k
        /\ \A i \in Ids \ {k, l} : i >= next' <=> i >= next
    BY <1>0, <1>1, <1>8, <2>0
  <2>2. \A i \in Ids \ {k, l} : StateOf(i)' = StateOf(i)
    BY <1>1, <1>8, <2>1, StateFrame, Zenon DEF Running
  <2>3. StateOf(k)' = "queued" /\ StateOf(l)' = "queued"
    BY <1>1, <1>5, <1>8, <2>1, Zenon DEF StateOf, Running
  <2>4. StateOf(k) = "absent" /\ StateOf(l) = "absent"
    BY <1>5, <2>1, Zenon
  <2>5. /\ attr'[k].times = 0 /\ attr'[l].times = 0 /\ attr[l].times = 0
        /\ \A i \in Ids \ {l} : attr'[i].times = attr[i].times
    <3>1. l >= next
      BY <1>0, <1>1, <2>0
    <3> QED BY <1>1, <1>2, <1>4, <1>8, <2>0, <2>1, <3>1, Zenon DEF Fresh
  <2>6. FreshStep
    BY <1>0, <1>1, <1>8, <2>1, <2>5 DEF FreshStep
  <2>7. attr[k].times \in Nat /\ attr'[l].times = attr'[k].times
    BY <1>4, <2>5
  <2>8. Bus!Move(k, "absent", "queued")
    BY <2>1, <2>2, <2>3, <2>4, <2>5, <2>7, BusTwo, Zenon
  <2> QED BY <2>6, <2>8, Zenon DEF BusStep, Bus!BusNext, Bus!Submit
<1> QED BY <1>1, <1>2, <1>3, <1>6, <1>7, <1>8, AddQueueOutcome

\* Facts of the invariant that most steps need.
LEMMA PipelineFacts ==
  ASSUME Accounting
  PROVE  /\ TypeOK /\ PcOK /\ ListsDistinct /\ HandsDistinct
         /\ NoJob \notin Ids /\ Ids \subseteq Int /\ next \in Int
         /\ Queued \subseteq Ids /\ Held \subseteq Ids
         /\ attr \in [Ids -> Attr]
         /\ {"common", "retry", "timeout"} \subseteq QueueTyp
         /\ "common" # "timeout" /\ "retry" # "timeout"
<1>1. TypeOK /\ PcOK /\ Places /\ ListsDistinct /\ HandsDistinct
  BY Zenon DEF Accounting, Places, OnePlace
<1>2. /\ Queued \subseteq Ids /\ Held \subseteq Ids /\ NoJob \notin Ids
  BY <1>1, PlacesArePartition, Zenon
<1>3. Ids \subseteq Int /\ next \in Int /\ attr \in [Ids -> Attr]
  BY <1>1, BoundsAssumption DEF TypeOK, Ids
<1> QED BY <1>1, <1>2, <1>3, Zenon DEF QueueTyp

\* What a pop takes was queued.
LEMMA PopQueued ==
  ASSUME Accounting, NEW typ \in {"common", "retry"}, Take(typ)
  PROVE  /\ Head(list[typ]) \in Ids /\ StateOf(Head(list[typ])) = "queued"
         /\ Head(list[typ]) \in Elements(typ)
         /\ Elements("timeout")' = Elements("timeout")
<1>1. /\ Head(list[typ]) \in Elements(typ)
      /\ Elements("timeout")' = Elements("timeout")
      /\ Head(list[typ]) \notin Elements("timeout")
  BY PipelineFacts, TakeFields, Zenon
<1>2. Head(list[typ]) \in Queued
  BY PipelineFacts, <1>1, Zenon DEF Queued
<1> QED BY PipelineFacts, <1>1, <1>2, StateIs, Zenon

\* A pop whose element leaves the bus.
LEMMA PopLeaves ==
  ASSUME Accounting, NEW typ \in {"common", "retry"}, Take(typ),
         UNCHANGED <<attr, next, hold, done>>,
         taken' \cup lost' = taken \cup lost \cup {Head(list[typ])}
  PROVE  BusStep /\ FreshStep
<1>1. /\ {Head(list[typ])} \in SUBSET Ids /\ SameRan
      /\ \A j \in {Head(list[typ])} : StateOf(j) \in {"queued", "running"}
      /\ \A i \in Ids : Running(i)' <=> Running(i)
      /\ UNCHANGED <<next, done>> /\ Elements("timeout")' = Elements("timeout")
  BY PopQueued, Zenon DEF SameRan, Running
<1> QED BY <1>1, LeaveStep, ZenonT(30)

\* A client pops, or the answer to a pop is lost.
LEMMA PopByClientStep ==
  ASSUME Accounting, NEW m \in Muxers, GetJobs(m) \/ GetJobsLost(m) \/ RetryPopLost(m)
  PROVE  BusStep /\ FreshStep
<1> USE DEF redisVars, muxVars, workerVars, retryVars, adminVars
<1>1. \E typ \in {"common", "retry"} :
        /\ Take(typ) /\ UNCHANGED <<attr, next, hold, done>>
        /\ taken' \cup lost' = taken \cup lost \cup {Head(list[typ])}
  BY Zenon DEF GetJobs, GetJobsLost, RetryPopLost, TakeLost
<1> QED BY PopLeaves, <1>1, Zenon

\* The answer to a worker's pop is lost.
LEMMA WorkerPopLostStep ==
  ASSUME Accounting, NEW w \in Workers, WorkerPopLost(w)
  PROVE  BusStep /\ FreshStep
<1> USE DEF redisVars, muxVars, workerVars, retryVars, adminVars
<1>1. /\ Take("common") /\ UNCHANGED <<attr, next, hold, done>>
      /\ taken' \cup lost' = taken \cup lost \cup {Head(list["common"])}
  BY Zenon DEF WorkerPopLost, TakeLost
<1> QED BY PopLeaves, <1>1, Zenon

\* A worker pops a job and sends it.
LEMMA WorkerPopStep ==
  ASSUME Accounting, NEW w \in Workers, WorkerPop(w)
  PROVE  BusStep /\ FreshStep
<1> USE DEF redisVars, muxVars, workerVars, retryVars, adminVars
<1>1. Take("common")
  BY Zenon DEF WorkerPop
<1>2. PICK id \in Ids : id = Head(list["common"])
  BY PopQueued, <1>1, Zenon
<1>3. /\ hold' = [hold EXCEPT ![w] = id]
      /\ attr' = [attr EXCEPT ![id] = Executed(attr[id], conf[w[1]])]
      /\ UNCHANGED <<next, lost, done, taken>>
      /\ wpc[w] = "pop"
  BY <1>2, Zenon DEF WorkerPop
<1>4. /\ StateOf(id) = "queued" /\ Elements("timeout")' = Elements("timeout")
      /\ id \in Elements("common") /\ id \notin Elements("timeout")
  BY PipelineFacts, PopQueued, <1>1, <1>2, TakeFields, Zenon
<1>5. id \in Queued
  BY PipelineFacts, <1>4, Zenon DEF Queued
<1>6. id < next /\ id \notin done /\ id \notin taken \cup lost
  BY <1>5, PlacesArePartition, Zenon DEF Accounting, Places, OnePlace, Settled
<1>7. hold[w] = NoJob /\ hold \in [Workers -> Ids \cup {NoJob}]
  BY PipelineFacts, <1>3, Zenon DEF PcOK, TypeOK
<1>8. Running(id)' /\ \A i \in Ids \ {id} : Running(i)' <=> Running(i)
  BY PipelineFacts, <1>3, <1>7, Zenon DEF Running
<1>9. \A i \in Ids \ {id} : StateOf(i)' = StateOf(i)
  BY <1>3, <1>4, <1>8, StateFrame, Zenon
<1>10. StateOf(id)' = "running"
  <2>1. ~(id >= next')
    BY PipelineFacts, <1>3, <1>6
  <2> QED BY <1>3, <1>4, <1>6, <1>8, <2>1, Zenon DEF StateOf, Running
<1>11. /\ attr'[id].times > 0
       /\ \A i \in Ids \ {id} : attr'[i].times = attr[i].times
  BY PipelineFacts, <1>3 DEF Executed, Attr
<1>12. FreshStep
  <2>1. \A i \in Ids : i >= next' => i # id
    BY PipelineFacts, <1>3, <1>6
  <2> QED BY PipelineFacts, <1>3, <1>11, <2>1 DEF FreshStep
<1> QED BY <1>4, <1>9, <1>10, <1>11, <1>12, BusStart, Zenon DEF BusStep

\* A worker gives up the job it holds.
LEMMA PutsDown ==
  ASSUME Accounting, NEW w \in Workers, wpc[w] = "send", hold' = [hold EXCEPT ![w] = NoJob],
         NEW id, id = hold[w]
  PROVE  /\ id \in Ids /\ id \in Held /\ StateOf(id) = "running" /\ ~Running(id)'
         /\ \A i \in Ids \ {id} : Running(i)' <=> Running(i)
<1>1. id # NoJob /\ id \in Ids /\ hold \in [Workers -> Ids \cup {NoJob}]
  BY PipelineFacts DEF PcOK, TypeOK
<1>2. \A v \in Workers : hold[v] = id => v = w
  BY PipelineFacts, <1>1, Zenon DEF HandsDistinct
<1>3. ~Running(id)' /\ \A i \in Ids \ {id} : Running(i)' <=> Running(i)
  BY PipelineFacts, <1>1, <1>2, Zenon DEF Running
<1>4. id \in Held /\ Running(id)
  BY <1>1, Zenon DEF Held, InMemory, Running
<1> QED BY <1>1, <1>3, <1>4, StateIs, Zenon

\* The consumer answers with a success.
LEMMA WorkerSuccessStep ==
  ASSUME Accounting, NEW w \in Workers, WorkerSuccess(w)
  PROVE  BusStep /\ FreshStep
<1> USE DEF redisVars, muxVars, workerVars, retryVars, adminVars
<1>0. PICK id : id = hold[w]
  OBVIOUS
<1>1. /\ wpc[w] = "send" /\ hold' = [hold EXCEPT ![w] = NoJob]
      /\ done' = done \cup {id} /\ UNCHANGED <<list, attr, next, lost, taken>>
  BY <1>0, Zenon DEF WorkerSuccess
<1>2. /\ id \in Ids /\ id \in Held /\ StateOf(id) = "running"
      /\ \A i \in Ids \ {id} : Running(i)' <=> Running(i)
  BY PutsDown, <1>0, <1>1, ZenonT(30)
<1>3. \A i \in Ids \ {id} : StateOf(i)' = StateOf(i)
  <2>1. Elements("timeout")' = Elements("timeout")
    BY <1>1, Zenon DEF Elements
  <2> QED BY <1>1, <1>2, <2>1, StateFrame, Zenon
<1>4. StateOf(id)' = "done"
  <2>1. id < next
    BY <1>2, PlacesArePartition, Zenon DEF Accounting
  <2>2. ~(id >= next')
    BY PipelineFacts, <1>1, <1>2, <2>1
  <2> QED BY <1>1, <2>2, Zenon DEF StateOf
<1>5. SameRan /\ FreshStep
  BY PipelineFacts, <1>1 DEF SameRan, FreshStep
<1> QED BY <1>2, <1>3, <1>4, <1>5, BusOne, Zenon DEF BusStep

\* Any other answer sends the job to the retry list.
LEMMA WorkerFailureStep ==
  ASSUME Accounting, Fresh, NEW w \in Workers, NEW code \in Failures, WorkerFailure(w, code)
  PROVE  BusStep /\ FreshStep
<1> USE DEF redisVars, muxVars, workerVars, retryVars, adminVars
<1>0. PICK id : id = hold[w]
  OBVIOUS
<1>1. /\ wpc[w] = "send" /\ hold' = [hold EXCEPT ![w] = NoJob]
      /\ AddQueue("retry", id, attr, next) /\ UNCHANGED <<done, taken>>
  BY <1>0, Zenon DEF WorkerFailure
<1>2. /\ id \in Held /\ StateOf(id) = "running" /\ ~Running(id)'
      /\ \A i \in Ids \ {id} : Running(i)' <=> Running(i)
  BY PutsDown, <1>0, <1>1, ZenonT(30)
<1> QED BY PipelineFacts, <1>1, <1>2, PutDownStep, Zenon

\* The retry loop puts the job where it decided.
LEMMA RetryPutStep ==
  ASSUME Accounting, RetryAcc, Fresh, NEW m \in Muxers, RetryPut(m)
  PROVE  BusStep /\ FreshStep
<1> USE DEF redisVars, muxVars, workerVars, retryVars, adminVars
<1>0. PICK typ \in QueueTyp, id \in Ids : typ = rpc[m] /\ id = rhold[m]
  BY PipelineFacts, ZenonT(30) DEF RetryPut, PcOK, TypeOK
<1>1. /\ AddQueue(typ, id, attr, next) /\ UNCHANGED <<hold, done, taken>>
      /\ id \in Held
  BY PipelineFacts, <1>0, Zenon DEF RetryPut, Held, InMemory
<1>2. StateOf(id) = "queued"
  BY <1>0, StateIs, Zenon
<1>3. ~Running(id) /\ \A i \in Ids : Running(i)' <=> Running(i)
  BY PipelineFacts, <1>0, <1>1, Zenon DEF Running, HandsDistinct
<1>4. typ = "timeout" => attr[id].times > 0
  BY <1>0, ZenonT(30) DEF RetryAcc, Leaving, Expired
<1> QED BY <1>1, <1>2, <1>3, <1>4, PutDownStep, Zenon

\* The retry loop takes a job.
LEMMA RetryPopStep ==
  ASSUME Accounting, NEW m \in Muxers, RetryPop(m)
  PROVE  BusStep /\ FreshStep
<1> USE DEF redisVars, muxVars, workerVars, retryVars, adminVars
<1>1. Take("retry") /\ UNCHANGED <<next, done, taken, lost, hold>>
  BY Zenon DEF RetryPop
<1>2. Head(list["retry"]) \in Ids /\ Elements("timeout")' = Elements("timeout")
  BY PopQueued, <1>1, Zenon
<1>3. SameRan
  <2>1. PICK id \in Ids : id = Head(list["retry"])
    BY <1>2, Zenon
  <2>2. attr' = [attr EXCEPT ![id] = Judged(attr[id])]
    BY <2>1, Zenon DEF RetryPop
  <2>3. Judged(attr[id]).times = attr[id].times
    BY Zenon DEF Judged
  <2> QED BY PipelineFacts, <2>2, <2>3, Zenon DEF SameRan
<1> QED BY <1>1, <1>2, <1>3, StutterStep, Zenon

\* The admin's recover command moves a job.
LEMMA RecoverMoveStep ==
  ASSUME Accounting, RecoverMove
  PROVE  BusStep /\ FreshStep
<1> USE DEF redisVars, muxVars, workerVars, retryVars, adminVars
<1>1. UNCHANGED <<attr, next, done, taken, lost, hold>> /\ list'["timeout"] = list["timeout"]
  BY PipelineFacts, Zenon DEF RecoverMove, TypeOK
<1>2. Elements("timeout")' = Elements("timeout") /\ SameRan
  BY <1>1, Zenon DEF Elements, SameRan
<1> QED BY <1>1, <1>2, StutterStep, Zenon

\* The admin's clean command.
LEMMA CleanStep ==
  ASSUME Accounting, NEW m \in Muxers, Clean(m)
  PROVE  BusStep /\ FreshStep
<1> USE DEF redisVars, muxVars, workerVars, retryVars, adminVars
<1>0. PICK D : D = Elements("retry")
  OBVIOUS
<1>1. /\ lost' = lost \cup D /\ UNCHANGED <<attr, next, hold, done, taken>>
      /\ list'["timeout"] = list["timeout"]
  BY PipelineFacts, <1>0, Zenon DEF Clean, TypeOK
<1>2. D \subseteq Queued /\ D \cap Elements("timeout") = {}
  BY PipelineFacts, <1>0, Zenon DEF Queued, ListsDistinct
<1>3. /\ D \in SUBSET Ids
      /\ \A j \in D : StateOf(j) \in {"queued", "running"}
  BY PipelineFacts, <1>2, StateIs, Zenon
<1>4. /\ Elements("timeout")' = Elements("timeout") /\ SameRan
      /\ \A i \in Ids : Running(i)' <=> Running(i)
      /\ taken' \cup lost' = taken \cup lost \cup D
  BY <1>1, Zenon DEF Elements, SameRan, Running
<1> QED BY <1>1, <1>3, <1>4, LeaveStep, Zenon

\* A process exit takes what the goroutines hold.
LEMMA CrashStep ==
  ASSUME Accounting, Crash
  PROVE  BusStep /\ FreshStep
<1> USE DEF redisVars, muxVars, workerVars, retryVars, adminVars
<1>0. PICK D : D = Held
  BY Zenon
<1>1. /\ lost' = lost \cup D /\ UNCHANGED <<list, attr, next, done, taken>>
      /\ \A v \in Workers : hold'[v] = NoJob
  BY <1>0, ZenonT(30) DEF Crash, Held
<1>2. \A j \in D : StateOf(j) \in {"queued", "running"}
  <2> SUFFICES ASSUME NEW j \in D PROVE StateOf(j) \in {"queued", "running"}
    OBVIOUS
  <2>1. j \in Ids /\ (Running(j) \/ \E m \in Muxers : rhold[m] = j)
    BY PipelineFacts, <1>0, Zenon DEF Held, InMemory, Running
  <2> QED BY <2>1, StateIs, Zenon
<1>3. \A i \in Ids \ D : Running(i)' <=> Running(i)
  BY PipelineFacts, <1>0, <1>1, Zenon DEF Running, Held, InMemory
<1>4. /\ D \in SUBSET Ids /\ Elements("timeout")' = Elements("timeout") /\ SameRan
      /\ taken' \cup lost' = taken \cup lost \cup D
  BY PipelineFacts, <1>0, <1>1, Zenon DEF Elements, SameRan
<1> QED BY <1>1, <1>2, <1>3, <1>4, LeaveStep, Zenon

\* Time passes.
LEMMA TickStep ==
  ASSUME Accounting, Tick
  PROVE  BusStep /\ FreshStep
<1> USE DEF redisVars, muxVars, workerVars, retryVars, adminVars
<1>1. UNCHANGED <<list, next, done, taken, lost, hold>>
  BY Zenon DEF Tick
<1>2. SameRan
  BY Zenon DEF Tick, SameRan, Older
<1>3. Elements("timeout")' = Elements("timeout")
  BY <1>1, Zenon DEF Elements
<1> QED BY <1>1, <1>2, <1>3, StutterStep, Zenon

\* Every step of the pipeline is a step of JobBus or leaves the life of every
\* job as it is.
LEMMA NextBus ==
  Accounting /\ RetryAcc /\ Fresh /\ [Next]_vars => BusStep /\ FreshStep
<1> SUFFICES ASSUME Accounting, RetryAcc, Fresh, [Next]_vars
             PROVE  BusStep /\ FreshStep
  OBVIOUS
<1> USE DEF redisVars, muxVars, workerVars, retryVars, adminVars
<1>1. CASE UNCHANGED <<list, attr, next, done, taken, lost, hold>>
  BY <1>1, StutterStep, Zenon DEF SameRan, Elements
<1>2. ASSUME NEW m \in Muxers,
              \/ \E c \in Confs : Open(m, c) \/ Serve(m, c)
              \/ Close(m) \/ RetryIdle(m) \/ RetryCheck(m) \/ RetryMiss(m)
              \/ \E count \in 0 .. MaxJobs : RecoverStart(m, count)
       PROVE  UNCHANGED <<list, attr, next, done, taken, lost, hold>>
  BY <1>2, Zenon DEF Open, Serve, Close, RetryIdle, RetryCheck, RetryMiss, Miss,
                         RecoverStart
<1>3. ASSUME NEW w \in Workers, LoopPing(w) \/ WorkerCheck(w) \/ WorkerMiss(w)
      PROVE  UNCHANGED <<list, attr, next, done, taken, lost, hold>>
  BY <1>3, Zenon DEF LoopPing, WorkerCheck, WorkerMiss, Miss
<1> HIDE DEF redisVars, muxVars, workerVars, retryVars, adminVars
<1>4. CASE \E m \in Muxers :
              \/ \E c \in Confs : Open(m, c) \/ Serve(m, c)
              \/ Close(m) \/ AddJobs(m) \/ GetJobs(m) \/ GetJobsLost(m)
              \/ RetryLoop(m)
              \/ \E count \in 0 .. MaxJobs : RecoverStart(m, count)
              \/ Clean(m)
  BY <1>1, <1>2, <1>4, SubmitStep, PopByClientStep, RetryPopStep, RetryPutStep,
     CleanStep, ZenonT(30) DEF RetryLoop
<1>5. CASE \E w \in Workers : Worker(w)
  BY <1>1, <1>3, <1>5, WorkerPopStep, WorkerPopLostStep, WorkerSuccessStep,
     WorkerFailureStep, ZenonT(30) DEF Worker
<1>6. CASE RecoverMove
  BY <1>6, RecoverMoveStep, Zenon
<1>7. CASE Tick
  BY <1>7, TickStep, Zenon
<1>8. CASE Crash
  BY <1>8, CrashStep, Zenon
<1>9. CASE RecoverEnd \/ UNCHANGED vars
  <2>1. UNCHANGED <<list, attr, next, done, taken, lost, hold>>
    BY <1>9, Zenon DEF RecoverEnd, Miss, vars, redisVars, workerVars
  <2> QED BY <1>1, <2>1, Zenon
<1> QED BY <1>4, <1>5, <1>6, <1>7, <1>8, <1>9, ZenonT(30) DEF Next

\* The bus starts without jobs.
LEMMA InitBus == Init => Bus!BusInit /\ Fresh
<1> SUFFICES ASSUME Init PROVE Bus!BusInit /\ Fresh
  OBVIOUS
<1>1. \A i \in Ids : i >= next /\ attr[i].times = 0
  BY BoundsAssumption DEF Init, NewAttr, Ids
<1> QED BY <1>1 DEF Bus!BusInit, StateOf, Fresh

\* The pipeline with its lists, muxers, workers, retry loops, admin commands,
\* redis failures and restarts does to a job only what JobBus allows: a job is
\* finished only by a run of its own, expires only after it has run, and never
\* comes back from a final state.
THEOREM ImplementsJobBusHolds == Spec => ImplementsJobBus
<1>1. Accounting /\ RetryAcc /\ Fresh /\ [Next]_vars => BusStep /\ Fresh'
  <2> SUFFICES ASSUME Accounting, RetryAcc, Fresh, [Next]_vars
               PROVE  BusStep /\ Fresh'
    OBVIOUS
  <2>1. BusStep /\ FreshStep
    BY NextBus, Zenon
  <2>2. next \in Int /\ Ids \subseteq Int
    BY BoundsAssumption DEF Accounting, TypeOK, Ids
  <2> QED BY <2>1, <2>2 DEF Fresh, FreshStep
<1>2. Init => Bus!BusInit /\ Fresh
  BY InitBus, Zenon
<1>3. BusStep => [Bus!BusNext]_(Bus!busVars)
  BY Zenon DEF BusStep
<1> QED BY <1>1, <1>2, <1>3, RetryAccHolds, PTL DEF Spec, ImplementsJobBus, Bus!BusSpec
=============================================================================
