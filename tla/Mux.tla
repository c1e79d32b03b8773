-------------------------------- MODULE Mux --------------------------------
(***************************************************************************)
(* One topic of one queue: the three redis lists of the topic, the muxers  *)
(* that serve them one after the other (a config update closes a muxer and *)
(* opens the next one), their worker goroutines and their retry loops, the *)
(* clients that push and pop, and the admin commands on the retry list.    *)
(*                                                                         *)
(* A job is identified by the list element that holds it: a number handed  *)
(* out in the order the elements are created.  What redis stores with the  *)
(* element (the retry fields of the Job struct) is attr[id].               *)
(*                                                                         *)
(* A list is written with the element RPOP takes first, so LPUSH appends.  *)
(***************************************************************************)
EXTENDS Integers, Sequences, FiniteSets, Functions

CONSTANTS
  Muxers,     \* the successive muxers of the topic
  Slots,      \* worker goroutines of one muxer (numOfWorkers)
  MaxJobs,    \* bound: list elements ever created
  Confs,      \* topic configurations that occur
  RetryDur,   \* define.RetryDur, in clock ticks
  Horizon,    \* bound: ticks after which the clock of a job stops
  MaxFaults,  \* bound: redis calls that fail
  MaxCrashes, \* bound: process exits
  MaxAdmin,   \* bound: admin commands and elements they move
  MaxTaken    \* bound: jobs popped by clients

ASSUME ConfsAssumption ==
  /\ Confs # {}
  /\ Confs \subseteq [isRetry : BOOLEAN, retryTime : Int, consume : BOOLEAN]

ASSUME BoundsAssumption ==
  /\ MaxJobs \in Nat
  /\ RetryDur \in Nat \ {0}
  /\ Horizon \in Nat
  /\ MaxFaults \in Nat
  /\ MaxCrashes \in Nat
  /\ MaxAdmin \in Nat
  /\ MaxTaken \in Nat

Ids == 1 .. MaxJobs
NoJob == 0
All == -1
Workers == Muxers \X Slots
QueueTyp == {"common", "retry", "timeout"}

VARIABLES
  list,     \* the three redis lists
  attr,     \* retry fields stored with each element
  next,     \* the next element created
  up,       \* a muxer is new, up (registered in MuxServer.mux) or closed
  applied,  \* the configuration MuxServer applied when it opened the muxer
  conf,     \* the snapshot the muxer's Serve took
  wpc,      \* where each worker goroutine is
  hold,     \* the job each worker has popped
  rpc,      \* where the goroutine of Serve (the retry loop) is; the name of
            \* a list when it is about to put a job on that list
  rhold,    \* the job the retry loop has popped
  recover,  \* elements the running RecoverAction may still move, or All
  done,     \* jobs answered with ResponseSuccess
  taken,    \* jobs handed to a client by rpop
  lost,     \* jobs that left the bus unprocessed: a failed redis call,
            \* a process exit, or the admin's clean command
  faults, crashes, admin

redisVars == <<list, attr, next, lost, faults>>
muxVars == <<up, applied, conf>>
workerVars == <<wpc, hold>>
retryVars == <<rpc, rhold>>
adminVars == <<recover, admin>>
vars == <<redisVars, muxVars, workerVars, retryVars, adminVars,
          done, taken, crashes>>

-----------------------------------------------------------------------------
\* The retry fields of a job.  "age" is the time since RetryTime, the start of
\* the last execution.  "budget" (the retry time it was given) and "paid" (how
\* often the retry loop sent it back) are history, used by properties only.

Attr == [times : Nat, age : Nat, isRetry : BOOLEAN, begin : BOOLEAN,
         residue : Int, budget : Int, paid : Nat]

\* MuxServer.AddJobs: the fields of a job that enters the bus.
NewAttr(c) ==
  LET r == IF c.isRetry THEN c.retryTime ELSE 0
  IN  [times |-> 0, age |-> 0, isRetry |-> c.isRetry, begin |-> FALSE,
       residue |-> r, budget |-> r, paid |-> 0]

\* Mutant of Executed: the retry time is set on every execution.
ExecutedRefills(a, c) ==
  [times |-> a.times + 1, age |-> 0, isRetry |-> c.isRetry, begin |-> a.begin,
   residue |-> c.retryTime, budget |-> IF a.begin THEN a.budget ELSE c.retryTime,
   paid |-> a.paid]

\* A worker is about to send the job to the consumer.
Executed(a, c) ==
  [times |-> a.times + 1, age |-> 0, isRetry |-> c.isRetry, begin |-> a.begin,
   residue |-> IF a.begin THEN a.residue ELSE c.retryTime,
   budget |-> IF a.begin THEN a.budget ELSE c.retryTime,
   paid |-> a.paid]

\* One tick later.
Older(a) ==
  [times |-> a.times, age |-> a.age + 1, isRetry |-> a.isRetry,
   begin |-> a.begin, residue |-> a.residue, budget |-> a.budget,
   paid |-> a.paid]

\* How long a job waits after its last execution before it is retried.
DurTime(a) == (a.times - 1) * RetryDur

\* Mutant of RetryDest: a job that must wait longer is given up.
RetryDestImpatient(a) ==
  IF a.isRetry /\ a.residue > 0 /\ a.age >= DurTime(a) THEN "common" ELSE "timeout"

\* What the retry loop does with a job it popped: where it goes ...
RetryDest(a) ==
  IF a.isRetry /\ a.residue > 0
  THEN IF a.age >= DurTime(a) THEN "common" ELSE "retry"
  ELSE "timeout"

\* Mutant of Judged: sending a job back costs no retry time.
JudgedFree(a) ==
  [times |-> a.times, age |-> a.age, isRetry |-> a.isRetry, begin |-> TRUE,
   residue |-> a.residue, budget |-> a.budget,
   paid |-> IF RetryDest(a) = "common" THEN a.paid + 1 ELSE a.paid]

\* ... and with which fields.
Judged(a) ==
  LET back == RetryDest(a) = "common"
  IN  [times |-> a.times, age |-> a.age, isRetry |-> a.isRetry, begin |-> TRUE,
       residue |-> IF back THEN a.residue - DurTime(a) ELSE a.residue,
       budget |-> a.budget,
       paid |-> IF back THEN a.paid + 1 ELSE a.paid]

-----------------------------------------------------------------------------
Done(m) == up[m] = "closed"
Elements(q) == Range(list[q])

InMemory == {hold[w] : w \in Workers} \cup {rhold[m] : m \in Muxers}

\* A redis call of the storage goes wrong.
Fault == /\ faults < MaxFaults
         /\ faults' = faults + 1

\* Mutant of Pushed: RPUSH instead of LPUSH.
PushedInFront(typ, id, at, free) ==
  /\ list' = [list EXCEPT ![typ] = <<id>> \o @]
  /\ attr' = at
  /\ next' = free
  /\ UNCHANGED <<lost, faults>>

\* storage.AddQueue: one LPUSH of the job "id", whose fields are in "at";
\* "free" is the first element number not in use.
Pushed(typ, id, at, free) ==
  /\ list' = [list EXCEPT ![typ] = Append(@, id)]
  /\ attr' = at
  /\ next' = free
  /\ UNCHANGED <<lost, faults>>

\* An error is logged and dropped: the caller goes on, the job is gone.
PushLost(id, at, free) ==
  /\ Fault
  /\ lost' = lost \cup {id}
  /\ attr' = at
  /\ next' = free
  /\ UNCHANGED list

\* CallN repeats a command whose answer did not arrive.
PushedTwice(typ, id, at, free) ==
  /\ Fault
  /\ free \in Ids
  /\ list' = [list EXCEPT ![typ] = Append(Append(@, id), free)]
  /\ attr' = [at EXCEPT ![free] = at[id]]
  /\ next' = free + 1
  /\ UNCHANGED lost

AddQueue(typ, id, at, free) ==
  \/ Pushed(typ, id, at, free)
  \/ PushLost(id, at, free)
  \/ PushedTwice(typ, id, at, free)

\* storage.GetJobsFromQueue when it returns a job: the RPOP that took it.
Take(typ) ==
  /\ list[typ] # <<>>
  /\ list' = [list EXCEPT ![typ] = Tail(@)]

\* An RPOP redis has executed but whose answer is lost: the element is gone,
\* and the caller (CallN, or its loop after the error) pops again.
TakeLost(typ) ==
  /\ Take(typ)
  /\ Fault
  /\ lost' = lost \cup {Head(list[typ])}
  /\ UNCHANGED <<attr, next>>

\* It returns no job: the list is empty, or the RPOP failed before redis
\* executed it.
Miss(typ) ==
  /\ \/ /\ list[typ] = <<>>
        /\ UNCHANGED faults
     \/ Fault
  /\ UNCHANGED <<list, attr, next, lost>>

-----------------------------------------------------------------------------
Init ==
  /\ list = [q \in QueueTyp |-> <<>>]
  /\ attr = [i \in Ids |-> NewAttr([isRetry |-> FALSE, retryTime |-> 0])]
  /\ next = 1
  /\ up = [m \in Muxers |-> "new"]
  /\ applied = [m \in Muxers |-> CHOOSE c \in Confs : TRUE]
  /\ conf = applied
  /\ wpc = [w \in Workers |-> "off"]
  /\ hold = [w \in Workers |-> NoJob]
  /\ rpc = [m \in Muxers |-> "off"]
  /\ rhold = [m \in Muxers |-> NoJob]
  /\ recover = 0
  /\ done = {} /\ taken = {} /\ lost = {}
  /\ faults = 0 /\ crashes = 0 /\ admin = 0

\* MuxServer.Serve, CmdQueueAdd: no muxer of the topic is registered.
Open(m, c) ==
  /\ up[m] = "new"
  /\ \A n \in Muxers : up[n] # "up"
  /\ up' = [up EXCEPT ![m] = "up"]
  /\ applied' = [applied EXCEPT ![m] = c]
  /\ UNCHANGED <<redisVars, conf, workerVars, retryVars, adminVars,
                 done, taken, crashes>>

\* MuxServer.Serve, CmdQueueDel: cancels the muxer's context.
Close(m) ==
  /\ up[m] = "up"
  /\ up' = [up EXCEPT ![m] = "closed"]
  /\ UNCHANGED <<redisVars, applied, conf, workerVars, retryVars, adminVars,
                 done, taken, crashes>>

\* The goroutine of Serve starts: it reads the configuration that is current
\* now, starts the workers, and runs the retry loop if the topic retries.
Serve(m, c) ==
  /\ up[m] # "new"
  /\ applied[m].consume
  /\ rpc[m] = "off"
  /\ conf' = [conf EXCEPT ![m] = c]
  /\ wpc' = [w \in Workers |-> IF w[1] = m THEN "ping" ELSE wpc[w]]
  /\ rpc' = [rpc EXCEPT ![m] = IF c.isRetry THEN "check" ELSE "idle"]
  /\ UNCHANGED <<redisVars, up, applied, hold, rhold, adminVars,
                 done, taken, crashes>>

\* The process ends (a kill, or main returning while workers still run): every
\* goroutine stops and what they hold in memory is gone.
Crash ==
  /\ crashes < MaxCrashes
  /\ crashes' = crashes + 1
  /\ up' = [m \in Muxers |-> IF up[m] = "new" THEN "new" ELSE "closed"]
  /\ wpc' = [w \in Workers |-> IF up[w[1]] = "new" THEN "off" ELSE "exit"]
  /\ rpc' = [m \in Muxers |-> IF up[m] = "new" THEN "off" ELSE "exit"]
  /\ lost' = lost \cup (InMemory \ {NoJob})
  /\ hold' = [w \in Workers |-> NoJob]
  /\ rhold' = [m \in Muxers |-> NoJob]
  /\ recover' = 0
  /\ UNCHANGED <<list, attr, next, faults, applied, conf, admin,
                 done, taken>>

\* MuxServer.AddJobs for this topic: the muxer is registered.  The client is
\* answered with the job's id whatever happened to the LPUSH.
AddJobs(m) ==
  /\ up[m] = "up"
  /\ next \in Ids
  /\ AddQueue("common", next, [attr EXCEPT ![next] = NewAttr(applied[m])],
              next + 1)
  /\ UNCHANGED <<muxVars, workerVars, retryVars, adminVars,
                 done, taken, crashes>>

\* MuxServer.GetJobs for a client's rpop.
GetJobs(m) ==
  /\ up[m] = "up"
  /\ Cardinality(taken) < MaxTaken
  /\ Take("common")
  /\ taken' = taken \cup {Head(list["common"])}
  /\ UNCHANGED <<attr, next, lost, faults, muxVars, workerVars, retryVars,
                 adminVars, done, crashes>>

GetJobsLost(m) ==
  /\ up[m] = "up"
  /\ Cardinality(taken) < MaxTaken
  /\ TakeLost("common")
  /\ UNCHANGED <<muxVars, workerVars, retryVars, adminVars,
                 done, taken, crashes>>

\* Time passes for the jobs whose next retry is measured from RetryTime.
Aging == (Elements("retry") \cup InMemory) \ {NoJob}

Tick ==
  /\ \E i \in Aging : attr[i].age < Horizon
  /\ attr' = [i \in Ids |->
                IF i \in Aging /\ attr[i].age < Horizon
                THEN Older(attr[i]) ELSE attr[i]]
  /\ UNCHANGED <<list, next, lost, faults, muxVars, workerVars, retryVars,
                 adminVars, done, taken, crashes>>

-----------------------------------------------------------------------------
\* A worker goroutine.

\* loopPingCGI returns: the consumer has registered the topic, or Close.  The
\* pings that fail before that put the worker to sleep and change nothing.
LoopPing(w) ==
  /\ wpc[w] = "ping"
  /\ wpc' = [wpc EXCEPT ![w] = "check"]
  /\ UNCHANGED <<redisVars, muxVars, hold, retryVars, adminVars,
                 done, taken, crashes>>

\* Mutant of WorkerCheck: Close is not looked at.
WorkerCheckSkipsDone(w) ==
  /\ wpc[w] = "check"
  /\ wpc' = [wpc EXCEPT ![w] = "pop"]
  /\ UNCHANGED <<redisVars, muxVars, hold, retryVars, adminVars,
                 done, taken, crashes>>

\* The select on m.Done() at the top of the loop.
WorkerCheck(w) ==
  /\ wpc[w] = "check"
  /\ wpc' = [wpc EXCEPT ![w] = IF Done(w[1]) THEN "exit" ELSE "pop"]
  /\ UNCHANGED <<redisVars, muxVars, hold, retryVars, adminVars,
                 done, taken, crashes>>

\* GetJobsFromQueue(CommonQueue) returns a job and the worker updates its
\* retry fields.
WorkerPop(w) ==
  LET id == Head(list["common"])
  IN  /\ wpc[w] = "pop"
      /\ Take("common")
      /\ hold' = [hold EXCEPT ![w] = id]
      /\ attr' = [attr EXCEPT ![id] = Executed(attr[id], conf[w[1]])]
      /\ wpc' = [wpc EXCEPT ![w] = "send"]
      /\ UNCHANGED <<next, lost, faults, muxVars, retryVars, adminVars,
                     done, taken, crashes>>

WorkerPopLost(w) ==
  /\ wpc[w] = "pop"
  /\ TakeLost("common")
  /\ UNCHANGED <<muxVars, workerVars, retryVars, adminVars,
                 done, taken, crashes>>

\* Mutant of WorkerMiss: jobs == nil is not checked.
WorkerMissUnchecked(w) ==
  /\ wpc[w] = "pop"
  /\ Miss("common")
  /\ wpc' = [wpc EXCEPT ![w] = "send"]
  /\ UNCHANGED <<muxVars, hold, retryVars, adminVars, done, taken, crashes>>

WorkerMiss(w) ==
  /\ wpc[w] = "pop"
  /\ Miss("common")
  /\ wpc' = [wpc EXCEPT ![w] = "check"]
  /\ UNCHANGED <<muxVars, hold, retryVars, adminVars, done, taken, crashes>>

\* What SendJobs answers when it does not answer 200: 404, 502 with or without
\* "connection refused" in the message, or another code.
Failures == {"notFound", "refused", "badGateway", "other"}

\* SendJobs returns and the worker settles the job: a success is dropped, any
\* other answer sends the job to the retry list.
WorkerSuccess(w) ==
  /\ wpc[w] = "send"
  /\ hold' = [hold EXCEPT ![w] = NoJob]
  /\ wpc' = [wpc EXCEPT ![w] = "check"]
  /\ done' = done \cup {hold[w]}
  /\ UNCHANGED <<redisVars, muxVars, retryVars, adminVars, taken, crashes>>

\* Mutants of WorkerFailure: a 404 is dropped; a failure is never retried.
WorkerFailureDrops(w, code) ==
  /\ wpc[w] = "send"
  /\ hold' = [hold EXCEPT ![w] = NoJob]
  /\ wpc' = [wpc EXCEPT ![w] = "ping"]
  /\ IF code = "notFound" THEN UNCHANGED redisVars
     ELSE AddQueue("retry", hold[w], attr, next)
  /\ UNCHANGED <<muxVars, retryVars, adminVars, done, taken, crashes>>

WorkerFailureExpires(w, code) ==
  /\ wpc[w] = "send"
  /\ hold' = [hold EXCEPT ![w] = NoJob]
  /\ wpc' = [wpc EXCEPT ![w] = "check"]
  /\ AddQueue("timeout", hold[w], attr, next)
  /\ UNCHANGED <<muxVars, retryVars, adminVars, done, taken, crashes>>

WorkerFailure(w, code) ==
  /\ wpc[w] = "send"
  /\ hold' = [hold EXCEPT ![w] = NoJob]
  /\ wpc' = [wpc EXCEPT ![w] =
               IF code \in {"notFound", "refused"} THEN "ping" ELSE "check"]
  /\ AddQueue("retry", hold[w], attr, next)
  /\ UNCHANGED <<muxVars, retryVars, adminVars, done, taken, crashes>>

-----------------------------------------------------------------------------
\* The goroutine of Serve after it has started the workers.

\* A topic that does not retry only waits for Close.
RetryIdle(m) ==
  /\ rpc[m] = "idle"
  /\ Done(m)
  /\ rpc' = [rpc EXCEPT ![m] = "exit"]
  /\ UNCHANGED <<redisVars, muxVars, workerVars, rhold, adminVars,
                 done, taken, crashes>>

\* Mutant of RetryCheck: the check on m.Done() is inverted.
RetryCheckInverted(m) ==
  /\ rpc[m] = "check"
  /\ rpc' = [rpc EXCEPT ![m] = IF Done(m) THEN "pop" ELSE "exit"]
  /\ UNCHANGED <<redisVars, muxVars, workerVars, rhold, adminVars,
                 done, taken, crashes>>

RetryCheck(m) ==
  /\ rpc[m] = "check"
  /\ rpc' = [rpc EXCEPT ![m] = IF Done(m) THEN "exit" ELSE "pop"]
  /\ UNCHANGED <<redisVars, muxVars, workerVars, rhold, adminVars,
                 done, taken, crashes>>

\* GetJobsFromQueue(RetryQueue) returns a job, and the loop decides with the
\* current time.
RetryPop(m) ==
  LET id == Head(list["retry"])
  IN  /\ rpc[m] = "pop"
      /\ Take("retry")
      /\ rhold' = [rhold EXCEPT ![m] = id]
      /\ rpc' = [rpc EXCEPT ![m] = RetryDest(attr[id])]
      /\ attr' = [attr EXCEPT ![id] = Judged(attr[id])]
      /\ UNCHANGED <<next, lost, faults, muxVars, workerVars, adminVars,
                     done, taken, crashes>>

RetryPopLost(m) ==
  /\ rpc[m] = "pop"
  /\ TakeLost("retry")
  /\ UNCHANGED <<muxVars, workerVars, retryVars, adminVars,
                 done, taken, crashes>>

RetryMiss(m) ==
  /\ rpc[m] = "pop"
  /\ Miss("retry")
  /\ rpc' = [rpc EXCEPT ![m] = "check"]
  /\ UNCHANGED <<muxVars, workerVars, rhold, adminVars, done, taken, crashes>>

\* AddJobs(CommonQueue), sendToRetryQueue or sendToTimeoutQueue.
RetryPut(m) ==
  /\ rpc[m] \in QueueTyp
  /\ AddQueue(rpc[m], rhold[m], attr, next)
  /\ rhold' = [rhold EXCEPT ![m] = NoJob]
  /\ rpc' = [rpc EXCEPT ![m] = "check"]
  /\ UNCHANGED <<muxVars, workerVars, adminVars, done, taken, crashes>>

-----------------------------------------------------------------------------
\* ServiceController.RecoverAction: GetMuxer, then storage.RetryQueue moves up
\* to count elements (all of them if count is 0) with one RPOPLPUSH each.
RecoverStart(m, count) ==
  /\ up[m] = "up"
  /\ admin < MaxAdmin
  /\ recover = 0
  /\ admin' = admin + 1
  /\ recover' = IF count = 0 THEN All ELSE count
  /\ UNCHANGED <<redisVars, muxVars, workerVars, retryVars,
                 done, taken, crashes>>

\* Mutant of RecoverMove: the element is copied, not moved.
RecoverCopies ==
  /\ recover # 0
  /\ list["retry"] # <<>>
  /\ admin < MaxAdmin
  /\ admin' = admin + 1
  /\ list' = [list EXCEPT !["common"] = Append(@, Head(list["retry"]))]
  /\ recover' = IF recover = All THEN All ELSE recover - 1
  /\ UNCHANGED <<attr, next, lost, faults, muxVars, workerVars, retryVars,
                 done, taken, crashes>>

\* A move that redis executed but whose answer was lost is repeated by CallN and
\* counts once.
RecoverMove ==
  /\ recover # 0
  /\ list["retry"] # <<>>
  /\ admin < MaxAdmin
  /\ admin' = admin + 1
  /\ list' = [list EXCEPT !["retry"] = Tail(list["retry"]),
                          !["common"] = Append(@, Head(list["retry"]))]
  /\ \/ /\ recover' = IF recover = All THEN All ELSE recover - 1
        /\ UNCHANGED faults
     \/ /\ Fault
        /\ UNCHANGED recover
  /\ UNCHANGED <<attr, next, lost, muxVars, workerVars, retryVars,
                 done, taken, crashes>>

\* The list is empty, or redis failed: the command ends.
RecoverEnd ==
  /\ recover # 0
  /\ Miss("retry")
  /\ recover' = 0
  /\ UNCHANGED <<muxVars, workerVars, retryVars, admin, done, taken, crashes>>

\* ServiceController.CleanFailedJobsAction: storage.CleanQueue deletes the
\* whole retry list.
Clean(m) ==
  /\ up[m] = "up"
  /\ admin < MaxAdmin
  /\ list["retry"] # <<>>
  /\ admin' = admin + 1
  /\ lost' = lost \cup Elements("retry")
  /\ list' = [list EXCEPT !["retry"] = <<>>]
  /\ UNCHANGED <<attr, next, faults, muxVars, workerVars, retryVars, recover,
                 done, taken, crashes>>

-----------------------------------------------------------------------------
Worker(w) ==
  \/ LoopPing(w)
  \/ WorkerCheck(w)
  \/ WorkerPop(w)
  \/ WorkerPopLost(w)
  \/ WorkerMiss(w)
  \/ WorkerSuccess(w)
  \/ \E code \in Failures : WorkerFailure(w, code)

RetryLoop(m) ==
  \/ RetryIdle(m)
  \/ RetryCheck(m)
  \/ RetryPop(m)
  \/ RetryPopLost(m)
  \/ RetryMiss(m)
  \/ RetryPut(m)

Next ==
  \/ \E m \in Muxers :
       \/ \E c \in Confs : Open(m, c) \/ Serve(m, c)
       \/ Close(m)
       \/ AddJobs(m)
       \/ GetJobs(m)
       \/ GetJobsLost(m)
       \/ RetryLoop(m)
       \/ \E count \in 0 .. MaxJobs : RecoverStart(m, count)
       \/ Clean(m)
  \/ \E w \in Workers : Worker(w)
  \/ RecoverMove
  \/ RecoverEnd
  \/ Tick
  \/ Crash

Spec == Init /\ [][Next]_vars

\* Goroutines are scheduled and time passes; SendJobs and SendPing return (their
\* connections have timeouts) and the consumer answers a ping in the end.
Fairness ==
  /\ \A m \in Muxers : /\ WF_vars(\E c \in Confs : Serve(m, c))
                       /\ WF_vars(RetryLoop(m))
  /\ \A w \in Workers : WF_vars(Worker(w))
  /\ WF_vars(Tick)

FairSpec == Spec /\ Fairness

-----------------------------------------------------------------------------
\* Every variable holds what the program can store in it.
TypeOK ==
  /\ list \in [QueueTyp -> Seq(Ids)]
  /\ attr \in [Ids -> Attr]
  /\ next \in 1 .. MaxJobs + 1
  /\ up \in [Muxers -> {"new", "up", "closed"}]
  /\ applied \in [Muxers -> Confs]
  /\ conf \in [Muxers -> Confs]
  /\ wpc \in [Workers -> {"off", "ping", "check", "pop", "send", "exit"}]
  /\ hold \in [Workers -> Ids \cup {NoJob}]
  /\ rpc \in [Muxers -> QueueTyp \cup {"off", "idle", "check", "pop", "exit"}]
  /\ rhold \in [Muxers -> Ids \cup {NoJob}]
  /\ recover \in {All} \cup Nat
  /\ done \subseteq Ids /\ taken \subseteq Ids /\ lost \subseteq Ids
  /\ faults \in Nat /\ crashes \in Nat /\ admin \in Nat


-----------------------------------------------------------------------------
Queued == UNION {Elements(q) : q \in QueueTyp}
Held == InMemory \ {NoJob}
Settled == done \cup taken \cup lost

ListsDistinct ==
  /\ \A q \in QueueTyp : IsInjective(list[q])
  /\ \A p, q \in QueueTyp : p # q => Elements(p) \cap Elements(q) = {}

HandsDistinct ==
  /\ \A v, w \in Workers : hold[v] = hold[w] => v = w \/ hold[v] = NoJob
  /\ \A m, n \in Muxers : rhold[m] = rhold[n] => m = n \/ rhold[m] = NoJob
  /\ \A w \in Workers, m \in Muxers : hold[w] = rhold[m] => hold[w] = NoJob

\* No job is duplicated: each element is on one list at one position, or held
\* by one goroutine, or settled in one way.  In particular a job answered with
\* ResponseSuccess is nowhere left to be sent again.
OnePlace ==
  /\ ListsDistinct
  /\ HandsDistinct
  /\ Queued \cap Held = {}
  /\ (Queued \cup Held) \cap Settled = {}
  /\ done \cap taken = {} /\ done \cap lost = {} /\ taken \cap lost = {}

\* No job is forgotten: what was accepted is queued, in a goroutine's hands, or
\* settled; the only ways out are success, a client's rpop, a failed redis
\* call, a process exit and the admin's clean command.
NothingForgotten == 1 .. (next - 1) = Queued \cup Held \cup Settled

\* Jobs that were never executed wait in the order they were pushed, whatever
\* retries, recoveries and repeated LPUSHes put between them.
FirstInFirstOut ==
  \A i, k \in 1 .. Len(list["common"]) :
     /\ i < k
     /\ attr[list["common"][i]].times = 0
     /\ attr[list["common"][k]].times = 0
     => list["common"][i] < list["common"][k]

\* The retry loop sends a job back at most so often as its retry time allows,
\* the n-th time at a cost of at least n - 1 durations: config updates, admin
\* recoveries and restarts never make it retry for ever.
RetriesBounded ==
  \A i \in 1 .. next - 1 :
     attr[i].paid > 0 =>
       RetryDur * ((attr[i].paid - 1) * (attr[i].paid - 2)) < 2 * attr[i].budget

\* A job on the timeout list was executed, and either its topic did not retry
\* or its retry time is used up.
TimeoutDeserved ==
  \A i \in Elements("timeout") :
     attr[i].times > 0 /\ (attr[i].isRetry => attr[i].residue <= 0)

\* Once the retry loop has seen a job, nothing gives it new retry time.
BudgetNeverRefilled ==
  [][\A i \in Ids : attr[i].begin =>
        attr'[i].begin /\ attr'[i].residue <= attr[i].residue]_vars

\* A job does not stay in the bus: if in the end a consuming muxer of a topic
\* that retries stays up, every job succeeds, leaves, or ends on the timeout
\* list, although the consumer may fail for ever and muxers and whole processes
\* came and went before.
Serving(m) == up[m] = "up" /\ applied[m].consume /\ rpc[m] # "idle"

EveryJobSettles ==
  <>[](\E m \in Muxers : Serving(m)) =>
    \A i \in Ids : i < next ~> i \in Settled \cup Elements("timeout")

\* After Close every goroutine of the muxer ends, wherever it was: pinging,
\* polling, waiting for an answer or asleep in the retry loop.
Stopped(m) == /\ rpc[m] = "exit"
              /\ \A s \in Slots : wpc[<<m, s>>] = "exit"

CloseStopsMuxer ==
  \A m \in Muxers : up[m] = "closed" /\ applied[m].consume ~> []Stopped(m)

-----------------------------------------------------------------------------
\* Two statements of the design document the code does not keep.

\* A restart recovers all jobs: without redis failures and without the clean
\* command no job leaves the bus unprocessed.
RestartKeepsJobs == lost = {}

\* A job is retried at most ten times, however long its topic retries.
AtMostTenRetries == \A i \in Ids : attr[i].times <= 11

=============================================================================
