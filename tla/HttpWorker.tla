----------------------------- MODULE HttpWorker -----------------------------
(***************************************************************************)
(* The HTTP consumer of one topic, from the moment MuxServer.Serve has     *)
(* created it and started the goroutine of Serve: the loop that starts the *)
(* workers, the workers, the retry loop, and a configuration update that   *)
(* may come in between.  The lists are counted only: which job goes where  *)
(* and with which retry fields is module Mux, whose loops these repeat.    *)
(***************************************************************************)
EXTENDS Integers, FiniteSets

CONSTANTS
  NumOfWorkers,  \* TopicConfig.NumOfWorkers
  MaxPushes,     \* bound: jobs clients push
  MaxPops,       \* bound: jobs the workers pop
  MaxHttpFaults  \* bound: redis calls that lose a job

ASSUME HttpBounds == NumOfWorkers \in Nat /\ MaxPops \in Nat

\* What QueueConfs() says of the topic: it is there, with or without retrying,
\* or the queue lost the topic, or the queue is gone, or all queues are.
Present == {"retry", "plain"}
Confs == Present \cup {"notopic", "noqueue", "empty"}

Children == 1 .. NumOfWorkers + MaxPops + 1

VARIABLES
  hconf,          \* QueueConfs() now
  hsnap,          \* the snapshot Serve works with, "none" before
  hclosed,        \* Close was called
  hpc,            \* the goroutine of Serve
  started,        \* i of the starting loop
  numOfChildren,
  child,          \* where each worker goroutine is
  hlist,          \* lengths of the three lists
  pushed, popped, hfaults

httpVars == <<hconf, hsnap, hclosed, hpc, started, numOfChildren, child, hlist,
              pushed, popped, hfaults>>

HttpInit ==
  /\ hconf \in Present
  /\ hsnap = "none"
  /\ hclosed = FALSE
  /\ hpc = "begin"
  /\ started = 0
  /\ numOfChildren = NumOfWorkers
  /\ child = [i \in Children |-> "none"]
  /\ hlist = [common |-> 0, retry |-> 0, timeout |-> 0]
  /\ pushed = 0
  /\ popped = 0
  /\ hfaults = 0

-----------------------------------------------------------------------------
\* A nil dereference in any goroutine ends the process.
Alive == hpc # "panic"

Push ==
  /\ Alive
  /\ pushed < MaxPushes
  /\ pushed' = pushed + 1
  /\ hlist' = [hlist EXCEPT !.common = @ + 1]
  /\ UNCHANGED <<hconf, hsnap, hclosed, hpc, started, numOfChildren, child,
                 popped, hfaults>>

\* updateQueue stores another configuration.
UpdateConf(c) ==
  /\ Alive
  /\ c # hconf
  /\ hconf' = c
  /\ UNCHANGED <<hsnap, hclosed, hpc, started, numOfChildren, child, hlist,
                 pushed, popped, hfaults>>

\* HttpWorker.Close, by MuxServer.Serve or the end of the process.
CloseHttp ==
  /\ Alive
  /\ ~hclosed
  /\ hclosed' = TRUE
  /\ UNCHANGED <<hconf, hsnap, hpc, started, numOfChildren, child, hlist,
                 pushed, popped, hfaults>>

\* Serve begins by reading the configuration.
ServeBegin ==
  /\ hpc = "begin"
  /\ hsnap' = hconf
  /\ hpc' = "spawn"
  /\ UNCHANGED <<hconf, hclosed, started, numOfChildren, child, hlist,
                 pushed, popped, hfaults>>

\* The loop compares with numOfChildren, which the workers change.
Spawn ==
  /\ hpc = "spawn"
  /\ started < numOfChildren
  /\ started' = started + 1
  /\ child' = [child EXCEPT ![started + 1] = "ping"]
  /\ UNCHANGED <<hconf, hsnap, hclosed, hpc, numOfChildren, hlist, pushed,
                 popped, hfaults>>

\* After the loop: without the topic Serve returns, without the queue it
\* dereferences nil unless there is no queue at all.
Spawned ==
  /\ hpc = "spawn"
  /\ started >= numOfChildren
  /\ hpc' = CASE hsnap = "retry" -> "loop"
              [] hsnap = "plain" -> "wait"
              [] hsnap = "noqueue" -> "panic"
              [] OTHER -> "done"
  /\ UNCHANGED <<hconf, hsnap, hclosed, started, numOfChildren, child, hlist,
                 pushed, popped, hfaults>>

\* Serve sees that the worker is closed.
ServeDone ==
  /\ hpc \in {"wait", "loop"}
  /\ hclosed
  /\ hpc' = "done"
  /\ UNCHANGED <<hconf, hsnap, hclosed, started, numOfChildren, child, hlist,
                 pushed, popped, hfaults>>

\* Mutant of RetryCheck: the loop does not look at Done.
RetryCheckSkipsDone ==
  /\ hpc = "loop"
  /\ hpc' = "poll"
  /\ UNCHANGED <<hconf, hsnap, hclosed, started, numOfChildren, child, hlist,
                 pushed, popped, hfaults>>

\* The retry loop looks at Done ...
RetryCheck ==
  /\ hpc = "loop"
  /\ ~hclosed
  /\ hpc' = "poll"
  /\ UNCHANGED <<hconf, hsnap, hclosed, started, numOfChildren, child, hlist,
                 pushed, popped, hfaults>>

\* A poll that gets no job: the list is empty, or redis fails, in the worst case
\* after it took the job off the list.
Miss(typ) ==
  \/ UNCHANGED <<hlist, hfaults>>
  \/ /\ hlist[typ] > 0
     /\ hfaults < MaxHttpFaults
     /\ hfaults' = hfaults + 1
     /\ hlist' = [hlist EXCEPT ![typ] = @ - 1]

RetryMiss ==
  /\ hpc = "poll"
  /\ Miss("retry")
  /\ hpc' = "loop"
  /\ UNCHANGED <<hconf, hsnap, hclosed, started, numOfChildren, child, pushed, popped>>

\* ... takes a job ...
RetryPop ==
  /\ hpc = "poll"
  /\ hlist.retry > 0
  /\ hlist' = [hlist EXCEPT !.retry = @ - 1]
  /\ hpc' = "judge"
  /\ UNCHANGED <<hconf, hsnap, hclosed, started, numOfChildren, child,
                 pushed, popped, hfaults>>

\* A job goes on a list, or is lost when redis fails: AddQueue only logs that.
PutOn(typ) ==
  \/ /\ hlist' = [hlist EXCEPT ![typ] = @ + 1]
     /\ UNCHANGED hfaults
  \/ /\ hfaults < MaxHttpFaults
     /\ hfaults' = hfaults + 1
     /\ UNCHANGED hlist

\* ... and puts it where its retry fields say.
RetryPut(typ) ==
  /\ hpc = "judge"
  /\ PutOn(typ)
  /\ hpc' = "loop"
  /\ UNCHANGED <<hconf, hsnap, hclosed, started, numOfChildren, child,
                 pushed, popped>>

-----------------------------------------------------------------------------
\* loopPing: it ends when the consumer answers with the topic, or after Close.
ChildPing(i) ==
  /\ Alive
  /\ child[i] = "ping"
  /\ child' = [child EXCEPT ![i] = "loop"]
  /\ UNCHANGED <<hconf, hsnap, hclosed, hpc, started, numOfChildren, hlist,
                 pushed, popped, hfaults>>

\* The worker looks at Done.
ChildCheck(i) ==
  /\ Alive
  /\ child[i] = "loop"
  /\ child' = [child EXCEPT ![i] = IF hclosed THEN "done" ELSE "poll"]
  /\ UNCHANGED <<hconf, hsnap, hclosed, hpc, started, numOfChildren, hlist,
                 pushed, popped, hfaults>>

\* The worker gets no job.
ChildMiss(i) ==
  /\ Alive
  /\ child[i] = "poll"
  /\ Miss("common")
  /\ child' = [child EXCEPT ![i] = "loop"]
  /\ UNCHANGED <<hconf, hsnap, hclosed, hpc, started, numOfChildren, pushed, popped>>

\* The worker pops a job, counts itself busy and fills in the retry fields from
\* the snapshot, which panics when the snapshot lacks the topic.
ChildPop(i) ==
  /\ Alive
  /\ child[i] = "poll"
  /\ hlist.common > 0
  /\ popped < MaxPops
  /\ popped' = popped + 1
  /\ hlist' = [hlist EXCEPT !.common = @ - 1]
  /\ numOfChildren' = numOfChildren + 1
  /\ child' = [child EXCEPT ![i] = "busy"]
  /\ hpc' = IF hsnap \in Present THEN hpc ELSE "panic"
  /\ UNCHANGED <<hconf, hsnap, hclosed, started, pushed, hfaults>>

\* The consumer answers with success.
ChildOk(i) ==
  /\ Alive
  /\ child[i] = "busy"
  /\ numOfChildren' = numOfChildren - 1
  /\ child' = [child EXCEPT ![i] = "loop"]
  /\ UNCHANGED <<hconf, hsnap, hclosed, hpc, started, hlist, pushed, popped,
                 hfaults>>

\* Mutant of ChildFail: only a success takes the worker off the count.
ChildFailStaysBusy(i, next) ==
  /\ Alive
  /\ child[i] = "busy"
  /\ numOfChildren' = numOfChildren
  /\ PutOn("retry")
  /\ child' = [child EXCEPT ![i] = next]
  /\ UNCHANGED <<hconf, hsnap, hclosed, hpc, started, pushed, popped>>

\* Any other answer, or none within the request timeout: the job goes to the
\* retry list; a 404 and a refused connection send the worker back to ping.
ChildFail(i, next) ==
  /\ Alive
  /\ child[i] = "busy"
  /\ numOfChildren' = numOfChildren - 1
  /\ PutOn("retry")
  /\ child' = [child EXCEPT ![i] = next]
  /\ UNCHANGED <<hconf, hsnap, hclosed, hpc, started, pushed, popped>>

Main ==
  \/ ServeBegin
  \/ Spawn
  \/ Spawned
  \/ ServeDone
  \/ RetryCheck
  \/ RetryMiss
  \/ RetryPop
  \/ \E typ \in {"common", "retry", "timeout"} : RetryPut(typ)

Child(i) ==
  \/ ChildPing(i)
  \/ ChildCheck(i)
  \/ ChildMiss(i)
  \/ ChildPop(i)
  \/ ChildOk(i)
  \/ \E next \in {"ping", "loop"} : ChildFail(i, next)

HttpNext ==
  \/ Push
  \/ \E c \in Confs : UpdateConf(c)
  \/ CloseHttp
  \/ Main
  \/ \E i \in Children : Child(i)

\* Every goroutine keeps running; a ping that never succeeds still ends after
\* Close, and a request ends by the client's timeout.
HttpFairness ==
  /\ WF_httpVars(Main)
  /\ \A i \in Children :
       /\ WF_httpVars(hclosed /\ ChildPing(i))
       /\ WF_httpVars(Child(i) /\ child[i] # "ping")

HttpSpec == HttpInit /\ [][HttpNext]_httpVars /\ HttpFairness

-----------------------------------------------------------------------------
HttpTypeOK ==
  /\ hconf \in Confs
  /\ hsnap \in Confs \cup {"none"}
  /\ hpc \in {"begin", "spawn", "wait", "loop", "poll", "judge", "done", "panic"}
  /\ started \in 0 .. Cardinality(Children)
  /\ child \in [Children -> {"none", "ping", "loop", "poll", "busy", "done"}]
  /\ \A typ \in DOMAIN hlist : hlist[typ] \in 0 .. pushed

Busy == {i \in Children : child[i] = "busy"}

\* The configured number of workers start, and more only on account of jobs
\* popped while the starting loop runs (http_worker.go:131 compares with the
\* counter that http_worker.go:152 raises): never more than one extra worker
\* per popped job, none once the loop is over, and the counter is exact.
ChildrenBounded ==
  /\ numOfChildren = NumOfWorkers + Cardinality(Busy)
  /\ started <= NumOfWorkers + popped
  /\ hpc \notin {"begin", "spawn", "panic"} => started >= NumOfWorkers
  /\ {i \in Children : child[i] # "none"} = 1 .. started

\* Every goroutine of a closed worker has ended, or the process panicked, and
\* that needs a configuration without the topic at the time Serve read it: the
\* queue was removed after MuxServer opened the worker (http_worker.go:130).
HttpSettled ==
  hclosed =>
    \/ /\ hpc = "done"
       /\ \A i \in Children : child[i] \in {"none", "done"}
    \/ hpc = "panic" /\ hsnap \notin Present

\* After Close the worker ends, whatever its goroutines were doing and however
\* often its jobs fail (http_worker.go:134-140, 208-218).
ClosedHttpStops == []<>HttpSettled
=============================================================================
