------------------------------ MODULE RedisConn ------------------------------
(***************************************************************************)
(* One connection of the redis client: requests are written to a buffer,   *)
(* replies are read token by token from a stream that both sides must keep *)
(* in step.  Single calls, pipelines and transactions share the stream.    *)
(* Arguments and values are left out; a token carries the number of the    *)
(* request it answers.                                                     *)
(***************************************************************************)
EXTENDS Integers, Sequences, FiniteSets

CONSTANTS
  MaxRequests,   \* bound: requests on the connection
  MaxNetFaults   \* bound: network errors

ASSUME ConnAssumption == MaxRequests \in Nat /\ MaxNetFaults \in Nat

VARIABLES
  cerr,        \* Conn.err is set
  wberr,       \* the buffered writer keeps the error of a failed write
  wb,          \* pipelined requests not yet flushed
  pipeCount,
  stream,      \* reply tokens the client has not read
  multi,       \* server: no transaction, open, or dirty after a refused command
  queued,      \* server: commands in the transaction
  reqNo,       \* requests made
  last,        \* the last operation: its requests, what it returned and read
  nested,      \* history: an array reply held an error before its last element
  late,        \* history: a read of a pipeline failed
  netFaults

connVars == <<cerr, wberr, wb, pipeCount, stream, multi, queued, reqNo, last, nested,
          late, netFaults>>

Token(n, kind, len) == [req |-> n, kind |-> kind, len |-> len]
Simple(n, kind) == <<Token(n, kind, 0)>>

Result(op, reqs, ret, got, done) ==
  [op |-> op, reqs |-> reqs, ret |-> ret, got |-> got, done |-> done]

\* NewConn.
ConnInit ==
  /\ cerr = FALSE
  /\ wberr = FALSE
  /\ wb = <<>>
  /\ pipeCount = 0
  /\ stream = <<>>
  /\ multi = "none"
  /\ queued = 0
  /\ reqNo = 0
  /\ last = Result("none", {}, "ok", {}, "not")
  /\ nested = FALSE
  /\ late = FALSE
  /\ netFaults = 0

-----------------------------------------------------------------------------
(* The server: what it may answer to a request, and its transaction state. *)

Elements(n, k) == [1 .. k -> {Token(n, "bulk", 0), Token(n, "error", 0)}]

Answers(n, op) ==
  IF op = "cmd" /\ multi = "none"
  THEN {Simple(n, "bulk"), Simple(n, "error"),
        <<Token(n, "array", 2), Token(n, "bulk", 0), Token(n, "bulk", 0)>>}
  ELSE IF op = "cmd" THEN {Simple(n, "queued"), Simple(n, "error")}
  ELSE IF op = "MULTI"
  THEN {Simple(n, IF multi = "none" THEN "ok" ELSE "error")}
  ELSE IF op = "WATCH"
  THEN {Simple(n, IF multi = "none" THEN "ok" ELSE "error")}
  ELSE IF op = "DISCARD"
  THEN {Simple(n, IF multi = "none" THEN "error" ELSE "ok")}
  ELSE IF multi = "open"
  THEN {<<Token(n, "array", queued)>> \o e : e \in Elements(n, queued)}
         \cup {<<Token(n, "array", -1)>>}
  ELSE {Simple(n, "error")}

Served(op, answer) ==
  LET refused == answer[1].kind = "error"
  IN  /\ multi' = CASE op = "MULTI" /\ ~refused -> "open"
                    [] op \in {"EXEC", "DISCARD"} -> "none"
                    [] op = "cmd" /\ refused /\ multi = "open" -> "dirty"
                    [] OTHER -> multi
      /\ queued' = CASE op = "cmd" /\ answer[1].kind = "queued" -> queued + 1
                     [] op \in {"EXEC", "DISCARD"} -> 0
                     [] OTHER -> queued

-----------------------------------------------------------------------------
(* The client. *)

\* Mutant of ElementsRead: the loop stops one element short.
ElementsReadShort(s) == Head(s).len - 1

\* parseArray reads elements up to the first error, then returns that error.
ElementsRead(s) ==
  LET n == Head(s).len
      errs == {i \in 1 .. n : s[i + 1].kind = "error"}
  IN  IF errs = {} THEN n ELSE CHOOSE i \in errs : \A j \in errs : i <= j

\* readResponse: what it returns and how many tokens it takes off the stream.
\* The null array is an empty slice, not nil.
readResponse(s) ==
  LET t == Head(s)
      k == IF t.kind = "array" /\ t.len > 0 THEN ElementsRead(s) ELSE 0
  IN  [ret  |-> IF t.kind = "array"
                THEN IF k > 0 /\ s[k + 1].kind = "error" THEN "error"
                     ELSE IF t.len = -1 THEN "empty" ELSE "values"
                ELSE t.kind,
       got  |-> {s[i].req : i \in 1 .. k + 1},
       rest |-> SubSeq(s, k + 2, Len(s))]

\* What the server did with a transaction.
Executed(op, answer) ==
  IF op # "EXEC" \/ answer[1].kind = "error" \/ answer[1].len = -1 THEN "not"
  ELSE IF \E i \in DOMAIN answer : answer[i].kind = "error" THEN "partly"
  ELSE "all"

HoldsError(answer) ==
  \E i \in 2 .. Len(answer) - 1 : answer[i].kind = "error"

ConnIdle == ~cerr /\ (pipeCount = 0 \/ wberr) /\ reqNo < MaxRequests

\* Call, by MULTI, TransSend, TransExec, Discard, Watch and the commands: the
\* request is flushed and one response is read.  TransExec drops the error of the
\* call and returns ErrNil, unless the buffered writer still has an error.
Call(op) ==
  LET n == reqNo + 1
  IN  /\ ConnIdle
      /\ ~wberr
      /\ reqNo' = n
      /\ \E a \in Answers(n, op) :
           LET r == readResponse(stream \o a)
           IN  /\ Served(op, a)
               /\ stream' = r.rest
               /\ nested' = (nested \/ HoldsError(a))
               /\ last' = Result(op, {n},
                            IF op = "EXEC" /\ r.ret = "error" THEN "ErrNil" ELSE r.ret,
                            r.got, Executed(op, a))
      /\ UNCHANGED <<cerr, wberr, wb, pipeCount, late, netFaults>>

\* Call fails on the network, before or after the server has served it.  The
\* connection is marked and nothing more is read from it.
CallFails(op) ==
  /\ ConnIdle
  /\ IF wberr THEN UNCHANGED netFaults
     ELSE netFaults < MaxNetFaults /\ netFaults' = netFaults + 1
  /\ reqNo' = reqNo + 1
  /\ cerr' = TRUE
  /\ \/ UNCHANGED <<multi, queued>>
     \/ ~wberr /\ \E a \in Answers(reqNo + 1, op) : Served(op, a)
  /\ \E ret \in {"neterr"} \cup (IF op = "EXEC" /\ ~wberr THEN {"ErrNil"} ELSE {}) :
       last' = Result(op, {reqNo + 1}, ret, {}, "not")
  /\ UNCHANGED <<wberr, wb, pipeCount, stream, nested, late>>

\* PipeSend: the request goes to the buffer only, and is counted in any case.
PipeSend ==
  /\ ~cerr
  /\ multi = "none"
  /\ reqNo < MaxRequests
  /\ reqNo' = reqNo + 1
  /\ pipeCount' = pipeCount + 1
  /\ wb' = IF wberr THEN wb ELSE Append(wb, reqNo')
  /\ UNCHANGED <<cerr, wberr, stream, multi, queued, last, nested, late, netFaults>>

\* Reading k responses one after another.
ReadAll(k, s) ==
  LET reads[i \in 0 .. k] ==
        IF i = 0 THEN [ret |-> "values", got |-> {}, rest |-> s]
        ELSE LET r == readResponse(reads[i - 1].rest)
             IN  [ret |-> r.ret, got |-> reads[i - 1].got \cup r.got, rest |-> r.rest]
  IN  reads[k]

\* Mutant of PipeDone: the count is not reset.
PipeDoneKeepsCount == wb' = <<>> /\ UNCHANGED pipeCount

\* The buffer was flushed and the count is reset before the reads.
PipeDone == wb' = <<>> /\ pipeCount' = 0

PipeAnswers == [DOMAIN wb -> {"bulk", "error"}]

\* PipeExec: all requests are flushed and as many responses read.  The error
\* returned is that of the last response.
PipeExec ==
  /\ ~cerr
  /\ ~wberr
  /\ pipeCount > 0
  /\ \E kinds \in PipeAnswers :
       LET a == [i \in DOMAIN wb |-> Token(wb[i], kinds[i], 0)]
           r == ReadAll(pipeCount, stream \o a)
       IN  /\ stream' = r.rest
           /\ last' = Result("pipe", {wb[i] : i \in DOMAIN wb}, r.ret, r.got, "not")
  /\ PipeDone
  /\ UNCHANGED <<cerr, wberr, multi, queued, reqNo, nested, late, netFaults>>

\* PipeExec: the read deadline of the last call is over after k responses, so
\* the other reads fail.  The connection is not marked.
PipeExecLate(k) ==
  /\ ~cerr
  /\ ~wberr
  /\ k < pipeCount
  /\ netFaults < MaxNetFaults
  /\ netFaults' = netFaults + 1
  /\ LET a == [i \in DOMAIN wb |-> Token(wb[i], "bulk", 0)]
         r == ReadAll(k, stream \o a)
     IN  /\ stream' = r.rest
         /\ last' = Result("pipe", {wb[i] : i \in DOMAIN wb}, "neterr", r.got, "not")
  /\ late' = TRUE
  /\ PipeDone
  /\ UNCHANGED <<cerr, wberr, multi, queued, reqNo, nested>>

\* PipeExec: the flush fails.  pipeCount stays, and so does the writer's error.
PipeExecFails ==
  /\ ~cerr
  /\ pipeCount > 0
  /\ IF wberr THEN UNCHANGED netFaults
     ELSE netFaults < MaxNetFaults /\ netFaults' = netFaults + 1
  /\ wberr' = TRUE
  /\ last' = Result("pipe", {wb[i] : i \in DOMAIN wb}, "neterr", {}, "not")
  /\ UNCHANGED <<cerr, wb, pipeCount, stream, multi, queued, reqNo, nested, late>>

\* The pool closes a marked connection and dials another one.
Redial ==
  /\ cerr
  /\ cerr' = FALSE
  /\ wberr' = FALSE
  /\ wb' = <<>>
  /\ pipeCount' = 0
  /\ stream' = <<>>
  /\ multi' = "none"
  /\ queued' = 0
  /\ nested' = FALSE
  /\ late' = FALSE
  /\ UNCHANGED <<reqNo, last, netFaults>>

Ops == {"cmd", "MULTI", "EXEC", "DISCARD", "WATCH"}

ConnNext ==
  \/ \E op \in Ops : Call(op) \/ CallFails(op)
  \/ PipeSend
  \/ PipeExec
  \/ \E k \in 0 .. MaxRequests : PipeExecLate(k)
  \/ PipeExecFails
  \/ Redial

ConnSpec == ConnInit /\ [][ConnNext]_connVars

-----------------------------------------------------------------------------
ConnTypeOK ==
  /\ pipeCount >= Len(wb)
  /\ ~wberr => pipeCount = Len(wb)
  /\ multi \in {"none", "open", "dirty"}
  /\ multi = "none" => queued = 0
  /\ reqNo \in 0 .. MaxRequests
  /\ netFaults \in 0 .. MaxNetFaults

\* A connection that is not marked as broken is in step: nothing is left unread
\* between operations, and what an operation returns was read from the replies
\* to its own requests, whatever single calls, pipelines, transactions and
\* errors came before.  Two cases are excepted: an array with an error before
\* its last element, of which parseArray leaves the rest unread, and a pipeline
\* of which a read failed.  And a transaction for which TransExec returns ErrNil
\* was not executed, unless its reply held an error or the connection failed
\* (conn.go:175-240, conn.go:351-502).
RedisInStep ==
  (~nested /\ ~late) =>
    /\ ~cerr => stream = <<>>
    /\ last.got \subseteq last.reqs
    /\ last.ret \in {"ok", "queued", "bulk", "values"} => last.got = last.reqs
    /\ (last.op = "EXEC" /\ ~cerr) =>
         /\ last.ret = "ErrNil" => last.done # "all"
         /\ last.ret = "values" <=> last.done = "all"
=============================================================================
