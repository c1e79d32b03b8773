---------------------------- MODULE CgiConnPool ----------------------------
(***************************************************************************)
(* The pool of FastCGI connections to one address, shared by the worker    *)
(* goroutines of all muxers that use the address, and the request that a   *)
(* worker makes through it (CgiManager.Request with its repetitions).      *)
(*                                                                         *)
(* A connection is a name that is used again after the connection was      *)
(* closed.  Times are two facts about a connection: it is older than the   *)
(* 4.5 seconds GetConn allows an unused one, it is older than reuseLife.   *)
(***************************************************************************)
EXTENDS Integers, Sequences, FiniteSets, Functions

CONSTANTS
  Workers,      \* goroutines that make requests
  Conns,        \* names of connections
  InitConnNum, MaxConnNum, ReuseCounts,
  MaxRepeats,   \* repetitions of a failed request (5 in the code)
  NoConn

ASSUME PoolAssumption ==
  /\ IsFiniteSet(Workers) /\ IsFiniteSet(Conns)
  /\ InitConnNum \in Nat /\ MaxConnNum \in Nat
  /\ ReuseCounts \in Nat
  /\ MaxRepeats \in Nat
  /\ NoConn \notin Conns

VARIABLES
  store,    \* the channel of idle connections
  connNum,  \* the counter that limits them
  open,     \* connections whose client is not closed
  used,     \* usedCounts
  idle,     \* connections created 4.5 seconds ago
  old,      \* connections created reuseLife ago
  unread,   \* connections whose last response was not read to its end
  pc,       \* where each goroutine is
  conn,     \* the connection it has
  newConn,  \* it takes a new connection, not one of the pool
  repeats,  \* retryTimes
  result,   \* how the last attempt ended
  sends     \* history: attempts of the current request that were sent, capped
            \* above the bound UseBounded claims

poolVars == <<store, connNum, open>>
connVars == <<used, idle, old, unread>>
requestVars == <<newConn, repeats, result, sends>>
vars == <<poolVars, connVars, pc, conn, requestVars>>

\* NewCgiConnPool: the initial connections, those whose dial succeeded.
Init ==
  /\ \E s \in UNION {[1 .. n -> Conns] : n \in 0 .. MaxConnNum} :
       /\ Len(s) <= InitConnNum
       /\ IsInjective(s)
       /\ store = s
  /\ open = Range(store)
  /\ connNum = Len(store)
  /\ used = [c \in Conns |-> 0]
  /\ idle = {} /\ old = {} /\ unread = {}
  /\ pc = [w \in Workers |-> "idle"]
  /\ conn = [w \in Workers |-> NoConn]
  /\ newConn = [w \in Workers |-> FALSE]
  /\ repeats = [w \in Workers |-> 0]
  /\ result = [w \in Workers |-> "ok"]
  /\ sends = [w \in Workers |-> 0]

\* The goroutine goes on at p, with connection c, or its call returns.
Goto(w, p) == pc' = [pc EXCEPT ![w] = p]
Hold(w, c) == conn' = [conn EXCEPT ![w] = c]
Return(w) ==
  /\ Goto(w, "idle")
  /\ newConn' = [newConn EXCEPT ![w] = FALSE]
  /\ repeats' = [repeats EXCEPT ![w] = 0]
  /\ result' = [result EXCEPT ![w] = "ok"]
  /\ sends' = [sends EXCEPT ![w] = 0]

-----------------------------------------------------------------------------
\* Mutant: a call starts with one repetition too many behind it.
StartHolding(w, first) ==
  /\ pc[w] = "idle"
  /\ Goto(w, "get")
  /\ repeats' = [repeats EXCEPT ![w] = first + 1]
  /\ UNCHANGED <<poolVars, connVars, conn, newConn, result, sends>>

\* CgiManager.Request starts (SendPing, SendJobs), or SendStatus, which makes
\* one attempt only.
Start(w, first) ==
  /\ pc[w] = "idle"
  /\ Goto(w, "get")
  /\ repeats' = [repeats EXCEPT ![w] = first]
  /\ UNCHANGED <<poolVars, connVars, conn, newConn, result, sends>>

Request(w) == Start(w, 0)
SendStatus(w) == Start(w, MaxRepeats)

-----------------------------------------------------------------------------
\* GetConn.

Expired(c) ==
  \/ used[c] = 0 /\ c \in idle
  \/ used[c] > ReuseCounts
  \/ c \in old

TakeConn(w) ==
  /\ pc[w] = "get"
  /\ store # <<>>
  /\ store' = Tail(store)
  /\ Hold(w, Head(store))
  /\ Goto(w, IF Expired(Head(store)) THEN "drop" ELSE "send")
  /\ UNCHANGED <<connNum, open, connVars, requestVars>>

\* closeConn: the client is closed and the counter goes down; the name is free
\* for a new connection.
CloseConn(c) ==
  /\ open' = open \ {c}
  /\ connNum' = connNum - 1
  /\ used' = [used EXCEPT ![c] = 0]
  /\ idle' = idle \ {c}
  /\ old' = old \ {c}
  /\ unread' = unread \ {c}

\* Mutant: GetConn returns the connection it has closed.
DropConnReturned(w) ==
  /\ pc[w] = "drop"
  /\ CloseConn(conn[w])
  /\ Goto(w, "send")
  /\ UNCHANGED <<store, conn, requestVars>>

DropConn(w) ==
  /\ pc[w] = "drop"
  /\ CloseConn(conn[w])
  /\ Hold(w, NoConn)
  /\ Goto(w, "get")
  /\ UNCHANGED <<store, requestVars>>

\* The pool is empty: after a pause the goroutine calls newConn.
PoolEmpty(w) ==
  /\ pc[w] = "get"
  /\ store = <<>>
  /\ Goto(w, "new")
  /\ UNCHANGED <<poolVars, connVars, conn, requestVars>>

-----------------------------------------------------------------------------
\* newConnReal.

\* Mutant: the limit is checked with the value before the increment.
NewConnRealOffByOne(w) ==
  /\ pc[w] = "new"
  /\ connNum' = connNum + 1
  /\ Goto(w, IF connNum > MaxConnNum THEN "undo" ELSE "dial")
  /\ UNCHANGED <<store, open, connVars, conn, requestVars>>

\* One atomic addition, and a decision on its result.
NewConnReal(w) ==
  /\ pc[w] = "new"
  /\ connNum' = connNum + 1
  /\ Goto(w, IF connNum + 1 > MaxConnNum THEN "undo" ELSE "dial")
  /\ UNCHANGED <<store, open, connVars, conn, requestVars>>

Dialed(w, c) ==
  /\ pc[w] = "dial"
  /\ c \notin open
  /\ open' = open \cup {c}
  /\ Hold(w, c)
  /\ Goto(w, IF newConn[w] THEN "send" ELSE "store")
  /\ UNCHANGED <<store, connNum, connVars, requestVars>>

DialFailed(w) ==
  /\ pc[w] = "dial"
  /\ Goto(w, "undo")
  /\ UNCHANGED <<poolVars, connVars, conn, requestVars>>

\* Mutant: the Err label is not reached.
UndoForgotten(w) ==
  /\ pc[w] = "undo"
  /\ IF newConn[w] THEN Return(w) ELSE Goto(w, "get") /\ UNCHANGED requestVars
  /\ UNCHANGED <<poolVars, connVars, conn>>

\* The Err label: the counter goes down again.  GetConn ignores the error and
\* looks again; Request returns it.
Undo(w) ==
  /\ pc[w] = "undo"
  /\ connNum' = connNum - 1
  /\ IF newConn[w] THEN Return(w) ELSE Goto(w, "get") /\ UNCHANGED requestVars
  /\ UNCHANGED <<store, open, connVars, conn>>

\* newConn puts the connection into the channel, and blocks while it is full.
StoreConn(w) ==
  /\ pc[w] = "store"
  /\ Len(store) < MaxConnNum
  /\ store' = Append(store, conn[w])
  /\ Hold(w, NoConn)
  /\ Goto(w, "get")
  /\ UNCHANGED <<connNum, open, connVars, requestVars>>

-----------------------------------------------------------------------------
\* CgiManager.request with a connection.

\* PostForm: the records of the request are written and the response headers
\* read.  What is left of an earlier response is read first, and is not a valid
\* record header.
PostForm(c, r) == c \in unread => r # "ok"

\* record.read: the header of an END_REQUEST record ends the response; the
\* record's content stays in the stream.
EndRequest(c) == unread' = unread \cup {c}

\* Send.  The outcome is a response, an error that Request repeats (EOF, reset
\* by peer, broken pipe) or another one.
SendConn(w, r) ==
  /\ pc[w] = "send"
  /\ PostForm(conn[w], r)
  /\ used' = [used EXCEPT ![conn[w]] = @ + 1]
  /\ sends' = [sends EXCEPT ![w] = IF @ <= MaxRepeats THEN @ + 1 ELSE MaxRepeats + 2]
  /\ result' = [result EXCEPT ![w] = r]
  /\ Goto(w, IF r = "ok" THEN "body" ELSE "failed")
  /\ UNCHANGED <<poolVars, idle, old, unread, conn, newConn, repeats>>

\* ReadAll of the response body, to the end of the response or to an error.
ReadBody(w, r) ==
  /\ pc[w] = "body"
  /\ EndRequest(conn[w])
  /\ result' = [result EXCEPT ![w] = r]
  /\ Goto(w, "close")
  /\ UNCHANGED <<poolVars, used, idle, old, conn, newConn, repeats, sends>>

\* Mutant: a repetition is not counted.
AfterUncounted(w) ==
  IF result[w] = "again" /\ repeats[w] < MaxRepeats
  THEN /\ Goto(w, "new")
       /\ newConn' = [newConn EXCEPT ![w] = TRUE]
       /\ UNCHANGED <<repeats, result, sends>>
  ELSE Return(w)

\* What Request does after an attempt: repeat it on a new connection, or return.
After(w) ==
  IF result[w] = "again" /\ repeats[w] < MaxRepeats
  THEN /\ Goto(w, "new")
       /\ newConn' = [newConn EXCEPT ![w] = TRUE]
       /\ repeats' = [repeats EXCEPT ![w] = @ + 1]
       /\ UNCHANGED <<result, sends>>
  ELSE Return(w)

\* put: into the channel; a connection that does not fit is closed.
PutBack(c) ==
  IF Len(store) < MaxConnNum
  THEN /\ store' = Append(store, c)
       /\ UNCHANGED <<connNum, open, connVars>>
  ELSE /\ CloseConn(c)
       /\ UNCHANGED store

Reusable(c) == used[c] <= ReuseCounts /\ c \notin old

\* CgiConn.Close, deferred: after a failed Send (needClose) ...
CloseFailed(w) ==
  /\ pc[w] = "failed"
  /\ CloseConn(conn[w])
  /\ Hold(w, NoConn)
  /\ After(w)
  /\ UNCHANGED store

\* ... and after a response.
CloseUsed(w) ==
  /\ pc[w] = "close"
  /\ IF Reusable(conn[w]) THEN PutBack(conn[w])
     ELSE CloseConn(conn[w]) /\ UNCHANGED store
  /\ Hold(w, NoConn)
  /\ After(w)

\* Time passes for a connection.
Age(c) ==
  /\ c \in open
  /\ \/ c \notin idle /\ used[c] = 0 /\ idle' = idle \cup {c} /\ UNCHANGED old
     \/ c \notin old /\ old' = old \cup {c} /\ UNCHANGED idle
  /\ UNCHANGED <<poolVars, used, unread, pc, conn, requestVars>>

-----------------------------------------------------------------------------
Outcomes == {"ok", "again", "error"}

Step(w) ==
  \/ TakeConn(w)
  \/ DropConn(w)
  \/ PoolEmpty(w)
  \/ NewConnReal(w)
  \/ \E c \in Conns : Dialed(w, c)
  \/ DialFailed(w)
  \/ Undo(w)
  \/ StoreConn(w)
  \/ \E r \in Outcomes : SendConn(w, r) \/ ReadBody(w, r)
  \/ CloseFailed(w)
  \/ CloseUsed(w)

Next ==
  \/ \E w \in Workers : Request(w) \/ SendStatus(w) \/ Step(w)
  \/ \E c \in Conns : Age(c)

Spec == Init /\ [][Next]_vars

\* Goroutines run; dials, writes and reads end (they have deadlines).
FairSpec == Spec /\ \A w \in Workers : WF_vars(Step(w))

-----------------------------------------------------------------------------
At(p) == {w \in Workers : pc[w] = p}
Taken == {conn[w] : w \in Workers} \ {NoConn}

\* Every variable holds what the program can store in it; a goroutine has a
\* connection exactly at the steps that use one.
TypeOK ==
  /\ store \in Seq(Conns)
  /\ connNum \in Int
  /\ open \subseteq Conns
  /\ used \in [Conns -> Nat]
  /\ idle \subseteq Conns /\ old \subseteq Conns /\ unread \subseteq Conns
  /\ pc \in [Workers -> {"idle", "get", "drop", "new", "dial", "undo", "store",
                         "send", "body", "failed", "close"}]
  /\ conn \in [Workers -> Conns \cup {NoConn}]
  /\ \A w \in Workers :
       conn[w] # NoConn <=>
         pc[w] \in {"drop", "store", "send", "body", "failed", "close"}
  /\ newConn \in [Workers -> BOOLEAN]
  /\ repeats \in [Workers -> 0 .. MaxRepeats]
  /\ result \in [Workers -> Outcomes]
  /\ sends \in [Workers -> Nat]

\* No connection is used by two goroutines at once, and none leaks: an open
\* connection is in the channel, once, or with one goroutine; a closed one is
\* nowhere.
OneOwner ==
  /\ IsInjective(store)
  /\ \A v, w \in Workers : conn[v] = conn[w] => v = w \/ conn[v] = NoConn
  /\ \A w \in Workers : conn[w] \notin Range(store)
  /\ open = Range(store) \cup Taken

\* The counter, changed by separate atomic additions, never drifts: it is the
\* number of open connections and of attempts that have not ended.
CounterExact ==
  connNum = Cardinality(open) + Cardinality(At("dial")) + Cardinality(At("undo"))

\* Never more connections, open or being dialled, than maxConnNum, whatever
\* goroutines race to create one.
ConnsBounded == Cardinality(open) + Cardinality(At("dial")) <= MaxConnNum

\* The channel has room for every new connection, so that newConn never blocks
\* although it sends without a default case.
NewConnNeverBlocks == At("store") # {} => Len(store) < MaxConnNum

\* A request is sent at most 1 + MaxRepeats times, on a connection that was
\* used at most ReuseCounts times before.
UseBounded ==
  /\ \A w \in Workers : sends[w] <= MaxRepeats + 1
  /\ \A c \in Conns : used[c] <= ReuseCounts + 1

\* A request that has got a connection returns, after at most MaxRepeats
\* repetitions, each of which may find the pool exhausted or the server down.
RequestReturns ==
  \A w \in Workers : pc[w] \in {"send", "body", "close"} ~> pc[w] = "idle"

-----------------------------------------------------------------------------
\* A connection that was put back can carry the next request.  The code does
\* not keep this: the content of the END_REQUEST record is left in the stream.
PooledConnsReadable == Range(store) \cap unread = {}

=============================================================================
