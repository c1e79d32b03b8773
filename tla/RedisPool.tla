----------------------------- MODULE RedisPool -----------------------------
(***************************************************************************)
(* The connection pool of one redis server and the calls made through it:  *)
(* MultiPool.Call takes a connection, the command runs on it with CallN,   *)
(* and Call puts the connection back by itself (isOnce).                   *)
(*                                                                         *)
(* A Conn is an object that several goroutines may refer to; Copy makes it *)
(* take over the socket of another one.  Objects and sockets have the same *)
(* names: a dial creates an object and the socket of its name.             *)
(***************************************************************************)
EXTENDS Integers, Sequences, FiniteSets, Functions

CONSTANTS
  Callers,     \* goroutines that issue redis commands
  Conns,       \* names of Conn objects and of sockets
  MaxConnNum, MaxIdleNum,
  MaxErrs,     \* bound: commands and pings that fail in the network
  NoConn

ASSUME PoolAssumption ==
  /\ MaxConnNum \in Nat /\ MaxIdleNum \in Nat /\ MaxErrs \in Nat
  /\ NoConn \notin Conns

VARIABLES
  clientPool,          \* the channel of idle connections
  idleNum, activeNum,  \* the pool's counters
  sock, err, isIdle, isOnce,  \* fields of the Conn objects
  open,                \* sockets that are not closed
  pc,                  \* where each goroutine is
  c,                   \* the Conn of its command
  got,                 \* what its Pop has taken
  arg,                 \* the Conn its Push puts back
  repeated,            \* CallN has called twice
  failed,              \* its last call failed in the network
  errs,
  raced                \* history: CallN found another goroutine's error, or
                       \* missed its own

connVars == <<sock, err, isIdle, isOnce, open>>
countVars == <<idleNum, activeNum>>
callVars == <<c, got, arg, repeated, failed>>
vars == <<clientPool, countVars, connVars, pc, callVars, errs, raced>>

Init ==
  /\ clientPool = <<>>
  /\ idleNum = 0 /\ activeNum = 0
  /\ sock = [s \in Conns |-> s]
  /\ err = [s \in Conns |-> FALSE]
  /\ isIdle = [s \in Conns |-> TRUE]
  /\ isOnce = [s \in Conns |-> FALSE]
  /\ open = {}
  /\ pc = [w \in Callers |-> "idle"]
  /\ c = [w \in Callers |-> NoConn]
  /\ got = c /\ arg = c
  /\ repeated = [w \in Callers |-> FALSE]
  /\ failed = repeated
  /\ errs = 0
  /\ raced = FALSE

Goto(w, p) == pc' = [pc EXCEPT ![w] = p]

\* A network operation fails.
Failure == errs < MaxErrs /\ errs' = errs + 1

-----------------------------------------------------------------------------
\* MultiPool.Call and a command on its result.
Call(w) ==
  /\ pc[w] = "idle"
  /\ Goto(w, "pop")
  /\ UNCHANGED <<clientPool, countVars, connVars, callVars, errs, raced>>

\* The command returns: its locals are gone.
Return(w) ==
  /\ Goto(w, "idle")
  /\ c' = [c EXCEPT ![w] = NoConn]
  /\ got' = [got EXCEPT ![w] = NoConn]
  /\ repeated' = [repeated EXCEPT ![w] = FALSE]
  /\ failed' = [failed EXCEPT ![w] = FALSE]
  /\ UNCHANGED arg

-----------------------------------------------------------------------------
\* Pop.
PopTake(w) ==
  /\ pc[w] = "pop"
  /\ clientPool # <<>>
  /\ clientPool' = Tail(clientPool)
  /\ got' = [got EXCEPT ![w] = Head(clientPool)]
  /\ Goto(w, "popped")
  /\ UNCHANGED <<countVars, connVars, c, arg, repeated, failed, errs, raced>>

\* The connection was used lately or answers a ping.
PopUse(w) ==
  /\ pc[w] = "popped"
  /\ isIdle' = [isIdle EXCEPT ![got[w]] = FALSE]
  /\ idleNum' = idleNum - 1
  /\ activeNum' = activeNum + 1
  /\ Goto(w, "got")
  /\ UNCHANGED <<clientPool, sock, err, isOnce, open, callVars, errs, raced>>

\* It is old and the ping fails; an error redis answered does not mark the
\* connection.  The variable c of Pop keeps it.
PopDead(w) ==
  /\ pc[w] = "popped"
  /\ Failure
  /\ \E marked \in BOOLEAN : err' = [err EXCEPT ![got[w]] = marked]
  /\ open' = open \ {sock[got[w]]}
  /\ idleNum' = idleNum - 1
  /\ Goto(w, "pop")
  /\ UNCHANGED <<clientPool, activeNum, sock, isIdle, isOnce, callVars, raced>>

\* The channel is empty: Pop looks at the limit.
PopEmpty(w) ==
  /\ pc[w] = "pop"
  /\ clientPool = <<>>
  /\ Goto(w, "check")
  /\ UNCHANGED <<clientPool, countVars, connVars, callVars, errs, raced>>

\* The limit is reached: Pop waits and looks again, or, after WaitTimes, gives
\* up with what c holds (nothing, or a connection it has closed).
PopWait(w) ==
  /\ pc[w] = "check"
  /\ idleNum + activeNum >= MaxConnNum
  /\ Goto(w, "pop") \/ Goto(w, "got")
  /\ UNCHANGED <<clientPool, countVars, connVars, callVars, errs, raced>>

\* Mutant: only the connections in use count against the limit.
PopDialIdleUncounted(w) ==
  /\ pc[w] = "check"
  /\ activeNum < MaxConnNum
  /\ Goto(w, "dial")
  /\ UNCHANGED <<clientPool, countVars, connVars, callVars, errs, raced>>

\* It is not: Pop dials, without holding the lock.
PopDial(w) ==
  /\ pc[w] = "check"
  /\ idleNum + activeNum < MaxConnNum
  /\ Goto(w, "dial")
  /\ UNCHANGED <<clientPool, countVars, connVars, callVars, errs, raced>>

DialFailed(w) ==
  /\ pc[w] = "dial"
  /\ Goto(w, "got")
  /\ UNCHANGED <<clientPool, countVars, connVars, callVars, errs, raced>>

\* Names nothing refers to.
Referred == Range(clientPool) \cup {c[w] : w \in Callers}
            \cup {got[w] : w \in Callers} \cup {arg[w] : w \in Callers}
Free == {s \in Conns \ open : s \notin Referred /\ s \notin {sock[r] : r \in Referred \ {NoConn}}}

\* The new connection goes through the pool: Push, and Pop looks again.
Dialed(w, s) ==
  /\ pc[w] = "dial"
  /\ s \in Free
  /\ sock' = [sock EXCEPT ![s] = s]
  /\ err' = [err EXCEPT ![s] = FALSE]
  /\ isIdle' = [isIdle EXCEPT ![s] = FALSE]
  /\ isOnce' = [isOnce EXCEPT ![s] = FALSE]
  /\ open' = open \cup {s}
  /\ activeNum' = activeNum + 1
  /\ arg' = [arg EXCEPT ![w] = s]
  /\ Goto(w, "push")
  /\ UNCHANGED <<clientPool, idleNum, c, got, repeated, failed, errs, raced>>

-----------------------------------------------------------------------------
\* Push(arg[w]).

\* Mutant: Pop returns the new connection it has put into the pool.
PushedReturned(w) ==
  /\ Goto(w, IF arg[w] = c[w] THEN "after" ELSE "got")
  /\ got' = [got EXCEPT ![w] = IF arg[w] = c[w] THEN NoConn ELSE arg[w]]
  /\ arg' = [arg EXCEPT ![w] = NoConn]
  /\ UNCHANGED <<c, repeated, failed>>

\* Its caller is Pop, with a new connection, or Call.
Pushed(w) ==
  /\ Goto(w, IF arg[w] = c[w] THEN "after" ELSE "pop")
  /\ arg' = [arg EXCEPT ![w] = NoConn]
  /\ UNCHANGED <<c, got, repeated, failed>>

\* Already in the pool: nothing to do.
PushIdle(w) ==
  /\ pc[w] = "push"
  /\ isIdle[arg[w]]
  /\ Pushed(w)
  /\ UNCHANGED <<clientPool, countVars, connVars, errs, raced>>

PushMark(w) ==
  /\ pc[w] = "push"
  /\ ~isIdle[arg[w]]
  /\ isIdle' = [isIdle EXCEPT ![arg[w]] = TRUE]
  /\ Goto(w, IF err[arg[w]] THEN "discard" ELSE "limit")
  /\ UNCHANGED <<clientPool, countVars, sock, err, isOnce, open, callVars, errs,
                 raced>>

PushLimit(w) ==
  /\ pc[w] = "limit"
  /\ Goto(w, IF idleNum > MaxIdleNum THEN "discard" ELSE "put")
  /\ UNCHANGED <<clientPool, countVars, connVars, callVars, errs, raced>>

\* Mutant: the channel has no limit.
PushPutUnbounded(w) ==
  /\ pc[w] = "put"
  /\ clientPool' = Append(clientPool, arg[w])
  /\ Goto(w, "count")
  /\ UNCHANGED <<countVars, connVars, callVars, errs, raced>>

\* The channel takes it, and the counters follow; a full channel does not.
PushPut(w) ==
  /\ pc[w] = "put"
  /\ IF Len(clientPool) < MaxConnNum
     THEN /\ clientPool' = Append(clientPool, arg[w])
          /\ Goto(w, "count")
     ELSE /\ UNCHANGED clientPool
          /\ Goto(w, "discard")
  /\ UNCHANGED <<countVars, connVars, callVars, errs, raced>>

PushCount(w) ==
  /\ pc[w] = "count"
  /\ idleNum' = idleNum + 1
  /\ activeNum' = activeNum - 1
  /\ Pushed(w)
  /\ UNCHANGED <<clientPool, connVars, errs, raced>>

\* Mutant: a discarded connection stays counted.
PushDiscardUncounted(w) ==
  /\ pc[w] = "discard"
  /\ Goto(w, "close")
  /\ UNCHANGED <<clientPool, countVars, connVars, callVars, errs, raced>>

\* The connection is not kept: it is taken off the counter, then closed.
PushDiscard(w) ==
  /\ pc[w] = "discard"
  /\ activeNum' = activeNum - 1
  /\ Goto(w, "close")
  /\ UNCHANGED <<clientPool, idleNum, connVars, callVars, errs, raced>>

PushClose(w) ==
  /\ pc[w] = "close"
  /\ open' = open \ {sock[arg[w]]}
  /\ Pushed(w)
  /\ UNCHANGED <<clientPool, countVars, sock, err, isIdle, isOnce, errs, raced>>

-----------------------------------------------------------------------------
\* CallN.

\* Pop has returned nothing, or (the first time) a connection that is already
\* marked as failed: the command returns an error.
NothingGot(w) ==
  /\ pc[w] = "got"
  /\ \/ got[w] = NoConn
     \/ got[w] # NoConn /\ ~repeated[w] /\ err[got[w]]
  /\ Return(w)
  /\ UNCHANGED <<clientPool, countVars, connVars, errs, raced>>

\* The first call runs on the connection itself.
FirstCall(w) ==
  /\ pc[w] = "got"
  /\ ~repeated[w]
  /\ got[w] # NoConn
  /\ ~err[got[w]]
  /\ c' = [c EXCEPT ![w] = got[w]]
  /\ got' = [got EXCEPT ![w] = NoConn]
  /\ isOnce' = [isOnce EXCEPT ![got[w]] = TRUE]
  /\ Goto(w, "call")
  /\ UNCHANGED <<clientPool, countVars, sock, err, isIdle, open, arg, repeated,
                 failed, errs, raced>>

\* The second one on the first object, made a copy of the new one.
CopyConn(w) ==
  /\ pc[w] = "got"
  /\ repeated[w]
  /\ got[w] # NoConn
  /\ sock' = [sock EXCEPT ![c[w]] = sock[got[w]]]
  /\ isIdle' = [isIdle EXCEPT ![c[w]] = isIdle[got[w]]]
  /\ err' = [err EXCEPT ![c[w]] = FALSE]
  /\ isOnce' = [isOnce EXCEPT ![c[w]] = TRUE]
  /\ got' = [got EXCEPT ![w] = NoConn]
  /\ Goto(w, "call")
  /\ UNCHANGED <<clientPool, countVars, open, c, arg, repeated, failed, errs,
                 raced>>

\* Conn.Call: the command and its answer, or a network error, which marks the
\* connection.  Then it is put back.
Answered(w, bad) ==
  /\ pc[w] = "call"
  /\ failed' = [failed EXCEPT ![w] = bad]
  /\ err' = IF bad THEN [err EXCEPT ![c[w]] = TRUE] ELSE err
  /\ isOnce' = [isOnce EXCEPT ![c[w]] = FALSE]
  /\ IF isOnce[c[w]]
     THEN /\ arg' = [arg EXCEPT ![w] = c[w]]
          /\ Goto(w, "push")
     ELSE /\ UNCHANGED arg
          /\ Goto(w, "after")
  /\ UNCHANGED <<clientPool, countVars, sock, isIdle, open, c, got, repeated,
                 raced>>

CallSucceeds(w) ==
  /\ pc[w] = "call"
  /\ sock[c[w]] \in open
  /\ Answered(w, FALSE)
  /\ UNCHANGED errs

CallFails(w) ==
  /\ pc[w] = "call"
  /\ IF sock[c[w]] \in open THEN Failure ELSE UNCHANGED errs
  /\ Answered(w, TRUE)

\* Another goroutine has marked the connection: Call returns at once, and does
\* not put it back.
CallRefused(w) ==
  /\ pc[w] = "call"
  /\ err[c[w]]
  /\ failed' = [failed EXCEPT ![w] = TRUE]
  /\ Goto(w, "after")
  /\ UNCHANGED <<clientPool, countVars, connVars, c, got, arg, repeated, errs,
                 raced>>

\* Back in CallN: the field err of an object that is in the pool again decides
\* whether the command is repeated.
CallAgain(w) ==
  /\ pc[w] = "after"
  /\ err[c[w]] /\ ~repeated[w]
  /\ repeated' = [repeated EXCEPT ![w] = TRUE]
  /\ raced' = (raced \/ ~failed[w])
  /\ Goto(w, "pop")
  /\ UNCHANGED <<clientPool, countVars, connVars, c, got, arg, failed, errs>>

CallReturns(w) ==
  /\ pc[w] = "after"
  /\ ~err[c[w]] \/ repeated[w]
  /\ raced' = (raced \/ (failed[w] /\ ~repeated[w]))
  /\ Return(w)
  /\ UNCHANGED <<clientPool, countVars, connVars, errs>>

-----------------------------------------------------------------------------
Pop(w) ==
  \/ PopTake(w) \/ PopUse(w) \/ PopDead(w) \/ PopEmpty(w) \/ PopWait(w)
  \/ PopDial(w) \/ DialFailed(w)
  \/ \E s \in Conns : Dialed(w, s)

Push(w) ==
  \/ PushIdle(w) \/ PushMark(w) \/ PushLimit(w) \/ PushPut(w) \/ PushCount(w)
  \/ PushDiscard(w) \/ PushClose(w)

CallN(w) ==
  \/ NothingGot(w) \/ FirstCall(w) \/ CopyConn(w)
  \/ CallSucceeds(w) \/ CallFails(w) \/ CallRefused(w)
  \/ CallAgain(w) \/ CallReturns(w)

Next == \E w \in Callers : Call(w) \/ Pop(w) \/ Push(w) \/ CallN(w)

Spec == Init /\ [][Next]_vars

-----------------------------------------------------------------------------
At(P) == {w \in Callers : pc[w] \in P}

\* Every variable holds what the program can store in it.
TypeOK ==
  /\ clientPool \in Seq(Conns) /\ Len(clientPool) <= MaxConnNum
  /\ idleNum \in Int /\ activeNum \in Int
  /\ sock \in [Conns -> Conns]
  /\ err \in [Conns -> BOOLEAN]
  /\ isIdle \in [Conns -> BOOLEAN]
  /\ isOnce \in [Conns -> BOOLEAN]
  /\ open \subseteq Conns
  /\ pc \in [Callers -> {"idle", "pop", "check", "popped", "dial", "got", "push",
                         "limit", "put", "count", "discard", "close", "call",
                         "after"}]
  /\ c \in [Callers -> Conns \cup {NoConn}]
  /\ got \in [Callers -> Conns \cup {NoConn}]
  /\ arg \in [Callers -> Conns \cup {NoConn}]
  /\ repeated \in [Callers -> BOOLEAN] /\ failed \in [Callers -> BOOLEAN]
  /\ errs \in 0 .. MaxErrs
  /\ raced \in BOOLEAN

\* Connections goroutines have in use, in a call or on the way to or from one.
Using(w) ==
  IF pc[w] \in {"push", "limit", "put", "discard", "close"} THEN {sock[arg[w]]}
  ELSE IF pc[w] = "call" THEN {sock[c[w]]}
  ELSE IF pc[w] \in {"popped", "got"} /\ got[w] # NoConn THEN {sock[got[w]]}
  ELSE {}

\* No two goroutines use one socket, and none uses one that is in the pool, as
\* long as CallN has not acted on another goroutine's error.
ExclusiveUnlessRaced ==
  ~raced => /\ \A v, w \in Callers : v # w => Using(v) \cap Using(w) = {}
            /\ \A w \in Callers, s \in Range(clientPool) : sock[s] \notin Using(w)
            /\ IsInjective(clientPool)

\* The counters do not drift.  IdleNum is off the length of the channel only
\* by the goroutines between the channel and their update of it (it may even be
\* negative), and every open socket is counted until the goroutine that
\* discards it is about to close it.
CountersExact ==
  ~raced =>
    /\ idleNum = Len(clientPool) + Cardinality(At({"popped"}))
                                 - Cardinality(At({"count"}))
    /\ idleNum + activeNum + Cardinality(At({"close"})) = Cardinality(open)

\* The limit is checked before the dial and without the lock, so it can be
\* overrun, but only by dials that overlap: Pop never begins to dial while
\* MaxConnNum sockets, not counting those about to be closed, are open.
DialsBelowLimit ==
  [][\A w \in Callers :
       pc[w] # "dial" /\ pc'[w] = "dial" /\ ~raced =>
         Cardinality(open) < MaxConnNum + Cardinality(At({"close"}))]_vars

\* The code's own rule, "mark the connection as being in use": never two
\* goroutines on one socket.  It is not kept after a network error.
ExclusiveUse ==
  \A v, w \in At({"call"}) : sock[c[v]] = sock[c[w]] => v = w

=============================================================================
