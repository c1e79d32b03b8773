-------------------------- MODULE RedisPoolProofs --------------------------
(***************************************************************************)
(* Proofs about the redis pool: types, exclusive use of the sockets, exact *)
(* counters and the limit on dials.                                        *)
(*                                                                         *)
(* The argument is about owners.  Until CallN has acted on another         *)
(* goroutine's error, a Conn object is in the channel once or owned by one *)
(* goroutine, and the objects that are in the channel or owned have        *)
(* different sockets.                                                      *)
(***************************************************************************)
EXTENDS RedisPool, FiniteSetTheorems, TLAPS

PushPcs == {"push", "limit", "put", "count", "discard", "close"}

\* The locals a goroutine has at each place.
LocalsFit ==
  \A w \in Callers :
    /\ pc[w] = "popped" => got[w] \in Conns
    /\ arg[w] \in Conns <=> pc[w] \in PushPcs
    /\ pc[w] \in {"call", "after"} => c[w] \in Conns
    /\ repeated[w] => c[w] \in Conns
    /\ pc[w] = "idle" => c[w] = NoConn

\* The goroutine is done with the Conn of its command: the call went well and
\* the Conn is in the channel again, or about to be forgotten.
GaveBack(w) == pc[w] \in {"after", "count"} /\ ~failed[w]

\* The objects a goroutine may still write to.
Own(w) ==
  {o \in Conns : \/ o = got[w]
                 \/ o = c[w] /\ ~GaveBack(w)
                 \/ o = arg[w] /\ pc[w] # "count"}

InPool == Range(clientPool)
Owned == {o \in Conns : \E w \in Callers : o \in Own(w)}

\* One owner for each object, one object for each socket.
OneOwner ==
  /\ IsInjective(clientPool)
  /\ \A w \in Callers : Own(w) \cap InPool = {}
  /\ \A v, w \in Callers : v # w => Own(v) \cap Own(w) = {}
OneSocket ==
  \A o, p \in InPool \cup Owned : sock[o] = sock[p] => o = p

\* Objects in the channel, or not marked idle, have an open socket; so has the
\* object a goroutine has popped, or is putting back or discarding.
Live(o) == isIdle[o] /\ sock[o] \in open
LiveHere(w) ==
  /\ pc[w] = "popped" => Live(got[w])
  /\ pc[w] \in {"limit", "put", "discard", "close"} => Live(arg[w])
Sockets ==
  /\ \A o \in InPool : Live(o)
  /\ \A w \in Callers : \A o \in Own(w) : ~isIdle[o] => sock[o] \in open
  /\ \A w \in Callers : LiveHere(w)

\* What Pop has taken is neither the Conn of the command nor the one being put
\* back.
GotApart(w) ==
  /\ got[w] \in Conns => got[w] # arg[w] /\ got[w] # c[w]
  /\ pc[w] = "call" => got[w] = NoConn

\* Pop works for this goroutine, or a Push that Pop has called.
InPop(w) == \/ pc[w] \in {"pop", "check", "popped", "dial", "got"}
            \/ pc[w] \in PushPcs /\ arg[w] # c[w]

\* A failed Conn is never put into the channel, and while Pop works for the
\* second call the first one has failed.
FailedStaysOut(w) ==
  /\ pc[w] \in {"limit", "put", "count"} /\ arg[w] = c[w] => ~failed[w]
  /\ pc[w] = "push" /\ arg[w] = c[w] /\ failed[w] => err[c[w]]
  /\ InPop(w) /\ c[w] \in Conns => failed[w]

\* What holds of the objects as long as there was no race.
Apart ==
  /\ OneOwner /\ OneSocket /\ Sockets
  /\ \A w \in Callers : GotApart(w) /\ FailedStaysOut(w)

Finite ==
  /\ IsFiniteSet(open)
  /\ IsFiniteSet(At({"popped"}))
  /\ IsFiniteSet(At({"count"}))
  /\ IsFiniteSet(At({"close"}))

Counts ==
  /\ idleNum = Len(clientPool) + Cardinality(At({"popped"}))
                               - Cardinality(At({"count"}))
  /\ idleNum + activeNum + Cardinality(At({"close"})) = Cardinality(open)

\* The inductive invariant.
Orderly == Apart /\ Finite /\ Counts
PoolInv == TypeOK /\ LocalsFit /\ (~raced => Orderly)

-----------------------------------------------------------------------------
(* Types.                                                                  *)

Pcs == {"idle", "pop", "check", "popped", "dial", "got", "push", "limit", "put",
        "count", "discard", "close", "call", "after"}

TypeInv == TypeOK /\ LocalsFit

\* The rest of a queue is a queue, and so is a longer one.
LEMMA TailType ==
  ASSUME NEW S, NEW s \in Seq(S), s # <<>>
  PROVE  /\ Head(s) \in S /\ Tail(s) \in Seq(S) /\ Len(Tail(s)) = Len(s) - 1
         /\ Len(s) \in Nat \ {0}
  OBVIOUS

\* What appending does to a sequence.
LEMMA AppendType ==
  ASSUME NEW S, NEW s \in Seq(S), NEW x \in S
  PROVE  Append(s, x) \in Seq(S) /\ Len(Append(s, x)) = Len(s) + 1 /\ Len(s) \in Nat
  OBVIOUS

\* The pool starts empty, and no goroutine holds a connection.
LEMMA InitType ==
  ASSUME Init
  PROVE  TypeInv
<1>1. clientPool \in Seq(Conns) /\ Len(clientPool) <= MaxConnNum
  BY PoolAssumption DEF Init
<1>2. /\ c \in [Callers -> Conns \cup {NoConn}] /\ got = c /\ arg = c
      /\ \A w \in Callers : c[w] = NoConn /\ pc[w] = "idle" /\ ~repeated[w]
  BY Zenon DEF Init
<1>3. repeated \in [Callers -> BOOLEAN] /\ failed = repeated
  BY Zenon DEF Init
<1>4. /\ err \in [Conns -> BOOLEAN] /\ isIdle \in [Conns -> BOOLEAN]
      /\ isOnce \in [Conns -> BOOLEAN] /\ sock \in [Conns -> Conns]
      /\ raced \in BOOLEAN /\ pc \in [Callers -> Pcs]
  BY Zenon DEF Init, Pcs
<1>6. idleNum \in Int /\ activeNum \in Int /\ errs \in 0 .. MaxErrs /\ open \subseteq Conns
  BY PoolAssumption DEF Init
<1>7. TypeOK
  BY <1>1, <1>2, <1>3, <1>4, <1>6, Zenon DEF TypeOK, Pcs
<1>5. LocalsFit
  BY <1>2, PoolAssumption, Zenon DEF LocalsFit, PushPcs
<1> QED BY <1>7, <1>5, Zenon DEF TypeInv

\* Pop keeps the types.
LEMMA PopType ==
  ASSUME TypeInv, NEW w \in Callers, Call(w) \/ Pop(w)
  PROVE  TypeInv'
<1> USE DEF TypeInv, TypeOK, LocalsFit, PushPcs
<1>1. CASE Call(w)
  BY <1>1, Zenon DEF Call, Goto, countVars, connVars, callVars
<1>2. CASE PopTake(w)
  <2>1. /\ Head(clientPool) \in Conns /\ Tail(clientPool) \in Seq(Conns)
        /\ Len(Tail(clientPool)) <= MaxConnNum
    BY <1>2, TailType, PoolAssumption DEF PopTake
  <2> QED BY <1>2, <2>1, Zenon DEF PopTake, Goto, countVars, connVars
<1>3. CASE PopUse(w)
  BY <1>3 DEF PopUse, Goto, callVars
<1>4. CASE PopDead(w)
  BY <1>4, PoolAssumption DEF PopDead, Failure, Goto, callVars
<1>5. CASE PopEmpty(w) \/ PopWait(w) \/ PopDial(w) \/ DialFailed(w)
  BY <1>5 DEF PopEmpty, PopWait, PopDial, DialFailed, Goto, countVars, connVars, callVars
<1>6. ASSUME NEW s \in Conns, Dialed(w, s)
      PROVE  TypeInv'
  BY <1>6, PoolAssumption DEF Dialed, Goto, Free
<1> QED BY <1>1, <1>2, <1>3, <1>4, <1>5, <1>6, Zenon DEF Pop

\* Push keeps the types.
LEMMA PushType ==
  ASSUME TypeInv, NEW w \in Callers, Push(w)
  PROVE  TypeInv'
<1> USE PoolAssumption DEF TypeInv, TypeOK, LocalsFit, PushPcs
<1>1. CASE PushIdle(w)
  BY <1>1, Zenon DEF PushIdle, Pushed, Goto, countVars, connVars
<1>2. CASE PushMark(w)
  BY <1>2, Zenon DEF PushMark, Goto, countVars, callVars
<1>3. CASE PushLimit(w) \/ PushDiscard(w)
  BY <1>3 DEF PushLimit, PushDiscard, Goto, countVars, connVars, callVars
<1>4. CASE PushPut(w)
  <2>1. /\ Append(clientPool, arg[w]) \in Seq(Conns)
        /\ Len(clientPool) < MaxConnNum => Len(Append(clientPool, arg[w])) <= MaxConnNum
    BY <1>4, AppendType DEF PushPut
  <2>2. clientPool' \in Seq(Conns) /\ Len(clientPool') <= MaxConnNum
    BY <1>4, <2>1, Zenon DEF PushPut
  <2>3. pc' = [pc EXCEPT ![w] = "count"] \/ pc' = [pc EXCEPT ![w] = "discard"]
    BY <1>4, Zenon DEF PushPut, Goto
  <2> QED BY <1>4, <2>2, <2>3 DEF PushPut, countVars, connVars, callVars
<1>5. CASE PushCount(w)
  BY <1>5 DEF PushCount, Pushed, Goto, connVars
<1>6. CASE PushClose(w)
  BY <1>6, Zenon DEF PushClose, Pushed, Goto, countVars
<1> QED BY <1>1, <1>2, <1>3, <1>4, <1>5, <1>6, Zenon DEF Push

\* After a call the Conn is put back, or not if isOnce was reset.
LEMMA AnsweredCases ==
  ASSUME NEW w \in Callers, NEW bad \in BOOLEAN, Answered(w, bad)
  PROVE  \/ pc' = [pc EXCEPT ![w] = "push"] /\ arg' = [arg EXCEPT ![w] = c[w]]
         \/ pc' = [pc EXCEPT ![w] = "after"] /\ arg' = arg
BY Zenon DEF Answered, Goto

\* CallN keeps the types.
LEMMA CallType ==
  ASSUME TypeInv, NEW w \in Callers, CallN(w)
  PROVE  TypeInv'
<1> USE PoolAssumption DEF TypeInv, TypeOK, LocalsFit, PushPcs
<1>1. CASE NothingGot(w)
  BY <1>1, Zenon DEF NothingGot, Return, Goto, countVars, connVars
<1>2. CASE FirstCall(w)
  BY <1>2 DEF FirstCall, Goto, countVars
<1>3. CASE CopyConn(w)
  <2>1. c[w] \in Conns /\ got[w] \in Conns
    BY <1>3, Zenon DEF CopyConn
  <2>2. sock' \in [Conns -> Conns]
    BY <1>3, <2>1, Zenon DEF CopyConn
  <2>3. isIdle[got[w]] \in BOOLEAN
    BY <2>1, Zenon
  <2>4. PICK idle \in BOOLEAN : idle = isIdle[got[w]]
    BY <2>3, Zenon
  <2>5. isIdle' = [isIdle EXCEPT ![c[w]] = idle]
    BY <1>3, <2>4, Zenon DEF CopyConn
  <2>6. isIdle' \in [Conns -> BOOLEAN]
    BY <2>5, Zenon
  <2>7. err' \in [Conns -> BOOLEAN] /\ isOnce' \in [Conns -> BOOLEAN]
    BY <1>3, <2>1, Zenon DEF CopyConn
  <2> QED BY <1>3, <2>2, <2>6, <2>7 DEF CopyConn, Goto, countVars
<1>4. ASSUME NEW bad \in BOOLEAN, Answered(w, bad), errs' \in 0 .. MaxErrs
      PROVE  TypeInv'
  <2>1. pc[w] = "call" /\ c[w] \in Conns
    BY <1>4, Zenon DEF Answered
  <2>2. failed' \in [Callers -> BOOLEAN] /\ isOnce' \in [Conns -> BOOLEAN]
    BY <1>4, Zenon DEF Answered
  <2>3. err' \in [Conns -> BOOLEAN]
    BY <1>4, Zenon DEF Answered
  <2>4. UNCHANGED <<clientPool, idleNum, activeNum, sock, isIdle, open, c, got, repeated, raced>>
    BY <1>4, Zenon DEF Answered, countVars
  <2>5. \/ pc' = [pc EXCEPT ![w] = "push"] /\ arg' = [arg EXCEPT ![w] = c[w]]
        \/ pc' = [pc EXCEPT ![w] = "after"] /\ arg' = arg
    BY <1>4, AnsweredCases, Zenon
  <2>6. TypeOK'
    BY <1>4, <2>1, <2>2, <2>3, <2>4, <2>5
  <2>7. LocalsFit'
    BY <2>1, <2>4, <2>5
  <2> QED BY <2>6, <2>7, Zenon
<1>5. CASE CallSucceeds(w) \/ CallFails(w)
  <2>1. errs' \in 0 .. MaxErrs
    <3>1. errs' = errs \/ (errs < MaxErrs /\ errs' = errs + 1)
      BY <1>5, Zenon DEF CallSucceeds, CallFails, Failure
    <3> QED BY <3>1
  <2>2. Answered(w, FALSE) \/ Answered(w, TRUE)
    BY <1>5, Zenon DEF CallSucceeds, CallFails
  <2> QED BY <1>4, <2>1, <2>2, Zenon
<1>6. CASE CallRefused(w)
  BY <1>6, Zenon DEF CallRefused, Goto, countVars, connVars
<1>7. CASE CallAgain(w)
  BY <1>7, Zenon DEF CallAgain, Goto, countVars, connVars
<1>8. CASE CallReturns(w)
  BY <1>8, Zenon DEF CallReturns, Return, Goto, countVars, connVars
<1> QED BY <1>1, <1>2, <1>3, <1>5, <1>6, <1>7, <1>8, Zenon DEF CallN

\* Every step keeps the types and what each goroutine knows about its locals.
LEMMA NextType ==
  ASSUME TypeInv, [Next]_vars
  PROVE  TypeInv'
<1>1. CASE Next
  BY <1>1, PopType, PushType, CallType, Zenon DEF Next
<1>2. CASE UNCHANGED vars
  BY <1>2, Zenon DEF vars, countVars, connVars, callVars, TypeInv, TypeOK, LocalsFit
<1> QED BY <1>1, <1>2, Zenon

\* Every variable of the pool keeps its type, whatever goroutines, failures and
\* races there are, and the channel never holds more than MaxConnNum
\* connections (pool.go:97-211, conn.go:142-212).
THEOREM TypeCorrect == Spec => []TypeOK
<1>1. TypeInv => TypeOK
  BY Zenon DEF TypeInv
<1> QED BY <1>1, InitType, NextType, PTL DEF Spec

-----------------------------------------------------------------------------
(* The channel, and who has which object.                                  *)

\* Taking the first connection out of the channel.
LEMMA TakeFirst ==
  ASSUME NEW S, NEW s \in Seq(S), s # <<>>, IsInjective(s)
  PROVE  /\ IsInjective(Tail(s))
         /\ Head(s) \in Range(s) /\ Head(s) \notin Range(Tail(s))
         /\ Range(Tail(s)) \subseteq Range(s)
<1>1. /\ Len(s) \in Nat \ {0} /\ DOMAIN s = 1 .. Len(s)
      /\ DOMAIN Tail(s) = 1 .. Len(s) - 1
      /\ \A i \in 1 .. Len(s) - 1 : Tail(s)[i] = s[i + 1]
      /\ Head(s) = s[1]
  OBVIOUS
<1>2. \A i \in 1 .. Len(s) - 1 : i + 1 \in 1 .. Len(s) /\ i + 1 # 1
  BY <1>1
<1>3. IsInjective(Tail(s))
  BY <1>1, <1>2 DEF IsInjective
<1>4. Head(s) \in Range(s) /\ Range(Tail(s)) \subseteq Range(s)
  BY <1>1, <1>2 DEF Range
<1>5. Head(s) \notin Range(Tail(s))
  <2>1. SUFFICES ASSUME NEW i \in 1 .. Len(s) - 1, s[1] = Tail(s)[i]
                 PROVE  FALSE
    BY <1>1, Zenon DEF Range
  <2>2. s[1] = s[i + 1] /\ i + 1 \in DOMAIN s /\ 1 \in DOMAIN s /\ i + 1 # 1
    BY <1>1, <1>2, <2>1
  <2> QED BY <2>2, Zenon DEF IsInjective
<1> QED BY <1>3, <1>4, <1>5, Zenon

\* Putting another connection into the channel.
LEMMA PutLast ==
  ASSUME NEW S, NEW s \in Seq(S), NEW x \in S, x \notin Range(s), IsInjective(s)
  PROVE  IsInjective(Append(s, x)) /\ Range(Append(s, x)) = Range(s) \cup {x}
<1>1. /\ Len(s) \in Nat /\ DOMAIN s = 1 .. Len(s)
      /\ DOMAIN Append(s, x) = 1 .. Len(s) + 1
      /\ \A i \in 1 .. Len(s) : Append(s, x)[i] = s[i]
      /\ Append(s, x)[Len(s) + 1] = x
  OBVIOUS
<1>2. \A i \in 1 .. Len(s) + 1 : i \in 1 .. Len(s) \/ i = Len(s) + 1
  BY <1>1
<1>3. \A i \in 1 .. Len(s) : s[i] # x /\ i \in 1 .. Len(s) + 1
  BY <1>1 DEF Range
<1>4. IsInjective(Append(s, x))
  BY <1>1, <1>2, <1>3, Zenon DEF IsInjective
<1>5. Range(Append(s, x)) = Range(s) \cup {x}
  <2>1. Len(s) + 1 \in 1 .. Len(s) + 1
    BY <1>1
  <2> QED BY <1>1, <1>2, <1>3, <2>1, Zenon DEF Range
<1> QED BY <1>4, <1>5, Zenon

\* A step of one goroutine leaves the locals of the others alone.
Alone(w) ==
  \A v \in Callers : v # w =>
    /\ pc'[v] = pc[v] /\ c'[v] = c[v] /\ got'[v] = got[v] /\ arg'[v] = arg[v]
    /\ repeated'[v] = repeated[v] /\ failed'[v] = failed[v]

\* A step moves the locals of the goroutine that takes it, and of no other.
LEMMA StepsAlone ==
  ASSUME TypeOK, NEW w \in Callers, Call(w) \/ Pop(w) \/ Push(w) \/ CallN(w)
  PROVE  Alone(w)
<1> USE DEF TypeOK, Alone, Goto, callVars
<1>1. CASE Call(w)
  BY <1>1, Zenon DEF Call
<1>2. CASE Pop(w)
  BY <1>2 DEF Pop, PopTake, PopUse, PopDead, PopEmpty, PopWait, PopDial, DialFailed, Dialed
<1>3. CASE Push(w)
  BY <1>3, Zenon DEF Push, PushIdle, PushMark, PushLimit, PushPut, PushCount, PushDiscard, PushClose,
              Pushed
<1>4. CASE CallN(w)
  BY <1>4 DEF CallN, NothingGot, FirstCall, CopyConn, CallSucceeds, CallFails, CallRefused,
              CallAgain, CallReturns, Answered, Return
<1> QED BY <1>1, <1>2, <1>3, <1>4, Zenon

\* What another goroutine owns depends on its own locals only.
LEMMA OthersOwn ==
  ASSUME NEW w \in Callers, NEW v \in Callers, v # w, Alone(w)
  PROVE  Own(v)' = Own(v)
BY Zenon DEF Alone, Own, GaveBack

\* Objects change hands between one goroutine and the channel only, and a new
\* object is one that nobody had.
LEMMA OwnersKept ==
  ASSUME TypeOK, OneOwner, NEW w \in Callers, Alone(w), NEW F,
         \A o \in F : o \notin InPool /\ \A v \in Callers : o \notin Own(v),
         Own(w)' \subseteq Own(w) \cup InPool \cup F,
         InPool' \subseteq InPool \cup Own(w),
         Own(w)' \cap InPool' = {},
         IsInjective(clientPool')
  PROVE  /\ OneOwner'
         /\ Owned' \cup InPool' \subseteq Owned \cup InPool \cup F
<1>1. \A v \in Callers : v # w => Own(v)' = Own(v)
  BY OthersOwn, Zenon
<1>2. ASSUME NEW v \in Callers
      PROVE  Own(v)' \cap InPool' = {}
  BY <1>1 DEF OneOwner
<1>3. ASSUME NEW v \in Callers, NEW u \in Callers, u # v
      PROVE  Own(v)' \cap Own(u)' = {}
  <2>1. CASE v = w
    BY <1>1, <1>3, <2>1 DEF OneOwner
  <2>2. CASE u = w
    BY <1>1, <1>3, <2>2 DEF OneOwner
  <2>3. CASE v # w /\ u # w
    BY <1>1, <1>3, <2>3, Zenon DEF OneOwner
  <2> QED BY <2>1, <2>2, <2>3, Zenon
<1>4. OneOwner'
  BY <1>2, <1>3, Zenon DEF OneOwner
<1>5. ASSUME NEW o \in Owned'
      PROVE  o \in Owned \cup InPool \cup F
  <2>1. PICK v \in Callers : o \in Own(v)'
    BY <1>5, Zenon DEF Owned
  <2>2. o \in Own(v) \/ o \in Own(w) \cup InPool \cup F
    BY <1>1, <2>1, Zenon
  <2> QED BY <2>2, Zenon DEF Owned, Own
<1>6. Own(w) \subseteq Owned
  BY Zenon DEF Owned, Own
<1> QED BY <1>4, <1>5, <1>6, Zenon

\* The sockets stay as they are, so different objects keep different ones.
LEMMA SocketsKept ==
  ASSUME OneSocket, \A o \in InPool \cup Owned : sock'[o] = sock[o],
         InPool' \cup Owned' \subseteq InPool \cup Owned
  PROVE  OneSocket'
BY Zenon DEF OneSocket

\* A goroutine that writes only to objects it owns, or to new ones, disturbs
\* nobody: it is enough to look at its own objects and at what it puts into the
\* channel.
LEMMA Undisturbed ==
  ASSUME TypeInv, Apart, NEW w \in Callers, Alone(w), NEW F \in SUBSET Conns,
         \A o \in F : o \notin InPool /\ \A v \in Callers : o \notin Own(v),
         \A o \in Conns : o \notin Own(w) \cup F =>
           sock'[o] = sock[o] /\ err'[o] = err[o] /\ isIdle'[o] = isIdle[o],
         \A x \in open : x \notin open' => \E o \in Own(w) : x = sock[o],
         InPool' \subseteq InPool \cup Own(w),
         OneOwner', OneSocket',
         GotApart(w)', FailedStaysOut(w)', LiveHere(w)',
         \A o \in Own(w)' : ~isIdle'[o] => sock'[o] \in open',
         \A o \in InPool' : o \in Own(w) => Live(o)'
  PROVE  Apart'
<1>1. /\ InPool \subseteq Conns
      /\ \A v \in Callers : Own(v) \subseteq Conns /\ Own(v) \subseteq Owned
  BY DEF TypeInv, TypeOK, InPool, Range, Own, Owned
<1>2. ASSUME NEW o \in InPool \cup Owned, o \notin Own(w)
      PROVE  /\ sock'[o] = sock[o] /\ err'[o] = err[o] /\ isIdle'[o] = isIdle[o]
             /\ sock[o] \in open => sock[o] \in open'
  <2>1. o \in Conns /\ o \notin F
    BY <1>1, Zenon DEF Owned
  <2>2. \A p \in Own(w) : sock[o] # sock[p]
    BY <1>1, <1>2, Zenon DEF Apart, OneSocket
  <2> QED BY <1>2, <2>1, <2>2, Zenon
<1>3. ASSUME NEW v \in Callers, v # w
      PROVE  /\ \A o \in Own(v)' : ~isIdle'[o] => sock'[o] \in open'
             /\ GotApart(v)' /\ FailedStaysOut(v)' /\ LiveHere(v)'
  <2>1. Own(v)' = Own(v)
    BY <1>3, OthersOwn, Zenon
  <2>2. \A o \in Own(v) : o \in InPool \cup Owned /\ o \notin Own(w)
    BY <1>1, <1>3, Zenon DEF Apart, OneOwner
  <2>3. \A o \in Own(v)' : ~isIdle'[o] => sock'[o] \in open'
    BY <1>2, <2>1, <2>2, Zenon DEF Apart, Sockets
  <2>4. /\ pc'[v] = pc[v] /\ c'[v] = c[v] /\ got'[v] = got[v] /\ arg'[v] = arg[v]
        /\ failed'[v] = failed[v]
    BY <1>3, Zenon DEF Alone
  <2>5. GotApart(v)'
    BY <2>4, Zenon DEF Apart, GotApart
  <2>6. pc[v] = "push" /\ arg[v] = c[v] => err'[c[v]] = err[c[v]]
    <3>1. pc[v] = "push" /\ arg[v] = c[v] => c[v] \in Own(v)
      BY Zenon DEF Own, GaveBack, TypeInv, LocalsFit, PushPcs
    <3> QED BY <1>2, <2>2, <3>1, Zenon
  <2>7. FailedStaysOut(v)'
    BY <2>4, <2>6, Zenon DEF Apart, FailedStaysOut, InPop
  <2>8. /\ pc[v] = "popped" => got[v] \in Own(v)
        /\ pc[v] \in {"limit", "put", "discard", "close"} => arg[v] \in Own(v)
    BY ZenonT(30) DEF Own, TypeInv, LocalsFit, PushPcs
  <2>9. \A o \in Own(v) : Live(o) => Live(o)'
    BY <1>2, <2>2, Zenon DEF Live
  <2>10. LiveHere(v)'
    <3>1. LiveHere(v)
      BY Zenon DEF Apart, Sockets
    <3>2. pc[v] = "popped" => Live(got[v])'
      BY <2>4, <2>8, <2>9, <3>1, Zenon DEF LiveHere, Live
    <3>3. pc[v] \in {"limit", "put", "discard", "close"} => Live(arg[v])'
      BY <2>4, <2>8, <2>9, <3>1, Zenon DEF LiveHere, Live
    <3> QED BY <2>4, <3>2, <3>3, Zenon DEF LiveHere
  <2> QED BY <2>3, <2>5, <2>7, <2>10, Zenon
<1>4. \A o \in InPool' : Live(o)'
  BY <1>2, Zenon DEF Apart, Sockets, Live
<1>5. Sockets'
  BY <1>3, <1>4, Zenon DEF Sockets
<1>6. \A v \in Callers : GotApart(v)' /\ FailedStaysOut(v)'
  BY <1>3, Zenon
<1> QED BY <1>5, <1>6, Zenon DEF Apart

-----------------------------------------------------------------------------
(* Steps that move no object into or out of the channel.                   *)

\* A goroutine works on objects it owns: everything stays apart.
LEMMA OwnApart ==
  ASSUME TypeInv, Apart, NEW w \in Callers, Alone(w),
         UNCHANGED <<clientPool, sock>>,
         \A o \in Conns : o \notin Own(w) => err'[o] = err[o] /\ isIdle'[o] = isIdle[o],
         \A x \in open : x \notin open' => \E o \in Own(w) : x = sock[o],
         Own(w)' \subseteq Own(w),
         \A o \in Own(w)' : ~isIdle'[o] => sock[o] \in open',
         GotApart(w)', FailedStaysOut(w)', LiveHere(w)'
  PROVE  Apart'
<1>1. InPool' = InPool /\ IsInjective(clientPool')
  BY Zenon DEF InPool, Apart, OneOwner
<1>2. OneOwner' /\ Owned' \cup InPool' \subseteq Owned \cup InPool \cup {}
  <2>1. Own(w)' \cap InPool' = {}
    BY <1>1, Zenon DEF Apart, OneOwner
  <2>2. TypeOK /\ OneOwner
    BY Zenon DEF TypeInv, Apart
  <2> QED BY <1>1, <2>1, <2>2, OwnersKept, ZenonT(30)
<1>3. OneSocket'
  BY <1>2, SocketsKept, Zenon DEF Apart
<1>4. \A o \in Own(w)' : ~isIdle'[o] => sock'[o] \in open'
  OBVIOUS
<1>5. \A o \in InPool' : o \in Own(w) => Live(o)'
  BY <1>1, Zenon DEF Apart, OneOwner
<1>6. PICK F \in SUBSET Conns : F = {}
  OBVIOUS
<1>7. /\ \A o \in F : o \notin InPool /\ \A v \in Callers : o \notin Own(v)
      /\ \A o \in Conns : o \notin Own(w) \cup F =>
           sock'[o] = sock[o] /\ err'[o] = err[o] /\ isIdle'[o] = isIdle[o]
      /\ InPool' \subseteq InPool \cup Own(w)
  BY <1>1, <1>6, Zenon
<1> QED BY <1>2, <1>3, <1>4, <1>5, <1>7, Undisturbed, Zenon

\* ... and change nothing about sockets at all.
LEMMA QuietApart ==
  ASSUME TypeInv, Apart, NEW w \in Callers, Alone(w),
         UNCHANGED <<clientPool, sock, isIdle, open>>,
         \A o \in Conns : o \notin Own(w) => err'[o] = err[o],
         Own(w)' \subseteq Own(w),
         GotApart(w)', FailedStaysOut(w)', LiveHere(w)'
  PROVE  Apart'
<1>1. \A o \in Own(w)' : ~isIdle'[o] => sock[o] \in open'
  BY Zenon DEF Apart, Sockets
<1> QED BY <1>1, OwnApart, Zenon

\* Pop looks at the limit, waits, or begins to dial.
LEMMA PopLooks ==
  ASSUME TypeInv, Apart, NEW w \in Callers,
         Call(w) \/ PopEmpty(w) \/ PopWait(w) \/ PopDial(w) \/ DialFailed(w)
  PROVE  Apart'
<1>1. Alone(w)
  BY StepsAlone, Zenon DEF Pop, TypeInv
<1>2. /\ UNCHANGED <<clientPool, sock, err, isIdle, open, c, got, arg, repeated, failed>>
      /\ pc[w] \in {"idle", "pop", "check", "dial"} /\ pc'[w] \in {"pop", "check", "dial", "got"}
      /\ pc[w] = "idle" => c[w] = NoConn
  BY Zenon DEF Call, PopEmpty, PopWait, PopDial, DialFailed, Goto, connVars, callVars, TypeInv, TypeOK,
         LocalsFit
<1>3. Own(w)' \subseteq Own(w)
  BY <1>2, Zenon DEF Own, GaveBack
<1>4. GotApart(w)' /\ FailedStaysOut(w)' /\ LiveHere(w)'
  BY <1>2, PoolAssumption, Zenon DEF Apart, GotApart, FailedStaysOut, InPop, LiveHere, PushPcs
<1> QED BY <1>1, <1>2, <1>3, <1>4, QuietApart, Zenon

\* Push on an object that is idle, looks at the limit, finds the channel full,
\* updates the counters or gives up the object.
LEMMA PushLooks ==
  ASSUME TypeInv, Apart, NEW w \in Callers,
         \/ PushIdle(w) \/ PushLimit(w) \/ PushCount(w) \/ PushDiscard(w)
         \/ PushPut(w) /\ UNCHANGED clientPool
  PROVE  Apart'
<1>1. Alone(w)
  BY StepsAlone, Zenon DEF Push, TypeInv
<1>2. UNCHANGED <<clientPool, sock, err, isIdle, open, c, got, repeated, failed>>
  BY Zenon DEF PushIdle, PushLimit, PushCount, PushDiscard, PushPut, Pushed, connVars, callVars
<1>3. \/ /\ pc[w] \in {"push", "count"} /\ arg'[w] = NoConn
         /\ pc'[w] = IF arg[w] = c[w] THEN "after" ELSE "pop"
      \/ /\ pc[w] \in {"limit", "put", "discard"} /\ arg'[w] = arg[w]
         /\ pc'[w] \in {"put", "discard", "close"}
         /\ pc'[w] = "put" => pc[w] = "limit"
  BY DEF PushIdle, PushLimit, PushCount, PushDiscard, PushPut, Pushed, Goto, callVars,
         TypeInv, TypeOK
<1>4. GotApart(w) /\ FailedStaysOut(w) /\ LiveHere(w) /\ (arg[w] \in Conns)
  BY <1>3, Zenon DEF Apart, Sockets, TypeInv, LocalsFit, PushPcs
<1>5. Own(w)' \subseteq Own(w)
  <2>1. SUFFICES ASSUME NEW o \in Conns, o \in Own(w)'
                 PROVE  o \in Own(w)
    BY Zenon DEF Own
  <2>2. \/ o = got[w]
        \/ o = c[w] /\ ~(pc'[w] \in {"after", "count"} /\ ~failed[w])
        \/ o = arg'[w] /\ pc'[w] # "count"
    BY <1>2, <2>1, Zenon DEF Own, GaveBack
  <2>3. /\ o = got[w] => o \in Own(w)
        /\ o = c[w] /\ (pc[w] # "count" \/ failed[w]) /\ pc[w] # "after" => o \in Own(w)
        /\ o = arg[w] /\ pc[w] # "count" => o \in Own(w)
    BY Zenon DEF Own, GaveBack
  <2>4. CASE /\ pc[w] \in {"push", "count"} /\ arg'[w] = NoConn
             /\ pc'[w] = IF arg[w] = c[w] THEN "after" ELSE "pop"
    <3>1. o # arg'[w]
      BY <2>4, PoolAssumption, Zenon
    <3>2. o = c[w] /\ pc[w] = "count" => failed[w]
      <4>1. pc'[w] = "after" => failed[w] \/ o # c[w]
        BY <2>2, <3>1, <2>3, <2>4, <1>4, Zenon DEF GotApart
      <4>2. arg[w] # c[w] /\ c[w] \in Conns /\ pc[w] = "count" => failed[w]
        BY <1>4, Zenon DEF FailedStaysOut, InPop, PushPcs
      <4> QED BY <2>4, <4>1, <4>2, Zenon
    <3> QED BY <2>2, <2>3, <2>4, <3>1, <3>2, Zenon
  <2>5. CASE pc[w] \in {"limit", "put", "discard"} /\ arg'[w] = arg[w]
    BY <2>2, <2>3, <2>5, Zenon
  <2> QED BY <1>3, <2>4, <2>5, Zenon
<1>6. GotApart(w)'
  BY <1>2, <1>3, <1>4, PoolAssumption, Zenon DEF GotApart
<1>7. FailedStaysOut(w)'
  BY <1>2, <1>3, <1>4, PoolAssumption, Zenon DEF FailedStaysOut, InPop, PushPcs
<1>8. LiveHere(w)'
  BY <1>2, <1>3, <1>4, Zenon DEF LiveHere, Live
<1> QED BY <1>1, <1>2, <1>5, <1>6, <1>7, <1>8, QuietApart, Zenon

\* The command returns, and the goroutine owns nothing more.
LEMMA ReturnApart ==
  ASSUME TypeInv, Apart, NEW w \in Callers, NothingGot(w) \/ CallReturns(w)
  PROVE  Apart'
<1>1. Alone(w)
  BY StepsAlone, Zenon DEF CallN, TypeInv
<1>2. /\ UNCHANGED <<clientPool, sock, err, isIdle, open, arg>>
      /\ pc[w] \in {"got", "after"} /\ pc'[w] = "idle"
      /\ c'[w] = NoConn /\ got'[w] = NoConn
  BY Zenon DEF NothingGot, CallReturns, Return, Goto, connVars, TypeInv, TypeOK
<1>3. arg[w] \notin Conns
  BY <1>2, Zenon DEF TypeInv, LocalsFit, PushPcs
<1>4. Own(w)' \subseteq Own(w)
  BY <1>2, <1>3, PoolAssumption, Zenon DEF Own
<1>5. GotApart(w)' /\ FailedStaysOut(w)' /\ LiveHere(w)'
  BY <1>2, PoolAssumption, Zenon DEF GotApart, FailedStaysOut, InPop, LiveHere, PushPcs
<1> QED BY <1>1, <1>2, <1>4, <1>5, QuietApart, Zenon

\* The first call begins: the connection that Pop has returned is now that of
\* the command.
LEMMA FirstApart ==
  ASSUME TypeInv, Apart, NEW w \in Callers, FirstCall(w)
  PROVE  Apart'
<1>1. Alone(w)
  BY StepsAlone, Zenon DEF CallN, TypeInv
<1>2. /\ UNCHANGED <<clientPool, sock, err, isIdle, open, arg>>
      /\ pc[w] = "got" /\ pc'[w] = "call"
      /\ c'[w] = got[w] /\ got'[w] = NoConn
  BY Zenon DEF FirstCall, Goto, TypeInv, TypeOK
<1>3. arg[w] \notin Conns
  BY <1>2, Zenon DEF TypeInv, LocalsFit, PushPcs
<1>4. Own(w)' \subseteq Own(w)
  BY <1>2, <1>3, PoolAssumption, Zenon DEF Own
<1>5. GotApart(w)' /\ FailedStaysOut(w)' /\ LiveHere(w)'
  BY <1>2, PoolAssumption, Zenon DEF GotApart, FailedStaysOut, InPop, LiveHere, PushPcs
<1> QED BY <1>1, <1>2, <1>4, <1>5, QuietApart, Zenon

\* The call ends: the Conn is put back, marked if the call failed.
LEMMA AnsweredApart ==
  ASSUME TypeInv, Apart, NEW w \in Callers, CallSucceeds(w) \/ CallFails(w)
  PROVE  Apart'
<1>1. Alone(w)
  BY StepsAlone, Zenon DEF CallN, TypeInv
<1>2. PICK bad \in BOOLEAN : Answered(w, bad)
  BY Zenon DEF CallSucceeds, CallFails
<1>3. /\ UNCHANGED <<clientPool, sock, isIdle, open, c, got>>
      /\ pc[w] = "call" /\ failed'[w] = bad
      /\ \A o \in Conns : o # c[w] => err'[o] = err[o]
      /\ bad => err'[c[w]]
  BY <1>2, Zenon DEF Answered, TypeInv, TypeOK, LocalsFit
<1>4. \/ pc'[w] = "push" /\ arg'[w] = c[w]
      \/ pc'[w] = "after" /\ arg'[w] = arg[w]
  <2>1. \/ pc' = [pc EXCEPT ![w] = "push"] /\ arg' = [arg EXCEPT ![w] = c[w]]
        \/ pc' = [pc EXCEPT ![w] = "after"] /\ arg' = arg
    BY <1>2, AnsweredCases, Zenon
  <2> QED BY <2>1, Zenon DEF TypeInv, TypeOK
<1>5. arg[w] \notin Conns /\ c[w] \in Conns /\ c[w] \in Own(w) /\ got[w] = NoConn
  BY <1>3, Zenon DEF TypeInv, LocalsFit, PushPcs, Own, GaveBack, Apart, GotApart
<1>6. Own(w)' \subseteq Own(w)
  BY <1>3, <1>4, <1>5, PoolAssumption, Zenon DEF Own
<1>7. GotApart(w)' /\ LiveHere(w)'
  BY <1>3, <1>4, <1>5, PoolAssumption, Zenon DEF GotApart, LiveHere
<1>8. FailedStaysOut(w)'
  BY <1>3, <1>4, <1>5, Zenon DEF FailedStaysOut, InPop, PushPcs
<1> QED BY <1>1, <1>3, <1>5, <1>6, <1>7, <1>8, QuietApart, Zenon

\* The call is refused, or CallN, without a race, calls again after its own
\* error.
LEMMA AgainApart ==
  ASSUME TypeInv, Apart, NEW w \in Callers, CallRefused(w) \/ (CallAgain(w) /\ ~raced')
  PROVE  Apart'
<1>1. Alone(w)
  BY StepsAlone, Zenon DEF CallN, TypeInv
<1>2. /\ UNCHANGED <<clientPool, sock, err, isIdle, open, c, got, arg>>
      /\ failed'[w]
      /\ \/ pc[w] = "call" /\ pc'[w] = "after"
         \/ pc[w] = "after" /\ pc'[w] = "pop" /\ failed[w]
  BY Zenon DEF CallRefused, CallAgain, Goto, connVars, TypeInv, TypeOK
<1>3. arg[w] \notin Conns /\ c[w] \in Conns
  BY <1>2, Zenon DEF TypeInv, LocalsFit, PushPcs
<1>4. Own(w)' \subseteq Own(w)
  BY <1>2, <1>3, Zenon DEF Own, GaveBack
<1>5. GotApart(w)' /\ FailedStaysOut(w)' /\ LiveHere(w)'
  BY <1>2, <1>3, Zenon DEF Apart, GotApart, FailedStaysOut, InPop, LiveHere, PushPcs
<1> QED BY <1>1, <1>2, <1>4, <1>5, QuietApart, Zenon

-----------------------------------------------------------------------------
(* Steps that open, close or mark a connection, or move one.               *)

\* Pop takes the first connection from the channel.
LEMMA TakeApart ==
  ASSUME TypeInv, Apart, NEW w \in Callers, PopTake(w)
  PROVE  Apart'
<1>1. Alone(w)
  BY StepsAlone, Zenon DEF Pop, TypeInv
<1>2. /\ UNCHANGED <<sock, err, isIdle, open, c, arg, failed>>
      /\ pc[w] = "pop" /\ pc'[w] = "popped" /\ got'[w] = Head(clientPool)
      /\ clientPool # <<>> /\ clientPool' = Tail(clientPool)
  BY Zenon DEF PopTake, Goto, connVars, TypeInv, TypeOK
<1>3. /\ IsInjective(clientPool') /\ InPool' \subseteq InPool
      /\ Head(clientPool) \in InPool /\ Head(clientPool) \notin InPool'
  BY <1>2, TakeFirst, Zenon DEF InPool, TypeInv, TypeOK, Apart, OneOwner
<1>4. arg[w] \notin Conns /\ Head(clientPool) \in Conns
  BY <1>2, TailType, Zenon DEF TypeInv, TypeOK, LocalsFit, PushPcs
<1>5. Own(w)' \subseteq Own(w) \cup {Head(clientPool)}
  BY <1>2, <1>4, Zenon DEF Own, GaveBack
<1>6. Own(w)' \cap InPool' = {}
  BY <1>3, <1>5, Zenon DEF Apart, OneOwner
<1>7. OneOwner' /\ Owned' \cup InPool' \subseteq Owned \cup InPool \cup {}
  <2>1. Own(w)' \subseteq Own(w) \cup InPool \cup {} /\ InPool' \subseteq InPool \cup Own(w)
    BY <1>3, <1>5, Zenon
  <2>2. TypeOK /\ OneOwner
    BY Zenon DEF TypeInv, Apart
  <2> QED BY <1>1, <1>3, <1>6, <2>1, <2>2, OwnersKept, ZenonT(30)
<1>8. OneSocket'
  BY <1>2, <1>7, SocketsKept, Zenon DEF Apart
<1>9. Live(Head(clientPool))
  BY <1>3, Zenon DEF Apart, Sockets
<1>10. c[w] \in Conns => c[w] # Head(clientPool)
  BY <1>2, <1>3, Zenon DEF Own, GaveBack, Apart, OneOwner
<1>11. GotApart(w)' /\ FailedStaysOut(w)' /\ LiveHere(w)'
  BY <1>2, <1>4, <1>9, <1>10, Zenon DEF Apart, GotApart, FailedStaysOut, InPop, LiveHere, Live, PushPcs
<1>12. \A o \in Own(w)' : ~isIdle'[o] => sock'[o] \in open'
  BY <1>2, <1>5, <1>9, Zenon DEF Apart, Sockets, Live
<1>13. \A o \in InPool' : o \in Own(w) => Live(o)'
  BY <1>3, Zenon DEF Apart, OneOwner
<1>14. PICK F \in SUBSET Conns : F = {}
  OBVIOUS
<1>15. /\ \A o \in F : o \notin InPool /\ \A v \in Callers : o \notin Own(v)
       /\ \A o \in Conns : o \notin Own(w) \cup F =>
            sock'[o] = sock[o] /\ err'[o] = err[o] /\ isIdle'[o] = isIdle[o]
       /\ \A x \in open : x \notin open' => \E o \in Own(w) : x = sock[o]
       /\ InPool' \subseteq InPool \cup Own(w)
  BY <1>2, <1>3, <1>14, Zenon
<1> QED BY <1>1, <1>7, <1>8, <1>11, <1>12, <1>13, <1>15, Undisturbed, Zenon

\* Pop uses what it took.
LEMMA UseApart ==
  ASSUME TypeInv, Apart, NEW w \in Callers, PopUse(w)
  PROVE  Apart'
<1>1. Alone(w)
  BY StepsAlone, Zenon DEF Pop, TypeInv
<1>2. /\ UNCHANGED <<clientPool, sock, err, open, c, got, arg, failed>>
      /\ pc[w] = "popped" /\ pc'[w] = "got"
      /\ \A o \in Conns : o # got[w] => isIdle'[o] = isIdle[o]
  BY Zenon DEF PopUse, Goto, callVars, TypeInv, TypeOK
<1>3. got[w] \in Own(w) /\ Live(got[w]) /\ arg[w] \notin Conns
  BY <1>2, Zenon DEF TypeInv, LocalsFit, PushPcs, Own, Apart, Sockets, LiveHere
<1>4. Own(w)' \subseteq Own(w)
  BY <1>2, <1>3, Zenon DEF Own, GaveBack
<1>5. \A o \in Own(w)' : ~isIdle'[o] => sock[o] \in open'
  BY <1>2, <1>3, <1>4, Zenon DEF Apart, Sockets, Live, Own
<1>6. GotApart(w)' /\ FailedStaysOut(w)' /\ LiveHere(w)'
  BY <1>2, <1>3, Zenon DEF Apart, GotApart, FailedStaysOut, InPop, LiveHere, PushPcs
<1> QED BY <1>1, <1>2, <1>3, <1>4, <1>5, <1>6, OwnApart, Zenon

\* Pop closes what it took.
LEMMA DeadApart ==
  ASSUME TypeInv, Apart, NEW w \in Callers, PopDead(w)
  PROVE  Apart'
<1>1. Alone(w)
  BY StepsAlone, Zenon DEF Pop, TypeInv
<1>2. /\ UNCHANGED <<clientPool, sock, isIdle, c, got, arg, failed>>
      /\ pc[w] = "popped" /\ pc'[w] = "pop" /\ open' = open \ {sock[got[w]]}
      /\ \A o \in Conns : o # got[w] => err'[o] = err[o]
  BY Zenon DEF PopDead, Goto, callVars, TypeInv, TypeOK
<1>3. got[w] \in Own(w) /\ Live(got[w]) /\ arg[w] \notin Conns
  BY <1>2, Zenon DEF TypeInv, LocalsFit, PushPcs, Own, Apart, Sockets, LiveHere
<1>4. Own(w)' \subseteq Own(w)
  BY <1>2, <1>3, Zenon DEF Own, GaveBack
<1>5. \A o \in Own(w) : sock[o] = sock[got[w]] => o = got[w]
  BY <1>3, Zenon DEF Apart, OneSocket, Owned, Own
<1>6. \A o \in Own(w)' : ~isIdle'[o] => sock[o] \in open'
  BY <1>2, <1>3, <1>4, <1>5, Zenon DEF Apart, Sockets, Live
<1>7. GotApart(w)' /\ FailedStaysOut(w)' /\ LiveHere(w)'
  BY <1>2, <1>3, Zenon DEF Apart, GotApart, FailedStaysOut, InPop, LiveHere, PushPcs
<1>8. \A x \in open : x \notin open' => \E o \in Own(w) : x = sock[o]
  BY <1>2, <1>3, Zenon
<1> QED BY <1>1, <1>2, <1>3, <1>4, <1>6, <1>7, <1>8, OwnApart, Zenon

\* Push marks the connection as idle.
LEMMA MarkApart ==
  ASSUME TypeInv, Apart, NEW w \in Callers, PushMark(w)
  PROVE  Apart'
<1>1. Alone(w)
  BY StepsAlone, Zenon DEF Push, TypeInv
<1>2. arg[w] \in Conns /\ arg[w] \in Own(w) /\ ~isIdle[arg[w]] /\ sock[arg[w]] \in open
  BY Zenon DEF PushMark, TypeInv, LocalsFit, PushPcs, Own, Apart, Sockets
<1>3. /\ UNCHANGED <<clientPool, sock, err, open, c, got, arg, failed>>
      /\ pc[w] = "push" /\ pc'[w] = IF err[arg[w]] THEN "discard" ELSE "limit"
      /\ isIdle'[arg[w]]
      /\ \A o \in Conns : o # arg[w] => isIdle'[o] = isIdle[o]
  BY <1>2, Zenon DEF PushMark, Goto, callVars, TypeInv, TypeOK
<1>4. Own(w)' \subseteq Own(w)
  BY <1>3, Zenon DEF Own, GaveBack
<1>5. \A o \in Own(w)' : ~isIdle'[o] => sock[o] \in open'
  BY <1>2, <1>3, <1>4, Zenon DEF Apart, Sockets, Own
<1>6. GotApart(w)' /\ LiveHere(w)'
  BY <1>2, <1>3, Zenon DEF Apart, GotApart, LiveHere, Live
<1>7. FailedStaysOut(w)'
  BY <1>2, <1>3, ZenonT(30) DEF Apart, FailedStaysOut, InPop, PushPcs
<1> QED BY <1>1, <1>2, <1>3, <1>4, <1>5, <1>6, <1>7, OwnApart, Zenon

\* Push closes the connection that it has taken off the counter.
LEMMA CloseApart ==
  ASSUME TypeInv, Apart, NEW w \in Callers, PushClose(w)
  PROVE  Apart'
<1>1. Alone(w)
  BY StepsAlone, Zenon DEF Push, TypeInv
<1>2. /\ UNCHANGED <<clientPool, sock, err, isIdle, c, got, failed>>
      /\ pc[w] = "close" /\ pc'[w] = (IF arg[w] = c[w] THEN "after" ELSE "pop")
      /\ arg'[w] = NoConn /\ open' = open \ {sock[arg[w]]}
  BY Zenon DEF PushClose, Pushed, Goto, TypeInv, TypeOK
<1>3. arg[w] \in Conns /\ arg[w] \in Own(w) /\ Live(arg[w])
  BY <1>2, Zenon DEF TypeInv, LocalsFit, PushPcs, Own, Apart, Sockets, LiveHere
<1>4. Own(w)' \subseteq Own(w)
  BY <1>2, PoolAssumption, Zenon DEF Own, GaveBack
<1>5. \A o \in Own(w) : sock[o] = sock[arg[w]] => o = arg[w]
  BY <1>3, Zenon DEF Apart, OneSocket, Owned, Own
<1>6. \A o \in Own(w)' : ~isIdle'[o] => sock[o] \in open'
  BY <1>2, <1>3, <1>4, <1>5, Zenon DEF Apart, Sockets, Live
<1>7. GotApart(w)' /\ LiveHere(w)'
  <2>1. GotApart(w)
    BY Zenon DEF Apart
  <2>2. GotApart(w)'
    BY <1>2, <2>1, PoolAssumption, Zenon DEF GotApart
  <2>3. LiveHere(w)'
    BY <1>2, Zenon DEF LiveHere
  <2> QED BY <2>2, <2>3, Zenon
<1>8. FailedStaysOut(w)'
  BY <1>2, <1>3, Zenon DEF Apart, FailedStaysOut, InPop, PushPcs
<1>9. \A x \in open : x \notin open' => \E o \in Own(w) : x = sock[o]
  BY <1>2, <1>3, Zenon
<1> QED BY <1>1, <1>2, <1>4, <1>6, <1>7, <1>8, <1>9, OwnApart, Zenon

\* Push puts the connection into the channel.
LEMMA PutApart ==
  ASSUME TypeInv, Apart, NEW w \in Callers, PushPut(w), clientPool' # clientPool
  PROVE  Apart'
<1>1. Alone(w)
  BY StepsAlone, Zenon DEF Push, TypeInv
<1>2. /\ UNCHANGED <<sock, err, isIdle, open, c, got, arg, failed>>
      /\ pc[w] = "put" /\ pc'[w] = "count"
      /\ clientPool' = Append(clientPool, arg[w])
  BY Zenon DEF PushPut, Goto, connVars, callVars, TypeInv, TypeOK
<1>3. arg[w] \in Conns /\ arg[w] \in Own(w) /\ Live(arg[w])
  BY <1>2, Zenon DEF TypeInv, LocalsFit, PushPcs, Own, Apart, Sockets, LiveHere
<1>4. IsInjective(clientPool') /\ InPool' = InPool \cup {arg[w]}
  <2>1. arg[w] \notin InPool
    BY <1>3, Zenon DEF Apart, OneOwner
  <2> QED BY <1>2, <1>3, <2>1, PutLast DEF InPool, TypeInv, TypeOK, Apart, OneOwner
<1>5. Own(w)' \subseteq Own(w) \ {arg[w]}
  <2>1. GotApart(w) /\ FailedStaysOut(w)
    BY Zenon DEF Apart
  <2> QED BY <1>2, <1>3, <2>1, Zenon DEF Own, GaveBack, GotApart, FailedStaysOut, InPop, PushPcs
<1>6. Own(w)' \cap InPool' = {}
  BY <1>4, <1>5, Zenon DEF Apart, OneOwner
<1>7. OneOwner' /\ Owned' \cup InPool' \subseteq Owned \cup InPool \cup {}
  <2>1. Own(w)' \subseteq Own(w) \cup InPool \cup {} /\ InPool' \subseteq InPool \cup Own(w)
    BY <1>3, <1>4, <1>5, Zenon
  <2>2. TypeOK /\ OneOwner
    BY Zenon DEF TypeInv, Apart
  <2> QED BY <1>1, <1>4, <1>6, <2>1, <2>2, OwnersKept, Zenon
<1>8. OneSocket'
  BY <1>2, <1>7, SocketsKept, Zenon DEF Apart
<1>9. GotApart(w)' /\ FailedStaysOut(w)' /\ LiveHere(w)'
  BY <1>2, <1>3, Zenon DEF Apart, GotApart, FailedStaysOut, InPop, LiveHere, PushPcs
<1>10. \A o \in Own(w)' : ~isIdle'[o] => sock'[o] \in open'
  BY <1>2, <1>5, Zenon DEF Apart, Sockets
<1>11. \A o \in InPool' : o \in Own(w) => Live(o)'
  BY <1>2, <1>3, <1>4, Zenon DEF Apart, OneOwner, Live
<1>12. PICK F \in SUBSET Conns : F = {}
  OBVIOUS
<1>13. /\ \A o \in F : o \notin InPool /\ \A v \in Callers : o \notin Own(v)
       /\ \A o \in Conns : o \notin Own(w) \cup F =>
            sock'[o] = sock[o] /\ err'[o] = err[o] /\ isIdle'[o] = isIdle[o]
       /\ \A x \in open : x \notin open' => \E o \in Own(w) : x = sock[o]
       /\ InPool' \subseteq InPool \cup Own(w)
  BY <1>2, <1>3, <1>4, <1>12, Zenon
<1> QED BY <1>1, <1>7, <1>8, <1>9, <1>10, <1>11, <1>13, Undisturbed, Zenon

\* Pop has dialed: a new object with a new socket.
LEMMA DialedApart ==
  ASSUME TypeInv, Apart, NEW w \in Callers, NEW s \in Conns, Dialed(w, s)
  PROVE  Apart'
<1>1. Alone(w)
  BY StepsAlone, Zenon DEF Pop, TypeInv
<1>2. /\ UNCHANGED <<clientPool, c, got, failed>>
      /\ pc[w] = "dial" /\ pc'[w] = "push" /\ arg'[w] = s /\ open' = open \cup {s}
      /\ sock'[s] = s /\ ~isIdle'[s]
      /\ \A o \in Conns : o # s => sock'[o] = sock[o] /\ err'[o] = err[o] /\ isIdle'[o] = isIdle[o]
  BY Zenon DEF Dialed, Goto, TypeInv, TypeOK
<1>3. /\ s \notin InPool
      /\ \A v \in Callers : s \notin Own(v) /\ s # c[v] /\ s # got[v]
  BY Zenon DEF Dialed, Free, Referred, InPool, Own
<1>4. \A o \in InPool \cup Owned : o # s /\ sock[o] # s /\ o \in Conns
  <2>1. InPool \subseteq Conns
    BY DEF InPool, Range, TypeInv, TypeOK
  <2>2. \A o \in InPool \cup Owned : o \in Referred \ {NoConn}
    BY <2>1, PoolAssumption, Zenon DEF InPool, Owned, Own, Referred
  <2> QED BY <1>3, <2>1, <2>2, Zenon DEF Dialed, Free, Owned
<1>5. InPool' = InPool /\ IsInjective(clientPool')
  BY <1>2, Zenon DEF InPool, Apart, OneOwner
<1>6. Own(w)' \subseteq Own(w) \cup {s}
  BY <1>2, Zenon DEF Own, GaveBack
<1>7. OneOwner' /\ Owned' \cup InPool' \subseteq Owned \cup InPool \cup {s}
  <2>1. Own(w)' \subseteq Own(w) \cup InPool \cup {s} /\ InPool' \subseteq InPool \cup Own(w)
    BY <1>5, <1>6, Zenon
  <2>2. Own(w)' \cap InPool' = {}
    BY <1>3, <1>5, <1>6, Zenon DEF Apart, OneOwner
  <2>3. \A o \in {s} : o \notin InPool /\ \A v \in Callers : o \notin Own(v)
    BY <1>3, Zenon
  <2>4. TypeOK /\ OneOwner
    BY Zenon DEF TypeInv, Apart
  <2> QED BY <1>1, <1>5, <2>1, <2>2, <2>3, <2>4, OwnersKept, Zenon
<1>8. OneSocket'
  <2>1. \A o \in InPool' \cup Owned' : o = s \/ (o \in InPool \cup Owned /\ o # s)
    BY <1>4, <1>7, Zenon
  <2>2. \A o \in InPool \cup Owned : sock'[o] = sock[o] /\ sock'[o] # s
    BY <1>2, <1>4, Zenon
  <2> QED BY <1>2, <2>1, <2>2 DEF Apart, OneSocket
<1>9. GotApart(w)' /\ FailedStaysOut(w)' /\ LiveHere(w)'
  <2>1. GotApart(w) /\ FailedStaysOut(w)
    BY Zenon DEF Apart
  <2> QED BY <1>2, <1>3, <2>1, Zenon DEF GotApart, FailedStaysOut, InPop, LiveHere, PushPcs
<1>10. \A o \in Own(w)' : ~isIdle'[o] => sock'[o] \in open'
  <2>1. \A o \in Own(w) : o \in InPool \cup Owned
    BY Zenon DEF Own, Owned
  <2> QED BY <1>2, <1>4, <1>6, <2>1, ZenonT(30) DEF Apart, Sockets
<1>11. \A o \in InPool' : o \in Own(w) => Live(o)'
  BY <1>5, Zenon DEF Apart, OneOwner
<1>12. PICK F \in SUBSET Conns : F = {s}
  OBVIOUS
<1>13. /\ \A o \in F : o \notin InPool /\ \A v \in Callers : o \notin Own(v)
       /\ \A o \in Conns : o \notin Own(w) \cup F =>
            sock'[o] = sock[o] /\ err'[o] = err[o] /\ isIdle'[o] = isIdle[o]
       /\ \A x \in open : x \notin open' => \E o \in Own(w) : x = sock[o]
       /\ InPool' \subseteq InPool \cup Own(w)
  BY <1>2, <1>3, <1>5, <1>12, Zenon
<1> QED BY <1>1, <1>7, <1>8, <1>9, <1>10, <1>11, <1>13, Undisturbed, Zenon

\* The second call: the Conn of the command takes over the socket Pop returned.
LEMMA CopyApart ==
  ASSUME TypeInv, Apart, NEW w \in Callers, CopyConn(w)
  PROVE  Apart'
<1>1. Alone(w)
  BY StepsAlone, Zenon DEF CallN, TypeInv
<1>2. /\ c[w] \in Conns /\ got[w] \in Conns /\ got[w] # c[w] /\ arg[w] \notin Conns
      /\ c[w] \in Own(w) /\ got[w] \in Own(w)
  BY Zenon DEF CopyConn, TypeInv, TypeOK, LocalsFit, PushPcs, Own, GaveBack, Apart, GotApart
<1>3. /\ UNCHANGED <<clientPool, open, c, arg, failed>>
      /\ pc[w] = "got" /\ pc'[w] = "call" /\ got'[w] = NoConn
      /\ sock'[c[w]] = sock[got[w]] /\ isIdle'[c[w]] = isIdle[got[w]]
      /\ \A o \in Conns : o # c[w] =>
           sock'[o] = sock[o] /\ err'[o] = err[o] /\ isIdle'[o] = isIdle[o]
  BY <1>2, Zenon DEF CopyConn, Goto, TypeInv, TypeOK
<1>4. Own(w)' = {c[w]}
  BY <1>2, <1>3, PoolAssumption, ZenonT(30) DEF Own, GaveBack
<1>5. InPool' = InPool /\ IsInjective(clientPool')
  BY <1>3, Zenon DEF InPool, Apart, OneOwner
<1>6. OneOwner' /\ Owned' \cup InPool' \subseteq Owned \cup InPool \cup {}
  <2>1. Own(w)' \subseteq Own(w) \cup InPool \cup {} /\ InPool' \subseteq InPool \cup Own(w)
    BY <1>2, <1>4, <1>5, Zenon
  <2>2. Own(w)' \cap InPool' = {}
    BY <1>2, <1>4, <1>5, Zenon DEF Apart, OneOwner
  <2>3. TypeOK /\ OneOwner
    BY Zenon DEF TypeInv, Apart
  <2> QED BY <1>1, <1>5, <2>1, <2>2, <2>3, OwnersKept, Zenon
<1>7. \A o \in InPool' \cup Owned' : o # got[w] /\ o \in InPool \cup Owned /\ o \in Conns
  <2>1. \A v \in Callers : v # w => Own(v)' = Own(v) /\ got[w] \notin Own(v)
    BY <1>1, <1>2, OthersOwn, Zenon DEF Apart, OneOwner
  <2>2. got[w] \notin InPool /\ InPool \subseteq Conns
    BY <1>2 DEF Apart, OneOwner, InPool, Range, TypeInv, TypeOK
  <2>3. got[w] \notin Owned'
    BY <1>2, <1>4, <2>1, Zenon DEF Owned
  <2> QED BY <1>5, <1>6, <2>2, <2>3, Zenon DEF Owned
<1>8. OneSocket'
  <2>1. got[w] \in InPool \cup Owned
    BY <1>2, Zenon DEF Owned
  <2>2. \A o \in InPool' \cup Owned' : o # c[w] => sock'[o] = sock[o] /\ sock'[o] # sock[got[w]]
    BY <1>3, <1>7, <2>1 DEF Apart, OneSocket
  <2>3. SUFFICES ASSUME NEW o \in InPool' \cup Owned', NEW p \in InPool' \cup Owned',
                        sock'[o] = sock'[p], o # p
                 PROVE  FALSE
    BY Zenon DEF OneSocket
  <2>4. CASE o # c[w] /\ p # c[w]
    BY <1>7, <2>2, <2>3, <2>4, Zenon DEF Apart, OneSocket
  <2>5. CASE o = c[w] \/ p = c[w]
    BY <1>3, <2>2, <2>3, <2>5, Zenon
  <2> QED BY <2>4, <2>5, Zenon
<1>9. GotApart(w)' /\ FailedStaysOut(w)' /\ LiveHere(w)'
  BY <1>2, <1>3, PoolAssumption, ZenonT(30) DEF GotApart, FailedStaysOut, InPop, LiveHere, PushPcs
<1>10. \A o \in Own(w)' : ~isIdle'[o] => sock'[o] \in open'
  BY <1>2, <1>3, <1>4, Zenon DEF Apart, Sockets
<1>11. \A o \in InPool' : o \in Own(w) => Live(o)'
  BY <1>5, Zenon DEF Apart, OneOwner
<1>12. PICK F \in SUBSET Conns : F = {}
  OBVIOUS
<1>13. /\ \A o \in F : o \notin InPool /\ \A v \in Callers : o \notin Own(v)
       /\ \A o \in Conns : o \notin Own(w) \cup F =>
            sock'[o] = sock[o] /\ err'[o] = err[o] /\ isIdle'[o] = isIdle[o]
       /\ \A x \in open : x \notin open' => \E o \in Own(w) : x = sock[o]
       /\ InPool' \subseteq InPool \cup Own(w)
  BY <1>2, <1>3, <1>5, <1>12, Zenon
<1> QED BY <1>1, <1>6, <1>8, <1>9, <1>10, <1>11, <1>13, Undisturbed, Zenon

\* Every step that is no race keeps the objects apart.
LEMMA NextApart ==
  ASSUME TypeInv, Apart, NEW w \in Callers, ~raced',
         Call(w) \/ Pop(w) \/ Push(w) \/ CallN(w)
  PROVE  Apart'
<1>1. CASE Call(w) \/ Pop(w)
  BY <1>1, PopLooks, TakeApart, UseApart, DeadApart, DialedApart, Zenon DEF Pop
<1>2. CASE Push(w)
  BY <1>2, PushLooks, MarkApart, CloseApart, PutApart, Zenon DEF Push
<1>3. CASE CallN(w)
  BY <1>3, ReturnApart, FirstApart, AnsweredApart, AgainApart, CopyApart, Zenon DEF CallN
<1> QED BY <1>1, <1>2, <1>3, Zenon

-----------------------------------------------------------------------------
(* The counters.                                                           *)

\* A goroutine comes to a place, leaves it, or does neither.
LEMMA Enters ==
  ASSUME TypeOK, NEW w \in Callers, NEW q, pc' = [pc EXCEPT ![w] = q], pc[w] # q,
         IsFiniteSet(At({q}))
  PROVE  /\ IsFiniteSet(At({q})')
         /\ Cardinality(At({q})') = Cardinality(At({q})) + 1
<1>1. At({q})' = At({q}) \cup {w} /\ w \notin At({q})
  BY Zenon DEF At, TypeOK
<1> QED BY <1>1, FS_AddElement, Zenon

\* One goroutine fewer is at the place that it leaves.
LEMMA Leaves ==
  ASSUME TypeOK, NEW w \in Callers, NEW q, NEW p, pc' = [pc EXCEPT ![w] = p], p # q,
         pc[w] = q, IsFiniteSet(At({q}))
  PROVE  /\ IsFiniteSet(At({q})')
         /\ Cardinality(At({q})') = Cardinality(At({q})) - 1
<1>1. At({q})' = At({q}) \ {w} /\ w \in At({q})
  BY Zenon DEF At, TypeOK
<1> QED BY <1>1, FS_RemoveElement, Zenon

\* Places that the step neither leaves nor reaches keep their goroutines.
LEMMA Elsewhere ==
  ASSUME TypeOK, NEW w \in Callers, NEW q, NEW p, pc' = [pc EXCEPT ![w] = p], p # q,
         pc[w] # q
  PROVE  At({q})' = At({q})
BY Zenon DEF At, TypeOK

Counted == {"popped", "count", "close"}

\* The sums of Counts are sums of natural numbers.
LEMMA Numbers ==
  ASSUME Finite
  PROVE  /\ Cardinality(open) \in Nat
         /\ \A q \in Counted : Cardinality(At({q})) \in Nat
BY FS_CardinalityType, Zenon DEF Finite, Counted

\* The sums of Counts after each way the counters and the places change together.
LEMMA Shifts ==
  ASSUME TypeOK, Finite, Counts
  PROVE  /\ idleNum = (Len(clientPool) - 1) + (Cardinality(At({"popped"})) + 1)
                - Cardinality(At({"count"}))
         /\ idleNum = (Len(clientPool) + 1) + Cardinality(At({"popped"}))
                - (Cardinality(At({"count"})) + 1)
         /\ idleNum - 1 = Len(clientPool) + (Cardinality(At({"popped"})) - 1)
                - Cardinality(At({"count"}))
         /\ idleNum + 1 = Len(clientPool) + Cardinality(At({"popped"}))
                - (Cardinality(At({"count"})) - 1)
         /\ (idleNum - 1) + (activeNum + 1) + Cardinality(At({"close"})) = Cardinality(open)
         /\ (idleNum + 1) + (activeNum - 1) + Cardinality(At({"close"})) = Cardinality(open)
         /\ (idleNum - 1) + activeNum + Cardinality(At({"close"})) = Cardinality(open) - 1
         /\ idleNum + (activeNum - 1) + (Cardinality(At({"close"})) + 1) = Cardinality(open)
         /\ idleNum + activeNum + (Cardinality(At({"close"})) - 1) = Cardinality(open) - 1
         /\ idleNum + (activeNum + 1) + Cardinality(At({"close"})) = Cardinality(open) + 1
<1>1. idleNum \in Int /\ activeNum \in Int /\ Len(clientPool) \in Nat
  BY DEF TypeOK
<1>2. /\ Cardinality(At({"popped"})) \in Nat /\ Cardinality(At({"count"})) \in Nat
      /\ Cardinality(At({"close"})) \in Nat /\ Cardinality(open) \in Nat
  BY Numbers, Zenon DEF Counted
<1>3. PICK i \in Int, a \in Int, n \in Nat : i = idleNum /\ a = activeNum /\ n = Len(clientPool)
  BY <1>1, Zenon
<1>4. PICK p \in Nat, q \in Nat, z \in Nat, o \in Nat :
        /\ p = Cardinality(At({"popped"})) /\ q = Cardinality(At({"count"}))
        /\ z = Cardinality(At({"close"})) /\ o = Cardinality(open)
  BY <1>2, Zenon
<1>5. i = n + p - q /\ i + a + z = o
  BY <1>3, <1>4, Zenon DEF Counts
<1>6. /\ i = (n - 1) + (p + 1) - q
      /\ i = (n + 1) + p - (q + 1)
      /\ i - 1 = n + (p - 1) - q
      /\ i + 1 = n + p - (q - 1)
  BY <1>5
<1>7. /\ (i - 1) + (a + 1) + z = o
      /\ (i + 1) + (a - 1) + z = o
      /\ (i - 1) + a + z = o - 1
      /\ i + (a - 1) + (z + 1) = o
      /\ i + a + (z - 1) = o - 1
      /\ i + (a + 1) + z = o + 1
  BY <1>5
<1> QED BY <1>3, <1>4, <1>6, <1>7, Zenon

\* Steps between places that do not count.
LEMMA NeutralCounts ==
  ASSUME TypeOK, Finite, Counts, NEW w \in Callers, NEW p, pc' = [pc EXCEPT ![w] = p],
         pc[w] \notin Counted, p \notin Counted,
         UNCHANGED <<clientPool, idleNum, activeNum, open>>
  PROVE  Finite' /\ Counts'
<1>1. \A q \in Counted : At({q})' = At({q})
  BY Elsewhere, Zenon
<1>2. /\ At({"popped"})' = At({"popped"}) /\ At({"count"})' = At({"count"})
      /\ At({"close"})' = At({"close"})
  BY <1>1, Zenon DEF Counted
<1> QED BY <1>2, Zenon DEF Finite, Counts

\* Steps that touch no counter and open or close no socket.
LEMMA QuietCounts ==
  ASSUME TypeOK, Finite, Counts, NEW w \in Callers,
         \/ Call(w) \/ PopEmpty(w) \/ PopWait(w) \/ PopDial(w) \/ DialFailed(w)
         \/ PushIdle(w) \/ PushMark(w) \/ PushLimit(w)
         \/ PushPut(w) /\ UNCHANGED clientPool
         \/ CallN(w)
  PROVE  Finite' /\ Counts'
<1>1. UNCHANGED <<clientPool, idleNum, activeNum, open>>
  BY Zenon DEF Call, PopEmpty, PopWait, PopDial, DialFailed, PushIdle, PushMark, PushLimit, PushPut,
         CallN, NothingGot, FirstCall, CopyConn, CallSucceeds, CallFails, CallRefused,
         CallAgain, CallReturns, Answered, connVars, countVars
<1>2. pc[w] \in {"idle", "pop", "check", "dial", "push", "limit", "put", "got", "call", "after"}
  BY Zenon DEF Call, PopEmpty, PopWait, PopDial, DialFailed, PushIdle, PushMark, PushLimit, PushPut,
         CallN, NothingGot, FirstCall, CopyConn, CallSucceeds, CallFails, CallRefused,
         CallAgain, CallReturns
<1>3. PICK p : p \notin Counted /\ pc' = [pc EXCEPT ![w] = p]
  <2>1. CASE CallN(w)
    BY <2>1, Zenon DEF CallN, NothingGot, FirstCall, CopyConn, CallSucceeds, CallFails, CallRefused,
       CallAgain, CallReturns, Answered, Return, Goto, Counted
  <2>2. CASE PushPut(w) /\ UNCHANGED clientPool
    <3>1. Append(clientPool, arg[w]) # clientPool
      BY DEF TypeOK
    <3> QED BY <2>2, <3>1, Zenon DEF PushPut, Goto, Counted
  <2>3. CASE \/ Call(w) \/ PopEmpty(w) \/ PopWait(w) \/ PopDial(w) \/ DialFailed(w)
             \/ PushIdle(w) \/ PushMark(w) \/ PushLimit(w)
    BY <2>3, Zenon DEF Call, PopEmpty, PopWait, PopDial, DialFailed, PushIdle, PushMark, PushLimit,
       Pushed, Goto, Counted
  <2> QED BY <2>1, <2>2, <2>3, Zenon
<1>4. pc[w] \notin Counted
  BY <1>2, Zenon DEF Counted
<1> QED BY <1>1, <1>3, <1>4, NeutralCounts, ZenonT(30)

\* Pop moves a connection from the channel to a goroutine, and from one counter
\* to the other; a dead one leaves the counters together with its socket.
LEMMA PopCounts ==
  ASSUME TypeInv, Apart, Finite, Counts, NEW w \in Callers,
         PopTake(w) \/ PopUse(w) \/ PopDead(w)
  PROVE  Finite' /\ Counts'
<1>1. TypeOK /\ Len(clientPool) \in Nat /\ idleNum \in Int /\ activeNum \in Int
  BY DEF TypeInv, TypeOK
<1>2. /\ IsFiniteSet(open) /\ IsFiniteSet(At({"popped"})) /\ IsFiniteSet(At({"count"}))
      /\ IsFiniteSet(At({"close"}))
  BY Zenon DEF Finite
<1>3. CASE PopTake(w)
  <2>1. pc[w] = "pop" /\ pc' = [pc EXCEPT ![w] = "popped"]
    BY <1>3, Zenon DEF PopTake, Goto
  <2>2. Len(clientPool') = Len(clientPool) - 1 /\ UNCHANGED <<open, idleNum, activeNum>>
    BY <1>1, <1>3, TailType, Zenon DEF PopTake, connVars, countVars, TypeOK
  <2>3. /\ IsFiniteSet(At({"popped"})')
        /\ Cardinality(At({"popped"})') = Cardinality(At({"popped"})) + 1
    BY <1>1, <1>2, <2>1, Enters, Zenon
  <2>4. At({"count"})' = At({"count"}) /\ At({"close"})' = At({"close"})
    BY <1>1, <2>1, Elsewhere, Zenon
  <2>5. Finite'
    BY <1>2, <2>2, <2>3, <2>4, Zenon DEF Finite
  <2>7. idleNum' = Len(clientPool') + Cardinality(At({"popped"})') - Cardinality(At({"count"})')
    BY <1>1, <2>2, <2>3, <2>4, Shifts, Zenon
  <2>8. idleNum' + activeNum' + Cardinality(At({"close"})') = Cardinality(open')
    BY <1>1, <2>2, <2>3, <2>4, Zenon DEF Counts
  <2> QED BY <2>5, <2>7, <2>8, Zenon DEF Counts
<1>4. CASE PopUse(w)
  <2>1. pc[w] = "popped" /\ pc' = [pc EXCEPT ![w] = "got"]
    BY <1>4, Zenon DEF PopUse, Goto
  <2>2. UNCHANGED <<clientPool, open>> /\ idleNum' = idleNum - 1 /\ activeNum' = activeNum + 1
    BY <1>4, Zenon DEF PopUse
  <2>3. /\ IsFiniteSet(At({"popped"})')
        /\ Cardinality(At({"popped"})') = Cardinality(At({"popped"})) - 1
    BY <1>1, <1>2, <2>1, Leaves, Zenon
  <2>4. At({"count"})' = At({"count"}) /\ At({"close"})' = At({"close"})
    BY <1>1, <2>1, Elsewhere, Zenon
  <2>5. Finite'
    BY <1>2, <2>2, <2>3, <2>4, Zenon DEF Finite
  <2>7. idleNum' = Len(clientPool') + Cardinality(At({"popped"})') - Cardinality(At({"count"})')
    BY <1>1, <2>2, <2>3, <2>4, Shifts, Zenon
  <2>8. idleNum' + activeNum' + Cardinality(At({"close"})') = Cardinality(open')
    BY <1>1, <2>2, <2>3, <2>4, Shifts, Zenon
  <2> QED BY <2>5, <2>7, <2>8, Zenon DEF Counts
<1>5. CASE PopDead(w)
  <2>1. pc[w] = "popped" /\ pc' = [pc EXCEPT ![w] = "pop"]
    BY <1>5, Zenon DEF PopDead, Goto
  <2>2. /\ UNCHANGED <<clientPool, activeNum>> /\ idleNum' = idleNum - 1
        /\ open' = open \ {sock[got[w]]} /\ sock[got[w]] \in open
    BY <1>5, Zenon DEF PopDead, Apart, Sockets, LiveHere, Live
  <2>3. /\ IsFiniteSet(At({"popped"})')
        /\ Cardinality(At({"popped"})') = Cardinality(At({"popped"})) - 1
    BY <1>1, <1>2, <2>1, Leaves, Zenon
  <2>4. At({"count"})' = At({"count"}) /\ At({"close"})' = At({"close"})
    BY <1>1, <2>1, Elsewhere, Zenon
  <2>5. IsFiniteSet(open') /\ Cardinality(open') = Cardinality(open) - 1
    BY <1>2, <2>2, FS_RemoveElement, Zenon
  <2>6. Finite'
    BY <1>2, <2>3, <2>4, <2>5, ZenonT(30) DEF Finite
  <2>7. idleNum' = Len(clientPool') + Cardinality(At({"popped"})') - Cardinality(At({"count"})')
    BY <1>1, <2>2, <2>3, <2>4, Shifts, Zenon
  <2>8. idleNum' + activeNum' + Cardinality(At({"close"})') = Cardinality(open')
    BY <1>1, <2>2, <2>3, <2>4, <2>5, Shifts, Zenon
  <2> QED BY <2>6, <2>7, <2>8, Zenon DEF Counts
<1> QED BY <1>3, <1>4, <1>5, Zenon

\* A new connection is counted with its socket.
LEMMA DialedCounts ==
  ASSUME TypeInv, Finite, Counts, NEW w \in Callers, NEW s \in Conns, Dialed(w, s)
  PROVE  Finite' /\ Counts'
<1>1. TypeOK /\ Len(clientPool) \in Nat /\ idleNum \in Int /\ activeNum \in Int
  BY DEF TypeInv, TypeOK
<1>2. pc[w] = "dial" /\ pc' = [pc EXCEPT ![w] = "push"]
  BY Zenon DEF Dialed, Goto
<1>3. /\ UNCHANGED <<clientPool, idleNum>> /\ activeNum' = activeNum + 1
      /\ open' = open \cup {s} /\ s \notin open
  BY Zenon DEF Dialed, Free
<1>4. /\ At({"popped"})' = At({"popped"}) /\ At({"count"})' = At({"count"})
      /\ At({"close"})' = At({"close"})
  BY <1>1, <1>2, Elsewhere, Zenon
<1>5. IsFiniteSet(open') /\ Cardinality(open') = Cardinality(open) + 1
  BY <1>3, FS_AddElement, Zenon DEF Finite
<1>6. Finite'
  BY <1>4, <1>5, Zenon DEF Finite
<1>7. idleNum' = Len(clientPool') + Cardinality(At({"popped"})') - Cardinality(At({"count"})')
  BY <1>3, <1>4, Zenon DEF Counts
<1>8. idleNum' + activeNum' + Cardinality(At({"close"})') = Cardinality(open')
  BY <1>1, <1>3, <1>4, <1>5, Shifts, Zenon
<1> QED BY <1>6, <1>7, <1>8, Zenon DEF Counts

\* Push moves a connection to the channel and then to the other counter, or
\* takes it off the counter and then closes it.
LEMMA PushCounts ==
  ASSUME TypeInv, Apart, Finite, Counts, NEW w \in Callers,
         \/ PushPut(w) /\ clientPool' # clientPool
         \/ PushCount(w) \/ PushDiscard(w) \/ PushClose(w)
  PROVE  Finite' /\ Counts'
<1>1. TypeOK /\ Len(clientPool) \in Nat /\ idleNum \in Int /\ activeNum \in Int
  BY DEF TypeInv, TypeOK
<1>2. /\ IsFiniteSet(open) /\ IsFiniteSet(At({"popped"})) /\ IsFiniteSet(At({"count"}))
      /\ IsFiniteSet(At({"close"}))
  BY Zenon DEF Finite
<1>3. CASE PushPut(w) /\ clientPool' # clientPool
  <2>1. pc[w] = "put" /\ pc' = [pc EXCEPT ![w] = "count"]
    BY <1>3, Zenon DEF PushPut, Goto
  <2>2. Len(clientPool') = Len(clientPool) + 1 /\ UNCHANGED <<open, idleNum, activeNum>>
    BY <1>1, <1>3 DEF PushPut, connVars, countVars, TypeOK
  <2>3. /\ IsFiniteSet(At({"count"})')
        /\ Cardinality(At({"count"})') = Cardinality(At({"count"})) + 1
    BY <1>1, <1>2, <2>1, Enters, Zenon
  <2>4. At({"popped"})' = At({"popped"}) /\ At({"close"})' = At({"close"})
    BY <1>1, <2>1, Elsewhere, Zenon
  <2>5. Finite'
    BY <1>2, <2>2, <2>3, <2>4, Zenon DEF Finite
  <2>7. idleNum' = Len(clientPool') + Cardinality(At({"popped"})') - Cardinality(At({"count"})')
    BY <1>1, <2>2, <2>3, <2>4, Shifts, Zenon
  <2>8. idleNum' + activeNum' + Cardinality(At({"close"})') = Cardinality(open')
    BY <1>1, <2>2, <2>3, <2>4, Zenon DEF Counts
  <2> QED BY <2>5, <2>7, <2>8, Zenon DEF Counts
<1>4. CASE PushCount(w)
  <2>1. PICK p \in {"after", "pop"} : pc[w] = "count" /\ pc' = [pc EXCEPT ![w] = p]
    BY <1>4, Zenon DEF PushCount, Pushed, Goto
  <2>2. UNCHANGED <<clientPool, open>> /\ idleNum' = idleNum + 1 /\ activeNum' = activeNum - 1
    BY <1>4, Zenon DEF PushCount, connVars
  <2>3. /\ IsFiniteSet(At({"count"})')
        /\ Cardinality(At({"count"})') = Cardinality(At({"count"})) - 1
    BY <1>1, <1>2, <2>1, Leaves, Zenon
  <2>4. At({"popped"})' = At({"popped"}) /\ At({"close"})' = At({"close"})
    BY <1>1, <2>1, Elsewhere, Zenon
  <2>5. Finite'
    BY <1>2, <2>2, <2>3, <2>4, Zenon DEF Finite
  <2>7. idleNum' = Len(clientPool') + Cardinality(At({"popped"})') - Cardinality(At({"count"})')
    BY <1>1, <2>2, <2>3, <2>4, Shifts, Zenon
  <2>8. idleNum' + activeNum' + Cardinality(At({"close"})') = Cardinality(open')
    BY <1>1, <2>2, <2>3, <2>4, Shifts, Zenon
  <2> QED BY <2>5, <2>7, <2>8, Zenon DEF Counts
<1>5. CASE PushDiscard(w)
  <2>1. pc[w] = "discard" /\ pc' = [pc EXCEPT ![w] = "close"]
    BY <1>5, Zenon DEF PushDiscard, Goto
  <2>2. UNCHANGED <<clientPool, open, idleNum>> /\ activeNum' = activeNum - 1
    BY <1>5, Zenon DEF PushDiscard, connVars
  <2>3. /\ IsFiniteSet(At({"close"})')
        /\ Cardinality(At({"close"})') = Cardinality(At({"close"})) + 1
    BY <1>1, <1>2, <2>1, Enters, Zenon
  <2>4. At({"popped"})' = At({"popped"}) /\ At({"count"})' = At({"count"})
    BY <1>1, <2>1, Elsewhere, Zenon
  <2>5. Finite'
    BY <1>2, <2>2, <2>3, <2>4, Zenon DEF Finite
  <2>7. idleNum' = Len(clientPool') + Cardinality(At({"popped"})') - Cardinality(At({"count"})')
    BY <1>1, <2>2, <2>3, <2>4, Zenon DEF Counts
  <2>8. idleNum' + activeNum' + Cardinality(At({"close"})') = Cardinality(open')
    BY <1>1, <2>2, <2>3, <2>4, Shifts, Zenon
  <2> QED BY <2>5, <2>7, <2>8, Zenon DEF Counts
<1>6. CASE PushClose(w)
  <2>1. PICK p \in {"after", "pop"} : pc[w] = "close" /\ pc' = [pc EXCEPT ![w] = p]
    BY <1>6, Zenon DEF PushClose, Pushed, Goto
  <2>2. /\ UNCHANGED <<clientPool, idleNum, activeNum>>
        /\ open' = open \ {sock[arg[w]]} /\ sock[arg[w]] \in open
    BY <1>6, Zenon DEF PushClose, countVars, Apart, Sockets, LiveHere, Live
  <2>3. /\ IsFiniteSet(At({"close"})')
        /\ Cardinality(At({"close"})') = Cardinality(At({"close"})) - 1
    BY <1>1, <1>2, <2>1, Leaves, Zenon
  <2>4. At({"popped"})' = At({"popped"}) /\ At({"count"})' = At({"count"})
    BY <1>1, <2>1, Elsewhere, Zenon
  <2>5. IsFiniteSet(open') /\ Cardinality(open') = Cardinality(open) - 1
    BY <1>2, <2>2, FS_RemoveElement, ZenonT(30)
  <2>6. Finite'
    BY <1>2, <2>3, <2>4, <2>5, Zenon DEF Finite
  <2>7. idleNum' = Len(clientPool') + Cardinality(At({"popped"})') - Cardinality(At({"count"})')
    BY <1>1, <2>2, <2>3, <2>4, Zenon DEF Counts
  <2>8. idleNum' + activeNum' + Cardinality(At({"close"})') = Cardinality(open')
    BY <1>1, <2>2, <2>3, <2>4, <2>5, Shifts, Zenon
  <2> QED BY <2>6, <2>7, <2>8, Zenon DEF Counts
<1> QED BY <1>3, <1>4, <1>5, <1>6, Zenon

\* Every step that is no race keeps the counters exact.
LEMMA NextCounts ==
  ASSUME TypeInv, Apart, Finite, Counts, NEW w \in Callers,
         Call(w) \/ Pop(w) \/ Push(w) \/ CallN(w)
  PROVE  Finite' /\ Counts'
<1>1. TypeOK
  BY Zenon DEF TypeInv
<1>2. CASE Call(w) \/ Pop(w)
  BY <1>1, <1>2, QuietCounts, PopCounts, DialedCounts, Zenon DEF Pop
<1>3. CASE Push(w)
  BY <1>1, <1>3, QuietCounts, PushCounts, Zenon DEF Push
<1>4. CASE CallN(w)
  BY <1>1, <1>4, QuietCounts, Zenon
<1> QED BY <1>2, <1>3, <1>4, Zenon

-----------------------------------------------------------------------------
(* The inductive invariant, and what it gives.                             *)

\* An empty pool is in order.
LEMMA InitOrderly ==
  ASSUME Init
  PROVE  Orderly
<1>1. /\ clientPool = <<>> /\ open = {} /\ idleNum = 0 /\ activeNum = 0
      /\ \A w \in Callers :
           pc[w] = "idle" /\ c[w] = NoConn /\ got[w] = NoConn /\ arg[w] = NoConn
  BY Zenon DEF Init
<1>2. InPool = {} /\ IsInjective(clientPool)
  BY <1>1 DEF InPool, Range, IsInjective
<1>3. \A w \in Callers : Own(w) = {}
  BY <1>1, PoolAssumption, Zenon DEF Own
<1>4. Owned = {}
  BY <1>3, Zenon DEF Owned
<1>5. OneOwner /\ OneSocket
  BY <1>2, <1>3, <1>4, Zenon DEF OneOwner, OneSocket
<1>6. Sockets
  BY <1>1, <1>2, <1>3, Zenon DEF Sockets, LiveHere
<1>7. \A w \in Callers : GotApart(w) /\ FailedStaysOut(w)
  BY <1>1, PoolAssumption, Zenon DEF GotApart, FailedStaysOut, InPop, PushPcs
<1>8. At({"popped"}) = {} /\ At({"count"}) = {} /\ At({"close"}) = {}
  BY <1>1, Zenon DEF At
<1>9. Finite
  BY <1>1, <1>8, FS_EmptySet, ZenonT(30) DEF Finite
<1>10. Counts
  <2>1. Cardinality({}) = 0 /\ Len(clientPool) = 0
    BY <1>1, FS_EmptySet, Zenon
  <2>2. /\ Cardinality(At({"popped"})) = 0 /\ Cardinality(At({"count"})) = 0
        /\ Cardinality(At({"close"})) = 0 /\ Cardinality(open) = 0
    BY <1>1, <1>8, <2>1, Zenon
  <2> QED BY <1>1, <2>1, <2>2 DEF Counts
<1> QED BY <1>5, <1>6, <1>7, <1>9, <1>10, Zenon DEF Orderly, Apart

\* The inductive invariant holds in the initial states.
LEMMA InitPool ==
  ASSUME Init
  PROVE  PoolInv
BY InitType, InitOrderly, Zenon DEF PoolInv, TypeInv

\* A race is never forgotten.
LEMMA RaceStays ==
  ASSUME [Next]_vars, raced
  PROVE  raced'
<1>1. CASE UNCHANGED vars
  BY <1>1, Zenon DEF vars
<1>2. ASSUME NEW w \in Callers, Call(w) \/ Pop(w) \/ Push(w) \/ CallN(w)
      PROVE  raced'
  BY <1>2, Zenon DEF Call, Pop, PopTake, PopUse, PopDead, PopEmpty, PopWait, PopDial, DialFailed,
     Dialed, Push, PushIdle, PushMark, PushLimit, PushPut, PushCount, PushDiscard, PushClose,
     CallN, NothingGot, FirstCall, CopyConn, CallSucceeds, CallFails, CallRefused, CallAgain,
     CallReturns, Answered
<1> QED BY <1>1, <1>2, Zenon DEF Next

\* Every step keeps the inductive invariant.
LEMMA NextPool ==
  ASSUME PoolInv, [Next]_vars
  PROVE  PoolInv'
<1>1. TypeInv /\ TypeInv'
  BY NextType, Zenon DEF PoolInv, TypeInv
<1>2. ASSUME ~raced'
      PROVE  Orderly'
  <2>1. Orderly
    BY <1>2, RaceStays, Zenon DEF PoolInv
  <2>2. CASE UNCHANGED vars
    <3>1. UNCHANGED <<clientPool, idleNum, activeNum, sock, err, isIdle, open, pc, c, got, arg,
                      failed>>
      BY <2>2, Zenon DEF vars, countVars, connVars, callVars
    <3>2. /\ InPool' = InPool /\ Owned' = Owned
          /\ \A w \in Callers : Own(w)' = Own(w)
      BY <3>1, Zenon DEF InPool, Owned, Own, GaveBack
    <3>3. OneOwner' /\ OneSocket'
      BY <2>1, <3>1, <3>2, Zenon DEF Orderly, Apart, OneOwner, OneSocket
    <3>4. Sockets'
      BY <2>1, <3>1, <3>2, ZenonT(30) DEF Orderly, Apart, Sockets, LiveHere, Live
    <3>5. \A w \in Callers : GotApart(w)' /\ FailedStaysOut(w)'
      BY <2>1, <3>1, Zenon DEF Orderly, Apart, GotApart, FailedStaysOut, InPop
    <3>6. Finite' /\ Counts'
      BY <2>1, <3>1, Zenon DEF Orderly, Finite, Counts, At
    <3> QED BY <3>3, <3>4, <3>5, <3>6, Zenon DEF Orderly, Apart
  <2>3. CASE Next
    <3>1. PICK w \in Callers : Call(w) \/ Pop(w) \/ Push(w) \/ CallN(w)
      BY <2>3, Zenon DEF Next
    <3> QED BY <1>1, <1>2, <2>1, <3>1, NextApart, NextCounts, Zenon DEF Orderly
  <2> QED BY <2>2, <2>3, Zenon
<1> QED BY <1>1, <1>2, Zenon DEF PoolInv, TypeInv

\* The inductive invariant, with or without races (pool.go, conn.go:142-212).
THEOREM PoolInvariant == Spec => []PoolInv
BY InitPool, NextPool, PTL DEF Spec

\* As long as CallN has not acted on another goroutine's error, no two
\* goroutines use one socket and none uses one that is in the channel, for any
\* number of goroutines, connections, failures and limits (pool.go:97-211,
\* conn.go:155-172).
THEOREM ExclusiveHolds == Spec => []ExclusiveUnlessRaced
<1>1. ASSUME PoolInv
      PROVE  ExclusiveUnlessRaced
  <2>1. SUFFICES ASSUME ~raced
                 PROVE  /\ \A v, w \in Callers : v # w => Using(v) \cap Using(w) = {}
                        /\ \A w \in Callers, s \in Range(clientPool) : sock[s] \notin Using(w)
                        /\ IsInjective(clientPool)
    BY Zenon DEF ExclusiveUnlessRaced
  <2>2. Apart /\ TypeOK /\ LocalsFit
    BY <1>1, <2>1, Zenon DEF PoolInv, Orderly
  <2>3. ASSUME NEW w \in Callers, NEW x \in Using(w)
        PROVE  \E o \in Own(w) : x = sock[o]
    BY <2>2 DEF Using, Own, GaveBack, TypeOK, LocalsFit, PushPcs
  <2>4. \A w \in Callers : Own(w) \subseteq Owned
    BY Zenon DEF Own, Owned
  <2>5. ASSUME NEW v \in Callers, NEW w \in Callers, v # w
        PROVE  Using(v) \cap Using(w) = {}
    <3>1. SUFFICES ASSUME NEW x \in Using(v), x \in Using(w)
                   PROVE  FALSE
      OBVIOUS
    <3>2. PICK o \in Own(v) : x = sock[o]
      BY <2>3, Zenon
    <3>3. PICK p \in Own(w) : x = sock[p]
      BY <2>3, <3>1, Zenon
    <3>4. o = p
      BY <2>2, <2>4, <3>2, <3>3, Zenon DEF Apart, OneSocket
    <3> QED BY <2>2, <2>5, <3>4, Zenon DEF Apart, OneOwner
  <2>6. ASSUME NEW w \in Callers, NEW s \in InPool, sock[s] \in Using(w)
        PROVE  FALSE
    <3>1. PICK o \in Own(w) : sock[s] = sock[o]
      BY <2>3, <2>6, Zenon
    <3>2. o = s
      BY <2>2, <2>4, <3>1, Zenon DEF Apart, OneSocket
    <3> QED BY <2>2, <3>2, Zenon DEF Apart, OneOwner
  <2> QED BY <2>2, <2>5, <2>6, Zenon DEF Apart, OneOwner, InPool
<1> QED BY <1>1, PoolInvariant, PTL

\* Under the same condition the counters do not drift: IdleNum is the length of
\* the channel up to the goroutines between the channel and the counter, and
\* every open socket is counted until it is about to be closed
\* (pool.go:106-205).
THEOREM CountersExactHolds == Spec => []CountersExact
<1>1. PoolInv => CountersExact
  BY Zenon DEF PoolInv, Orderly, Counts, CountersExact
<1> QED BY <1>1, PoolInvariant, PTL

\* Pop never begins to dial while MaxConnNum sockets, not counting those about
\* to be closed, are open (pool.go:138-160).
THEOREM DialsBelowLimitHolds == Spec => DialsBelowLimit
<1>1. ASSUME PoolInv, Next
      PROVE  \A w \in Callers :
               pc[w] # "dial" /\ pc'[w] = "dial" /\ ~raced =>
                 Cardinality(open) < MaxConnNum + Cardinality(At({"close"}))
  <2>1. SUFFICES ASSUME NEW w \in Callers, pc[w] # "dial", pc'[w] = "dial", ~raced
                 PROVE  Cardinality(open) < MaxConnNum + Cardinality(At({"close"}))
    OBVIOUS
  <2>2. TypeOK /\ Finite /\ Counts
    BY <1>1, <2>1, Zenon DEF PoolInv, Orderly
  <2>3. PICK v \in Callers : Call(v) \/ Pop(v) \/ Push(v) \/ CallN(v)
    BY <1>1, Zenon DEF Next
  <2>4. v = w
    BY <2>1, <2>2, <2>3, StepsAlone, Zenon DEF Alone
  <2>5. PopDial(w)
    <3>1. CASE Push(w)
      BY <2>1, <2>2, <3>1 DEF Push, PushIdle, PushMark, PushLimit, PushPut, PushCount,
         PushDiscard, PushClose, Pushed, Goto, TypeOK
    <3>2. CASE CallN(w)
      BY <2>1, <2>2, <3>2 DEF CallN, NothingGot, FirstCall, CopyConn, CallSucceeds, CallFails,
         CallRefused, CallAgain, CallReturns, Answered, Return, Goto, TypeOK
    <3>3. CASE Call(w) \/ Pop(w)
      BY <2>1, <2>2, <3>3 DEF Call, Pop, PopTake, PopUse, PopDead, PopEmpty, PopWait,
         DialFailed, Dialed, Goto, TypeOK
    <3> QED BY <2>3, <2>4, <3>1, <3>2, <3>3, Zenon
  <2>6. idleNum + activeNum < MaxConnNum /\ idleNum \in Int /\ activeNum \in Int
    BY <2>2, <2>5, Zenon DEF PopDial, TypeOK
  <2>7. Cardinality(open) \in Nat /\ Cardinality(At({"close"})) \in Nat
    BY <2>2, Numbers, Zenon DEF Counted
  <2> QED BY <2>2, <2>6, <2>7, PoolAssumption DEF Counts
<1>2. PoolInv /\ [Next]_vars =>
        [\A w \in Callers :
           pc[w] # "dial" /\ pc'[w] = "dial" /\ ~raced =>
             Cardinality(open) < MaxConnNum + Cardinality(At({"close"}))]_vars
  BY <1>1, Zenon
<1> QED BY <1>2, PoolInvariant, PTL DEF Spec, DialsBelowLimit
=============================================================================
