--------------------------- MODULE WorkersProofs ----------------------------
(***************************************************************************)
(* Proofs about the workers and the process: the connection pool of the    *)
(* CGI worker, for every number of goroutines and connections and every    *)
(* limit, and the parts whose lives are the point, the HTTP worker, the    *)
(* shell worker and the process itself.                                    *)
(***************************************************************************)
EXTENDS CgiConnPool, HttpWorker, ShellWorker, Process, SequenceTheorems, FiniteSetTheorems,
        TLAPS

(* The connection pool of the CGI worker.                                  *)

Pcs == {"idle", "get", "drop", "new", "dial", "undo", "store", "send", "body",
        "failed", "close"}

-----------------------------------------------------------------------------
\* What sending a connection on the channel does to its contents ...
LEMMA AppendRange ==
  ASSUME NEW T, NEW s \in Seq(T), NEW x \in T
  PROVE  /\ Append(s, x) \in Seq(T)
         /\ Range(Append(s, x)) = Range(s) \cup {x}
         /\ IsInjective(s) /\ x \notin Range(s) => IsInjective(Append(s, x))
<1>1. /\ Append(s, x) \in Seq(T)
      /\ Len(Append(s, x)) = Len(s) + 1
      /\ \A i \in 1 .. Len(s) : Append(s, x)[i] = s[i]
      /\ Append(s, x)[Len(s) + 1] = x
  BY AppendProperties
<1>2. /\ DOMAIN s = 1 .. Len(s) /\ Len(s) \in Nat
      /\ DOMAIN Append(s, x) = 1 .. Len(s) + 1
  BY <1>1
<1>3. Range(Append(s, x)) = Range(s) \cup {x}
  BY <1>1, <1>2 DEF Range
<1>4. IsInjective(s) /\ x \notin Range(s) => IsInjective(Append(s, x))
  BY <1>1, <1>2 DEF Range, IsInjective
<1> QED BY <1>1, <1>3, <1>4, Zenon

\* ... what a receive does ...
LEMMA TailRange ==
  ASSUME NEW T, NEW s \in Seq(T), s # <<>>
  PROVE  /\ Head(s) \in Range(s) /\ Head(s) \in T
         /\ Tail(s) \in Seq(T)
         /\ Range(Tail(s)) \subseteq Range(s)
         /\ Range(s) = Range(Tail(s)) \cup {Head(s)}
         /\ IsInjective(s) => /\ IsInjective(Tail(s))
                              /\ Head(s) \notin Range(Tail(s))
<1>1. /\ Head(s) \in T /\ Tail(s) \in Seq(T)
      /\ Len(Tail(s)) = Len(s) - 1
      /\ \A i \in 1 .. Len(Tail(s)) : Tail(s)[i] = s[i + 1]
  BY HeadTailProperties, Zenon
<1>2. /\ DOMAIN s = 1 .. Len(s) /\ Len(s) \in Nat /\ Len(s) > 0
      /\ DOMAIN Tail(s) = 1 .. Len(s) - 1
      /\ Head(s) = s[1]
  BY <1>1, EmptySeq
<1>3. \A i \in 2 .. Len(s) : s[i] = Tail(s)[i - 1]
  BY <1>1, <1>2
<1>4. Range(s) = Range(Tail(s)) \cup {Head(s)}
  <2>1. Range(s) \subseteq Range(Tail(s)) \cup {Head(s)}
    <3> SUFFICES ASSUME NEW i \in 1 .. Len(s), s[i] # Head(s)
                 PROVE  s[i] \in Range(Tail(s))
      BY <1>2, Zenon DEF Range
    <3>1. i \in 2 .. Len(s) /\ i - 1 \in DOMAIN Tail(s)
      BY <1>2
    <3>2. s[i] = Tail(s)[i - 1]
      BY <1>3, <3>1, Zenon
    <3> QED BY <3>1, <3>2, Zenon DEF Range
  <2>2. Range(Tail(s)) \cup {Head(s)} \subseteq Range(s)
    BY <1>1, <1>2 DEF Range
  <2> QED BY <2>1, <2>2, Zenon
<1>5. IsInjective(s) => /\ IsInjective(Tail(s))
                        /\ Head(s) \notin Range(Tail(s))
  BY <1>1, <1>2 DEF Range, IsInjective
<1> QED BY <1>1, <1>4, <1>5, Zenon

\* ... and how many connections the channel holds.
LEMMA DistinctCount ==
  ASSUME NEW T, NEW s \in Seq(T), IsInjective(s)
  PROVE  IsFiniteSet(Range(s)) /\ Cardinality(Range(s)) = Len(s)
<1>1. s \in [1 .. Len(s) -> Range(s)] /\ Len(s) \in Nat
  BY DEF Range
<1>2. s \in Bijection(1 .. Len(s), Range(s))
  BY <1>1, Zenon DEF Bijection, Injection, Surjection, Range
<1>3. ExistsBijection(1 .. Len(s), Range(s))
  BY <1>2, Zenon DEF ExistsBijection
<1>4. IsFiniteSet(1 .. Len(s))
  BY <1>1, FS_Interval
<1> QED BY <1>1, <1>3, <1>4, FS_Bijection, FS_CountingElements, Zenon

-----------------------------------------------------------------------------
\* Types.

\* NewCgiConnPool and goroutines that have made no request.
LEMMA InitType == Init => TypeOK
<1> SUFFICES ASSUME Init PROVE TypeOK
  OBVIOUS
<1>1. PICK n \in 0 .. MaxConnNum : store \in [1 .. n -> Conns]
  BY Zenon DEF Init
<1>2. n \in Nat
  BY PoolAssumption
<1>3. store \in Seq(Conns) /\ Len(store) = n /\ Range(store) \subseteq Conns
  BY <1>1, <1>2, SeqDef, LenProperties DEF Range
<1> QED BY <1>2, <1>3, PoolAssumption DEF Init, TypeOK, Outcomes

\* The values the counter of repetitions may take.
LEMMA RepeatsRange ==
  /\ 0 \in 0 .. MaxRepeats /\ MaxRepeats \in 0 .. MaxRepeats
  /\ \A n \in 0 .. MaxRepeats : n < MaxRepeats => n + 1 \in 0 .. MaxRepeats
  BY PoolAssumption

\* The locals of a request when it returns or is repeated.
RequestType ==
  /\ newConn \in [Workers -> BOOLEAN]
  /\ repeats \in [Workers -> 0 .. MaxRepeats]
  /\ result \in [Workers -> Outcomes]
  /\ sends \in [Workers -> Nat]

\* A request that returns resets its locals.
LEMMA ReturnType ==
  ASSUME RequestType, NEW w \in Workers, Return(w)
  PROVE  RequestType'
  BY RepeatsRange, Zenon DEF RequestType, Return, Outcomes

\* A request that is repeated counts the repetition.
LEMMA AfterType ==
  ASSUME RequestType, NEW w \in Workers, After(w)
  PROVE  /\ RequestType'
         /\ Goto(w, "new") \/ Goto(w, "idle")
<1>1. CASE result[w] = "again" /\ repeats[w] < MaxRepeats
  BY <1>1, RepeatsRange, ZenonT(60) DEF RequestType, After
<1>2. CASE ~(result[w] = "again" /\ repeats[w] < MaxRepeats)
  BY <1>2, ReturnType, Zenon DEF After, Return
<1> QED BY <1>1, <1>2, Zenon

\* closeConn keeps the pool well typed.
LEMMA CloseConnType ==
  ASSUME TypeOK, NEW c \in Conns, CloseConn(c)
  PROVE  /\ connNum' \in Int /\ open' \subseteq Conns /\ used' \in [Conns -> Nat]
         /\ idle' \subseteq Conns /\ old' \subseteq Conns /\ unread' \subseteq Conns
  BY DEF TypeOK, CloseConn

\* put puts the connection into the channel or closes it.
LEMMA PutBackType ==
  ASSUME TypeOK, NEW c \in Conns, PutBack(c)
  PROVE  /\ store' \in Seq(Conns)
         /\ connNum' \in Int /\ open' \subseteq Conns /\ used' \in [Conns -> Nat]
         /\ idle' \subseteq Conns /\ old' \subseteq Conns /\ unread' \subseteq Conns
<1>1. CASE Len(store) < MaxConnNum
  <2>1. Append(store, c) \in Seq(Conns)
    BY AppendRange, Zenon DEF TypeOK
  <2> QED BY <1>1, <2>1, Zenon DEF TypeOK, PutBack, connVars
<1>2. CASE ~(Len(store) < MaxConnNum)
  BY <1>2, CloseConnType, Zenon DEF TypeOK, PutBack
<1> QED BY <1>1, <1>2, Zenon

\* Every step keeps every variable well typed, and gives a goroutine a
\* connection exactly where the code has one.
LEMMA NextType == TypeOK /\ [Next]_vars => TypeOK'
<1> SUFFICES ASSUME TypeOK, [Next]_vars PROVE TypeOK'
  OBVIOUS
<1> USE PoolAssumption DEF Goto, Hold, Outcomes, poolVars, connVars, requestVars
<1>0. RequestType
  BY Zenon DEF TypeOK, RequestType
<1>1. ASSUME NEW w \in Workers, Request(w) \/ SendStatus(w) PROVE TypeOK'
  <2>1. PICK first \in 0 .. MaxRepeats : Start(w, first)
    BY <1>1, RepeatsRange, Zenon DEF Request, SendStatus
  <2>2. /\ pc[w] = "idle" /\ pc' = [pc EXCEPT ![w] = "get"]
        /\ repeats' = [repeats EXCEPT ![w] = first]
        /\ UNCHANGED <<store, connNum, open, used, idle, old, unread, conn, newConn,
                       result, sends>>
    BY <2>1, Zenon DEF Start
  <2>3. repeats' \in [Workers -> 0 .. MaxRepeats]
    BY <2>2, Zenon DEF TypeOK
  <2> QED BY <2>2, <2>3, Zenon DEF TypeOK
<1>2. ASSUME NEW w \in Workers, TakeConn(w) PROVE TypeOK'
  <2>1. store \in Seq(Conns) /\ store # <<>> /\ store' = Tail(store)
    BY <1>2, Zenon DEF TypeOK, TakeConn
  <2>2. Head(store) \in Conns /\ store' \in Seq(Conns)
    BY <2>1, TailRange, Zenon
  <2> QED BY <1>2, <2>2, Zenon DEF TypeOK, TakeConn
<1>3. ASSUME NEW w \in Workers, DropConn(w) PROVE TypeOK'
  <2>1. conn[w] \in Conns
    BY <1>3, Zenon DEF TypeOK, DropConn
  <2> QED BY <1>3, <2>1, CloseConnType, Zenon DEF TypeOK, DropConn
<1>4. ASSUME NEW w \in Workers, PoolEmpty(w) \/ DialFailed(w) PROVE TypeOK'
  BY <1>4, ZenonT(30) DEF TypeOK, PoolEmpty, DialFailed
<1>5. ASSUME NEW w \in Workers, NewConnReal(w) PROVE TypeOK'
  BY <1>5 DEF TypeOK, NewConnReal
<1>6. ASSUME NEW w \in Workers, NEW c \in Conns, Dialed(w, c) PROVE TypeOK'
  BY <1>6, Zenon DEF TypeOK, Dialed
<1>7. ASSUME NEW w \in Workers, Undo(w) PROVE TypeOK'
  <2>1. RequestType' /\ (Goto(w, "get") \/ Goto(w, "idle"))
    BY <1>0, <1>7, ReturnType, Zenon DEF Undo, Return, RequestType
  <2>2. /\ pc[w] = "undo" /\ connNum' = connNum - 1
        /\ UNCHANGED <<store, open, used, idle, old, unread, conn>>
    BY <1>7, Zenon DEF Undo
  <2>3. /\ pc' \in [Workers -> Pcs]
        /\ \A v \in Workers :
             conn'[v] # NoConn <=>
               pc'[v] \in {"drop", "store", "send", "body", "failed", "close"}
    BY <2>1, <2>2, Zenon DEF TypeOK, Pcs
  <2> QED BY <2>1, <2>2, <2>3 DEF TypeOK, RequestType, Pcs
<1>8. ASSUME NEW w \in Workers, StoreConn(w) PROVE TypeOK'
  <2>1. conn[w] \in Conns /\ store' = Append(store, conn[w])
    BY <1>8, Zenon DEF TypeOK, StoreConn
  <2>2. store' \in Seq(Conns)
    BY <2>1, AppendRange, Zenon DEF TypeOK
  <2> QED BY <1>8, <2>2, Zenon DEF TypeOK, StoreConn
<1>9. ASSUME NEW w \in Workers, NEW r \in Outcomes, SendConn(w, r) PROVE TypeOK'
  BY <1>9 DEF TypeOK, SendConn
<1>10. ASSUME NEW w \in Workers, NEW r \in Outcomes, ReadBody(w, r) PROVE TypeOK'
  BY <1>10, Zenon DEF TypeOK, ReadBody, EndRequest
<1>11. ASSUME NEW w \in Workers, CloseFailed(w) PROVE TypeOK'
  <2>1. conn[w] \in Conns
    BY <1>11, Zenon DEF TypeOK, CloseFailed
  <2>2. RequestType' /\ (Goto(w, "new") \/ Goto(w, "idle"))
    BY <1>0, <1>11, AfterType, Zenon DEF CloseFailed
  <2>3. CloseConn(conn[w]) /\ Hold(w, NoConn) /\ store' = store
    BY <1>11, Zenon DEF CloseFailed
  <2> QED BY <2>1, <2>2, <2>3, CloseConnType, ZenonT(30) DEF TypeOK, RequestType
<1>12. ASSUME NEW w \in Workers, CloseUsed(w) PROVE TypeOK'
  <2>1. conn[w] \in Conns
    BY <1>12, Zenon DEF TypeOK, CloseUsed
  <2>2. RequestType' /\ (Goto(w, "new") \/ Goto(w, "idle"))
    BY <1>0, <1>12, AfterType, Zenon DEF CloseUsed
  <2>3. Hold(w, NoConn)
    BY <1>12, Zenon DEF CloseUsed
  <2>4. /\ store' \in Seq(Conns)
        /\ connNum' \in Int /\ open' \subseteq Conns /\ used' \in [Conns -> Nat]
        /\ idle' \subseteq Conns /\ old' \subseteq Conns /\ unread' \subseteq Conns
    <3>1. CASE Reusable(conn[w])
      BY <1>12, <2>1, <3>1, PutBackType, Zenon DEF CloseUsed
    <3>2. CASE ~Reusable(conn[w])
      BY <1>12, <2>1, <3>2, CloseConnType, Zenon DEF CloseUsed, TypeOK
    <3> QED BY <3>1, <3>2, Zenon
  <2> QED BY <2>1, <2>2, <2>3, <2>4, ZenonT(60) DEF TypeOK, RequestType
<1>13. ASSUME NEW c \in Conns, Age(c) PROVE TypeOK'
  BY <1>13, Zenon DEF TypeOK, Age
<1>14. CASE UNCHANGED vars
  BY <1>14, Zenon DEF TypeOK, vars
<1> QED BY <1>1, <1>2, <1>3, <1>4, <1>5, <1>6, <1>7, <1>8, <1>9, <1>10, <1>11,
           <1>12, <1>13, <1>14, ZenonT(30) DEF Next, Step

-----------------------------------------------------------------------------
\* Owners.  A name is in the channel, with one goroutine, or free.

\* The connections goroutines have, when one of them gets or gives up one.
LEMMA TakenStep ==
  ASSUME TypeOK, NEW w \in Workers, NEW c \in Conns \cup {NoConn}, Hold(w, c),
         \A v, u \in Workers : conn[v] = conn[u] => v = u \/ conn[v] = NoConn
  PROVE  /\ conn[w] # NoConn => Taken \ {conn[w]} = {conn[v] : v \in Workers \ {w}} \ {NoConn}
         /\ conn[w] = NoConn => Taken = {conn[v] : v \in Workers \ {w}} \ {NoConn}
         /\ Taken' = ({conn[v] : v \in Workers \ {w}} \cup {c}) \ {NoConn}
<1>1. \A v \in Workers : conn'[v] = IF v = w THEN c ELSE conn[v]
  BY Zenon DEF TypeOK, Hold
<1>2. Taken' = ({conn[v] : v \in Workers \ {w}} \cup {c}) \ {NoConn}
  BY <1>1, Zenon DEF Taken
<1> QED BY <1>2, Zenon DEF Taken

\* A goroutine gets a connection no other one has.
LEMMA HoldDistinct ==
  ASSUME TypeOK, NEW w \in Workers, NEW c \in Conns \cup {NoConn}, Hold(w, c),
         \A v, u \in Workers : conn[v] = conn[u] => v = u \/ conn[v] = NoConn,
         c \notin Taken
  PROVE  \A v, u \in Workers : conn'[v] = conn'[u] => v = u \/ conn'[v] = NoConn
  BY Zenon DEF TypeOK, Hold, Taken

\* closeConn of the connection a goroutine has.
LEMMA CloseOwner ==
  ASSUME TypeOK, OneOwner, NEW w \in Workers, conn[w] # NoConn,
         Hold(w, NoConn), CloseConn(conn[w]), store' = store
  PROVE  OneOwner'
<1>1. conn[w] \in Conns /\ conn[w] \notin Range(store) /\ open' = open \ {conn[w]}
  BY Zenon DEF TypeOK, OneOwner, CloseConn
<1>2. Taken' = Taken \ {conn[w]}
  BY TakenStep, Zenon DEF OneOwner
<1>3. NoConn \notin Taken
  BY Zenon DEF Taken
<1>4. \A v, u \in Workers : conn'[v] = conn'[u] => v = u \/ conn'[v] = NoConn
  BY <1>3, HoldDistinct, Zenon DEF OneOwner
<1>5. Range(store)' = Range(store) /\ NoConn \notin Range(store)
  BY PoolAssumption DEF TypeOK, Range
<1>6. \A v \in Workers : conn'[v] \notin Range(store)'
  BY <1>5, Zenon DEF TypeOK, OneOwner, Hold
<1> QED BY <1>1, <1>2, <1>4, <1>5, <1>6, Zenon DEF OneOwner

\* A goroutine puts its connection into the channel.
LEMMA PutOwner ==
  ASSUME TypeOK, OneOwner, NEW w \in Workers, conn[w] # NoConn,
         Hold(w, NoConn), store' = Append(store, conn[w]), open' = open
  PROVE  OneOwner'
<1>1. conn[w] \in Conns /\ conn[w] \notin Range(store) /\ conn[w] \in Taken
  BY Zenon DEF TypeOK, OneOwner, Taken
<1>2. Taken' = Taken \ {conn[w]}
  BY TakenStep, Zenon DEF OneOwner
<1>3. NoConn \notin Taken
  BY Zenon DEF Taken
<1>4. \A v, u \in Workers : conn'[v] = conn'[u] => v = u \/ conn'[v] = NoConn
  BY <1>3, HoldDistinct, Zenon DEF OneOwner
<1>5. Range(store)' = Range(store) \cup {conn[w]} /\ IsInjective(store)'
  BY <1>1, AppendRange DEF TypeOK, OneOwner
<1>6. NoConn \notin Range(store)
  BY PoolAssumption DEF TypeOK, Range
<1>7. \A v \in Workers : conn'[v] \notin Range(store)'
  BY <1>1, <1>5, <1>6, Zenon DEF TypeOK, OneOwner, Hold
<1> QED BY <1>1, <1>2, <1>4, <1>5, <1>7, Zenon DEF OneOwner

\* A connection is taken out of the channel, closed, put back or dialled by one
\* goroutine; no other step touches one.
LEMMA NextOwner == TypeOK /\ OneOwner /\ [Next]_vars => OneOwner'
<1> SUFFICES ASSUME TypeOK, OneOwner, [Next]_vars PROVE OneOwner'
  OBVIOUS
<1> USE PoolAssumption DEF poolVars, connVars, requestVars
<1>0. UNCHANGED <<store, open, conn>> => OneOwner'
  BY Zenon DEF OneOwner, Taken
<1>1. ASSUME NEW w \in Workers, Request(w) \/ SendStatus(w) PROVE OneOwner'
  BY <1>0, <1>1, Zenon DEF Request, SendStatus, Start
<1>2. ASSUME NEW w \in Workers, TakeConn(w) PROVE OneOwner'
  <2>1. /\ store \in Seq(Conns) /\ store # <<>> /\ store' = Tail(store)
        /\ Hold(w, Head(store)) /\ open' = open /\ conn[w] = NoConn
    BY <1>2, Zenon DEF TypeOK, TakeConn
  <2>2. /\ Head(store) \in Conns /\ Head(store) \in Range(store)
        /\ Range(store) = Range(store)' \cup {Head(store)}
        /\ IsInjective(store)' /\ Head(store) \notin Range(store)'
    BY <2>1, TailRange, Zenon DEF OneOwner
  <2>3. Head(store) \notin Taken
    BY <2>2, Zenon DEF OneOwner, Taken
  <2>4. Taken' = Taken \cup {Head(store)}
    BY <2>1, <2>2, TakenStep DEF OneOwner
  <2>5. \A v, u \in Workers : conn'[v] = conn'[u] => v = u \/ conn'[v] = NoConn
    BY <2>1, <2>2, <2>3, HoldDistinct, Zenon DEF OneOwner
  <2>6. \A v \in Workers : conn'[v] \notin Range(store)'
    BY <2>1, <2>2, Zenon DEF TypeOK, OneOwner, Hold
  <2> QED BY <2>1, <2>2, <2>4, <2>5, <2>6, Zenon DEF OneOwner
<1>3. ASSUME NEW w \in Workers, DropConn(w) PROVE OneOwner'
  BY <1>3, CloseOwner, Zenon DEF DropConn, TypeOK
<1>4. ASSUME NEW w \in Workers, PoolEmpty(w) \/ DialFailed(w) PROVE OneOwner'
  BY <1>0, <1>4, Zenon DEF PoolEmpty, DialFailed
<1>5. ASSUME NEW w \in Workers, NewConnReal(w) PROVE OneOwner'
  BY <1>0, <1>5, Zenon DEF NewConnReal
<1>6. ASSUME NEW w \in Workers, NEW c \in Conns, Dialed(w, c) PROVE OneOwner'
  <2>1. /\ c \notin open /\ open' = open \cup {c} /\ store' = store
        /\ Hold(w, c) /\ conn[w] = NoConn
    BY <1>6, Zenon DEF TypeOK, Dialed
  <2>2. c \notin Taken /\ c \notin Range(store)
    BY <2>1, Zenon DEF OneOwner
  <2>3. Taken' = Taken \cup {c}
    BY <2>1, TakenStep DEF OneOwner
  <2>4. \A v, u \in Workers : conn'[v] = conn'[u] => v = u \/ conn'[v] = NoConn
    BY <2>1, <2>2, HoldDistinct, Zenon DEF OneOwner
  <2>5. \A v \in Workers : conn'[v] \notin Range(store)'
    BY <2>1, <2>2, Zenon DEF TypeOK, OneOwner, Hold
  <2> QED BY <2>1, <2>3, <2>4, <2>5, Zenon DEF OneOwner
<1>7. ASSUME NEW w \in Workers, Undo(w) PROVE OneOwner'
  BY <1>0, <1>7, Zenon DEF Undo
<1>8. ASSUME NEW w \in Workers, StoreConn(w) PROVE OneOwner'
  BY <1>8, PutOwner, Zenon DEF StoreConn, TypeOK
<1>9. ASSUME NEW w \in Workers, NEW r \in Outcomes, SendConn(w, r) PROVE OneOwner'
  BY <1>0, <1>9, Zenon DEF SendConn
<1>10. ASSUME NEW w \in Workers, NEW r \in Outcomes, ReadBody(w, r) PROVE OneOwner'
  BY <1>0, <1>10, Zenon DEF ReadBody
<1>11. ASSUME NEW w \in Workers, CloseFailed(w) PROVE OneOwner'
  BY <1>11, CloseOwner, Zenon DEF CloseFailed, TypeOK
<1>12. ASSUME NEW w \in Workers, CloseUsed(w) PROVE OneOwner'
  <2>1. conn[w] # NoConn /\ Hold(w, NoConn)
    BY <1>12, Zenon DEF CloseUsed, TypeOK
  <2>2. \/ store' = Append(store, conn[w]) /\ open' = open
        \/ store' = store /\ CloseConn(conn[w])
    BY <1>12, Zenon DEF CloseUsed, PutBack
  <2> QED BY <2>1, <2>2, CloseOwner, PutOwner, Zenon
<1>13. ASSUME NEW c \in Conns, Age(c) PROVE OneOwner'
  BY <1>0, <1>13, Zenon DEF Age
<1>14. CASE UNCHANGED vars
  BY <1>0, <1>14, Zenon DEF vars
<1> QED BY <1>1, <1>2, <1>3, <1>4, <1>5, <1>6, <1>7, <1>8, <1>9, <1>10, <1>11,
           <1>12, <1>13, <1>14, ZenonT(30) DEF Next, Step

-----------------------------------------------------------------------------
\* The counter.

\* How many goroutines are at a place when one of them moves from o to p.
LEMMA AtStep ==
  ASSUME TypeOK, NEW w \in Workers, NEW o, pc[w] = o, NEW p, Goto(w, p), NEW q
  PROVE  /\ Cardinality(At(q)) \in Nat
         /\ q # o /\ q # p => Cardinality(At(q))' = Cardinality(At(q))
         /\ q = o /\ q # p => Cardinality(At(q))' = Cardinality(At(q)) - 1
         /\ q # o /\ q = p => Cardinality(At(q))' = Cardinality(At(q)) + 1
<1>1. IsFiniteSet(At(q))
  BY PoolAssumption, FS_Subset, Zenon DEF At
<1>2. q # o /\ q # p => At(q)' = At(q)
  BY Zenon DEF TypeOK, At, Goto
<1>3. q = o /\ q # p => w \in At(q) /\ At(q)' = At(q) \ {w}
  BY Zenon DEF TypeOK, At, Goto
<1>4. q # o /\ q = p => w \notin At(q) /\ At(q)' = At(q) \cup {w}
  BY Zenon DEF TypeOK, At, Goto
<1>5. Cardinality(At(q)) \in Nat
  BY <1>1, FS_CardinalityType, Zenon
<1>6. q = o /\ q # p => Cardinality(At(q))' = Cardinality(At(q)) - 1
  BY <1>1, <1>3, FS_RemoveElement, Zenon
<1>7. q # o /\ q = p => Cardinality(At(q))' = Cardinality(At(q)) + 1
  BY <1>1, <1>4, FS_AddElement, Zenon
<1> QED BY <1>2, <1>5, <1>6, <1>7, Zenon

\* How many connections are open when one is dialled or closed.
LEMMA OpenStep ==
  ASSUME TypeOK, NEW c
  PROVE  /\ IsFiniteSet(open) /\ Cardinality(open) \in Nat
         /\ c \notin open => Cardinality(open \cup {c}) = Cardinality(open) + 1
         /\ c \in open => Cardinality(open \ {c}) = Cardinality(open) - 1
<1>1. IsFiniteSet(open)
  BY PoolAssumption, FS_Subset, Zenon DEF TypeOK
<1> QED BY <1>1, FS_CardinalityType, FS_AddElement, FS_RemoveElement, Zenon

\* The two facts about connNum are inductive together: that an attempt counted
\* itself makes the check of the limit sound.
Counter == CounterExact /\ ConnsBounded

\* A goroutine that neither counts nor dials moves.
LEMMA MoveCounter ==
  ASSUME TypeOK, Counter, NEW w \in Workers, NEW o, pc[w] = o, NEW p, Goto(w, p),
         o \notin {"dial", "undo"}, p \notin {"dial", "undo"},
         UNCHANGED <<connNum, open>>
  PROVE  Counter'
<1>1. /\ Cardinality(At("dial"))' = Cardinality(At("dial"))
      /\ Cardinality(At("undo"))' = Cardinality(At("undo"))
  BY AtStep
<1> QED BY <1>1, Zenon DEF Counter, CounterExact, ConnsBounded

\* closeConn takes the connection off the counter.
LEMMA CloseCounter ==
  ASSUME TypeOK, OneOwner, Counter, NEW w \in Workers, conn[w] # NoConn,
         NEW o, pc[w] = o, NEW p, Goto(w, p),
         o \notin {"dial", "undo"}, p \notin {"dial", "undo"},
         CloseConn(conn[w])
  PROVE  Counter'
<1>1. /\ Cardinality(At("dial"))' = Cardinality(At("dial"))
      /\ Cardinality(At("undo"))' = Cardinality(At("undo"))
      /\ Cardinality(At("dial")) \in Nat /\ Cardinality(At("undo")) \in Nat
  BY AtStep
<1>2. conn[w] \in open
  BY Zenon DEF OneOwner, Taken
<1>3. Cardinality(open') = Cardinality(open) - 1 /\ Cardinality(open) \in Nat
  BY <1>2, OpenStep, Zenon DEF CloseConn
<1>4. connNum' = connNum - 1
  BY Zenon DEF CloseConn
<1> QED BY <1>1, <1>3, <1>4, PoolAssumption DEF Counter, CounterExact, ConnsBounded

\* Each atomic addition to connNum goes with the dial, the close or the failure
\* it stands for.
LEMMA NextCounter == TypeOK /\ OneOwner /\ Counter /\ [Next]_vars => Counter'
<1> SUFFICES ASSUME TypeOK, OneOwner, Counter, [Next]_vars PROVE Counter'
  OBVIOUS
<1> USE DEF poolVars, connVars, requestVars
<1>0. UNCHANGED <<connNum, open, pc>> => Counter'
  BY Zenon DEF Counter, CounterExact, ConnsBounded, At
<1>1. ASSUME NEW w \in Workers, Request(w) \/ SendStatus(w) PROVE Counter'
  BY <1>1, MoveCounter, Zenon DEF Request, SendStatus, Start
<1>2. ASSUME NEW w \in Workers, TakeConn(w) PROVE Counter'
  <2>1. Goto(w, "drop") \/ Goto(w, "send")
    BY <1>2, Zenon DEF TakeConn
  <2> QED BY <1>2, <2>1, MoveCounter, Zenon DEF TakeConn
<1>3. ASSUME NEW w \in Workers, DropConn(w) PROVE Counter'
  <2>1. conn[w] # NoConn
    BY <1>3, Zenon DEF DropConn, TypeOK
  <2> QED BY <1>3, <2>1, CloseCounter, Zenon DEF DropConn
<1>4. ASSUME NEW w \in Workers, PoolEmpty(w) PROVE Counter'
  BY <1>4, MoveCounter, Zenon DEF PoolEmpty
<1>5. ASSUME NEW w \in Workers, NewConnReal(w) PROVE Counter'
  <2>1. /\ Cardinality(At("dial")) \in Nat /\ Cardinality(At("undo")) \in Nat
        /\ Cardinality(open) \in Nat
    BY <1>5, AtStep, OpenStep, Zenon DEF NewConnReal
  <2>2. CASE connNum + 1 > MaxConnNum
    <3>1. Goto(w, "undo")
      BY <1>5, <2>2, Zenon DEF NewConnReal
    <3>2. /\ Cardinality(At("dial"))' = Cardinality(At("dial"))
          /\ Cardinality(At("undo"))' = Cardinality(At("undo")) + 1
      BY <1>5, <3>1, AtStep DEF NewConnReal
    <3> QED BY <1>5, <2>1, <3>2 DEF NewConnReal, Counter, CounterExact, ConnsBounded
  <2>3. CASE ~(connNum + 1 > MaxConnNum)
    <3>1. Goto(w, "dial")
      BY <1>5, <2>3, Zenon DEF NewConnReal
    <3>2. /\ Cardinality(At("dial"))' = Cardinality(At("dial")) + 1
          /\ Cardinality(At("undo"))' = Cardinality(At("undo"))
      BY <1>5, <3>1, AtStep DEF NewConnReal
    <3> QED BY <1>5, <2>1, <2>3, <3>2, PoolAssumption
            DEF NewConnReal, Counter, CounterExact, ConnsBounded
  <2> QED BY <2>2, <2>3, Zenon
<1>6. ASSUME NEW w \in Workers, NEW c \in Conns, Dialed(w, c) PROVE Counter'
  <2>1. /\ Goto(w, "send") \/ Goto(w, "store")
        /\ pc[w] = "dial" /\ connNum' = connNum
    BY <1>6, Zenon DEF Dialed
  <2>2. /\ Cardinality(At("dial"))' = Cardinality(At("dial")) - 1
        /\ Cardinality(At("undo"))' = Cardinality(At("undo"))
        /\ Cardinality(At("dial")) \in Nat /\ Cardinality(At("undo")) \in Nat
    BY <2>1, AtStep
  <2>3. Cardinality(open') = Cardinality(open) + 1 /\ Cardinality(open) \in Nat
    BY <1>6, OpenStep, Zenon DEF Dialed
  <2> QED BY <2>1, <2>2, <2>3 DEF Counter, CounterExact, ConnsBounded
<1>7. ASSUME NEW w \in Workers, DialFailed(w) PROVE Counter'
  <2>1. /\ Cardinality(At("dial"))' = Cardinality(At("dial")) - 1
        /\ Cardinality(At("undo"))' = Cardinality(At("undo")) + 1
        /\ Cardinality(At("dial")) \in Nat /\ Cardinality(At("undo")) \in Nat
    BY <1>7, AtStep DEF DialFailed
  <2>2. Cardinality(open) \in Nat
    BY OpenStep, Zenon
  <2> QED BY <1>7, <2>1, <2>2, PoolAssumption
          DEF DialFailed, Counter, CounterExact, ConnsBounded
<1>8. ASSUME NEW w \in Workers, Undo(w) PROVE Counter'
  <2>1. /\ Goto(w, "get") \/ Goto(w, "idle")
        /\ pc[w] = "undo" /\ connNum' = connNum - 1 /\ open' = open
    BY <1>8, Zenon DEF Undo, Return
  <2>2. /\ Cardinality(At("dial"))' = Cardinality(At("dial"))
        /\ Cardinality(At("undo"))' = Cardinality(At("undo")) - 1
        /\ Cardinality(At("dial")) \in Nat /\ Cardinality(At("undo")) \in Nat
    BY <2>1, AtStep
  <2>3. Cardinality(open) \in Nat
    BY OpenStep, Zenon
  <2> QED BY <2>1, <2>2, <2>3 DEF Counter, CounterExact, ConnsBounded
<1>9. ASSUME NEW w \in Workers, StoreConn(w) PROVE Counter'
  BY <1>9, MoveCounter, Zenon DEF StoreConn
<1>10. ASSUME NEW w \in Workers, NEW r \in Outcomes, SendConn(w, r) PROVE Counter'
  <2>1. Goto(w, "body") \/ Goto(w, "failed")
    BY <1>10, Zenon DEF SendConn
  <2> QED BY <1>10, <2>1, MoveCounter, Zenon DEF SendConn
<1>11. ASSUME NEW w \in Workers, NEW r \in Outcomes, ReadBody(w, r) PROVE Counter'
  BY <1>11, MoveCounter, Zenon DEF ReadBody
<1>12. ASSUME NEW w \in Workers, CloseFailed(w) PROVE Counter'
  <2>1. conn[w] # NoConn
    BY <1>12, Zenon DEF CloseFailed, TypeOK
  <2>2. Goto(w, "new") \/ Goto(w, "idle")
    BY <1>12, Zenon DEF CloseFailed, After, Return
  <2> QED BY <1>12, <2>1, <2>2, CloseCounter, Zenon DEF CloseFailed
<1>13. ASSUME NEW w \in Workers, CloseUsed(w) PROVE Counter'
  <2>1. conn[w] # NoConn
    BY <1>13, Zenon DEF CloseUsed, TypeOK
  <2>2. Goto(w, "new") \/ Goto(w, "idle")
    BY <1>13, Zenon DEF CloseUsed, After, Return
  <2>3. UNCHANGED <<connNum, open>> \/ CloseConn(conn[w])
    BY <1>13, Zenon DEF CloseUsed, PutBack
  <2> QED BY <1>13, <2>1, <2>2, <2>3, CloseCounter, MoveCounter, Zenon DEF CloseUsed
<1>14. ASSUME NEW c \in Conns, Age(c) PROVE Counter'
  BY <1>0, <1>14, Zenon DEF Age
<1>15. CASE UNCHANGED vars
  BY <1>0, <1>15, Zenon DEF vars
<1> QED BY <1>1, <1>2, <1>3, <1>4, <1>5, <1>6, <1>7, <1>8, <1>9, <1>10, <1>11,
           <1>12, <1>13, <1>14, <1>15 DEF Next, Step

-----------------------------------------------------------------------------
\* The pool's invariant: who has which connection, and what the counter says.
PoolInv == TypeOK /\ OneOwner /\ Counter

\* The initial connections are in the channel and counted.
LEMMA InitPool == Init => PoolInv
<1> SUFFICES ASSUME Init PROVE PoolInv
  OBVIOUS
<1>1. TypeOK
  BY InitType, Zenon
<1>2. IsInjective(store) /\ open = Range(store) /\ Taken = {}
  BY Zenon DEF Init, Taken
<1>3. OneOwner
  <2>1. NoConn \notin Range(store)
    BY <1>1, PoolAssumption DEF TypeOK, Range
  <2> QED BY <1>2, <2>1, Zenon DEF Init, OneOwner
<1>4. Cardinality(open) = Len(store) /\ Len(store) <= MaxConnNum /\ Len(store) \in Nat
  <2>1. Cardinality(open) = Len(store)
    BY <1>1, <1>2, DistinctCount, Zenon DEF TypeOK
  <2>2. PICK n \in 0 .. MaxConnNum : store \in [1 .. n -> Conns]
    BY Zenon DEF Init
  <2>3. Len(store) = n
    BY <2>2, <1>1, PoolAssumption, LenProperties DEF TypeOK
  <2> QED BY <2>1, <2>2, <2>3, PoolAssumption
<1>5. At("dial") = {} /\ At("undo") = {}
  BY Zenon DEF Init, At
<1>6. Cardinality(At("dial")) = 0 /\ Cardinality(At("undo")) = 0
  BY <1>5, FS_EmptySet, Zenon
<1>7. Counter
  BY <1>4, <1>6 DEF Init, Counter, CounterExact, ConnsBounded
<1> QED BY <1>1, <1>3, <1>7, Zenon DEF PoolInv

\* Every step keeps it.
LEMMA NextPool == PoolInv /\ [Next]_vars => PoolInv'
  BY NextType, NextOwner, NextCounter, Zenon DEF PoolInv

\* The pool's invariant holds whatever goroutines race for connections.
THEOREM PoolInvHolds == Spec => []PoolInv
  BY InitPool, NextPool, PTL DEF Spec

\* Every variable of the pool and of the requests keeps its type, and a
\* goroutine has a connection exactly where the code uses one.
THEOREM PoolTypeCorrect == Spec => []TypeOK
<1>1. PoolInv => TypeOK
  BY Zenon DEF PoolInv
<1> QED BY <1>1, PoolInvHolds, PTL

\* No two goroutines ever write to one FastCGI stream, none writes to one that
\* is in the pool, and no connection leaks.
THEOREM OneOwnerHolds == Spec => []OneOwner
<1>1. PoolInv => OneOwner
  BY Zenon DEF PoolInv
<1> QED BY <1>1, PoolInvHolds, PTL

\* The counter the goroutines change with separate atomic additions never drifts.
THEOREM CounterExactHolds == Spec => []CounterExact
<1>1. PoolInv => CounterExact
  BY Zenon DEF PoolInv, Counter
<1> QED BY <1>1, PoolInvHolds, PTL

\* maxConnNum is never exceeded, for any number of goroutines.
THEOREM ConnsBoundedHolds == Spec => []ConnsBounded
<1>1. PoolInv => ConnsBounded
  BY Zenon DEF PoolInv, Counter
<1> QED BY <1>1, PoolInvHolds, PTL

\* The send in newConn that has no default case always finds room: the new
\* connection is open and counted, and is not in the channel.
THEOREM NewConnNeverBlocksHolds == Spec => []NewConnNeverBlocks
<1>1. PoolInv => NewConnNeverBlocks
  <2> SUFFICES ASSUME PoolInv, NEW w \in Workers, pc[w] = "store"
               PROVE  Len(store) < MaxConnNum
    BY Zenon DEF NewConnNeverBlocks, At
  <2>1. /\ conn[w] \in open /\ conn[w] \notin Range(store)
        /\ Range(store) \subseteq open /\ store \in Seq(Conns) /\ IsInjective(store)
    BY Zenon DEF PoolInv, TypeOK, OneOwner, Taken
  <2>2. IsFiniteSet(Range(store)) /\ Cardinality(Range(store)) = Len(store)
    BY <2>1, DistinctCount, Zenon
  <2>3. Cardinality(Range(store) \cup {conn[w]}) = Len(store) + 1
    BY <2>1, <2>2, FS_AddElement, Zenon
  <2>4. /\ IsFiniteSet(open) /\ Cardinality(open) \in Nat
    BY OpenStep, Zenon DEF PoolInv
  <2>5. Len(store) + 1 <= Cardinality(open)
    BY <2>1, <2>3, <2>4, FS_Subset
  <2>6. Cardinality(At("dial")) \in Nat
    <3>1. IsFiniteSet(At("dial"))
      BY PoolAssumption, FS_Subset, Zenon DEF At
    <3> QED BY <3>1, FS_CardinalityType, Zenon
  <2>7. Len(store) \in Nat
    BY <2>1
  <2> QED BY <2>4, <2>5, <2>6, <2>7, PoolAssumption DEF PoolInv, Counter, ConnsBounded
<1> QED BY <1>1, PoolInvHolds, PTL

-----------------------------------------------------------------------------
\* Bounded use.

Sent == {"body", "failed", "close"}

\* A connection that can be sent on was used at most ReuseCounts times.
ConnUse ==
  /\ \A c \in Conns \ open : used[c] = 0
  /\ \A c \in Range(store) : used[c] <= ReuseCounts
  /\ \A w \in Workers :
       /\ pc[w] \in {"drop", "store", "send"} => used[conn[w]] <= ReuseCounts
       /\ pc[w] \in Sent => used[conn[w]] <= ReuseCounts + 1

\* A request has been sent once for each repetition that was decided, and once
\* more after the last attempt.
SendUse ==
  \A w \in Workers :
    /\ pc[w] = "idle" => sends[w] = 0
    /\ pc[w] \in Sent => sends[w] <= repeats[w] + 1
    /\ pc[w] \notin Sent => sends[w] <= repeats[w]

\* After an attempt the request returns or counts the repetition.
LEMMA AfterSends ==
  ASSUME TypeOK, SendUse, NEW w \in Workers, pc[w] \in Sent, After(w)
  PROVE  SendUse'
<1>1. /\ repeats[w] \in Nat /\ sends[w] \in Nat /\ sends[w] <= repeats[w] + 1
  BY PoolAssumption DEF TypeOK, SendUse
<1>2. CASE result[w] = "again" /\ repeats[w] < MaxRepeats
  BY <1>1, <1>2, ZenonT(30) DEF After, SendUse, TypeOK, Goto, Sent
<1>3. CASE ~(result[w] = "again" /\ repeats[w] < MaxRepeats)
  BY <1>1, <1>3 DEF After, Return, SendUse, TypeOK, Goto, Sent
<1> QED BY <1>2, <1>3, Zenon

\* Every step keeps the bound on the attempts of a request.
LEMMA NextSends == TypeOK /\ SendUse /\ [Next]_vars => SendUse'
<1> SUFFICES ASSUME TypeOK, SendUse, [Next]_vars PROVE SendUse'
  OBVIOUS
<1> USE DEF poolVars, connVars, requestVars
<1>0. ASSUME NEW w \in Workers, NEW p, Goto(w, p), p \notin Sent, p # "idle",
             pc[w] \notin Sent, UNCHANGED <<repeats, sends>>
      PROVE  SendUse'
  BY <1>0, Zenon DEF SendUse, TypeOK, Goto
<1>1. ASSUME NEW w \in Workers, Request(w) \/ SendStatus(w) PROVE SendUse'
  <2>1. PICK f \in Nat : Start(w, f)
    BY <1>1, PoolAssumption, Zenon DEF Request, SendStatus
  <2>2. /\ sends[w] = 0 /\ sends' = sends /\ Goto(w, "get")
        /\ repeats' = [repeats EXCEPT ![w] = f]
    BY <2>1, Zenon DEF Start, SendUse
  <2> QED BY <2>2 DEF SendUse, TypeOK, Goto, Sent
<1>2. ASSUME NEW w \in Workers, TakeConn(w) PROVE SendUse'
  <2>1. Goto(w, "drop") \/ Goto(w, "send")
    BY <1>2, Zenon DEF TakeConn
  <2> QED BY <1>0, <1>2, <2>1, Zenon DEF TakeConn, Sent
<1>3. ASSUME NEW w \in Workers, DropConn(w) PROVE SendUse'
  BY <1>0, <1>3, Zenon DEF DropConn, Sent
<1>4. ASSUME NEW w \in Workers, PoolEmpty(w) \/ DialFailed(w) PROVE SendUse'
  BY <1>0, <1>4, Zenon DEF PoolEmpty, DialFailed, Sent
<1>5. ASSUME NEW w \in Workers, NewConnReal(w) PROVE SendUse'
  <2>1. Goto(w, "undo") \/ Goto(w, "dial")
    BY <1>5, Zenon DEF NewConnReal
  <2> QED BY <1>0, <1>5, <2>1, Zenon DEF NewConnReal, Sent
<1>6. ASSUME NEW w \in Workers, NEW c \in Conns, Dialed(w, c) PROVE SendUse'
  <2>1. Goto(w, "store") \/ Goto(w, "send")
    BY <1>6, Zenon DEF Dialed
  <2> QED BY <1>0, <1>6, <2>1, Zenon DEF Dialed, Sent
<1>7. ASSUME NEW w \in Workers, Undo(w) PROVE SendUse'
  <2>1. CASE newConn[w]
    <3>1. Return(w)
      BY <1>7, <2>1, Zenon DEF Undo
    <3> QED BY <3>1 DEF Return, SendUse, TypeOK, Goto, Sent
  <2>2. CASE ~newConn[w]
    BY <1>0, <1>7, <2>2, Zenon DEF Undo, Sent
  <2> QED BY <2>1, <2>2, Zenon
<1>8. ASSUME NEW w \in Workers, StoreConn(w) PROVE SendUse'
  BY <1>0, <1>8, Zenon DEF StoreConn, Sent
<1>9. ASSUME NEW w \in Workers, NEW r \in Outcomes, SendConn(w, r) PROVE SendUse'
  <2>1. /\ repeats[w] \in 0 .. MaxRepeats /\ sends[w] \in Nat
        /\ sends[w] <= repeats[w] /\ repeats' = repeats
    BY <1>9, Zenon DEF TypeOK, SendUse, SendConn, Sent
  <2>2. sends' = [sends EXCEPT ![w] = sends[w] + 1]
    <3>1. sends[w] <= MaxRepeats
      BY <2>1, PoolAssumption
    <3> QED BY <1>9, <3>1, Zenon DEF SendConn
  <2>3. Goto(w, "body") \/ Goto(w, "failed")
    BY <1>9, Zenon DEF SendConn
  <2> QED BY <2>1, <2>2, <2>3 DEF SendUse, TypeOK, Goto, Sent
<1>10. ASSUME NEW w \in Workers, NEW r \in Outcomes, ReadBody(w, r) PROVE SendUse'
  BY <1>10, Zenon DEF ReadBody, SendUse, TypeOK, Goto, Sent
<1>11. ASSUME NEW w \in Workers, CloseFailed(w) \/ CloseUsed(w) PROVE SendUse'
  BY <1>11, AfterSends, Zenon DEF CloseFailed, CloseUsed, Sent
<1>12. ASSUME NEW c \in Conns, Age(c) PROVE SendUse'
  BY <1>12, Zenon DEF Age, SendUse
<1>13. CASE UNCHANGED vars
  BY <1>13, Zenon DEF vars, SendUse
<1> QED BY <1>1, <1>2, <1>3, <1>4, <1>5, <1>6, <1>7, <1>8, <1>9, <1>10, <1>11,
           <1>12, <1>13, ZenonT(30) DEF Next, Step

\* closeConn forgets the uses of the connection, which nobody else has.
LEMMA CloseUse ==
  ASSUME TypeOK, OneOwner, ConnUse, NEW w \in Workers, conn[w] # NoConn,
         Hold(w, NoConn), NEW p, Goto(w, p), p \in {"get", "new", "idle"},
         CloseConn(conn[w]), store' = store
  PROVE  ConnUse'
<1>1. /\ conn[w] \in Conns /\ conn[w] \notin Range(store)
      /\ \A v \in Workers \ {w} : conn[v] # conn[w]
  BY Zenon DEF TypeOK, OneOwner
<1>2. /\ used' = [used EXCEPT ![conn[w]] = 0] /\ open' = open \ {conn[w]}
  BY Zenon DEF CloseConn
<1>3. \A c \in Conns \ open' : used'[c] = 0
  BY <1>1, <1>2, ZenonT(30) DEF ConnUse, TypeOK
<1>4. \A c \in Range(store)' : used'[c] <= ReuseCounts
  BY <1>1, <1>2 DEF ConnUse, TypeOK, Range
<1>5. \A v \in Workers :
         /\ pc'[v] \in {"drop", "store", "send"} => used'[conn'[v]] <= ReuseCounts
         /\ pc'[v] \in Sent => used'[conn'[v]] <= ReuseCounts + 1
  <2> TAKE v \in Workers
  <2>1. CASE v = w
    BY <2>1, Zenon DEF Goto, TypeOK, Sent
  <2>2. CASE v # w /\ pc[v] \in {"drop", "store", "send"} \cup Sent
    <3>1. conn'[v] = conn[v] /\ pc'[v] = pc[v] /\ conn[v] \in Conns
      BY <2>2, Zenon DEF Hold, Goto, TypeOK, Sent
    <3>2. used'[conn[v]] = used[conn[v]]
      BY <1>1, <1>2, <2>2, <3>1, Zenon DEF TypeOK
    <3> QED BY <3>1, <3>2, Zenon DEF ConnUse
  <2>3. CASE v # w /\ pc[v] \notin {"drop", "store", "send"} \cup Sent
    BY <2>3, Zenon DEF Goto, TypeOK
  <2> QED BY <2>1, <2>2, <2>3, ZenonT(60)
<1> QED BY <1>3, <1>4, <1>5, Zenon DEF ConnUse

\* A connection that goes into the channel may be used again.
LEMMA PutUse ==
  ASSUME TypeOK, ConnUse, NEW w \in Workers, conn[w] \in Conns,
         used[conn[w]] <= ReuseCounts,
         Hold(w, NoConn), NEW p, Goto(w, p), p \in {"get", "new", "idle"},
         store' = Append(store, conn[w]), open' = open, used' = used
  PROVE  ConnUse'
<1>1. Range(store)' = Range(store) \cup {conn[w]}
  BY AppendRange DEF TypeOK
<1>2. \A c \in Range(store)' : used'[c] <= ReuseCounts
  BY <1>1, Zenon DEF ConnUse
<1>3. \A v \in Workers :
         /\ pc'[v] \in {"drop", "store", "send"} => used'[conn'[v]] <= ReuseCounts
         /\ pc'[v] \in Sent => used'[conn'[v]] <= ReuseCounts + 1
  BY Zenon DEF Goto, Hold, TypeOK, ConnUse, Sent
<1> QED BY <1>2, <1>3, Zenon DEF ConnUse

\* A goroutine gets a connection that may be sent on, or moves on with none.
LEMMA HoldUse ==
  ASSUME TypeOK, ConnUse, NEW w \in Workers, NEW c \in Conns \cup {NoConn},
         Hold(w, c), NEW p, Goto(w, p), p \notin Sent,
         p \in {"drop", "store", "send"} => used[c] <= ReuseCounts,
         Range(store)' \subseteq Range(store), open \subseteq open', used' = used
  PROVE  ConnUse'
<1>1. \A v \in Workers :
         /\ pc'[v] \in {"drop", "store", "send"} => used'[conn'[v]] <= ReuseCounts
         /\ pc'[v] \in Sent => used'[conn'[v]] <= ReuseCounts + 1
  BY Zenon DEF Goto, Hold, TypeOK, ConnUse
<1> QED BY <1>1, Zenon DEF ConnUse

\* Every step keeps the bound on the uses of a connection.
LEMMA NextUse == TypeOK /\ OneOwner /\ ConnUse /\ [Next]_vars => ConnUse'
<1> SUFFICES ASSUME TypeOK, OneOwner, ConnUse, [Next]_vars PROVE ConnUse'
  OBVIOUS
<1> USE DEF poolVars, connVars, requestVars
<1>0. ASSUME NEW w \in Workers, NEW p, Goto(w, p),
             p \notin {"drop", "store", "send"} \cup Sent,
             UNCHANGED <<store, open, used, conn>>
      PROVE  ConnUse'
  BY <1>0, Zenon DEF ConnUse, TypeOK, Goto
<1>1. ASSUME NEW w \in Workers, Request(w) \/ SendStatus(w) PROVE ConnUse'
  BY <1>0, <1>1, Zenon DEF Request, SendStatus, Start, Sent
<1>2. ASSUME NEW w \in Workers, TakeConn(w) PROVE ConnUse'
  <2>1. /\ store \in Seq(Conns) /\ store # <<>> /\ store' = Tail(store)
        /\ Hold(w, Head(store)) /\ UNCHANGED <<open, used>>
        /\ Goto(w, "drop") \/ Goto(w, "send")
    BY <1>2, Zenon DEF TypeOK, TakeConn
  <2>2. /\ Head(store) \in Conns /\ Head(store) \in Range(store)
        /\ Range(store)' \subseteq Range(store)
    BY <2>1, TailRange, Zenon
  <2>3. used[Head(store)] <= ReuseCounts
    BY <2>2, Zenon DEF ConnUse
  <2> QED BY <2>1, <2>2, <2>3, HoldUse, Zenon DEF Sent
<1>3. ASSUME NEW w \in Workers, DropConn(w) PROVE ConnUse'
  <2>1. conn[w] # NoConn
    BY <1>3, Zenon DEF DropConn, TypeOK
  <2> QED BY <1>3, <2>1, CloseUse, Zenon DEF DropConn
<1>4. ASSUME NEW w \in Workers, PoolEmpty(w) \/ DialFailed(w) PROVE ConnUse'
  BY <1>0, <1>4, Zenon DEF PoolEmpty, DialFailed, Sent
<1>5. ASSUME NEW w \in Workers, NewConnReal(w) PROVE ConnUse'
  <2>1. Goto(w, "undo") \/ Goto(w, "dial")
    BY <1>5, Zenon DEF NewConnReal
  <2> QED BY <1>0, <1>5, <2>1, Zenon DEF NewConnReal, Sent
<1>6. ASSUME NEW w \in Workers, NEW c \in Conns, Dialed(w, c) PROVE ConnUse'
  <2>1. /\ Goto(w, "store") \/ Goto(w, "send")
        /\ Hold(w, c) /\ c \notin open /\ open' = open \cup {c}
        /\ UNCHANGED <<store, used>>
    BY <1>6, ZenonT(30) DEF Dialed
  <2>2. used[c] <= ReuseCounts
    BY <2>1, PoolAssumption DEF ConnUse
  <2>3. Range(store)' \subseteq Range(store) /\ open \subseteq open'
    BY <2>1, Zenon
  <2> QED BY <2>1, <2>2, <2>3, HoldUse, Zenon DEF Sent
<1>7. ASSUME NEW w \in Workers, Undo(w) PROVE ConnUse'
  <2>1. Goto(w, "get") \/ Goto(w, "idle")
    BY <1>7, Zenon DEF Undo, Return
  <2> QED BY <1>0, <1>7, <2>1, Zenon DEF Undo, Sent
<1>8. ASSUME NEW w \in Workers, StoreConn(w) PROVE ConnUse'
  <2>1. conn[w] \in Conns /\ used[conn[w]] <= ReuseCounts
    BY <1>8, Zenon DEF StoreConn, TypeOK, ConnUse
  <2> QED BY <1>8, <2>1, PutUse, Zenon DEF StoreConn
<1>9. ASSUME NEW w \in Workers, NEW r \in Outcomes, SendConn(w, r) PROVE ConnUse'
  <2>1. /\ conn[w] \in Conns /\ conn[w] \in open /\ conn[w] \notin Range(store)
        /\ \A v \in Workers \ {w} : conn[v] # conn[w]
        /\ used[conn[w]] \in Nat /\ used[conn[w]] <= ReuseCounts
    BY <1>9, Zenon DEF TypeOK, OneOwner, Taken, ConnUse, SendConn
  <2>2. /\ used' = [used EXCEPT ![conn[w]] = used[conn[w]] + 1]
        /\ UNCHANGED <<store, open, conn>>
        /\ Goto(w, "body") \/ Goto(w, "failed")
    BY <1>9, Zenon DEF SendConn
  <2>3. \A c \in Conns \ open' : used'[c] = 0
    BY <2>1, <2>2, ZenonT(30) DEF ConnUse, TypeOK
  <2>4. \A c \in Range(store)' : used'[c] <= ReuseCounts
    BY <2>1, <2>2 DEF ConnUse, TypeOK, Range
  <2>5. \A v \in Workers :
         /\ pc'[v] \in {"drop", "store", "send"} => used'[conn'[v]] <= ReuseCounts
         /\ pc'[v] \in Sent => used'[conn'[v]] <= ReuseCounts + 1
    <3> TAKE v \in Workers
    <3>1. CASE v = w
      BY <2>1, <2>2, <3>1, PoolAssumption DEF Goto, TypeOK
    <3>2. CASE v # w /\ pc[v] \in {"drop", "store", "send"} \cup Sent
      <4>1. pc'[v] = pc[v] /\ conn[v] \in Conns
        BY <2>2, <3>2, Zenon DEF Goto, TypeOK, Sent
      <4>2. used'[conn[v]] = used[conn[v]]
        BY <2>1, <2>2, <3>2, <4>1, Zenon DEF TypeOK
      <4> QED BY <2>2, <4>1, <4>2, Zenon DEF ConnUse
    <3>3. CASE v # w /\ pc[v] \notin {"drop", "store", "send"} \cup Sent
      BY <2>2, <3>3, Zenon DEF Goto, TypeOK
    <3> QED BY <3>1, <3>2, <3>3, ZenonT(30)
  <2> QED BY <2>3, <2>4, <2>5, Zenon DEF ConnUse
<1>10. ASSUME NEW w \in Workers, NEW r \in Outcomes, ReadBody(w, r) PROVE ConnUse'
  BY <1>10, Zenon DEF ReadBody, ConnUse, TypeOK, Goto, Sent
<1>11. ASSUME NEW w \in Workers, CloseFailed(w) PROVE ConnUse'
  <2>1. conn[w] # NoConn
    BY <1>11, Zenon DEF CloseFailed, TypeOK
  <2>2. Goto(w, "new") \/ Goto(w, "idle")
    BY <1>11, Zenon DEF CloseFailed, After, Return
  <2> QED BY <1>11, <2>1, <2>2, CloseUse, ZenonT(30) DEF CloseFailed
<1>12. ASSUME NEW w \in Workers, CloseUsed(w) PROVE ConnUse'
  <2>1. conn[w] # NoConn /\ conn[w] \in Conns /\ Hold(w, NoConn)
    BY <1>12, Zenon DEF CloseUsed, TypeOK
  <2>2. Goto(w, "new") \/ Goto(w, "idle")
    BY <1>12, Zenon DEF CloseUsed, After, Return
  <2>3. \/ /\ used[conn[w]] <= ReuseCounts /\ store' = Append(store, conn[w])
           /\ UNCHANGED <<open, used>>
        \/ CloseConn(conn[w]) /\ store' = store
    BY <1>12, Zenon DEF CloseUsed, PutBack, Reusable
  <2> QED BY <2>1, <2>2, <2>3, CloseUse, PutUse, Zenon
<1>13. ASSUME NEW c \in Conns, Age(c) PROVE ConnUse'
  BY <1>13, Zenon DEF Age, ConnUse
<1>14. CASE UNCHANGED vars
  BY <1>14, Zenon DEF vars, ConnUse
<1> QED BY <1>1, <1>2, <1>3, <1>4, <1>5, <1>6, <1>7, <1>8, <1>9, <1>10, <1>11,
           <1>12, <1>13, <1>14, ZenonT(30) DEF Next, Step

\* A request is sent at most 1 + MaxRepeats times, and no connection is used
\* more often than the configuration allows, for any number of goroutines.
THEOREM UseBoundedHolds == Spec => []UseBounded
<1>1. Init => ConnUse /\ SendUse
  <2> SUFFICES ASSUME Init PROVE ConnUse /\ SendUse
    OBVIOUS
  <2>1. Range(store) \subseteq Conns
    BY InitType DEF TypeOK, Range
  <2> QED BY <2>1, PoolAssumption DEF Init, ConnUse, SendUse, Sent
<1>2. PoolInv /\ ConnUse /\ SendUse /\ [Next]_vars => (ConnUse /\ SendUse)'
  BY NextUse, NextSends, Zenon DEF PoolInv
<1>3. PoolInv /\ ConnUse /\ SendUse => UseBounded
  <2> SUFFICES ASSUME PoolInv, ConnUse, SendUse PROVE UseBounded
    OBVIOUS
  <2>1. ASSUME NEW w \in Workers PROVE sends[w] <= MaxRepeats + 1
    <3>1. repeats[w] \in 0 .. MaxRepeats /\ sends[w] \in Nat
      BY Zenon DEF PoolInv, TypeOK
    <3> QED BY <3>1, PoolAssumption DEF SendUse
  <2>2. ASSUME NEW c \in Conns PROVE used[c] <= ReuseCounts + 1
    <3>0. used[c] \in Nat
      BY Zenon DEF PoolInv, TypeOK
    <3>1. CASE c \notin open
      BY <3>1, PoolAssumption DEF ConnUse
    <3>2. CASE c \in Range(store)
      BY <3>0, <3>2, PoolAssumption DEF ConnUse
    <3>3. ASSUME NEW w \in Workers, conn[w] = c, c # NoConn
          PROVE  used[c] <= ReuseCounts + 1
      <4>1. pc[w] \in {"drop", "store", "send"} \cup Sent
        BY <3>3, Zenon DEF PoolInv, TypeOK, Sent
      <4>2. used[c] <= ReuseCounts \/ used[c] <= ReuseCounts + 1
        BY <3>3, <4>1, Zenon DEF ConnUse
      <4> QED BY <3>0, <4>2, PoolAssumption
    <3> QED BY <3>1, <3>2, <3>3, Zenon DEF PoolInv, OneOwner, Taken
  <2> QED BY <2>1, <2>2, Zenon DEF UseBounded
<1> QED BY <1>1, <1>2, <1>3, PoolInvHolds, PTL DEF Spec

-----------------------------------------------------------------------------
(* The HTTP worker: children that are started against a moving counter.    *)

ChildStates == {"none", "ping", "loop", "poll", "busy", "done"}

\* The types the argument needs.
CountType ==
  /\ started \in Nat
  /\ popped \in 0 .. MaxPops
  /\ child \in [Children -> ChildStates]

\* A goroutine that is busy has popped a job for itself.
BusyPopped == Cardinality(Busy) <= popped

\* The inductive invariant.
CountInv == CountType /\ BusyPopped /\ ChildrenBounded

-----------------------------------------------------------------------------
\* The busy workers are finitely many, and counted one by one.
LEMMA BusyFinite ==
  ASSUME NumOfWorkers \in Nat, MaxPops \in Nat
  PROVE  IsFiniteSet(Busy) /\ Cardinality(Busy) \in Nat
<1>1. IsFiniteSet(Children)
  <2>1. 1 \in Int /\ NumOfWorkers + MaxPops + 1 \in Int
    OBVIOUS
  <2> QED BY <2>1, FS_Interval, Zenon DEF Children
<1>2. Busy \in SUBSET Children
  BY Zenon DEF Busy
<1>3. IsFiniteSet(Busy)
  BY <1>1, <1>2, FS_Subset, Zenon
<1> QED BY <1>3, FS_CardinalityType, Zenon

\* A worker that becomes busy is one more, one that stops is one less, and any
\* other change of a worker that stays in another state changes nothing.
LEMMA BusyChange ==
  ASSUME NumOfWorkers \in Nat, MaxPops \in Nat,
         child \in [Children -> ChildStates],
         NEW i \in Children, NEW to \in ChildStates,
         child' = [child EXCEPT ![i] = to]
  PROVE  /\ child[i] # "busy" /\ to = "busy" =>
              Cardinality(Busy') = Cardinality(Busy) + 1
         /\ child[i] = "busy" /\ to # "busy" =>
              Cardinality(Busy') = Cardinality(Busy) - 1
         /\ child[i] # "busy" /\ to # "busy" => Busy' = Busy
<1>1. IsFiniteSet(Busy)
  BY BusyFinite, Zenon
<1>2. CASE child[i] # "busy" /\ to = "busy"
  <2>1. Busy' = Busy \cup {i} /\ i \notin Busy
    BY <1>2, Zenon DEF Busy
  <2> QED BY <1>1, <1>2, <2>1, FS_AddElement, Zenon
<1>3. CASE child[i] = "busy" /\ to # "busy"
  <2>1. Busy' = Busy \ {i} /\ i \in Busy
    BY <1>3, Zenon DEF Busy
  <2> QED BY <1>1, <1>3, <2>1, FS_RemoveElement, Zenon
<1>4. CASE child[i] # "busy" /\ to # "busy"
  BY <1>4, Zenon DEF Busy
<1> QED BY <1>2, <1>3, <1>4, Zenon

\* A worker that is running keeps running, or is done: it stays counted.
LEMMA RunningChange ==
  ASSUME CountType, NEW i \in Children, NEW to \in ChildStates \ {"none"},
         child[i] # "none", child' = [child EXCEPT ![i] = to]
  PROVE  /\ child' \in [Children -> ChildStates]
         /\ {j \in Children : child'[j] # "none"} = {j \in Children : child[j] # "none"}
  BY Zenon DEF CountType

-----------------------------------------------------------------------------
\* NewHttpWorker: no goroutine runs.
LEMMA InitCount ==
  ASSUME NumOfWorkers \in Nat, MaxPops \in Nat, HttpInit
  PROVE  CountInv
<1>1. CountType
  BY DEF HttpInit, CountType, ChildStates
<1>2. Busy = {} /\ Cardinality(Busy) = 0
  <2>1. Busy = {}
    BY Zenon DEF HttpInit, Busy
  <2> QED BY <2>1, FS_EmptySet, Zenon
<1>3. {i \in Children : child[i] # "none"} = 1 .. started
  BY DEF HttpInit
<1>4. BusyPopped /\ ChildrenBounded
  BY <1>2, <1>3 DEF HttpInit, BusyPopped, ChildrenBounded
<1> QED BY <1>1, <1>4, Zenon DEF CountInv

\* The starting loop: the goroutine it starts has a number of its own, because
\* the counter it compares with exceeds NumOfWorkers by jobs already popped.
LEMMA SpawnCount ==
  ASSUME NumOfWorkers \in Nat, MaxPops \in Nat, CountInv, Spawn
  PROVE  CountInv'
<1>1. Cardinality(Busy) \in Nat
  BY BusyFinite, Zenon
<1>2. started \in Nat /\ started + 1 <= NumOfWorkers + popped
                      /\ popped \in 0 .. MaxPops
  BY <1>1 DEF CountInv, CountType, BusyPopped, ChildrenBounded, Spawn
<1>3. started + 1 \in Children
  BY <1>2 DEF Children
<1>4. child[started + 1] = "none"
  <2>1. started + 1 \notin 1 .. started
    BY <1>2
  <2> QED BY <1>3, <2>1, Zenon DEF CountInv, ChildrenBounded
<1>5. child' = [child EXCEPT ![started + 1] = "ping"] /\ "ping" \in ChildStates
  BY Zenon DEF Spawn, ChildStates
<1>6. Busy' = Busy
  BY <1>3, <1>4, <1>5, BusyChange, Zenon DEF CountInv, CountType
<1>7. CountType'
  BY <1>2, <1>3, <1>5 DEF CountInv, CountType, Spawn
<1>8. {j \in Children : child'[j] # "none"} = 1 .. started'
  <2>1. {j \in Children : child'[j] # "none"}
          = {j \in Children : child[j] # "none"} \cup {started + 1}
    BY <1>3, <1>5, Zenon DEF CountInv, CountType
  <2>2. {j \in Children : child[j] # "none"} = 1 .. started
    BY Zenon DEF CountInv, ChildrenBounded
  <2>3. (1 .. started) \cup {started + 1} = 1 .. started'
    BY <1>2 DEF Spawn
  <2> QED BY <2>1, <2>2, <2>3, Zenon
<1>9. BusyPopped'
  BY <1>6, Zenon DEF CountInv, BusyPopped, Spawn
<1>10. ChildrenBounded'
  <2>1. /\ numOfChildren' = NumOfWorkers + Cardinality(Busy')
        /\ started' <= NumOfWorkers + popped'
        /\ hpc' = "spawn"
    BY <1>2, <1>6, Zenon DEF CountInv, ChildrenBounded, Spawn
  <2> QED BY <1>8, <2>1, Zenon DEF ChildrenBounded
<1> QED BY <1>7, <1>9, <1>10, Zenon DEF CountInv

\* The end of the starting loop: every configured worker was started.
LEMMA SpawnedCount ==
  ASSUME NumOfWorkers \in Nat, MaxPops \in Nat, CountInv, Spawned
  PROVE  CountInv'
<1>1. Cardinality(Busy) \in Nat
  BY BusyFinite, Zenon
<1>2. started >= NumOfWorkers
  BY <1>1 DEF CountInv, CountType, ChildrenBounded, Spawned
<1>3. UNCHANGED <<started, popped, child, numOfChildren, Busy>>
  BY Zenon DEF Spawned, Busy
<1> QED BY <1>2, <1>3, Zenon DEF CountInv, CountType, BusyPopped, ChildrenBounded

\* Steps that start nobody, pop nothing and finish nothing.
LEMMA QuietCount ==
  ASSUME CountInv, UNCHANGED <<started, popped, child, numOfChildren>>,
         hpc' \in {"begin", "spawn", "panic"} \/ hpc \notin {"begin", "spawn", "panic"}
  PROVE  CountInv'
<1>1. Busy' = Busy
  BY Zenon DEF Busy
<1> QED BY <1>1, Zenon DEF CountInv, CountType, BusyPopped, ChildrenBounded

\* The goroutine of Serve.
LEMMA MainCount ==
  ASSUME NumOfWorkers \in Nat, MaxPops \in Nat, CountInv, Main
  PROVE  CountInv'
<1>1. CASE Spawn
  BY <1>1, SpawnCount, Zenon
<1>2. CASE Spawned
  BY <1>2, SpawnedCount, Zenon
<1>3. CASE ServeBegin \/ ServeDone \/ RetryCheck \/ RetryMiss \/ RetryPop
           \/ \E typ \in {"common", "retry", "timeout"} : RetryPut(typ)
  <2>1. /\ UNCHANGED <<started, popped, child, numOfChildren>>
        /\ hpc' \in {"begin", "spawn", "panic"} \/ hpc \notin {"begin", "spawn", "panic"}
    BY <1>3, Zenon DEF ServeBegin, ServeDone, RetryCheck, RetryMiss, RetryPop, RetryPut
  <2> QED BY <2>1, QuietCount, Zenon
<1> QED BY <1>1, <1>2, <1>3, Zenon DEF Main

\* A worker that pings, checks or finds no job.
LEMMA IdleChildCount ==
  ASSUME NumOfWorkers \in Nat, MaxPops \in Nat, CountInv, NEW i \in Children,
         ChildPing(i) \/ ChildCheck(i) \/ ChildMiss(i)
  PROVE  CountInv'
<1>1. PICK to \in {"loop", "done", "poll"} : child' = [child EXCEPT ![i] = to]
  BY Zenon DEF ChildPing, ChildCheck, ChildMiss
<1>2. child[i] \notin {"none", "busy"} /\ UNCHANGED <<started, popped, numOfChildren, hpc>>
  BY Zenon DEF ChildPing, ChildCheck, ChildMiss
<1>3. to \in ChildStates \ {"none"} /\ to # "busy"
  BY <1>1, Zenon DEF ChildStates
<1>4. Busy' = Busy
  BY <1>1, <1>2, <1>3, BusyChange, Zenon DEF CountInv, CountType
<1>5. /\ child' \in [Children -> ChildStates]
      /\ {j \in Children : child'[j] # "none"} = {j \in Children : child[j] # "none"}
  BY <1>1, <1>2, <1>3, RunningChange, Zenon DEF CountInv
<1> QED BY <1>2, <1>4, <1>5, Zenon DEF CountInv, CountType, BusyPopped, ChildrenBounded

\* A worker that pops a job: one more is busy, one more is counted.
LEMMA PopCount ==
  ASSUME NumOfWorkers \in Nat, MaxPops \in Nat, CountInv, NEW i \in Children,
         ChildPop(i)
  PROVE  CountInv'
<1>1. child' = [child EXCEPT ![i] = "busy"] /\ child[i] = "poll"
  BY Zenon DEF ChildPop
<1>2. "busy" \in ChildStates \ {"none"}
  BY Zenon DEF ChildStates
<1>3. Cardinality(Busy') = Cardinality(Busy) + 1 /\ Cardinality(Busy) \in Nat
  BY <1>1, <1>2, BusyChange, BusyFinite, Zenon DEF CountInv, CountType
<1>4. /\ child' \in [Children -> ChildStates]
      /\ {j \in Children : child'[j] # "none"} = {j \in Children : child[j] # "none"}
  BY <1>1, <1>2, RunningChange, Zenon DEF CountInv
<1>5. CountType'
  BY <1>4 DEF CountInv, CountType, ChildPop
<1>6. BusyPopped'
  BY <1>3 DEF CountInv, CountType, BusyPopped, ChildPop
<1>7. ChildrenBounded'
  <2>1. /\ numOfChildren' = NumOfWorkers + Cardinality(Busy')
        /\ started' <= NumOfWorkers + popped'
    BY <1>3 DEF CountInv, CountType, ChildrenBounded, ChildPop
  <2>2. started' = started /\ hpc' \in {hpc, "panic"}
    BY Zenon DEF ChildPop
  <2> QED BY <1>4, <2>1, <2>2, Zenon DEF CountInv, ChildrenBounded
<1> QED BY <1>5, <1>6, <1>7, Zenon DEF CountInv

\* A request that ends, well or not: one fewer is busy, one fewer is counted.
LEMMA RequestEndCount ==
  ASSUME NumOfWorkers \in Nat, MaxPops \in Nat, CountInv, NEW i \in Children,
         ChildOk(i) \/ \E next \in {"ping", "loop"} : ChildFail(i, next)
  PROVE  CountInv'
<1>1. PICK to \in {"ping", "loop"} : child' = [child EXCEPT ![i] = to]
  BY Zenon DEF ChildOk, ChildFail
<1>2. /\ child[i] = "busy" /\ numOfChildren' = numOfChildren - 1
      /\ UNCHANGED <<started, popped, hpc>>
  BY Zenon DEF ChildOk, ChildFail
<1>3. to \in ChildStates \ {"none"} /\ to # "busy"
  BY <1>1, Zenon DEF ChildStates
<1>4. Cardinality(Busy') = Cardinality(Busy) - 1 /\ Cardinality(Busy) \in Nat
  BY <1>1, <1>2, <1>3, BusyChange, BusyFinite, Zenon DEF CountInv, CountType
<1>5. /\ child' \in [Children -> ChildStates]
      /\ {j \in Children : child'[j] # "none"} = {j \in Children : child[j] # "none"}
  BY <1>1, <1>2, <1>3, RunningChange, Zenon DEF CountInv
<1> QED BY <1>2, <1>4, <1>5 DEF CountInv, CountType, BusyPopped, ChildrenBounded

\* Every step preserves the invariant.
LEMMA NextCount ==
  ASSUME NumOfWorkers \in Nat, MaxPops \in Nat, CountInv, [HttpNext]_httpVars
  PROVE  CountInv'
<1>1. CASE Main
  BY <1>1, MainCount, Zenon
<1>2. CASE \E i \in Children : Child(i)
  BY <1>2, IdleChildCount, PopCount, RequestEndCount, Zenon DEF Child
<1>3. CASE Push \/ CloseHttp \/ (\E c \in Confs : UpdateConf(c)) \/ UNCHANGED httpVars
  <2>1. UNCHANGED <<started, popped, child, numOfChildren, hpc>>
    BY <1>3, Zenon DEF Push, CloseHttp, UpdateConf, httpVars
  <2> QED BY <2>1, QuietCount, Zenon
<1> QED BY <1>1, <1>2, <1>3, Zenon DEF HttpNext

\* For any configured number of workers, however popping, failing and starting
\* interleave: the counter is exact, all configured workers are started, and an
\* extra one takes a job popped while the loop ran (http_worker.go:126-160).
THEOREM ChildrenBoundedHolds ==
  HttpSpec => []ChildrenBounded
<1>1. HttpInit => CountInv
  BY InitCount, HttpBounds, Zenon
<1>2. CountInv /\ [HttpNext]_httpVars => CountInv'
  BY NextCount, HttpBounds, Zenon
<1>3. CountInv => ChildrenBounded
  BY Zenon DEF CountInv
<1> QED BY <1>1, <1>2, <1>3, PTL DEF HttpSpec

-----------------------------------------------------------------------------
(* The shell worker: processes and the ids they are killed by.             *)

\* The types the argument needs.
ShellType ==
  /\ slot \in [Slots -> {"check", "start", "wait", "reaped", "done"}]
  /\ of \in [Slots -> Runs \cup {0}]
  /\ os \in [Pids -> Runs \cup {Free, Other}]
  /\ pid \in [Runs -> Pids \cup {NoPid}]
  /\ ended \in [Runs -> {"no", "exited", "signaled"}]
  /\ monitor \in [Runs -> {"none", "watch", "poll", "last", "done"}]
  /\ seen \in [Runs -> {"nil", "no", "exited", "signaled"}]
  /\ state \in [Runs -> {"nil", "no", "exited", "signaled"}]
  /\ stray \subseteq Runs
  /\ runs \in 0 .. MaxRuns

\* A process that was not started yet has no id and no monitor, and nobody waits
\* for it.
NotStarted ==
  /\ \A r \in Runs : pid[r] # NoPid <=> r <= runs
  /\ \A r \in Runs : monitor[r] # "none" => pid[r] # NoPid
  /\ \A s \in Slots : of[s] <= runs

\* A goroutine in Wait waits for a process of its own, which still has its id
\* because only Wait gives it back; and so has every process that runs.
IdKept ==
  /\ \A s \in Slots : slot[s] = "wait" => of[s] \in Runs /\ os[pid[of[s]]] = of[s]
  /\ \A r \in Runs : pid[r] # NoPid /\ ended[r] = "no" => os[pid[r]] = r
  /\ \A s, t \in Slots : slot[s] = "wait" /\ slot[t] = "wait" /\ of[s] = of[t] => s = t

\* StopProcess runs after Close only, and not in a monitor that saw the exit.
MonitorOrder ==
  /\ \A r \in Runs : monitor[r] = "poll" => wclosed
  /\ stray # {} => wclosed
  /\ \A r \in Runs : seen[r] = "exited" => monitor[r] = "done"

\* The inductive invariant.
ShellInv == ShellType /\ NotStarted /\ IdKept /\ MonitorOrder /\ StraySignals

-----------------------------------------------------------------------------
\* Numbers of processes and marks for free ids are different things.
LEMMA RunNumbers ==
  ASSUME MaxRuns \in Nat
  PROVE  \A r \in Runs : r \in Nat /\ r >= 1 /\ r # Free /\ r # Other
  BY DEF Runs, Free, Other

\* NewWorker: nothing was started.
LEMMA InitShell ==
  ASSUME MaxRuns \in Nat, ShellInit
  PROVE  ShellInv
<1>1. ShellType
  BY DEF ShellInit, ShellType
<1>2. NotStarted
  BY RunNumbers DEF ShellInit, NotStarted
<1>3. IdKept /\ MonitorOrder /\ StraySignals
  BY Zenon DEF ShellInit, IdKept, MonitorOrder, StraySignals
<1> QED BY <1>1, <1>2, <1>3, Zenon DEF ShellInv

\* A process with an id has one of the system's.
LEMMA PidKnown ==
  ASSUME ShellType, NEW r \in Runs, pid[r] # NoPid
  PROVE  pid[r] \in Pids
  BY Zenon DEF ShellType

\* The goroutine's look at Done and a start that fails touch no process.
LEMMA CheckShell ==
  ASSUME ShellInv, NEW s \in Slots, Check(s) \/ StartFails(s)
  PROVE  ShellInv'
<1>1. PICK to \in {"check", "start", "done"} : slot' = [slot EXCEPT ![s] = to]
  BY Zenon DEF Check, StartFails
<1>2. UNCHANGED <<wclosed, of, os, pid, ended, state, monitor, seen, stray, runs>>
  BY Zenon DEF Check, StartFails
<1>3. ShellType' /\ NotStarted' /\ MonitorOrder' /\ StraySignals'
  BY <1>1, <1>2, Zenon DEF ShellInv, ShellType, NotStarted, MonitorOrder, StraySignals
<1>4. IdKept'
  BY <1>1, <1>2 DEF ShellInv, ShellType, IdKept
<1> QED BY <1>3, <1>4, Zenon DEF ShellInv

\* A new process gets an id that nobody has.
LEMMA StartShell ==
  ASSUME MaxRuns \in Nat, NoPid \notin Pids, ShellInv, NEW s \in Slots, NEW p \in Pids,
         StartProcess(s, p)
  PROVE  ShellInv'
<1> DEFINE n == runs + 1
<1>1. /\ n \in Runs /\ runs' = n /\ os[p] = Free /\ runs \in Nat
      /\ os' = [os EXCEPT ![p] = n] /\ pid' = [pid EXCEPT ![n] = p]
      /\ monitor' = [monitor EXCEPT ![n] = "watch"]
      /\ of' = [of EXCEPT ![s] = n] /\ slot' = [slot EXCEPT ![s] = "wait"]
      /\ UNCHANGED <<wclosed, ended, state, seen, stray>>
  BY DEF StartProcess, ShellInv, ShellType, Runs
<1>2. n <= MaxRuns /\ n \in Nat
  BY <1>1 DEF Runs
<1>3. pid[n] = NoPid /\ monitor[n] = "none" /\ \A t \in Slots : of[t] # n
  <2>1. ~(n <= runs)
    BY <1>1
  <2>2. pid[n] = NoPid
    BY <1>1, <2>1, Zenon DEF ShellInv, NotStarted
  <2> QED BY <1>1, <2>1, <2>2, Zenon DEF ShellInv, NotStarted
<1> HIDE DEF n
<1>4. ShellType'
  <2>1. runs' \in 0 .. MaxRuns
    BY <1>1, <1>2
  <2> QED BY <1>1, <2>1, Zenon DEF ShellInv, ShellType
<1>5. NotStarted'
  <2>1. \A r \in Runs : r <= n <=> r <= runs \/ r = n
    BY <1>1, RunNumbers DEF n
  <2>2. \A r \in Runs : pid'[r] # NoPid <=> r <= runs'
    BY <1>1, <2>1, Zenon DEF ShellInv, ShellType, NotStarted
  <2>3. \A r \in Runs : monitor'[r] # "none" => pid'[r] # NoPid
    BY <1>1, Zenon DEF ShellInv, ShellType, NotStarted
  <2>4. \A t \in Slots : of'[t] <= runs'
    <3>1. \A t \in Slots : of[t] \in Nat
      BY RunNumbers DEF ShellInv, ShellType
    <3>2. \A t \in Slots : of[t] <= n
      BY <1>1, <3>1 DEF ShellInv, NotStarted, n
    <3> QED BY <1>1, <1>2, <3>2 DEF ShellInv, ShellType
  <2> QED BY <2>2, <2>3, <2>4, Zenon DEF NotStarted
<1>6. IdKept'
  <2>1. \A r \in Runs : pid[r] # NoPid /\ os[pid[r]] = r =>
          pid[r] # p /\ r # n /\ os'[pid'[r]] = r
    BY <1>1, <1>3, RunNumbers, PidKnown, Zenon DEF ShellInv, ShellType
  <2>2. os'[pid'[n]] = n
    BY <1>1, Zenon DEF ShellInv, ShellType
  <2>3. ASSUME NEW t \in Slots, slot'[t] = "wait"
        PROVE  of'[t] \in Runs /\ os'[pid'[of'[t]]] = of'[t]
    <3>1. CASE t = s
      BY <1>1, <2>2, <3>1, Zenon DEF ShellInv, ShellType
    <3>2. CASE t # s
      <4>1. of'[t] = of[t] /\ slot[t] = "wait" /\ of[t] <= runs
        BY <1>1, <2>3, <3>2, Zenon DEF ShellInv, ShellType, NotStarted
      <4>2. of[t] \in Runs /\ os[pid[of[t]]] = of[t] /\ pid[of[t]] # NoPid
        BY <4>1, Zenon DEF ShellInv, IdKept, NotStarted
      <4> QED BY <2>1, <4>1, <4>2, Zenon
    <3> QED BY <3>1, <3>2, Zenon
  <2>4. ASSUME NEW r \in Runs, pid'[r] # NoPid, ended'[r] = "no"
        PROVE  os'[pid'[r]] = r
    <3>1. CASE r = n
      BY <2>2, <3>1, ZenonT(30)
    <3>2. CASE r # n
      BY <1>1, <2>1, <2>4, <3>2 DEF ShellInv, ShellType, IdKept
    <3> QED BY <3>1, <3>2, Zenon
  <2>5. ASSUME NEW t \in Slots, NEW u \in Slots,
               slot'[t] = "wait", slot'[u] = "wait", of'[t] = of'[u]
        PROVE  t = u
    BY <1>1, <1>3, <2>5, Zenon DEF ShellInv, ShellType, IdKept
  <2> QED BY <2>3, <2>4, <2>5, Zenon DEF IdKept
<1>7. MonitorOrder'
  BY <1>1, <1>3, Zenon DEF ShellInv, ShellType, MonitorOrder
<1>8. StraySignals'
  BY <1>1, Zenon DEF ShellInv, StraySignals
<1> QED BY <1>4, <1>5, <1>6, <1>7, <1>8, ZenonT(30) DEF ShellInv

\* A process ends; one that has ended never runs again.
LEMMA EndedShell ==
  ASSUME ShellInv, NEW r \in Runs, NEW how \in {"exited", "signaled"}, Ends(r, how)
  PROVE  ShellInv'
<1>1. ShellType' /\ NotStarted' /\ MonitorOrder'
  BY Zenon DEF ShellInv, ShellType, NotStarted, MonitorOrder, Ends
<1>2. IdKept'
  BY Zenon DEF ShellInv, ShellType, IdKept, Ends
<1>3. StraySignals'
  BY Zenon DEF ShellInv, ShellType, StraySignals, Ends
<1> QED BY <1>1, <1>2, <1>3, Zenon DEF ShellInv

\* Wait gives back the id of its own process, which has ended, and no other's.
LEMMA ReapShell ==
  ASSUME MaxRuns \in Nat, ShellInv, NEW s \in Slots, Reap(s)
  PROVE  ShellInv'
<1> DEFINE r == of[s]
<1>1. /\ slot[s] = "wait" /\ ended[r] # "no"
      /\ os' = [os EXCEPT ![pid[r]] = Free] /\ slot' = [slot EXCEPT ![s] = "reaped"]
      /\ UNCHANGED <<wclosed, of, pid, ended, state, monitor, seen, stray, runs>>
  BY Zenon DEF Reap
<1>2. r \in Runs /\ os[pid[r]] = r
  BY <1>1, Zenon DEF ShellInv, IdKept
<1>3. pid[r] \in Pids
  BY <1>2, PidKnown, Zenon DEF ShellInv, NotStarted
<1> HIDE DEF r
<1>4. ShellType' /\ NotStarted' /\ MonitorOrder' /\ StraySignals'
  BY <1>1, <1>3, Zenon DEF ShellInv, ShellType, NotStarted, MonitorOrder, StraySignals
<1>5. \A q \in Runs : pid[q] # NoPid /\ os[pid[q]] = q /\ q # r => os'[pid[q]] = q
  BY <1>1, <1>2, <1>3, PidKnown, Zenon DEF ShellInv, ShellType
<1>6. ASSUME NEW t \in Slots, slot'[t] = "wait"
      PROVE  of'[t] \in Runs /\ os'[pid'[of'[t]]] = of'[t]
  <2>1. slot[t] = "wait" /\ t # s
    BY <1>1, <1>6, Zenon DEF ShellInv, ShellType
  <2>2. of[t] \in Runs /\ os[pid[of[t]]] = of[t] /\ of[t] # r /\ pid[of[t]] # NoPid
    BY <1>1, <2>1, Zenon DEF ShellInv, IdKept, NotStarted, r
  <2> QED BY <1>1, <1>5, <2>2, Zenon
<1>7. ASSUME NEW q \in Runs, pid'[q] # NoPid, ended'[q] = "no"
      PROVE  os'[pid'[q]] = q
  BY <1>1, <1>5, <1>7, Zenon DEF ShellInv, IdKept
<1>8. ASSUME NEW t \in Slots, NEW u \in Slots,
             slot'[t] = "wait", slot'[u] = "wait", of'[t] = of'[u]
      PROVE  t = u
  BY <1>1, <1>8, Zenon DEF ShellInv, ShellType, IdKept
<1>9. IdKept'
  BY <1>6, <1>7, <1>8, Zenon DEF IdKept
<1> QED BY <1>4, <1>9, Zenon DEF ShellInv

\* Wait returns and the goroutine goes on.
LEMMA WaitedShell ==
  ASSUME ShellInv, NEW s \in Slots, Waited(s)
  PROVE  ShellInv'
<1>1. state' \in [Runs -> {"nil", "no", "exited", "signaled"}]
  <2>1. CASE of[s] \in Runs
    BY <2>1, Zenon DEF ShellInv, ShellType, Waited
  <2>2. CASE of[s] \notin Runs
    BY <2>2, Zenon DEF ShellInv, ShellType, Waited
  <2> QED BY <2>1, <2>2, Zenon
<1>2. /\ slot' = [slot EXCEPT ![s] = "check"]
      /\ UNCHANGED <<wclosed, of, os, pid, ended, monitor, seen, stray, runs>>
  BY Zenon DEF Waited
<1>3. ShellType' /\ NotStarted' /\ MonitorOrder' /\ StraySignals'
  BY <1>1, <1>2, ZenonT(30) DEF ShellInv, ShellType, NotStarted, MonitorOrder, StraySignals
<1>4. IdKept'
  BY <1>2 DEF ShellInv, ShellType, IdKept
<1> QED BY <1>3, <1>4, Zenon DEF ShellInv

\* The monitor looks while the worker is open: it has not signalled anybody yet.
LEMMA LookShell ==
  ASSUME ShellInv, NEW r \in Runs, Look(r)
  PROVE  ShellInv'
<1>1. /\ monitor[r] = "watch" /\ ~wclosed
      /\ seen' = [seen EXCEPT ![r] = state[r]]
      /\ monitor' = [monitor EXCEPT ![r] = IF state[r] = "exited" THEN "done" ELSE @]
      /\ UNCHANGED <<wclosed, slot, of, os, pid, ended, state, stray, runs>>
  BY Zenon DEF Look
<1>2. ShellType' /\ NotStarted' /\ IdKept'
  BY <1>1, Zenon DEF ShellInv, ShellType, NotStarted, IdKept
<1>3. MonitorOrder'
  BY <1>1, Zenon DEF ShellInv, ShellType, MonitorOrder
<1>4. StraySignals'
  BY <1>1, Zenon DEF ShellInv, MonitorOrder, StraySignals
<1> QED BY <1>2, <1>3, <1>4, Zenon DEF ShellInv

\* kill reaches somebody else only when the process has ended, and the monitor
\* that calls it has not seen an exit.
LEMMA KillShell ==
  ASSUME ShellInv, NEW r \in Runs, NEW next \in {"poll", "last"}, Kill(r, next),
         monitor[r] \in {"watch", "poll"}, wclosed,
         ended' \in [Runs -> {"no", "exited", "signaled"}],
         \A q \in Runs : ended'[q] = "no" => ended[q] = "no",
         \A q \in Runs : ended[q] # "no" => ended'[q] = ended[q],
         UNCHANGED <<wclosed, slot, of, os, pid, state, seen, runs>>
  PROVE  ShellInv'
<1>1. PICK to \in {"done", "poll", "last"} : monitor' = [monitor EXCEPT ![r] = to]
  BY Zenon DEF Kill
<1>2. /\ stray' \subseteq stray \cup {r}
      /\ r \in stray' \ stray => os[pid[r]] # r
  BY Zenon DEF Kill
<1>3. ShellType'
  BY <1>1, <1>2, Zenon DEF ShellInv, ShellType
<1>4. NotStarted'
  BY <1>1, Zenon DEF ShellInv, ShellType, NotStarted
<1>5. IdKept'
  BY Zenon DEF ShellInv, IdKept
<1>6. MonitorOrder'
  BY <1>1, Zenon DEF ShellInv, ShellType, MonitorOrder
<1>7. StraySignals'
  <2>1. ASSUME NEW q \in stray'
        PROVE  ended[q] # "no" /\ seen[q] # "exited" /\ q \in Runs
    <3>1. CASE q \in stray
      BY <3>1, Zenon DEF ShellInv, ShellType, StraySignals
    <3>2. CASE q \notin stray
      <4>1. q = r /\ os[pid[r]] # r
        BY <1>2, <2>1, <3>2, Zenon
      <4>2. pid[r] # NoPid
        BY Zenon DEF ShellInv, NotStarted
      <4> QED BY <4>1, <4>2, Zenon DEF ShellInv, IdKept, MonitorOrder
    <3> QED BY <3>1, <3>2, Zenon
  <2> QED BY <2>1, Zenon DEF StraySignals
<1> QED BY <1>3, <1>4, <1>5, <1>6, <1>7, Zenon DEF ShellInv

\* The steps of StopProcess.
LEMMA StopShell ==
  ASSUME ShellInv, NEW r \in Runs, Interrupt(r) \/ ProcessGone(r) \/ KillAfter(r) \/ LastLook(r)
  PROVE  ShellInv'
<1>1. CASE Interrupt(r)
  <2>1. ended' \in [Runs -> {"no", "exited", "signaled"}] /\ ended' = ended
    BY <1>1, Zenon DEF ShellInv, ShellType, Interrupt
  <2> QED BY <1>1, <2>1, KillShell, Zenon DEF Interrupt
<1>2. CASE KillAfter(r)
  <2>1. /\ ended' \in [Runs -> {"no", "exited", "signaled"}]
        /\ \A q \in Runs : ended'[q] = "no" => ended[q] = "no"
        /\ \A q \in Runs : ended[q] # "no" => ended'[q] = ended[q]
    BY <1>2, Zenon DEF ShellInv, ShellType, KillAfter
  <2>2. wclosed
    BY <1>2, Zenon DEF ShellInv, MonitorOrder, KillAfter
  <2> QED BY <1>2, <2>1, <2>2, KillShell, Zenon DEF KillAfter
<1>3. CASE ProcessGone(r) \/ LastLook(r)
  <2>1. /\ monitor' = [monitor EXCEPT ![r] = "done"] /\ monitor[r] # "none"
        /\ UNCHANGED <<wclosed, slot, of, os, pid, ended, state, seen, stray, runs>>
    BY <1>3, Zenon DEF ProcessGone, LastLook
  <2>2. ShellType' /\ NotStarted' /\ IdKept'
    BY <2>1, Zenon DEF ShellInv, ShellType, NotStarted, IdKept
  <2>3. MonitorOrder' /\ StraySignals'
    BY <2>1, Zenon DEF ShellInv, ShellType, MonitorOrder, StraySignals
  <2> QED BY <2>2, <2>3, Zenon DEF ShellInv
<1> QED BY <1>1, <1>2, <1>3, Zenon

\* Other processes come and go on ids that are not ours.
LEMMA OthersShell ==
  ASSUME MaxRuns \in Nat, ShellInv, NEW p \in Pids, Others(p)
  PROVE  ShellInv'
<1>1. PICK x \in {Free, Other} : os' = [os EXCEPT ![p] = x]
  BY Zenon DEF Others
<1>2. /\ os[p] \in {Free, Other}
      /\ UNCHANGED <<wclosed, slot, of, pid, ended, state, monitor, seen, stray, runs>>
  BY Zenon DEF Others
<1>3. ShellType' /\ NotStarted' /\ MonitorOrder' /\ StraySignals'
  BY <1>1, <1>2, Zenon DEF ShellInv, ShellType, NotStarted, MonitorOrder, StraySignals
<1>4. \A q \in Runs : pid[q] # NoPid /\ os[pid[q]] = q => os'[pid[q]] = q
  BY <1>1, <1>2, RunNumbers, PidKnown, Zenon DEF ShellInv, ShellType
<1>5. IdKept'
  BY <1>2, <1>4, Zenon DEF ShellInv, IdKept, NotStarted
<1> QED BY <1>3, <1>5, Zenon DEF ShellInv

\* Every step preserves the invariant.
LEMMA NextShell ==
  ASSUME MaxRuns \in Nat, NoPid \notin Pids, ShellInv, [ShellNext]_shellVars
  PROVE  ShellInv'
<1>1. CASE CloseShell
  BY <1>1 DEF ShellInv, ShellType, NotStarted, IdKept, MonitorOrder, StraySignals, CloseShell
<1>2. CASE \E s \in Slots : Goroutine(s)
  BY <1>2, CheckShell, StartShell, ReapShell, WaitedShell, Zenon DEF Goroutine
<1>3. CASE \E r \in Runs : Monitor(r)
  BY <1>3, LookShell, StopShell, Zenon DEF Monitor
<1>4. CASE \E r \in Runs : \E how \in {"exited", "signaled"} : Ends(r, how)
  BY <1>4, EndedShell, Zenon
<1>5. CASE \E p \in Pids : Others(p)
  BY <1>5, OthersShell, Zenon
<1>6. CASE UNCHANGED shellVars
  BY <1>6, Zenon DEF shellVars, ShellInv, ShellType, NotStarted, IdKept, MonitorOrder, StraySignals
<1> QED BY <1>1, <1>2, <1>3, <1>4, <1>5, <1>6, ZenonT(30) DEF ShellNext

\* However goroutines, monitors, processes and the reuse of ids interleave, a
\* signal of StopProcess that reaches a stranger comes from a monitor whose own
\* process has ended and that has not seen an exit: a process that still runs
\* keeps its id, and a monitor that saw the exit is done (proc.go:52-95).
THEOREM StraySignalsHolds ==
  ShellSpec => []StraySignals
<1>. MaxRuns \in Nat /\ NoPid \notin Pids
  BY ShellBounds DEF NoPid
<1>1. ShellInit => ShellInv
  BY InitShell, Zenon
<1>2. ShellInv /\ [ShellNext]_shellVars => ShellInv'
  BY NextShell, Zenon
<1>3. ShellInv => StraySignals
  BY Zenon DEF ShellInv
<1> QED BY <1>1, <1>2, <1>3, PTL DEF ShellSpec

-----------------------------------------------------------------------------
(* The process: generations that hand the listener on.                     *)

\* The types the argument needs, the history included.
WaysOut == {"failed", "killed", "panic"}
Reasons == {"none", "startup", "stop"}

LifeType ==
  /\ main \in [Procs -> {"none", "setting", "listen", "wait"} \cup WaysOut]
  /\ holds \in [Procs -> BOOLEAN]
  /\ handler \in [Procs -> {"none", "ready", "stopping", "returned"}]
  /\ gateway \in [Procs -> {"none", "serving", "draining", "done"}]
  /\ why \in [Procs -> Reasons]
  /\ born \in Procs

\* Only the newest process can be starting up: an older one had a handler when
\* it started its successor.
OnlyNewestStarts ==
  \A p \in Procs :
    /\ main[p] \in {"setting", "listen"} => p = born
    /\ p > born => main[p] = "none"

\* signalHandler and Gateway.Serve exist while main waits, and the gateway
\* drains only after the listeners were closed.
PartsOfMain ==
  \A p \in Procs :
    /\ handler[p] # "none" => main[p] = "wait"
    /\ gateway[p] # "none" => main[p] = "wait"
    /\ gateway[p] \in {"draining", "done"} => ~holds[p]

\* The inductive invariant.
LifeInv == LifeType /\ OnlyNewestStarts /\ PartsOfMain /\ SomeoneListens

-----------------------------------------------------------------------------
\* Process numbers.
LEMMA ProcNumbers ==
  ASSUME MaxProcs \in Nat \ {0}
  PROVE  /\ 1 \in Procs
         /\ \A p \in Procs : p \in Nat /\ p >= 1
         /\ \A p \in Procs : p < MaxProcs => p + 1 \in Procs
BY DEF Procs

\* The first process, before initSetting.
LEMMA InitLife ==
  ASSUME MaxProcs \in Nat \ {0}, ProcessInit
  PROVE  LifeInv
<1>1. 1 \in Procs /\ \A p \in Procs : p \in Nat
  BY ProcNumbers, Zenon
<1>2. LifeType
  BY <1>1, Zenon DEF ProcessInit, LifeType, WaysOut, Reasons
<1>3. OnlyNewestStarts
  <2>1. ASSUME NEW p \in Procs
        PROVE  main[p] = (IF p = 1 THEN "setting" ELSE "none") /\ born = 1
    BY <2>1, Zenon DEF ProcessInit
  <2>2. ASSUME NEW p \in Procs
        PROVE  /\ main[p] \in {"setting", "listen"} => p = born
               /\ p > born => main[p] = "none"
    BY <2>1, <1>1
  <2> QED BY <2>2, Zenon DEF OnlyNewestStarts
<1>4. PartsOfMain
  BY <1>1, Zenon DEF ProcessInit, PartsOfMain
<1>5. SomeoneListens
  BY <1>1, Zenon DEF ProcessInit, SomeoneListens
<1> QED BY <1>2, <1>3, <1>4, <1>5, Zenon DEF LifeInv

\* A process that ends without an heir has a reason, or had given the sockets
\* away or closed them before.
LEMMA GoneLife ==
  ASSUME MaxProcs \in Nat \ {0}, LifeInv, NEW p \in Procs, NEW how \in WaysOut,
         NEW reason \in Reasons, Gone(p, how, reason), UNCHANGED born,
         main[p] # "none",
         reason # "none" \/ (main[p] = "wait" /\ ~holds[p])
  PROVE  LifeInv'
<1>1. LifeType'
  BY Zenon DEF LifeInv, LifeType, Gone, WaysOut, Reasons
<1>2. OnlyNewestStarts'
  BY Zenon DEF LifeInv, LifeType, OnlyNewestStarts, Gone, Procs, WaysOut
<1>3. PartsOfMain'
  BY Zenon DEF LifeInv, LifeType, PartsOfMain, Gone, WaysOut
<1>4. SomeoneListens'
  BY DEF LifeInv, LifeType, OnlyNewestStarts, SomeoneListens, Gone, Procs, WaysOut, Reasons
<1> QED BY <1>1, <1>2, <1>3, <1>4, Zenon DEF LifeInv

\* The ways a process ends: start-up fails, a signal with its default effect,
\* the discovery client, and the return of main.
LEMMA EndLife ==
  ASSUME MaxProcs \in Nat \ {0}, LifeInv, NEW p \in Procs,
         StartupFails(p) \/ DefaultSignal(p) \/ DiscoveryExit(p) \/ End(p)
  PROVE  LifeInv'
<1>1. CASE StartupFails(p)
  BY <1>1, GoneLife, Zenon DEF StartupFails, WaysOut, Reasons
<1>2. CASE DefaultSignal(p)
  BY <1>2, GoneLife, Zenon DEF DefaultSignal, WaysOut, Reasons, LifeInv, PartsOfMain
<1>3. CASE DiscoveryExit(p)
  BY <1>3, GoneLife, Zenon DEF DiscoveryExit, WaysOut, Reasons
<1>4. CASE End(p)
  <2>1. main[p] = "wait" /\ ~holds[p] /\ Gone(p, "panic", "none") /\ UNCHANGED born
    BY <1>4, Zenon DEF End, LifeInv, PartsOfMain
  <2> QED BY <2>1, GoneLife, Zenon DEF WaysOut, Reasons
<1> QED BY <1>1, <1>2, <1>3, <1>4, Zenon

\* Start-up: initSetting returns, and main finds or opens the sockets.
LEMMA StartLife ==
  ASSUME MaxProcs \in Nat \ {0}, LifeInv, NEW p \in Procs, Settings(p) \/ Listen(p)
  PROVE  LifeInv'
<1>1. LifeType'
  BY Zenon DEF LifeInv, LifeType, Settings, Listen
<1>2. OnlyNewestStarts'
  BY DEF LifeInv, LifeType, OnlyNewestStarts, Settings, Listen, Procs
<1>3. PartsOfMain'
  BY DEF LifeInv, LifeType, PartsOfMain, Settings, Listen
<1>4. SomeoneListens'
  <2>1. p = born
    BY Zenon DEF LifeInv, OnlyNewestStarts, Settings, Listen
  <2>2. CASE Settings(p)
    BY <2>1, <2>2, Zenon DEF LifeInv, LifeType, SomeoneListens, Settings
  <2>3. CASE Listen(p)
    BY <2>1, <2>3, Zenon DEF LifeInv, LifeType, SomeoneListens, Listen
  <2> QED BY <2>2, <2>3, Zenon
<1> QED BY <1>1, <1>2, <1>3, <1>4, Zenon DEF LifeInv

\* signalHandler: SIGINT closes the sockets for the reason "stop", a failed
\* restart changes nothing, a successful one makes the newest process.
LEMMA HandlerLife ==
  ASSUME MaxProcs \in Nat \ {0}, LifeInv, NEW p \in Procs, Handler(p)
  PROVE  LifeInv'
<1>1. CASE Interrupted(p)
  <2>1. LifeType'
    BY <1>1, Zenon DEF LifeInv, LifeType, Interrupted, CloseListeners, Reasons
  <2>2. OnlyNewestStarts'
    BY <1>1, Zenon DEF LifeInv, OnlyNewestStarts, Interrupted
  <2>3. PartsOfMain'
    BY <1>1, Zenon DEF LifeInv, LifeType, PartsOfMain, Interrupted, CloseListeners
  <2>4. SomeoneListens'
    BY <1>1, Zenon DEF LifeInv, LifeType, SomeoneListens, Interrupted, CloseListeners
  <2> QED BY <2>1, <2>2, <2>3, <2>4, ZenonT(30) DEF LifeInv
<1>2. CASE RestartFails(p)
  BY <1>2, ZenonT(30) DEF LifeInv, LifeType, OnlyNewestStarts, PartsOfMain, SomeoneListens,
              RestartFails, Procs
<1>3. CASE Restart(p)
  <2>1. p = born /\ born' = born + 1 /\ born' \in Procs /\ main[p] = "wait"
    BY <1>3, ProcNumbers, Zenon DEF LifeInv, LifeType, PartsOfMain, SomeoneListens, Restart
  <2>2. main[born'] = "none"
    BY <2>1 DEF LifeInv, LifeType, OnlyNewestStarts, Procs
  <2>3. handler[born'] = "none" /\ gateway[born'] = "none"
    BY <2>1, <2>2, Zenon DEF LifeInv, PartsOfMain
  <2>4. LifeType'
    BY <1>3, <2>1, ZenonT(30) DEF LifeInv, LifeType, Restart
  <2>5. OnlyNewestStarts'
    BY <1>3, <2>1 DEF LifeInv, LifeType, OnlyNewestStarts, Restart, Procs
  <2>6. PartsOfMain'
    BY <1>3, <2>1, <2>3, Zenon DEF LifeInv, LifeType, PartsOfMain, Restart
  <2>7. SomeoneListens'
    BY <1>3, <2>1, Zenon DEF LifeInv, LifeType, SomeoneListens, Restart, Procs
  <2> QED BY <2>4, <2>5, <2>6, <2>7, Zenon DEF LifeInv
<1> QED BY <1>1, <1>2, <1>3, Zenon DEF Handler

\* The servers end one after the other; nobody's sockets change.
LEMMA ServersLife ==
  ASSUME MaxProcs \in Nat \ {0}, LifeInv, NEW p \in Procs, Serve(p) \/ AdminDone(p)
  PROVE  LifeInv'
<1>1. LifeType' /\ OnlyNewestStarts' /\ SomeoneListens'
  BY DEF LifeInv, LifeType, OnlyNewestStarts, SomeoneListens, Serve, Drain, Drained,
         AdminDone
<1>2. PartsOfMain'
  BY DEF LifeInv, LifeType, PartsOfMain, Serve, Drain, Drained, AdminDone
<1> QED BY <1>1, <1>2, ZenonT(30) DEF LifeInv

\* Signals that are only noted, and clients, leave all of it alone.
LEMMA OutsideLife ==
  ASSUME LifeInv, NEW p \in Procs,
         \/ \E sig \in Signals : Signal(p, sig)
         \/ Term(p) \/ Connect(p) \/ Disconnect(p)
  PROVE  LifeInv'
<1>1. UNCHANGED <<main, holds, handler, gateway, why, born>>
  BY Zenon DEF Signal, Term, Connect, Disconnect
<1> QED BY <1>1, Zenon DEF LifeInv, LifeType, OnlyNewestStarts, PartsOfMain, SomeoneListens

\* Every step preserves the invariant.
LEMMA NextLife ==
  ASSUME MaxProcs \in Nat \ {0}, LifeInv, [ProcessNext]_procVars
  PROVE  LifeInv'
<1>1. CASE ProcessNext
  <2>1. PICK p \in Procs :
          \/ StartupFails(p) \/ DefaultSignal(p) \/ DiscoveryExit(p) \/ End(p)
          \/ Settings(p) \/ Listen(p)
          \/ Handler(p)
          \/ Serve(p) \/ AdminDone(p)
          \/ \E sig \in Signals : Signal(p, sig)
          \/ Term(p) \/ Connect(p) \/ Disconnect(p)
    BY <1>1, Zenon DEF ProcessNext, ProcessSteps, Handler, Serve
  <2> QED BY <2>1, EndLife, StartLife, HandlerLife, ServersLife, OutsideLife, ZenonT(30)
<1>2. CASE UNCHANGED procVars
  BY <1>2, ZenonT(30) DEF procVars, LifeInv, LifeType, OnlyNewestStarts, PartsOfMain, SomeoneListens
<1> QED BY <1>1, <1>2, Zenon

\* Through any number of restarts, successful, failed and repeated, and with
\* processes that end at any point, the newest process and no other holds the
\* listening sockets, until it was told to stop or did not survive its start-up
\* (signal.go:16-47, main.go:41-90).
THEOREM SomeoneListensHolds ==
  ProcessSpec => []SomeoneListens
<1>1. ProcessInit => LifeInv
  BY InitLife, ProcessBounds, Zenon
<1>2. LifeInv /\ [ProcessNext]_procVars => LifeInv'
  BY NextLife, ProcessBounds, Zenon
<1>3. LifeInv => SomeoneListens
  BY Zenon DEF LifeInv
<1> QED BY <1>1, <1>2, <1>3, PTL DEF ProcessSpec
=============================================================================
