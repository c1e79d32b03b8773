--------------------------- MODULE ProtocolProofs ---------------------------
(***************************************************************************)
(* Proofs about the redis protocol: the replies that the gateway writes to *)
(* its clients, the replies that a connection of the client library reads, *)
(* and what the library's commands make of them.                           *)
(***************************************************************************)
EXTENDS Gateway, RedisConn, RedisCommands, FiniteSetTheorems, TLAPS

-----------------------------------------------------------------------------
(* Gateway: every session by itself.                                       *)

Reply == [cmd : Nat, kind : Kinds]

\* A session's commands are numbered, and its replies belong to commands it has
\* sent.
SessionType ==
  /\ cmds \in [Clients -> Nat]
  /\ replies \in [Clients -> Seq(Reply)]
  /\ faults \in Nat
  /\ \A c \in Clients : \A i \in DOMAIN replies[c] : replies[c][i].cmd \in 1 .. cmds[c]
  /\ \A p \in push : p.client \in Clients /\ p.cmd \in 1 .. cmds[p.client]

\* Every reply to a push says what AddJobs returned, and there is one.
Told(p) == IF p.refused THEN "error" ELSE "ids"
PushAnswered ==
  \A p \in push :
    /\ \A i \in DOMAIN replies[p.client] :
         replies[p.client][i].cmd = p.cmd => replies[p.client][i].kind = Told(p)
    /\ \E i \in DOMAIN replies[p.client] : replies[p.client][i].cmd = p.cmd

\* What a push left in the lists agrees with what AddJobs returned.
PushKept ==
  \A p \in push :
    /\ p.refused => \A t \in DOMAIN p.copies : p.copies[t] = 0
    /\ ~p.refused =>
         /\ DOMAIN p.copies # {}
         /\ Cardinality({t \in DOMAIN p.copies : p.copies[t] = 0}) \in 0 .. faults
    /\ p.refused => <<p.client, p.cmd, FALSE>> \in counted
    /\ ~p.refused => <<p.client, p.cmd, TRUE>> \in counted

\* The inductive invariant.
SessionInv == SessionType /\ RepliesInStep /\ PushAnswered /\ PushKept

\* The commands of a session that were refused pushes are finitely many.
LEMMA RefusedFinite ==
  ASSUME SessionType, NEW c \in Clients
  PROVE  /\ Refused(c) \subseteq 1 .. cmds[c]
         /\ IsFiniteSet(Refused(c))
         /\ Cardinality(Refused(c)) \in Nat
<1>1. Refused(c) \subseteq 1 .. cmds[c]
  BY Zenon DEF Refused, SessionType
<1>2. IsFiniteSet(1 .. cmds[c])
  BY FS_Interval DEF SessionType
<1> QED BY <1>1, <1>2, FS_Subset, FS_CardinalityType, Zenon

\* What writing replies adds to the stream of a session.
LEMMA RepliesWritten ==
  ASSUME SessionType, NEW c \in Clients, NEW kinds \in Seq(Kinds), WriteReplies(c, kinds)
  PROVE  /\ replies' \in [Clients -> Seq(Reply)]
         /\ \A d \in Clients : d # c => replies'[d] = replies[d]
         /\ Len(replies[c]) \in Nat /\ DOMAIN replies[c] = 1 .. Len(replies[c])
         /\ Len(kinds) \in Nat
         /\ DOMAIN replies'[c] = 1 .. Len(replies[c]) + Len(kinds)
         /\ Len(replies'[c]) = Len(replies[c]) + Len(kinds)
         /\ \A i \in 1 .. Len(replies[c]) : replies'[c][i] = replies[c][i]
         /\ \A i \in 1 .. Len(replies[c]) + Len(kinds) : i \notin 1 .. Len(replies[c]) =>
              /\ i - Len(replies[c]) \in 1 .. Len(kinds)
              /\ replies'[c][i].cmd = cmds[c] + 1
              /\ replies'[c][i].kind = kinds[i - Len(replies[c])]
<1> DEFINE new == [i \in DOMAIN kinds |-> [cmd |-> cmds[c] + 1, kind |-> kinds[i]]]
<1>1. cmds[c] + 1 \in Nat /\ replies[c] \in Seq(Reply) /\ replies \in [Clients -> Seq(Reply)]
  BY DEF SessionType
<1>2. /\ DOMAIN kinds = 1 .. Len(kinds) /\ Len(kinds) \in Nat
      /\ \A i \in 1 .. Len(kinds) : kinds[i] \in Kinds
  OBVIOUS
<1>3. \A i \in 1 .. Len(kinds) : [cmd |-> cmds[c] + 1, kind |-> kinds[i]] \in Reply
  BY <1>1, <1>2, Zenon DEF Reply
<1>4. new \in Seq(Reply) /\ Len(new) = Len(kinds)
  BY <1>2, <1>3
<1>5. \A i \in 1 .. Len(kinds) : new[i].cmd = cmds[c] + 1 /\ new[i].kind = kinds[i]
  BY <1>2, Zenon
<1>6. replies' = [replies EXCEPT ![c] = @ \o new]
  BY Zenon DEF WriteReplies
<1> HIDE DEF new
<1>7. replies'[c] = replies[c] \o new /\ replies[c] \o new \in Seq(Reply)
  BY <1>1, <1>4, <1>6
<1>8. /\ Len(replies[c]) \in Nat /\ DOMAIN replies[c] = 1 .. Len(replies[c])
      /\ Len(replies[c] \o new) = Len(replies[c]) + Len(kinds)
      /\ DOMAIN (replies[c] \o new) = 1 .. Len(replies[c]) + Len(kinds)
      /\ \A i \in 1 .. Len(replies[c]) : (replies[c] \o new)[i] = replies[c][i]
      /\ \A i \in 1 .. Len(replies[c]) + Len(kinds) : i \notin 1 .. Len(replies[c]) =>
           i - Len(replies[c]) \in 1 .. Len(kinds)
           /\ (replies[c] \o new)[i] = new[i - Len(replies[c])]
  BY <1>1, <1>2, <1>4
<1>9. \A d \in Clients : d # c => replies'[d] = replies[d]
  BY <1>1, <1>6, Zenon
<1>10. replies' \in [Clients -> Seq(Reply)]
  BY <1>1, <1>6, <1>7, Zenon
<1> QED BY <1>2, <1>5, <1>7, <1>8, <1>9, <1>10

\* Place i of the stream is right for a reply to command n.
OnTime(i, n, refused) ==
  i - n - Cardinality({k \in refused : k < n}) \in IF n \in refused THEN {0, 1} ELSE {0}

\* The places of the one or two replies to command n + 1, after n commands of
\* which r were answered twice.
LEMMA PlaceOfReply ==
  ASSUME NEW n \in Nat, NEW r \in Nat, NEW i
  PROVE  /\ i \in 1 .. (n + r) + 1 /\ i \notin 1 .. n + r => i - (n + 1) - r = 0
         /\ i \in 1 .. (n + r) + 2 /\ i \notin 1 .. n + r => i - (n + 1) - r \in {0, 1}
  OBVIOUS

\* A session gets one reply for its command, or two for a refused push.
LEMMA StepKept ==
  ASSUME SessionType, SessionType', RepliesInStep, NEW c \in Clients, NEW kinds \in Seq(Kinds),
         WriteReplies(c, kinds), cmds' = [cmds EXCEPT ![c] = @ + 1],
         \A d \in Clients : d # c => Refused(d)' = Refused(d),
         \/ Refused(c)' = Refused(c) /\ Len(kinds) = 1
         \/ Refused(c)' = Refused(c) \cup {cmds[c] + 1} /\ Len(kinds) = 2
  PROVE  RepliesInStep'
<1> DEFINE InStep(d) ==
      /\ Len(replies[d]) = cmds[d] + Cardinality(Refused(d))
      /\ \A i \in DOMAIN replies[d] : OnTime(i, replies[d][i].cmd, Refused(d))
<1>1. RepliesInStep <=> \A d \in Clients : InStep(d)
  BY Zenon DEF RepliesInStep, OnTime
<1>2. ASSUME NEW d \in Clients, d # c
      PROVE  InStep(d)'
  <2>1. replies'[d] = replies[d] /\ cmds'[d] = cmds[d] /\ Refused(d)' = Refused(d)
    BY <1>2, RepliesWritten DEF SessionType
  <2> QED BY <1>1, <2>1, Zenon
<1>3. InStep(c)'
  <2> DEFINE R == Refused(c)
             N == cmds[c] + 1
             L == Len(replies[c])
  <2>1. /\ R \subseteq 1 .. cmds[c] /\ IsFiniteSet(R) /\ Cardinality(R) \in Nat
        /\ cmds[c] \in Nat /\ cmds'[c] = N /\ L \in Nat
    BY RefusedFinite DEF SessionType
  <2>2. L = cmds[c] + Cardinality(R)
    BY <1>1, Zenon
  <2>3. /\ DOMAIN replies[c] = 1 .. L
        /\ DOMAIN replies'[c] = 1 .. L + Len(kinds) /\ Len(replies'[c]) = L + Len(kinds)
        /\ \A i \in 1 .. L : replies'[c][i] = replies[c][i]
        /\ \A i \in 1 .. L + Len(kinds) : i \notin 1 .. L => replies'[c][i].cmd = N
    BY RepliesWritten, Zenon
  <2>4. /\ \A m \in 1 .. N : {k \in Refused(c)' : k < m} = {k \in R : k < m}
        /\ {k \in R : k < N} = R
        /\ \A m \in 1 .. cmds[c] : m \in Refused(c)' <=> m \in R
    BY <2>1
  <2>5. Len(replies'[c]) = cmds'[c] + Cardinality(Refused(c)')
    <3>1. CASE Refused(c)' = R /\ Len(kinds) = 1
      BY <2>1, <2>2, <2>3, <3>1
    <3>2. CASE Refused(c)' = R \cup {N} /\ Len(kinds) = 2
      <4>1. N \notin R
        BY <2>1
      <4>2. Cardinality(R \cup {N}) = Cardinality(R) + 1
        BY <2>1, <4>1, FS_AddElement, Zenon
      <4> QED BY <2>1, <2>2, <2>3, <3>2, <4>2
    <3> QED BY <3>1, <3>2, Zenon
  <2>6. ASSUME NEW i \in 1 .. L
        PROVE  OnTime(i, replies'[c][i].cmd, Refused(c)')
    <3>1. replies'[c][i] = replies[c][i] /\ replies[c][i].cmd \in 1 .. cmds[c]
      BY <2>3, Zenon DEF SessionType
    <3>2. PICK m \in 1 .. cmds[c] : m = replies[c][i].cmd
      BY <3>1, Zenon
    <3>3. m \in 1 .. N
      BY <2>1
    <3>4. {k \in Refused(c)' : k < m} = {k \in R : k < m} /\ (m \in Refused(c)' <=> m \in R)
      BY <2>4, <3>3, Zenon
    <3>5. OnTime(i, m, R)
      BY <1>1, <2>3, <3>2, Zenon
    <3>6. OnTime(i, m, Refused(c)')
      BY <3>4, <3>5, Zenon DEF OnTime
    <3> QED BY <3>1, <3>2, <3>6, Zenon
  <2>7. ASSUME NEW i \in 1 .. L + Len(kinds), i \notin 1 .. L
        PROVE  OnTime(i, replies'[c][i].cmd, Refused(c)')
    <3>1. replies'[c][i].cmd = N /\ N \in 1 .. N
      BY <2>1, <2>3, <2>7
    <3>2. Cardinality({k \in Refused(c)' : k < N}) = Cardinality(R)
      BY <2>4, <3>1, Zenon
    <3>3. i - N - Cardinality(R) \in IF N \in Refused(c)' THEN {0, 1} ELSE {0}
      <4>1. PICK r \in Nat : r = Cardinality(R)
        BY <2>1, Zenon
      <4>2. cmds[c] \in Nat /\ L = cmds[c] + r
        BY <2>1, <2>2, <4>1, Zenon
      <4>3. CASE Refused(c)' = R /\ Len(kinds) = 1
        <5>1. i \in 1 .. (cmds[c] + r) + 1 /\ i \notin 1 .. cmds[c] + r
          BY <2>7, <4>2, <4>3, Zenon
        <5>2. i - N - r = 0
          BY <4>2, <5>1, PlaceOfReply, Zenon
        <5> QED BY <4>1, <5>2, Zenon
      <4>4. CASE Refused(c)' = R \cup {N} /\ Len(kinds) = 2
        <5>1. i \in 1 .. (cmds[c] + r) + 2 /\ i \notin 1 .. cmds[c] + r
          BY <2>7, <4>2, <4>4, Zenon
        <5>2. i - N - r \in {0, 1}
          BY <4>2, <5>1, PlaceOfReply, Zenon
        <5>3. N \in Refused(c)'
          BY <4>4, Zenon
        <5> QED BY <4>1, <5>2, <5>3, Zenon
      <4> QED BY <4>3, <4>4, Zenon
    <3> QED BY <3>1, <3>2, <3>3, Zenon DEF OnTime
  <2>8. \A i \in DOMAIN replies'[c] : OnTime(i, replies'[c][i].cmd, Refused(c)')
    BY <2>3, <2>6, <2>7, Zenon
  <2> QED BY <2>5, <2>8, Zenon
<1>4. RepliesInStep' <=> \A d \in Clients : InStep(d)'
  BY Zenon DEF RepliesInStep, OnTime
<1> QED BY <1>2, <1>3, <1>4, Zenon

\* A command that gets new replies numbered after all others, and at most adds
\* one push with its number, leaves the session well numbered.
LEMMA TypeKept ==
  ASSUME SessionType, NEW c \in Clients, NEW kinds \in Seq(Kinds), WriteReplies(c, kinds),
         cmds' = [cmds EXCEPT ![c] = @ + 1], faults' \in Nat,
         \A p \in push' : p \in push \/ (p.client = c /\ p.cmd = cmds[c] + 1)
  PROVE  SessionType'
<1>1. cmds' \in [Clients -> Nat] /\ cmds[c] \in Nat /\ cmds'[c] = cmds[c] + 1
  BY DEF SessionType
<1>2. \A d \in Clients : \A m \in 1 .. cmds[d] : m \in 1 .. cmds'[d]
  BY <1>1 DEF SessionType
<1>3. ASSUME NEW d \in Clients, NEW i \in DOMAIN replies'[d]
      PROVE  replies'[d][i].cmd \in 1 .. cmds'[d]
  <2>1. CASE d # c
    <3>1. replies'[d] = replies[d]
      BY <2>1, RepliesWritten, Zenon
    <3> QED BY <1>2, <1>3, <3>1, Zenon DEF SessionType
  <2>2. CASE d = c
    <3>1. \/ i \in DOMAIN replies[c] /\ replies'[c][i] = replies[c][i]
          \/ replies'[c][i].cmd = cmds[c] + 1
      <4>1. /\ DOMAIN replies[c] = 1 .. Len(replies[c])
            /\ DOMAIN replies'[c] = 1 .. Len(replies[c]) + Len(kinds)
            /\ \A k \in 1 .. Len(replies[c]) : replies'[c][k] = replies[c][k]
            /\ \A k \in 1 .. Len(replies[c]) + Len(kinds) :
                 k \notin 1 .. Len(replies[c]) => replies'[c][k].cmd = cmds[c] + 1
        BY RepliesWritten, Zenon
      <4> QED BY <1>3, <2>2, <4>1, Zenon
    <3>2. cmds[c] + 1 \in 1 .. cmds'[c]
      BY <1>1
    <3> QED BY <1>2, <2>2, <3>1, <3>2, Zenon DEF SessionType
  <2> QED BY <2>1, <2>2, Zenon
<1>4. ASSUME NEW p \in push'
      PROVE  p.client \in Clients /\ p.cmd \in 1 .. cmds'[p.client]
  <2>1. CASE p \in push
    BY <1>2, <2>1, Zenon DEF SessionType
  <2>2. CASE p.client = c /\ p.cmd = cmds[c] + 1
    <3>1. cmds[c] + 1 \in 1 .. cmds'[c]
      BY <1>1
    <3> QED BY <2>2, <3>1, Zenon
  <2> QED BY <1>4, <2>1, <2>2, Zenon
<1>5. replies' \in [Clients -> Seq(Reply)]
  BY RepliesWritten, Zenon
<1> QED BY <1>1, <1>3, <1>4, <1>5, Zenon DEF SessionType

\* Replies to a later command do not change what an earlier push was told.
LEMMA ToldKept ==
  ASSUME SessionType, PushAnswered, NEW c \in Clients, NEW kinds \in Seq(Kinds),
         WriteReplies(c, kinds), NEW p \in push
  PROVE  /\ \A i \in DOMAIN replies'[p.client] :
              replies'[p.client][i].cmd = p.cmd => replies'[p.client][i].kind = Told(p)
         /\ \E i \in DOMAIN replies'[p.client] : replies'[p.client][i].cmd = p.cmd
<1>1. /\ p.client \in Clients /\ p.cmd \in 1 .. cmds[p.client]
      /\ cmds[c] \in Nat
  BY Zenon DEF SessionType
<1>2. CASE p.client # c
  <2>1. replies'[p.client] = replies[p.client]
    BY <1>1, <1>2, RepliesWritten, Zenon
  <2> QED BY <2>1, Zenon DEF PushAnswered
<1>3. CASE p.client = c
  <2>1. /\ \A i \in DOMAIN replies[c] : i \in DOMAIN replies'[c] /\ replies'[c][i] = replies[c][i]
        /\ \A i \in DOMAIN replies'[c] : i \notin DOMAIN replies[c] =>
             replies'[c][i].cmd = cmds[c] + 1
    <3>1. /\ Len(replies[c]) \in Nat /\ DOMAIN replies[c] = 1 .. Len(replies[c])
          /\ Len(kinds) \in Nat /\ DOMAIN replies'[c] = 1 .. Len(replies[c]) + Len(kinds)
          /\ \A i \in 1 .. Len(replies[c]) : replies'[c][i] = replies[c][i]
          /\ \A i \in 1 .. Len(replies[c]) + Len(kinds) :
               i \notin 1 .. Len(replies[c]) => replies'[c][i].cmd = cmds[c] + 1
      BY RepliesWritten, Zenon
    <3> QED BY <3>1
  <2>2. p.cmd # cmds[c] + 1
    BY <1>1, <1>3
  <2>3. \A i \in DOMAIN replies[c] :
          replies[c][i].cmd = p.cmd => replies[c][i].kind = Told(p)
    BY <1>3, Zenon DEF PushAnswered
  <2>4. PICK i \in DOMAIN replies[c] : replies[c][i].cmd = p.cmd
    BY <1>3, Zenon DEF PushAnswered
  <2>5. \A j \in DOMAIN replies'[c] :
          replies'[c][j].cmd = p.cmd => replies'[c][j].kind = Told(p)
    BY <2>1, <2>2, <2>3, Zenon
  <2>6. \E j \in DOMAIN replies'[c] : replies'[c][j].cmd = p.cmd
    BY <2>1, <2>4, Zenon
  <2> QED BY <1>3, <2>5, <2>6, Zenon
<1> QED BY <1>2, <1>3, Zenon

\* A command other than a push that AddJobs saw.
LEMMA AnswerKeeps ==
  ASSUME SessionInv, NEW c \in Clients, NEW kind \in Kinds, TakeCmd(c),
         WriteReplies(c, <<kind>>), UNCHANGED <<push, counted>>, faults' \in Nat, faults <= faults'
  PROVE  SessionInv'
<1>1. <<kind>> \in Seq(Kinds) /\ Len(<<kind>>) = 1
  OBVIOUS
<1>2. cmds' = [cmds EXCEPT ![c] = @ + 1]
  BY Zenon DEF TakeCmd
<1>3. SessionType /\ SessionType'
  BY <1>1, <1>2, TypeKept, Zenon DEF SessionInv
<1>4. \A d \in Clients : Refused(d)' = Refused(d)
  BY Zenon DEF Refused
<1>5. RepliesInStep'
  BY <1>1, <1>2, <1>3, <1>4, StepKept, Zenon DEF SessionInv
<1>6. PushAnswered'
  <2>1. \A p \in push :
          /\ \A i \in DOMAIN replies'[p.client] :
               replies'[p.client][i].cmd = p.cmd => replies'[p.client][i].kind = Told(p)
          /\ \E i \in DOMAIN replies'[p.client] : replies'[p.client][i].cmd = p.cmd
    BY <1>1, <1>3, ToldKept, Zenon DEF SessionInv
  <2> QED BY <2>1, Zenon DEF PushAnswered, Told
<1>7. PushKept'
  <2>1. \A k \in 0 .. faults : k \in 0 .. faults'
    BY <1>3 DEF SessionType
  <2> QED BY <2>1, Zenon DEF PushKept, SessionInv
<1> QED BY <1>3, <1>5, <1>6, <1>7, Zenon DEF SessionInv

\* The topics without a copy are among those whose redis call went wrong.
LEMMA MissedCounted ==
  ASSUME NEW copies \in [mux -> CopyCounts]
  PROVE  /\ Cardinality({t \in mux : copies[t] # 1}) \in Nat
         /\ Cardinality({t \in mux : copies[t] = 0}) \in
              0 .. Cardinality({t \in mux : copies[t] # 1})
<1> DEFINE odd == {t \in mux : copies[t] # 1}
           unsent == {t \in mux : copies[t] = 0}
<1>1. IsFiniteSet(Topics) /\ odd \subseteq Topics /\ unsent \subseteq odd
  BY GatewayBounds DEF mux, ConfTopics
<1>2. IsFiniteSet(odd) /\ IsFiniteSet(unsent)
  BY <1>1, FS_Subset, Zenon
<1>3. Cardinality(unsent) <= Cardinality(odd)
  BY <1>1, <1>2, FS_Subset, Zenon
<1>4. Cardinality(unsent) \in Nat /\ Cardinality(odd) \in Nat
  BY <1>2, FS_CardinalityType, Zenon
<1> QED BY <1>3, <1>4

\* A push that reached AddJobs: one more push of the session, told what AddJobs
\* returned.
LEMMA LpushKeeps ==
  ASSUME SessionInv, NEW c \in Clients, NEW n \in 0 .. 1, Lpush(c, n)
  PROVE  SessionInv'
<1>1. PICK copies \in [mux -> CopyCounts] :
        LET p == [client |-> c, cmd |-> cmds[c] + 1,
                  refused |-> AddJobsError(n, copies),
                  copies |-> [t \in mux |-> n * copies[t]]]
        IN  /\ TakeCmd(c)
            /\ faults' = faults + Cardinality({t \in mux : copies[t] # 1})
            /\ push' = push \cup {p}
            /\ WriteReplies(c, LpushReplies(p.refused))
            /\ counted' = counted \cup {<<c, p.cmd, ~p.refused>>}
  BY Zenon DEF Lpush
<1>2. PICK r \in BOOLEAN : r = AddJobsError(n, copies)
  BY Zenon DEF AddJobsError
<1> DEFINE N == cmds[c] + 1
           kinds == LpushReplies(r)
           left == [t \in mux |-> n * copies[t]]
           p == [client |-> c, cmd |-> N, refused |-> r, copies |-> left]
<1>3. /\ p.client = c /\ p.cmd = N /\ p.refused = r /\ p.copies = left
      /\ TakeCmd(c)
      /\ faults' = faults + Cardinality({t \in mux : copies[t] # 1})
      /\ push' = push \cup {p}
      /\ WriteReplies(c, kinds)
      /\ counted' = counted \cup {<<c, N, ~r>>}
  BY <1>1, <1>2, Zenon
<1>4. cmds' = [cmds EXCEPT ![c] = @ + 1] /\ cmds[c] \in Nat /\ SessionType
  BY <1>3, Zenon DEF TakeCmd, SessionInv, SessionType
<1>5. faults \in Nat /\ faults' \in Nat /\ faults <= faults'
      /\ \A k \in 0 .. Cardinality({t \in mux : copies[t] # 1}) : k \in 0 .. faults'
  <2>1. PICK d \in Nat : d = Cardinality({t \in mux : copies[t] # 1})
    BY MissedCounted, Zenon
  <2>2. faults \in Nat /\ faults' = faults + d
    BY <1>3, <1>4, <2>1, Zenon DEF SessionType
  <2>3. faults' \in Nat /\ faults <= faults' /\ \A k \in 0 .. d : k \in 0 .. faults'
    BY <2>2
  <2> QED BY <2>1, <2>2, <2>3, Zenon
<1>6. /\ kinds \in Seq(Kinds)
      /\ r => Len(kinds) = 2 /\ kinds[1] = "error" /\ kinds[2] = "error"
      /\ ~r => Len(kinds) = 1 /\ kinds[1] = "ids"
  <2>1. CASE r
    <3>1. kinds = <<"error", "error">>
      BY <2>1, Zenon DEF LpushReplies
    <3>2. "error" \in Kinds
      BY Zenon DEF Kinds
    <3>3. <<"error", "error">> \in Seq(Kinds)
      BY <3>2
    <3> HIDE DEF kinds
    <3> QED BY <2>1, <3>1, <3>3, Zenon
  <2>2. CASE ~r
    <3>1. kinds = <<"ids">>
      BY <2>2, Zenon DEF LpushReplies
    <3> QED BY <2>2, <3>1 DEF Kinds
  <2> QED BY <2>1, <2>2, Zenon
<1> HIDE DEF p, kinds
<1>7. SessionType'
  <2>1. \A q \in push' : q \in push \/ (q.client = c /\ q.cmd = cmds[c] + 1)
    BY <1>3, Zenon
  <2> QED BY <1>3, <1>4, <1>5, <1>6, <2>1, TypeKept, Zenon
<1>8. RepliesInStep'
  <2>1. ASSUME NEW d \in Clients, d # c
        PROVE  Refused(d)' = Refused(d)
    BY <1>3, <2>1, Zenon DEF Refused
  <2>2. r => Refused(c)' = Refused(c) \cup {N}
    BY <1>3, Zenon DEF Refused
  <2>3. ~r => Refused(c)' = Refused(c)
    BY <1>3, Zenon DEF Refused
  <2>4. \/ Refused(c)' = Refused(c) /\ Len(kinds) = 1
        \/ Refused(c)' = Refused(c) \cup {cmds[c] + 1} /\ Len(kinds) = 2
    BY <1>6, <2>2, <2>3, Zenon
  <2>5. RepliesInStep
    BY Zenon DEF SessionInv
  <2> QED BY <1>3, <1>4, <1>6, <1>7, <2>1, <2>4, <2>5, StepKept, Zenon
<1>9. PushAnswered'
  <2>1. ASSUME NEW q \in push
        PROVE  /\ \A i \in DOMAIN replies'[q.client] :
                    replies'[q.client][i].cmd = q.cmd => replies'[q.client][i].kind = Told(q)
               /\ \E i \in DOMAIN replies'[q.client] : replies'[q.client][i].cmd = q.cmd
    BY <1>3, <1>4, <1>6, ToldKept, Zenon DEF SessionInv
  <2>2. PICK L \in Nat :
          /\ DOMAIN replies[c] = 1 .. L
          /\ Len(kinds) \in Nat
          /\ DOMAIN replies'[c] = 1 .. L + Len(kinds)
          /\ \A i \in 1 .. L : replies'[c][i] = replies[c][i]
          /\ \A i \in 1 .. L + Len(kinds) : i \notin 1 .. L =>
               /\ i - L \in 1 .. Len(kinds)
               /\ replies'[c][i].cmd = N
               /\ replies'[c][i].kind = kinds[i - L]
    <3>1. /\ Len(replies[c]) \in Nat
          /\ DOMAIN replies[c] = 1 .. Len(replies[c])
          /\ Len(kinds) \in Nat
          /\ DOMAIN replies'[c] = 1 .. Len(replies[c]) + Len(kinds)
          /\ \A i \in 1 .. Len(replies[c]) : replies'[c][i] = replies[c][i]
          /\ \A i \in 1 .. Len(replies[c]) + Len(kinds) : i \notin 1 .. Len(replies[c]) =>
               /\ i - Len(replies[c]) \in 1 .. Len(kinds)
               /\ replies'[c][i].cmd = N
               /\ replies'[c][i].kind = kinds[i - Len(replies[c])]
      BY <1>3, <1>4, <1>6, RepliesWritten
    <3> QED BY <3>1, Zenon
  <2>3. \A i \in 1 .. L : replies'[c][i].cmd # N
    <3>1. \A i \in 1 .. L : replies[c][i].cmd \in 1 .. cmds[c]
      BY <1>4, <2>2, Zenon DEF SessionType
    <3>2. \A k \in 1 .. cmds[c] : k # N
      BY <1>4
    <3>3. \A i \in 1 .. L : replies'[c][i] = replies[c][i]
      BY <2>2, Zenon
    <3> QED BY <3>1, <3>2, <3>3, Zenon
  <2>4. \A k \in 1 .. Len(kinds) : kinds[k] = Told(p)
    BY <1>3, <1>6 DEF Told
  <2>5. \A i \in DOMAIN replies'[c] : replies'[c][i].cmd = N => replies'[c][i].kind = Told(p)
    BY <2>2, <2>3, <2>4, Zenon
  <2>6. \E i \in DOMAIN replies'[c] : replies'[c][i].cmd = N
    <3>1. L + 1 \in DOMAIN replies'[c] /\ L + 1 \notin 1 .. L
      BY <1>6, <2>2
    <3> QED BY <2>2, <3>1, Zenon
  <2>7. \A q \in push' : q \in push \/ q = p
    BY <1>3, Zenon
  <2>8. \A q : Told(q)' = Told(q)
    BY Zenon DEF Told
  <2>9. p.client = c /\ p.cmd = N
    BY <1>3, Zenon
  <2> QED BY <2>1, <2>5, <2>6, <2>7, <2>8, <2>9, Zenon DEF PushAnswered
<1>10. PushKept'
  <2>1. \A k \in 0 .. faults : k \in 0 .. faults'
    BY <1>5
  <2>2. ASSUME NEW q \in push
        PROVE  /\ q.refused => \A t \in DOMAIN q.copies : q.copies[t] = 0
               /\ ~q.refused =>
                    /\ DOMAIN q.copies # {}
                    /\ Cardinality({t \in DOMAIN q.copies : q.copies[t] = 0}) \in 0 .. faults'
               /\ q.refused => <<q.client, q.cmd, FALSE>> \in counted'
               /\ ~q.refused => <<q.client, q.cmd, TRUE>> \in counted'
    BY <1>3, <2>1, Zenon DEF PushKept, SessionInv
  <2>3. DOMAIN left = mux /\ \A t \in mux : left[t] = n * copies[t] /\ copies[t] \in Nat
    BY DEF CopyCounts
  <2>4. r => \A t \in DOMAIN left : left[t] = 0
    <3>1. r => mux = {} \/ n = 0
      BY <1>2, Zenon DEF AddJobsError
    <3> QED BY <2>3, <3>1
  <2>5. ASSUME ~r
        PROVE  DOMAIN left # {} /\ Cardinality({t \in DOMAIN left : left[t] = 0}) \in 0 .. faults'
    <3>0. n # 0 /\ mux # {}
      BY <1>2, <2>5, Zenon DEF AddJobsError
    <3>1. n = 1 /\ mux # {}
      BY <3>0
    <3>2. {t \in DOMAIN left : left[t] = 0} = {t \in mux : copies[t] = 0}
      BY <2>3, <3>1
    <3> QED BY <1>5, <2>3, <3>1, <3>2, MissedCounted, Zenon
  <2>6. r => <<c, N, FALSE>> \in counted'
    BY <1>3, Zenon
  <2>7. ~r => <<c, N, TRUE>> \in counted'
    BY <1>3, Zenon
  <2>8. /\ p.refused => \A t \in DOMAIN p.copies : p.copies[t] = 0
        /\ ~p.refused =>
             /\ DOMAIN p.copies # {}
             /\ Cardinality({t \in DOMAIN p.copies : p.copies[t] = 0}) \in 0 .. faults'
        /\ p.refused => <<p.client, p.cmd, FALSE>> \in counted'
        /\ ~p.refused => <<p.client, p.cmd, TRUE>> \in counted'
    BY <1>3, <2>4, <2>5, <2>6, <2>7, Zenon
  <2>9. \A q \in push' : q \in push \/ q = p
    BY <1>3, Zenon
  <2> QED BY <2>2, <2>8, <2>9, Zenon DEF PushKept
<1> QED BY <1>7, <1>8, <1>9, <1>10, Zenon DEF SessionInv

\* An update of the configuration writes no reply.
LEMMA SessionUndisturbed ==
  ASSUME SessionInv, UNCHANGED <<replies, cmds, push, counted, faults>>
  PROVE  SessionInv'
<1>1. SessionType'
  BY Zenon DEF SessionInv, SessionType
<1>2. RepliesInStep'
  <2>1. \A d : Refused(d)' = Refused(d)
    BY Zenon DEF Refused
  <2> QED BY <2>1, Zenon DEF SessionInv, RepliesInStep
<1>3. PushAnswered'
  BY Zenon DEF SessionInv, PushAnswered, Told
<1>4. PushKept'
  BY Zenon DEF SessionInv, PushKept
<1> QED BY <1>1, <1>2, <1>3, <1>4, Zenon DEF SessionInv

\* No session has sent anything.
LEMMA InitSession == GatewayInit => SessionInv
<1> SUFFICES ASSUME GatewayInit PROVE SessionInv
  OBVIOUS
<1>1. /\ cmds = [c \in Clients |-> 0] /\ replies = [c \in Clients |-> <<>>]
      /\ push = {} /\ faults = 0
  BY Zenon DEF GatewayInit
<1>2. SessionType
  BY <1>1 DEF SessionType
<1>3. \A c \in Clients : Refused(c) = {} /\ Cardinality({}) = 0
  BY <1>1, FS_EmptySet, Zenon DEF Refused
<1>4. RepliesInStep
  <2> SUFFICES ASSUME NEW c \in Clients
               PROVE  /\ Len(replies[c]) = cmds[c] + Cardinality(Refused(c))
                      /\ DOMAIN replies[c] = {}
    BY Zenon DEF RepliesInStep
  <2>1. replies[c] = <<>> /\ cmds[c] = 0 /\ Cardinality(Refused(c)) = 0
    BY <1>1, <1>3, Zenon
  <2> QED BY <2>1
<1>5. PushAnswered /\ PushKept
  BY <1>1, Zenon DEF PushAnswered, PushKept
<1> QED BY <1>2, <1>4, <1>5, Zenon DEF SessionInv

\* The handlers other than that of a push which AddJobs saw write one reply.
LEMMA HandlersAnswerOnce ==
  ASSUME SessionInv, NEW c \in Clients,
         \/ \E name \in Written, pw \in Passwords : Auth(c, name, pw)
         \/ AuthMalformed(c)
         \/ TooFewArgs(c)
         \/ Ping(c)
         \/ Info(c)
         \/ LpushNoAuth(c)
         \/ \E name \in Written \ {<<Queue>>} : Rpop(c, name) \/ RpopFails(c, name)
  PROVE  SessionInv'
<1>1. \A k \in {"error", "ok", "job", "nil"} : k \in Kinds
  BY Zenon DEF Kinds
<1>2. faults \in Nat
  BY Zenon DEF SessionInv, SessionType
<1> SUFFICES \E kind \in Kinds :
               /\ TakeCmd(c) /\ WriteReplies(c, <<kind>>)
               /\ UNCHANGED <<push, counted>> /\ faults' \in Nat /\ faults <= faults'
  BY AnswerKeeps, Zenon
<1>3. ASSUME NEW name \in Written, NEW pw \in Passwords, Auth(c, name, pw)
      PROVE  \E kind \in Kinds :
               /\ TakeCmd(c) /\ WriteReplies(c, <<kind>>)
               /\ UNCHANGED <<push, counted>> /\ faults' = faults
  BY <1>1, <1>3, Zenon DEF Auth
<1>4. ASSUME AuthMalformed(c) \/ TooFewArgs(c) \/ Ping(c) \/ Info(c) \/ LpushNoAuth(c)
      PROVE  \E kind \in Kinds :
               /\ TakeCmd(c) /\ WriteReplies(c, <<kind>>)
               /\ UNCHANGED <<push, counted>> /\ faults' = faults
  <2>1. CASE AuthMalformed(c)
    BY <1>1, <2>1, Zenon DEF AuthMalformed
  <2>2. CASE TooFewArgs(c)
    BY <1>1, <2>2, Zenon DEF TooFewArgs
  <2>3. CASE Ping(c)
    BY <1>1, <2>3, Zenon DEF Ping
  <2>4. CASE Info(c)
    BY <1>1, <2>4, Zenon DEF Info
  <2>5. CASE LpushNoAuth(c)
    BY <1>1, <2>5, Zenon DEF LpushNoAuth
  <2> QED BY <1>4, <2>1, <2>2, <2>3, <2>4, <2>5, Zenon
<1>5. ASSUME NEW name \in Written \ {<<Queue>>}, Rpop(c, name)
      PROVE  \E kind \in Kinds :
               /\ TakeCmd(c) /\ WriteReplies(c, <<kind>>)
               /\ UNCHANGED <<push, counted>> /\ faults' = faults
  BY <1>1, <1>5, Zenon DEF Rpop, RpopReplies
<1>6. ASSUME NEW name \in Written \ {<<Queue>>}, RpopFails(c, name)
      PROVE  \E kind \in Kinds :
               /\ TakeCmd(c) /\ WriteReplies(c, <<kind>>)
               /\ UNCHANGED <<push, counted>> /\ faults' = faults + 1
  BY <1>1, <1>6, Zenon DEF RpopFails
<1>7. faults <= faults /\ faults + 1 \in Nat /\ faults <= faults + 1
  BY <1>2
<1> QED BY <1>2, <1>3, <1>4, <1>5, <1>6, <1>7, Zenon

\* Every step of the gateway keeps the invariant.
LEMMA NextSession == SessionInv /\ [GatewayNext]_gwVars => SessionInv'
<1> SUFFICES ASSUME SessionInv, [GatewayNext]_gwVars PROVE SessionInv'
  OBVIOUS
<1>1. CASE UNCHANGED gwVars
  BY <1>1, SessionUndisturbed, Zenon DEF gwVars
<1>2. ASSUME NEW T \in SUBSET Topics, NEW p \in Passwords, UpdateSetting(T, p)
      PROVE  SessionInv'
  BY <1>2, SessionUndisturbed, Zenon DEF UpdateSetting
<1>3. CASE QueueDel \/ QueueAdd
  BY <1>3, SessionUndisturbed, Zenon DEF QueueDel, QueueAdd
<1>4. ASSUME NEW c \in Clients, NEW n \in 0 .. 1, Lpush(c, n)
      PROVE  SessionInv'
  BY <1>4, LpushKeeps, Zenon
<1>5. ASSUME NEW c \in Clients,
             \/ \E name \in Written, pw \in Passwords : Auth(c, name, pw)
             \/ AuthMalformed(c)
             \/ TooFewArgs(c)
             \/ Ping(c)
             \/ Info(c)
             \/ LpushNoAuth(c)
             \/ \E name \in Written \ {<<Queue>>} : Rpop(c, name) \/ RpopFails(c, name)
      PROVE  SessionInv'
  BY <1>5, HandlersAnswerOnce, Zenon
<1> QED BY <1>1, <1>2, <1>3, <1>4, <1>5, Zenon DEF GatewayNext

\* What a push was told is exactly what AddJobs returned.
LEMMA AnswersOfPush ==
  ASSUME PushAnswered, NEW p \in push
  PROVE  LpushAnswers(p) = {Told(p)}
BY Zenon DEF PushAnswered, LpushAnswers

\* The inductive invariant of the gateway holds for any number of sessions.
THEOREM SessionInvariant == GatewaySpec => []SessionInv
<1>1. GatewayInit => SessionInv
  BY InitSession, Zenon
<1>2. SessionInv /\ [GatewayNext]_gwVars => SessionInv'
  BY NextSession, Zenon
<1> QED BY <1>1, <1>2, PTL DEF GatewaySpec

\* The position of a reply tells its command, one place late for every refused
\* push before it (gateway.go:195-199): for any number of sessions, commands,
\* configuration updates and redis faults.
THEOREM RepliesInStepHolds == GatewaySpec => []RepliesInStep
<1>1. SessionInv => RepliesInStep
  BY Zenon DEF SessionInv
<1> QED BY <1>1, SessionInvariant, PTL

\* What a pushing client concludes from its answer is true of the lists and of
\* the statistics (gateway.go lpush, MuxServer.AddJobs).
THEOREM AnswerTruthfulHolds == GatewaySpec => []AnswerTruthful
<1>1. SessionInv => AnswerTruthful
  <2> SUFFICES ASSUME SessionInv, NEW p \in push
               PROVE  /\ "error" \in LpushAnswers(p) => \A t \in DOMAIN p.copies : p.copies[t] = 0
                      /\ "ids" \in LpushAnswers(p) =>
                           /\ DOMAIN p.copies # {}
                           /\ Cardinality({t \in DOMAIN p.copies : p.copies[t] = 0}) <= faults
                      /\ <<p.client, p.cmd, "ids" \in LpushAnswers(p)>> \in counted
    BY Zenon DEF AnswerTruthful
  <2>1. LpushAnswers(p) = {Told(p)}
    BY AnswersOfPush, Zenon DEF SessionInv
  <2>2. faults \in Nat /\ PushKept
    BY Zenon DEF SessionInv, SessionType
  <2>3. CASE p.refused
    <3>1. ("ids" \in LpushAnswers(p)) = FALSE
      BY <2>1, <2>3 DEF Told
    <3>2. <<p.client, p.cmd, FALSE>> \in counted /\ \A t \in DOMAIN p.copies : p.copies[t] = 0
      BY <2>2, <2>3, Zenon DEF PushKept
    <3> QED BY <3>1, <3>2, Zenon
  <2>4. CASE ~p.refused
    <3>1. ("ids" \in LpushAnswers(p)) = TRUE /\ "error" \notin LpushAnswers(p)
      BY <2>1, <2>4, Zenon DEF Told
    <3>2. /\ <<p.client, p.cmd, TRUE>> \in counted
          /\ DOMAIN p.copies # {}
          /\ Cardinality({t \in DOMAIN p.copies : p.copies[t] = 0}) \in 0 .. faults
      BY <2>2, <2>4, Zenon DEF PushKept
    <3>3. \A k \in 0 .. faults : k <= faults
      OBVIOUS
    <3> QED BY <3>1, <3>2, <3>3, Zenon
  <2> QED BY <2>3, <2>4, Zenon
<1> QED BY <1>1, SessionInvariant, PTL

-----------------------------------------------------------------------------
(* RedisCommands: every method on every answer the server may give it.     *)

\* What a method may return on a reply that is not an error.
Returned == {"value", "notExist", "typeError", "refused", "panic"}

\* The conversion of a method fits the answers of its command: outside the listed
\* misreadings it returns what the answer says, and only SRANDMEMBER panics.
Fits(m) ==
  \A r \in Replies(m.wire) :
    /\ <<m.name, r>> \notin Misread => Convert(m.conv, r) = Expected(m, r)
    /\ Convert(m.conv, r) = "panic" => m.name = "SRANDMEMBER"
    /\ Convert(m.conv, r) \in Returned

\* The two names whose answers are read by a rule of their own.
Ordinary(n) == n \notin {"MIGRATE", "HGETALLMAP"}

\* A method returns the value whenever its conversion accepts all its answers and
\* none of them stands for a missing key.
LEMMA ValueRow ==
  ASSUME NEW n, NEW w, NEW conv, Ordinary(n),
         \A r \in Replies(w) :
           /\ r \notin {"error", "nil", "null"}
           /\ Convert(conv, r) = "value"
  PROVE  Fits(Row(n, w, conv))
<1>1. ASSUME NEW r \in Replies(w)
      PROVE  Expected(Row(n, w, conv), r) = "value"
  BY Zenon DEF Expected, Row, Ordinary
<1> QED BY <1>1, Zenon DEF Fits, Returned, Row

\* An integer is the value.
LEMMA IntRow ==
  ASSUME NEW n, NEW w, Replies(w) = {"int"}, Ordinary(n)
  PROVE  Fits(Row(n, w, "int"))
<1>1. Convert("int", "int") = "value"
  BY Zenon DEF Convert, TypeAssert
<1> QED BY <1>1, ValueRow, Zenon

\* A status or a bulk string is the value.
LEMMA BytesRow ==
  ASSUME NEW n, NEW w, Replies(w) \in {{"ok"}, {"bytes"}}, Ordinary(n)
  PROVE  Fits(Row(n, w, "bytes"))
<1>1. Convert("bytes", "ok") = "value" /\ Convert("bytes", "bytes") = "value"
  BY Zenon DEF Convert, TypeAssert, Bytes
<1> QED BY <1>1, ValueRow, Zenon

\* A missing key is ErrKeyNotExist.
LEMMA NilRow ==
  ASSUME NEW n, NEW w, Replies(w) = {"bytes", "nil"}, Ordinary(n)
  PROVE  Fits(Row(n, w, "bytesOrNil"))
<1>1. Convert("bytesOrNil", "bytes") = "value" /\ Convert("bytesOrNil", "nil") = "notExist"
  BY Zenon DEF Convert, TypeAssert, Bytes, OrNil
<1>2. /\ Expected(Row(n, w, "bytesOrNil"), "bytes") = "value"
      /\ Expected(Row(n, w, "bytesOrNil"), "nil") = "notExist"
  BY Zenon DEF Expected, Row, Ordinary
<1> QED BY <1>1, <1>2, Zenon DEF Fits, Returned, Row

\* A member without rank is ErrKeyNotExist.
LEMMA RankRow ==
  ASSUME NEW n, NEW w, Replies(w) = {"int", "nil"}, Ordinary(n)
  PROVE  Fits(Row(n, w, "rank"))
<1>1. Convert("rank", "int") = "value" /\ Convert("rank", "nil") = "notExist"
  BY Zenon DEF Convert
<1>2. /\ Expected(Row(n, w, "rank"), "int") = "value"
      /\ Expected(Row(n, w, "rank"), "nil") = "notExist"
  BY Zenon DEF Expected, Row, Ordinary
<1> QED BY <1>1, <1>2, Zenon DEF Fits, Returned, Row

\* An array of bytes suits every conversion to a slice.
LEMMA ArrayRow ==
  ASSUME NEW n, NEW w, Replies(w) = {"list", "empty"}, Ordinary(n),
         NEW conv \in {"members", "membersOrNil", "array", "arrayOrNil", "arrayUnchecked"}
  PROVE  Fits(Row(n, w, conv))
<1>1. \A r \in {"list", "empty"} : Convert(conv, r) = "value"
  BY Zenon DEF Convert, TypeAssert, Assume, Members, OrNil, Lists, Arrays
<1> QED BY <1>1, ValueRow, Zenon

\* Conversions that do not look at the elements accept any array.
LEMMA ElementsRow ==
  ASSUME NEW n, NEW w, Replies(w) \in {{"list", "holes"}, {"ints"}}, Ordinary(n),
         NEW conv \in {"array", "arrayOrNil"}
  PROVE  Fits(Row(n, w, conv))
<1>1. \A r \in {"list", "holes", "ints"} : Convert(conv, r) = "value"
  BY Zenon DEF Convert, TypeAssert, OrNil, Lists, Arrays
<1> QED BY <1>1, ValueRow, Zenon

\* A cursor and an array are a page.
LEMMA PageRow ==
  ASSUME NEW n, NEW w, Replies(w) = {"page"}, Ordinary(n)
  PROVE  Fits(Row(n, w, "page"))
<1>1. Convert("page", "page") = "value"
  BY Zenon DEF Convert, Assume, Lists, Arrays
<1> QED BY <1>1, ValueRow, Zenon

\* EVAL and EVALSHA hand over what they get.
LEMMA AnyRow ==
  ASSUME NEW n, NEW w, "error" \notin Replies(w)
  PROVE  Fits(Row(n, w, "any"))
<1>1. \A r \in Replies(w) : Convert("any", r) = "value"
  BY Zenon DEF Convert
<1>2. ASSUME NEW r \in Replies(w)
      PROVE  Expected(Row(n, w, "any"), r) = "value"
  <2>1. r # "error"
    OBVIOUS
  <2> QED BY <2>1, Zenon DEF Expected, Row
<1> QED BY <1>1, <1>2, Zenon DEF Fits, Returned, Row

\* The methods whose conversion or answers are like those of no other method.
LEMMA OddRows ==
  /\ Fits(Row("AUTH", "AUTH", "ok")) /\ Fits(Row("IsAlive", "PING", "pong"))
  /\ Fits(Row("MIGRATE", "MIGRATE", "ok")) /\ Fits(Row("OBJECT", "OBJECT", "intOrBytes"))
  /\ Fits(Row("TTL", "TTL", "intUnchecked"))
  /\ Fits(Row("SRANDMEMBER", "SRANDMEMBER", "bytesUnchecked"))
  /\ Fits(Row("MSET", "MSET", "mset")) /\ Fits(Row("HGETALLMAP", "HGETALL", "map"))
  /\ Fits(Row("BLPOP", "BLPOP", "arrayOrNil")) /\ Fits(Row("BRPOP", "BRPOP", "arrayOrNil"))
  /\ Fits(Row("BRPOPLPUSH", "BRPOPLPUSH", "bytesOrNil"))
<1>1. Fits(Row("AUTH", "AUTH", "ok"))
  <2>1. Replies("AUTH") = {"ok"} /\ Ordinary("AUTH")
    BY Zenon DEF Replies, Ordinary
  <2>2. Convert("ok", "ok") = "value"
    BY Zenon DEF Convert
  <2> QED BY <2>1, <2>2, ValueRow, Zenon
<1>2. Fits(Row("IsAlive", "PING", "pong"))
  <2>1. Replies("PING") = {"pong"} /\ Ordinary("IsAlive")
    BY Zenon DEF Replies, Ordinary
  <2>2. Convert("pong", "pong") = "value"
    BY Zenon DEF Convert
  <2> QED BY <2>1, <2>2, ValueRow, Zenon
<1>3. Fits(Row("MIGRATE", "MIGRATE", "ok"))
  <2>1. Replies("MIGRATE") = {"ok", "bytes"}
    BY Zenon DEF Replies
  <2>2. Convert("ok", "ok") = "value" /\ Convert("ok", "bytes") = "refused"
    BY Zenon DEF Convert, Bytes
  <2>3. /\ Expected(Row("MIGRATE", "MIGRATE", "ok"), "ok") = "value"
        /\ Expected(Row("MIGRATE", "MIGRATE", "ok"), "bytes") = "refused"
    BY Zenon DEF Expected, Row
  <2> QED BY <2>1, <2>2, <2>3, Zenon DEF Fits, Returned, Row
<1>4. Fits(Row("OBJECT", "OBJECT", "intOrBytes"))
  <2>1. Replies("OBJECT") = {"int", "bytes", "nil"}
    BY Zenon DEF Replies
  <2>2. /\ Convert("intOrBytes", "int") = "value" /\ Convert("intOrBytes", "bytes") = "value"
        /\ Convert("intOrBytes", "nil") = "notExist"
    BY Zenon DEF Convert, TypeAssert, OrNil, Bytes
  <2>3. LET m == Row("OBJECT", "OBJECT", "intOrBytes")
        IN  /\ Expected(m, "int") = "value" /\ Expected(m, "bytes") = "value"
            /\ Expected(m, "nil") = "notExist"
    BY Zenon DEF Expected, Row
  <2> QED BY <2>1, <2>2, <2>3, Zenon DEF Fits, Returned, Row
<1>5. Fits(Row("TTL", "TTL", "intUnchecked"))
  <2>1. Replies("TTL") = {"int"} /\ Ordinary("TTL")
    BY Zenon DEF Replies, Ordinary
  <2>2. Convert("intUnchecked", "int") = "value"
    BY Zenon DEF Convert, Assume
  <2> QED BY <2>1, <2>2, ValueRow, Zenon
<1>6. Fits(Row("SRANDMEMBER", "SRANDMEMBER", "bytesUnchecked"))
  <2>1. Replies("SRANDMEMBER") = {"bytes", "nil"}
    BY Zenon DEF Replies
  <2>2. /\ Convert("bytesUnchecked", "bytes") = "value"
        /\ Convert("bytesUnchecked", "nil") = "panic"
    BY Zenon DEF Convert, Assume, Bytes
  <2>3. Expected(Row("SRANDMEMBER", "SRANDMEMBER", "bytesUnchecked"), "bytes") = "value"
    BY Zenon DEF Expected, Row
  <2> QED BY <2>1, <2>2, <2>3, Zenon DEF Fits, Returned, Row, Misread
<1>7. Fits(Row("MSET", "MSET", "mset"))
  <2>1. Replies("MSET") = {"ok"}
    BY Zenon DEF Replies
  <2>2. Convert("mset", "ok") = "typeError"
    BY Zenon DEF Convert, Lists, Arrays
  <2> QED BY <2>1, <2>2, Zenon DEF Fits, Returned, Row, Misread
<1>8. Fits(Row("HGETALLMAP", "HGETALL", "map"))
  <2>1. Replies("HGETALL") = {"list", "empty"}
    BY Zenon DEF Replies
  <2>2. Convert("map", "list") = "value" /\ Convert("map", "empty") = "notExist"
    BY Zenon DEF Convert, OrNil
  <2>3. /\ Expected(Row("HGETALLMAP", "HGETALL", "map"), "list") = "value"
        /\ Expected(Row("HGETALLMAP", "HGETALL", "map"), "empty") = "notExist"
    BY Zenon DEF Expected, Row
  <2> QED BY <2>1, <2>2, <2>3, Zenon DEF Fits, Returned, Row
<1>9. \A n \in {"BLPOP", "BRPOP"} : Fits(Row(n, n, "arrayOrNil"))
  <2>1. \A n \in {"BLPOP", "BRPOP"} : Replies(n) = {"list", "null"}
    BY DEF Replies
  <2>2. Convert("arrayOrNil", "list") = "value" /\ Convert("arrayOrNil", "null") = "value"
    BY Zenon DEF Convert, TypeAssert, OrNil, Lists, Arrays
  <2>3. \A n \in {"BLPOP", "BRPOP"} : Expected(Row(n, n, "arrayOrNil"), "list") = "value"
    BY Zenon DEF Expected, Row
  <2> QED BY <2>1, <2>2, <2>3, Zenon DEF Fits, Returned, Row, Misread
<1>10. Fits(Row("BRPOPLPUSH", "BRPOPLPUSH", "bytesOrNil"))
  <2>1. Replies("BRPOPLPUSH") = {"bytes", "null"}
    BY Zenon DEF Replies
  <2>2. Convert("bytesOrNil", "bytes") = "value" /\ Convert("bytesOrNil", "null") = "typeError"
    BY Zenon DEF Convert, TypeAssert, OrNil, Bytes
  <2>3. Expected(Row("BRPOPLPUSH", "BRPOPLPUSH", "bytesOrNil"), "bytes") = "value"
    BY Zenon DEF Expected, Row
  <2> QED BY <2>1, <2>2, <2>3, Zenon DEF Fits, Returned, Row, Misread
<1> QED BY <1>1, <1>2, <1>3, <1>4, <1>5, <1>6, <1>7, <1>8, <1>9, <1>10, Zenon

\* AUTH, PING and INFO.
LEMMA ConnectionsFit == \A m \in Connections : Fits(m)
<1>1. Replies("INFO") = {"bytes"}
  BY Zenon DEF Replies
<1>2. \A n \in {"Info"} : Ordinary(n)
  BY Zenon DEF Ordinary
<1>3. Fits(Row("Info", "INFO", "bytes"))
  BY <1>1, <1>2, BytesRow
<1> QED BY <1>3, OddRows, Zenon DEF Connections, Rows

\* The commands on keys, from DEL.
LEMMA Keys1Fit == \A m \in Keys1 : Fits(m)
<1>1. \A w \in {"DEL", "EXISTS", "EXPIRE", "EXPIREAT"} : Replies(w) = {"int"}
  BY DEF Replies
<1>2. Replies("DUMP") = {"bytes", "nil"}
  BY Zenon DEF Replies
<1>3. Replies("KEYS") = {"list", "empty"}
  BY Zenon DEF Replies
<1>4. Replies("SELECT") = {"ok"}
  BY Zenon DEF Replies
<1>5. \A n \in {"DEL", "DELMulti", "EXISTS", "EXPIRE", "EXPIREAT", "DUMP", "KEYS",
                "SELECT"} : Ordinary(n)
  BY Zenon DEF Ordinary
<1>6. Fits(Row("DELMulti", "DEL", "int"))
  BY <1>1, <1>5, IntRow, Zenon
<1> QED BY <1>1, <1>2, <1>3, <1>4, <1>5, <1>6, IntRow, NilRow, ArrayRow, BytesRow,
           OddRows DEF Keys1, Rows

\* The commands on keys, from MOVE.
LEMMA Keys2Fit == \A m \in Keys2 : Fits(m)
<1>1. \A w \in {"MOVE", "PERSIST", "PTTL"} : Replies(w) = {"int"}
  BY DEF Replies
<1>2. \A w \in {"RENAMENX", "EXPIRE", "EXPIREAT"} : Replies(w) = {"int"}
  BY DEF Replies
<1>3. Replies("RANDOMKEY") = {"bytes", "nil"}
  BY Zenon DEF Replies
<1>4. Replies("RENAME") = {"ok"}
  BY Zenon DEF Replies
<1>5. \A n \in {"MOVE", "PERSIST", "PTTL", "RENAMENX", "PEXPIRE", "PEXPIREAT",
                "RANDOMKEY", "RENAME"} : Ordinary(n)
  BY Zenon DEF Ordinary
<1>6. Fits(Row("PEXPIRE", "EXPIRE", "int"))
  BY <1>1, <1>2, <1>5, IntRow, Zenon
<1>7. Fits(Row("PEXPIREAT", "EXPIREAT", "int"))
  BY <1>1, <1>2, <1>5, IntRow, Zenon
<1> QED BY <1>1, <1>2, <1>3, <1>4, <1>5, <1>6, <1>7, IntRow, NilRow, BytesRow, OddRows
           DEF Keys2, Rows

\* The commands on keys, from RESTORE.
LEMMA Keys3Fit == \A m \in Keys3 : Fits(m)
<1>1. Replies("RESTORE") = {"ok"}
  BY Zenon DEF Replies
<1>2. Replies("TYPE") = {"bytes"}
  BY Zenon DEF Replies
<1>3. Replies("SCAN") = {"page"}
  BY Zenon DEF Replies
<1>4. \A n \in {"RESTORE", "TYPE", "SCAN"} : Ordinary(n)
  BY Zenon DEF Ordinary
<1> QED BY <1>1, <1>2, <1>3, <1>4, BytesRow, PageRow, OddRows DEF Keys3, Rows

\* The commands on sets, from SADD.
LEMMA Sets1Fit == \A m \in Sets1 : Fits(m)
<1>1. \A w \in {"SADD", "SREM", "SISMEMBER", "SCARD", "SINTERSTORE"}
       : Replies(w) = {"int"}
  BY DEF Replies
<1>2. \A w \in {"SMEMBERS", "SINTER", "SDIFF"} : Replies(w) = {"list", "empty"}
  BY DEF Replies
<1>3. \A n \in {"SADD", "SREM", "SISMEMBER", "SCARD", "SINTERSTORE", "SMEMBERS",
                "SINTER", "SDIFF"} : Ordinary(n)
  BY Zenon DEF Ordinary
<1> QED BY <1>1, <1>2, <1>3, IntRow, ArrayRow DEF Sets1, Rows

\* The commands on sets, from SDIFFSTORE.
LEMMA Sets2Fit == \A m \in Sets2 : Fits(m)
<1>1. \A w \in {"SDIFFSTORE", "SMOVE", "SUNIONSTORE"} : Replies(w) = {"int"}
  BY DEF Replies
<1>2. Replies("SPOP") = {"bytes", "nil"}
  BY Zenon DEF Replies
<1>3. \A w \in {"SUNION", "SRANDMEMBER_count"} : Replies(w) = {"list", "empty"}
  BY DEF Replies
<1>4. \A n \in {"SDIFFSTORE", "SMOVE", "SUNIONSTORE", "SPOP", "SUNION",
                "SRANDMEMBER_count"} : Ordinary(n)
  BY Zenon DEF Ordinary
<1> QED BY <1>1, <1>2, <1>3, <1>4, IntRow, NilRow, ArrayRow, OddRows DEF Sets2, Rows

\* The commands on strings, from APPEND.
LEMMA Strings1Fit == \A m \in Strings1 : Fits(m)
<1>1. \A w \in {"APPEND", "BITCOUNT", "BITOP", "DECR"} : Replies(w) = {"int"}
  BY DEF Replies
<1>2. \A w \in {"DECRBY", "INCR", "INCRBY"} : Replies(w) = {"int"}
  BY DEF Replies
<1>3. Replies("INCRBYFLOAT") = {"bytes"}
  BY Zenon DEF Replies
<1>4. Replies("SET") = {"ok"}
  BY Zenon DEF Replies
<1>5. Replies("GET") = {"bytes", "nil"}
  BY Zenon DEF Replies
<1>6. \A n \in {"APPEND", "BITCOUNT", "BITOP", "DECR", "DECRBY", "INCR", "INCRBY",
                "INCRBYFLOAT", "SET", "GET"} : Ordinary(n)
  BY Zenon DEF Ordinary
<1> QED BY <1>1, <1>2, <1>3, <1>4, <1>5, <1>6, IntRow, BytesRow, NilRow DEF Strings1,
           Rows

\* The commands on strings, from GETBIT.
LEMMA Strings2Fit == \A m \in Strings2 : Fits(m)
<1>1. \A w \in {"GETBIT", "MSETNX", "SETBIT"} : Replies(w) = {"int"}
  BY DEF Replies
<1>2. Replies("GETRANGE") = {"bytes"}
  BY Zenon DEF Replies
<1>3. \A w \in {"PSETEX", "SETEX"} : Replies(w) = {"ok"}
  BY DEF Replies
<1>4. Replies("GETSET") = {"bytes", "nil"}
  BY Zenon DEF Replies
<1>5. Replies("MGET") = {"list", "holes"}
  BY Zenon DEF Replies
<1>6. \A n \in {"GETBIT", "MSETNX", "SETBIT", "GETRANGE", "PSETEX", "SETEX", "GETSET",
                "MGET"} : Ordinary(n)
  BY Zenon DEF Ordinary
<1> QED BY <1>1, <1>2, <1>3, <1>4, <1>5, <1>6, IntRow, BytesRow, NilRow, ElementsRow,
           OddRows DEF Strings2, Rows

\* The commands on strings, from SETNX.
LEMMA Strings3Fit == \A m \in Strings3 : Fits(m)
<1>1. \A w \in {"SETNX", "SETRANGE", "STRLEN"} : Replies(w) = {"int"}
  BY DEF Replies
<1>2. Replies("SSCAN") = {"page"}
  BY Zenon DEF Replies
<1>3. \A n \in {"SETNX", "SETRANGE", "STRLEN", "SSCAN"} : Ordinary(n)
  BY Zenon DEF Ordinary
<1> QED BY <1>1, <1>2, <1>3, IntRow, PageRow DEF Strings3, Rows

\* The commands on hashes, from HDEL.
LEMMA Hashes1Fit == \A m \in Hashes1 : Fits(m)
<1>1. \A w \in {"HDEL", "HEXISTS", "HINCRBY"} : Replies(w) = {"int"}
  BY DEF Replies
<1>2. Replies("HGET") = {"bytes", "nil"}
  BY Zenon DEF Replies
<1>3. \A w \in {"HGETALL", "HKEYS"} : Replies(w) = {"list", "empty"}
  BY DEF Replies
<1>4. Replies("HINCRBYFLOAT") = {"bytes"}
  BY Zenon DEF Replies
<1>5. \A n \in {"HDEL", "HEXISTS", "HINCRBY", "HGET", "HGETALL", "HKEYS",
                "HINCRBYFLOAT"} : Ordinary(n)
  BY Zenon DEF Ordinary
<1> QED BY <1>1, <1>2, <1>3, <1>4, <1>5, IntRow, NilRow, ArrayRow, BytesRow, OddRows DEF
           Hashes1, Rows

\* The commands on hashes, from HLEN.
LEMMA Hashes2Fit == \A m \in Hashes2 : Fits(m)
<1>1. \A w \in {"HLEN", "HSET", "HSETNX"} : Replies(w) = {"int"}
  BY DEF Replies
<1>2. Replies("HMGET") = {"list", "holes"}
  BY Zenon DEF Replies
<1>3. Replies("HMSET") = {"ok"}
  BY Zenon DEF Replies
<1>4. Replies("HVALS") = {"list", "empty"}
  BY Zenon DEF Replies
<1>5. Replies("HSCAN") = {"page"}
  BY Zenon DEF Replies
<1>6. \A n \in {"HLEN", "HSET", "HSETNX", "HMGET", "HMSET", "HVALS", "HSCAN"}
       : Ordinary(n)
  BY Zenon DEF Ordinary
<1> QED BY <1>1, <1>2, <1>3, <1>4, <1>5, <1>6, IntRow, ElementsRow, BytesRow, ArrayRow,
           PageRow DEF Hashes2, Rows

\* The commands on lists, from BLPOP.
LEMMA Lists1Fit == \A m \in Lists1 : Fits(m)
<1>1. \A w \in {"LINDEX", "LPOP"} : Replies(w) = {"bytes", "nil"}
  BY DEF Replies
<1>2. \A w \in {"LINSERT", "LLEN", "LPUSH"} : Replies(w) = {"int"}
  BY DEF Replies
<1>3. \A n \in {"LINDEX", "LPOP", "LINSERT", "LLEN", "LPUSH"} : Ordinary(n)
  BY Zenon DEF Ordinary
<1> QED BY <1>1, <1>2, <1>3, NilRow, IntRow, OddRows DEF Lists1, Rows

\* The commands on lists, from LPUSHX.
LEMMA Lists2Fit == \A m \in Lists2 : Fits(m)
<1>1. \A w \in {"LPUSHX", "LREM", "RPUSH", "RPUSHX"} : Replies(w) = {"int"}
  BY DEF Replies
<1>2. Replies("LRANGE") = {"list", "empty"}
  BY Zenon DEF Replies
<1>3. \A w \in {"LSET", "LTRIM"} : Replies(w) = {"ok"}
  BY DEF Replies
<1>4. \A w \in {"RPOP", "RPOPLPUSH"} : Replies(w) = {"bytes", "nil"}
  BY DEF Replies
<1>5. \A n \in {"LPUSHX", "LREM", "RPUSH", "RPUSHX", "LRANGE", "LSET", "LTRIM", "RPOP",
                "RPOPLPUSH"} : Ordinary(n)
  BY Zenon DEF Ordinary
<1> QED BY <1>1, <1>2, <1>3, <1>4, <1>5, IntRow, ArrayRow, BytesRow, NilRow DEF Lists2,
           Rows

\* The commands on sorted sets, from ZADD.
LEMMA SortedSets1Fit == \A m \in SortedSets1 : Fits(m)
<1>1. \A w \in {"ZADD", "ZCARD", "ZCOUNT", "ZINTERSTORE"} : Replies(w) = {"int"}
  BY DEF Replies
<1>2. Replies("ZINCRBY") = {"bytes"}
  BY Zenon DEF Replies
<1>3. Replies("ZRANGE") = {"list", "empty"}
  BY Zenon DEF Replies
<1>4. \A n \in {"ZADDSpec", "ZADD", "ZCARD", "ZCOUNT", "ZINTERSTORE", "ZINCRBY",
                "ZRANGE", "ZRANGE_withscores"} : Ordinary(n)
  BY Zenon DEF Ordinary
<1>5. Fits(Row("ZADDSpec", "ZADD", "int"))
  BY <1>1, <1>4, IntRow, Zenon
<1>6. Fits(Row("ZRANGE_withscores", "ZRANGE", "arrayUnchecked"))
  BY <1>3, <1>4, ArrayRow, Zenon
<1> QED BY <1>1, <1>2, <1>3, <1>4, <1>5, <1>6, IntRow, BytesRow, ArrayRow DEF
           SortedSets1, Rows

\* The commands on sorted sets, from ZRANGEBYSCORE.
LEMMA SortedSets2Fit == \A m \in SortedSets2 : Fits(m)
<1>1. \A w \in {"ZRANGEBYSCORE", "ZREVRANGEBYSCORE", "ZREVRANGE"}
       : Replies(w) = {"list", "empty"}
  BY DEF Replies
<1>2. Replies("ZRANK") = {"int", "nil"}
  BY Zenon DEF Replies
<1>3. \A w \in {"ZREM", "ZREMRANGEBYRANK", "ZREMRANGEBYSCORE"} : Replies(w) = {"int"}
  BY DEF Replies
<1>4. \A n \in {"ZRANGEBYSCORE", "ZREVRANGEBYSCORE", "ZREVRANGE",
                "ZREVRANGE_withscores", "ZRANK", "ZREM", "ZREMRANGEBYRANK",
                "ZREMRANGEBYSCORE"} : Ordinary(n)
  BY Zenon DEF Ordinary
<1>5. Fits(Row("ZREVRANGE_withscores", "ZREVRANGE", "arrayUnchecked"))
  BY <1>1, <1>4, ArrayRow, Zenon
<1> QED BY <1>1, <1>2, <1>3, <1>4, <1>5, ArrayRow, RankRow, IntRow DEF SortedSets2, Rows

\* The commands on sorted sets, from ZREVRANK.
LEMMA SortedSets3Fit == \A m \in SortedSets3 : Fits(m)
<1>1. Replies("ZREVRANK") = {"int", "nil"}
  BY Zenon DEF Replies
<1>2. Replies("ZSCORE") = {"bytes", "nil"}
  BY Zenon DEF Replies
<1>3. Replies("ZUNIONSTORE") = {"int"}
  BY Zenon DEF Replies
<1>4. Replies("ZSCAN") = {"page"}
  BY Zenon DEF Replies
<1>5. \A n \in {"ZREVRANK", "ZSCORE", "ZUNIONSTORE", "ZSCAN"} : Ordinary(n)
  BY Zenon DEF Ordinary
<1> QED BY <1>1, <1>2, <1>3, <1>4, <1>5, RankRow, NilRow, IntRow, PageRow DEF
           SortedSets3, Rows

\* The commands on HyperLogLogs.
LEMMA HyperLogLogFit == \A m \in HyperLogLog : Fits(m)
<1>1. \A w \in {"PFADD", "PFCOUNT"} : Replies(w) = {"int"}
  BY DEF Replies
<1>2. Replies("PFMERGE") = {"ok"}
  BY Zenon DEF Replies
<1>3. \A n \in {"PFADD", "PFCOUNT", "PFMERGE"} : Ordinary(n)
  BY Zenon DEF Ordinary
<1> QED BY <1>1, <1>2, <1>3, IntRow, BytesRow DEF HyperLogLog, Rows

\* The commands that run scripts.
LEMMA ScriptingFit == \A m \in Scripting : Fits(m)
<1>1. \A w \in {"EVAL", "EVALSHA"} : "error" \notin Replies(w)
  BY DEF Replies
<1>2. Replies("SCRIPT_EXISTS") = {"ints"}
  BY Zenon DEF Replies
<1>3. \A w \in {"SCRIPT_FLUSH", "SCRIPT_KILL"} : Replies(w) = {"ok"}
  BY DEF Replies
<1>4. Replies("SCRIPT_LOAD") = {"bytes"}
  BY Zenon DEF Replies
<1>5. \A n \in {"SCRIPTEXISTS", "SCRIPTFLUSH", "SCRIPTKILL", "SCRIPTLOAD"} : Ordinary(n)
  BY Zenon DEF Ordinary
<1>6. Fits(Row("SCRIPTEXISTS", "SCRIPT_EXISTS", "array"))
  BY <1>2, <1>5, ElementsRow
<1>7. Fits(Row("SCRIPTFLUSH", "SCRIPT_FLUSH", "bytes"))
  BY <1>3, <1>5, BytesRow
<1>8. Fits(Row("SCRIPTKILL", "SCRIPT_KILL", "bytes"))
  BY <1>3, <1>5, BytesRow
<1>9. Fits(Row("SCRIPTLOAD", "SCRIPT_LOAD", "bytes"))
  BY <1>4, <1>5, BytesRow
<1> QED BY <1>1, <1>6, <1>7, <1>8, <1>9, AnyRow, Zenon DEF Scripting, Rows

\* Every method of the library.
LEMMA MethodsFit == \A m \in Methods : Fits(m)
BY ConnectionsFit, Keys1Fit, Keys2Fit, Keys3Fit, Sets1Fit, Sets2Fit, Strings1Fit,
   Strings2Fit, Strings3Fit, Hashes1Fit, Hashes2Fit, Lists1Fit, Lists2Fit,
   SortedSets1Fit, SortedSets2Fit, SortedSets3Fit, HyperLogLogFit, ScriptingFit DEF
   Methods

\* The counts of a call fit together, and what it returned fits the answer.
CallCounts ==
  /\ method \in Methods \cup {None}
  /\ tries \in 0 .. Attempts(method)
  /\ execs \in 0 .. tries
  /\ lost \in Nat
  /\ execs = lost + (IF answer = "none" THEN 0 ELSE 1)
  /\ outcome = "idle" => answer = "none" /\ tries = 0
  /\ outcome = "running" => answer = "none" /\ method \in Methods /\ tries < Attempts(method)
CallResult ==
  /\ (answer # "none" /\ <<method.name, answer>> \notin Misread) =>
       outcome = Expected(method, answer)
  /\ outcome = "panic" => method.name \in {"EVAL", "EVALSHA", "SRANDMEMBER"}

\* The inductive invariant.
CallInv == CallCounts /\ CallResult

\* A method makes at least one attempt.
LEMMA AttemptsPositive == \A m : Attempts(m) \in Nat /\ Attempts(m) > 0
BY CmdBounds DEF Attempts

\* A method begins: nothing was tried yet.
LEMMA BeginKeeps ==
  ASSUME CallInv, NEW m \in Methods, NEW o \in {"running", "netError", "badArgs", "panic"},
         Begin(m, o), o = "panic" => m.name \in {"EVAL", "EVALSHA"}
  PROVE  CallInv'
<1>1. /\ method' = m /\ outcome' = o
      /\ UNCHANGED <<tries, execs, lost, answer>>
      /\ answer = "none" /\ tries = 0 /\ lost \in Nat /\ execs \in 0 .. tries
      /\ execs = lost + (IF answer = "none" THEN 0 ELSE 1)
  BY Zenon DEF Begin, CallInv, CallCounts
<1>2. Attempts(m) \in Nat /\ Attempts(m) > 0
  BY AttemptsPositive, Zenon
<1>3. 0 \in 0 .. Attempts(m) /\ 0 < Attempts(m)
  BY <1>2
<1>4. CallCounts'
  BY <1>1, <1>3, Zenon DEF CallCounts
<1>5. CallResult'
  BY <1>1, Zenon DEF CallResult
<1> QED BY <1>4, <1>5, Zenon DEF CallInv

\* An answer arrives and is converted.
LEMMA ArrivesKeeps ==
  ASSUME CallInv, NEW reply \in Shapes, Arrives(reply)
  PROVE  CallInv'
<1>1. /\ outcome = "running"
      /\ reply \in Replies(method.wire) \cup {"error"}
      /\ tries' = tries + 1 /\ execs' = execs + 1
      /\ answer' = reply
      /\ outcome' = IF reply = "error" THEN "error" ELSE Convert(method.conv, reply)
      /\ UNCHANGED <<method, lost>>
  BY Zenon DEF Arrives
<1>2. /\ method \in Methods /\ answer = "none" /\ tries < Attempts(method)
      /\ tries \in 0 .. Attempts(method) /\ execs \in 0 .. tries /\ lost \in Nat
      /\ execs = lost
  BY <1>1 DEF CallInv, CallCounts
<1>3. PICK a \in Nat : a = Attempts(method)
  BY AttemptsPositive, Zenon
<1>4. tries + 1 \in 0 .. a /\ execs + 1 \in 0 .. tries + 1 /\ execs + 1 = lost + 1
  BY <1>2, <1>3
<1>5. reply # "none"
  BY Zenon DEF Shapes, Bytes, Lists, Arrays
<1>6. Fits(method)
  BY <1>2, MethodsFit, Zenon
<1>7. CASE reply = "error"
  <2>1. outcome' = "error" /\ \A m : Expected(m, "error") = "error"
    BY <1>1, <1>7, Zenon DEF Expected
  <2>2. CallCounts'
    BY <1>1, <1>2, <1>3, <1>4, <1>5, <2>1, Zenon DEF CallCounts, Attempts
  <2>3. CallResult'
    BY <1>1, <1>7, <2>1, Zenon DEF CallResult
  <2> QED BY <2>2, <2>3, Zenon DEF CallInv
<1>8. CASE reply # "error"
  <2>1. /\ reply \in Replies(method.wire)
        /\ outcome' = Convert(method.conv, reply)
    BY <1>1, <1>8, Zenon
  <2>2. outcome' \notin {"idle", "running"}
    BY <1>6, <2>1, Zenon DEF Fits, Returned
  <2>3. CallCounts'
    BY <1>1, <1>2, <1>3, <1>4, <1>5, <2>2, Zenon DEF CallCounts, Attempts
  <2>4. CallResult'
    BY <1>1, <1>6, <2>1, Zenon DEF CallResult, Fits
  <2> QED BY <2>3, <2>4, Zenon DEF CallInv
<1> QED BY <1>7, <1>8, Zenon

\* An attempt fails; another one follows or the call gives up.
LEMMA FailsKeeps ==
  ASSUME CallInv, NEW executed \in BOOLEAN, Fails(executed)
  PROVE  CallInv'
<1>1. /\ outcome = "running"
      /\ tries' = tries + 1
      /\ \/ execs' = execs + 1 /\ lost' = lost + 1
         \/ execs' = execs /\ lost' = lost
      /\ \/ tries' < Attempts(method) /\ outcome' = "running"
         \/ outcome' = "netError"
      /\ UNCHANGED <<method, answer>>
  BY Zenon DEF Fails
<1>2. /\ method \in Methods /\ answer = "none" /\ tries < Attempts(method)
      /\ tries \in 0 .. Attempts(method) /\ execs \in 0 .. tries /\ lost \in Nat
      /\ execs = lost
  BY <1>1 DEF CallInv, CallCounts
<1>3. PICK a \in Nat : a = Attempts(method)
  BY AttemptsPositive, Zenon
<1>4. tries' \in 0 .. a /\ execs' \in 0 .. tries' /\ lost' \in Nat /\ execs' = lost'
  BY <1>1, <1>2, <1>3
<1>5. Attempts(method)' = Attempts(method)
  BY <1>1, Zenon DEF Attempts
<1>6. CallCounts'
  <2>1. /\ method' \in Methods /\ answer' = "none"
        /\ tries' \in 0 .. Attempts(method)' /\ execs' \in 0 .. tries'
    BY <1>1, <1>2, <1>3, <1>4, <1>5, Zenon
  <2>2. lost' \in Nat /\ execs' = lost' + 0
    <3>1. \A k \in Nat : k = k + 0
      OBVIOUS
    <3> QED BY <1>4, <3>1, Zenon
  <2>3. /\ outcome' # "idle"
        /\ outcome' = "running" => tries' < Attempts(method)'
    <3>1. \/ tries' < Attempts(method)' /\ outcome' = "running"
          \/ outcome' = "netError"
      BY <1>1, <1>5, Zenon
    <3> QED BY <3>1, Zenon
  <2> QED BY <2>1, <2>2, <2>3, Zenon DEF CallCounts
<1>7. CallResult'
  BY <1>1, <1>2, Zenon DEF CallResult
<1> QED BY <1>6, <1>7, Zenon DEF CallInv

\* Nothing has been called.
LEMMA InitCall == CmdInit => CallInv
<1> SUFFICES ASSUME CmdInit PROVE CallInv
  OBVIOUS
<1>1. Attempts(None) \in Nat
  BY AttemptsPositive, Zenon
<1> QED BY <1>1 DEF CmdInit, CallInv, CallCounts, CallResult

\* Every step of a call keeps the invariant.
LEMMA NextCall == CallInv /\ [CmdNext]_cmdVars => CallInv'
<1> SUFFICES ASSUME CallInv, [CmdNext]_cmdVars PROVE CallInv'
  OBVIOUS
<1>1. CASE UNCHANGED cmdVars
  <2>1. UNCHANGED <<method, tries, execs, lost, answer, outcome>>
    BY <1>1, Zenon DEF cmdVars
  <2>2. CallCounts'
    BY <2>1, Zenon DEF CallInv, CallCounts, Attempts
  <2>3. CallResult'
    BY <2>1, Zenon DEF CallInv, CallResult
  <2> QED BY <2>2, <2>3, Zenon DEF CallInv
<1>2. ASSUME NEW m \in Methods, Start(m) \/ NoConn(m) \/ BadArgs(m)
      PROVE  CallInv'
  <2>1. CASE Start(m)
    BY <2>1, BeginKeeps, Zenon DEF Start
  <2>2. CASE NoConn(m)
    BY <2>2, BeginKeeps, Zenon DEF NoConn
  <2>3. CASE BadArgs(m)
    BY <2>3, BeginKeeps, Zenon DEF BadArgs
  <2> QED BY <1>2, <2>1, <2>2, <2>3, Zenon
<1>3. ASSUME NEW reply \in Shapes, Arrives(reply)
      PROVE  CallInv'
  BY <1>3, ArrivesKeeps, Zenon
<1>4. ASSUME NEW executed \in BOOLEAN, Fails(executed)
      PROVE  CallInv'
  BY <1>4, FailsKeeps, Zenon
<1> QED BY <1>1, <1>2, <1>3, <1>4, Zenon DEF CmdNext

\* For any number of attempts: what a method returns says what the server
\* answered, outside the listed misreadings, and how often the server executed
\* the command fits the answers and the lost replies (commands.go, conn.go).
THEOREM ConversionsTotalHolds == CmdSpec => []ConversionsTotal
<1>1. CmdInit => CallInv
  BY InitCall, Zenon
<1>2. CallInv /\ [CmdNext]_cmdVars => CallInv'
  BY NextCall, Zenon
<1>3. CallInv => ConversionsTotal
  <2> SUFFICES ASSUME CallInv PROVE ConversionsTotal
    OBVIOUS
  <2>1. PICK a \in Nat : a = Attempts(method)
    BY AttemptsPositive, Zenon
  <2>2. tries \in 0 .. a /\ execs \in 0 .. tries
    BY <2>1, Zenon DEF CallInv, CallCounts
  <2>3. execs <= Attempts(method)
    BY <2>1, <2>2
  <2> QED BY <2>3, Zenon DEF ConversionsTotal, CallInv, CallCounts, CallResult
<1> QED BY <1>1, <1>2, <1>3, PTL DEF CmdSpec

-----------------------------------------------------------------------------
(* A connection of the client library: every reply belongs to its request. *)

\* Induction over the naturals, by a set and its least counterexample.
LEMMA NatBySet ==
    ASSUME NEW S, 0 \in S, \A n \in Nat : n \in S => n + 1 \in S
    PROVE  \A n \in Nat : n \in S
<1>1. SUFFICES ASSUME NEW k \in Nat, k \notin S PROVE FALSE
  OBVIOUS
<1> DEFINE T == {n \in Nat : n \notin S}
           R == OpToRel(<, Nat)
<1>2. IsWellFoundedOn(R, Nat)
  BY NatLessThanWellFounded, Zenon
<1>3. T \subseteq Nat /\ T # {}
  BY <1>1, Zenon
<1>4. \E x \in T : \A y \in T : ~ (<<y, x>> \in R)
  <2>. HIDE DEF R, T
  <2>. QED BY <1>2, <1>3, WFMin, Zenon
<1>5. PICK x \in T : \A y \in T : ~ (<<y, x>> \in R)
  BY <1>4, Zenon
<1>6. x \in Nat /\ x # 0 /\ x - 1 \in Nat /\ x - 1 \in T
  <2>. HIDE DEF R
  <2>1. x \in Nat /\ x \notin S
    BY <1>5, Zenon
  <2>2. x # 0
    BY <2>1, Zenon
  <2>3. x - 1 \in Nat /\ (x - 1) + 1 = x
    BY <2>1, <2>2
  <2>. QED BY <2>1, <2>2, <2>3, Zenon
<1>7. <<x - 1, x>> \in R
  BY <1>6 DEF OpToRel
<1>. QED BY <1>5, <1>6, <1>7, Zenon

\* The inductive invariant of a redis connection.
ConnInv ==
  /\ cerr \in BOOLEAN /\ wberr \in BOOLEAN /\ nested \in BOOLEAN /\ late \in BOOLEAN
  /\ wb \in Seq(Nat) /\ pipeCount \in Nat
  /\ pipeCount >= Len(wb) /\ (~wberr => pipeCount = Len(wb))
  /\ multi \in {"none", "open", "dirty"} /\ queued \in Nat
  /\ multi = "none" => queued = 0
  /\ reqNo \in 0 .. MaxRequests /\ netFaults \in 0 .. MaxNetFaults
  /\ cerr => last.got = {} /\ last.ret \in {"neterr", "ErrNil"} /\ last.done = "not"
  /\ RedisInStep

\* A reply of q elements, and an answer as a whole.
ArrayReply(a, n, q) ==
  /\ a \in Seq([req : {n}, kind : {"array", "bulk", "error"}, len : Int])
  /\ Len(a) = q + 1
  /\ a[1] = Token(n, "array", q)
  /\ \A i \in 2 .. q + 1 : a[i].req = n /\ a[i].kind \in {"bulk", "error"}

LEMMA ReadSimple ==
    ASSUME NEW n, NEW kind, kind # "array"
    PROVE  readResponse(Simple(n, kind)) = [ret |-> kind, got |-> {n}, rest |-> <<>>]
<1> DEFINE s == Simple(n, kind)
<1>1. Head(s) = Token(n, kind, 0) /\ Len(s) = 1 /\ s[1] = Token(n, kind, 0)
  BY DEF Simple
<1>2. Token(n, kind, 0).kind = kind /\ Token(n, kind, 0).req = n
  BY Zenon DEF Token
<1>3. SubSeq(s, 2, 1) = <<>>
  BY DEF Simple
<1>. HIDE DEF s
<1>4. {s[i].req : i \in 1 .. 0 + 1} = {n}
  BY <1>1, <1>2
<1>5. 0 + 2 = 2
  OBVIOUS
<1>. QED BY <1>1, <1>2, <1>3, <1>4, <1>5, Zenon DEF readResponse, s

LEMMA ReadNull ==
    ASSUME NEW n
    PROVE  readResponse(<<Token(n, "array", -1)>>) =
             [ret |-> "empty", got |-> {n}, rest |-> <<>>]
<1> DEFINE s == <<Token(n, "array", -1)>>
<1>1. Head(s) = Token(n, "array", -1) /\ Len(s) = 1 /\ s[1] = Token(n, "array", -1)
  OBVIOUS
<1>2. /\ Token(n, "array", -1).kind = "array" /\ Token(n, "array", -1).req = n
      /\ Token(n, "array", -1).len = -1
  BY Zenon DEF Token
<1>3. SubSeq(s, 0 + 2, Len(s)) = <<>> /\ ~ (-1 > 0) /\ ~ (0 > 0)
  OBVIOUS
<1>. HIDE DEF s
<1>4. {s[i].req : i \in 1 .. 0 + 1} = {n}
  BY <1>1, <1>2
<1>. QED BY <1>1, <1>2, <1>3, <1>4, Zenon DEF readResponse, s

\* Reading an array takes it off the stream as a whole.
ReadsWhole(a, n) ==
  /\ readResponse(a).rest = <<>>
  /\ readResponse(a).got = {n}
  /\ readResponse(a).ret = IF \E i \in DOMAIN a : a[i].kind = "error"
                           THEN "error" ELSE "values"
LEMMA ReadArray ==
    ASSUME NEW n, NEW q \in Nat, NEW a, ArrayReply(a, n, q), ~HoldsError(a)
    PROVE  ReadsWhole(a, n)
<1>1. /\ a \in Seq([req : {n}, kind : {"array", "bulk", "error"}, len : Int])
      /\ Len(a) = q + 1 /\ a[1] = Token(n, "array", q) /\ Head(a) = a[1]
      /\ DOMAIN a = 1 .. q + 1
  BY DEF ArrayReply
<1>2. a[1].kind = "array" /\ a[1].len = q /\ a[1].req = n
  BY <1>1 DEF Token
<1>3. \A i \in 2 .. q + 1 : a[i].req = n /\ a[i].kind \in {"bulk", "error"}
  BY Zenon DEF ArrayReply
<1>4. \A i \in 2 .. q : a[i].kind # "error"
  <2>1. (q + 1) - 1 = q
    OBVIOUS
  <2>. QED BY <1>1, <2>1, Zenon DEF HoldsError
<1> DEFINE k == IF a[1].kind = "array" /\ a[1].len > 0 THEN ElementsRead(a) ELSE 0
<1>5. k = q
  <2>1. CASE q = 0
    BY <1>2, <2>1
  <2>2. CASE q # 0
    <3> DEFINE errs == {i \in 1 .. Head(a).len : a[i + 1].kind = "error"}
    <3>0. Head(a).len = q
      BY <1>1, <1>2, Zenon
    <3>1. ElementsRead(a) = IF errs = {} THEN Head(a).len
                            ELSE CHOOSE i \in errs : \A j \in errs : i <= j
      BY Zenon DEF ElementsRead
    <3>2. errs \subseteq {q}
      <4>. SUFFICES ASSUME NEW i \in 1 .. q, a[i + 1].kind = "error", i # q PROVE FALSE
        BY <3>0, Zenon
      <4>1. i + 1 \in 2 .. q
        OBVIOUS
      <4>. QED BY <1>4, <4>1, Zenon
    <3>3. errs = {} \/ errs = {q}
      BY <3>2, Zenon
    <3>. HIDE DEF errs
    <3>4. ElementsRead(a) = q
      BY <3>0, <3>1, <3>3
    <3>. QED BY <1>2, <2>2, <3>4
  <2>. QED BY <2>1, <2>2, Zenon
<1>6. readResponse(a) =
        [ret  |-> IF k > 0 /\ a[k + 1].kind = "error" THEN "error"
                  ELSE IF a[1].len = -1 THEN "empty" ELSE "values",
         got  |-> {a[i].req : i \in 1 .. k + 1},
         rest |-> SubSeq(a, k + 2, Len(a))]
  BY <1>1, <1>2, Zenon DEF readResponse
<1>. HIDE DEF k
<1>7. SubSeq(a, k + 2, Len(a)) = <<>>
  BY <1>1, <1>5
<1>8. {a[i].req : i \in 1 .. k + 1} = {n}
  <2>1. \A i \in 1 .. q + 1 : a[i].req = n
    BY <1>2, <1>3
  <2>2. 1 \in 1 .. q + 1
    OBVIOUS
  <2>. QED BY <1>5, <2>1, <2>2, Zenon
<1>9. (\E i \in DOMAIN a : a[i].kind = "error") <=> (q > 0 /\ a[q + 1].kind = "error")
  <2>1. \A i \in 1 .. q + 1 : i = 1 \/ i \in 2 .. q \/ (i = q + 1 /\ q > 0)
    OBVIOUS
  <2>2. q + 1 \in 1 .. q + 1
    OBVIOUS
  <2>. QED BY <1>1, <1>2, <1>4, <2>1, <2>2, Zenon
<1>10. q # -1
  OBVIOUS
<1>11. readResponse(a).ret = IF \E i \in DOMAIN a : a[i].kind = "error"
                             THEN "error" ELSE "values"
  <2>1. readResponse(a).ret = IF q > 0 /\ a[q + 1].kind = "error" THEN "error"
                              ELSE IF a[1].len = -1 THEN "empty" ELSE "values"
    BY <1>5, <1>6
  <2>. QED BY <1>2, <1>9, <1>10, <2>1, Zenon
<1>12. readResponse(a).rest = <<>> /\ readResponse(a).got = {n}
  <2>1. ASSUME NEW x, NEW y, NEW z, readResponse(a) = [ret |-> x, got |-> y, rest |-> z]
        PROVE  readResponse(a).got = y /\ readResponse(a).rest = z
    BY <2>1
  <2>. QED BY <1>6, <1>7, <1>8, <2>1, Zenon
<1>. QED BY <1>11, <1>12, Zenon DEF ReadsWhole

\* The forms of an answer.
LEMMA AnswerForms ==
    ASSUME NEW n, NEW op \in Ops, NEW a \in Answers(n, op), queued \in Nat
    PROVE  \/ \E kind \in {"bulk", "error", "queued", "ok"} :
                a = Simple(n, kind) /\ (op = "EXEC" => kind = "error")
           \/ op = "cmd" /\ ArrayReply(a, n, 2)
           \/ op = "EXEC" /\ ArrayReply(a, n, queued)
           \/ op = "EXEC" /\ a = <<Token(n, "array", -1)>>
<1> DEFINE Tokens == [req : {n}, kind : {"array", "bulk", "error"}, len : Int]
<1>1. Token(n, "bulk", 0) \in Tokens /\ Token(n, "error", 0) \in Tokens
  BY DEF Token
<1>2. \A q \in Nat : Token(n, "array", q) \in Tokens
  BY DEF Token
<1>3. CASE op = "cmd" /\ multi = "none"
  <2> DEFINE b == <<Token(n, "array", 2), Token(n, "bulk", 0), Token(n, "bulk", 0)>>
  <2>1. a \in {Simple(n, "bulk"), Simple(n, "error"), b}
    BY <1>3, Zenon DEF Answers
  <2>2. ArrayReply(b, n, 2)
    <3>1. Token(n, "array", 2) \in Tokens
      BY <1>2, Zenon
    <3>. HIDE DEF Tokens
    <3>2. b \in Seq(Tokens) /\ Len(b) = 3 /\ b[1] = Token(n, "array", 2)
          /\ b[2] = Token(n, "bulk", 0) /\ b[3] = Token(n, "bulk", 0)
      BY <1>1, <3>1
    <3>. HIDE DEF b
    <3>3. \A i \in 2 .. 2 + 1 : b[i] = Token(n, "bulk", 0)
      BY <3>2
    <3>4. Token(n, "bulk", 0).req = n /\ Token(n, "bulk", 0).kind = "bulk" /\ 2 + 1 = 3
      BY DEF Token
    <3>. QED BY <3>2, <3>3, <3>4, Zenon DEF ArrayReply, Tokens
  <2>. HIDE DEF b
  <2>. QED BY <1>3, <2>1, <2>2, Zenon
<1>4. CASE op = "EXEC" /\ multi = "open"
  <2>1. \/ a = <<Token(n, "array", -1)>>
        \/ \E e \in Elements(n, queued) : a = <<Token(n, "array", queued)>> \o e
    BY <1>4, Zenon DEF Answers
  <2>2. ASSUME NEW e \in Elements(n, queued), a = <<Token(n, "array", queued)>> \o e
        PROVE  ArrayReply(a, n, queued)
    <3> DEFINE t == Token(n, "array", queued)
    <3>1. e \in [1 .. queued -> Tokens]
      BY <1>1, <2>2, Zenon DEF Elements
    <3>2. e \in Seq(Tokens) /\ Len(e) = queued /\ t \in Tokens
      <4>1. t \in Tokens
        BY <1>2, Zenon
      <4>. HIDE DEF Tokens, t
      <4>. QED BY <3>1, <4>1
    <3>3. a = <<t>> \o e
      BY <2>2, Zenon
    <3>4. \A i \in 1 .. queued : e[i] \in {Token(n, "bulk", 0), Token(n, "error", 0)}
      BY <2>2, Zenon DEF Elements
    <3>5. \A i \in 1 .. queued : e[i].req = n /\ e[i].kind \in {"bulk", "error"}
      BY <3>4 DEF Token
    <3>. HIDE DEF Tokens, t
    <3>6. a \in Seq(Tokens) /\ Len(a) = queued + 1 /\ a[1] = t
          /\ \A i \in 2 .. queued + 1 : a[i] = e[i - 1] /\ i - 1 \in 1 .. queued
      BY <3>2, <3>3
    <3>. QED BY <3>5, <3>6, Zenon DEF ArrayReply, Tokens, t
  <2>. QED BY <1>4, <2>1, <2>2, Zenon
<1>5. CASE ~ (op = "cmd" /\ multi = "none") /\ ~ (op = "EXEC" /\ multi = "open")
  <2>1. \E kind \in {"bulk", "error", "queued", "ok"} :
          a = Simple(n, kind) /\ (op = "EXEC" => kind = "error")
    BY <1>5, Zenon DEF Answers, Ops
  <2>. QED BY <2>1, Zenon
<1>. QED BY <1>3, <1>4, <1>5, Zenon

LEMMA AnswerIsSeq ==
    ASSUME NEW n, NEW op \in Ops, NEW a \in Answers(n, op), queued \in Nat
    PROVE  \E T : a \in Seq(T)
<1>1. ASSUME NEW t PROVE <<t>> \in Seq({t})
  OBVIOUS
<1>2. ASSUME NEW q, ArrayReply(a, n, q) PROVE \E T : a \in Seq(T)
  BY <1>2, Zenon DEF ArrayReply
<1>3. ASSUME NEW kind, a = Simple(n, kind) PROVE \E T : a \in Seq(T)
  BY <1>1, <1>3, Zenon DEF Simple
<1>4. ASSUME a = <<Token(n, "array", -1)>> PROVE \E T : a \in Seq(T)
  BY <1>1, <1>4, Zenon
<1>. QED BY <1>2, <1>3, <1>4, AnswerForms, Zenon

\* On a connection in step a call reads its own answer, all of it; TransExec
\* gets values exactly when the transaction was executed.
LEMMA CallReads ==
    ASSUME NEW n, NEW op \in Ops, NEW a \in Answers(n, op), queued \in Nat, ~HoldsError(a)
    PROVE  /\ readResponse(a).rest = <<>>
           /\ readResponse(a).got = {n}
           /\ op = "EXEC" => (readResponse(a).ret = "values" <=> Executed(op, a) = "all")
<1>1. ASSUME NEW kind \in {"bulk", "error", "queued", "ok"}, a = Simple(n, kind),
             op = "EXEC" => kind = "error"
      PROVE  /\ readResponse(a) = [ret |-> kind, got |-> {n}, rest |-> <<>>]
             /\ op = "EXEC" => Executed(op, a) = "not"
  <2>1. readResponse(a) = [ret |-> kind, got |-> {n}, rest |-> <<>>]
    <3>1. kind # "array"
      BY <1>1, Zenon
    <3>. QED BY <1>1, <3>1, ReadSimple, Zenon
  <2>2. a[1].kind = kind
    BY <1>1, Zenon DEF Simple, Token
  <2>. QED BY <1>1, <2>1, <2>2, Zenon DEF Executed
<1>2. ASSUME NEW q \in Nat, ArrayReply(a, n, q)
      PROVE  /\ readResponse(a).rest = <<>>
             /\ readResponse(a).got = {n}
             /\ op = "EXEC" => (readResponse(a).ret = "values" <=> Executed(op, a) = "all")
  <2>1. /\ readResponse(a).rest = <<>>
        /\ readResponse(a).got = {n}
        /\ readResponse(a).ret = IF \E i \in DOMAIN a : a[i].kind = "error"
                                 THEN "error" ELSE "values"
    <3>1. ReadsWhole(a, n)
      BY <1>2, ReadArray, Zenon
    <3>. QED BY <3>1, Zenon DEF ReadsWhole
  <2>2. a[1].kind = "array" /\ a[1].len = q /\ q # -1
    BY <1>2 DEF ArrayReply, Token
  <2>. QED BY <2>1, <2>2, Zenon DEF Executed
<1>3. ASSUME a = <<Token(n, "array", -1)>>
      PROVE  /\ readResponse(a) = [ret |-> "empty", got |-> {n}, rest |-> <<>>]
             /\ Executed(op, a) = "not"
  <2>1. readResponse(a) = [ret |-> "empty", got |-> {n}, rest |-> <<>>]
    BY <1>3, ReadNull, Zenon
  <2>2. a[1].len = -1
    BY <1>3, Zenon DEF Token
  <2>. QED BY <2>1, <2>2, Zenon DEF Executed
<1>4. 2 \in Nat
  OBVIOUS
<1>5. CASE \E kind \in {"bulk", "error", "queued", "ok"} :
             a = Simple(n, kind) /\ (op = "EXEC" => kind = "error")
  BY <1>1, <1>5
<1>. QED BY <1>2, <1>3, <1>4, <1>5, AnswerForms

\* Reading one reply that is not an array off a longer stream.
LEMMA ReadFirst ==
    ASSUME NEW T, NEW a \in Seq(T), NEW i \in 1 .. Len(a), a[i].kind # "array"
    PROVE  readResponse(SubSeq(a, i, Len(a))) =
             [ret |-> a[i].kind, got |-> {a[i].req}, rest |-> SubSeq(a, i + 1, Len(a))]
<1> DEFINE s == SubSeq(a, i, Len(a))
<1>1. /\ s \in Seq(T) /\ Len(s) = Len(a) - i + 1 /\ s # <<>>
      /\ \A j \in 1 .. Len(s) : s[j] = a[i + j - 1]
      /\ Len(a) \in Nat
  <2>1. Len(a) \in Nat
    OBVIOUS
  <2>2. s \in Seq(T) /\ Len(s) = Len(a) - i + 1
    BY <2>1
  <2>3. \A j \in 1 .. Len(a) - i + 1 : s[j] = a[i + j - 1]
    BY <2>1
  <2>. HIDE DEF s
  <2>4. s # <<>>
    BY <2>1, <2>2
  <2>. QED BY <2>1, <2>2, <2>3, <2>4, Zenon
<1>2. s[1] = a[i] /\ Head(s) = a[i]
  BY <1>1
<1>3. SubSeq(s, 0 + 2, Len(s)) = SubSeq(a, i + 1, Len(a))
  BY <1>1
<1>. HIDE DEF s
<1>4. {s[j].req : j \in 1 .. 0 + 1} = {a[i].req}
  BY <1>2
<1>. QED BY <1>2, <1>3, <1>4, Zenon DEF readResponse, s

\* The values of a sequence at one more place.
LEMMA ImagePlus ==
    ASSUME NEW w, NEW A, NEW i
    PROVE  {w[j] : j \in A \cup {i}} = {w[j] : j \in A} \cup {w[i]}
BY Zenon

\* A pipeline on a connection in step reads all replies to its requests and
\* nothing else.
LEMMA PipeReads ==
    ASSUME NEW w \in Seq(Nat), NEW kinds \in [DOMAIN w -> {"bulk", "error"}]
    PROVE  LET a == [i \in DOMAIN w |-> Token(w[i], kinds[i], 0)]
           IN  /\ ReadAll(Len(w), a).rest = <<>>
               /\ ReadAll(Len(w), a).got = {w[i] : i \in DOMAIN w}
<1> DEFINE n == Len(w)
           T == [req : Nat, kind : {"bulk", "error"}, len : {0}]
           a == [i \in DOMAIN w |-> Token(w[i], kinds[i], 0)]
           Next1(f, i) == LET r == readResponse(f[i - 1].rest)
                          IN  [ret |-> r.ret, got |-> f[i - 1].got \cup r.got, rest |-> r.rest]
           Reads(f) == [i \in 0 .. n |-> IF i = 0 THEN [ret |-> "values", got |-> {}, rest |-> a]
                                         ELSE Next1(f, i)]
           reads == CHOOSE f : f = Reads(f)
           h == [i \in 0 .. n |-> [ret |-> IF i = 0 THEN "values" ELSE kinds[i],
                                   got |-> {w[j] : j \in 1 .. i},
                                   rest |-> SubSeq(a, i + 1, n)]]
<1>1. n \in Nat /\ DOMAIN w = 1 .. n /\ \A i \in 1 .. n : w[i] \in Nat
  OBVIOUS
<1>2. a \in Seq(T) /\ Len(a) = n /\ SubSeq(a, 1, n) = a
  <2>1. a \in [1 .. n -> T]
    BY <1>1, Zenon DEF Token
  <2>. HIDE DEF a, T, n
  <2>. QED BY <1>1, <2>1
<1>3. \A i \in 1 .. n : a[i].kind = kinds[i] /\ a[i].req = w[i] /\ kinds[i] \in {"bulk", "error"}
  BY <1>1, Zenon DEF Token
<1>. HIDE DEF a
<1>4. ReadAll(n, a) = reads[n]
  BY Zenon DEF ReadAll
<1>5. ASSUME NEW i \in 1 .. n PROVE h[i] = Next1(h, i)
  <2>1. i - 1 \in 0 .. n /\ (i - 1) + 1 = i /\ i \in 0 .. n /\ i # 0
    BY <1>1
  <2>2. h[i - 1].rest = SubSeq(a, i, n) /\ h[i - 1].got = {w[j] : j \in 1 .. i - 1}
    BY <2>1, Zenon
  <2>3. readResponse(SubSeq(a, i, n)) =
          [ret |-> kinds[i], got |-> {w[i]}, rest |-> SubSeq(a, i + 1, n)]
    <3>1. a[i].kind # "array" /\ i \in 1 .. Len(a)
      BY <1>2, <1>3, Zenon
    <3>. HIDE DEF T, n
    <3>2. readResponse(SubSeq(a, i, Len(a))) =
            [ret |-> a[i].kind, got |-> {a[i].req}, rest |-> SubSeq(a, i + 1, Len(a))]
      BY <1>2, <3>1, ReadFirst, Zenon
    <3>. QED BY <1>2, <1>3, <3>2, Zenon
  <2>4. {w[j] : j \in 1 .. i} = {w[j] : j \in 1 .. i - 1} \cup {w[i]}
    <3>1. 1 .. i = (1 .. i - 1) \cup {i}
      OBVIOUS
    <3> DEFINE A == 1 .. i - 1
    <3>2. {w[j] : j \in A \cup {i}} = {w[j] : j \in A} \cup {w[i]}
      <4>. HIDE DEF A, n, T, h, reads, Reads, Next1
      <4>. QED BY ImagePlus, Zenon
    <3>. QED BY <3>1, <3>2, Zenon
  <2>5. h[i] = [ret |-> kinds[i], got |-> {w[j] : j \in 1 .. i}, rest |-> SubSeq(a, i + 1, n)]
    <3> DEFINE v(l) == [ret |-> IF l = 0 THEN "values" ELSE kinds[l],
                        got |-> {w[j] : j \in 1 .. l}, rest |-> SubSeq(a, l + 1, n)]
    <3>1. h[i] = v(i)
      <4>1. h = [l \in 0 .. n |-> v(l)]
        BY Zenon
      <4>. HIDE DEF h, v, n
      <4>. QED BY <2>1, <4>1, Zenon
    <3>. HIDE DEF h, n
    <3>. QED BY <2>1, <3>1, Zenon
  <2>. HIDE DEF h
  <2> DEFINE r == readResponse(h[i - 1].rest)
  <2>6. r.ret = kinds[i] /\ r.got = {w[i]} /\ r.rest = SubSeq(a, i + 1, n)
    BY <2>2, <2>3
  <2>. QED BY <2>2, <2>4, <2>5, <2>6, Zenon
<1>6. h[0] = [ret |-> "values", got |-> {}, rest |-> a]
  <2>1. 0 \in 0 .. n /\ {w[j] : j \in 1 .. 0} = {} /\ 0 + 1 = 1
    BY <1>1
  <2>. HIDE DEF n
  <2>. QED BY <1>2, <2>1, Zenon
<1>7. h = Reads(h)
  <2>1. h = [i \in 0 .. n |-> h[i]]
    OBVIOUS
  <2>. HIDE DEF h, Next1
  <2>2. ASSUME NEW i \in 0 .. n
        PROVE  h[i] = IF i = 0 THEN [ret |-> "values", got |-> {}, rest |-> a] ELSE Next1(h, i)
    <3>1. i # 0 => i \in 1 .. n
      BY <1>1
    <3>. QED BY <1>5, <1>6, <3>1, Zenon
  <2>. HIDE DEF n
  <2>. QED BY <2>1, <2>2, Zenon
<1>8. reads = Reads(reads)
  <2>. HIDE DEF Reads, h
  <2>. QED BY <1>7, Zenon
<1>. HIDE DEF reads
<1>9. /\ reads[0] = [ret |-> "values", got |-> {}, rest |-> a]
      /\ \A i \in 1 .. n : reads[i] = Next1(reads, i)
  <2>. HIDE DEF Next1
  <2>1. \A i \in 0 .. n : reads[i] = IF i = 0 THEN [ret |-> "values", got |-> {}, rest |-> a]
                                     ELSE Next1(reads, i)
    <3> DEFINE v(i) == IF i = 0 THEN [ret |-> "values", got |-> {}, rest |-> a]
                       ELSE Next1(reads, i)
    <3>1. reads = [i \in 0 .. n |-> v(i)]
      BY <1>8, Zenon
    <3>2. ASSUME NEW i \in 0 .. n PROVE reads[i] = v(i)
      <4>. HIDE DEF v, n
      <4>. QED BY <3>1, Zenon
    <3>. QED BY <3>2, Zenon
  <2>2. 0 \in 0 .. n /\ \A i \in 1 .. n : i \in 0 .. n /\ i # 0
    BY <1>1
  <2>. QED BY <2>1, <2>2, Zenon
<1> DEFINE S == {i \in Nat : i <= n => reads[i] = h[i]}
<1>10. 0 \in S
  <2>. HIDE DEF h
  <2>. QED BY <1>6, <1>9, Zenon
<1>11. ASSUME NEW i \in Nat, i \in S PROVE i + 1 \in S
  <2>1. SUFFICES ASSUME i + 1 <= n PROVE reads[i + 1] = h[i + 1]
    OBVIOUS
  <2>2. i + 1 \in 1 .. n /\ (i + 1) - 1 = i /\ reads[i] = h[i]
    BY <1>1, <1>11, <2>1
  <2>. HIDE DEF h
  <2>3. reads[i + 1] = Next1(reads, i + 1) /\ h[i + 1] = Next1(h, i + 1)
    <3>. HIDE DEF Next1
    <3>. QED BY <1>5, <1>9, <2>2, Zenon
  <2>. QED BY <2>2, <2>3, Zenon
<1>12. reads[n] = h[n]
  <2>1. n \in S
    <3>. HIDE DEF S, n
    <3>. QED BY <1>1, <1>10, <1>11, NatBySet, Zenon
  <2>. QED BY <1>1, <2>1
<1>13. h[n].rest = <<>> /\ h[n].got = {w[i] : i \in DOMAIN w}
  BY <1>1, <1>2
<1>. QED BY <1>4, <1>12, <1>13, Zenon DEF a

-----------------------------------------------------------------------------
LEMMA NothingBefore ==
    ASSUME NEW T, NEW s \in Seq(T)
    PROVE  <<>> \o s = s
OBVIOUS

\* The server keeps its transaction.
LEMMA ServedTypes ==
    ASSUME multi \in {"none", "open", "dirty"}, queued \in Nat, multi = "none" => queued = 0,
           NEW n, NEW op \in Ops, NEW a \in Answers(n, op), Served(op, a)
    PROVE  /\ multi' \in {"none", "open", "dirty"}
           /\ queued' \in Nat
           /\ multi' = "none" => queued' = 0
<1>1. op = "cmd" /\ multi = "none" => a[1].kind # "queued"
  BY DEF Answers, Simple, Token
<1>2. CASE op = "cmd"
  <2>1. multi' = IF a[1].kind = "error" /\ multi = "open" THEN "dirty" ELSE multi
    BY <1>2, Zenon DEF Served
  <2>2. queued' = IF a[1].kind = "queued" THEN queued + 1 ELSE queued
    BY <1>2, Zenon DEF Served
  <2>. QED BY <1>1, <1>2, <2>1, <2>2
<1>3. CASE op = "MULTI"
  <2>1. multi' = IF a[1].kind # "error" THEN "open" ELSE multi
    BY <1>3, Zenon DEF Served
  <2>2. queued' = queued
    BY <1>3, Zenon DEF Served
  <2>. QED BY <2>1, <2>2, Zenon
<1>4. CASE op \in {"EXEC", "DISCARD"}
  <2>1. multi' = "none" /\ queued' = 0
    BY <1>4, Zenon DEF Served
  <2>. QED BY <2>1, Zenon
<1>5. CASE op = "WATCH"
  <2>1. multi' = multi /\ queued' = queued
    BY <1>5, Zenon DEF Served
  <2>. QED BY <2>1, Zenon
<1>. QED BY <1>2, <1>3, <1>4, <1>5, Zenon DEF Ops

\* Each operation keeps the invariant.
LEMMA CallKeeps == ASSUME ConnInv, NEW op \in Ops, Call(op) PROVE ConnInv'
<1> DEFINE n == reqNo + 1
<1>1. /\ ~cerr /\ ~wberr /\ reqNo < MaxRequests /\ reqNo' = n
      /\ UNCHANGED <<cerr, wberr, wb, pipeCount, late, netFaults>>
  BY Zenon DEF Call, ConnIdle
<1>2. PICK a \in Answers(n, op) :
        LET r == readResponse(stream \o a)
        IN  /\ Served(op, a)
            /\ stream' = r.rest
            /\ nested' = (nested \/ HoldsError(a))
            /\ last' = Result(op, {n},
                         IF op = "EXEC" /\ r.ret = "error" THEN "ErrNil" ELSE r.ret,
                         r.got, Executed(op, a))
  BY Zenon DEF Call
<1>3. multi' \in {"none", "open", "dirty"} /\ queued' \in Nat /\ (multi' = "none" => queued' = 0)
  BY <1>2, ServedTypes, Zenon DEF ConnInv
<1>4. nested' \in BOOLEAN
  BY <1>2, Zenon
<1>5. reqNo' \in 0 .. MaxRequests
  BY <1>1, ConnAssumption DEF ConnInv
<1>6. RedisInStep'
  <2>1. SUFFICES ASSUME ~nested', ~late'
                 PROVE  /\ stream' = <<>>
                        /\ last'.got \subseteq last'.reqs
                        /\ last'.got = last'.reqs
                        /\ last'.op = "EXEC" =>
                             /\ last'.ret = "ErrNil" => last'.done # "all"
                             /\ last'.ret = "values" <=> last'.done = "all"
    BY <1>1, Zenon DEF RedisInStep
  <2>2. ~HoldsError(a) /\ stream = <<>>
    BY <1>1, <1>2, <2>1, Zenon DEF ConnInv, RedisInStep
  <2>3. stream \o a = a
    <3>1. \E T : a \in Seq(T)
      BY AnswerIsSeq, Zenon DEF ConnInv
    <3>2. <<>> \o a = a
      BY <3>1, NothingBefore, Zenon
    <3>. QED BY <2>2, <3>2, Zenon
  <2>4. /\ readResponse(a).rest = <<>>
        /\ readResponse(a).got = {n}
        /\ op = "EXEC" => (readResponse(a).ret = "values" <=> Executed(op, a) = "all")
    BY <2>2, CallReads DEF ConnInv
  <2>. HIDE DEF n
  <2>5. /\ last'.op = op /\ last'.reqs = {n} /\ last'.got = readResponse(a).got
        /\ last'.ret = (IF op = "EXEC" /\ readResponse(a).ret = "error" THEN "ErrNil"
                        ELSE readResponse(a).ret)
        /\ last'.done = Executed(op, a)
        /\ stream' = readResponse(a).rest
    BY <1>2, <2>3, Zenon DEF Result
  <2>. QED BY <2>4, <2>5, Zenon
<1>. QED BY <1>1, <1>3, <1>4, <1>5, <1>6, Zenon DEF ConnInv

LEMMA CallFailsKeeps == ASSUME ConnInv, NEW op \in Ops, CallFails(op) PROVE ConnInv'
<1>1. /\ reqNo < MaxRequests /\ reqNo' = reqNo + 1 /\ cerr' = TRUE
      /\ UNCHANGED <<wberr, wb, pipeCount, stream, nested, late>>
  BY Zenon DEF CallFails, ConnIdle
<1>2. multi' \in {"none", "open", "dirty"} /\ queued' \in Nat /\ (multi' = "none" => queued' = 0)
  <2>1. CASE UNCHANGED <<multi, queued>>
    BY <2>1, Zenon DEF ConnInv
  <2>2. CASE \E a \in Answers(reqNo + 1, op) : Served(op, a)
    BY <2>2, ServedTypes, Zenon DEF ConnInv
  <2>. QED BY <2>1, <2>2, Zenon DEF CallFails
<1>3. reqNo' \in 0 .. MaxRequests /\ netFaults' \in 0 .. MaxNetFaults
  BY <1>1, ConnAssumption DEF ConnInv, CallFails
<1>4. /\ last'.got = {} /\ last'.ret \in {"neterr", "ErrNil"} /\ last'.done = "not"
  <2>1. PICK ret \in {"neterr", "ErrNil"} : last' = Result(op, {reqNo + 1}, ret, {}, "not")
    BY Zenon DEF CallFails
  <2>. QED BY <2>1, Zenon DEF Result
<1>5. RedisInStep'
  BY <1>1, <1>4, Zenon DEF RedisInStep
<1>. QED BY <1>1, <1>2, <1>3, <1>4, <1>5, Zenon DEF ConnInv

LEMMA PipeSendKeeps == ASSUME ConnInv, PipeSend PROVE ConnInv'
<1>1. /\ ~cerr /\ reqNo < MaxRequests /\ reqNo' = reqNo + 1 /\ pipeCount' = pipeCount + 1
      /\ wb' = (IF wberr THEN wb ELSE Append(wb, reqNo + 1))
      /\ UNCHANGED <<cerr, wberr, stream, multi, queued, last, nested, late, netFaults>>
  BY Zenon DEF PipeSend
<1>2. reqNo' \in 0 .. MaxRequests /\ reqNo + 1 \in Nat
  BY <1>1, ConnAssumption DEF ConnInv
<1>3. wb \in Seq(Nat) /\ Len(wb) \in Nat
  BY DEF ConnInv
<1>4. wb' \in Seq(Nat) /\ pipeCount' >= Len(wb') /\ (~wberr' => pipeCount' = Len(wb'))
      /\ pipeCount' \in Nat
  <2>1. CASE wberr
    BY <1>1, <1>3, <2>1 DEF ConnInv
  <2>2. CASE ~wberr
    <3>1. wb' \in Seq(Nat) /\ Len(wb') = Len(wb) + 1
      BY <1>1, <1>2, <1>3, <2>2
    <3>. QED BY <1>1, <1>3, <2>2, <3>1 DEF ConnInv
  <2>. QED BY <2>1, <2>2, Zenon
<1>5. RedisInStep'
  BY <1>1, Zenon DEF RedisInStep, ConnInv
<1>. QED BY <1>1, <1>2, <1>4, <1>5, Zenon DEF ConnInv

LEMMA PipeExecKeeps == ASSUME ConnInv, PipeExec PROVE ConnInv'
<1>1. /\ ~cerr /\ ~wberr /\ wb' = <<>> /\ pipeCount' = 0
      /\ UNCHANGED <<cerr, wberr, multi, queued, reqNo, nested, late, netFaults>>
  BY Zenon DEF PipeExec, PipeDone
<1>2. PICK kinds \in PipeAnswers :
        LET a == [i \in DOMAIN wb |-> Token(wb[i], kinds[i], 0)]
            r == ReadAll(pipeCount, stream \o a)
        IN  /\ stream' = r.rest
            /\ last' = Result("pipe", {wb[i] : i \in DOMAIN wb}, r.ret, r.got, "not")
  BY Zenon DEF PipeExec
<1> DEFINE a == [i \in DOMAIN wb |-> Token(wb[i], kinds[i], 0)]
<1>3. RedisInStep'
  <2>1. SUFFICES ASSUME ~nested', ~late'
                 PROVE  /\ stream' = <<>>
                        /\ last'.got = last'.reqs
                        /\ last'.op = "pipe"
    BY Zenon DEF RedisInStep
  <2>2. stream = <<>> /\ pipeCount = Len(wb) /\ wb \in Seq(Nat)
    BY <1>1, <2>1, Zenon DEF ConnInv, RedisInStep
  <2>3. kinds \in [DOMAIN wb -> {"bulk", "error"}]
    BY Zenon DEF PipeAnswers
  <2>4. ReadAll(Len(wb), a).rest = <<>> /\ ReadAll(Len(wb), a).got = {wb[i] : i \in DOMAIN wb}
    BY <2>2, <2>3, PipeReads, Zenon
  <2>5. stream \o a = a
    <3>1. a \in Seq({a[i] : i \in DOMAIN a})
      <4>1. a \in [1 .. Len(wb) -> {a[i] : i \in DOMAIN a}]
        BY <2>2
      <4>2. Len(wb) \in Nat
        BY <2>2
      <4> DEFINE V == {a[i] : i \in DOMAIN a}
      <4>. HIDE DEF a, V
      <4>3. a \in [1 .. Len(wb) -> V]
        BY <4>1, Zenon DEF V
      <4>4. a \in Seq(V)
        BY <4>2, <4>3
      <4>. QED BY <4>4, Zenon DEF V
    <3>. HIDE DEF a
    <3>2. <<>> \o a = a
      BY <3>1, NothingBefore, Zenon
    <3>. QED BY <2>2, <3>2, Zenon
  <2> DEFINE r == ReadAll(pipeCount, stream \o a)
  <2>6. stream' = r.rest /\ last' = Result("pipe", {wb[i] : i \in DOMAIN wb}, r.ret, r.got, "not")
    BY <1>2, Zenon
  <2>7. r.rest = <<>> /\ r.got = {wb[i] : i \in DOMAIN wb}
    <3>. HIDE DEF a
    <3>. QED BY <2>2, <2>4, <2>5, Zenon
  <2>. HIDE DEF r
  <2>. QED BY <2>6, <2>7, Zenon DEF Result
<1>. QED BY <1>1, <1>3 DEF ConnInv

LEMMA PipeExecLateKeeps == ASSUME ConnInv, NEW k, PipeExecLate(k) PROVE ConnInv'
<1>1. /\ ~cerr /\ wb' = <<>> /\ pipeCount' = 0 /\ late' = TRUE
      /\ netFaults < MaxNetFaults /\ netFaults' = netFaults + 1
      /\ UNCHANGED <<cerr, wberr, multi, queued, reqNo, nested>>
  BY Zenon DEF PipeExecLate, PipeDone
<1>2. RedisInStep'
  BY <1>1, Zenon DEF RedisInStep
<1>3. netFaults' \in 0 .. MaxNetFaults
  BY <1>1, ConnAssumption DEF ConnInv
<1>. QED BY <1>1, <1>2, <1>3 DEF ConnInv

LEMMA PipeExecFailsKeeps == ASSUME ConnInv, PipeExecFails PROVE ConnInv'
<1>1. /\ ~cerr /\ wberr' = TRUE
      /\ last' = Result("pipe", {wb[i] : i \in DOMAIN wb}, "neterr", {}, "not")
      /\ UNCHANGED <<cerr, wb, pipeCount, stream, multi, queued, reqNo, nested, late>>
  BY Zenon DEF PipeExecFails
<1>2. netFaults' \in 0 .. MaxNetFaults
  BY ConnAssumption DEF ConnInv, PipeExecFails
<1>3. last'.got = {} /\ last'.ret = "neterr" /\ last'.op = "pipe"
  BY <1>1, Zenon DEF Result
<1>4. RedisInStep'
  BY <1>1, <1>3, Zenon DEF RedisInStep, ConnInv
<1>. QED BY <1>1, <1>2, <1>4, Zenon DEF ConnInv

LEMMA RedialKeeps == ASSUME ConnInv, Redial PROVE ConnInv'
<1>1. RedisInStep'
  BY Zenon DEF RedisInStep, ConnInv, Redial
<1>2. <<>> \in Seq(Nat) /\ Len(<<>>) = 0 /\ 0 \in Nat /\ 0 >= 0
  OBVIOUS
<1>. QED BY <1>1, <1>2, Zenon DEF ConnInv, Redial

\* The inductive invariant holds of the connection, for any number of requests
\* and of failures of the network.
THEOREM ConnInvariant == ConnSpec => []ConnInv
<1>1. ConnInit => ConnInv
  <2>. SUFFICES ASSUME ConnInit PROVE ConnInv
    OBVIOUS
  <2>1. last.got = {} /\ last.reqs = {} /\ last.op = "none"
    BY Zenon DEF ConnInit, Result
  <2>2. RedisInStep
    BY <2>1, Zenon DEF ConnInit, RedisInStep
  <2>3. <<>> \in Seq(Nat) /\ Len(<<>>) = 0 /\ 0 \in Nat /\ 0 >= 0
        /\ 0 \in 0 .. MaxRequests /\ 0 \in 0 .. MaxNetFaults
    BY ConnAssumption
  <2>. QED BY <2>2, <2>3, Zenon DEF ConnInit, ConnInv
<1>2. ConnInv /\ [ConnNext]_connVars => ConnInv'
  <2>. SUFFICES ASSUME ConnInv, [ConnNext]_connVars PROVE ConnInv'
    OBVIOUS
  <2>1. CASE UNCHANGED connVars
    BY <2>1, Zenon DEF connVars, ConnInv, RedisInStep
  <2>2. CASE ConnNext
    BY <2>2, CallKeeps, CallFailsKeeps, PipeSendKeeps, PipeExecKeeps, PipeExecLateKeeps,
       PipeExecFailsKeeps, RedialKeeps, Zenon DEF ConnNext
  <2>. QED BY <2>1, <2>2, Zenon
<1>. QED BY <1>1, <1>2, PTL DEF ConnSpec

\* A connection counts as pipelined exactly the requests in its write buffer
\* until a write fails (conn.go:441-458).
THEOREM ConnTypes == ConnSpec => []ConnTypeOK
<1>1. ConnInv => ConnTypeOK
  BY Zenon DEF ConnInv, ConnTypeOK
<1>. QED BY <1>1, ConnInvariant, PTL

\* Through any sequence of calls, pipelines, transactions and failures, replies of
\* any length included, a connection that is not marked as broken returns the
\* replies to its own requests, outside the two excepted cases (conn.go:175-240,
\* conn.go:351-502).
THEOREM ConnectionInStep == ConnSpec => []RedisInStep
<1>1. ConnInv => RedisInStep
  BY Zenon DEF ConnInv
<1>. QED BY <1>1, ConnInvariant, PTL
=============================================================================
