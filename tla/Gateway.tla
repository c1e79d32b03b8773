------------------------------ MODULE Gateway ------------------------------
(***************************************************************************)
(* The redis-protocol front of the bus: sessions of clients that send AUTH,*)
(* PING, INFO, LPUSH and RPOP for one queue, what each handler writes to   *)
(* the reply stream, and what a push leaves in the redis lists of the      *)
(* queue's topics.  The handlers of one session run one after the other,   *)
(* those of different sessions interleave.                                 *)
(*                                                                         *)
(* A name "queue/topic" is the sequence of its parts.  What the topic's    *)
(* workers do with the lists is module Mux; here only RPOP empties them.   *)
(***************************************************************************)
EXTENDS Integers, Sequences, FiniteSets, Functions

CONSTANTS
  Clients,      \* sessions
  Queue,        \* name of the queue
  Topics,       \* topics the configuration may give it
  Passwords,    \* passwords the configuration may use
  MaxCmds,      \* bound: commands of all sessions
  MaxUpdates,   \* bound: configuration updates
  MaxFaults     \* bound: LPUSH calls to redis that go wrong

VARIABLES
  conf,     \* QueueConfs(): the password of the queue and of each topic
  served,   \* MuxServer.queueConfig: the configuration Serve has applied
  auth,     \* "auth" in the session's context; <<>> when absent or false
  replies,  \* what was written to each session, with the command it answers
  cmds,     \* commands handled in each session
  push,     \* history: every LPUSH that reached MuxServer.AddJobs
  list,     \* the common list of each topic, the next RPOP first
  counted,  \* history: pushes given to GatewayStat.Add, with the outcome
  updates, faults

gwVars == <<conf, served, auth, replies, cmds, push, list, counted, updates, faults>>

Names == {<<Queue>>} \cup {<<Queue, t>> : t \in Topics}
Kinds == {"error", "ok", "ids", "job", "nil"}

\* The names clients write in AUTH and RPOP: also one with an empty topic.
NoTopic == "none"
Written == Names \cup {<<Queue, NoTopic>>}

ASSUME GatewayBounds == IsFiniteSet(Topics) /\ NoTopic \notin Topics

ConfTopics(c) == {t \in Topics : <<Queue, t>> \in DOMAIN c}

\* The topics with a muxer in MuxServer.mux.
mux == ConfTopics(served)

GatewayInit ==
  /\ \E p \in Passwords : conf = [n \in Names |-> p]
  /\ served = <<>>
  /\ auth = [c \in Clients |-> <<>>]
  /\ replies = [c \in Clients |-> <<>>]
  /\ cmds = [c \in Clients |-> 0]
  /\ push = {}
  /\ list = [t \in Topics |-> <<>>]
  /\ counted = {}
  /\ updates = 0
  /\ faults = 0

-----------------------------------------------------------------------------
Issued == FoldFunctionOnSet(LAMBDA a, b : a + b, 0, cmds, Clients)

\* The session's next command is taken up.
TakeCmd(c) ==
  /\ Issued < MaxCmds
  /\ cmds' = [cmds EXCEPT ![c] = @ + 1]

\* The handler of the command being taken up writes these replies.
WriteReplies(c, kinds) ==
  replies' = [replies EXCEPT
    ![c] = @ \o [i \in DOMAIN kinds |-> [cmd |-> cmds[c] + 1, kind |-> kinds[i]]]]

\* Gateway.checkAuth: the context must hold exactly the name; PING gives none.
checkAuth(c, name) ==
  IF name = <<>> THEN auth[c] # <<>> ELSE auth[c] = name

\* The name RPOP and LPUSH check: an empty topic leaves the queue's.
Checked(name) == IF name[2] = NoTopic THEN <<name[1]>> ELSE name

\* Gateway.auth: the password the name needs is that of the queue unless the
\* name has a topic.  A failure revokes what the session had.
Auth(c, name, pw) ==
  LET entry == IF Len(name) = 2 /\ name[2] # NoTopic THEN name ELSE <<name[1]>>
      good == entry \in DOMAIN conf /\ conf[entry] = pw
  IN  /\ TakeCmd(c)
      /\ auth' = [auth EXCEPT ![c] = IF good THEN name ELSE <<>>]
      /\ WriteReplies(c, IF good THEN <<"ok">> ELSE <<"error">>)
      /\ UNCHANGED <<conf, served, push, list, counted, updates, faults>>

\* AUTH without a password separator.
AuthMalformed(c) ==
  /\ TakeCmd(c)
  /\ auth' = [auth EXCEPT ![c] = <<>>]
  /\ WriteReplies(c, <<"error">>)
  /\ UNCHANGED <<conf, served, push, list, counted, updates, faults>>

\* AUTH, LPUSH or RPOP without arguments; LPUSH or RPOP without a "/".
TooFewArgs(c) ==
  /\ TakeCmd(c)
  /\ WriteReplies(c, <<"error">>)
  /\ UNCHANGED <<conf, served, auth, push, list, counted, updates, faults>>

\* Gateway.ping
Ping(c) ==
  /\ TakeCmd(c)
  /\ WriteReplies(c, IF checkAuth(c, <<>>) THEN <<"ok">> ELSE <<"error">>)
  /\ UNCHANGED <<conf, served, auth, push, list, counted, updates, faults>>

\* Gateway.info
Info(c) ==
  /\ TakeCmd(c)
  /\ WriteReplies(c, <<"ok">>)
  /\ UNCHANGED <<conf, served, auth, push, list, counted, updates, faults>>

\* Outcomes of one LPUSH to redis, by the number of copies it leaves: lost,
\* stored, or stored twice because CallN repeated a call whose answer was lost.
CopyCounts == 0 .. 2

\* Mutant of AddJobsError: storage.AddQueue returns the error of its LPUSH.
AddJobsErrorReported(n, copies) ==
  mux = {} \/ n = 0 \/ \E t \in mux : copies[t] = 0

\* MuxServer.AddJobs: one LPUSH per registered topic.  A failed LPUSH is logged
\* by storage.AddQueue and reported to nobody; the only errors are a queue
\* without muxers and a push without jobs.
AddJobsError(n, copies) == mux = {} \/ n = 0

\* Gateway.lpush answers a refusal twice: it does not return after the first.
LpushReplies(refused) ==
  IF refused THEN <<"error", "error">> ELSE <<"ids">>

\* Gateway.lpush for a client that may push n jobs (one stands for several).
Lpush(c, n) ==
  \E copies \in [mux -> CopyCounts] :
    LET p == [client |-> c, cmd |-> cmds[c] + 1,
              refused |-> AddJobsError(n, copies),
              copies |-> [t \in mux |-> n * copies[t]]]
    IN  /\ TakeCmd(c)
        /\ checkAuth(c, <<Queue>>)
        /\ n = 0 => \A t \in mux : copies[t] = 1
        /\ faults' = faults + Cardinality({t \in mux : copies[t] # 1})
        /\ faults' <= MaxFaults
        /\ push' = push \cup {p}
        /\ list' = [t \in Topics |->
             IF t \in mux
             THEN list[t] \o [i \in 1 .. p.copies[t] |-> <<c, p.cmd>>]
             ELSE list[t]]
        /\ WriteReplies(c, LpushReplies(p.refused))
        /\ counted' = counted \cup {<<c, p.cmd, ~p.refused>>}
        /\ UNCHANGED <<conf, served, auth, updates>>

\* Gateway.lpush for a client without the queue's own name in its context.
LpushNoAuth(c) ==
  /\ TakeCmd(c)
  /\ ~checkAuth(c, <<Queue>>)
  /\ WriteReplies(c, <<"error">>)
  /\ UNCHANGED <<conf, served, auth, push, list, counted, updates, faults>>

\* Mutant of RpopReplies: the refusal falls through to the answer.
RpopRepliesTwice(c, name) ==
  IF ~checkAuth(c, Checked(name)) THEN <<"error", "nil">>
  ELSE IF name[2] \notin mux THEN <<"error">>
  ELSE IF list[name[2]] = <<>> THEN <<"nil">> ELSE <<"job">>

\* Gateway.rpop and MuxServer.GetJobs
RpopReplies(c, name) ==
  IF ~checkAuth(c, Checked(name)) THEN <<"error">>
  ELSE IF name[2] \notin mux THEN <<"error">>
  ELSE IF list[name[2]] = <<>> THEN <<"nil">> ELSE <<"job">>

Rpop(c, name) ==
  /\ TakeCmd(c)
  /\ WriteReplies(c, RpopReplies(c, name))
  /\ list' = [t \in Topics |->
       IF t = name[2] /\ RpopReplies(c, name) = <<"job">>
       THEN Tail(list[t]) ELSE list[t]]
  /\ UNCHANGED <<conf, served, auth, push, counted, updates, faults>>

\* Gateway.rpop when the RPOP to redis fails, before or after it took a job.
RpopFails(c, name) ==
  /\ TakeCmd(c)
  /\ checkAuth(c, Checked(name))
  /\ name[2] \in mux
  /\ faults < MaxFaults
  /\ faults' = faults + 1
  /\ WriteReplies(c, <<"error">>)
  /\ \/ UNCHANGED list
     \/ list[name[2]] # <<>> /\ list' = [list EXCEPT ![name[2]] = Tail(@)]
  /\ UNCHANGED <<conf, served, auth, push, counted, updates>>

\* updateQueue stores a configuration that the keeper sent ...
UpdateSetting(T, p) ==
  /\ updates < MaxUpdates
  /\ updates' = updates + 1
  /\ conf' = IF T = {} THEN [n \in {} |-> p]
             ELSE [n \in {<<Queue>>} \cup {<<Queue, t>> : t \in T} |-> p]
  /\ UNCHANGED <<served, auth, replies, cmds, push, list, counted, faults>>

\* ... and MuxServer.Serve applies it later, a changed queue by CmdQueueDel
\* followed by CmdQueueAdd (module MuxServer).
QueueDel ==
  /\ served # <<>>
  /\ served # conf
  /\ served' = <<>>
  /\ UNCHANGED <<conf, auth, replies, cmds, push, list, counted, updates, faults>>

QueueAdd ==
  /\ served = <<>>
  /\ served # conf
  /\ served' = conf
  /\ UNCHANGED <<conf, auth, replies, cmds, push, list, counted, updates, faults>>

GatewayNext ==
  \/ \E c \in Clients :
       \/ \E name \in Written, pw \in Passwords : Auth(c, name, pw)
       \/ AuthMalformed(c)
       \/ TooFewArgs(c)
       \/ Ping(c)
       \/ Info(c)
       \/ \E n \in 0 .. 1 : Lpush(c, n)
       \/ LpushNoAuth(c)
       \/ \E name \in Written \ {<<Queue>>} : Rpop(c, name) \/ RpopFails(c, name)
  \/ \E T \in SUBSET Topics, p \in Passwords : UpdateSetting(T, p)
  \/ QueueDel
  \/ QueueAdd

GatewaySpec == GatewayInit /\ [][GatewayNext]_gwVars

-----------------------------------------------------------------------------
GatewayTypeOK ==
  /\ \A c \in {conf, served} :
       /\ DOMAIN c \subseteq Names
       /\ \A n \in DOMAIN c : c[n] \in Passwords
  /\ auth \in [Clients -> Written \cup {<<>>}]
  /\ \A c \in Clients :
       replies[c] \in Seq([cmd : 1 .. MaxCmds, kind : Kinds])
  /\ cmds \in [Clients -> 0 .. MaxCmds]
  /\ \A t \in Topics : list[t] \in Seq(Clients \X (1 .. MaxCmds))

Refused(c) == {p.cmd : p \in {q \in push : q.client = c /\ q.refused}}

\* Replies are read by position, so a session stays in step as long as each
\* command gets one reply.  The gateway keeps it there except after a push that
\* AddJobs refused, which gateway.go:195-199 answers twice: every later reply
\* of that session then sits one place late for each refused push.
RepliesInStep ==
  \A c \in Clients :
    /\ Len(replies[c]) = cmds[c] + Cardinality(Refused(c))
    /\ \A i \in DOMAIN replies[c] :
         LET n == replies[c][i].cmd
             late == Cardinality({k \in Refused(c) : k < n})
         IN  i - n - late \in IF n \in Refused(c) THEN {0, 1} ELSE {0}

LpushAnswers(p) ==
  {replies[p.client][i].kind : i \in {j \in DOMAIN replies[p.client] :
                                        replies[p.client][j].cmd = p.cmd}}

\* What a pushing client may conclude: after an error none of its jobs is on
\* any list, so repeating the push duplicates nothing; after ids every topic
\* that had a muxer got the jobs, except topics whose redis call went wrong;
\* and GatewayStat.Add is told the same outcome as the client.
AnswerTruthful ==
  \A p \in push :
    /\ "error" \in LpushAnswers(p) => \A t \in DOMAIN p.copies : p.copies[t] = 0
    /\ "ids" \in LpushAnswers(p) =>
         /\ DOMAIN p.copies # {}
         /\ Cardinality({t \in DOMAIN p.copies : p.copies[t] = 0}) <= faults
    /\ <<p.client, p.cmd, "ids" \in LpushAnswers(p)>> \in counted
=============================================================================
