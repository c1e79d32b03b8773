-------------------------- MODULE MuxServerProofs --------------------------
(***************************************************************************)
(* Proofs about MuxServer for every set of queues, topics and clients,     *)
(* every number of updates and every capacity of the command channel.      *)
(***************************************************************************)
EXTENDS MuxServer, SequenceTheorems, TLAPS

-----------------------------------------------------------------------------
\* Types.

\* The commands UpdateConfigs sends.
LEMMA CommandTypes ==
  ASSUME NEW q \in Queues, NEW c \in QueueConfigs
  PROVE  /\ Add(q, c) \in Commands /\ Del(q) \in Commands
         /\ <<Add(q, c)>> \in Seq(Commands) /\ <<Del(q)>> \in Seq(Commands)
         /\ <<Del(q), Add(q, c)>> \in Seq(Commands)
<1>1. Add(q, c) \in Commands /\ Del(q) \in Commands
  BY DEF Commands
<1> HIDE DEF Add, Del
<1> QED BY <1>1

\* What Serve finds in a command.
LEMMA CommandFields ==
  ASSUME NEW k \in Commands \cup {Idle}
  PROVE  /\ k.op = "add" => k.queue \in Queues /\ k.conf \in QueueConfigs
         /\ k.op = "del" => k.queue \in Queues
         /\ k # Idle => k \in Commands
  BY DEF Commands, Add, Del, Idle

\* The first loop of UpdateConfigs meets only queues of the new configuration,
\* which does not change while it runs.
TodoOK == upc = "adds" => \A q \in todo : desired[q] # None

\* The server starts with no queue.
LEMMA InitType == Init => TypeOK /\ TodoOK
<1> SUFFICES ASSUME Init PROVE TypeOK /\ TodoOK
  OBVIOUS
<1>1. desired \in [Queues -> MaybeConfig] /\ queueConfig \in [Queues -> MaybeConfig]
  BY Zenon DEF Init, MaybeConfig
<1>2. cmdC \in Seq(Commands) /\ out \in Seq(Commands) /\ Len(cmdC) <= Cap
  BY ServerAssumption DEF Init
<1>3. mux \in [Queues -> SUBSET Muxers] /\ alive \subseteq Muxers
  BY Zenon DEF Init
<1>4. cmd \in Commands \cup {Idle}
  BY Zenon DEF Init
<1>5. reader \in [Clients -> [op : {"push"}, queue : Queues, left : SUBSET Muxers]
                            \cup {Idle}]
  BY Zenon DEF Init
<1>6. TodoOK
  BY Zenon DEF Init, TodoOK
<1> QED BY <1>1, <1>2, <1>3, <1>4, <1>5, <1>6, Zenon DEF Init, TypeOK

\* A muxer named by a queue, a topic and a generation.
LEMMA NewMuxers ==
  ASSUME NEW q \in Queues, NEW T \in SUBSET Topics, NEW g \in Nat \ {0}
  PROVE  {<<q, t, g>> : t \in T} \subseteq Muxers
  BY DEF Muxers

\* Every step keeps every variable well typed.
LEMMA NextType == TypeOK /\ TodoOK /\ [Next]_vars => TypeOK'
<1> SUFFICES ASSUME TypeOK, TodoOK, [Next]_vars PROVE TypeOK'
  OBVIOUS
<1> USE ServerAssumption
    DEF confVars, serveVars, updateVars, clientVars
<1>1. ASSUME NEW conf \in [Queues -> MaybeConfig], UpdateSetting(conf) PROVE TypeOK'
  BY <1>1 DEF TypeOK, UpdateSetting
<1>2. ASSUME UpdateConfigs PROVE TypeOK'
  BY <1>2, Zenon DEF TypeOK, UpdateConfigs
<1>3. ASSUME NEW q \in Queues, CompareNew(q) PROVE TypeOK'
  <2>1. out' \in Seq(Commands)
    <3>1. desired[q] \in QueueConfigs
      BY <1>3, Zenon DEF TypeOK, TodoOK, CompareNew, MaybeConfig
    <3> HIDE DEF Add, Del
    <3> QED BY <1>3, <3>1, CommandTypes DEF CompareNew
  <2> QED BY <1>3, <2>1, Zenon DEF TypeOK, CompareNew
<1>4. ASSUME CompareOld PROVE TypeOK'
  BY <1>4, Zenon DEF TypeOK, CompareOld
<1>5. ASSUME NEW q \in Queues, DropQueue(q) PROVE TypeOK'
  <2>1. out' \in Seq(Commands)
    <3>1. Del(q) \in Commands
      BY DEF Commands
    <3> HIDE DEF Del
    <3> QED BY <1>5, <3>1 DEF DropQueue
  <2> QED BY <1>5, <2>1, Zenon DEF TypeOK, DropQueue
<1>6. ASSUME SendCmd PROVE TypeOK'
  <2>1. /\ out \in Seq(Commands) /\ out # <<>> /\ cmdC \in Seq(Commands)
        /\ Len(cmdC) < Cap /\ cmdC' = Append(cmdC, Head(out)) /\ out' = Tail(out)
    BY <1>6, Zenon DEF TypeOK, SendCmd
  <2>2. Head(out) \in Commands /\ out' \in Seq(Commands)
    BY <2>1, HeadTailProperties, Zenon
  <2>3. cmdC' \in Seq(Commands) /\ Len(cmdC') <= Cap
    BY <2>1, <2>2, AppendProperties
  <2> QED BY <1>6, <2>2, <2>3, Zenon DEF TypeOK, SendCmd
<1>7. ASSUME UpdateReturns PROVE TypeOK'
  BY <1>7, Zenon DEF TypeOK, UpdateReturns
<1>8. ASSUME Receive PROVE TypeOK'
  <2>1. /\ cmdC \in Seq(Commands) /\ cmdC # <<>> /\ Len(cmdC) <= Cap
        /\ cmd' = Head(cmdC) /\ cmdC' = Tail(cmdC)
    BY <1>8, Zenon DEF TypeOK, Receive
  <2>2. /\ cmd' \in Commands /\ cmdC' \in Seq(Commands)
        /\ Len(cmdC') <= Cap
    BY <2>1, HeadTailProperties
  <2> QED BY <1>8, <2>2, Zenon DEF TypeOK, Receive
<1>9. ASSUME QueueAdd PROVE TypeOK'
  <2>1. cmd.queue \in Queues /\ cmd.conf \in QueueConfigs
    BY <1>9, CommandFields, Zenon DEF TypeOK, QueueAdd
  <2> DEFINE new == {<<cmd.queue, t, adds + 1>> : t \in cmd.conf.topic}
  <2>2. new \subseteq Muxers
    <3>1. cmd.conf.topic \in SUBSET Topics /\ adds + 1 \in Nat \ {0}
      BY <2>1 DEF TypeOK, QueueConfigs
    <3> QED BY <2>1, <3>1, NewMuxers, Zenon
  <2>3. CASE queueConfig[cmd.queue] = None
    <3>1. /\ queueConfig' = [queueConfig EXCEPT ![cmd.queue] = cmd.conf]
          /\ mux' = [mux EXCEPT ![cmd.queue] = new]
          /\ alive' = IF stopped THEN alive ELSE alive \cup new
          /\ adds' = adds + 1 /\ cmd' = Idle
          /\ UNCHANGED <<desired, cmdC, updateVars, clientVars, stopped>>
      BY <1>9, <2>3, Zenon DEF QueueAdd
    <3> HIDE DEF new
    <3> QED BY <2>1, <2>2, <3>1 DEF TypeOK, MaybeConfig
  <2>4. CASE queueConfig[cmd.queue] # None
    BY <1>9, <2>4, Zenon DEF TypeOK, QueueAdd
  <2> QED BY <2>3, <2>4, Zenon
<1>10. ASSUME QueueDel PROVE TypeOK'
  <2>1. cmd.queue \in Queues
    BY <1>10, CommandFields, Zenon DEF TypeOK, QueueDel
  <2> QED BY <1>10, <2>1, Zenon DEF TypeOK, QueueDel, MaybeConfig
<1>11. ASSUME Cancel PROVE TypeOK'
  BY <1>11, Zenon DEF TypeOK, Cancel
<1>12. ASSUME NEW c \in Clients, NEW q \in Queues, AddJobs(c, q) PROVE TypeOK'
  BY <1>12 DEF TypeOK, AddJobs
<1>13. ASSUME NEW c \in Clients, NEW m \in Left(c), AddToTopic(c, m) PROVE TypeOK'
  <2>1. reader[c] # Idle
    BY <1>13, Zenon DEF Left
  <2> QED BY <1>13, <2>1, Zenon DEF TypeOK, AddToTopic
<1>14. ASSUME NEW c \in Clients, AddReturns(c) PROVE TypeOK'
  BY <1>14, Zenon DEF TypeOK, AddReturns
<1>15. CASE UNCHANGED vars
  BY <1>15, Zenon DEF TypeOK, vars
<1> QED BY <1>1, <1>2, <1>3, <1>4, <1>5, <1>6, <1>7, <1>8, <1>9, <1>10, <1>11,
           <1>12, <1>13, <1>14, <1>15, Zenon DEF Next, Update, Serve, Client

\* The configuration and the loop of UpdateConfigs change only together.
LEMMA NextTodo == TypeOK /\ TodoOK /\ [Next]_vars => TodoOK'
<1> SUFFICES ASSUME TypeOK, TodoOK, [Next]_vars PROVE TodoOK'
  OBVIOUS
<1>1. ASSUME NEW q \in Queues, CompareNew(q) \/ DropQueue(q) PROVE TodoOK'
  BY <1>1, Zenon DEF TodoOK, CompareNew, DropQueue, confVars
<1>2. CASE UpdateConfigs \/ CompareOld \/ SendCmd \/ UpdateReturns
  BY <1>2, Zenon DEF TodoOK, UpdateConfigs, CompareOld, SendCmd, UpdateReturns, confVars
<1>3. ASSUME NEW conf \in [Queues -> MaybeConfig], UpdateSetting(conf) PROVE TodoOK'
  BY <1>3, Zenon DEF TodoOK, UpdateSetting
<1>4. CASE Receive \/ QueueAdd \/ QueueDel \/ Cancel
  BY <1>4, Zenon DEF TodoOK, Receive, QueueAdd, QueueDel, Cancel, confVars, updateVars
<1>5. ASSUME NEW c \in Clients,
             \/ \E q \in Queues : AddJobs(c, q)
             \/ \E m \in Left(c) : AddToTopic(c, m)
             \/ AddReturns(c)
      PROVE  TodoOK'
  BY <1>5, Zenon DEF TodoOK, AddJobs, AddToTopic, AddReturns, confVars, updateVars
<1>6. CASE UNCHANGED vars
  BY <1>6, Zenon DEF TodoOK, vars, confVars, updateVars
<1> QED BY <1>1, <1>2, <1>3, <1>4, <1>5, <1>6, Zenon DEF Next, Update, Serve, Client

-----------------------------------------------------------------------------
\* The registry.

\* The muxers of a queue are named by it.
LEMMA OwnMuxers ==
  ASSUME RegistryMatchesConfig, NEW q \in Queues, NEW m \in mux[q]
  PROVE  m[1] = q /\ queueConfig[q] # None /\ m[2] \in queueConfig[q].topic
  BY DEF RegistryMatchesConfig

\* CmdQueueAdd and CmdQueueDel change registry and configuration together.
LEMMA NextRegistry ==
  TypeOK /\ RegistryMatchesConfig /\ [Next]_vars => RegistryMatchesConfig'
<1> SUFFICES ASSUME TypeOK, RegistryMatchesConfig, [Next]_vars
             PROVE  RegistryMatchesConfig'
  OBVIOUS
<1>0. UNCHANGED <<queueConfig, mux, adds>> => RegistryMatchesConfig'
  BY Zenon DEF RegistryMatchesConfig
<1>1. CASE QueueAdd
  <2>1. cmd.queue \in Queues /\ cmd.conf \in QueueConfigs
    BY <1>1, CommandFields, Zenon DEF TypeOK, QueueAdd
  <2> DEFINE new == {<<cmd.queue, t, adds + 1>> : t \in cmd.conf.topic}
  <2>2. CASE queueConfig[cmd.queue] = None
    <3>1. /\ queueConfig' = [queueConfig EXCEPT ![cmd.queue] = cmd.conf]
          /\ mux' = [mux EXCEPT ![cmd.queue] = new]
          /\ adds' = adds + 1
      BY <1>1, <2>2, Zenon DEF QueueAdd
    <3> SUFFICES ASSUME NEW q \in Queues
                 PROVE  IF queueConfig'[q] = None THEN mux'[q] = {}
                        ELSE \E g \in 1 .. adds' :
                               mux'[q] = {<<q, t, g>> : t \in queueConfig'[q].topic}
      BY Zenon DEF RegistryMatchesConfig
    <3>2. CASE q = cmd.queue
      <4>1. /\ queueConfig'[q] = cmd.conf /\ mux'[q] = new
            /\ adds + 1 \in 1 .. adds'
        BY <2>1, <3>1, <3>2 DEF TypeOK
      <4>2. cmd.conf # None
        BY <2>1, ServerAssumption, Zenon
      <4> QED BY <3>2, <4>1, <4>2, Zenon
    <3>3. CASE q # cmd.queue
      <4>1. queueConfig'[q] = queueConfig[q] /\ mux'[q] = mux[q]
        BY <2>1, <3>1, <3>3, Zenon DEF TypeOK
      <4>2. \A g \in 1 .. adds : g \in 1 .. adds'
        BY <3>1 DEF TypeOK
      <4> QED BY <4>1, <4>2, Zenon DEF RegistryMatchesConfig
    <3> QED BY <3>2, <3>3, Zenon
  <2>3. CASE queueConfig[cmd.queue] # None
    BY <1>0, <1>1, <2>3, Zenon DEF QueueAdd
  <2> QED BY <2>2, <2>3, Zenon
<1>2. CASE QueueDel
  BY <1>2, Zenon DEF QueueDel, RegistryMatchesConfig, TypeOK
<1>3. CASE ~QueueAdd /\ ~QueueDel
  <2>1. UNCHANGED <<queueConfig, mux, adds>>
    BY <1>3, Zenon DEF Next, Update, Serve, Client, UpdateSetting, UpdateConfigs,
         CompareNew, CompareOld, DropQueue, SendCmd, UpdateReturns, Receive,
         Cancel, AddJobs, AddToTopic, AddReturns, vars, confVars
  <2> QED BY <1>0, <2>1, Zenon
<1> QED BY <1>1, <1>2, <1>3, Zenon

\* What runs is what is registered: a muxer is started when it is registered
\* and closed when it is dropped, and no two queues share one.
LEMMA NextAlive ==
  TypeOK /\ RegistryMatchesConfig /\ OnlyRegisteredAlive /\ [Next]_vars
    => OnlyRegisteredAlive'
<1> SUFFICES ASSUME TypeOK, RegistryMatchesConfig, OnlyRegisteredAlive, [Next]_vars,
                    ~stopped'
             PROVE  alive' = UNION {mux'[q] : q \in Queues}
  BY Zenon DEF OnlyRegisteredAlive
<1>0. ~stopped /\ ~Cancel /\ alive = UNION {mux[q] : q \in Queues}
  <2>1. ~stopped /\ ~Cancel
    BY DEF Next, Update, Serve, Client, UpdateSetting, UpdateConfigs, CompareNew,
         CompareOld, DropQueue, SendCmd, UpdateReturns, Receive, QueueAdd, QueueDel,
         Cancel, AddJobs, AddToTopic, AddReturns, vars
  <2> QED BY <2>1, Zenon DEF OnlyRegisteredAlive
<1>1. CASE QueueAdd
  <2>1. cmd.queue \in Queues
    BY <1>1, CommandFields, Zenon DEF TypeOK, QueueAdd
  <2> DEFINE new == {<<cmd.queue, t, adds + 1>> : t \in cmd.conf.topic}
  <2>2. CASE queueConfig[cmd.queue] = None
    <3>1. alive' = alive \cup new /\ mux' = [mux EXCEPT ![cmd.queue] = new]
      BY <1>0, <1>1, <2>2, Zenon DEF QueueAdd
    <3>2. mux[cmd.queue] = {}
      BY <2>1, <2>2, Zenon DEF RegistryMatchesConfig
    <3> HIDE DEF new
    <3> QED BY <1>0, <2>1, <3>1, <3>2 DEF TypeOK
  <2>3. CASE queueConfig[cmd.queue] # None
    BY <1>0, <1>1, <2>3, Zenon DEF QueueAdd
  <2> QED BY <2>2, <2>3, Zenon
<1>2. CASE QueueDel
  <2>1. /\ cmd.queue \in Queues
        /\ alive' = alive \ mux[cmd.queue]
        /\ mux' = [mux EXCEPT ![cmd.queue] = {}]
    BY <1>2, CommandFields, Zenon DEF TypeOK, QueueDel
  <2>2. ASSUME NEW q \in Queues, q # cmd.queue, NEW m \in mux[q]
        PROVE  m \notin mux[cmd.queue]
    BY <2>1, <2>2, OwnMuxers
  <2> QED BY <1>0, <2>1, <2>2 DEF TypeOK
<1>3. CASE ~QueueAdd /\ ~QueueDel
  <2>1. UNCHANGED <<mux, alive>>
    BY <1>0, <1>3, Zenon DEF Next, Update, Serve, Client, UpdateSetting, UpdateConfigs,
         CompareNew, CompareOld, DropQueue, SendCmd, UpdateReturns, Receive,
         AddJobs, AddToTopic, AddReturns, vars, confVars
  <2> QED BY <1>0, <2>1, Zenon
<1> QED BY <1>1, <1>2, <1>3, Zenon

\* While a client is inside AddJobs it holds the read lock, and Serve changes
\* neither the registry nor the configuration.
LEMMA NextPushers ==
  TypeOK /\ RegistryMatchesConfig /\ PushersSeeRegistry /\ [Next]_vars
    => PushersSeeRegistry'
<1> SUFFICES ASSUME TypeOK, RegistryMatchesConfig, PushersSeeRegistry, [Next]_vars
             PROVE  PushersSeeRegistry'
  OBVIOUS
<1> USE DEF Readers
<1>1. CASE QueueAdd \/ QueueDel
  <2>1. Readers' = {}
    BY <1>1, Zenon DEF QueueAdd, QueueDel, Reading, clientVars
  <2> QED BY <2>1, Zenon DEF PushersSeeRegistry
<1>2. ASSUME NEW c \in Clients, NEW q \in Queues, AddJobs(c, q)
      PROVE  PushersSeeRegistry'
  <2>1. /\ reader' = [reader EXCEPT ![c] = [op |-> "push", queue |-> q, left |-> mux[q]]]
        /\ mux[q] # {}
        /\ UNCHANGED <<mux, queueConfig>>
    BY <1>2, Zenon DEF AddJobs, confVars
  <2>2. queueConfig[q] # None /\ \A m \in mux[q] : m[2] \in queueConfig[q].topic
    BY <2>1, OwnMuxers, Zenon
  <2>3. reader'[c].queue = q /\ reader'[c].left = mux[q]
    BY <2>1, Zenon DEF TypeOK
  <2>4. \A d \in Clients \ {c} : reader'[d] = reader[d]
    BY <2>1, Zenon DEF TypeOK
  <2> QED BY <2>1, <2>2, <2>3, <2>4, Zenon DEF PushersSeeRegistry
<1>3. ASSUME NEW c \in Clients, NEW m \in Left(c), AddToTopic(c, m)
      PROVE  PushersSeeRegistry'
  <2>1. /\ reader' = [reader EXCEPT ![c] = [op |-> "push", queue |-> reader[c].queue,
                                             left |-> reader[c].left \ {m}]]
        /\ reader[c] # Idle
        /\ UNCHANGED <<mux, queueConfig>>
    BY <1>3, Zenon DEF AddToTopic, Left, confVars
  <2>2. reader'[c].queue = reader[c].queue /\ reader'[c].left \subseteq reader[c].left
    BY <2>1, Zenon DEF TypeOK
  <2>3. \A d \in Clients \ {c} : reader'[d] = reader[d]
    BY <2>1, Zenon DEF TypeOK
  <2> QED BY <2>1, <2>2, <2>3, Zenon DEF PushersSeeRegistry
<1>4. ASSUME NEW c \in Clients, AddReturns(c) PROVE PushersSeeRegistry'
  <2>1. reader' = [reader EXCEPT ![c] = Idle] /\ UNCHANGED <<mux, queueConfig>>
    BY <1>4, Zenon DEF AddReturns, confVars
  <2>2. reader'[c] = Idle /\ \A d \in Clients \ {c} : reader'[d] = reader[d]
    BY <2>1, Zenon DEF TypeOK
  <2> QED BY <2>1, <2>2, Zenon DEF PushersSeeRegistry
<1>5. CASE UNCHANGED <<reader, mux, queueConfig>>
  BY <1>5, Zenon DEF PushersSeeRegistry
<1> QED
  <2>1. \/ UNCHANGED <<reader, mux, queueConfig>>
        \/ QueueAdd \/ QueueDel
        \/ \E c \in Clients : \/ \E q \in Queues : AddJobs(c, q)
                              \/ \E m \in Left(c) : AddToTopic(c, m)
                              \/ AddReturns(c)
    BY Zenon DEF Next, Update, Serve, Client, UpdateSetting, UpdateConfigs,
         CompareNew, CompareOld, DropQueue, SendCmd, UpdateReturns, Receive,
         Cancel, vars, confVars, clientVars
  <2> QED BY <1>1, <1>2, <1>3, <1>4, <1>5, <2>1, Zenon

-----------------------------------------------------------------------------
\* What the pending commands lead to.

\* The commands that are not executed yet, the next one first.
Pending == (IF cmd = Idle THEN <<>> ELSE <<cmd>>) \o (cmdC \o out)

\* The commands of queue q in p are those at the places I.
Only(p, q, I) == \A k \in 1 .. Len(p) : p[k].queue = q <=> k \in I

\* Executed in the order of p, the commands of q turn the configuration "have"
\* into "want": there are none, an Add, a Del, or a Del followed by an Add.
Leads(p, q, have, want) ==
  \/ Only(p, q, {}) /\ have = want
  \/ \E i \in 1 .. Len(p) :
       /\ Only(p, q, {i}) /\ p[i] = Add(q, want)
       /\ have = None /\ want # None
  \/ \E i \in 1 .. Len(p) :
       Only(p, q, {i}) /\ p[i] = Del(q) /\ want = None
  \/ \E i, j \in 1 .. Len(p) :
       /\ i < j /\ Only(p, q, {i, j})
       /\ p[i] = Del(q) /\ p[j] = Add(q, want) /\ want # None

\* A queue's pending commands lead to the configuration delivered last.
Settled(q) == Leads(Pending, q, queueConfig[q], desired[q])

\* Unless UpdateConfigs has compared while commands were pending, the queues it
\* has compared are settled and it has sent nothing for the others.  Between
\* UpdateSetting and the comparison nothing is known of them.
Tracking ==
  /\ upc \in {"idle", "rlock"} => out = <<>>
  /\ ~raced =>
       /\ upc = "idle" => \A q \in Queues : Settled(q)
       /\ upc = "adds" => \A q \in Queues :
            IF q \in todo \/ desired[q] = None THEN Only(Pending, q, {}) ELSE Settled(q)
       /\ upc = "dels" => \A q \in Queues :
            IF q \in todo THEN Only(Pending, q, {}) /\ desired[q] = None ELSE Settled(q)

\* The queue of a command, and an Add is not a Del.
LEMMA CommandQueue ==
  ASSUME NEW q \in Queues, NEW c
  PROVE  /\ Add(q, c).queue = q /\ Del(q).queue = q /\ Add(q, c).conf = c
         /\ Add(q, c).op = "add" /\ Del(q).op = "del"
  BY Zenon DEF Add, Del

\* A command is not Idle.
LEMMA CommandOp ==
  ASSUME NEW k \in Commands
  PROVE  k.op \in {"add", "del"} /\ k # Idle
<1>1. k.op \in {"add", "del"}
  BY DEF Commands, Add, Del
<1>2. Idle.op = "none"
  BY Zenon DEF Idle
<1> QED BY <1>1, <1>2, Zenon

\* The first command is executed: what remains leads from its result.
LEMMA LeadsTail ==
  ASSUME NEW p \in Seq(Commands), p # <<>>, NEW q \in Queues, NEW have, NEW want,
         Leads(p, q, have, want)
  PROVE  /\ Head(p).queue # q => Leads(Tail(p), q, have, want)
         /\ Head(p).queue = q /\ Head(p).op = "del" => Leads(Tail(p), q, None, want)
         /\ Head(p).queue = q /\ Head(p).op = "add" =>
              have = None /\ Leads(Tail(p), q, Head(p).conf, want)
<1> DEFINE t == Tail(p)
<1>1. /\ Len(p) \in Nat \ {0} /\ Len(t) = Len(p) - 1 /\ Head(p) = p[1]
      /\ \A i \in 1 .. Len(t) : t[i] = p[i + 1]
  BY HeadTailProperties, EmptySeq
<1>2. \A k \in 1 .. Len(p) : k # 1 => k - 1 \in 1 .. Len(t) /\ t[k - 1] = p[k]
  BY <1>1
<1> HIDE DEF t
<1>3. CASE Only(p, q, {}) /\ have = want
  <2>1. Only(t, q, {}) /\ Head(p).queue # q
    BY <1>1, <1>3 DEF Only
  <2> QED BY <1>3, <2>1, Zenon DEF Leads, t
<1>4. ASSUME NEW i \in 1 .. Len(p), Only(p, q, {i}),
             \/ p[i] = Add(q, want) /\ have = None /\ want # None
             \/ p[i] = Del(q) /\ want = None
      PROVE  /\ Head(p).queue # q => Leads(t, q, have, want)
             /\ Head(p).queue = q /\ Head(p).op = "del" => Leads(t, q, None, want)
             /\ Head(p).queue = q /\ Head(p).op = "add" =>
                  have = None /\ Leads(t, q, Head(p).conf, want)
  <2>1. CASE i = 1
    <3>1. Only(t, q, {}) /\ Head(p).queue = q
      BY <1>1, <1>4, <2>1 DEF Only
    <3>2. /\ Head(p).op = "del" => want = None
          /\ Head(p).op = "add" => have = None /\ Head(p).conf = want
      BY <1>1, <1>4, <2>1, CommandQueue
    <3> QED BY <3>1, <3>2, Zenon DEF Leads
  <2>2. CASE i # 1
    <3>1. i - 1 \in 1 .. Len(t) /\ t[i - 1] = p[i] /\ Head(p).queue # q
      BY <1>1, <1>2, <1>4, <2>2 DEF Only
    <3>2. Only(t, q, {i - 1})
      BY <1>1, <1>4, <2>2 DEF Only
    <3> QED BY <1>4, <3>1, <3>2, Zenon DEF Leads
  <2> QED BY <2>1, <2>2, Zenon
<1>5. ASSUME NEW i \in 1 .. Len(p), NEW j \in 1 .. Len(p), i < j, Only(p, q, {i, j}),
             p[i] = Del(q), p[j] = Add(q, want), want # None
      PROVE  /\ Head(p).queue # q => Leads(t, q, have, want)
             /\ Head(p).queue = q /\ Head(p).op = "del" => Leads(t, q, None, want)
             /\ Head(p).queue = q /\ Head(p).op = "add" =>
                  have = None /\ Leads(t, q, Head(p).conf, want)
  <2>0. j - 1 \in 1 .. Len(t) /\ t[j - 1] = p[j]
    BY <1>2, <1>5
  <2>1. CASE i = 1
    <3>1. Only(t, q, {j - 1})
      BY <1>1, <1>5, <2>1 DEF Only
    <3>2. Head(p).queue = q /\ Head(p).op = "del"
      BY <1>1, <1>5, <2>1, CommandQueue
    <3> QED BY <1>5, <2>0, <3>1, <3>2, Zenon DEF Leads
  <2>2. CASE i # 1
    <3>1. i - 1 \in 1 .. Len(t) /\ t[i - 1] = p[i] /\ Head(p).queue # q
      BY <1>1, <1>2, <1>5, <2>2 DEF Only
    <3>2. Only(t, q, {i - 1, j - 1}) /\ i - 1 < j - 1
      BY <1>1, <1>5, <2>2 DEF Only
    <3>3. \E m, n \in 1 .. Len(t) :
            m < n /\ Only(t, q, {m, n}) /\ t[m] = Del(q) /\ t[n] = Add(q, want)
      BY <1>5, <2>0, <3>1, <3>2, Zenon
    <3> QED BY <1>5, <3>1, <3>3, Zenon DEF Leads
  <2> QED BY <2>1, <2>2, Zenon
<1> QED BY <1>3, <1>4, <1>5, Zenon DEF Leads, t

\* Commands of another queue are added behind.
LEMMA LeadsMore ==
  ASSUME NEW p \in Seq(Commands), NEW s \in Seq(Commands), NEW q \in Queues,
         Only(s, q, {})
  PROVE  /\ \A I \in SUBSET (1 .. Len(p)) : Only(p, q, I) => Only(p \o s, q, I)
         /\ \A have, want : Leads(p, q, have, want) => Leads(p \o s, q, have, want)
<1>1. /\ Len(p) \in Nat /\ Len(s) \in Nat /\ Len(p \o s) = Len(p) + Len(s)
      /\ \A i \in 1 .. Len(p) : i \in 1 .. Len(p \o s) /\ (p \o s)[i] = p[i]
      /\ \A i \in 1 .. Len(p \o s) : i > Len(p) =>
           i - Len(p) \in 1 .. Len(s) /\ (p \o s)[i] = s[i - Len(p)]
  BY ConcatProperties, LenProperties
<1>2. ASSUME NEW I \in SUBSET (1 .. Len(p)), Only(p, q, I) PROVE Only(p \o s, q, I)
  <2> SUFFICES ASSUME NEW k \in 1 .. Len(p \o s)
               PROVE  (p \o s)[k].queue = q <=> k \in I
    BY Zenon DEF Only
  <2>1. CASE k <= Len(p)
    BY <1>1, <1>2, <2>1 DEF Only
  <2>2. CASE k > Len(p)
    BY <1>1, <2>2 DEF Only
  <2> QED BY <1>1, <2>1, <2>2
<1>3. ASSUME NEW have, NEW want, Leads(p, q, have, want)
      PROVE  Leads(p \o s, q, have, want)
  <2> HIDE DEF Only
  <2>1. /\ Only(p, q, {}) => Only(p \o s, q, {})
        /\ \A i \in 1 .. Len(p) : Only(p, q, {i}) => Only(p \o s, q, {i})
        /\ \A i, j \in 1 .. Len(p) : Only(p, q, {i, j}) => Only(p \o s, q, {i, j})
    <3>1. /\ {} \in SUBSET (1 .. Len(p))
          /\ \A i \in 1 .. Len(p) : {i} \in SUBSET (1 .. Len(p))
          /\ \A i, j \in 1 .. Len(p) : {i, j} \in SUBSET (1 .. Len(p))
      OBVIOUS
    <3> QED BY <1>2, <3>1, Zenon
  <2> QED BY <1>1, <1>3, <2>1, Zenon DEF Leads
<1> QED BY <1>2, <1>3, Zenon

\* UpdateConfigs sends what its comparison asks for, behind commands of other
\* queues.
LEMMA LeadsCompared ==
  ASSUME NEW p \in Seq(Commands), NEW q \in Queues, Only(p, q, {}),
         NEW have \in MaybeConfig, NEW want \in MaybeConfig
  PROVE  /\ have = want => Leads(p \o <<>>, q, have, want)
         /\ have = None /\ want # None => Leads(p \o <<Add(q, want)>>, q, have, want)
         /\ want = None => Leads(p \o <<Del(q)>>, q, have, want)
         /\ want # None => Leads(p \o <<Del(q), Add(q, want)>>, q, have, want)
<1> DEFINE n == Len(p)
<1>1. n \in Nat /\ \A k \in 1 .. n : p[k].queue # q
  BY LenProperties, Zenon DEF Only
<1>2. ASSUME NEW k \in Commands, k.queue = q
      PROVE  /\ Len(p \o <<k>>) = n + 1 /\ (p \o <<k>>)[n + 1] = k
             /\ Only(p \o <<k>>, q, {n + 1})
  <2>1. <<k>> \in Seq(Commands) /\ Len(<<k>>) = 1 /\ <<k>>[1] = k
    OBVIOUS
  <2>2. /\ Len(p \o <<k>>) = n + 1 /\ (p \o <<k>>)[n + 1] = k
        /\ \A i \in 1 .. n : (p \o <<k>>)[i] = p[i]
    BY <1>1, <2>1, ConcatProperties
  <2> QED BY <1>1, <1>2, <2>2 DEF Only
<1>3. ASSUME have = want PROVE Leads(p \o <<>>, q, have, want)
  BY <1>3, ConcatEmptySeq, Zenon DEF Leads
<1>4. ASSUME have = None, want # None
      PROVE  Leads(p \o <<Add(q, want)>>, q, have, want)
  <2>1. Add(q, want) \in Commands /\ Add(q, want).queue = q
    BY <1>4, CommandTypes, CommandQueue, Zenon DEF MaybeConfig
  <2> HIDE DEF Add, n
  <2>2. n + 1 \in 1 .. n + 1
    BY <1>1
  <2> QED BY <1>2, <1>4, <2>1, <2>2, Zenon DEF Leads
<1>5. ASSUME want = None PROVE Leads(p \o <<Del(q)>>, q, have, want)
  <2>1. Del(q) \in Commands /\ Del(q).queue = q
    BY CommandQueue DEF Commands
  <2> HIDE DEF Del, n
  <2>2. n + 1 \in 1 .. n + 1
    BY <1>1
  <2> QED BY <1>2, <1>5, <2>1, <2>2, Zenon DEF Leads
<1>6. ASSUME want # None
      PROVE  Leads(p \o <<Del(q), Add(q, want)>>, q, have, want)
  <2> DEFINE a == Add(q, want)
             d == Del(q)
             r == p \o <<d, a>>
  <2>1. a \in Commands /\ d \in Commands /\ a.queue = q /\ d.queue = q
    BY <1>6, CommandTypes, CommandQueue, Zenon DEF MaybeConfig
  <2> HIDE DEF a, d
  <2>2. <<d, a>> \in Seq(Commands) /\ Len(<<d, a>>) = 2 /\ <<d, a>>[1] = d /\ <<d, a>>[2] = a
    BY <2>1
  <2>3. /\ Len(r) = n + 2 /\ r[n + 1] = d /\ r[n + 2] = a
        /\ \A i \in 1 .. n : r[i] = p[i]
    BY <1>1, <2>2, ConcatProperties
  <2> HIDE DEF n, r
  <2>4. Only(r, q, {n + 1, n + 2})
    BY <1>1, <2>1, <2>3 DEF Only, n
  <2>5. n + 1 \in 1 .. Len(r) /\ n + 2 \in 1 .. Len(r) /\ n + 1 < n + 2
    BY <1>1, <2>3
  <2>6. \E i, j \in 1 .. Len(r) :
          i < j /\ Only(r, q, {i, j}) /\ r[i] = Del(q) /\ r[j] = Add(q, want)
    BY <2>3, <2>4, <2>5, Zenon DEF a, d
  <2>7. Leads(r, q, have, want)
    BY <1>6, <2>6, Zenon DEF Leads
  <2> QED BY <1>6, <2>7, Zenon DEF r, a, d
<1> QED BY <1>3, <1>4, <1>5, <1>6, Zenon

\* The pending commands are commands.
LEMMA PendingType ==
  ASSUME TypeOK
  PROVE  /\ Pending \in Seq(Commands)
         /\ cmdC \o out \in Seq(Commands)
         /\ cmd = Idle => Pending = cmdC \o out
         /\ cmd # Idle => Pending = <<cmd>> \o (cmdC \o out)
<1>1. cmdC \o out \in Seq(Commands)
  BY ConcatProperties, Zenon DEF TypeOK
<1> DEFINE r == cmdC \o out
<1> HIDE DEF r
<1>2. CASE cmd = Idle
  BY <1>1, <1>2, ConcatEmptySeq, Zenon DEF Pending, r
<1>3. CASE cmd # Idle
  <2>1. <<cmd>> \in Seq(Commands)
    BY <1>3 DEF TypeOK
  <2> QED BY <1>1, <1>3, <2>1, ConcatProperties, Zenon DEF Pending, r
<1> QED BY <1>1, <1>2, <1>3, Zenon

\* The first element of a sequence in front of the others.
LEMMA HeadFirst ==
  ASSUME NEW T, NEW s \in Seq(T), s # <<>>
  PROVE  <<Head(s)>> \o Tail(s) = s
<1>1. Head(s) \in T /\ Tail(s) \in Seq(T) /\ <<Head(s)>> \in Seq(T)
  BY HeadTailProperties
<1>2. /\ Len(Tail(s)) = Len(s) - 1 /\ Len(s) \in Nat \ {0}
      /\ \A i \in 1 .. Len(Tail(s)) : Tail(s)[i] = s[i + 1]
      /\ Len(<<Head(s)>>) = 1 /\ <<Head(s)>>[1] = s[1]
  BY HeadTailProperties, EmptySeq
<1> DEFINE r == <<Head(s)>> \o Tail(s)
<1>3. /\ r \in Seq(T) /\ Len(r) = Len(s)
      /\ \A i \in 1 .. Len(s) : r[i] = IF i <= 1 THEN s[1] ELSE Tail(s)[i - 1]
  BY <1>1, <1>2, ConcatProperties
<1> HIDE DEF r
<1>4. \A i \in 1 .. Len(s) : r[i] = s[i]
  BY <1>2, <1>3
<1>5. r = s
  BY <1>3, <1>4, SeqEqual, Zenon
<1> QED BY <1>5, Zenon DEF r

\* Receive and SendCmd only move commands along.
LEMMA PendingMoves ==
  ASSUME TypeOK, Receive \/ SendCmd
  PROVE  Pending' = Pending
<1>1. CASE Receive
  <2>1. /\ cmd = Idle /\ cmdC # <<>> /\ cmd' = Head(cmdC) /\ cmdC' = Tail(cmdC)
        /\ out' = out /\ cmdC \in Seq(Commands) /\ out \in Seq(Commands)
    BY <1>1, Zenon DEF Receive, updateVars, TypeOK
  <2>2. Head(cmdC) \in Commands /\ Tail(cmdC) \in Seq(Commands)
        /\ <<Head(cmdC)>> \in Seq(Commands)
    BY <2>1, HeadTailProperties
  <2>3. cmd' # Idle
    BY <2>1, <2>2, CommandOp, Zenon DEF Idle
  <2>4. <<Head(cmdC)>> \o (Tail(cmdC) \o out) = cmdC \o out
    BY <2>1, <2>2, ConcatAssociative, HeadFirst
  <2>5. Pending' = <<cmd'>> \o (cmdC' \o out')
    BY <2>3, Zenon DEF Pending
  <2> QED BY <2>1, <2>4, <2>5, PendingType, Zenon
<1>2. CASE SendCmd
  <2>1. /\ out # <<>> /\ cmdC' = Append(cmdC, Head(out)) /\ out' = Tail(out)
        /\ cmd' = cmd /\ cmdC \in Seq(Commands) /\ out \in Seq(Commands)
    BY <1>2, Zenon DEF SendCmd, TypeOK
  <2>2. Head(out) \in Commands /\ Tail(out) \in Seq(Commands)
        /\ <<Head(out)>> \in Seq(Commands)
    BY <2>1, HeadTailProperties
  <2>3. Append(cmdC, Head(out)) = cmdC \o <<Head(out)>>
    BY <2>1, <2>2, AppendIsConcat, Zenon
  <2>4. (cmdC \o <<Head(out)>>) \o Tail(out) = cmdC \o out
    BY <2>1, <2>2, ConcatAssociative, HeadFirst
  <2> QED BY <2>1, <2>3, <2>4, Zenon DEF Pending
<1> QED BY <1>1, <1>2, Zenon

\* UpdateConfigs has room in "out" for what its next comparison sends.
LEMMA PendingGrows ==
  ASSUME TypeOK, out = <<>>, out' \in Seq(Commands), UNCHANGED <<cmd, cmdC>>
  PROVE  Pending' = Pending \o out'
<1> DEFINE held == IF cmd = Idle THEN <<>> ELSE <<cmd>>
<1>1. held \in Seq(Commands) /\ cmdC \in Seq(Commands)
  BY DEF TypeOK
<1>2. Pending = held \o cmdC
  BY <1>1, ConcatEmptySeq, Zenon DEF Pending
<1>3. Pending' = held \o (cmdC \o out')
  BY Zenon DEF Pending
<1> HIDE DEF held
<1>4. (held \o cmdC) \o out' = held \o (cmdC \o out')
  BY <1>1, ConcatAssociative
<1> QED BY <1>2, <1>3, <1>4, Zenon

\* Serve executes the first pending command.
LEMMA PendingShrinks ==
  ASSUME TypeOK, cmd # Idle, cmd' = Idle, UNCHANGED <<cmdC, out>>
  PROVE  Pending # <<>> /\ Head(Pending) = cmd /\ Pending' = Tail(Pending)
<1> DEFINE r == cmdC \o out
<1>1. /\ r \in Seq(Commands) /\ Pending \in Seq(Commands) /\ Pending = <<cmd>> \o r
      /\ cmd \in Commands
  BY PendingType, Zenon DEF TypeOK
<1>2. Pending' = r
  <2>1. Pending' = <<>> \o r
    BY Zenon DEF Pending
  <2> HIDE DEF r
  <2> QED BY <1>1, <2>1, ConcatEmptySeq, Zenon
<1> HIDE DEF r
<1>3. /\ Len(Pending) = Len(r) + 1 /\ Len(r) \in Nat /\ Pending[1] = cmd
      /\ \A i \in 1 .. Len(r) : Pending[i + 1] = r[i]
  <2>1. <<cmd>> \in Seq(Commands) /\ Len(<<cmd>>) = 1 /\ <<cmd>>[1] = cmd
    BY <1>1
  <2> QED BY <1>1, <2>1, ConcatProperties
<1>4. Pending # <<>> /\ Head(Pending) = cmd
  BY <1>1, <1>3
<1>5. /\ Tail(Pending) \in Seq(Commands) /\ Len(Tail(Pending)) = Len(r)
      /\ \A i \in 1 .. Len(r) : Tail(Pending)[i] = r[i]
  BY <1>1, <1>3, <1>4, HeadTailProperties
<1>6. Tail(Pending) = r
  BY <1>1, <1>5, SeqEqual, Zenon
<1> QED BY <1>2, <1>4, <1>6, Zenon

\* A comparison of queue q sends commands of q only: the others stay as they are.
LEMMA ComparedOthers ==
  ASSUME TypeOK, NEW q \in Queues, NEW s \in Seq(Commands),
         Pending' = Pending \o s,
         \A k \in 1 .. Len(s) : s[k].queue = q,
         UNCHANGED <<queueConfig, desired>>,
         NEW r \in Queues, r # q
  PROVE  /\ Only(Pending, r, {}) => Only(Pending, r, {})'
         /\ Settled(r) => Settled(r)'
<1>1. Pending \in Seq(Commands) /\ Only(s, r, {})
  BY PendingType, Zenon DEF Only
<1>2. /\ Only(Pending, r, {}) => Only(Pending \o s, r, {})
      /\ \A have, want : Leads(Pending, r, have, want) => Leads(Pending \o s, r, have, want)
  <2>1. {} \in SUBSET (1 .. Len(Pending))
    OBVIOUS
  <2> HIDE DEF Pending, Only, Leads
  <2> QED BY <1>1, <2>1, LeadsMore, Zenon
<1>3. Only(Pending', r, {}) = Only(Pending \o s, r, {})
  OBVIOUS
<1>4. Settled(r)' = Leads(Pending', r, queueConfig[r], desired[r])
  BY Zenon DEF Settled
<1> HIDE DEF Only, Leads, Pending
<1> QED BY <1>2, <1>3, <1>4, Zenon DEF Settled

\* Every step keeps track: what was compared is settled.
LEMMA NextTracking ==
  TypeOK /\ TodoOK /\ Tracking /\ [Next]_vars => Tracking'
<1> SUFFICES ASSUME TypeOK, TodoOK, Tracking, [Next]_vars PROVE Tracking'
  OBVIOUS
<1> USE DEF confVars, serveVars, updateVars, clientVars
<1>0. ASSUME Pending' = Pending, UNCHANGED <<queueConfig, desired, upc, todo, raced>>,
             upc \in {"idle", "rlock"} => out' = <<>>
      PROVE  Tracking'
  <2> HIDE DEF Only, Leads, Pending
  <2> QED BY <1>0, Zenon DEF Tracking, Settled
<1>1. ASSUME NEW conf \in [Queues -> MaybeConfig], UpdateSetting(conf) PROVE Tracking'
  BY <1>1, Zenon DEF UpdateSetting, Tracking
<1>2. CASE UpdateConfigs
  <2>1. /\ upc' = "adds" /\ todo' = {q \in Queues : desired[q] # None}
        /\ UNCHANGED <<cmd, cmdC, out, desired>> /\ out = <<>> /\ cmd = Idle
        /\ ~raced' => cmdC = <<>>
    BY <1>2, Zenon DEF UpdateConfigs, Tracking, MayRLock
  <2>2. ASSUME cmdC = <<>> PROVE Pending' = <<>>
    <3>1. <<>> \o <<>> = <<>>
      BY ConcatEmptySeq, EmptySeq, Zenon
    <3> QED BY <2>1, <2>2, <3>1, Zenon DEF Pending
  <2>3. ASSUME cmdC = <<>>, NEW q \in Queues PROVE Only(Pending', q, {})
    BY <2>2, <2>3 DEF Only
  <2> QED BY <2>1, <2>3, Zenon DEF Tracking
<1>3. ASSUME NEW q \in Queues, CompareNew(q) PROVE Tracking'
  <2>1. /\ upc = "adds" /\ upc' = "adds" /\ out = <<>> /\ q \in todo /\ todo' = todo \ {q}
        /\ UNCHANGED <<cmd, cmdC, desired, queueConfig, raced>>
    BY <1>3, Zenon DEF CompareNew
  <2>2. /\ desired[q] # None /\ desired[q] \in QueueConfigs /\ desired[q] \in MaybeConfig
        /\ queueConfig[q] \in MaybeConfig
    BY <2>1, Zenon DEF TypeOK, TodoOK, MaybeConfig
  <2>3. \/ queueConfig[q] = None /\ out' = <<Add(q, desired[q])>>
        \/ queueConfig[q] # desired[q] /\ out' = <<Del(q), Add(q, desired[q])>>
        \/ queueConfig[q] = desired[q] /\ out' = <<>>
    BY <1>3, Zenon DEF CompareNew
  <2>4. out' \in Seq(Commands) /\ \A k \in 1 .. Len(out') : out'[k].queue = q
    <3>1. Add(q, desired[q]).queue = q /\ Del(q).queue = q
      BY CommandQueue, Zenon
    <3>2. <<>> \in Seq(Commands)
      BY EmptySeq, Zenon
    <3>3. /\ <<Add(q, desired[q])>> \in Seq(Commands)
          /\ <<Del(q), Add(q, desired[q])>> \in Seq(Commands)
      BY <2>2, CommandTypes, Zenon
    <3> HIDE DEF Add, Del
    <3>4. out' \in Seq(Commands)
      BY <2>3, <3>2, <3>3, Zenon
    <3>5. CASE out' = <<>>
      BY <3>4, <3>5
    <3>6. CASE out' = <<Add(q, desired[q])>>
      BY <3>4, <3>1, <3>6
    <3>7. CASE out' = <<Del(q), Add(q, desired[q])>>
      BY <3>4, <3>1, <3>7
    <3> QED BY <2>3, <3>4, <3>5, <3>6, <3>7, Zenon
  <2>5. Pending' = Pending \o out' /\ Pending \in Seq(Commands)
    BY <2>1, <2>4, PendingGrows, PendingType, Zenon
  <2>6. ASSUME ~raced PROVE Settled(q)'
    <3>1. Only(Pending, q, {})
      BY <2>1, <2>6, Zenon DEF Tracking
    <3>2. Leads(Pending \o out', q, queueConfig[q], desired[q])
      <4> HIDE DEF Add, Del, Pending, Leads, Only
      <4> QED BY <2>2, <2>3, <2>5, <3>1, LeadsCompared, Zenon
    <3>3. Settled(q)' = Leads(Pending', q, queueConfig[q], desired[q])
      BY <2>1, Zenon DEF Settled
    <3> QED BY <2>5, <3>2, <3>3, Zenon
  <2>7. ASSUME ~raced, NEW r \in Queues, r # q
        PROVE  IF r \in todo' \/ desired[r] = None THEN Only(Pending, r, {})'
               ELSE Settled(r)'
    <3>1. IF r \in todo \/ desired[r] = None THEN Only(Pending, r, {}) ELSE Settled(r)
      BY <2>1, <2>7, Zenon DEF Tracking
    <3>2. /\ Only(Pending, r, {}) => Only(Pending, r, {})'
          /\ Settled(r) => Settled(r)'
      BY <2>1, <2>4, <2>5, <2>7, ComparedOthers, Zenon
    <3> HIDE DEF Only, Settled, Pending
    <3> QED BY <2>1, <2>7, <3>1, <3>2, Zenon
  <2> HIDE DEF Only, Settled, Pending
  <2> QED BY <2>1, <2>2, <2>6, <2>7, Zenon DEF Tracking
<1>4. CASE CompareOld
  <2>1. /\ upc = "adds" /\ upc' = "dels" /\ todo = {}
        /\ todo' = {q \in Queues : queueConfig[q] # None /\ desired[q] = None}
        /\ UNCHANGED <<cmd, cmdC, out, desired, queueConfig, raced>>
    BY <1>4, Zenon DEF CompareOld
  <2>2. Pending' = Pending
    BY <2>1, Zenon DEF Pending
  <2>3. ASSUME ~raced, NEW q \in Queues
        PROVE  IF q \in todo' THEN Only(Pending, q, {})' /\ desired[q] = None
               ELSE Settled(q)'
    <3>1. IF desired[q] = None THEN Only(Pending, q, {}) ELSE Settled(q)
      BY <2>1, <2>3, Zenon DEF Tracking
    <3>2. Settled(q)' = Settled(q) /\ Only(Pending, q, {})' = Only(Pending, q, {})
      BY <2>1, <2>2, Zenon DEF Settled
    <3>3. Only(Pending, q, {}) /\ queueConfig[q] = desired[q] => Settled(q)
      BY Zenon DEF Settled, Leads
    <3> HIDE DEF Only, Settled, Pending
    <3> QED BY <2>1, <2>3, <3>1, <3>2, <3>3, Zenon
  <2> HIDE DEF Only, Settled, Pending
  <2> QED BY <2>1, <2>3, Zenon DEF Tracking
<1>5. ASSUME NEW q \in Queues, DropQueue(q) PROVE Tracking'
  <2>1. /\ upc = "dels" /\ upc' = "dels" /\ out = <<>> /\ q \in todo /\ todo' = todo \ {q}
        /\ out' = <<Del(q)>>
        /\ UNCHANGED <<cmd, cmdC, desired, queueConfig, raced>>
    BY <1>5, Zenon DEF DropQueue
  <2>2. desired[q] \in MaybeConfig /\ queueConfig[q] \in MaybeConfig
    BY Zenon DEF TypeOK
  <2>4. out' \in Seq(Commands) /\ \A k \in 1 .. Len(out') : out'[k].queue = q
    <3>1. Del(q).queue = q /\ Del(q) \in Commands
      BY CommandQueue DEF Commands
    <3> HIDE DEF Del
    <3> QED BY <2>1, <3>1
  <2>5. Pending' = Pending \o out' /\ Pending \in Seq(Commands)
    BY <2>1, <2>4, PendingGrows, PendingType, Zenon
  <2>6. ASSUME ~raced PROVE Settled(q)'
    <3>1. Only(Pending, q, {}) /\ desired[q] = None
      BY <2>1, <2>6, Zenon DEF Tracking
    <3>2. Leads(Pending \o out', q, queueConfig[q], desired[q])
      <4> HIDE DEF Del, Pending, Leads, Only
      <4> QED BY <2>1, <2>2, <2>5, <3>1, LeadsCompared, Zenon
    <3>3. Settled(q)' = Leads(Pending', q, queueConfig[q], desired[q])
      BY <2>1, Zenon DEF Settled
    <3> QED BY <2>5, <3>2, <3>3, Zenon
  <2>7. ASSUME ~raced, NEW r \in Queues, r # q
        PROVE  IF r \in todo' THEN Only(Pending, r, {})' /\ desired[r] = None
               ELSE Settled(r)'
    <3>1. IF r \in todo THEN Only(Pending, r, {}) /\ desired[r] = None ELSE Settled(r)
      BY <2>1, <2>7, Zenon DEF Tracking
    <3>2. /\ Only(Pending, r, {}) => Only(Pending, r, {})'
          /\ Settled(r) => Settled(r)'
      BY <2>1, <2>4, <2>5, <2>7, ComparedOthers, Zenon
    <3> HIDE DEF Only, Settled, Pending
    <3> QED BY <2>1, <2>7, <3>1, <3>2, Zenon
  <2> HIDE DEF Only, Settled, Pending
  <2> QED BY <2>1, <2>6, <2>7, Zenon DEF Tracking
<1>6. CASE SendCmd \/ Receive
  <2>1. UNCHANGED <<queueConfig, desired, upc, todo, raced>>
    BY <1>6, Zenon DEF SendCmd, Receive
  <2>2. upc \in {"idle", "rlock"} => out' = <<>>
    BY <1>6, Zenon DEF SendCmd, Receive, Tracking
  <2> QED BY <1>0, <1>6, <2>1, <2>2, PendingMoves, Zenon
<1>7. CASE UpdateReturns
  <2>1. /\ upc = "dels" /\ upc' = "idle" /\ todo = {} /\ out = <<>>
        /\ UNCHANGED <<cmd, cmdC, out, desired, queueConfig, raced>>
    BY <1>7, Zenon DEF UpdateReturns
  <2>2. \A q \in Queues : Settled(q)' = Settled(q)
    BY <2>1, Zenon DEF Settled, Pending
  <2> HIDE DEF Only, Settled, Pending
  <2> QED BY <2>1, <2>2, Zenon DEF Tracking
<1>8. CASE QueueAdd \/ QueueDel
  <2>1. /\ cmd # Idle /\ cmd' = Idle /\ upc \in {"idle", "rlock"}
        /\ UNCHANGED <<cmdC, out, desired, upc, todo, raced>>
    BY <1>8 DEF QueueAdd, QueueDel, Reading, Idle, TypeOK
  <2>2. /\ Pending # <<>> /\ Head(Pending) = cmd /\ Pending' = Tail(Pending)
        /\ Pending \in Seq(Commands) /\ cmd \in Commands
    BY <2>1, PendingShrinks, PendingType, Zenon DEF TypeOK
  <2>3. ASSUME ~raced, upc = "idle", NEW q \in Queues PROVE Settled(q)'
    <3>1. Leads(Pending, q, queueConfig[q], desired[q])
      BY <2>3, Zenon DEF Tracking, Settled
    <3>2. /\ cmd.queue # q =>
               Leads(Pending', q, queueConfig[q], desired[q])
          /\ cmd.queue = q /\ cmd.op = "del" => Leads(Pending', q, None, desired[q])
          /\ cmd.queue = q /\ cmd.op = "add" =>
               queueConfig[q] = None /\ Leads(Pending', q, cmd.conf, desired[q])
      <4> HIDE DEF Leads, Pending
      <4> QED BY <2>2, <3>1, LeadsTail, Zenon
    <3>3. Settled(q)' = Leads(Pending', q, queueConfig'[q], desired[q])
      BY <2>1, Zenon DEF Settled
    <3>4. /\ cmd.queue # q => queueConfig'[q] = queueConfig[q]
          /\ cmd.queue = q /\ cmd.op = "del" => queueConfig'[q] = None
          /\ cmd.queue = q /\ cmd.op = "add" /\ queueConfig[q] = None =>
               queueConfig'[q] = cmd.conf
      BY <1>8, <2>3, Zenon DEF QueueAdd, QueueDel, TypeOK
    <3>5. cmd.op \in {"add", "del"}
      BY <2>2, CommandOp, Zenon
    <3> HIDE DEF Leads, Pending
    <3> QED BY <3>2, <3>3, <3>4, <3>5, Zenon
  <2> HIDE DEF Only, Settled, Pending
  <2> QED BY <2>1, <2>3, Zenon DEF Tracking
<1>9. CASE UNCHANGED <<queueConfig, desired, upc, todo, raced, cmd, cmdC, out>>
  BY <1>0, <1>9, Zenon DEF Pending, Tracking
<1> QED
  <2>1. \/ UNCHANGED <<queueConfig, desired, upc, todo, raced, cmd, cmdC, out>>
        \/ \E conf \in [Queues -> MaybeConfig] : UpdateSetting(conf)
        \/ Update \/ Serve
    BY Zenon DEF Next, Client, Cancel, AddJobs, AddToTopic, AddReturns, vars
  <2> QED BY <1>1, <1>2, <1>3, <1>4, <1>5, <1>6, <1>7, <1>8, <1>9, <2>1, Zenon
             DEF Update, Serve

-----------------------------------------------------------------------------
RegistryInv ==
  TypeOK /\ TodoOK /\ RegistryMatchesConfig /\ OnlyRegisteredAlive /\ PushersSeeRegistry

\* The inductive invariant: types, what the first loop still compares, and the
\* three facts about the registry.
THEOREM RegistryInvHolds == Spec => []RegistryInv
<1>1. Init => RegistryInv
  <2> SUFFICES ASSUME Init PROVE RegistryInv
    OBVIOUS
  <2>1. RegistryMatchesConfig /\ OnlyRegisteredAlive /\ PushersSeeRegistry
    BY Zenon DEF Init, RegistryMatchesConfig, OnlyRegisteredAlive, PushersSeeRegistry, Readers
  <2> QED BY <2>1, InitType, Zenon DEF RegistryInv
<1>2. RegistryInv /\ [Next]_vars => RegistryInv'
  BY NextType, NextTodo, NextRegistry, NextAlive, NextPushers, Zenon DEF RegistryInv
<1> QED BY <1>1, <1>2, PTL DEF Spec

\* Every variable of the server keeps its type, and the command channel never
\* holds more than its capacity, whatever updates gokeeper delivers.
THEOREM ServerTypeCorrect == Spec => []TypeOK
BY RegistryInvHolds, PTL DEF RegistryInv

\* After every command Serve executes, the registry and the applied
\* configuration agree, also when updates race with the commands of earlier
\* updates.
THEOREM RegistryMatchesConfigHolds == Spec => []RegistryMatchesConfig
BY RegistryInvHolds, PTL DEF RegistryInv

\* Until the process shuts down the running muxers are the registered ones:
\* no update leaks a muxer or leaves a closed one registered.
THEOREM OnlyRegisteredAliveHolds == Spec => []OnlyRegisteredAlive
BY RegistryInvHolds, PTL DEF RegistryInv

\* Inside AddJobs a client only writes through registered muxers, to topics
\* whose configuration exists.
THEOREM PushersSeeRegistryHolds == Spec => []PushersSeeRegistry
BY RegistryInvHolds, PTL DEF RegistryInv

\* An update that begins when all earlier commands were executed ends with the
\* delivered configuration applied, for any queues, any capacity of cmdC and any
\* interleaving of the comparison, its sends and the goroutine of Serve.
THEOREM UpdateAppliedHolds == Spec => []UpdateApplied
<1>1. Init => Tracking
  <2> SUFFICES ASSUME Init PROVE Tracking
    OBVIOUS
  <2>1. Pending = <<>>
    <3>1. <<>> \o <<>> = <<>>
      BY ConcatEmptySeq, EmptySeq, Zenon
    <3> QED BY <3>1, Zenon DEF Init, Pending
  <2>2. ASSUME NEW q \in Queues PROVE Settled(q)
    BY <2>1 DEF Init, Settled, Leads, Only
  <2> QED BY <2>2, Zenon DEF Init, Tracking
<1>2. RegistryInv /\ Tracking /\ [Next]_vars => Tracking'
  BY NextTracking, Zenon DEF RegistryInv
<1>3. RegistryInv /\ Tracking => UpdateApplied
  <2> SUFFICES ASSUME RegistryInv, Tracking, Quiescent, ~raced
               PROVE  queueConfig = desired
    BY Zenon DEF UpdateApplied
  <2>1. Pending = <<>>
    <3>1. <<>> \o <<>> = <<>>
      BY ConcatEmptySeq, EmptySeq, Zenon
    <3> QED BY <3>1, Zenon DEF Quiescent, Tracking, Pending
  <2>2. ASSUME NEW q \in Queues PROVE queueConfig[q] = desired[q]
    <3>1. Settled(q)
      BY Zenon DEF Quiescent, Tracking
    <3> QED BY <2>1, <3>1 DEF Settled, Leads
  <2> QED BY <2>2 DEF RegistryInv, TypeOK
<1> QED BY <1>1, <1>2, <1>3, RegistryInvHolds, PTL DEF Spec

=============================================================================
