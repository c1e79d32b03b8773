----------------------------- MODULE MuxServer -----------------------------
(***************************************************************************)
(* The registry of muxers and the way a configuration reaches it.          *)
(*                                                                         *)
(* UpdateSetting, called back by gokeeper, stores the new configuration    *)
(* and compares it with the one the server has applied; the differences go *)
(* through the channel cmdC to the goroutine of Serve, which opens and     *)
(* closes muxers.  Both, and the clients that push jobs, take the server's *)
(* RWMutex.                                                                *)
(*                                                                         *)
(* A queue's configuration is a set of topics and a version that stands    *)
(* for its other fields.  A muxer is named by its queue, its topic and the *)
(* number of the CmdQueueAdd that created it.                              *)
(***************************************************************************)
EXTENDS Naturals, Sequences, FiniteSets

CONSTANTS
  Queues, Topics,
  Versions,    \* what distinguishes two configurations of the same topics
  Clients,     \* goroutines that call AddJobs
  Cap,         \* capacity of cmdC (1000 in the code)
  MaxUpdates,  \* bound: calls of UpdateSetting
  MaxPushes,   \* bound: calls of AddJobs
  None

QueueConfigs == [topic : SUBSET Topics, ver : Versions]
MaybeConfig == QueueConfigs \cup {None}

ASSUME ServerAssumption ==
  /\ Cap \in Nat \ {0}
  /\ MaxUpdates \in Nat
  /\ MaxPushes \in Nat
  /\ None \notin QueueConfigs

VARIABLES
  desired,      \* QueueConfs(): the configuration gokeeper delivered last
  queueConfig,  \* the configuration Serve has applied
  mux,          \* registered muxers of each queue
  alive,        \* muxers whose context is not cancelled
  adds,         \* CmdQueueAdd commands that created muxers
  cmdC,         \* the command channel
  cmd,          \* the command Serve has received and not yet executed
  upc,          \* where UpdateSetting is
  todo,         \* queues UpdateConfigs has still to compare
  out,          \* commands it has still to send
  reader,       \* what each client inside AddJobs still has to write
  stopped,      \* GlobalCancelFunc was called
  updates, pushes,
  raced         \* history: UpdateConfigs compared while commands were pending

confVars == <<desired, queueConfig, mux, alive, adds>>
serveVars == <<cmdC, cmd>>
updateVars == <<upc, todo, out, updates, raced>>
clientVars == <<reader, pushes>>
vars == <<confVars, serveVars, updateVars, clientVars, stopped>>

Idle == [op |-> "none"]
Add(q, c) == [op |-> "add", queue |-> q, conf |-> c]
Del(q) == [op |-> "del", queue |-> q]
Commands == {Add(q, c) : q \in Queues, c \in QueueConfigs} \cup {Del(q) : q \in Queues}

-----------------------------------------------------------------------------
\* sync.RWMutex: who holds it for reading, and whether a reader may enter.  A
\* writer that waits keeps new readers out.
Readers == {c \in Clients : reader[c] # Idle}
Reading == upc \in {"adds", "dels"} \/ Readers # {}
MayRLock == cmd = Idle

Init ==
  /\ desired = [q \in Queues |-> None]
  /\ queueConfig = desired
  /\ mux = [q \in Queues |-> {}]
  /\ alive = {}
  /\ adds = 0
  /\ cmdC = <<>>
  /\ cmd = Idle
  /\ upc = "idle"
  /\ todo = {}
  /\ out = <<>>
  /\ reader = [c \in Clients |-> Idle]
  /\ stopped = FALSE
  /\ updates = 0 /\ pushes = 0
  /\ raced = FALSE

-----------------------------------------------------------------------------
\* UpdateSetting.

\* updateQueue: QueueConfsStorage.Store.
UpdateSetting(conf) ==
  /\ upc = "idle"
  /\ updates < MaxUpdates
  /\ updates' = updates + 1
  /\ desired' = conf
  /\ upc' = "rlock"
  /\ UNCHANGED <<queueConfig, mux, alive, adds, serveVars, todo, out, raced,
                 clientVars, stopped>>

\* Mutant: it ranges over queues the new configuration does not have.
UpdateConfigsAll ==
  /\ upc = "rlock"
  /\ MayRLock
  /\ upc' = "adds"
  /\ todo' = Queues
  /\ raced' = (raced \/ cmdC # <<>>)
  /\ UNCHANGED <<confVars, serveVars, out, updates, clientVars, stopped>>

\* UpdateConfigs takes the read lock and ranges over the new configuration.
UpdateConfigs ==
  /\ upc = "rlock"
  /\ MayRLock
  /\ upc' = "adds"
  /\ todo' = {q \in Queues : desired[q] # None}
  /\ raced' = (raced \/ cmdC # <<>>)
  /\ UNCHANGED <<confVars, serveVars, out, updates, clientVars, stopped>>

\* Mutant: a changed queue is sent as an Add alone.
CompareNewAddsOnly(q) ==
  /\ upc = "adds"
  /\ out = <<>>
  /\ q \in todo
  /\ todo' = todo \ {q}
  /\ out' = IF queueConfig[q] # desired[q] THEN <<Add(q, desired[q])>> ELSE <<>>
  /\ UNCHANGED <<confVars, serveVars, upc, updates, raced, clientVars, stopped>>

\* One queue of the new configuration: not applied yet, changed, or the same.
CompareNew(q) ==
  /\ upc = "adds"
  /\ out = <<>>
  /\ q \in todo
  /\ todo' = todo \ {q}
  /\ out' = IF queueConfig[q] = None THEN <<Add(q, desired[q])>>
            ELSE IF queueConfig[q] # desired[q] THEN <<Del(q), Add(q, desired[q])>>
            ELSE <<>>
  /\ UNCHANGED <<confVars, serveVars, upc, updates, raced, clientVars, stopped>>

\* The second loop ranges over the applied configuration.
CompareOld ==
  /\ upc = "adds"
  /\ out = <<>> /\ todo = {}
  /\ upc' = "dels"
  /\ todo' = {q \in Queues : queueConfig[q] # None /\ desired[q] = None}
  /\ UNCHANGED <<confVars, serveVars, out, updates, raced, clientVars, stopped>>

DropQueue(q) ==
  /\ upc = "dels"
  /\ out = <<>>
  /\ q \in todo
  /\ todo' = todo \ {q}
  /\ out' = <<Del(q)>>
  /\ UNCHANGED <<confVars, serveVars, upc, updates, raced, clientVars, stopped>>

\* AddQueue, DelQueue and UpdateQueue block while cmdC is full, with the read
\* lock held.
SendCmd ==
  /\ out # <<>>
  /\ Len(cmdC) < Cap
  /\ cmdC' = Append(cmdC, Head(out))
  /\ out' = Tail(out)
  /\ UNCHANGED <<confVars, cmd, upc, todo, updates, raced, clientVars, stopped>>

\* Mutant: UpdateConfigs returns without RUnlock.
UpdateReturnsLocked ==
  /\ upc = "dels"
  /\ out = <<>> /\ todo = {}
  /\ UNCHANGED vars

UpdateReturns ==
  /\ upc = "dels"
  /\ out = <<>> /\ todo = {}
  /\ upc' = "idle"
  /\ UNCHANGED <<confVars, serveVars, todo, out, updates, raced, clientVars,
                 stopped>>

-----------------------------------------------------------------------------
\* The goroutine of Serve.

\* It receives a command and calls Lock.  When the context is cancelled as
\* well, select may choose either case.
Receive ==
  /\ cmd = Idle
  /\ cmdC # <<>>
  /\ cmd' = Head(cmdC)
  /\ cmdC' = Tail(cmdC)
  /\ UNCHANGED <<confVars, updateVars, clientVars, stopped>>

\* CmdQueueAdd, inside the lock: a queue that is registered is left alone.
QueueAdd ==
  /\ cmd.op = "add"
  /\ ~Reading
  /\ cmd' = Idle
  /\ LET q == cmd.queue
         new == {<<q, t, adds + 1>> : t \in cmd.conf.topic}
     IN  IF queueConfig[q] = None
         THEN /\ queueConfig' = [queueConfig EXCEPT ![q] = cmd.conf]
              /\ mux' = [mux EXCEPT ![q] = new]
              /\ alive' = IF stopped THEN alive ELSE alive \cup new
              /\ adds' = adds + 1
         ELSE UNCHANGED <<queueConfig, mux, alive, adds>>
  /\ UNCHANGED <<desired, cmdC, updateVars, clientVars, stopped>>

\* Mutants: Close is not called, the registry keeps the queue, no Lock.
QueueDelLeaks ==
  /\ cmd.op = "del"
  /\ ~Reading
  /\ cmd' = Idle
  /\ queueConfig' = [queueConfig EXCEPT ![cmd.queue] = None]
  /\ mux' = [mux EXCEPT ![cmd.queue] = {}]
  /\ UNCHANGED <<desired, alive, adds, cmdC, updateVars, clientVars, stopped>>

QueueDelKeepsMux ==
  /\ cmd.op = "del"
  /\ ~Reading
  /\ cmd' = Idle
  /\ queueConfig' = [queueConfig EXCEPT ![cmd.queue] = None]
  /\ alive' = alive \ mux[cmd.queue]
  /\ UNCHANGED <<desired, mux, adds, cmdC, updateVars, clientVars, stopped>>

QueueDelUnlocked ==
  /\ cmd.op = "del"
  /\ cmd' = Idle
  /\ queueConfig' = [queueConfig EXCEPT ![cmd.queue] = None]
  /\ alive' = alive \ mux[cmd.queue]
  /\ mux' = [mux EXCEPT ![cmd.queue] = {}]
  /\ UNCHANGED <<desired, adds, cmdC, updateVars, clientVars, stopped>>

\* CmdQueueDel, inside the lock: every muxer of the queue is closed.
QueueDel ==
  /\ cmd.op = "del"
  /\ ~Reading
  /\ cmd' = Idle
  /\ queueConfig' = [queueConfig EXCEPT ![cmd.queue] = None]
  /\ alive' = alive \ mux[cmd.queue]
  /\ mux' = [mux EXCEPT ![cmd.queue] = {}]
  /\ UNCHANGED <<desired, adds, cmdC, updateVars, clientVars, stopped>>

\* GlobalCancelFunc: every muxer's context is derived from the server's.  Serve
\* may still receive commands (its select chooses), or return for good.
Cancel ==
  /\ ~stopped
  /\ stopped' = TRUE
  /\ alive' = {}
  /\ UNCHANGED <<desired, queueConfig, mux, adds, serveVars, updateVars,
                 clientVars>>

-----------------------------------------------------------------------------
\* MuxServer.AddJobs by a client: under the read lock, one topic after the
\* other.  A queue without muxers is an error.
AddJobs(c, q) ==
  /\ reader[c] = Idle
  /\ MayRLock
  /\ pushes < MaxPushes
  /\ mux[q] # {}
  /\ pushes' = pushes + 1
  /\ reader' = [reader EXCEPT ![c] =
       [op |-> "push", queue |-> q, left |-> mux[q]]]
  /\ UNCHANGED <<confVars, serveVars, updateVars, stopped>>

Left(c) == IF reader[c] = Idle THEN {} ELSE reader[c].left

\* It reads the topic's configuration and calls mux.AddJobs.
AddToTopic(c, m) ==
  /\ m \in Left(c)
  /\ reader' = [reader EXCEPT ![c] =
       [op |-> "push", queue |-> reader[c].queue, left |-> reader[c].left \ {m}]]
  /\ UNCHANGED <<confVars, serveVars, updateVars, pushes, stopped>>

\* Mutant: AddJobs returns without RUnlock.
AddReturnsLocked(c) ==
  /\ reader[c] # Idle
  /\ reader[c].left = {}
  /\ UNCHANGED vars

AddReturns(c) ==
  /\ reader[c] # Idle
  /\ reader[c].left = {}
  /\ reader' = [reader EXCEPT ![c] = Idle]
  /\ UNCHANGED <<confVars, serveVars, updateVars, pushes, stopped>>

-----------------------------------------------------------------------------
Update ==
  \/ UpdateConfigs
  \/ \E q \in Queues : CompareNew(q) \/ DropQueue(q)
  \/ CompareOld
  \/ SendCmd
  \/ UpdateReturns

Serve == Receive \/ QueueAdd \/ QueueDel

Client(c) ==
  \/ \E m \in Left(c) : AddToTopic(c, m)
  \/ AddReturns(c)

Next ==
  \/ \E conf \in [Queues -> MaybeConfig] : UpdateSetting(conf)
  \/ Update
  \/ Serve
  \/ Cancel
  \/ \E c \in Clients : Client(c) \/ \E q \in Queues : AddJobs(c, q)

Spec == Init /\ [][Next]_vars

\* The goroutines run; Serve runs unless the process is shutting down.
Fairness ==
  /\ WF_vars(Update)
  /\ WF_vars(~stopped /\ Serve)
  /\ \A c \in Clients : WF_vars(Client(c))

FairSpec == Spec /\ Fairness

-----------------------------------------------------------------------------
Muxers == Queues \X Topics \X (Nat \ {0})

\* Every variable holds what the program can store in it.
TypeOK ==
  /\ desired \in [Queues -> MaybeConfig]
  /\ queueConfig \in [Queues -> MaybeConfig]
  /\ mux \in [Queues -> SUBSET Muxers]
  /\ alive \subseteq Muxers
  /\ adds \in Nat
  /\ cmdC \in Seq(Commands) /\ Len(cmdC) <= Cap
  /\ cmd \in Commands \cup {Idle}
  /\ upc \in {"idle", "rlock", "adds", "dels"}
  /\ todo \subseteq Queues
  /\ out \in Seq(Commands)
  /\ reader \in [Clients -> [op : {"push"}, queue : Queues, left : SUBSET Muxers]
                            \cup {Idle}]
  /\ stopped \in BOOLEAN /\ raced \in BOOLEAN
  /\ updates \in Nat /\ pushes \in Nat

\* The registry and the applied configuration agree: a queue has one muxer for
\* each of its configured topics, all of one generation, and none if it is not
\* configured.
RegistryMatchesConfig ==
  \A q \in Queues :
    IF queueConfig[q] = None THEN mux[q] = {}
    ELSE \E g \in 1 .. adds : mux[q] = {<<q, t, g>> : t \in queueConfig[q].topic}

\* No muxer is leaked and none is closed while it is registered: an update that
\* replaces a queue's muxers leaves exactly the new ones running.
OnlyRegisteredAlive == ~stopped => alive = UNION {mux[q] : q \in Queues}

\* A client in AddJobs writes through muxers that are still registered, to
\* topics that are still configured: queueConfig[q].Topic[t] is never nil.
PushersSeeRegistry ==
  \A c \in Readers :
    LET q == reader[c].queue
    IN  /\ reader[c].left \subseteq mux[q]
        /\ queueConfig[q] # None
        /\ \A m \in reader[c].left : m[2] \in queueConfig[q].topic

Quiescent == upc = "idle" /\ cmdC = <<>> /\ cmd = Idle

\* An update that starts when all earlier commands were executed ends with the
\* new configuration applied, whatever was added, changed or removed in it.
UpdateApplied == Quiescent /\ ~raced => queueConfig = desired

\* Every update returns and every command is executed, although the update
\* sends with the read lock held and Serve needs the write lock (as long as the
\* channel has room for the commands of the pending updates).
EverythingDrains == <>[](Quiescent \/ stopped)

\* Every call of AddJobs returns, whatever writers wait.
PushesReturn == \A c \in Clients : reader[c] # Idle ~> reader[c] = Idle

\* The configuration delivered last is the one in effect once all commands are
\* executed.  The code does not keep this: UpdateConfigs compares with what has
\* been applied, not with what is already in the channel.
LastConfigApplied == Quiescent => queueConfig = desired

=============================================================================
