------------------------------ MODULE MCParts ------------------------------
(***************************************************************************)
(* One instance for TLC of the parts that stand beside the queues: in a    *)
(* behaviour one part runs and the others stay in their initial state.     *)
(***************************************************************************)
EXTENDS Gateway, Statistics, HttpWorker, ShellWorker, Process, Logger, DebugLists,
        RedisConn, RedisCommands, Settings

VARIABLE part   \* the part that runs

partVars ==
  <<part, gwVars, statVars, httpVars, shellVars, procVars, logVars, debugVars, connVars,
    cmdVars, setVars>>

Parts == {"gateway", "statistics", "http", "shell", "process", "logger", "debug",
          "connection", "commands", "settings"}

\* A part that does not run keeps one of its initial states.
Idle(p, first) == part = p \/ first

Init ==
  /\ part \in Parts
  /\ GatewayInit
  /\ StatInit
  /\ HttpInit
  /\ ShellInit
  /\ ProcessInit
  /\ LogInit
  /\ DebugInit
  /\ ConnInit
  /\ CmdInit
  /\ SettingInit
  /\ Idle("gateway", \A n \in DOMAIN conf : conf[n] = CHOOSE p \in Passwords : TRUE)
  /\ Idle("statistics", timed)
  /\ Idle("http", hconf = "plain")
  /\ Idle("logger", now = 0)
  /\ Idle("debug", taskDebugEnable /\ errorCollectionEnable)

\* The variables of the parts that do not run.
Rest(p) ==
  /\ part = p
  /\ UNCHANGED part
  /\ p # "gateway" => UNCHANGED gwVars
  /\ p # "statistics" => UNCHANGED statVars
  /\ p # "http" => UNCHANGED httpVars
  /\ p # "shell" => UNCHANGED shellVars
  /\ p # "process" => UNCHANGED procVars
  /\ p # "logger" => UNCHANGED logVars
  /\ p # "debug" => UNCHANGED debugVars
  /\ p # "connection" => UNCHANGED connVars
  /\ p # "commands" => UNCHANGED cmdVars
  /\ p # "settings" => UNCHANGED setVars

Next ==
  \/ Rest("gateway") /\ GatewayNext
  \/ Rest("statistics") /\ StatNext
  \/ Rest("http") /\ HttpNext
  \/ Rest("shell") /\ ShellNext
  \/ Rest("process") /\ ProcessNext
  \/ Rest("logger") /\ LogNext
  \/ Rest("debug") /\ DebugNext
  \/ Rest("connection") /\ ConnNext
  \/ Rest("commands") /\ CmdNext
  \/ Rest("settings") /\ SettingNext

\* Fairness of the parts that have it, for the part that runs.
Fairness ==
  /\ WF_httpVars(part = "http" /\ Main)
  /\ \A i \in Children :
       /\ WF_httpVars(part = "http" /\ hclosed /\ ChildPing(i))
       /\ WF_httpVars(part = "http" /\ Child(i) /\ child[i] # "ping")
  /\ \A s \in Slots : WF_shellVars(part = "shell" /\ Goroutine(s))
  /\ \A r \in Runs : WF_shellVars(part = "shell" /\ Monitor(r))
  /\ \A p \in Procs :
       /\ WF_procVars(part = "process" /\ Handler(p))
       /\ WF_procVars(part = "process" /\ Serve(p))
       /\ WF_procVars(part = "process" /\ AdminDone(p))
       /\ WF_procVars(part = "process" /\ End(p))
  /\ WF_setVars(part = "settings" /\ \E Q \in SUBSET ConfQueues : Work(Q))
  /\ WF_setVars(part = "settings" /\ SendCmd)
  /\ WF_setVars(part = "settings" /\ Return)
  /\ WF_setVars(part = "settings" /\ InitStep)
  /\ WF_setVars(part = "settings" /\ Receive)
  /\ WF_setVars(part = "settings" /\ Execute)

Spec == Init /\ [][Next]_partVars /\ Fairness

-----------------------------------------------------------------------------
(* parseQueueConfig against its reference: one queue of two topics, two    *)
(* tags.  A queue is on when one of the machine's tags gives it without    *)
(* topics, a topic when one of the tags lists it; then, and only then, its *)
(* consumer runs, unless consumers are disabled (setting.go:289-342).      *)

SomeTopics == SUBSET {"t1", "t2"}
SomeConfs == UNION {[Q -> SomeTopics] : Q \in SUBSET {"q"}}
SomeMappings == UNION {[T -> SomeConfs] : T \in SUBSET {"a", "b"}}
SomeTags == {<<>>, <<"a">>, <<"a", "b">>, <<"b", "a">>, <<"b", "b">>}

ASSUME ParseMatchesReference ==
  \A c \in SomeConfs, mapping \in SomeMappings, tags \in SomeTags :
    LET marks == parseQueueConfig(c, mapping, tags)
        mine == ToSet(tags) \cap DOMAIN mapping
        On(q) == \E tag \in mine : q \in DOMAIN mapping[tag] /\ mapping[tag][q] = {}
        Listed(q, t) == \E tag \in mine : q \in DOMAIN mapping[tag] /\ t \in mapping[tag][q]
    IN  /\ DOMAIN marks = DOMAIN c
        /\ \A q \in DOMAIN c, runType \in {"cgi", "http", "cmd"}, disable \in BOOLEAN :
             \A t \in c[q] :
               consumerEnable(marks[q], t, runType, disable) <=>
                 (On(q) \/ Listed(q, t)) /\ (disable => runType = "cmd")

-----------------------------------------------------------------------------
\* Every part keeps its variables in their types; a redis connection counts as
\* pipelined exactly the requests in its buffer until a write fails
\* (conn.go:441-458), and a queue of log buffers or commands keeps to its size.
TypesOK ==
  /\ GatewayTypeOK
  /\ StatTypeOK
  /\ HttpTypeOK
  /\ ShellTypeOK
  /\ ProcessTypeOK
  /\ LogTypeOK
  /\ DebugTypeOK
  /\ ConnTypeOK
  /\ CmdTypeOK
  /\ SettingTypeOK

\* What was asked to stop stops and what was begun ends: closed HTTP and shell
\* workers (http_worker.go:129-270, proc.go:52-95), an interrupted process
\* (signal.go:22-31), and start-up with the deliveries of configurations
\* (setting.go:194-262).
PartsSettle ==
  []<>(/\ part = "http" => HttpSettled
       /\ part = "shell" => ShellSettled
       /\ part = "process" => ProcessSettled
       /\ part = "settings" => SettingSettled)
=============================================================================
