------------------------------ MODULE Settings ------------------------------
(***************************************************************************)
(* Where the configuration comes from: initSetting, which main runs before *)
(* it starts anything, the callback gokeeper runs on every delivery, also  *)
(* during start-up, and what parseQueueConfig makes of tags.  The queues   *)
(* are a set; what a muxer does with its configuration is in MuxServer.    *)
(***************************************************************************)
EXTENDS Integers, Sequences, FiniteSets, SequencesExt

CONSTANTS
  ConfQueues,     \* queues a configuration may have
  CmdCap,         \* capacity of cmdC
  MaxDeliveries   \* bound: configurations delivered

-----------------------------------------------------------------------------
(* parseQueueConfig.  A configuration gives every queue its topics; the    *)
(* mapping gives a tag the queues and topics to run, where no topics means *)
(* all of them.                                                            *)

Unmarked(conf) ==
  [q \in DOMAIN conf |-> [on |-> FALSE, topics |-> [t \in conf[q] |-> FALSE]]]

\* One round of the loop over the tags.
MarkTag(mapping, tag, marks) ==
  IF tag \notin DOMAIN mapping THEN marks
  ELSE [q \in DOMAIN marks |->
          IF q \notin DOMAIN mapping[tag] THEN marks[q]
          ELSE IF mapping[tag][q] = {} THEN [marks[q] EXCEPT !.on = TRUE]
          ELSE [marks[q] EXCEPT !.topics =
                  [t \in DOMAIN @ |-> @[t] \/ t \in mapping[tag][q]]]]

parseQueueConfig(conf, mapping, tags) ==
  FoldSeq(LAMBDA tag, marks : MarkTag(mapping, tag, marks), Unmarked(conf), tags)

\* consumerEnable in Serve; muxers of shell scripts ignore ConsumerDisable.
consumerEnable(mark, topic, runType, consumerDisable) ==
  /\ runType # "cmd" => ~consumerDisable
  /\ mark.on \/ mark.topics[topic]

-----------------------------------------------------------------------------
VARIABLES
  ipc,        \* how far main is
  netConf,    \* the queues gokeeper delivered last
  applied,    \* queues Serve has registered
  cmdChan,    \* cmdC
  doing,      \* the command Serve has received
  callback,   \* UpdateSetting: idle, inside Work, or on gokeeper's goroutine
  pend,       \* commands UpdateConfigs has still to send
  deliveries

setVars == <<ipc, netConf, applied, cmdChan, doing, callback, pend, deliveries>>

NoCmd == <<>>

SettingInit ==
  /\ ipc = "keeper"
  /\ netConf = {}
  /\ applied = {}
  /\ cmdChan = <<>>
  /\ doing = NoCmd
  /\ callback = "idle"
  /\ pend = {}
  /\ deliveries = 0

\* Mutant of Differences: every queue is deleted and added again.
DifferencesAlways(Q) ==
  {<<"add", q>> : q \in Q} \cup {<<"del", q>> : q \in Q \cup applied}

\* UpdateConfigs compares with what Serve has registered so far.
Differences(Q) ==
  {<<"add", q>> : q \in Q \ applied} \cup {<<"del", q>> : q \in applied \ Q}

\* UpdateSetting begins: the configuration is stored and compared, under the
\* read lock that UpdateConfigs keeps until its last command is sent.
Deliver(Q, where) ==
  /\ callback = "idle"
  /\ deliveries < MaxDeliveries
  /\ deliveries' = deliveries + 1
  /\ netConf' = Q
  /\ callback' = where
  /\ pend' = Differences(Q)
  /\ UNCHANGED <<ipc, applied, cmdChan, doing>>

\* keeperCli.Work delivers the first configuration and runs the callback.
Work(Q) == ipc = "keeper" /\ deliveries = 0 /\ Deliver(Q, "work")

\* Later deliveries, on gokeeper's own goroutine.
Update(Q) == ipc \notin {"keeper", "exit"} /\ Deliver(Q, "keeper")

\* updateQueue panics on a configuration it cannot parse, and Work may fail.
BadConfig ==
  /\ ipc # "exit"
  /\ callback = "idle"
  /\ deliveries < MaxDeliveries
  /\ deliveries' = deliveries + 1
  /\ ipc' = "exit"
  /\ UNCHANGED <<netConf, applied, cmdChan, doing, callback, pend>>

\* AddQueue and DelQueue; they block while cmdC is full.
SendCmd ==
  /\ ipc # "exit"
  /\ callback # "idle"
  /\ Len(cmdChan) < CmdCap
  /\ \E c \in pend :
       /\ cmdChan' = Append(cmdChan, c)
       /\ pend' = pend \ {c}
  /\ UNCHANGED <<ipc, netConf, applied, doing, callback, deliveries>>

\* UpdateConfigs gives the lock back, and Work returns.
Return ==
  /\ ipc # "exit"
  /\ callback # "idle"
  /\ pend = {}
  /\ callback' = "idle"
  /\ ipc' = IF callback = "work" THEN "cgi" ELSE ipc
  /\ UNCHANGED <<netConf, applied, cmdChan, doing, pend, deliveries>>

Steps == [cgi |-> "errors", errors |-> "debug", debug |-> "http", http |-> "discovery",
          discovery |-> "listen", listen |-> "serving"]

\* The steps of initSetting after Work, the two listeners, and the start of
\* Serve.  All but the registration in discovery may fail and end the process.
InitStep ==
  /\ ipc \in DOMAIN Steps
  /\ \/ ipc' = Steps[ipc]
     \/ ipc # "discovery" /\ ipc' = "exit"
  /\ UNCHANGED <<netConf, applied, cmdChan, doing, callback, pend, deliveries>>

\* Serve receives a command ...
Receive ==
  /\ ipc = "serving"
  /\ doing = NoCmd
  /\ cmdChan # <<>>
  /\ doing' = Head(cmdChan)
  /\ cmdChan' = Tail(cmdChan)
  /\ UNCHANGED <<ipc, netConf, applied, callback, pend, deliveries>>

\* ... and executes it under the write lock.
Execute ==
  /\ ipc = "serving"
  /\ doing # NoCmd
  /\ callback = "idle"
  /\ applied' = IF doing[1] = "add" THEN applied \cup {doing[2]} ELSE applied \ {doing[2]}
  /\ doing' = NoCmd
  /\ UNCHANGED <<ipc, netConf, cmdChan, callback, pend, deliveries>>

SettingNext ==
  \/ \E Q \in SUBSET ConfQueues : Work(Q) \/ Update(Q)
  \/ BadConfig
  \/ SendCmd
  \/ Return
  \/ InitStep
  \/ Receive
  \/ Execute

SettingFairness ==
  /\ WF_setVars(\E Q \in SUBSET ConfQueues : Work(Q))
  /\ WF_setVars(SendCmd)
  /\ WF_setVars(Return)
  /\ WF_setVars(InitStep)
  /\ WF_setVars(Receive)
  /\ WF_setVars(Execute)

SettingSpec == SettingInit /\ [][SettingNext]_setVars /\ SettingFairness

-----------------------------------------------------------------------------
SettingTypeOK ==
  /\ ipc \in DOMAIN Steps \cup {"keeper", "serving", "exit"}
  /\ netConf \subseteq ConfQueues
  /\ applied \subseteq ConfQueues
  /\ Len(cmdChan) <= CmdCap
  /\ callback \in {"idle", "work", "keeper"}
  /\ ipc = "keeper" \/ callback # "work" \/ ipc = "exit"

\* main has exited, or it serves and no callback and no command is under way.
SettingSettled ==
  \/ ipc = "exit"
  \/ ipc = "serving" /\ callback = "idle" /\ cmdChan = <<>> /\ doing = NoCmd

\* Start-up ends and deliveries return, although until Serve runs nobody
\* receives from cmdC and each delivery sends the same commands again.  It needs
\* room in cmdC for the commands of all deliveries before Serve runs
\* (setting.go:194-262, mux_server.go:212-229).
StartupEnds == []<>SettingSettled
=============================================================================
