------------------------------ MODULE Process ------------------------------
(***************************************************************************)
(* The life of the bus: main, the signal handler, the graceful restart     *)
(* that hands the listening sockets to a new process, and how the gateway  *)
(* and the admin server end.  Processes are numbered in the order they are *)
(* started; the sockets are the same throughout, each process holds them   *)
(* or not.                                                                 *)
(***************************************************************************)
EXTENDS Integers, Sequences

CONSTANTS
  MaxProcs,    \* bound: processes started
  MaxSignals,  \* bound: signals sent
  MaxConns     \* bound: clients connected to one gateway

ASSUME ProcessBounds == MaxProcs \in Nat \ {0}

Procs == 1 .. MaxProcs
Signals == {"INT", "USR2"}   \* what signalHandler is notified of

VARIABLES
  main,     \* where main is
  holds,    \* the process has the listening sockets open
  ch,       \* the channel of signalHandler
  handler,  \* where signalHandler is
  gateway,  \* where Gateway.Serve is
  admin,    \* where AdminServer is
  conns,    \* connected clients
  term,     \* SIGTERM or SIGINT reached the discovery client
  born, sent, \* processes started, signals sent
  why       \* history: why a process let go of the sockets without an heir

procVars == <<main, holds, ch, handler, gateway, admin, conns, term, born, sent, why>>

ProcessInit ==
  /\ main = [p \in Procs |-> IF p = 1 THEN "setting" ELSE "none"]
  /\ holds = [p \in Procs |-> FALSE]
  /\ ch = [p \in Procs |-> <<>>]
  /\ handler = [p \in Procs |-> "none"]
  /\ gateway = [p \in Procs |-> "none"]
  /\ admin = [p \in Procs |-> "none"]
  /\ conns = [p \in Procs |-> 0]
  /\ term = {}
  /\ born = 1
  /\ sent = 0
  /\ why = [p \in Procs |-> "none"]

-----------------------------------------------------------------------------
\* The process is gone, its goroutines and sockets with it.
Gone(p, how, reason) ==
  /\ main' = [main EXCEPT ![p] = how]
  /\ holds' = [holds EXCEPT ![p] = FALSE]
  /\ handler' = [handler EXCEPT ![p] = "none"]
  /\ gateway' = [gateway EXCEPT ![p] = "none"]
  /\ admin' = [admin EXCEPT ![p] = "none"]
  /\ conns' = [conns EXCEPT ![p] = 0]
  /\ ch' = [ch EXCEPT ![p] = <<>>]
  /\ why' = [why EXCEPT ![p] = IF @ = "none" THEN reason ELSE @]

\* initSetting or a Listen fails, or a callback of the keeper panics.
StartupFails(p) ==
  /\ main[p] \in {"setting", "listen"}
  /\ Gone(p, "failed", "startup")
  /\ UNCHANGED <<term, born, sent>>

\* A signal before signalHandler has asked for it, or after it has called
\* signal.Stop, does what it does by default.
DefaultSignal(p) ==
  /\ main[p] \in {"setting", "listen"} \/ handler[p] = "stopping"
  /\ sent < MaxSignals
  /\ sent' = sent + 1
  /\ Gone(p, "killed", "startup")
  /\ UNCHANGED <<term, born>>

\* initSetting returns once the keeper has sent the configuration.
Settings(p) ==
  /\ main[p] = "setting"
  /\ main' = [main EXCEPT ![p] = "listen"]
  /\ UNCHANGED <<holds, ch, handler, gateway, admin, conns, term, born, sent, why>>

\* main opens the sockets, or finds the inherited ones, and starts everything.
Listen(p) ==
  /\ main[p] = "listen"
  /\ main' = [main EXCEPT ![p] = "wait"]
  /\ holds' = [holds EXCEPT ![p] = TRUE]
  /\ handler' = [handler EXCEPT ![p] = "ready"]
  /\ gateway' = [gateway EXCEPT ![p] = "serving"]
  /\ admin' = [admin EXCEPT ![p] = "serving"]
  /\ UNCHANGED <<ch, conns, term, born, sent, why>>

\* A signal for the handler.  ManageServiceAction sends USR2 for "restart".
Signal(p, sig) ==
  /\ main[p] = "wait"
  /\ handler[p] # "stopping"
  /\ sent < MaxSignals
  /\ sent' = sent + 1
  /\ ch' = [ch EXCEPT ![p] = Append(@, sig)]
  /\ term' = IF sig = "INT" THEN term \cup {p} ELSE term
  /\ UNCHANGED <<main, holds, handler, gateway, admin, conns, born, why>>

\* SIGTERM, also what ManageServiceAction sends for "stop", is not in the
\* handler's Notify list: only the discovery client sees it.
Term(p) ==
  /\ main[p] = "wait"
  /\ sent < MaxSignals
  /\ sent' = sent + 1
  /\ term' = term \cup {p}
  /\ UNCHANGED <<main, holds, ch, handler, gateway, admin, conns, born, why>>

\* External: after deregistering, the discovery client may end the process.
DiscoveryExit(p) ==
  /\ main[p] = "wait"
  /\ p \in term
  /\ Gone(p, "killed", "stop")
  /\ UNCHANGED <<term, born, sent>>

\* lis.Close and GlobalCancelFunc
CloseListeners(p, reason) ==
  /\ holds' = [holds EXCEPT ![p] = FALSE]
  /\ why' = [why EXCEPT ![p] = IF @ = "none" THEN reason ELSE @]

\* The handler takes SIGINT and calls signal.Stop.
Interrupted(p) ==
  /\ handler[p] = "ready"
  /\ ch[p] # <<>> /\ Head(ch[p]) = "INT"
  /\ ch' = [ch EXCEPT ![p] = <<>>]
  /\ handler' = [handler EXCEPT ![p] = "stopping"]
  /\ CloseListeners(p, "stop")
  /\ UNCHANGED <<main, gateway, admin, conns, term, born, sent>>

\* Mutant of RestartFails: the listeners are closed before the new process is
\* started.
RestartFailsClosed(p) ==
  /\ handler[p] = "ready"
  /\ ch[p] # <<>> /\ Head(ch[p]) = "USR2"
  /\ ch' = [ch EXCEPT ![p] = Tail(@)]
  /\ handler' = [handler EXCEPT ![p] = "returned"]
  /\ CloseListeners(p, "none")
  /\ UNCHANGED <<main, gateway, admin, conns, term, born, sent>>

\* SIGUSR2, and StartProcess fails: the handler returns, the process goes on
\* serving but never handles a signal again.
RestartFails(p) ==
  /\ handler[p] = "ready"
  /\ ch[p] # <<>> /\ Head(ch[p]) = "USR2"
  /\ ch' = [ch EXCEPT ![p] = Tail(@)]
  /\ handler' = [handler EXCEPT ![p] = "returned"]
  /\ UNCHANGED <<main, holds, gateway, admin, conns, term, born, sent, why>>

\* SIGUSR2, and StartProcess hands the sockets to a new process: the handler
\* closes its own and goes on waiting.  StartProcess needs open listeners.
Restart(p) ==
  /\ handler[p] = "ready"
  /\ ch[p] # <<>> /\ Head(ch[p]) = "USR2"
  /\ holds[p]
  /\ born < MaxProcs
  /\ born' = born + 1
  /\ ch' = [ch EXCEPT ![p] = Tail(@)]
  /\ main' = [main EXCEPT ![born'] = "setting"]
  /\ holds' = [holds EXCEPT ![p] = FALSE, ![born'] = TRUE]
  /\ UNCHANGED <<handler, gateway, admin, conns, term, sent, why>>

-----------------------------------------------------------------------------
\* Clients connect while the listener is accepting, and leave.
Connect(p) ==
  /\ gateway[p] = "serving" /\ holds[p]
  /\ conns[p] < MaxConns
  /\ conns' = [conns EXCEPT ![p] = @ + 1]
  /\ UNCHANGED <<main, holds, ch, handler, gateway, admin, term, born, sent, why>>

Disconnect(p) ==
  /\ conns[p] > 0
  /\ conns' = [conns EXCEPT ![p] = @ - 1]
  /\ UNCHANGED <<main, holds, ch, handler, gateway, admin, term, born, sent, why>>

\* Server.Serve of the gateway returns when its listener is closed.
Drain(p) ==
  /\ gateway[p] = "serving" /\ ~holds[p]
  /\ gateway' = [gateway EXCEPT ![p] = "draining"]
  /\ UNCHANGED <<main, holds, ch, handler, admin, conns, term, born, sent, why>>

\* Mutant of Drained: without the timeout.
DrainedEmpty(p) ==
  /\ gateway[p] = "draining"
  /\ conns[p] = 0
  /\ gateway' = [gateway EXCEPT ![p] = "done"]
  /\ UNCHANGED <<main, holds, ch, handler, admin, conns, term, born, sent, why>>

\* Gateway.Serve ends when nobody is connected, or after GraceStopTimeout
\* whoever is.
Drained(p) ==
  /\ gateway[p] = "draining"
  /\ gateway' = [gateway EXCEPT ![p] = "done"]
  /\ UNCHANGED <<main, holds, ch, handler, admin, conns, term, born, sent, why>>

AdminDone(p) ==
  /\ admin[p] = "serving" /\ ~holds[p]
  /\ admin' = [admin EXCEPT ![p] = "done"]
  /\ UNCHANGED <<main, holds, ch, handler, gateway, conns, term, born, sent, why>>

\* wg.Wait returns.  err is nil here, so printing err.Error() panics: the
\* process ends all the same, not by os.Exit(0).
End(p) ==
  /\ main[p] = "wait"
  /\ gateway[p] = "done" /\ admin[p] = "done"
  /\ Gone(p, "panic", "none")
  /\ UNCHANGED <<term, born, sent>>

ProcessSteps(p) ==
  \/ StartupFails(p)
  \/ Settings(p)
  \/ Listen(p)
  \/ Interrupted(p)
  \/ RestartFails(p)
  \/ Restart(p)
  \/ Drain(p)
  \/ Drained(p)
  \/ AdminDone(p)
  \/ End(p)

ProcessNext ==
  \E p \in Procs :
    \/ ProcessSteps(p)
    \/ \E sig \in Signals : Signal(p, sig)
    \/ Term(p)
    \/ DefaultSignal(p)
    \/ DiscoveryExit(p)
    \/ Connect(p)
    \/ Disconnect(p)

\* The goroutines that go on by themselves: signalHandler and Gateway.Serve.
Handler(p) == Interrupted(p) \/ RestartFails(p) \/ Restart(p)
Serve(p) == Drain(p) \/ Drained(p)

\* The goroutines of a process run; Drained has its timeout.  Nothing obliges a
\* client to disconnect.
ProcessFairness ==
  \A p \in Procs :
    /\ WF_procVars(Handler(p))
    /\ WF_procVars(Serve(p))
    /\ WF_procVars(AdminDone(p))
    /\ WF_procVars(End(p))

ProcessSpec == ProcessInit /\ [][ProcessNext]_procVars /\ ProcessFairness

-----------------------------------------------------------------------------
ProcessTypeOK ==
  /\ main \in [Procs -> {"none", "setting", "listen", "wait",
                         "failed", "killed", "panic"}]
  /\ holds \in [Procs -> BOOLEAN]
  /\ handler \in [Procs -> {"none", "ready", "stopping", "returned"}]
  /\ gateway \in [Procs -> {"none", "serving", "draining", "done"}]
  /\ admin \in [Procs -> {"none", "serving", "done"}]
  /\ conns \in [Procs -> 0 .. MaxConns]
  /\ \A p \in Procs : ch[p] \in Seq(Signals)

\* Restarts leave no gap and no rival: once the first process is up, the newest
\* process and no other holds the listening sockets, through any number of
\* successful and failed restarts, until it was told to stop or did not survive
\* its start-up (signal.go:32-44).
SomeoneListens ==
  /\ \A p \in Procs : holds[p] => p = born
  /\ holds[born] \/ why[born] # "none" \/ (born = 1 /\ main[1] \in {"setting", "listen"})

\* No process that was interrupted is still there, unless its handler returned
\* after a failed restart (signal.go:34-38): it can no longer be interrupted.
ProcessSettled ==
  \A p \in Procs :
    ((\E i \in DOMAIN ch[p] : ch[p][i] = "INT") \/ handler[p] = "stopping") =>
      main[p] # "wait" \/ handler[p] = "returned"

\* A process that has SIGINT in its channel ends, with or without clients that
\* stay connected (signal.go:22-31, main.go:69-89).
InterruptEnds == []<>ProcessSettled
=============================================================================
