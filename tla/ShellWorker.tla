---------------------------- MODULE ShellWorker ----------------------------
(***************************************************************************)
(* The command consumer of one topic: goroutines that start a PHP process, *)
(* wait for it and start the next, a monitor per process that stops it     *)
(* when the worker is closed, and the table of process ids, whose entries  *)
(* the system hands to other processes once they are free.                 *)
(***************************************************************************)
EXTENDS Integers, FiniteSets

CONSTANTS
  Slots,      \* goroutines of Worker.Serve (MaxChildren)
  Pids,       \* process ids, positive numbers
  MaxRuns     \* bound: processes started

ASSUME ShellBounds == Pids \subseteq Nat \ {0} /\ MaxRuns \in Nat

Runs == 1 .. MaxRuns
Free == 0
Other == -1     \* a process of somebody else

VARIABLES
  wclosed,  \* Worker.Close was called
  slot,     \* where each goroutine is
  of,       \* the process the goroutine waits for
  os,       \* who has each process id: Free, Other, or a run not reaped yet
  pid,      \* Process.Pid of each run
  ended,    \* how the process of a run ended: "no", "exited" or "signaled"
  state,    \* ProcessState as the goroutine left it: "nil" until reaped
  monitor,  \* where the monitor of each run is
  seen,     \* history: the last ProcessState the monitor saw
  stray,    \* history: runs whose monitor signalled a process not theirs
  runs      \* processes started

shellVars == <<wclosed, slot, of, os, pid, ended, state, monitor, seen, stray, runs>>

NoPid == -1      \* process.Pid before the process is started

ShellInit ==
  /\ wclosed = FALSE
  /\ slot = [s \in Slots |-> "check"]
  /\ of = [s \in Slots |-> 0]
  /\ os = [p \in Pids |-> Free]
  /\ pid = [r \in Runs |-> NoPid]
  /\ ended = [r \in Runs |-> "no"]
  /\ state = [r \in Runs |-> "nil"]
  /\ monitor = [r \in Runs |-> "none"]
  /\ seen = [r \in Runs |-> "nil"]
  /\ stray = {}
  /\ runs = 0

-----------------------------------------------------------------------------
\* Worker.Close
CloseShell ==
  /\ ~wclosed
  /\ wclosed' = TRUE
  /\ UNCHANGED <<slot, of, os, pid, ended, state, monitor, seen, stray, runs>>

\* The goroutine looks at Done before it starts a process.
Check(s) ==
  /\ slot[s] = "check"
  /\ slot' = [slot EXCEPT ![s] = IF wclosed THEN "done" ELSE "start"]
  /\ UNCHANGED <<wclosed, of, os, pid, ended, state, monitor, seen, stray, runs>>

\* proc.Start fails: try again later.
StartFails(s) ==
  /\ slot[s] = "start"
  /\ slot' = [slot EXCEPT ![s] = "check"]
  /\ UNCHANGED <<wclosed, of, os, pid, ended, state, monitor, seen, stray, runs>>

\* proc.Start, and proc.Wait starts the monitor.
StartProcess(s, p) ==
  /\ slot[s] = "start"
  /\ runs < MaxRuns
  /\ os[p] = Free
  /\ runs' = runs + 1
  /\ os' = [os EXCEPT ![p] = runs']
  /\ pid' = [pid EXCEPT ![runs'] = p]
  /\ monitor' = [monitor EXCEPT ![runs'] = "watch"]
  /\ of' = [of EXCEPT ![s] = runs']
  /\ slot' = [slot EXCEPT ![s] = "wait"]
  /\ UNCHANGED <<wclosed, ended, state, seen, stray>>

\* The process ends by itself, or because a signal made it.
Ends(r, how) ==
  /\ pid[r] # NoPid
  /\ ended[r] = "no"
  /\ ended' = [ended EXCEPT ![r] = how]
  /\ UNCHANGED <<wclosed, slot, of, os, pid, state, monitor, seen, stray, runs>>

\* Cmd.Wait reaps the process: its id is free ...
Reap(s) ==
  LET r == of[s]
  IN  /\ slot[s] = "wait"
      /\ ended[r] # "no"
      /\ os' = [os EXCEPT ![pid[r]] = Free]
      /\ slot' = [slot EXCEPT ![s] = "reaped"]
      /\ UNCHANGED <<wclosed, of, pid, ended, state, monitor, seen, stray, runs>>

\* ... before it has set ProcessState; the goroutine goes on.
Waited(s) ==
  /\ slot[s] = "reaped"
  /\ state' = [state EXCEPT ![of[s]] = ended[of[s]]]
  /\ slot' = [slot EXCEPT ![s] = "check"]
  /\ UNCHANGED <<wclosed, of, os, pid, ended, monitor, seen, stray, runs>>

\* Mutant of Look: the monitor goes on after its process has exited.
LookOn(r) ==
  /\ monitor[r] = "watch"
  /\ ~wclosed
  /\ seen' = [seen EXCEPT ![r] = state[r]]
  /\ UNCHANGED <<wclosed, slot, of, os, pid, ended, state, monitor, stray, runs>>

\* The monitor, each second while the worker is open.  Exited() is false for a
\* process that a signal ended, so the monitor of such a process stays.
Look(r) ==
  /\ monitor[r] = "watch"
  /\ ~wclosed
  /\ seen' = [seen EXCEPT ![r] = state[r]]
  /\ monitor' = [monitor EXCEPT ![r] = IF state[r] = "exited" THEN "done" ELSE @]
  /\ UNCHANGED <<wclosed, slot, of, os, pid, ended, state, stray, runs>>

\* kill(pid, sig) to whatever has the process id: ESRCH ends StopProcess.
Kill(r, next) ==
  /\ monitor' = [monitor EXCEPT ![r] = IF os[pid[r]] = Free THEN "done" ELSE next]
  /\ stray' = IF os[pid[r]] \in {Free, r} THEN stray ELSE stray \cup {r}

\* StopProcess: SIGINT, which the process may obey or not.
Interrupt(r) ==
  /\ monitor[r] = "watch"
  /\ wclosed
  /\ Kill(r, "poll")
  /\ UNCHANGED <<wclosed, slot, of, os, pid, ended, state, seen, runs>>

\* StopProcess finds the process id free.
ProcessGone(r) ==
  /\ monitor[r] = "poll"
  /\ os[pid[r]] = Free
  /\ monitor' = [monitor EXCEPT ![r] = "done"]
  /\ UNCHANGED <<wclosed, slot, of, os, pid, ended, state, seen, stray, runs>>

\* Mutant of KillAfter: a second SIGINT instead of SIGKILL.
KillAfterAsks(r) ==
  /\ monitor[r] = "poll"
  /\ Kill(r, "last")
  /\ UNCHANGED <<wclosed, slot, of, os, pid, ended, state, seen, runs>>

\* StopProcess after the ten polls: SIGKILL.
KillAfter(r) ==
  LET target == os[pid[r]]
  IN  /\ monitor[r] = "poll"
      /\ Kill(r, "last")
      /\ ended' = [q \in Runs |-> IF q = target /\ ended[q] = "no"
                                  THEN "signaled" ELSE ended[q]]
      /\ UNCHANGED <<wclosed, slot, of, os, pid, state, seen, runs>>

\* StopProcess returns after its last look, whatever it finds.
LastLook(r) ==
  /\ monitor[r] = "last"
  /\ monitor' = [monitor EXCEPT ![r] = "done"]
  /\ UNCHANGED <<wclosed, slot, of, os, pid, ended, state, seen, stray, runs>>

\* The system gives a free process id to somebody else, or takes it back.
Others(p) ==
  /\ os[p] \in {Free, Other}
  /\ os' = [os EXCEPT ![p] = IF @ = Free THEN Other ELSE Free]
  /\ UNCHANGED <<wclosed, slot, of, pid, ended, state, monitor, seen, stray, runs>>

Goroutine(s) ==
  \/ Check(s)
  \/ StartFails(s)
  \/ \E p \in Pids : StartProcess(s, p)
  \/ Reap(s)
  \/ Waited(s)

Monitor(r) == Look(r) \/ Interrupt(r) \/ ProcessGone(r) \/ KillAfter(r) \/ LastLook(r)

ShellNext ==
  \/ CloseShell
  \/ \E s \in Slots : Goroutine(s)
  \/ \E r \in Runs : Monitor(r) \/ \E how \in {"exited", "signaled"} : Ends(r, how)
  \/ \E p \in Pids : Others(p)

\* The goroutines of the worker keep running.
ShellFairness ==
  /\ \A s \in Slots : WF_shellVars(Goroutine(s))
  /\ \A r \in Runs : WF_shellVars(Monitor(r))

ShellSpec == ShellInit /\ [][ShellNext]_shellVars /\ ShellFairness

-----------------------------------------------------------------------------
ShellTypeOK ==
  /\ slot \in [Slots -> {"check", "start", "wait", "reaped", "done"}]
  /\ of \in [Slots -> Runs \cup {0}]
  /\ os \in [Pids -> Runs \cup {Free, Other}]
  /\ ended \in [Runs -> {"no", "exited", "signaled"}]
  /\ state \in [Runs -> {"nil", "exited", "signaled"}]
  /\ monitor \in [Runs -> {"none", "watch", "poll", "last", "done"}]

\* StopProcess signals a bare process id, so a monitor that outlives its process
\* may hit another one.  That takes a process that has ended, and if it exited
\* by itself, one whose monitor has not looked since: a monitor that has seen
\* the exit never signals again (proc.go:52-67).
StraySignals ==
  \A r \in stray : ended[r] # "no" /\ seen[r] # "exited"

\* Every process of a closed worker is gone and reaped, and all goroutines of
\* the worker have returned.
ShellSettled ==
  wclosed => /\ \A s \in Slots : slot[s] = "done"
             /\ \A p \in Pids : os[p] \in {Free, Other}
             /\ \A r \in Runs : monitor[r] \in {"none", "done"}

\* Close ends the worker, also while a process is being started and when it
\* ignores SIGINT (proc.go:55-57, 69-95).
ClosedShellStops == []<>ShellSettled
=============================================================================
