----------------------------- MODULE DebugLists -----------------------------
(***************************************************************************)
(* The two redis lists kept for people: the tasks of a queue (TaskDebug)   *)
(* and the errors of a topic (ErrorCollection).  Gateway connections add   *)
(* tasks in three separate redis calls, muxers add errors in one, and the  *)
(* admin server reads both.  An entry is its number and how many fields    *)
(* splitting it at the separator gives.                                    *)
(***************************************************************************)
EXTENDS Integers, Sequences, FiniteSets

CONSTANTS
  Callers,      \* gateway connections
  DebugMax,     \* length from which AddTask trims (100)
  DebugKeep,    \* last index LTRIM keeps (50)
  DefaultCount, \* entries read when the request names no count (10)
  MaxTasks,     \* bound: calls of AddTask
  MaxErrors,    \* bound: calls of AddError
  MaxCallFaults \* bound: failed redis calls

\* The numbers of the code: a trim leaves the list shorter than its limit.
ASSUME DebugAssumption ==
  /\ IsFiniteSet(Callers)
  /\ DebugMax \in Nat
  /\ DebugKeep \in Nat
  /\ DebugKeep + 1 < DebugMax
  /\ DefaultCount \in Nat
  /\ MaxTasks \in Nat
  /\ MaxErrors \in Nat
  /\ MaxCallFaults \in Nat

VARIABLES
  taskDebugEnable, errorCollectionEnable,
  at,        \* the redis call an AddTask has reached
  tasks, errors,
  calls,     \* AddTask calls so far
  taskNo,    \* tasks pushed
  errorNo,   \* AddError calls so far
  missed,    \* history: since the last trim, trims that a failed call prevented
             \* and entries that a repeated call doubled
  callFaults,
  shown      \* the last reply of the admin server: count asked for and entries

debugVars == <<taskDebugEnable, errorCollectionEnable, at, tasks, errors, calls, taskNo,
          errorNo, missed, callFaults, shown>>
confVars == <<taskDebugEnable, errorCollectionEnable>>

DebugInit ==
  /\ taskDebugEnable \in BOOLEAN
  /\ errorCollectionEnable \in BOOLEAN
  /\ at = [c \in Callers |-> "idle"]
  /\ tasks = <<>>
  /\ errors = <<>>
  /\ calls = 0
  /\ taskNo = 0
  /\ errorNo = 0
  /\ missed = 0
  /\ callFaults = 0
  /\ shown = [count |-> 0, entries |-> <<>>]

Entry(n, f) == [no |-> n, fields |-> f]
LpushTo(l, e) == <<e>> \o l
Nothing == [count |-> 0, entries |-> <<>>]

\* A redis call goes wrong: it may not happen, happen without an answer, or
\* happen twice because CallN repeats it.
FaultyCall ==
  /\ callFaults < MaxCallFaults
  /\ callFaults' = callFaults + 1

-----------------------------------------------------------------------------
\* AddTask: LPUSH.  A task that contains the separator splits into more fields.
\* A failed LPUSH is logged and the call goes on.
AddTask(c) ==
  /\ taskDebugEnable
  /\ at[c] = "idle"
  /\ calls < MaxTasks
  /\ calls' = calls + 1
  /\ at' = [at EXCEPT ![c] = "llen"]
  /\ \/ /\ \E f \in {2, 3} : tasks' = LpushTo(tasks, Entry(taskNo + 1, f))
        /\ taskNo' = taskNo + 1
        /\ UNCHANGED <<missed, callFaults>>
     \/ /\ FaultyCall
        /\ UNCHANGED <<tasks, taskNo, missed>>
     \/ /\ FaultyCall
        /\ LET e == Entry(taskNo + 1, 2) IN tasks' = LpushTo(LpushTo(tasks, e), e)
        /\ taskNo' = taskNo + 1
        /\ missed' = missed + 1
  /\ UNCHANGED <<confVars, errors, errorNo, shown>>

\* AddTask: LLEN, whose error is dropped and reads as length 0.
CountTasks(c) ==
  /\ at[c] = "llen"
  /\ \/ /\ at' = [at EXCEPT ![c] = IF Len(tasks) >= DebugMax THEN "ltrim" ELSE "idle"]
        /\ UNCHANGED <<missed, callFaults>>
     \/ /\ FaultyCall
        /\ at' = [at EXCEPT ![c] = "idle"]
        /\ missed' = missed + 1
  /\ UNCHANGED <<confVars, tasks, errors, calls, taskNo, errorNo, shown>>

\* Mutant of Trimmed: the other end of the list is kept.
TrimmedOldest(l) ==
  IF Len(l) > DebugKeep + 1 THEN SubSeq(l, Len(l) - DebugKeep, Len(l)) ELSE l

\* LTRIM 0 DebugKeep.
Trimmed(l) ==
  IF Len(l) > DebugKeep + 1 THEN SubSeq(l, 1, DebugKeep + 1) ELSE l

\* AddTask: LTRIM, whatever the list has become meanwhile.
TrimTasks(c) ==
  /\ at[c] = "ltrim"
  /\ at' = [at EXCEPT ![c] = "idle"]
  /\ \/ /\ tasks' = Trimmed(tasks)
        /\ missed' = 0
        /\ UNCHANGED callFaults \/ FaultyCall
     \/ /\ FaultyCall
        /\ missed' = missed + 1
        /\ UNCHANGED tasks
  /\ UNCHANGED <<confVars, errors, calls, taskNo, errorNo, shown>>

\* AddError: one LPUSH, of five fields or of six when there is an error, and of
\* more when the jobs or the reply contain the separator.
AddError ==
  /\ errorCollectionEnable
  /\ errorNo < MaxErrors
  /\ errorNo' = errorNo + 1
  /\ \E f \in 5 .. 7 :
       LET e == Entry(errorNo + 1, f)
       IN  \/ errors' = LpushTo(errors, e) /\ UNCHANGED callFaults
           \/ errors' \in {errors, LpushTo(LpushTo(errors, e), e)} /\ FaultyCall
  /\ UNCHANGED <<confVars, at, tasks, calls, taskNo, missed, shown>>

-----------------------------------------------------------------------------
\* The loop over the entries read: those that split into the expected fields.
Fitting(l, fields) ==
  LET ret[i \in 0 .. Len(l)] ==
        IF i = 0 THEN <<>>
        ELSE IF l[i].fields \in fields THEN Append(ret[i - 1], l[i]) ELSE ret[i - 1]
  IN  ret[Len(l)]

\* LRANGE 0 length-1, and what is left of it.
Read(l, count, fields) ==
  LET length == IF count <= 0 THEN DefaultCount ELSE count
      range == SubSeq(l, 1, IF Len(l) < length THEN Len(l) ELSE length)
  IN  [count |-> length, entries |-> Fitting(range, fields)]

\* GetTask, called by GetCGITaskDebugAction.
GetTask(count) ==
  /\ \/ /\ shown' = IF taskDebugEnable THEN Read(tasks, count, {2}) ELSE Nothing
        /\ UNCHANGED callFaults
     \/ taskDebugEnable /\ FaultyCall /\ shown' = Nothing
  /\ UNCHANGED <<confVars, at, tasks, errors, calls, taskNo, errorNo, missed>>

\* GetError, called by GetCGIErrorAction.
GetError(count) ==
  /\ \/ /\ shown' = IF errorCollectionEnable THEN Read(errors, count, {5, 6}) ELSE Nothing
        /\ UNCHANGED callFaults
     \/ errorCollectionEnable /\ FaultyCall /\ shown' = Nothing
  /\ UNCHANGED <<confVars, at, tasks, errors, calls, taskNo, errorNo, missed>>

\* UpdateSetting switches the two lists on or off, between any two calls.
Switch ==
  /\ taskDebugEnable' \in BOOLEAN
  /\ errorCollectionEnable' \in BOOLEAN
  /\ UNCHANGED <<at, tasks, errors, calls, taskNo, errorNo, missed, callFaults, shown>>

DebugNext ==
  \/ \E c \in Callers : AddTask(c) \/ CountTasks(c) \/ TrimTasks(c)
  \/ AddError
  \/ \E count \in {0, 1} : GetTask(count) \/ GetError(count)
  \/ Switch

DebugSpec == DebugInit /\ [][DebugNext]_debugVars

-----------------------------------------------------------------------------
DebugTypeOK ==
  /\ at \in [Callers -> {"idle", "llen", "ltrim"}]
  /\ taskNo <= calls
  /\ calls <= MaxTasks
  /\ Len(errors) <= errorNo + callFaults
  /\ missed \in 0 .. MaxCallFaults
  /\ Len(shown.entries) <= shown.count

\* The list of tasks always holds the newest tasks without a gap, newest first:
\* a trim decided on an old length never drops one that was pushed meanwhile,
\* and a repeated LPUSH only doubles an entry in place.  It grows past its limit
\* only by the connections that are inside AddTask and, until the next trim, by
\* doubled entries and trims that did not happen (task_debug.go:52-70).
DebugListRecent ==
  /\ tasks # <<>> => tasks[1].no = taskNo
  /\ \A i \in 1 .. Len(tasks) - 1 : tasks[i].no - tasks[i + 1].no \in {0, 1}
  /\ taskNo > DebugKeep => Len(tasks) > DebugKeep
  /\ Len(tasks) < DebugMax + missed + Cardinality({c \in Callers : at[c] # "idle"})
  /\ \A i \in 1 .. Len(shown.entries) - 1 : shown.entries[i].no >= shown.entries[i + 1].no
=============================================================================
