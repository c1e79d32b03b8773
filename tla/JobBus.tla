------------------------------- MODULE JobBus ------------------------------
(***************************************************************************)
(* What the bus promises for the jobs of one topic, without lists, muxers  *)
(* or goroutines: the life of every job.  A job runs only after it was     *)
(* submitted, is finished only by a run of its own, expires only after it  *)
(* has run, and never leaves a final state.                                *)
(***************************************************************************)
EXTENDS Naturals

CONSTANT Jobs

VARIABLES
  state,  \* where each job is in its life
  ran     \* jobs that were handed to a consumer

busVars == <<state, ran>>

States == {"absent", "queued", "running", "done", "expired", "gone"}

BusTypeOK ==
  /\ state \in [Jobs -> States]
  /\ ran \subseteq Jobs

BusInit ==
  /\ state = [j \in Jobs |-> "absent"]
  /\ ran = {}

\* A job moves on, possibly leaving a second copy of itself behind: a job "k"
\* that did not exist and takes over the history of "j".
Move(j, from, to) ==
  /\ state[j] = from
  /\ \/ /\ state' = [state EXCEPT ![j] = to]
        /\ UNCHANGED ran
     \/ \E k \in Jobs \ {j} :
          /\ state[k] = "absent"
          /\ state' = [state EXCEPT ![j] = to, ![k] = to]
          /\ ran' = IF j \in ran THEN ran \cup {k} ELSE ran

Submit(j) == Move(j, "absent", "queued")
Reject(j) == /\ state[j] = "absent"
             /\ state' = [state EXCEPT ![j] = "gone"]
             /\ UNCHANGED ran
Start(j) == /\ state[j] = "queued"
            /\ state' = [state EXCEPT ![j] = "running"]
            /\ ran' = ran \cup {j}
Finish(j) == /\ state[j] = "running"
             /\ state' = [state EXCEPT ![j] = "done"]
             /\ UNCHANGED ran
Requeue(j) == Move(j, "running", "queued") \/ Move(j, "queued", "queued")
Expire(j) == j \in ran /\ Move(j, "queued", "expired")

\* Jobs that had not reached a final state leave the bus.
Leave(S) == /\ \A j \in S : state[j] \in {"queued", "running"}
            /\ state' = [j \in Jobs |-> IF j \in S THEN "gone" ELSE state[j]]
            /\ UNCHANGED ran

BusNext ==
  \/ \E j \in Jobs :
       Submit(j) \/ Reject(j) \/ Start(j) \/ Finish(j) \/ Requeue(j) \/ Expire(j)
  \/ \E S \in SUBSET Jobs : Leave(S)

BusSpec == BusInit /\ [][BusNext]_busVars

=============================================================================
