-------------------------- MODULE MuxRefinesJobBus -------------------------
(***************************************************************************)
(* The pipeline of Mux implements the life of a job stated by JobBus.      *)
(***************************************************************************)
EXTENDS Mux

\* A job is running while a worker holds it; on the common list, on the retry
\* list and in the hands of a retry loop it is queued.
StateOf(i) ==
  IF i >= next THEN "absent"
  ELSE IF i \in done THEN "done"
  ELSE IF i \in taken \cup lost THEN "gone"
  ELSE IF i \in Elements("timeout") THEN "expired"
  ELSE IF \E w \in Workers : hold[w] = i THEN "running"
  ELSE "queued"

Bus == INSTANCE JobBus WITH
         Jobs <- Ids,
         state <- [i \in Ids |-> StateOf(i)],
         ran <- {i \in Ids : attr[i].times > 0}

\* Every behaviour of the pipeline is one JobBus allows: with all the lists,
\* faults, restarts and config updates, a job's life only moves forward.
ImplementsJobBus == Bus!BusSpec

=============================================================================
