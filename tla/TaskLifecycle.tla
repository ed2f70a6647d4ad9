--------------------------- MODULE TaskLifecycle ---------------------------
(***************************************************************************)
(* What the generation queue promises about the life of a task (the state  *)
(* machine of docs/adr/0006 and 0007, completed with the transitions the   *)
(* code has): a task waits, is executed only once its prerequisite is      *)
(* done, and ends done or dead.  A task that dies takes every waiting      *)
(* dependent with it in the same step, and nothing that is executing is    *)
(* ever killed as a dependent.  The only way out of an end state is the    *)
(* retry of a failed download, straight back into execution.               *)
(*                                                                         *)
(* How dependents are found, which row wins a name, and which SQL guard    *)
(* refuses what, is the business of TaskQueue, which implements this.      *)
(***************************************************************************)
CONSTANTS Task, None

VARIABLES phase, dep

lvars == <<phase, dep>>

Phase == {"absent", "waiting", "executing", "done", "dead"}

Init ==
  /\ phase = [t \in Task |-> "absent"]
  /\ dep = [t \in Task |-> None]

(* The prerequisite of t, if it has one, is done. *)
Ready(t) == dep[t] # None => phase[dep[t]] = "done"

Create(t, d) ==
  /\ phase[t] = "absent"
  /\ d # None => phase[d] # "absent"
  /\ phase' = [phase EXCEPT ![t] = "waiting"]
  /\ dep' = [dep EXCEPT ![t] = d]

Start(t) ==
  /\ phase[t] = "waiting"
  /\ Ready(t)
  /\ phase' = [phase EXCEPT ![t] = "executing"]
  /\ UNCHANGED dep

PutBack(T) ==
  /\ \A t \in T : phase[t] = "executing"
  /\ phase' = [t \in Task |-> IF t \in T THEN "waiting" ELSE phase[t]]
  /\ UNCHANGED dep

Finish(t) ==
  /\ phase[t] = "executing"
  /\ phase' = [phase EXCEPT ![t] = "done"]
  /\ UNCHANGED dep

(* D dies at once: it holds every waiting dependent of its members, and at *)
(* most one member was executing.                                          *)
Abort(D) ==
  /\ \A t \in D : phase[t] \in {"waiting", "executing"}
  /\ \A t, u \in D : phase[t] = "executing" /\ phase[u] = "executing" => t = u
  /\ \A u \in Task : phase[u] = "waiting" /\ dep[u] \in D => u \in D
  /\ phase' = [t \in Task |-> IF t \in D THEN "dead" ELSE phase[t]]
  /\ UNCHANGED dep

Reopen(t) ==
  /\ phase[t] = "dead"
  /\ Ready(t)
  /\ phase' = [phase EXCEPT ![t] = "executing"]
  /\ UNCHANGED dep

Next ==
  \/ \E t \in Task, d \in Task \union {None} : Create(t, d)
  \/ \E t \in Task : Start(t) \/ Finish(t) \/ Reopen(t)
  \/ \E T \in SUBSET Task : PutBack(T) \/ Abort(T)

Spec == Init /\ [][Next]_lvars
=============================================================================
