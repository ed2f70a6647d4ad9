----------------------------- MODULE CallLedger -----------------------------
(***************************************************************************)
(* The billing row of a task's provider call (api_calls):                  *)
(* lib/billing/ledger.py over lib/db/repositories/usage_repo.py.           *)
(*                                                                         *)
(* A task's call is found by its task id only, and the code relies on a    *)
(* task having one row: call[t] is that row's status, "none" before the    *)
(* first submission.  Amounts, tokens and texts are left out; what is kept *)
(* is which operation may overwrite which status.                          *)
(***************************************************************************)
CONSTANT Task

VARIABLE call

CallStatus == {"none", "pending", "success", "failed", "cancelled"}
Outcome == {"success", "failed", "cancelled"}

Init == call = [t \in Task |-> "none"]

(* start_call: entering the bracket inserts a pending row.                 *)
StartCall(t) == call' = [call EXCEPT ![t] = "pending"]

(* finish_call: leaving the bracket writes the outcome over whatever the   *)
(* row holds.                                                              *)
FinishCall(t, s) == call' = [call EXCEPT ![t] = s]

(* A slip the runs catch: the update without its guard on pending.         *)
FinalizeAny(t, s) == call' = [call EXCEPT ![t] = s]

(* finalize_pending_by_call_id: an execution that did not open the row     *)
(* settles it only while it is still pending.                              *)
FinalizePending(t, s) ==
  call' = IF call[t] = "pending" THEN [call EXCEPT ![t] = s] ELSE call

(* The ApiCall half of retry_artifact_download, which refuses a row that   *)
(* is neither failed nor pending.                                          *)
ReopenCall(t) ==
  /\ call[t] \in {"failed", "pending"}
  /\ call' = [call EXCEPT ![t] = "pending"]

(* A slip: only the calls of cancelled tasks are settled.                  *)
SettleCancelled(alive, cancelled) ==
  call' = [t \in Task |-> IF call[t] = "pending" /\ t \in cancelled \ alive
                            THEN "cancelled" ELSE call[t]]

(* settle_interrupted_pending_calls at startup: a pending row whose task   *)
(* is not alive ends with the task's outcome, and never as a success.      *)
SettleInterrupted(alive, cancelled) ==
  call' = [t \in Task |-> IF call[t] # "pending" \/ t \in alive THEN call[t]
                          ELSE IF t \in cancelled THEN "cancelled" ELSE "failed"]
=============================================================================
