----------------------------- MODULE TaskQueue -----------------------------
(***************************************************************************)
(* The durable task table of ArcReel's generation queue:                   *)
(* lib/db/repositories/task_repo.py over lib/db/models/task.py, and the    *)
(* retirement of a project's rows by lib/db/repositories/project_records.py.*)
(*                                                                         *)
(* Each action is one repository call, which is one committed transaction. *)
(* A row is a set of functions of its task id.  The columns kept are those *)
(* some guard reads: the status, the dedupe key, the prerequisite, the     *)
(* machine code of the failure, and whether the pre-submit checkpoint and  *)
(* the provider's job id are recorded.                                     *)
(***************************************************************************)
EXTENDS Naturals, FiniteSets

CONSTANTS
  Task,         \* task ids
  Project,      \* project names
  Second,       \* the UTC seconds at which a project can be deleted
  Unit,         \* the dedupe columns other than the project: user, type, resource, script
  RenderUnit,   \* the units of the local rendering lane
  VideoUnit,    \* the units of the task types that record a checkpoint
  Live,         \* the tombstone mark of a row whose project has not been deleted
  None          \* no prerequisite, and the facts of a row that does not exist

ASSUME UnitAssumption == RenderUnit \subseteq Unit /\ VideoUnit \subseteq Unit
ASSUME LaneAssumption == RenderUnit \intersect VideoUnit = {}
ASSUME LiveAssumption == Live \notin Second
ASSUME NoneAssumption == None \notin Task /\ None \notin Project /\ None \notin Unit

VARIABLES
  status,       \* the row's status, "absent" when there is no row
  owner,        \* the project part of project_name
  tomb,         \* the tombstone part of project_name: Live or a second
  unit,         \* the rest of the dedupe key
  dep,          \* dependency_task_id
  code,         \* which kind of failure error_message encodes
  checkpoint,   \* execution_checkpoint_json is set
  job           \* provider_job_id is set

key == <<owner, tomb, unit>>
vars == <<status, owner, tomb, unit, dep, code, checkpoint, job>>

Status == {"absent", "queued", "running", "succeeded", "failed", "cancelled"}
Code == {"none", "download", "other"}

ActiveStatus == {"queued", "running"}
Dead == {"failed", "cancelled"}

-----------------------------------------------------------------------------
(* The rows by status, the unique partial index and the queued dependents. *)

With(s) == {t \in Task : status[t] = s}
Active == {t \in Task : status[t] \in ActiveStatus}

(* project_name, user_id, task_type, resource_id, script_file, ...        *)
KeyOf(t) == <<owner[t], tomb[t], unit[t]>>

(* A slip the runs catch: an index over the queued rows only.              *)
IndexAdmitsBesideRunning(t, k) == \A u \in With("queued") \ {t} : KeyOf(u) # k

(* idx_tasks_dedupe_active admits an active row under key k, besides t.    *)
IndexAdmits(t, k) == \A u \in Active \ {t} : KeyOf(u) # k

(* A slip: a claim that waits for the prerequisite to end, in any way.     *)
DependencyEnded(t) == dep[t] \in {None} \union (Task \ Active)

(* The claim's join: no prerequisite, or one that succeeded.               *)
DependencySucceeded(t) == dep[t] \in {None} \union With("succeeded")

(* A slip: a cascade of one level.                                         *)
DirectDependents(t) == {u \in With("queued") : dep[u] = t}

(* The queued rows the recursive cascade from t visits: the smallest set   *)
(* holding the queued dependents of t and of its own members.              *)
QueuedClosed(S, t) ==
  \A v \in With("queued") : dep[v] \in S \union {t} => v \in S
QueuedDependents(t) ==
  {u \in With("queued") :
     \A S \in SUBSET With("queued") : QueuedClosed(S, t) => u \in S}

(* A slip: only the row itself ends.                                       *)
EndAlone(t, s) == status' = [status EXCEPT ![t] = s]

(* The row t ends with status s, and the cascade with it.                  *)
EndWithDependents(t, s) ==
  status' = [u \in Task |-> IF u \in {t} \union QueuedDependents(t)
                              THEN s ELSE status[u]]

-----------------------------------------------------------------------------
Init ==
  /\ status = [t \in Task |-> "absent"]
  /\ owner = [t \in Task |-> None]
  /\ tomb = [t \in Task |-> Live]
  /\ unit = [t \in Task |-> None]
  /\ dep = [t \in Task |-> None]
  /\ code = [t \in Task |-> "none"]
  /\ checkpoint = [t \in Task |-> FALSE]
  /\ job = [t \in Task |-> FALSE]

(* enqueue: the insert succeeds only when the index admits it; otherwise   *)
(* the call returns the active row and changes nothing.  The caller's      *)
(* prerequisite is a row it enqueued for the same project a moment ago, in *)
(* whatever status that row has by now.  Render tasks are never chained.   *)
Enqueue(t, p, x, d) ==
  /\ status[t] = "absent"
  /\ d # None => /\ status[d] # "absent" /\ owner[d] = p
                 /\ {x, unit[d]} \intersect RenderUnit = {}
  /\ IndexAdmits(t, <<p, Live, x>>)
  /\ status' = [status EXCEPT ![t] = "queued"]
  /\ owner' = [owner EXCEPT ![t] = p]
  /\ unit' = [unit EXCEPT ![t] = x]
  /\ dep' = [dep EXCEPT ![t] = d]
  /\ UNCHANGED <<tomb, code, checkpoint, job>>

(* claim_next: the caller's lane, excluded ids and full providers make any *)
(* claimable row the oldest one it may take.                               *)
ClaimNext(t) ==
  /\ status[t] = "queued"
  /\ DependencySucceeded(t)
  /\ status' = [status EXCEPT ![t] = "running"]
  /\ UNCHANGED <<key, dep, code, checkpoint, job>>

MarkSucceeded(t) ==
  /\ status[t] = "running"
  /\ status' = [status EXCEPT ![t] = "succeeded"]
  /\ UNCHANGED <<key, dep, code, checkpoint, job>>

(* mark_failed with the failure kind c; the cascaded rows get a code of    *)
(* their own, which names the row that blocks them.                        *)
MarkFailed(t, c) ==
  /\ status[t] = "running"
  /\ EndWithDependents(t, "failed")
  /\ code' = [u \in Task |-> IF u = t THEN c
                             ELSE IF u \in QueuedDependents(t) THEN "other"
                             ELSE code[u]]
  /\ UNCHANGED <<key, dep, checkpoint, job>>

(* The worker's _requeue_single_task puts one running row back; the manual *)
(* requeue_running puts back a limited batch of the oldest ones.           *)
Requeue(T) ==
  /\ T # {}
  /\ \A t \in T : status[t] = "running"
  /\ status' = [t \in Task |-> IF t \in T THEN "queued" ELSE status[t]]
  /\ UNCHANGED <<key, dep, code, checkpoint, job>>

(* cancel_task: only a queued row, and its queued dependents with it.      *)
CancelTask(t) ==
  /\ status[t] = "queued"
  /\ EndWithDependents(t, "cancelled")
  /\ UNCHANGED <<key, dep, code, checkpoint, job>>

(* finalize_interrupted: the executor of t was torn down.                  *)
FinalizeInterrupted(t) ==
  /\ status[t] \in ActiveStatus
  /\ EndWithDependents(t, "cancelled")
  /\ UNCHANGED <<key, dep, code, checkpoint, job>>

(* A slip: the bulk cancellation leaves the rows that wait on others.      *)
BulkCancellableHeads(p) ==
  {t \in With("queued") : /\ owner[t] = p /\ tomb[t] = Live
                          /\ unit[t] \notin RenderUnit /\ dep[t] = None}

(* cancel_all_queued of project p, without its render tasks.               *)
BulkCancellable(p) ==
  {t \in With("queued") : owner[t] = p /\ tomb[t] = Live /\ unit[t] \notin RenderUnit}
CancelAllQueued(p) ==
  /\ BulkCancellable(p) # {}
  /\ status' = [t \in Task |-> IF t \in BulkCancellable(p)
                                 THEN "cancelled" ELSE status[t]]
  /\ UNCHANGED <<key, dep, code, checkpoint, job>>

(* retire_project_records at second s: the queued rows of the live project *)
(* are cancelled and all its rows move to the tombstone name.  The index   *)
(* refuses a running row whose tombstone name and unit are already active. *)
OfLive(p) == {t \in Task : owner[t] = p /\ tomb[t] = Live}
Retire(p, s) ==
  /\ \A t \in OfLive(p) \intersect With("running") : IndexAdmits(t, <<p, s, unit[t]>>)
  /\ status' = [t \in Task |-> IF t \in OfLive(p) /\ status[t] = "queued"
                                 THEN "cancelled" ELSE status[t]]
  /\ tomb' = [t \in Task |-> IF t \in OfLive(p) THEN s ELSE tomb[t]]
  /\ UNCHANGED <<owner, unit, dep, code, checkpoint, job>>

(* persist_execution_checkpoint: once, before the submit, or refused.      *)
PersistCheckpoint(t) ==
  /\ status[t] = "running"
  /\ unit[t] \in VideoUnit
  /\ ~checkpoint[t]
  /\ ~job[t]
  /\ checkpoint' = [checkpoint EXCEPT ![t] = TRUE]
  /\ UNCHANGED <<status, key, dep, code, job>>

(* persist_provider_job_id, which guards on nothing but the row's id.      *)
PersistJob(t) ==
  /\ status[t] # "absent"
  /\ job' = [job EXCEPT ![t] = TRUE]
  /\ UNCHANGED <<status, key, dep, code, checkpoint>>

(* A slip: the retry keeps the error of the row.                           *)
ReopenKeepingCode(t) ==
  /\ status[t] = "failed" /\ code[t] = "download" /\ job[t]
  /\ IndexAdmits(t, KeyOf(t))
  /\ status' = [status EXCEPT ![t] = "running"]
  /\ UNCHANGED <<key, dep, code, checkpoint, job>>

(* retry_artifact_download: a failed download goes straight back to        *)
(* running, unless the index holds another active row for its key.         *)
ReopenDownload(t) ==
  /\ status[t] = "failed"
  /\ code[t] = "download"
  /\ job[t]
  /\ IndexAdmits(t, KeyOf(t))
  /\ status' = [status EXCEPT ![t] = "running"]
  /\ code' = [code EXCEPT ![t] = "none"]
  /\ UNCHANGED <<key, dep, checkpoint, job>>

-----------------------------------------------------------------------------
Next ==
  \/ \E t \in Task, p \in Project, x \in Unit, d \in Task \union {None} :
       Enqueue(t, p, x, d)
  \/ \E t \in Task : ClaimNext(t)
  \/ \E t \in Task : MarkSucceeded(t)
  \/ \E t \in Task, c \in Code \ {"none"} : MarkFailed(t, c)
  \/ \E T \in SUBSET Task : Requeue(T)
  \/ \E t \in Task : CancelTask(t)
  \/ \E t \in Task : FinalizeInterrupted(t)
  \/ \E p \in Project : CancelAllQueued(p)
  \/ \E p \in Project, s \in Second : Retire(p, s)
  \/ \E t \in Task : PersistCheckpoint(t)
  \/ \E t \in Task : PersistJob(t)
  \/ \E t \in Task : ReopenDownload(t)

Spec == Init /\ [][Next]_vars

(* The worker loop keeps claiming the oldest admissible row, and every     *)
(* execution ends: its provider calls and its polling have time limits.    *)
End(t) == MarkSucceeded(t) \/ \E c \in Code \ {"none"} : MarkFailed(t, c)
Fairness == \A t \in Task : SF_vars(ClaimNext(t)) /\ SF_vars(End(t))
FairSpec == Spec /\ Fairness

-----------------------------------------------------------------------------
(* Type invariant: what each column may hold; a row that does not exist    *)
(* has no facts, and only a failed row carries a failure code.             *)
TypeOK ==
  /\ status \in [Task -> Status]
  /\ owner \in [Task -> Project \union {None}]
  /\ tomb \in [Task -> Second \union {Live}]
  /\ unit \in [Task -> Unit \union {None}]
  /\ dep \in [Task -> Task \union {None}]
  /\ code \in [Task -> Code]
  /\ checkpoint \in [Task -> BOOLEAN]
  /\ job \in [Task -> BOOLEAN]
  /\ \A t \in Task : status[t] # "absent" => owner[t] \in Project /\ unit[t] \in Unit
  /\ \A t \in Task : status[t] = "absent" => KeyOf(t) = <<None, Live, None>>
  /\ \A t \in Task : code[t] # "none" <=> status[t] = "failed"

(* At most one active row per dedupe key, also after a requeue, a download *)
(* retry, or two deletions of one project name within one second.          *)
ActiveDedupe ==
  \A t, u \in Active : KeyOf(t) = KeyOf(u) => t = u

(* A row is executed only after its prerequisite succeeded, whichever way  *)
(* it came to be running: a claim, or the retry of a failed download.      *)
RunningDependencySucceeded ==
  \A t \in With("running") : dep[t] # None => status[dep[t]] = "succeeded"

(* Only rows that ran can have a failed download, so a retry needs no      *)
(* second look at the prerequisite.                                        *)
RetryableDependencySucceeded ==
  \A t \in With("failed") :
    code[t] = "download" /\ dep[t] # None => status[dep[t]] = "succeeded"

(* A prerequisite still under the live name keeps its dependents there,    *)
(* and render rows have neither prerequisite nor dependents.               *)
DependencyShape ==
  \A t \in Task : dep[t] # None =>
    /\ status[t] # "absent"
    /\ status[dep[t]] # "absent"
    /\ {unit[t], unit[dep[t]]} \intersect RenderUnit = {}
    /\ owner[t] = owner[dep[t]]
    /\ tomb[dep[t]] = Live => tomb[t] = Live

(* No queued row is left waiting on a prerequisite that dies in this step: *)
(* whatever ends the prerequisite (failure, cancellation, interruption,    *)
(* bulk cancel, deletion of the project) ends the waiter too.              *)
NeverStrandsAWaiter ==
  [][\A t \in Task, u \in Task :
       /\ dep[u] = t /\ status[u] = "queued"
       /\ status[t] \in ActiveStatus /\ status'[t] \in Dead
       => status'[u] \in Dead]_vars

(* The task table implements the life cycle.                               *)
PhaseOf ==
  [absent |-> "absent", queued |-> "waiting", running |-> "executing",
   succeeded |-> "done", failed |-> "dead", cancelled |-> "dead"]
Phase == [t \in Task |-> PhaseOf[status[t]]]
Lifecycle == INSTANCE TaskLifecycle WITH phase <- Phase
ImplementsLifecycle == Lifecycle!Spec

(* A queued row is stuck for good when the chain of queued prerequisites   *)
(* it waits on starts with a row whose own prerequisite is already dead.   *)
Doomed(t) ==
  \E u \in With("queued") :
    /\ dep[u] # None /\ status[dep[u]] \in Dead
    /\ t \in {u} \union QueuedDependents(u)

(* Every queued row that is not doomed ends.                               *)
SoundQueuedEnds ==
  \A t \in Task :
    (status[t] = "queued" /\ ~Doomed(t)) ~> status[t] \notin ActiveStatus

(* lib/generation/generation_queue_client.py:590: a queued task is a fully *)
(* admitted, billable unit and runs to completion.                         *)
QueuedRunsToCompletion ==
  \A t \in Task : status[t] = "queued" ~> status[t] \notin ActiveStatus
=============================================================================
