-------------------------- MODULE GenerationWorker --------------------------
(***************************************************************************)
(* The generation worker over the task table and the call ledger:          *)
(* lib/generation/generation_worker.py, restart_recovery.py,               *)
(* video_resume.py and the submit path of media_generator.py.              *)
(*                                                                         *)
(* One process holds the worker loop, the executions it dispatched and the *)
(* web routes.  An execution is a coroutine; it is interleaved with the    *)
(* others, with the loop and with the routes at every await that matters,  *)
(* and it dies with the process.  The rows of TaskQueue and CallLedger     *)
(* survive.  A step here is one database transaction or one provider call. *)
(***************************************************************************)
EXTENDS Naturals, FiniteSets

CONSTANTS
  Task, Project, Second, Unit, RenderUnit, VideoUnit, Live, None,
  Resumable,    \* the video units whose provider implements resume_video
  Co,           \* the coroutines executions run in: bounds how many overlap
  Capacity,     \* executions a lane of the slot table has room for
  MayStop       \* whether the process may crash or be shut down

\* What TaskQueue assumes of its constants, and None is no coroutine.
ASSUME RowsAssumption ==
  /\ RenderUnit \subseteq Unit /\ VideoUnit \subseteq Unit
  /\ RenderUnit \intersect VideoUnit = {}
  /\ Live \notin Second
  /\ None \notin Task /\ None \notin Project /\ None \notin Unit
ASSUME CoAssumption == None \notin Co
ASSUME ResumableAssumption == Resumable \subseteq VideoUnit
ASSUME CapacityAssumption == Capacity \in Nat
ASSUME MayStopAssumption == MayStop \in BOOLEAN

VARIABLES
  status, owner, tomb, unit, dep, code, checkpoint, job,   \* TaskQueue
  call,         \* CallLedger
  submitted,    \* how many executions of the task reached an accepted submission
  mode,         \* where the worker loop is, "down" when there is no process
  stop,         \* the stop event
  routing,      \* the row the loop has claimed and not yet dispatched
  orphans,      \* the rows the startup scan has listed and not yet handled
  ready,        \* the rows the scan handed to its background dispatcher
  retrying,     \* the rows a download retry handed to a dispatcher
  run,          \* what each coroutine executes and where it is
  slot          \* the slot table: the coroutine registered for a task id

Queue == INSTANCE TaskQueue
Ledger == INSTANCE CallLedger

rows == <<status, owner, tomb, unit, dep, code, checkpoint, job>>
loop == <<mode, stop, routing, orphans>>
handed == <<ready, retrying>>
execution == <<run, slot>>
vars == <<rows, call, submitted, loop, handed, execution>>

-----------------------------------------------------------------------------
(* Executions.                                                             *)

(* Where an execution can be, in the order it gets there: the first run of *)
(* a claimed row, and the resumption of a submitted video.                 *)
FirstRun == {"prepare", "opened", "checkpointed", "accepted", "polling",
             "won", "lost", "commit", "finish", "failing", "cut", "done"}
Resumption == {"pending", "lookup", "repolling", "rewon", "recommit", "refinish",
               "refailing", "settling", "recut", "resettle", "leaving", "nocapacity"}

(* The places where a cancellation of the coroutine takes effect.  The     *)
(* database writes of the other places are shielded and run to their end.  *)
Interruptible == {"prepare", "opened", "checkpointed", "accepted", "polling", "commit",
                  "pending", "lookup", "repolling", "rewon", "recommit"}

Execution == [task : Task \union {None}, pc : FirstRun \union Resumption \union {"idle"},
              code : Queue!Code, seen : BOOLEAN]
Idle == [task |-> None, pc |-> "idle", code |-> "none", seen |-> FALSE]
Entering(t, pc) == [task |-> t, pc |-> pc, code |-> "none", seen |-> FALSE]

At(c, pc) == run[c].pc = pc /\ (pc \in Interruptible => mode # "teardown")
Goto(c, pc) == run' = [run EXCEPT ![c].pc = pc]
FailWith(c, pc, k) == run' = [run EXCEPT ![c].pc = pc, ![c].code = k]

IsVideo(t) == unit[t] \in VideoUnit

(* The guarded writes of an end state change nothing once the row has left *)
(* running: the caller only logs it.                                       *)
Fail(t, k) ==
  \/ Queue!MarkFailed(t, k)
  \/ status[t] # "running" /\ UNCHANGED rows
Succeed(t) ==
  \/ Queue!MarkSucceeded(t)
  \/ status[t] # "running" /\ UNCHANGED rows
Interrupted(t) ==
  \/ Queue!FinalizeInterrupted(t)
  \/ status[t] \notin Queue!ActiveStatus /\ UNCHANGED rows

(* The slot table is keyed by task id: registering overwrites, releasing   *)
(* forgets whichever coroutine is registered.                              *)
Register(t, c) == slot' = [slot EXCEPT ![t] = c]
Release(t) == slot' = [slot EXCEPT ![t] = None]
HasRoom(t) ==
  Cardinality({u \in Task : slot[u] # None /\ IsVideo(u) = IsVideo(t)}) < Capacity

-----------------------------------------------------------------------------
Init ==
  /\ Queue!Init
  /\ Ledger!Init
  /\ submitted = [t \in Task |-> 0]
  /\ mode = "list"
  /\ stop = FALSE
  /\ routing = None
  /\ orphans = {}
  /\ ready = {} /\ retrying = {}
  /\ run = [c \in Co |-> Idle]
  /\ slot = [t \in Task |-> None]

(* The web routes, served while the process is up and not shutting down.   *)
Serving == mode \in {"list", "filter", "recover", "sweep", "serve"} /\ ~stop

Enqueue(t, p, x, d) ==
  /\ Serving
  /\ Queue!Enqueue(t, p, x, d)
  /\ UNCHANGED <<call, submitted, loop, handed, execution>>

Cancel(t) ==
  /\ Serving
  /\ Queue!CancelTask(t)
  /\ UNCHANGED <<call, submitted, loop, handed, execution>>

(* A slip the runs catch: the reopened row is handed to nobody.            *)
ReopenOnly(t) ==
  /\ Serving
  /\ Queue!ReopenDownload(t)
  /\ Ledger!ReopenCall(t)
  /\ UNCHANGED <<submitted, loop, handed, execution>>

(* POST /tasks/{id}/retry-download: the row and its call are reopened in   *)
(* one transaction, then the row is handed to a dispatcher of its own.     *)
RetryDownload(t) ==
  /\ Serving
  /\ Queue!ReopenDownload(t)
  /\ Ledger!ReopenCall(t)
  /\ retrying' = retrying \union {t}
  /\ UNCHANGED <<submitted, loop, ready, execution>>

-----------------------------------------------------------------------------
(* Startup: the one-time scan of running rows, then the settling of calls. *)

(* list_orphan_tasks_on_start.                                             *)
ListOrphans ==
  /\ mode = "list"
  /\ orphans' = {t \in Task : status[t] = "running"}
  /\ mode' = "filter"
  /\ UNCHANGED <<rows, call, submitted, stop, routing, handed, execution>>

(* Rows with a registered execution of this process are left alone.        *)
SkipSelfActive ==
  /\ mode = "filter"
  /\ orphans' = {t \in orphans : slot[t] = None}
  /\ mode' = "recover"
  /\ UNCHANGED <<rows, call, submitted, stop, routing, handed, execution>>

(* An orphan is handed to the resumption only when its submission is on    *)
(* record and its provider can resume it; it is never submitted again.     *)
CanResume(t) == unit[t] \in Resumable /\ checkpoint[t] /\ job[t]

(* Two slips: an orphan is queued again, or is forgotten.                  *)
RequeueOrphan(t) ==
  /\ mode = "recover" /\ t \in orphans /\ ~CanResume(t)
  /\ Queue!Requeue({t})
  /\ orphans' = orphans \ {t}
  /\ UNCHANGED <<call, submitted, mode, stop, routing, handed, execution>>
ForgetOrphan(t) ==
  /\ mode = "recover" /\ t \in orphans /\ ~CanResume(t)
  /\ orphans' = orphans \ {t}
  /\ UNCHANGED <<rows, call, submitted, mode, stop, routing, handed, execution>>

(* mark_task_failed on a row whose submission cannot be resumed.           *)
FailOrphan(t) ==
  /\ mode = "recover"
  /\ t \in orphans
  /\ ~CanResume(t)
  /\ Fail(t, "other")
  /\ orphans' = orphans \ {t}
  /\ UNCHANGED <<call, submitted, mode, stop, routing, handed, execution>>

HandOrphan(t) ==
  /\ mode = "recover"
  /\ t \in orphans
  /\ CanResume(t)
  /\ ready' = ready \union {t}
  /\ orphans' = orphans \ {t}
  /\ UNCHANGED <<rows, call, submitted, mode, stop, routing, retrying, execution>>

ScanDone ==
  /\ mode = "recover"
  /\ orphans = {}
  /\ mode' = "sweep"
  /\ UNCHANGED <<rows, call, submitted, stop, routing, orphans, handed, execution>>

(* settle_interrupted_calls, after the orphans have their end states.      *)
SettleCalls ==
  /\ mode = "sweep"
  /\ Ledger!SettleInterrupted(Queue!Active, Queue!With("cancelled"))
  /\ mode' = "serve"
  /\ UNCHANGED <<rows, submitted, stop, routing, orphans, handed, execution>>

-----------------------------------------------------------------------------
(* The claim loop.  Its inner loop does not look at the stop event.        *)

Claim(t) ==
  /\ mode = "serve"
  /\ routing = None
  /\ Queue!ClaimNext(t)
  /\ routing' = t
  /\ UNCHANGED <<call, submitted, mode, stop, orphans, handed, execution>>

(* The provider, projected anew, does not support the lane.                *)
RejectUnsupported(t) ==
  /\ routing = t
  /\ Fail(t, "other")
  /\ routing' = None
  /\ UNCHANGED <<call, submitted, mode, stop, orphans, handed, execution>>

(* The provider's pool is full: the stored provider was stale or absent.   *)
PutBackFull(t) ==
  /\ routing = t
  /\ ~HasRoom(t)
  /\ Queue!Requeue({t})
  /\ routing' = None
  /\ UNCHANGED <<call, submitted, mode, stop, orphans, handed, execution>>

Dispatch(t, c) ==
  /\ routing = t
  /\ HasRoom(t)
  /\ run[c] = Idle
  /\ run' = [run EXCEPT ![c] = Entering(t, "prepare")]
  /\ Register(t, c)
  /\ routing' = None
  /\ UNCHANGED <<rows, call, submitted, mode, stop, orphans, handed>>

(* _drain_finished_tasks removes the first runs that have ended.           *)
Drain(c) ==
  /\ mode = "serve"
  /\ routing = None
  /\ run[c].pc = "done"
  /\ run' = [run EXCEPT ![c] = Idle]
  /\ IF slot[run[c].task] = c THEN Release(run[c].task) ELSE UNCHANGED slot
  /\ UNCHANGED <<rows, call, submitted, loop, handed>>

-----------------------------------------------------------------------------
(* The first run of a claimed row: _run_claimed_task around the executor.  *)

(* DispatchProviderChanged: nothing was submitted, the row goes back.      *)
Drift(c) ==
  /\ At(c, "prepare")
  /\ IsVideo(run[c].task)
  /\ Queue!Requeue({run[c].task})
  /\ Goto(c, "done")
  /\ UNCHANGED <<call, submitted, loop, handed, slot>>

PrepareFails(c) ==
  /\ At(c, "prepare")
  /\ FailWith(c, "failing", "other")
  /\ UNCHANGED <<rows, call, submitted, loop, handed, slot>>

(* Entering the ledger's bracket.                                          *)
OpenCall(c) ==
  /\ At(c, "prepare")
  /\ Ledger!StartCall(run[c].task)
  /\ Goto(c, "opened")
  /\ UNCHANGED <<rows, submitted, loop, handed, slot>>

(* The checkpoint of a video is written once, right before the submit.     *)
WriteCheckpoint(c) ==
  /\ At(c, "opened")
  /\ Queue!PersistCheckpoint(run[c].task)
  /\ Goto(c, "checkpointed")
  /\ UNCHANGED <<call, submitted, loop, handed, slot>>

(* The provider accepts the job of a video, or answers an image, audio or  *)
(* text request.                                                           *)
Submit(c) ==
  /\ \/ At(c, "checkpointed") /\ Goto(c, "accepted")
     \/ At(c, "opened") /\ ~IsVideo(run[c].task) /\ Goto(c, "polling")
  /\ submitted' = [submitted EXCEPT ![run[c].task] = @ + 1]
  /\ UNCHANGED <<rows, call, loop, handed, slot>>

(* The job id is recorded before the first poll.                           *)
RecordJob(c) ==
  /\ At(c, "accepted")
  /\ Queue!PersistJob(run[c].task)
  /\ Goto(c, "polling")
  /\ UNCHANGED <<call, submitted, loop, handed, slot>>

(* A slip: the failure is not encoded.                                     *)
CallFailsUncoded(c) ==
  /\ \E pc \in {"opened", "checkpointed", "accepted", "polling"} : At(c, pc)
  /\ Goto(c, "lost")
  /\ UNCHANGED <<rows, call, submitted, loop, handed, slot>>

(* Anything inside the bracket may raise; only a polled video can fail at  *)
(* the download of a finished artifact.                                    *)
CallFails(c) ==
  /\ \E pc \in {"opened", "checkpointed", "accepted", "polling"} :
       /\ At(c, pc)
       /\ \E k \in {"other"} \union (IF pc = "polling" /\ IsVideo(run[c].task)
                                      THEN {"download"} ELSE {}) :
            FailWith(c, "lost", k)
  /\ UNCHANGED <<rows, call, submitted, loop, handed, slot>>

CallSucceeds(c) ==
  /\ At(c, "polling")
  /\ Goto(c, "won")
  /\ UNCHANGED <<rows, call, submitted, loop, handed, slot>>

(* Leaving the bracket.                                                    *)
CloseCall(c) ==
  /\ \/ At(c, "won") /\ Ledger!FinishCall(run[c].task, "success") /\ Goto(c, "commit")
     \/ At(c, "lost") /\ Ledger!FinishCall(run[c].task, "failed") /\ Goto(c, "failing")
  /\ UNCHANGED <<rows, submitted, loop, handed, slot>>

(* The version commit follows the bracket and may fail by itself.          *)
Commit(c) ==
  /\ At(c, "commit")
  /\ Goto(c, "finish") \/ FailWith(c, "failing", "other")
  /\ UNCHANGED <<rows, call, submitted, loop, handed, slot>>

EndRun(c) ==
  /\ \/ At(c, "finish") /\ Succeed(run[c].task)
     \/ At(c, "failing") /\ Fail(run[c].task, run[c].code)
  /\ Goto(c, "done")
  /\ UNCHANGED <<call, submitted, loop, handed, slot>>

-----------------------------------------------------------------------------
(* The resumption of a submitted video: dispatch_provider_bucket around    *)
(* VideoResume.run, which opens no bracket of its own.                     *)

(* The dispatcher registers the coroutine as pending before it runs.       *)
Resume(t, c) ==
  /\ ~stop
  /\ run[c] = Idle
  /\ \/ t \in ready /\ ready' = ready \ {t} /\ UNCHANGED retrying
     \/ t \in retrying /\ retrying' = retrying \ {t} /\ UNCHANGED ready
  /\ run' = [run EXCEPT ![c] = Entering(t, "pending")]
  /\ Register(t, c)
  /\ UNCHANGED <<rows, call, submitted, loop>>

(* The provider has no video capacity any more.  A dispatcher that started *)
(* before the stop event no longer looks at it.                            *)
RefuseResume(t, c) ==
  /\ mode # "teardown"
  /\ run[c] = Idle
  /\ \/ t \in ready /\ ready' = ready \ {t} /\ UNCHANGED retrying
     \/ t \in retrying /\ retrying' = retrying \ {t} /\ UNCHANGED ready
  /\ Fail(t, "other")
  /\ run' = [run EXCEPT ![c] = Entering(t, "nocapacity")]
  /\ UNCHANGED <<call, submitted, loop, slot>>

(* A dispatcher that starts after the stop event hands nothing out, and a  *)
(* pending coroutine returns: the rows stay running for the next start.    *)
DropHanded(t) ==
  /\ stop
  /\ t \in ready \union retrying
  /\ ready' = ready \ {t} /\ retrying' = retrying \ {t}
  /\ UNCHANGED <<rows, call, submitted, loop, execution>>

Promote(c) ==
  /\ At(c, "pending")
  /\ Goto(c, IF stop THEN "leaving" ELSE "lookup")
  /\ UNCHANGED <<rows, call, submitted, loop, handed, slot>>

(* The call to settle is looked up before the poll.                        *)
LookUpCall(c) ==
  /\ At(c, "lookup")
  /\ run' = [run EXCEPT ![c].pc = "repolling",
                        ![c].seen = call[run[c].task] = "pending"]
  /\ UNCHANGED <<rows, call, submitted, loop, handed, slot>>

Repoll(c) ==
  /\ At(c, "repolling")
  /\ \/ Goto(c, "rewon")
     \/ \E k \in {"download", "other"} : FailWith(c, "refailing", k)
  /\ UNCHANGED <<rows, call, submitted, loop, handed, slot>>

(* The provider no longer knows the job: the call is settled at once.      *)
RepollExpired(c) ==
  /\ At(c, "repolling")
  /\ run[c].seen
  /\ Ledger!FinalizePending(run[c].task, "failed")
  /\ FailWith(c, "refailing", "other")
  /\ UNCHANGED <<rows, submitted, loop, handed, slot>>

SettleSuccess(c) ==
  /\ At(c, "rewon")
  /\ IF run[c].seen THEN Ledger!FinalizePending(run[c].task, "success") ELSE UNCHANGED call
  /\ Goto(c, "recommit")
  /\ UNCHANGED <<rows, submitted, loop, handed, slot>>

Recommit(c) ==
  /\ At(c, "recommit")
  /\ Goto(c, "refinish") \/ FailWith(c, "refailing", "other")
  /\ UNCHANGED <<rows, call, submitted, loop, handed, slot>>

EndResumption(c) ==
  /\ \/ At(c, "refinish") /\ Succeed(run[c].task) /\ Goto(c, "leaving")
     \/ At(c, "refailing") /\ Fail(run[c].task, run[c].code) /\ Goto(c, "settling")
  /\ UNCHANGED <<call, submitted, loop, handed, slot>>

(* settle_unresumable_call follows the end state in a transaction of its   *)
(* own.                                                                    *)
SettleUnresumable(c) ==
  /\ \/ At(c, "settling") /\ Ledger!FinalizePending(run[c].task, "failed") /\ Goto(c, "leaving")
     \/ /\ At(c, "nocapacity")
        /\ Ledger!FinalizePending(run[c].task, "failed")
        /\ run' = [run EXCEPT ![c] = Idle]
     \/ At(c, "resettle") /\ Ledger!FinalizePending(run[c].task, "cancelled") /\ Goto(c, "leaving")
  /\ UNCHANGED <<rows, submitted, loop, handed, slot>>

Leave(c) ==
  /\ At(c, "leaving")
  /\ Release(run[c].task)
  /\ run' = [run EXCEPT ![c] = Idle]
  /\ UNCHANGED <<rows, call, submitted, loop, handed>>

-----------------------------------------------------------------------------
(* Shutdown and crash.                                                     *)

(* The coroutine is cancelled: its bracket closes as cancelled, then its   *)
(* row is finalized as interrupted.                                        *)
Interrupt(c) ==
  /\ mode = "teardown"
  /\ run[c].pc \in Interruptible
  /\ IF run[c].pc \in {"opened", "checkpointed", "accepted", "polling"}
       THEN Ledger!FinishCall(run[c].task, "cancelled") ELSE UNCHANGED call
  /\ Goto(c, IF run[c].pc \in FirstRun THEN "cut" ELSE "recut")
  /\ UNCHANGED <<rows, submitted, loop, handed, slot>>

EndInterrupted(c) ==
  /\ run[c].pc \in {"cut", "recut"}
  /\ Interrupted(run[c].task)
  /\ Goto(c, IF run[c].pc = "cut" THEN "done" ELSE "resettle")
  /\ UNCHANGED <<call, submitted, loop, handed, slot>>

(* Whatever lives in memory is gone.                                       *)
LoseProcess ==
  /\ mode' = "down"
  /\ stop' = FALSE
  /\ routing' = None
  /\ orphans' = {}
  /\ ready' = {} /\ retrying' = {}
  /\ run' = [c \in Co |-> Idle]
  /\ slot' = [t \in Task |-> None]
  /\ UNCHANGED <<rows, call, submitted>>

Crash ==
  /\ mode # "down"
  /\ MayStop
  /\ LoseProcess

Stop ==
  /\ mode = "serve" /\ ~stop
  /\ MayStop
  /\ stop' = TRUE
  /\ UNCHANGED <<rows, call, submitted, mode, routing, orphans, handed, execution>>

LeaveLoop ==
  /\ mode = "serve" /\ stop
  /\ routing = None
  /\ mode' = "drain"
  /\ UNCHANGED <<rows, call, submitted, stop, routing, orphans, handed, execution>>

(* stop() waits for the registered executions without a limit.  Teardown   *)
(* before they have ended is a forced exit: what still runs is cancelled   *)
(* with the event loop.                                                    *)
BeginTeardown ==
  /\ mode = "drain"
  /\ mode' = "teardown"
  /\ UNCHANGED <<rows, call, submitted, stop, routing, orphans, handed, execution>>

(* The settlement of a refused resumption is not shielded and may be lost. *)
EndProcess ==
  /\ mode = "teardown"
  /\ \A c \in Co : run[c].pc \in {"idle", "done", "nocapacity"}
  /\ LoseProcess

(* The container is restarted unless it was stopped for good.              *)
Restart ==
  /\ mode = "down"
  /\ mode' = "list"
  /\ UNCHANGED <<rows, call, submitted, stop, routing, orphans, handed, execution>>

-----------------------------------------------------------------------------
Request ==
  \/ \E t \in Task, p \in Project, x \in Unit, d \in Task \union {None} :
       Enqueue(t, p, x, d)
  \/ \E t \in Task : Cancel(t)
  \/ \E t \in Task : RetryDownload(t)

Recovery ==
  \/ ListOrphans \/ SkipSelfActive \/ ScanDone \/ SettleCalls
  \/ \E t \in Task : FailOrphan(t)
  \/ \E t \in Task : HandOrphan(t)

Route ==
  \/ \E t \in Task : RejectUnsupported(t)
  \/ \E t \in Task : PutBackFull(t)
  \/ \E t \in Task, c \in Co : Dispatch(t, c)

LeavePrepare(c) == PrepareFails(c) \/ OpenCall(c)

FirstRunStep(c) ==
  \/ Drift(c) \/ LeavePrepare(c) \/ WriteCheckpoint(c) \/ Submit(c)
  \/ RecordJob(c) \/ CallFails(c) \/ CallSucceeds(c) \/ CloseCall(c)
  \/ Commit(c) \/ EndRun(c)

ResumptionStep(c) ==
  \/ Promote(c) \/ LookUpCall(c) \/ Repoll(c) \/ RepollExpired(c)
  \/ SettleSuccess(c) \/ Recommit(c) \/ EndResumption(c)
  \/ SettleUnresumable(c) \/ Leave(c)

Take(t) ==
  \/ \E c \in Co : Resume(t, c)
  \/ \E c \in Co : RefuseResume(t, c)
  \/ DropHanded(t)

Shutdown == LeaveLoop \/ BeginTeardown \/ EndProcess

InterruptStep(c) == Interrupt(c) \/ EndInterrupted(c)

Next ==
  \/ Request
  \/ Recovery
  \/ \E t \in Task : Claim(t)
  \/ Route
  \/ \E c \in Co : Drain(c)
  \/ \E c \in Co : FirstRunStep(c)
  \/ \E t \in Task : Take(t)
  \/ \E c \in Co : ResumptionStep(c)
  \/ \E c \in Co : InterruptStep(c)
  \/ Stop \/ Shutdown \/ Crash \/ Restart

Spec == Init /\ [][Next]_vars

(* Every step of the process is taken as long as the process is up, and    *)
(* the container comes back (restart: unless-stopped).  Polling ends: it   *)
(* has a deadline.  The claim loop serves the rows in order and a queued   *)
(* row is not kept drifting between providers for ever.  The process is    *)
(* crashed and shut down any number of times, but not for ever.            *)
LoopStep == Recovery \/ Route \/ Shutdown \/ Restart
RunStep(c) == FirstRunStep(c) \/ ResumptionStep(c) \/ InterruptStep(c)
Fairness ==
  /\ WF_vars(LoopStep)
  /\ \A t \in Task : SF_vars(Claim(t)) /\ SF_vars(Take(t))
  /\ \A c \in Co : WF_vars(RunStep(c)) /\ SF_vars(Drain(c)) /\ SF_vars(LeavePrepare(c))
FairSpec == Spec /\ Fairness /\ <>[][~Crash /\ ~Stop]_vars

-----------------------------------------------------------------------------
(* Type invariant of the process; the rows are TaskQueue's.                *)
TypeOK ==
  /\ Queue!TypeOK
  /\ call \in [Task -> Ledger!CallStatus]
  /\ submitted \in [Task -> Nat]
  /\ mode \in {"down", "list", "filter", "recover", "sweep", "serve", "drain", "teardown"}
  /\ stop \in BOOLEAN
  /\ routing \in Task \union {None}
  /\ orphans \subseteq Task /\ ready \subseteq Task /\ retrying \subseteq Task
  /\ slot \in [Task -> Co \union {None}]
  /\ run \in [Co -> Execution]
  /\ \A c \in Co : run[c] = Idle \/ (run[c].task \in Task /\ run[c].pc # "idle")
  /\ \A c \in Co : run[c].pc \in {"lost", "failing", "refailing"} => run[c].code # "none"

(* ADR 0007: whatever crashes, retries and restarts happen, a task is      *)
(* submitted to its provider at most once.                                 *)
AtMostOneSubmission == \A t \in Task : submitted[t] <= 1

(* Something in the process is yet to end the row t.                       *)
Working(t) ==
  \/ routing = t
  \/ t \in ready \union retrying
  \/ \E c \in Co : /\ run[c].task = t
                   /\ run[c].pc \notin {"done", "settling", "leaving", "nocapacity", "resettle"}

(* Once the startup scan is over, a running row is always in the hands of  *)
(* something that will end it: the loop, a dispatcher or an execution.     *)
RunningHasExecutor ==
  mode = "serve" /\ ~stop => \A t \in Queue!With("running") : Working(t)

(* A call billed as a success is never taken back, by any of the writers   *)
(* that settle calls: brackets, resumptions, late settlements, the sweep   *)
(* and the retry of a download.                                            *)
BilledSuccessIsKept ==
  [][\A t \in Task : call[t] = "success" => call'[t] = "success"]_vars

(* A pending call is always settled in the end.                            *)
PendingCallsSettle ==
  \A t \in Task : call[t] = "pending" ~> call[t] # "pending"

(* Every admitted row that is not stuck behind a dead prerequisite ends.   *)
AdmittedTasksEnd ==
  \A t \in Task : (t \in Queue!Active /\ ~Queue!Doomed(t)) ~> t \notin Queue!Active

(* media_generator.py:1196: a resumption settles its call so that no video *)
(* is generated and missing from the books.                                *)
SucceededVideoIsBilled ==
  \A t \in Queue!With("succeeded") : IsVideo(t) => call[t] = "success"

(* restart_recovery.py:140: a row with an execution of this process is not *)
(* taken for an orphan, so one provider job is never polled twice at once. *)
OnePollPerJob ==
  \A c, d \in Co :
    run[c].task = run[d].task /\ run[c].pc = "repolling" /\ run[d].pc = "repolling" => c = d
=============================================================================
