----------------------- MODULE GenerationWorker_proofs -----------------------
(***************************************************************************)
(* Theorems about the worker over the task table and the ledger, for every *)
(* set of tasks and coroutines, any capacity and any number of crashes:    *)
(* it uses the table as TaskQueue allows, submits a task at most once,     *)
(* never takes a billed success back, and forgets no running row.          *)
(***************************************************************************)
EXTENDS GenerationWorker, TLAPS

Rows == INSTANCE TaskQueue_proofs

-----------------------------------------------------------------------------
(* The parts of the inductive invariant.                                   *)

(* c is on its first run of the row t, and the row's end is up to it.      *)
Executing(c, t) == run[c].task = t /\ run[c].pc \in FirstRun \ {"done"}

(* c is on a resumption of t.                                              *)
Resuming(c, t) == run[c].task = t /\ run[c].pc \in Resumption

(* Nothing was ever done for t outside the process.                        *)
Fresh(t) == call[t] = "none" /\ submitted[t] = 0 /\ ~checkpoint[t] /\ ~job[t]

(* What there is in each mode of the loop: the scan runs before the first  *)
(* claim, and a process that is down has nothing in memory.                *)
LoopInv ==
  /\ mode \in {"down", "list", "filter", "recover", "sweep"} =>
       routing = None /\ \A c \in Co : run[c].pc \notin FirstRun
  /\ mode \notin {"filter", "recover"} => orphans = {}
  /\ mode = "down" => (\A t \in Task : slot[t] = None) /\ ready = {} /\ retrying = {}
  /\ stop => mode \in {"serve", "drain", "teardown"}

(* Only a row with a job id on record is resumed.                          *)
HandedInv ==
  \A t \in Task : t \in ready \union retrying \/ (\E c \in Co : Resuming(c, t)) => job[t]

(* A row that may still be submitted, because it waits, was just claimed   *)
(* or is being prepared, has neither call, checkpoint nor job.             *)
WaitingInv ==
  \A t \in Task :
    \/ status[t] \in {"absent", "queued"}
    \/ routing = t
    \/ \E c \in Co : run[c].task = t /\ run[c].pc = "prepare"
    => Fresh(t)

(* The row the loop has claimed runs nowhere yet.                          *)
RoutingInv ==
  \A t \in Task : routing = t => status[t] = "running" /\ \A c \in Co : ~Executing(c, t)

(* A first run has its running row to itself.                              *)
RunInv ==
  \A c \in Co, t \in Task : Executing(c, t) =>
    /\ status[t] = "running"
    /\ t \notin ready \union retrying
    /\ \A d \in Co \ {c} : run[d].task = t => run[d].pc = "done"

(* What a first run has done so far.                                       *)
StageInv ==
  \A c \in Co, t \in Task : run[c].task = t =>
    /\ run[c].pc \in {"opened", "checkpointed", "accepted", "polling", "won", "lost"}
         => call[t] = "pending"
    /\ run[c].pc \in {"opened", "checkpointed"} => submitted[t] = 0

(* From the startup scan on, a running row is in some hands, or it is on   *)
(* the scan's list with no execution registered for it.                    *)
HandsInv ==
  mode \in {"list", "filter", "recover", "sweep", "serve"} /\ ~stop =>
    \A t \in Task : status[t] = "running" =>
      Working(t) \/ ((mode = "list" \/ t \in orphans) /\ slot[t] = None)

IInv ==
  LoopInv /\ HandedInv /\ WaitingInv /\ RoutingInv /\ RunInv /\ StageInv /\ AtMostOneSubmission /\ HandsInv

-----------------------------------------------------------------------------
(* What a step does to the coroutines.                                     *)
RunOK ==
  /\ run \in [Co -> Execution]
  /\ \A c \in Co : run[c] = Idle \/ (run[c].task \in Task /\ run[c].pc # "idle")
  /\ \A c \in Co : run[c].pc \in {"lost", "failing", "refailing"} => run[c].code # "none"

(* Coroutine c goes from p to q.                                           *)
Moved(c, p, q) ==
  /\ run[c].pc = p /\ run'[c].pc = q
  /\ run[c].task \in Task /\ run'[c].task = run[c].task
  /\ \A d \in Co \ {c} : run'[d] = run[d]

Place == FirstRun \union Resumption

LEMMA PlaceNames ==
  /\ FirstRun \subseteq Place /\ Resumption \subseteq Place /\ "idle" \notin Place
  /\ FirstRun \intersect Resumption = {}
BY DEF Place, FirstRun, Resumption

LEMMA GotoMoves ==
  ASSUME RunOK, NEW c \in Co, NEW q \in Place, run[c].pc # "idle", Goto(c, q),
         q \in {"failing", "refailing", "lost"} => run[c].code # "none"
  PROVE  RunOK' /\ Moved(c, run[c].pc, q)
<1> USE DEF RunOK, Execution, Goto, Moved, Place
<1>1. run[c].task \in Task
  BY DEF Idle
<1>2. run' = [run EXCEPT ![c] = [run[c] EXCEPT !.pc = q]]
  OBVIOUS
<1>3. [run[c] EXCEPT !.pc = q] \in Execution
  OBVIOUS
<1>4. run'[c] = [run[c] EXCEPT !.pc = q] /\ \A d \in Co \ {c} : run'[d] = run[d]
  BY <1>2
<1>5. run' \in [Co -> Execution]
  BY <1>2, <1>3
<1> HIDE DEF Execution, Goto, Place
<1>6. q # "idle"
  BY PlaceNames
<1>7. run'[c].pc = q /\ run'[c].task = run[c].task /\ run'[c].code = run[c].code
  BY <1>4 DEF Execution
<1>8. QED
  BY <1>1, <1>4, <1>5, <1>6, <1>7

LEMMA FailMoves ==
  ASSUME RunOK, NEW c \in Co, NEW q \in Place, run[c].pc # "idle",
         NEW k \in Queue!Code \ {"none"}, FailWith(c, q, k)
  PROVE  RunOK' /\ Moved(c, run[c].pc, q)
<1> USE DEF RunOK, Execution, FailWith, Moved, Place
<1>1. run[c].task \in Task
  BY DEF Idle
<1>2. run' = [run EXCEPT ![c] = [run[c] EXCEPT !.pc = q, !.code = k]]
  OBVIOUS
<1>3. [run[c] EXCEPT !.pc = q, !.code = k] \in Execution
  OBVIOUS
<1>4. run'[c] = [run[c] EXCEPT !.pc = q, !.code = k] /\ \A d \in Co \ {c} : run'[d] = run[d]
  BY <1>2
<1>5. run' \in [Co -> Execution]
  BY <1>2, <1>3
<1> HIDE DEF Execution, FailWith, Place
<1>6. q # "idle"
  BY PlaceNames
<1>7. run'[c].pc = q /\ run'[c].task = run[c].task /\ run'[c].code = k
  BY <1>4 DEF Execution
<1>8. QED
  BY <1>1, <1>4, <1>5, <1>6, <1>7

(* LookUpCall moves as Goto does, and notes what it saw.                   *)
LEMMA LookUpMoves ==
  ASSUME RunOK, NEW c \in Co, LookUpCall(c)
  PROVE  RunOK' /\ Moved(c, "lookup", "repolling")
<1> DEFINE new == [run[c] EXCEPT !.pc = "repolling", !.seen = call[run[c].task] = "pending"]
<1>1. run[c].pc = "lookup" /\ run[c].task \in Task
  BY DEF RunOK, LookUpCall, At, Idle
<1>2. run' = [run EXCEPT ![c] = new]
  BY DEF LookUpCall
<1>3. new \in Execution
  BY DEF RunOK, Execution, Resumption
<1>4. new.pc = "repolling" /\ new.task = run[c].task
  BY DEF RunOK, Execution
<1> HIDE DEF new
<1>5. QED
  BY <1>1, <1>2, <1>3, <1>4 DEF RunOK, Moved

(* An idle coroutine takes up a row.                                       *)
LEMMA TakingUp ==
  ASSUME RunOK, NEW c \in Co, NEW t \in Task, NEW q \in {"prepare", "pending", "nocapacity"},
         run' = [run EXCEPT ![c] = Entering(t, q)]
  PROVE  /\ RunOK'
         /\ run'[c].task = t /\ run'[c].pc = q
         /\ \A d \in Co \ {c} : run'[d] = run[d]
<1>1. Entering(t, q) \in Execution
  BY DEF Entering, Execution, FirstRun, Resumption, Queue!Code
<1>2. Entering(t, q).task = t /\ Entering(t, q).pc = q
  BY DEF Entering
<1>3. QED
  BY <1>1, <1>2 DEF RunOK

(* A coroutine ends.                                                       *)
LEMMA GoingIdle ==
  ASSUME RunOK, NEW c \in Co, run' = [run EXCEPT ![c] = Idle]
  PROVE  RunOK' /\ run'[c] = Idle /\ \A d \in Co \ {c} : run'[d] = run[d]
<1>1. Idle \in Execution /\ Idle.pc = "idle"
  BY DEF Idle, Execution, Queue!Code
<1>2. QED
  BY <1>1 DEF RunOK

(* Where each step of an execution takes its coroutine.                    *)
Bracket == {"opened", "checkpointed", "accepted", "polling"}

LEMMA FirstRunMoves ==
  ASSUME RunOK, NEW c \in Co
  PROVE  /\ Drift(c) => RunOK' /\ Moved(c, "prepare", "done")
         /\ PrepareFails(c) => RunOK' /\ Moved(c, "prepare", "failing")
         /\ OpenCall(c) => RunOK' /\ Moved(c, "prepare", "opened")
         /\ WriteCheckpoint(c) => RunOK' /\ Moved(c, "opened", "checkpointed")
         /\ Submit(c) => RunOK' /\ (Moved(c, "checkpointed", "accepted") \/ Moved(c, "opened", "polling"))
         /\ RecordJob(c) => RunOK' /\ Moved(c, "accepted", "polling")
         /\ CallFails(c) => RunOK' /\ \E p \in Bracket : Moved(c, p, "lost")
         /\ CallSucceeds(c) => RunOK' /\ Moved(c, "polling", "won")
         /\ CloseCall(c) => RunOK' /\ (Moved(c, "won", "commit") \/ Moved(c, "lost", "failing"))
         /\ Commit(c) => RunOK' /\ \E q \in {"finish", "failing"} : Moved(c, "commit", q)
         /\ EndRun(c) => RunOK' /\ \E p \in {"finish", "failing"} : Moved(c, p, "done")
<1>1. FirstRun \subseteq Place /\ "other" \in Queue!Code \ {"none"} /\ "download" \in Queue!Code \ {"none"}
  BY PlaceNames DEF Queue!Code
<1>2. {"done", "failing", "opened", "checkpointed", "accepted", "polling", "lost", "won", "commit", "finish"}
        \subseteq Place
  BY <1>1 DEF FirstRun
<1>3. \A q \in Place : run[c].pc # "idle" /\ Goto(c, q)
                          /\ (q \in {"failing", "refailing", "lost"} => run[c].code # "none")
                          => RunOK' /\ Moved(c, run[c].pc, q)
  BY GotoMoves
<1>4. \A q \in Place, k \in Queue!Code \ {"none"} :
        run[c].pc # "idle" /\ FailWith(c, q, k) => RunOK' /\ Moved(c, run[c].pc, q)
  BY FailMoves
<1>5. Drift(c) => RunOK' /\ Moved(c, "prepare", "done")
  BY <1>2, <1>3 DEF Drift, At
<1>6. PrepareFails(c) => RunOK' /\ Moved(c, "prepare", "failing")
  BY <1>1, <1>2, <1>4 DEF PrepareFails, At
<1>7. OpenCall(c) => RunOK' /\ Moved(c, "prepare", "opened")
  BY <1>2, <1>3 DEF OpenCall, At
<1>8. WriteCheckpoint(c) => RunOK' /\ Moved(c, "opened", "checkpointed")
  BY <1>2, <1>3 DEF WriteCheckpoint, At
<1>9. Submit(c) => RunOK' /\ (Moved(c, "checkpointed", "accepted") \/ Moved(c, "opened", "polling"))
  BY <1>2, <1>3 DEF Submit, At
<1>10. RecordJob(c) => RunOK' /\ Moved(c, "accepted", "polling")
  BY <1>2, <1>3 DEF RecordJob, At
<1>11. ASSUME CallFails(c) PROVE RunOK' /\ \E p \in Bracket : Moved(c, p, "lost")
  <2>1. run[c].pc \in Bracket
    BY <1>11 DEF CallFails, At, Bracket
  <2>2. \E k \in Queue!Code \ {"none"} : FailWith(c, "lost", k)
    BY <1>1, <1>11 DEF CallFails
  <2>3. run[c].pc # "idle"
    BY <2>1 DEF Bracket
  <2>4. RunOK' /\ Moved(c, run[c].pc, "lost")
    BY <1>2, <1>4, <2>2, <2>3
  <2>5. QED
    BY <2>1, <2>4
<1>12. CallSucceeds(c) => RunOK' /\ Moved(c, "polling", "won")
  BY <1>2, <1>3 DEF CallSucceeds, At
<1>13. CloseCall(c) => RunOK' /\ (Moved(c, "won", "commit") \/ Moved(c, "lost", "failing"))
  BY <1>2, <1>3 DEF CloseCall, At, RunOK
<1>14. Commit(c) => RunOK' /\ \E q \in {"finish", "failing"} : Moved(c, "commit", q)
  BY <1>1, <1>2, <1>3, <1>4 DEF Commit, At
<1>15. EndRun(c) => RunOK' /\ \E p \in {"finish", "failing"} : Moved(c, p, "done")
  BY <1>2, <1>3 DEF EndRun, At
<1>16. QED
  BY <1>5, <1>6, <1>7, <1>8, <1>9, <1>10, <1>11, <1>12, <1>13, <1>14, <1>15

LEMMA ResumptionMoves ==
  ASSUME RunOK, NEW c \in Co
  PROVE  /\ Promote(c) => RunOK' /\ Moved(c, "pending", IF stop THEN "leaving" ELSE "lookup")
         /\ Repoll(c) => RunOK' /\ \E q \in {"rewon", "refailing"} : Moved(c, "repolling", q)
         /\ RepollExpired(c) => RunOK' /\ Moved(c, "repolling", "refailing")
         /\ SettleSuccess(c) => RunOK' /\ Moved(c, "rewon", "recommit")
         /\ Recommit(c) => RunOK' /\ \E q \in {"refinish", "refailing"} : Moved(c, "recommit", q)
         /\ EndResumption(c) => RunOK' /\ (Moved(c, "refinish", "leaving") \/ Moved(c, "refailing", "settling"))
         /\ SettleUnresumable(c) /\ run[c].pc # "nocapacity"
              => RunOK' /\ \E p \in {"settling", "resettle"} : Moved(c, p, "leaving")
<1>1. "other" \in Queue!Code \ {"none"} /\ "download" \in Queue!Code \ {"none"}
  BY DEF Queue!Code
<1>2. {"leaving", "lookup", "rewon", "refailing", "recommit", "refinish", "settling"} \subseteq Place
  BY PlaceNames DEF Resumption
<1>3. \A q \in Place : run[c].pc # "idle" /\ Goto(c, q)
                          /\ (q \in {"failing", "refailing", "lost"} => run[c].code # "none")
                          => RunOK' /\ Moved(c, run[c].pc, q)
  BY GotoMoves
<1>4. \A q \in Place, k \in Queue!Code \ {"none"} :
        run[c].pc # "idle" /\ FailWith(c, q, k) => RunOK' /\ Moved(c, run[c].pc, q)
  BY FailMoves
<1>5. Promote(c) => RunOK' /\ Moved(c, "pending", IF stop THEN "leaving" ELSE "lookup")
  BY <1>2, <1>3 DEF Promote, At
<1>6. Repoll(c) => RunOK' /\ \E q \in {"rewon", "refailing"} : Moved(c, "repolling", q)
  BY <1>1, <1>2, <1>3, <1>4 DEF Repoll, At
<1>7. RepollExpired(c) => RunOK' /\ Moved(c, "repolling", "refailing")
  BY <1>1, <1>2, <1>4 DEF RepollExpired, At
<1>8. SettleSuccess(c) => RunOK' /\ Moved(c, "rewon", "recommit")
  BY <1>2, <1>3 DEF SettleSuccess, At
<1>9. Recommit(c) => RunOK' /\ \E q \in {"refinish", "refailing"} : Moved(c, "recommit", q)
  BY <1>1, <1>2, <1>3, <1>4 DEF Recommit, At
<1>10. EndResumption(c) => RunOK' /\ (Moved(c, "refinish", "leaving") \/ Moved(c, "refailing", "settling"))
  BY <1>2, <1>3 DEF EndResumption, At
<1>11. SettleUnresumable(c) /\ run[c].pc # "nocapacity"
         => RunOK' /\ \E p \in {"settling", "resettle"} : Moved(c, p, "leaving")
  BY <1>2, <1>3 DEF SettleUnresumable, At
<1>12. QED
  BY <1>5, <1>6, <1>7, <1>8, <1>9, <1>10, <1>11

LEMMA InterruptMoves ==
  ASSUME RunOK, NEW c \in Co
  PROVE  /\ Interrupt(c) =>
              /\ RunOK'
              /\ \E p \in Interruptible :
                   Moved(c, p, IF p \in FirstRun THEN "cut" ELSE "recut")
         /\ EndInterrupted(c) => RunOK' /\ (Moved(c, "cut", "done") \/ Moved(c, "recut", "resettle"))
<1>1. {"cut", "recut", "done", "resettle"} \subseteq Place
  BY PlaceNames DEF FirstRun, Resumption
<1>2. \A q \in Place \ {"failing", "refailing", "lost"} :
        run[c].pc # "idle" /\ Goto(c, q) => RunOK' /\ Moved(c, run[c].pc, q)
  BY GotoMoves
<1>3. "idle" \notin Interruptible
  BY DEF Interruptible
<1>4. QED
  BY <1>1, <1>2, <1>3 DEF Interrupt, EndInterrupted

-----------------------------------------------------------------------------
(* What lives in the process is well typed, whatever the rows hold.        *)
ProcessOK ==
  /\ call \in [Task -> Ledger!CallStatus]
  /\ submitted \in [Task -> Nat]
  /\ mode \in {"down", "list", "filter", "recover", "sweep", "serve", "drain", "teardown"}
  /\ stop \in BOOLEAN
  /\ routing \in Task \union {None}
  /\ orphans \subseteq Task /\ ready \subseteq Task /\ retrying \subseteq Task
  /\ slot \in [Task -> Co \union {None}]
  /\ RunOK

LEMMA TypeParts == TypeOK <=> Queue!TypeOK /\ ProcessOK
BY DEF TypeOK, ProcessOK, RunOK

LEMMA InitProcess == Init => ProcessOK
<1>1. Idle \in Execution /\ Idle.pc = "idle"
  BY DEF Idle, Execution, Queue!Code
<1>2. Init => RunOK
  BY <1>1 DEF Init, RunOK
<1>3. Init => submitted \in [Task -> Nat] /\ slot \in [Task -> Co \union {None}]
  BY DEF Init
<1>4. QED
  BY <1>2, <1>3 DEF Init, ProcessOK, Ledger!Init, Ledger!CallStatus

(* Every step keeps what lives in the process well typed.                  *)
LEMMA NextProcess == ProcessOK /\ [Next]_vars => ProcessOK'
<1> SUFFICES ASSUME ProcessOK, [Next]_vars PROVE ProcessOK'
  OBVIOUS
<1> USE DEF ProcessOK, loop, handed, execution, Ledger!CallStatus
<1>1. ASSUME NEW t \in Task, NEW p \in Project, NEW x \in Unit, NEW d \in Task \union {None},
             Enqueue(t, p, x, d)
      PROVE  ProcessOK'
  BY <1>1 DEF Enqueue, RunOK
<1>2. ASSUME NEW t \in Task, Cancel(t) PROVE ProcessOK'
  BY <1>2 DEF Cancel, RunOK
<1>3. ASSUME NEW t \in Task, RetryDownload(t) PROVE ProcessOK'
  BY <1>3 DEF RetryDownload, Ledger!ReopenCall, RunOK
<1>4. ASSUME ListOrphans PROVE ProcessOK'
  BY <1>4 DEF ListOrphans, RunOK
<1>5. ASSUME SkipSelfActive PROVE ProcessOK'
  BY <1>5 DEF SkipSelfActive, RunOK
<1>6. ASSUME ScanDone PROVE ProcessOK'
  BY <1>6 DEF ScanDone, RunOK
<1>7. ASSUME SettleCalls PROVE ProcessOK'
  BY <1>7 DEF SettleCalls, Ledger!SettleInterrupted, RunOK
<1>8. ASSUME NEW t \in Task, FailOrphan(t) PROVE ProcessOK'
  BY <1>8 DEF FailOrphan, RunOK
<1>9. ASSUME NEW t \in Task, HandOrphan(t) PROVE ProcessOK'
  BY <1>9 DEF HandOrphan, RunOK
<1>10. ASSUME NEW t \in Task, Claim(t) PROVE ProcessOK'
  BY <1>10 DEF Claim, RunOK
<1>11. ASSUME NEW t \in Task, RejectUnsupported(t) PROVE ProcessOK'
  BY <1>11 DEF RejectUnsupported, RunOK
<1>12. ASSUME NEW t \in Task, PutBackFull(t) PROVE ProcessOK'
  BY <1>12 DEF PutBackFull, RunOK
<1>13. ASSUME NEW t \in Task, NEW c \in Co, Dispatch(t, c) PROVE ProcessOK'
  BY <1>13, TakingUp DEF Dispatch, Register
<1>14. ASSUME NEW c \in Co, Drain(c) PROVE ProcessOK'
  BY <1>14, GoingIdle DEF Drain, Release
<1>15. ASSUME NEW c \in Co, Drift(c) PROVE ProcessOK'
  BY <1>15, FirstRunMoves DEF Drift
<1>16. ASSUME NEW c \in Co, PrepareFails(c) PROVE ProcessOK'
  BY <1>16, FirstRunMoves DEF PrepareFails
<1>17. ASSUME NEW c \in Co, OpenCall(c) PROVE ProcessOK'
  BY <1>17, FirstRunMoves DEF OpenCall, Ledger!StartCall
<1>18. ASSUME NEW c \in Co, WriteCheckpoint(c) PROVE ProcessOK'
  BY <1>18, FirstRunMoves DEF WriteCheckpoint
<1>19. ASSUME NEW c \in Co, Submit(c) PROVE ProcessOK'
  <2>1. RunOK' /\ run[c].task \in Task
    BY <1>19, FirstRunMoves DEF Moved
  <2>2. submitted' \in [Task -> Nat]
    BY <1>19, <2>1 DEF Submit
  <2>3. QED
    BY <1>19, <2>1, <2>2 DEF Submit
<1>20. ASSUME NEW c \in Co, RecordJob(c) PROVE ProcessOK'
  BY <1>20, FirstRunMoves DEF RecordJob
<1>21. ASSUME NEW c \in Co, CallFails(c) PROVE ProcessOK'
  BY <1>21, FirstRunMoves DEF CallFails
<1>22. ASSUME NEW c \in Co, CallSucceeds(c) PROVE ProcessOK'
  BY <1>22, FirstRunMoves DEF CallSucceeds
<1>23. ASSUME NEW c \in Co, CloseCall(c) PROVE ProcessOK'
  BY <1>23, FirstRunMoves DEF CloseCall, Ledger!FinishCall
<1>24. ASSUME NEW c \in Co, Commit(c) PROVE ProcessOK'
  BY <1>24, FirstRunMoves DEF Commit
<1>25. ASSUME NEW c \in Co, EndRun(c) PROVE ProcessOK'
  BY <1>25, FirstRunMoves DEF EndRun
<1>26. ASSUME NEW t \in Task, NEW c \in Co, Resume(t, c) PROVE ProcessOK'
  BY <1>26, TakingUp DEF Resume, Register
<1>27. ASSUME NEW t \in Task, NEW c \in Co, RefuseResume(t, c) PROVE ProcessOK'
  BY <1>27, TakingUp DEF RefuseResume
<1>28. ASSUME NEW t \in Task, DropHanded(t) PROVE ProcessOK'
  BY <1>28 DEF DropHanded, RunOK
<1>29. ASSUME NEW c \in Co, Promote(c) PROVE ProcessOK'
  BY <1>29, ResumptionMoves DEF Promote
<1>30. ASSUME NEW c \in Co, LookUpCall(c) PROVE ProcessOK'
  BY <1>30, LookUpMoves DEF LookUpCall
<1>31. ASSUME NEW c \in Co, Repoll(c) PROVE ProcessOK'
  BY <1>31, ResumptionMoves DEF Repoll
<1>32. ASSUME NEW c \in Co, RepollExpired(c) PROVE ProcessOK'
  BY <1>32, ResumptionMoves DEF RepollExpired, Ledger!FinalizePending
<1>33. ASSUME NEW c \in Co, SettleSuccess(c) PROVE ProcessOK'
  BY <1>33, ResumptionMoves DEF SettleSuccess, Ledger!FinalizePending
<1>34. ASSUME NEW c \in Co, Recommit(c) PROVE ProcessOK'
  BY <1>34, ResumptionMoves DEF Recommit
<1>35. ASSUME NEW c \in Co, EndResumption(c) PROVE ProcessOK'
  BY <1>35, ResumptionMoves DEF EndResumption
<1>36. ASSUME NEW c \in Co, SettleUnresumable(c) PROVE ProcessOK'
  BY <1>36, ResumptionMoves, GoingIdle DEF SettleUnresumable, Ledger!FinalizePending, At
<1>37. ASSUME NEW c \in Co, Leave(c) PROVE ProcessOK'
  BY <1>37, GoingIdle DEF Leave, Release
<1>38. ASSUME NEW c \in Co, Interrupt(c) PROVE ProcessOK'
  BY <1>38, InterruptMoves DEF Interrupt, Ledger!FinishCall
<1>39. ASSUME NEW c \in Co, EndInterrupted(c) PROVE ProcessOK'
  BY <1>39, InterruptMoves DEF EndInterrupted
<1>40. ASSUME Stop PROVE ProcessOK'
  BY <1>40 DEF Stop, RunOK
<1>41. ASSUME LeaveLoop PROVE ProcessOK'
  BY <1>41 DEF LeaveLoop, RunOK
<1>42. ASSUME BeginTeardown PROVE ProcessOK'
  BY <1>42 DEF BeginTeardown, RunOK
<1>43. ASSUME LoseProcess PROVE ProcessOK'
  <2>1. Idle \in Execution /\ Idle.pc = "idle"
    BY DEF Idle, Execution, Queue!Code
  <2>2. QED
    BY <1>43, <2>1 DEF LoseProcess, RunOK
<1>44. ASSUME Restart PROVE ProcessOK'
  BY <1>44 DEF Restart, RunOK
<1>45. CASE UNCHANGED vars
  BY <1>45 DEF vars, RunOK
<1>46. QED
  BY <1>1, <1>2, <1>3, <1>4, <1>5, <1>6, <1>7, <1>8, <1>9, <1>10, <1>11, <1>12, <1>13, <1>14, <1>15,
     <1>16, <1>17, <1>18, <1>19, <1>20, <1>21, <1>22, <1>23, <1>24, <1>25, <1>26, <1>27, <1>28, <1>29, <1>30,
     <1>31, <1>32, <1>33, <1>34, <1>35, <1>36, <1>37, <1>38, <1>39, <1>40, <1>41, <1>42, <1>43, <1>44, <1>45
     DEF Next, Request, Recovery, Route, FirstRunStep, LeavePrepare, ResumptionStep, Take, Shutdown,
         InterruptStep, EndProcess, Crash
(* The process is well typed in every reachable state.                     *)
LEMMA ProcessTypes == Spec => []ProcessOK
<1>1. QED
  BY InitProcess, NextProcess, PTL DEF Spec

-----------------------------------------------------------------------------
(* The worker changes rows through the repository only.                    *)
LEMMA EndsAreCalls ==
  ASSUME NEW t \in Task, NEW k \in Queue!Code \ {"none"},
         Fail(t, k) \/ Succeed(t) \/ Interrupted(t)
  PROVE  Queue!Next \/ UNCHANGED rows
BY DEF Fail, Succeed, Interrupted, Queue!Next

(* Every step of the worker is one repository call, or none.               *)
LEMMA StepIsCall == ProcessOK /\ [Next]_vars => [Queue!Next]_(Queue!vars)
<1> SUFFICES ASSUME ProcessOK, [Next]_vars PROVE Queue!Next \/ UNCHANGED rows
  BY DEF Queue!vars, rows
<1>a. "other" \in Queue!Code \ {"none"}
  BY DEF Queue!Code
<1>b. \A c \in Co : run[c].pc # "idle" => run[c].task \in Task
  BY DEF ProcessOK, RunOK, Idle
<1>c. \A c \in Co : run[c].pc \in {"failing", "refailing"} => run[c].code \in Queue!Code \ {"none"}
  BY DEF ProcessOK, RunOK, Execution
<1>1. ASSUME NEW t \in Task, NEW p \in Project, NEW x \in Unit, NEW d \in Task \union {None},
             Enqueue(t, p, x, d)
      PROVE  Queue!Next
  BY <1>1 DEF Enqueue, Queue!Next
<1>2. ASSUME NEW t \in Task, Cancel(t) \/ RetryDownload(t) \/ Claim(t) PROVE Queue!Next
  BY <1>2 DEF Cancel, RetryDownload, Claim, Queue!Next
<1>3. ASSUME NEW t \in Task, FailOrphan(t) \/ RejectUnsupported(t) \/ (\E c \in Co : RefuseResume(t, c))
      PROVE  Queue!Next \/ UNCHANGED rows
  BY <1>a, <1>3, EndsAreCalls DEF FailOrphan, RejectUnsupported, RefuseResume
<1>4. ASSUME NEW t \in Task, Queue!Requeue({t}) PROVE Queue!Next
  BY <1>4 DEF Queue!Next
<1>5. ASSUME NEW t \in Task, PutBackFull(t) PROVE Queue!Next
  BY <1>4, <1>5 DEF PutBackFull
<1>6. ASSUME NEW c \in Co, Drift(c) PROVE Queue!Next
  BY <1>b, <1>4, <1>6 DEF Drift, At
<1>7. ASSUME NEW c \in Co, WriteCheckpoint(c) \/ RecordJob(c) PROVE Queue!Next
  BY <1>b, <1>7 DEF WriteCheckpoint, RecordJob, At, Queue!Next
<1>8. ASSUME NEW c \in Co, EndRun(c) \/ EndResumption(c) \/ EndInterrupted(c)
      PROVE  Queue!Next \/ UNCHANGED rows
  <2>1. run[c].task \in Task
    BY <1>b, <1>8 DEF EndRun, EndResumption, EndInterrupted, At
  <2>2. CASE EndInterrupted(c)
    BY <1>a, <2>1, <2>2, EndsAreCalls DEF EndInterrupted
  <2>3. CASE EndRun(c) \/ EndResumption(c)
    BY <1>a, <1>c, <2>1, <2>3, EndsAreCalls DEF EndRun, EndResumption, At
  <2>4. QED
    BY <1>8, <2>2, <2>3
<1>9. ASSUME \/ ListOrphans \/ SkipSelfActive \/ ScanDone \/ SettleCalls
             \/ \E t \in Task : HandOrphan(t) \/ DropHanded(t)
             \/ \E t \in Task, c \in Co : Dispatch(t, c) \/ Resume(t, c)
             \/ Stop \/ Shutdown \/ Crash \/ Restart \/ UNCHANGED vars
      PROVE  UNCHANGED rows
  BY <1>9 DEF ListOrphans, SkipSelfActive, ScanDone, SettleCalls, HandOrphan, DropHanded, Dispatch, Resume,
              Stop, Shutdown, LeaveLoop, BeginTeardown, EndProcess, Crash, LoseProcess, Restart, vars
<1>10. ASSUME NEW c \in Co,
              \/ Drain(c) \/ LeavePrepare(c) \/ Submit(c) \/ CallFails(c) \/ CallSucceeds(c)
              \/ CloseCall(c) \/ Commit(c) \/ Promote(c) \/ LookUpCall(c) \/ Repoll(c)
              \/ RepollExpired(c) \/ SettleSuccess(c) \/ Recommit(c) \/ SettleUnresumable(c)
              \/ Leave(c) \/ Interrupt(c)
       PROVE  UNCHANGED rows
  BY <1>10 DEF Drain, LeavePrepare, PrepareFails, OpenCall, Submit, CallFails, CallSucceeds, CloseCall,
               Commit, Promote, LookUpCall, Repoll, RepollExpired, SettleSuccess, Recommit,
               SettleUnresumable, Leave, Interrupt
<1>11. QED
  BY <1>1, <1>2, <1>3, <1>5, <1>6, <1>7, <1>8, <1>9, <1>10
     DEF Next, Request, Recovery, Route, FirstRunStep, ResumptionStep, Take, InterruptStep

(* What the table promises, the worker inherits: its steps are a behaviour *)
(* of the task table, whatever overlaps, crashes and restarts.             *)
THEOREM WorkerUsesQueue == Spec => Queue!Spec
<1>1. Init => Queue!Init
  BY DEF Init
<1>2. QED
  BY <1>1, ProcessTypes, StepIsCall, PTL DEF Spec, Queue!Spec

-----------------------------------------------------------------------------
(* The row t ends or has ended before, and only queued rows with it, or it *)
(* goes back to the queue with nothing done for it.                        *)
Ended(t) ==
  /\ \A u \in Task : \/ status'[u] = status[u]
                     \/ /\ u = t \/ status[u] = "queued"
                        /\ status'[u] \in {"succeeded", "failed", "cancelled"}
                     \/ u = t /\ status'[u] = "queued" /\ Fresh(t)
  /\ status'[t] # "running"
  /\ UNCHANGED <<unit, checkpoint, job>>

LEMMA EndsEnd ==
  ASSUME Queue!TypeOK, NEW t \in Task, NEW k,
         Fail(t, k) \/ Succeed(t) \/ Interrupted(t) \/ Queue!CancelTask(t)
  PROVE  Ended(t)
<1>1. status \in [Task -> Queue!Status]
  BY DEF Queue!TypeOK
<1>2. \A u \in Queue!QueuedDependents(t) : u \in Task /\ status[u] = "queued"
  BY DEF Queue!QueuedDependents, Queue!With
<1>3. ASSUME NEW s \in {"failed", "cancelled"}, Queue!EndWithDependents(t, s)
      PROVE  /\ \A u \in Task : \/ status'[u] = status[u]
                                \/ (u = t \/ status[u] = "queued") /\ status'[u] = s
             /\ status'[t] = s
  BY <1>2, <1>3 DEF Queue!EndWithDependents
<1>4. ASSUME status[t] \notin Queue!ActiveStatus \/ status[t] # "running", UNCHANGED rows PROVE Ended(t)
  BY <1>4 DEF Ended, rows, Queue!ActiveStatus
<1>5. CASE Queue!MarkFailed(t, k) \/ Queue!CancelTask(t) \/ Queue!FinalizeInterrupted(t)
  <2>1. UNCHANGED <<unit, checkpoint, job>>
    BY <1>5 DEF Queue!MarkFailed, Queue!CancelTask, Queue!FinalizeInterrupted, Queue!key
  <2>2. \E s \in {"failed", "cancelled"} : Queue!EndWithDependents(t, s)
    BY <1>5 DEF Queue!MarkFailed, Queue!CancelTask, Queue!FinalizeInterrupted
  <2>3. QED
    BY <1>3, <2>1, <2>2 DEF Ended
<1>6. CASE Queue!MarkSucceeded(t)
  BY <1>1, <1>6 DEF Ended, Queue!MarkSucceeded, Queue!key
<1>7. QED
  BY <1>4, <1>5, <1>6 DEF Fail, Succeed, Interrupted

(* Where nothing more is done for the row.                                 *)
Spent == {"done", "settling", "leaving", "nocapacity", "resettle"}

LEMMA MoveKeepsInv ==
  ASSUME ProcessOK, IInv, NEW c \in Co, NEW p, NEW q, Moved(c, p, q),
         {p, q} \subseteq FirstRun \ {"done"} \/ {p, q} \subseteq Resumption,
         q # "prepare",
         UNCHANGED <<status, loop, handed, slot>>,
         NEW t, t = run[c].task,
         \A u \in Task : job[u] => job'[u],
         \A u \in Task \ {t} :
           /\ call'[u] = call[u] /\ submitted'[u] = submitted[u]
           /\ checkpoint'[u] = checkpoint[u] /\ job'[u] = job[u],
         q \in {"opened", "checkpointed", "accepted", "polling", "won", "lost"} => call'[t] = "pending",
         q \in {"opened", "checkpointed"} => submitted'[t] = 0,
         submitted'[t] <= 1,
         q \in Spent => p \in Spent \/ stop
  PROVE  IInv'
<1>1. t \in Task /\ run[c].pc = p /\ run'[c].pc = q /\ run'[c].task = t
      /\ \A d \in Co \ {c} : run'[d] = run[d]
  BY DEF Moved
<1>2. \A d \in Co : run'[d].task = run[d].task
  BY <1>1
<1>3. \A d \in Co : /\ run[d].pc \in FirstRun \ {"done"} <=> run'[d].pc \in FirstRun \ {"done"}
                    /\ run[d].pc \in FirstRun <=> run'[d].pc \in FirstRun
                    /\ run[d].pc \in Resumption <=> run'[d].pc \in Resumption
                    /\ run[d].pc = "done" <=> run'[d].pc = "done"
                    /\ run'[d].pc = "prepare" => run[d].pc = "prepare"
  BY <1>1, PlaceNames DEF FirstRun
<1>4. LoopInv'
  BY <1>3 DEF IInv, LoopInv, loop, handed
<1>5. HandedInv'
  BY <1>2, <1>3 DEF IInv, HandedInv, Resuming, handed
<1>6. ~(status[t] \in {"absent", "queued"} \/ routing = t
        \/ \E d \in Co : run'[d].task = t /\ run'[d].pc = "prepare")
  <2>1. CASE p \in FirstRun \ {"done"}
    <3>1. Executing(c, t)
      BY <1>1, <2>1 DEF Executing
    <3>2. QED
      BY <1>1, <1>2, <1>3, <3>1 DEF IInv, RoutingInv, RunInv
  <2>2. CASE p \in Resumption
    <3>1. job[t]
      BY <1>1, <2>2 DEF IInv, HandedInv, Resuming
    <3>2. QED
      BY <1>1, <1>2, <1>3, <3>1 DEF IInv, WaitingInv, Fresh
  <2>3. QED
    BY <2>1, <2>2
<1>7. WaitingInv'
  BY <1>1, <1>2, <1>3, <1>6 DEF IInv, WaitingInv, Fresh, loop
<1>8. \A d \in Co : \A u : Executing(d, u)' <=> Executing(d, u)
  BY <1>2, <1>3 DEF Executing
<1>9. RoutingInv' /\ RunInv'
  BY <1>2, <1>3, <1>8 DEF IInv, RoutingInv, RunInv, loop, handed
<1>10. \A d \in Co \ {c} : run[d].task = t => run[d].pc \notin FirstRun \ {"done"}
  <2>1. SUFFICES ASSUME NEW d \in Co \ {c}, run[d].task = t, run[d].pc \in FirstRun \ {"done"} PROVE FALSE
    OBVIOUS
  <2>2. run[c].pc = "done"
    BY <1>1, <2>1 DEF IInv, RunInv, Executing
  <2>3. QED
    BY <1>1, <2>2, PlaceNames DEF FirstRun
<1>11. StageInv'
  <2>1. SUFFICES ASSUME NEW d \in Co, NEW u \in Task, run'[d].task = u
                 PROVE  /\ run'[d].pc \in {"opened", "checkpointed", "accepted", "polling", "won", "lost"}
                             => call'[u] = "pending"
                        /\ run'[d].pc \in {"opened", "checkpointed"} => submitted'[u] = 0
    BY DEF StageInv
  <2>2. CASE d = c
    BY <1>1, <2>1, <2>2
  <2>3. CASE d # c /\ u = t
    BY <1>1, <1>10, <2>1, <2>3 DEF FirstRun
  <2>4. CASE d # c /\ u # t
    BY <1>1, <2>1, <2>4 DEF IInv, StageInv
  <2>5. QED
    BY <2>2, <2>3, <2>4
<1>12. AtMostOneSubmission'
  BY <1>1 DEF IInv, AtMostOneSubmission
<1>13. HandsInv'
  <2>1. ~stop => \A u \in Task : Working(u) => Working(u)'
    BY <1>1 DEF Working, Spent, loop, handed
  <2>2. QED
    BY <2>1 DEF IInv, HandsInv, loop
<1>14. QED
  BY <1>4, <1>5, <1>7, <1>9, <1>11, <1>12, <1>13 DEF IInv

(* A row ends under whoever answers for it, and that coroutine moves on.   *)
LEMMA EndKeepsInv ==
  ASSUME ProcessOK, IInv, NEW t \in Task, Ended(t),
         UNCHANGED <<call, submitted, mode, stop, slot>>,
         routing' \in {routing, None}, routing' # t,
         \A u \in Task \ {t} :
           /\ u \in orphans' <=> u \in orphans
           /\ u \in ready' \union retrying' <=> u \in ready \union retrying,
         orphans' \subseteq orphans,
         ready' \union retrying' \subseteq ready \union retrying,
         routing # None /\ routing # t => routing' = routing,
         \A d \in Co : ~Executing(d, t) \/ run'[d].pc = "done",
         \A d \in Co : \/ run'[d] = run[d]
                       \/ /\ run'[d].task = t /\ run[d].task \in {t, None}
                          /\ run'[d].pc \in Spent
                          /\ run'[d].pc = "done" => run[d].pc \in FirstRun
                          /\ run'[d].pc \in Resumption => job[t]
  PROVE  IInv'
<1>1. Spent \intersect (FirstRun \ {"done"}) = {} /\ Spent \intersect FirstRun \subseteq {"done"}
      /\ "prepare" \notin Spent
      /\ Spent \intersect {"opened", "checkpointed", "accepted", "polling", "won", "lost"} = {}
  BY DEF Spent, FirstRun
<1>2. \A d \in Co : \A u \in Task : Executing(d, u)' => Executing(d, u) /\ u # t
  <2>1. SUFFICES ASSUME NEW d \in Co, NEW u \in Task, Executing(d, u)' PROVE Executing(d, u) /\ u # t
    OBVIOUS
  <2>2. run'[d] = run[d]
    BY <1>1, <2>1 DEF Executing
  <2>3. QED
    BY <2>1, <2>2 DEF Executing
<1>3. \A u \in Task : status'[u] = "running" => status[u] = "running" /\ u # t
  BY DEF Ended
<1>4. \A u \in Task : u # t /\ status[u] = "running" => status'[u] = "running"
  BY DEF Ended
<1>5. \A u \in Task : status'[u] \in {"absent", "queued"} => status[u] \in {"absent", "queued"} \/ Fresh(u)
  BY DEF Ended
<1>6. LoopInv'
  BY <1>1 DEF IInv, LoopInv
<1>7. HandedInv'
  BY DEF IInv, HandedInv, Resuming, Ended
<1>8. WaitingInv'
  BY <1>1, <1>5, RowsAssumption DEF IInv, WaitingInv, Fresh, Ended
<1>9. RoutingInv'
  BY <1>2, <1>4, RowsAssumption DEF IInv, RoutingInv
<1>10. RunInv'
  <2>1. SUFFICES ASSUME NEW c \in Co, NEW u \in Task, Executing(c, u)'
                 PROVE  /\ status'[u] = "running"
                        /\ u \notin ready' \union retrying'
                        /\ \A d \in Co \ {c} : run'[d].task = u => run'[d].pc = "done"
    BY DEF RunInv
  <2>2. Executing(c, u) /\ u # t
    BY <1>2, <2>1
  <2>3. QED
    BY <1>4, <2>2 DEF IInv, RunInv
<1>11. StageInv'
  BY <1>1 DEF IInv, StageInv
<1>12. AtMostOneSubmission'
  BY DEF IInv, AtMostOneSubmission
<1>13. HandsInv'
  <2>1. \A u \in Task \ {t} : Working(u) => Working(u)'
    BY RowsAssumption DEF Working, Spent
  <2>2. SUFFICES ASSUME mode \in {"list", "filter", "recover", "sweep", "serve"}, ~stop,
                        NEW u \in Task, status'[u] = "running"
                 PROVE  Working(u)' \/ ((mode = "list" \/ u \in orphans') /\ slot[u] = None)
    BY DEF HandsInv
  <2>3. u # t /\ status[u] = "running"
    BY <1>3, <2>2
  <2>4. QED
    BY <2>1, <2>2, <2>3 DEF IInv, HandsInv
<1>14. QED
  BY <1>6, <1>7, <1>8, <1>9, <1>10, <1>11, <1>12, <1>13 DEF IInv

(* A row put back was never worked on outside the process.                 *)
LEMMA RequeueEnds ==
  ASSUME Queue!TypeOK, NEW t \in Task, Queue!Requeue({t}), Fresh(t)
  PROVE  Ended(t)
BY DEF Queue!TypeOK, Queue!Requeue, Queue!key, Ended

-----------------------------------------------------------------------------
(* The steps, one family after the other.                                  *)
LEMMA RequestKeepsInv == Queue!TypeOK /\ ProcessOK /\ IInv /\ Request => IInv'
<1> SUFFICES ASSUME Queue!TypeOK, ProcessOK, IInv, Request PROVE IInv'
  OBVIOUS
<1>1. ASSUME NEW t \in Task, NEW p \in Project, NEW x \in Unit, NEW d \in Task \union {None},
             Enqueue(t, p, x, d)
      PROVE  IInv'
  <2>1. /\ status[t] = "absent" /\ status'[t] = "queued"
        /\ \A u \in Task \ {t} : status'[u] = status[u]
        /\ UNCHANGED <<checkpoint, job, call, submitted, loop, handed, run, slot>>
    BY <1>1 DEF Enqueue, Queue!Enqueue, Queue!TypeOK, execution
  <2>2. UNCHANGED <<mode, stop, routing, orphans, ready, retrying>>
    BY <2>1 DEF loop, handed
  <2>3. LoopInv' /\ HandedInv' /\ StageInv' /\ AtMostOneSubmission'
    BY <2>1, <2>2 DEF IInv, LoopInv, HandedInv, StageInv, AtMostOneSubmission, Resuming
  <2>4. WaitingInv'
    BY <2>1, <2>2 DEF IInv, WaitingInv, Fresh
  <2>5. RoutingInv' /\ RunInv'
    BY <2>1, <2>2 DEF IInv, RoutingInv, RunInv, Executing
  <2>6. HandsInv'
    BY <2>1, <2>2 DEF IInv, HandsInv, Working
  <2>7. QED
    BY <2>3, <2>4, <2>5, <2>6 DEF IInv
<1>2. ASSUME NEW t \in Task, Cancel(t) PROVE IInv'
  <2>1. Ended(t) /\ status[t] = "queued" /\ UNCHANGED <<call, submitted, loop, handed, execution>>
    BY <1>2, EndsEnd DEF Cancel, Queue!CancelTask
  <2>2. routing # t /\ \A d \in Co : ~Executing(d, t)
    BY <2>1 DEF IInv, RoutingInv, RunInv
  <2>3. QED
    BY <2>1, <2>2, EndKeepsInv DEF loop, handed, execution
<1>3. ASSUME NEW t \in Task, RetryDownload(t) PROVE IInv'
  <2>1. /\ status[t] = "failed" /\ job[t] /\ status'[t] = "running"
        /\ call'[t] = "pending" /\ retrying' = retrying \union {t}
        /\ \A u \in Task \ {t} : status'[u] = status[u] /\ call'[u] = call[u]
        /\ UNCHANGED <<checkpoint, job, submitted, mode, stop, routing, orphans, ready, run, slot>>
        /\ mode # "down"
    BY <1>3 DEF RetryDownload, Serving, Queue!ReopenDownload, Queue!TypeOK, Queue!key,
                Ledger!ReopenCall, ProcessOK, loop, execution
  <2>2. routing # t /\ (\A d \in Co : ~Executing(d, t))
        /\ (\A d \in Co : run[d].task = t => run[d].pc # "prepare")
    BY <2>1 DEF IInv, RoutingInv, RunInv, WaitingInv, Fresh
  <2>3. LoopInv' /\ HandedInv' /\ AtMostOneSubmission'
    BY <2>1 DEF IInv, LoopInv, HandedInv, AtMostOneSubmission, Resuming
  <2>4. StageInv'
    BY <2>1 DEF IInv, StageInv
  <2>5. WaitingInv'
    BY <2>1, <2>2 DEF IInv, WaitingInv, Fresh
  <2>6. RoutingInv' /\ RunInv'
    BY <2>1, <2>2 DEF IInv, RoutingInv, RunInv, Executing
  <2>7. HandsInv'
    BY <2>1 DEF IInv, HandsInv, Working
  <2>8. QED
    BY <2>3, <2>4, <2>5, <2>6, <2>7 DEF IInv
<1>4. QED
  BY <1>1, <1>2, <1>3 DEF Request

LEMMA RecoveryKeepsInv == Queue!TypeOK /\ ProcessOK /\ IInv /\ Recovery => IInv'
<1> SUFFICES ASSUME Queue!TypeOK, ProcessOK, IInv, Recovery PROVE IInv'
  OBVIOUS
<1>1. CASE ListOrphans \/ SkipSelfActive \/ ScanDone
  <2>1. /\ UNCHANGED <<status, checkpoint, job, call, submitted, stop, routing, ready, retrying, run, slot>>
        /\ mode \in {"list", "filter", "recover"}
    BY <1>1 DEF ListOrphans, SkipSelfActive, ScanDone, rows, handed, execution
  <2>2. HandedInv' /\ WaitingInv' /\ RoutingInv' /\ RunInv' /\ StageInv' /\ AtMostOneSubmission'
    BY <2>1 DEF IInv, HandedInv, WaitingInv, RoutingInv, RunInv, StageInv, AtMostOneSubmission,
                Resuming, Executing, Fresh
  <2>3. LoopInv'
    BY <1>1, <2>1 DEF ListOrphans, SkipSelfActive, ScanDone, IInv, LoopInv
  <2>4. \A t \in Task : Working(t)' <=> Working(t)
    BY <2>1 DEF Working
  <2>5. HandsInv'
    BY <1>1, <2>1, <2>4 DEF ListOrphans, SkipSelfActive, ScanDone, IInv, HandsInv
  <2>6. QED
    BY <2>2, <2>3, <2>5 DEF IInv
<1>2. CASE SettleCalls
  <2>1. /\ UNCHANGED <<status, checkpoint, job, submitted, stop, routing, orphans, ready, retrying, run, slot>>
        /\ mode = "sweep" /\ mode' = "serve"
    BY <1>2 DEF SettleCalls, rows, handed, execution
  <2>2. \A t \in Task : call[t] = "none" => call'[t] = "none"
    BY <1>2 DEF SettleCalls, Ledger!SettleInterrupted
  <2>3. \A c \in Co : run[c].pc \notin FirstRun
    BY <2>1 DEF IInv, LoopInv
  <2>4. HandedInv' /\ RoutingInv' /\ RunInv' /\ AtMostOneSubmission'
    BY <2>1 DEF IInv, HandedInv, RoutingInv, RunInv, AtMostOneSubmission, Resuming, Executing
  <2>5. WaitingInv' /\ LoopInv'
    BY <2>1, <2>2 DEF IInv, WaitingInv, LoopInv, Fresh
  <2>6. StageInv'
    BY <2>1, <2>3 DEF StageInv, FirstRun
  <2>7. HandsInv'
    BY <2>1 DEF IInv, HandsInv, Working
  <2>8. QED
    BY <2>4, <2>5, <2>6, <2>7 DEF IInv
<1>3. ASSUME NEW t \in Task, FailOrphan(t) PROVE IInv'
  <2>1. Ended(t)
    BY <1>3, EndsEnd DEF FailOrphan
  <2>2. routing = None /\ \A c \in Co : run[c].pc \notin FirstRun
    BY <1>3 DEF FailOrphan, IInv, LoopInv
  <2>3. \A c \in Co : ~Executing(c, t)
    BY <2>2 DEF Executing
  <2>4. /\ UNCHANGED <<call, submitted, mode, stop, routing, ready, retrying, run, slot>>
        /\ orphans' = orphans \ {t}
    BY <1>3 DEF FailOrphan, handed, execution
  <2>5. QED
    BY <2>1, <2>2, <2>3, <2>4, RowsAssumption, EndKeepsInv
<1>4. ASSUME NEW t \in Task, HandOrphan(t) PROVE IInv'
  <2>1. /\ UNCHANGED <<status, checkpoint, job, call, submitted, mode, stop, routing, retrying, run, slot>>
        /\ mode = "recover" /\ job[t] /\ ready' = ready \union {t} /\ orphans' = orphans \ {t}
    BY <1>4 DEF HandOrphan, CanResume, rows, execution
  <2>2. \A c \in Co, u \in Task : ~Executing(c, u)
    BY <2>1 DEF IInv, LoopInv, Executing
  <2>3. RoutingInv' /\ RunInv'
    BY <2>1, <2>2 DEF IInv, RoutingInv, RunInv, Executing
  <2>4. LoopInv' /\ HandedInv' /\ WaitingInv' /\ StageInv' /\ AtMostOneSubmission'
    BY <2>1 DEF IInv, LoopInv, HandedInv, WaitingInv, StageInv, AtMostOneSubmission, Resuming, Fresh
  <2>5. HandsInv'
    BY <2>1 DEF IInv, HandsInv, Working
  <2>6. QED
    BY <2>3, <2>4, <2>5 DEF IInv
<1>5. QED
  BY <1>1, <1>2, <1>3, <1>4 DEF Recovery

LEMMA ClaimKeepsInv ==
  ASSUME Queue!TypeOK, ProcessOK, IInv, NEW t \in Task, Claim(t)
  PROVE  IInv'
<1>1. /\ status[t] = "queued" /\ status'[t] = "running" /\ routing' = t /\ mode = "serve"
      /\ \A u \in Task \ {t} : status'[u] = status[u]
      /\ UNCHANGED <<checkpoint, job, call, submitted, mode, stop, orphans, ready, retrying, run, slot>>
  BY DEF Claim, Queue!ClaimNext, Queue!TypeOK, handed, execution
<1>2. Fresh(t) /\ \A c \in Co : ~Executing(c, t)
  BY <1>1 DEF IInv, WaitingInv, RunInv
<1>3. LoopInv' /\ HandedInv' /\ StageInv' /\ AtMostOneSubmission'
  BY <1>1 DEF IInv, LoopInv, HandedInv, StageInv, AtMostOneSubmission, Resuming
<1>4. WaitingInv'
  BY <1>1, <1>2 DEF IInv, WaitingInv, Fresh
<1>5. RoutingInv' /\ RunInv'
  BY <1>1, <1>2 DEF IInv, RoutingInv, RunInv, Executing
<1>6. HandsInv'
  <2>1. routing = None
    BY DEF Claim
  <2>2. \A u \in Task \ {t} : Working(u) => Working(u)'
    BY <1>1, <2>1, RowsAssumption DEF Working
  <2>3. Working(t)'
    BY <1>1 DEF Working
  <2>4. QED
    BY <1>1, <2>2, <2>3 DEF IInv, HandsInv
<1>7. QED
  BY <1>3, <1>4, <1>5, <1>6 DEF IInv

LEMMA DispatchKeepsInv ==
  ASSUME ProcessOK, IInv, NEW t \in Task, NEW c \in Co, Dispatch(t, c)
  PROVE  IInv'
<1>1. /\ routing = t /\ routing' = None /\ run[c] = Idle
      /\ UNCHANGED <<status, checkpoint, job, call, submitted, mode, stop, orphans, ready, retrying>>
      /\ \A u \in Task \ {t} : slot'[u] = slot[u]
  BY DEF Dispatch, Register, rows, handed, ProcessOK
<1>2. run'[c].task = t /\ run'[c].pc = "prepare" /\ \A d \in Co \ {c} : run'[d] = run[d]
  BY TakingUp DEF Dispatch, ProcessOK
<1>3. /\ Fresh(t) /\ status[t] = "running"
      /\ mode \in {"serve", "drain", "teardown"}
      /\ \A d \in Co : ~Executing(d, t)
  BY <1>1, RowsAssumption DEF IInv, WaitingInv, RoutingInv, LoopInv, ProcessOK
<1>4. t \notin ready \union retrying /\ \A d \in Co : ~Resuming(d, t)
  BY <1>3 DEF IInv, HandedInv, Fresh
<1>5. run[c].task = None /\ run[c].pc = "idle"
  BY <1>1 DEF Idle
<1>6. LoopInv'
  BY <1>1, <1>3 DEF IInv, LoopInv
<1>7. HandedInv'
  <2>1. \A d \in Co : \A u \in Task : Resuming(d, u)' => Resuming(d, u)
    BY <1>2, PlaceNames DEF Resuming, FirstRun
  <2>2. QED
    BY <1>1, <2>1 DEF IInv, HandedInv
<1>8. WaitingInv'
  BY <1>1, <1>2, <1>3, RowsAssumption DEF IInv, WaitingInv, Fresh
<1>9. RoutingInv'
  BY <1>1, RowsAssumption DEF RoutingInv
<1>10. \A d \in Co \ {c} : run'[d].task = t => run'[d].pc = "done"
  <2>1. SUFFICES ASSUME NEW d \in Co \ {c}, run[d].task = t PROVE run[d].pc = "done"
    BY <1>2
  <2>2. run[d].pc \in FirstRun \union Resumption
    BY <2>1, RowsAssumption DEF ProcessOK, RunOK, Execution, Idle
  <2>3. QED
    BY <1>3, <1>4, <2>1, <2>2 DEF Executing, Resuming
<1>11. RunInv'
  <2>1. SUFFICES ASSUME NEW d \in Co, NEW u \in Task, Executing(d, u)'
                 PROVE  /\ status'[u] = "running"
                        /\ u \notin ready' \union retrying'
                        /\ \A e \in Co \ {d} : run'[e].task = u => run'[e].pc = "done"
    BY DEF RunInv
  <2>2. CASE d = c
    BY <1>1, <1>2, <1>3, <1>4, <1>10, <2>1, <2>2 DEF Executing
  <2>3. CASE d # c
    <3>1. Executing(d, u)
      BY <1>2, <2>1, <2>3 DEF Executing
    <3>2. u # t
      BY <1>3, <3>1
    <3>3. QED
      BY <1>1, <1>2, <3>1, <3>2 DEF IInv, RunInv
  <2>4. QED
    BY <2>2, <2>3
<1>12. StageInv'
  BY <1>1, <1>2 DEF IInv, StageInv
<1>13. AtMostOneSubmission'
  BY <1>1 DEF IInv, AtMostOneSubmission
<1>14. HandsInv'
  <2>1. \A u \in Task : Working(u) => Working(u)'
    BY <1>1, <1>2, <1>5, RowsAssumption DEF Working
  <2>2. orphans = {}
    BY <1>3 DEF IInv, LoopInv
  <2>3. QED
    BY <1>1, <1>3, <2>1, <2>2 DEF IInv, HandsInv
<1>15. QED
  BY <1>6, <1>7, <1>8, <1>9, <1>11, <1>12, <1>13, <1>14 DEF IInv

LEMMA RouteKeepsInv == Queue!TypeOK /\ ProcessOK /\ IInv /\ Route => IInv'
<1> SUFFICES ASSUME Queue!TypeOK, ProcessOK, IInv, Route PROVE IInv'
  OBVIOUS
<1>1. ASSUME NEW t \in Task, RejectUnsupported(t) \/ PutBackFull(t) PROVE IInv'
  <2>1. /\ routing = t /\ routing' = None
        /\ UNCHANGED <<call, submitted, mode, stop, orphans, ready, retrying, run, slot>>
    BY <1>1 DEF RejectUnsupported, PutBackFull, handed, execution
  <2>2. Fresh(t) /\ \A c \in Co : ~Executing(c, t)
    BY <2>1 DEF IInv, WaitingInv, RoutingInv
  <2>3. Ended(t)
    BY <1>1, <2>2, EndsEnd, RequeueEnds DEF RejectUnsupported, PutBackFull
  <2>4. QED
    BY <2>1, <2>2, <2>3, RowsAssumption, EndKeepsInv
<1>2. QED
  BY <1>1, DispatchKeepsInv DEF Route

LEMMA DrainKeepsInv ==
  ASSUME ProcessOK, IInv, NEW c \in Co, Drain(c)
  PROVE  IInv'
<1>1. /\ mode = "serve" /\ run[c].pc = "done"
      /\ UNCHANGED <<status, checkpoint, job, call, submitted, mode, stop, routing, orphans, ready, retrying>>
  BY DEF Drain, rows, loop, handed
<1>2. run'[c] = Idle /\ (\A d \in Co \ {c} : run'[d] = run[d]) /\ Idle.task = None /\ Idle.pc = "idle"
  BY GoingIdle DEF Drain, ProcessOK, Idle
<1>3. "idle" \notin FirstRun /\ "idle" \notin Resumption
  BY PlaceNames
<1>4. \A d \in Co : \A u \in Task : /\ Executing(d, u)' => Executing(d, u)
                                    /\ Resuming(d, u)' => Resuming(d, u)
  BY <1>2, <1>3 DEF Executing, Resuming
<1>5. LoopInv' /\ HandedInv' /\ AtMostOneSubmission' /\ StageInv'
  <2>1. LoopInv' /\ AtMostOneSubmission'
    BY <1>1 DEF IInv, LoopInv, AtMostOneSubmission
  <2>2. HandedInv'
    BY <1>1, <1>4 DEF IInv, HandedInv, Resuming
  <2>3. StageInv'
    BY <1>1, <1>2, RowsAssumption DEF IInv, StageInv
  <2>4. QED
    BY <2>1, <2>2, <2>3
<1>6. WaitingInv'
  BY <1>1, <1>2, RowsAssumption DEF IInv, WaitingInv, Fresh
<1>7. RoutingInv' /\ RunInv'
  <2>1. RoutingInv'
    BY <1>1, <1>4 DEF IInv, RoutingInv, Executing
  <2>2. SUFFICES ASSUME NEW d \in Co, NEW u \in Task, Executing(d, u)'
                 PROVE  /\ status'[u] = "running"
                        /\ u \notin ready' \union retrying'
                        /\ \A e \in Co \ {d} : run'[e].task = u => run'[e].pc = "done"
    BY <2>1 DEF RunInv
  <2>3. Executing(d, u)
    BY <1>4, <2>2 DEF Executing
  <2>4. QED
    BY <1>1, <1>2, <2>3, RowsAssumption DEF IInv, RunInv, Executing
<1>8. HandsInv'
  <2>1. \A u \in Task : Working(u) => Working(u)'
    BY <1>1, <1>2 DEF Working
  <2>2. QED
    BY <1>1, <2>1 DEF IInv, LoopInv, HandsInv
<1>9. QED
  BY <1>5, <1>6, <1>7, <1>8 DEF IInv

(* What is known of the row of an execution.                               *)
LEMMA RowOfRun ==
  ASSUME ProcessOK, IInv, NEW c \in Co, run[c].pc # "idle"
  PROVE  LET t == run[c].task IN
         /\ t \in Task
         /\ run[c].pc \in FirstRun \ {"done"} =>
              /\ Executing(c, t) /\ status[t] = "running" /\ routing # t
              /\ \A d \in Co \ {c} : ~Executing(d, t)
         /\ run[c].pc \in Resumption =>
              /\ job[t] /\ routing # t
              /\ \A d \in Co : ~Executing(d, t)
         /\ run[c].pc = "prepare" => Fresh(t)
         /\ run[c].pc \in {"opened", "checkpointed", "accepted", "polling", "won", "lost"}
              => call[t] = "pending"
         /\ run[c].pc \in {"opened", "checkpointed"} => submitted[t] = 0
         /\ submitted[t] <= 1
<1> DEFINE t == run[c].task
<1>1. t \in Task
  BY DEF ProcessOK, RunOK, Idle
<1>2. ASSUME run[c].pc \in FirstRun \ {"done"}
      PROVE  /\ Executing(c, t) /\ status[t] = "running" /\ routing # t
             /\ \A d \in Co \ {c} : ~Executing(d, t)
  <2>1. Executing(c, t)
    BY <1>2 DEF Executing
  <2>2. status[t] = "running" /\ routing # t /\ \A d \in Co \ {c} : run[d].task = t => run[d].pc = "done"
    BY <1>1, <2>1 DEF IInv, RunInv, RoutingInv
  <2>3. QED
    BY <2>1, <2>2 DEF Executing
<1>3. ASSUME run[c].pc \in Resumption
      PROVE  job[t] /\ routing # t /\ \A d \in Co : ~Executing(d, t)
  <2>1. job[t]
    BY <1>1, <1>3 DEF IInv, HandedInv, Resuming
  <2>2. routing # t
    BY <1>1, <2>1 DEF IInv, WaitingInv, Fresh
  <2>3. SUFFICES ASSUME NEW d \in Co, Executing(d, t) PROVE FALSE
    BY <2>1, <2>2
  <2>4. run[c].pc = "done" \/ d = c
    BY <1>1, <2>3 DEF IInv, RunInv
  <2>5. QED
    BY <1>3, <2>3, <2>4, PlaceNames DEF Executing, FirstRun
<1>4. run[c].pc = "prepare" => Fresh(t)
  BY <1>1 DEF IInv, WaitingInv
<1>5. /\ run[c].pc \in {"opened", "checkpointed", "accepted", "polling", "won", "lost"} => call[t] = "pending"
      /\ run[c].pc \in {"opened", "checkpointed"} => submitted[t] = 0
      /\ submitted[t] <= 1
  BY <1>1 DEF IInv, StageInv, AtMostOneSubmission
<1>6. QED
  BY <1>1, <1>2, <1>3, <1>4, <1>5

LEMMA FirstRunKeepsInv ==
  ASSUME Queue!TypeOK, ProcessOK, IInv, NEW c \in Co, FirstRunStep(c)
  PROVE  IInv'
<1> DEFINE t == run[c].task
<1>1. run[c].pc \in FirstRun \ {"done"}
  BY DEF FirstRunStep, Drift, LeavePrepare, PrepareFails, OpenCall, WriteCheckpoint, Submit, RecordJob,
         CallFails, CallSucceeds, CloseCall, Commit, EndRun, At, FirstRun
<1>2. RunOK /\ run[c].pc # "idle"
  BY <1>1, PlaceNames DEF ProcessOK
<1>3. /\ t \in Task /\ Executing(c, t) /\ status[t] = "running" /\ routing # t
      /\ \A d \in Co \ {c} : ~Executing(d, t)
      /\ run[c].pc = "prepare" => Fresh(t)
      /\ run[c].pc \in {"opened", "checkpointed", "accepted", "polling", "won", "lost"} => call[t] = "pending"
      /\ run[c].pc \in {"opened", "checkpointed"} => submitted[t] = 0
      /\ submitted[t] <= 1
  BY <1>1, <1>2, RowOfRun
<1>4. ASSUME NEW p, NEW q, Moved(c, p, q), {p, q} \subseteq FirstRun \ {"done"}, q # "prepare",
             UNCHANGED <<status, loop, handed, slot>>,
             \A u \in Task : job[u] => job'[u],
             \A u \in Task \ {t} :
               /\ call'[u] = call[u] /\ submitted'[u] = submitted[u]
               /\ checkpoint'[u] = checkpoint[u] /\ job'[u] = job[u],
             q \in {"opened", "checkpointed", "accepted", "polling", "won", "lost"} => call'[t] = "pending",
             q \in {"opened", "checkpointed"} => submitted'[t] = 0,
             submitted'[t] <= 1
      PROVE  IInv'
  <2>1. q \notin Spent
    BY <1>4 DEF Spent, FirstRun
  <2>2. QED
    BY <1>4, <2>1, MoveKeepsInv
<1>5. CASE PrepareFails(c) \/ CallFails(c) \/ CallSucceeds(c) \/ Commit(c)
  <2>1. UNCHANGED <<status, checkpoint, job, call, submitted, loop, handed, slot>>
    BY <1>5 DEF PrepareFails, CallFails, CallSucceeds, Commit, rows
  <2>2. \/ Moved(c, "prepare", "failing") \/ \E p \in Bracket : Moved(c, p, "lost")
        \/ Moved(c, "polling", "won") \/ Moved(c, "commit", "finish") \/ Moved(c, "commit", "failing")
    BY <1>2, <1>5, FirstRunMoves
  <2>3. ASSUME NEW p \in Bracket, Moved(c, p, "lost") PROVE IInv'
    <3>1. call[t] = "pending"
      BY <1>3, <2>3 DEF Moved, Bracket
    <3>2. QED
      BY <1>3, <1>4, <2>1, <2>3, <3>1 DEF Bracket, FirstRun
  <2>4. CASE Moved(c, "polling", "won")
    <3>1. call[t] = "pending"
      BY <1>3, <2>4 DEF Moved
    <3>2. QED
      BY <1>3, <1>4, <2>1, <2>4, <3>1 DEF FirstRun
  <2>5. CASE Moved(c, "prepare", "failing") \/ Moved(c, "commit", "finish") \/ Moved(c, "commit", "failing")
    BY <1>3, <1>4, <2>1, <2>5 DEF FirstRun
  <2>6. QED
    BY <2>2, <2>3, <2>4, <2>5
<1>6. CASE OpenCall(c)
  <2>1. Moved(c, "prepare", "opened")
    BY <1>2, <1>6, FirstRunMoves
  <2>2. Fresh(t)
    BY <1>3, <2>1 DEF Moved
  <2>3. /\ call' = [call EXCEPT ![t] = "pending"]
        /\ UNCHANGED <<status, checkpoint, job, submitted, loop, handed, slot>>
    BY <1>6 DEF OpenCall, Ledger!StartCall, rows
  <2>4. QED
    BY <1>3, <1>4, <2>1, <2>2, <2>3 DEF FirstRun, Fresh, ProcessOK
<1>7. CASE WriteCheckpoint(c)
  <2>1. Moved(c, "opened", "checkpointed")
    BY <1>2, <1>7, FirstRunMoves
  <2>2. call[t] = "pending" /\ submitted[t] = 0
    BY <1>3, <2>1 DEF Moved
  <2>3. /\ checkpoint' = [checkpoint EXCEPT ![t] = TRUE]
        /\ UNCHANGED <<status, job, call, submitted, loop, handed, slot>>
    BY <1>7 DEF WriteCheckpoint, Queue!PersistCheckpoint
  <2>4. \A u \in Task \ {t} : checkpoint'[u] = checkpoint[u]
    BY <2>3 DEF Queue!TypeOK
  <2>5. QED
    BY <1>3, <1>4, <2>1, <2>2, <2>3, <2>4 DEF FirstRun
<1>8. CASE Submit(c)
  <2>1. Moved(c, "checkpointed", "accepted") \/ Moved(c, "opened", "polling")
    BY <1>2, <1>8, FirstRunMoves
  <2>2. call[t] = "pending" /\ submitted[t] = 0
    BY <1>3, <2>1 DEF Moved
  <2>3. /\ submitted' = [submitted EXCEPT ![t] = @ + 1]
        /\ UNCHANGED <<status, checkpoint, job, call, loop, handed, slot>>
    BY <1>8 DEF Submit, rows
  <2>4. submitted'[t] = 1 /\ \A u \in Task \ {t} : submitted'[u] = submitted[u]
    BY <1>3, <2>2, <2>3 DEF ProcessOK
  <2>5. QED
    BY <1>3, <1>4, <2>1, <2>2, <2>3, <2>4 DEF FirstRun
<1>9. CASE RecordJob(c)
  <2>1. Moved(c, "accepted", "polling")
    BY <1>2, <1>9, FirstRunMoves
  <2>2. call[t] = "pending"
    BY <1>3, <2>1 DEF Moved
  <2>3. /\ job' = [job EXCEPT ![t] = TRUE]
        /\ UNCHANGED <<status, checkpoint, call, submitted, loop, handed, slot>>
    BY <1>9 DEF RecordJob, Queue!PersistJob
  <2>4. (\A u \in Task : job[u] => job'[u]) /\ \A u \in Task \ {t} : job'[u] = job[u]
    BY <2>3 DEF Queue!TypeOK
  <2>5. QED
    BY <1>3, <1>4, <2>1, <2>2, <2>3, <2>4 DEF FirstRun
<1>10. CASE CloseCall(c)
  <2>1. Moved(c, "won", "commit") \/ Moved(c, "lost", "failing")
    BY <1>2, <1>10, FirstRunMoves
  <2>2. /\ \A u \in Task \ {t} : call'[u] = call[u]
        /\ UNCHANGED <<status, checkpoint, job, submitted, loop, handed, slot>>
    BY <1>10 DEF CloseCall, Ledger!FinishCall, rows, ProcessOK
  <2>3. QED
    BY <1>3, <1>4, <2>1, <2>2 DEF FirstRun
<1>11. CASE Drift(c) \/ EndRun(c)
  <2>1. \E p \in {"prepare", "finish", "failing"} : Moved(c, p, "done")
    BY <1>2, <1>11, FirstRunMoves
  <2>2. UNCHANGED <<call, submitted, mode, stop, routing, orphans, ready, retrying, slot>>
    BY <1>11 DEF Drift, EndRun, loop, handed
  <2>3. Ended(t)
    BY <1>3, <1>11, EndsEnd, RequeueEnds DEF Drift, EndRun, At
  <2>4. run'[c].task = t /\ run'[c].pc = "done" /\ \A d \in Co \ {c} : run'[d] = run[d]
    BY <2>1 DEF Moved
  <2>5. "done" \in Spent /\ "done" \notin Resumption
    BY DEF Spent, Resumption
  <2>6. QED
    BY <1>1, <1>3, <2>2, <2>3, <2>4, <2>5, EndKeepsInv
<1>12. QED
  BY <1>5, <1>6, <1>7, <1>8, <1>9, <1>10, <1>11 DEF FirstRunStep, LeavePrepare

(* A handed row has a job and runs nowhere.                                *)
LEMMA RowHanded ==
  ASSUME ProcessOK, IInv, NEW t \in Task, t \in ready \union retrying
  PROVE  /\ job[t] /\ routing # t /\ mode # "down"
         /\ \A d \in Co : ~Executing(d, t)
         /\ \A d \in Co : run[d].task = t => run[d].pc # "prepare"
<1>1. job[t] /\ mode # "down" /\ \A d \in Co : ~Executing(d, t)
  BY DEF IInv, HandedInv, RunInv, LoopInv
<1>2. QED
  BY <1>1 DEF IInv, WaitingInv, Fresh

LEMMA TakeKeepsInv ==
  ASSUME Queue!TypeOK, ProcessOK, IInv, NEW t \in Task, Take(t)
  PROVE  IInv'
<1>1. ASSUME NEW c \in Co, Resume(t, c) PROVE IInv'
  <2>1. /\ t \in ready \union retrying /\ run[c] = Idle /\ ~stop
        /\ ready' \subseteq ready /\ retrying' \subseteq retrying
        /\ \A u \in Task \ {t} : u \in ready' \union retrying' <=> u \in ready \union retrying
        /\ UNCHANGED <<status, checkpoint, job, call, submitted, mode, stop, routing, orphans>>
        /\ \A u \in Task \ {t} : slot'[u] = slot[u]
    BY <1>1 DEF Resume, Register, rows, loop, ProcessOK
  <2>2. run'[c].task = t /\ run'[c].pc = "pending" /\ \A d \in Co \ {c} : run'[d] = run[d]
    BY <1>1, TakingUp DEF Resume, ProcessOK
  <2>3. /\ job[t] /\ routing # t /\ mode # "down"
        /\ \A d \in Co : ~Executing(d, t)
        /\ \A d \in Co : run[d].task = t => run[d].pc # "prepare"
    BY <2>1, RowHanded
  <2>4. "pending" \notin FirstRun /\ run[c].task = None
    BY <2>1 DEF FirstRun, Idle
  <2>5. LoopInv' /\ AtMostOneSubmission'
    BY <2>1, <2>2, <2>3, <2>4 DEF IInv, LoopInv, AtMostOneSubmission
  <2>6. HandedInv'
    BY <2>1, <2>2, <2>3 DEF IInv, HandedInv, Resuming
  <2>7. WaitingInv'
    BY <2>1, <2>2 DEF IInv, WaitingInv, Fresh
  <2>8. \A d \in Co : \A u \in Task : Executing(d, u)' => d # c /\ u # t /\ Executing(d, u)
    BY <2>2, <2>3, <2>4 DEF Executing
  <2>9. RoutingInv'
    BY <2>1, <2>8 DEF IInv, RoutingInv, Executing
  <2>10. RunInv'
    <3>1. SUFFICES ASSUME NEW d \in Co, NEW u \in Task, Executing(d, u)'
                   PROVE  /\ status'[u] = "running"
                          /\ u \notin ready' \union retrying'
                          /\ \A e \in Co \ {d} : run'[e].task = u => run'[e].pc = "done"
      BY DEF RunInv
    <3>2. u # t /\ Executing(d, u)
      BY <2>8, <3>1 DEF Executing
    <3>3. QED
      BY <2>1, <2>2, <3>2 DEF IInv, RunInv
  <2>11. StageInv'
    BY <2>1, <2>2 DEF IInv, StageInv
  <2>12. HandsInv'
    <3>1. \A u \in Task \ {t} : Working(u) => Working(u)'
      BY <2>1, <2>2, <2>4, RowsAssumption DEF Working
    <3>2. Working(t)'
      BY <2>2 DEF Working
    <3>3. QED
      BY <2>1, <3>1, <3>2 DEF IInv, HandsInv
  <2>13. QED
    BY <2>5, <2>6, <2>7, <2>9, <2>10, <2>11, <2>12 DEF IInv
<1>2. ASSUME NEW c \in Co, RefuseResume(t, c) PROVE IInv'
  <2>1. /\ t \in ready \union retrying /\ run[c].task = None
        /\ ready' \union retrying' \subseteq ready \union retrying
        /\ \A u \in Task \ {t} : u \in ready' \union retrying' <=> u \in ready \union retrying
        /\ UNCHANGED <<call, submitted, mode, stop, routing, orphans, slot>>
    BY <1>2 DEF RefuseResume, loop, Idle
  <2>2. Ended(t)
    BY <1>2, EndsEnd DEF RefuseResume
  <2>3. run'[c].task = t /\ run'[c].pc = "nocapacity" /\ \A d \in Co \ {c} : run'[d] = run[d]
    BY <1>2, TakingUp DEF RefuseResume, ProcessOK
  <2>4. job[t] /\ routing # t /\ \A d \in Co : ~Executing(d, t)
    BY <2>1, RowHanded
  <2>5. "nocapacity" \in Spent
    BY DEF Spent
  <2>6. QED
    BY <2>1, <2>2, <2>3, <2>4, <2>5, EndKeepsInv
<1>3. CASE DropHanded(t)
  <2>1. /\ stop /\ ready' = ready \ {t} /\ retrying' = retrying \ {t}
        /\ UNCHANGED <<status, checkpoint, job, call, submitted, mode, stop, routing, orphans, run, slot>>
    BY <1>3 DEF DropHanded, rows, loop, execution
  <2>2. LoopInv' /\ HandedInv' /\ StageInv' /\ AtMostOneSubmission' /\ HandsInv'
    BY <2>1 DEF IInv, LoopInv, HandedInv, StageInv, AtMostOneSubmission, HandsInv, Resuming
  <2>3. WaitingInv' /\ RoutingInv' /\ RunInv'
    BY <2>1 DEF IInv, WaitingInv, RoutingInv, RunInv, Executing, Fresh
  <2>4. QED
    BY <2>2, <2>3 DEF IInv
<1>4. QED
  BY <1>1, <1>2, <1>3 DEF Take

(* A coroutine of a resumption or a refused one is done with its row.      *)
LEMMA LeavingKeepsInv ==
  ASSUME ProcessOK, IInv, NEW c \in Co, run[c].pc \in {"leaving", "nocapacity"},
         run' = [run EXCEPT ![c] = Idle],
         UNCHANGED <<status, checkpoint, job, submitted, mode, stop, routing, orphans, ready, retrying>>,
         \A u \in Task \ {run[c].task} : call'[u] = call[u] /\ slot'[u] = slot[u],
         \/ UNCHANGED slot
         \/ slot'[run[c].task] = None
  PROVE  IInv'
<1> DEFINE t == run[c].task
<1>1. run'[c] = Idle /\ (\A d \in Co \ {c} : run'[d] = run[d]) /\ Idle.task = None /\ Idle.pc = "idle"
  BY GoingIdle DEF ProcessOK, Idle
<1>2. "idle" \notin FirstRun /\ "idle" \notin Resumption
  BY PlaceNames
<1>3. run[c].pc \in Resumption /\ run[c].pc # "idle" /\ run[c].pc \notin FirstRun
  BY PlaceNames DEF Resumption
<1>4. t \in Task /\ job[t] /\ routing # t /\ \A d \in Co : ~Executing(d, t)
  BY <1>3, RowOfRun
<1>5. LoopInv' /\ AtMostOneSubmission'
  BY <1>1, <1>2, <1>4 DEF IInv, LoopInv, AtMostOneSubmission
<1>6. HandedInv'
  BY <1>1, <1>2 DEF IInv, HandedInv, Resuming
<1>7. WaitingInv'
  <2>1. ~(status[t] \in {"absent", "queued"} \/ routing = t
          \/ \E d \in Co : run[d].task = t /\ run[d].pc = "prepare")
    BY <1>4 DEF IInv, WaitingInv, Fresh
  <2>2. QED
    BY <1>1, <2>1, RowsAssumption DEF IInv, WaitingInv, Fresh
<1>8. \A d \in Co : \A u \in Task : Executing(d, u)' => d # c /\ u # t /\ Executing(d, u)
  BY <1>1, <1>2, <1>4 DEF Executing
<1>9. RoutingInv'
  BY <1>8 DEF IInv, RoutingInv, Executing
<1>10. RunInv'
  <2>1. SUFFICES ASSUME NEW d \in Co, NEW u \in Task, Executing(d, u)'
                 PROVE  /\ status'[u] = "running"
                        /\ u \notin ready' \union retrying'
                        /\ \A e \in Co \ {d} : run'[e].task = u => run'[e].pc = "done"
    BY DEF RunInv
  <2>2. u # t /\ Executing(d, u)
    BY <1>8, <2>1 DEF Executing
  <2>3. QED
    BY <1>1, <2>2, RowsAssumption DEF IInv, RunInv
<1>11. StageInv'
  <2>1. SUFFICES ASSUME NEW d \in Co, NEW u \in Task, run'[d].task = u,
                        run'[d].pc \in {"opened", "checkpointed", "accepted", "polling", "won", "lost"}
                 PROVE  /\ call'[u] = "pending"
                        /\ run'[d].pc \in {"opened", "checkpointed"} => submitted'[u] = 0
    BY DEF StageInv
  <2>2. Executing(d, u) /\ u # t /\ d # c
    BY <1>8, <2>1 DEF Executing, FirstRun
  <2>3. QED
    BY <1>1, <2>1, <2>2 DEF IInv, StageInv
<1>12. HandsInv'
  <2>1. \A u \in Task : Working(u) => Working(u)'
    BY <1>1 DEF Working
  <2>2. \A u \in Task : slot[u] = None => slot'[u] = None
    BY <1>4
  <2>3. QED
    BY <2>1, <2>2 DEF IInv, HandsInv
<1>13. QED
  BY <1>5, <1>6, <1>7, <1>9, <1>10, <1>11, <1>12 DEF IInv

LEMMA ResumptionKeepsInv ==
  ASSUME Queue!TypeOK, ProcessOK, IInv, NEW c \in Co, ResumptionStep(c)
  PROVE  IInv'
<1> DEFINE t == run[c].task
<1>1. run[c].pc \in Resumption
  BY DEF ResumptionStep, Promote, LookUpCall, Repoll, RepollExpired, SettleSuccess, Recommit, EndResumption,
         SettleUnresumable, Leave, At, Resumption
<1>2. RunOK /\ run[c].pc # "idle"
  BY <1>1, PlaceNames DEF ProcessOK
<1>3. t \in Task /\ job[t] /\ routing # t /\ submitted[t] <= 1 /\ \A d \in Co : ~Executing(d, t)
  BY <1>1, <1>2, RowOfRun
<1>4. ASSUME NEW p, NEW q, Moved(c, p, q), {p, q} \subseteq Resumption,
             UNCHANGED <<status, checkpoint, job, submitted, loop, handed, slot>>,
             \A u \in Task \ {t} : call'[u] = call[u],
             q \in Spent => p \in Spent \/ stop
      PROVE  IInv'
  <2>1. q \notin {"prepare", "opened", "checkpointed", "accepted", "polling", "won", "lost"}
    BY <1>4 DEF Resumption
  <2>2. QED
    BY <1>3, <1>4, <2>1, MoveKeepsInv
<1>5. CASE Promote(c) \/ LookUpCall(c) \/ Repoll(c) \/ Recommit(c)
  <2>1. UNCHANGED <<status, checkpoint, job, submitted, call, loop, handed, slot>>
    BY <1>5 DEF Promote, LookUpCall, Repoll, Recommit, rows
  <2>2. \/ Moved(c, "pending", "leaving") /\ stop
        \/ Moved(c, "pending", "lookup") \/ Moved(c, "lookup", "repolling")
        \/ Moved(c, "repolling", "rewon") \/ Moved(c, "repolling", "refailing")
        \/ Moved(c, "recommit", "refinish") \/ Moved(c, "recommit", "refailing")
    BY <1>2, <1>5, ResumptionMoves, LookUpMoves
  <2>3. QED
    BY <1>4, <2>1, <2>2 DEF Resumption, Spent
<1>6. CASE RepollExpired(c) \/ SettleSuccess(c)
  <2>1. /\ UNCHANGED <<status, checkpoint, job, submitted, loop, handed, slot>>
        /\ \A u \in Task \ {t} : call'[u] = call[u]
    BY <1>6 DEF RepollExpired, SettleSuccess, Ledger!FinalizePending, rows, ProcessOK
  <2>2. Moved(c, "repolling", "refailing") \/ Moved(c, "rewon", "recommit")
    BY <1>2, <1>6, ResumptionMoves
  <2>3. QED
    BY <1>4, <2>1, <2>2 DEF Resumption, Spent
<1>7. CASE EndResumption(c)
  <2>1. Ended(t)
    BY <1>3, <1>7, EndsEnd DEF EndResumption
  <2>2. Moved(c, "refinish", "leaving") \/ Moved(c, "refailing", "settling")
    BY <1>2, <1>7, ResumptionMoves
  <2>3. UNCHANGED <<call, submitted, mode, stop, routing, orphans, ready, retrying, slot>>
    BY <1>7 DEF EndResumption, loop, handed
  <2>4. run'[c].task = t /\ run'[c].pc \in Spent \ {"done"} /\ \A d \in Co \ {c} : run'[d] = run[d]
    BY <2>2 DEF Moved, Spent
  <2>5. QED
    BY <1>3, <2>1, <2>3, <2>4, EndKeepsInv
<1>8. CASE SettleUnresumable(c) /\ run[c].pc # "nocapacity"
  <2>1. /\ UNCHANGED <<status, checkpoint, job, submitted, loop, handed, slot>>
        /\ \A u \in Task \ {t} : call'[u] = call[u]
    BY <1>8 DEF SettleUnresumable, Ledger!FinalizePending, rows, ProcessOK
  <2>2. Moved(c, "settling", "leaving") \/ Moved(c, "resettle", "leaving")
    BY <1>2, <1>8, ResumptionMoves
  <2>3. QED
    BY <1>4, <2>1, <2>2 DEF Resumption, Spent
<1>9. CASE Leave(c) \/ (SettleUnresumable(c) /\ run[c].pc = "nocapacity")
  <2>1. /\ run[c].pc \in {"leaving", "nocapacity"}
        /\ run' = [run EXCEPT ![c] = Idle]
        /\ UNCHANGED <<status, checkpoint, job, submitted, mode, stop, routing, orphans, ready, retrying>>
    BY <1>9 DEF Leave, SettleUnresumable, At, rows, loop, handed
  <2>2. /\ \A u \in Task \ {t} : call'[u] = call[u] /\ slot'[u] = slot[u]
        /\ UNCHANGED slot \/ slot'[t] = None
    BY <1>3, <1>9 DEF Leave, SettleUnresumable, Ledger!FinalizePending, Release, ProcessOK
  <2>3. QED
    BY <2>1, <2>2, LeavingKeepsInv
<1>10. QED
  BY <1>5, <1>6, <1>7, <1>8, <1>9 DEF ResumptionStep

LEMMA InterruptKeepsInv ==
  ASSUME Queue!TypeOK, ProcessOK, IInv, NEW c \in Co, InterruptStep(c)
  PROVE  IInv'
<1> DEFINE t == run[c].task
<1>1. run[c].pc \in Interruptible \union {"cut", "recut"}
  BY DEF InterruptStep, Interrupt, EndInterrupted
<1>2. RunOK /\ run[c].pc # "idle" /\ run[c].pc \in (FirstRun \ {"done"}) \union Resumption
  BY <1>1 DEF ProcessOK, Interruptible, FirstRun, Resumption
<1>3. /\ t \in Task /\ routing # t /\ submitted[t] <= 1
      /\ \A d \in Co \ {c} : ~Executing(d, t)
      /\ run[c].pc \in Resumption => job[t] /\ ~Executing(c, t)
  BY <1>2, RowOfRun
<1>4. CASE Interrupt(c)
  <2>1. PICK p \in Interruptible : Moved(c, p, IF p \in FirstRun THEN "cut" ELSE "recut")
    BY <1>2, <1>4, InterruptMoves
  <2>2. /\ UNCHANGED <<status, checkpoint, job, submitted, loop, handed, slot>>
        /\ \A u \in Task \ {t} : call'[u] = call[u]
    BY <1>4 DEF Interrupt, Ledger!FinishCall, rows, ProcessOK
  <2>3. CASE p \in FirstRun
    <3>1. Moved(c, p, "cut") /\ {p, "cut"} \subseteq FirstRun \ {"done"}
      BY <2>1, <2>3 DEF FirstRun, Interruptible
    <3>2. QED
      BY <1>3, <2>2, <3>1, MoveKeepsInv DEF Spent
  <2>4. CASE p \notin FirstRun
    <3>1. Moved(c, p, "recut") /\ {p, "recut"} \subseteq Resumption
      BY <2>1, <2>4 DEF FirstRun, Resumption, Interruptible
    <3>2. QED
      BY <1>3, <2>2, <3>1, MoveKeepsInv DEF Spent
  <2>5. QED
    BY <2>3, <2>4
<1>5. CASE EndInterrupted(c)
  <2>1. Ended(t)
    BY <1>3, <1>5, EndsEnd DEF EndInterrupted
  <2>2. Moved(c, "cut", "done") \/ Moved(c, "recut", "resettle")
    BY <1>2, <1>5, InterruptMoves
  <2>3. UNCHANGED <<call, submitted, mode, stop, routing, orphans, ready, retrying, slot>>
    BY <1>5 DEF EndInterrupted, loop, handed
  <2>4. run'[c].task = t /\ \A d \in Co \ {c} : run'[d] = run[d]
    BY <2>2 DEF Moved
  <2>5. \/ run[c].pc \in FirstRun /\ run'[c].pc = "done"
        \/ run[c].pc \in Resumption /\ run'[c].pc = "resettle"
    BY <2>2 DEF Moved, FirstRun, Resumption
  <2>6. "done" \in Spent /\ "resettle" \in Spent /\ "done" \notin Resumption
    BY DEF Spent, Resumption
  <2>7. QED
    BY <1>3, <2>1, <2>3, <2>4, <2>5, <2>6, EndKeepsInv
<1>6. QED
  BY <1>4, <1>5 DEF InterruptStep

(* Stopping, crashing and starting again leave the rows as they are.       *)
LEMMA ShutdownKeepsInv == ProcessOK /\ IInv /\ (Stop \/ Shutdown \/ Crash \/ Restart) => IInv'
<1> SUFFICES ASSUME ProcessOK, IInv, Stop \/ Shutdown \/ Crash \/ Restart PROVE IInv'
  OBVIOUS
<1>1. CASE Stop \/ LeaveLoop \/ BeginTeardown \/ Restart
  <2>1. UNCHANGED <<status, checkpoint, job, call, submitted, routing, orphans, ready, retrying, run, slot>>
    BY <1>1 DEF Stop, LeaveLoop, BeginTeardown, Restart, rows, handed, execution
  <2>2. HandedInv' /\ WaitingInv' /\ RoutingInv' /\ RunInv' /\ StageInv' /\ AtMostOneSubmission'
    BY <2>1 DEF IInv, HandedInv, WaitingInv, RoutingInv, RunInv, StageInv, AtMostOneSubmission,
                Resuming, Executing, Fresh
  <2>3. LoopInv'
    BY <1>1, <2>1 DEF Stop, LeaveLoop, BeginTeardown, Restart, IInv, LoopInv, ProcessOK
  <2>4. HandsInv'
    BY <1>1, <2>1 DEF Stop, LeaveLoop, BeginTeardown, Restart, IInv, LoopInv, HandsInv
  <2>5. QED
    BY <2>2, <2>3, <2>4 DEF IInv
<1>2. CASE LoseProcess
  <2>1. /\ UNCHANGED <<status, checkpoint, job, call, submitted>>
        /\ mode' = "down" /\ ~stop' /\ routing' = None /\ orphans' = {} /\ ready' = {} /\ retrying' = {}
    BY <1>2 DEF LoseProcess, rows
  <2>2. \A c \in Co : run'[c].pc = "idle" /\ run'[c].task = None
    BY <1>2 DEF LoseProcess, Idle
  <2>3. \A t \in Task : slot'[t] = None
    BY <1>2 DEF LoseProcess
  <2>4. LoopInv' /\ AtMostOneSubmission' /\ HandsInv'
    BY <2>1, <2>2, <2>3, PlaceNames DEF IInv, LoopInv, AtMostOneSubmission, HandsInv
  <2>5. HandedInv' /\ WaitingInv'
    BY <2>1, <2>2, RowsAssumption DEF IInv, HandedInv, WaitingInv, Resuming, Fresh
  <2>6. RoutingInv' /\ RunInv' /\ StageInv'
    BY <2>1, <2>2, RowsAssumption DEF RoutingInv, RunInv, StageInv, Executing
  <2>7. QED
    BY <2>4, <2>5, <2>6 DEF IInv
<1>3. QED
  BY <1>1, <1>2 DEF Shutdown, EndProcess, Crash

-----------------------------------------------------------------------------
(* The invariant.                                                          *)
LEMMA InitInv == Init => IInv
<1> SUFFICES ASSUME Init PROVE IInv
  OBVIOUS
<1>1. /\ \A c \in Co : run[c].pc = "idle" /\ run[c].task = None
      /\ routing = None /\ orphans = {} /\ ready = {} /\ retrying = {} /\ mode = "list" /\ ~stop
      /\ \A t \in Task : status[t] = "absent" /\ submitted[t] = 0 /\ slot[t] = None /\ Fresh(t)
  BY DEF Init, Idle, Queue!Init, Ledger!Init, Fresh
<1>2. LoopInv /\ HandedInv /\ WaitingInv
  BY <1>1, RowsAssumption, PlaceNames DEF LoopInv, HandedInv, WaitingInv, Resuming
<1>3. RoutingInv /\ RunInv /\ StageInv /\ AtMostOneSubmission /\ HandsInv
  BY <1>1, RowsAssumption DEF RoutingInv, RunInv, StageInv, AtMostOneSubmission, HandsInv, Executing
<1>4. QED
  BY <1>2, <1>3 DEF IInv

LEMMA NextInv == Queue!TypeOK /\ ProcessOK /\ IInv /\ [Next]_vars => IInv'
<1> SUFFICES ASSUME Queue!TypeOK, ProcessOK, IInv, [Next]_vars PROVE IInv'
  OBVIOUS
<1>1. CASE UNCHANGED vars
  <2>1. UNCHANGED <<status, checkpoint, job, call, submitted, mode, stop, routing, orphans, ready, retrying,
                    run, slot>>
    BY <1>1 DEF vars, rows, loop, handed, execution
  <2>2. QED
    BY <2>1 DEF IInv, LoopInv, HandedInv, WaitingInv, RoutingInv, RunInv, StageInv, AtMostOneSubmission,
                HandsInv, Working, Resuming, Executing, Fresh
<1>2. QED
  BY <1>1, RequestKeepsInv, RecoveryKeepsInv, ClaimKeepsInv, RouteKeepsInv, DrainKeepsInv, FirstRunKeepsInv,
     TakeKeepsInv, ResumptionKeepsInv, InterruptKeepsInv, ShutdownKeepsInv DEF Next

-----------------------------------------------------------------------------
(* What TaskQueue_proofs proves of the task table holds of the worker's.   *)
LEMMA SameCascade == ASSUME NEW t PROVE Queue!QueuedDependents(t) = Rows!QueuedDependents(t)
BY DEF Queue!QueuedDependents, Rows!QueuedDependents, Queue!QueuedClosed, Rows!QueuedClosed,
       Queue!With, Rows!With

LEMMA SameTable == Queue!Spec => Rows!Spec
<1>1. Queue!Init => Rows!Init
  BY DEF Queue!Init, Rows!Init
<1>2. [Queue!Next]_(Queue!vars) => [Rows!Next]_(Rows!vars)
  BY SameCascade
     DEF Queue!Next, Rows!Next, Queue!vars, Rows!vars, Queue!key, Rows!key, Queue!Code, Rows!Code,
         Queue!With, Rows!With, Queue!Active, Rows!Active, Queue!ActiveStatus, Rows!ActiveStatus,
         Queue!KeyOf, Rows!KeyOf, Queue!IndexAdmits, Rows!IndexAdmits,
         Queue!DependencySucceeded, Rows!DependencySucceeded,
         Queue!EndWithDependents, Rows!EndWithDependents,
         Queue!Enqueue, Rows!Enqueue, Queue!ClaimNext, Rows!ClaimNext,
         Queue!MarkSucceeded, Rows!MarkSucceeded, Queue!MarkFailed, Rows!MarkFailed,
         Queue!Requeue, Rows!Requeue, Queue!CancelTask, Rows!CancelTask,
         Queue!FinalizeInterrupted, Rows!FinalizeInterrupted,
         Queue!BulkCancellable, Rows!BulkCancellable, Queue!CancelAllQueued, Rows!CancelAllQueued,
         Queue!OfLive, Rows!OfLive, Queue!Retire, Rows!Retire,
         Queue!PersistCheckpoint, Rows!PersistCheckpoint, Queue!PersistJob, Rows!PersistJob,
         Queue!ReopenDownload, Rows!ReopenDownload
<1>3. QED
  BY <1>1, <1>2, PTL DEF Queue!Spec, Rows!Spec

LEMMA RowsTyped == Spec => []Queue!TypeOK
<1>1. Rows!TypeOK <=> Queue!TypeOK
  BY DEF Rows!TypeOK, Queue!TypeOK, Rows!Status, Queue!Status, Rows!Code, Queue!Code, Rows!KeyOf, Queue!KeyOf
<1>2. QED
  BY <1>1, RowsAssumption, Rows!TypeCorrect, SameTable, WorkerUsesQueue, PTL

(* The state of the worker and of the rows is well typed in every          *)
(* reachable state.                                                        *)
THEOREM WorkerTypeCorrect == Spec => []TypeOK
<1>1. QED
  BY RowsTyped, ProcessTypes, TypeParts, PTL

(* Under the worker, whatever requeues, retries and restarts there are, an *)
(* active dedupe key has one row, no row runs before its prerequisite      *)
(* succeeded, and nothing that ends a row strands its waiters.             *)
THEOREM WorkerKeepsTablePromises ==
  Spec => /\ []Queue!ActiveDedupe
          /\ []Queue!RunningDependencySucceeded
          /\ Queue!NeverStrandsAWaiter
<1>1. Rows!ActiveDedupe <=> Queue!ActiveDedupe
  BY DEF Rows!ActiveDedupe, Queue!ActiveDedupe, Rows!Active, Queue!Active,
         Rows!ActiveStatus, Queue!ActiveStatus, Rows!KeyOf, Queue!KeyOf
<1>2. Rows!RunningDependencySucceeded <=> Queue!RunningDependencySucceeded
  BY DEF Rows!RunningDependencySucceeded, Queue!RunningDependencySucceeded, Rows!With, Queue!With
<1>3. Rows!NeverStrandsAWaiter <=> Queue!NeverStrandsAWaiter
  BY DEF Rows!NeverStrandsAWaiter, Queue!NeverStrandsAWaiter, Rows!Dead, Queue!Dead,
         Rows!ActiveStatus, Queue!ActiveStatus, Rows!vars, Queue!vars
<1>4. QED
  BY <1>1, <1>2, <1>3, RowsAssumption, Rows!OneActiveRowPerKey, Rows!ExecutionFollowsPrerequisite,
     Rows!NoWaiterIsStranded, SameTable, WorkerUsesQueue, PTL

-----------------------------------------------------------------------------
(* Safety of the worker.                                                   *)
LEMMA WorkerInvariant == Spec => []IInv
<1>1. QED
  BY InitInv, NextInv, RowsTyped, ProcessTypes, PTL DEF Spec

(* A task is submitted to its provider at most once: the only steps that   *)
(* lead to a submission start from a row nothing was done for.             *)
THEOREM SubmittedOnce == Spec => []AtMostOneSubmission
<1>1. IInv => AtMostOneSubmission
  BY DEF IInv
<1>2. QED
  BY <1>1, WorkerInvariant, PTL

(* Once the startup scan is over, no running row is forgotten.             *)
THEOREM NoRunningRowForgotten == Spec => []RunningHasExecutor
<1>1. IInv => RunningHasExecutor
  BY DEF IInv, HandsInv, LoopInv, RunningHasExecutor, Queue!With
<1>2. QED
  BY <1>1, WorkerInvariant, PTL

(* No step takes back the success of a call.                               *)
LEMMA StepKeepsSuccess ==
  ASSUME ProcessOK, IInv, [Next]_vars, NEW t \in Task, call[t] = "success"
  PROVE  call'[t] = "success"
<1> USE DEF ProcessOK
<1>1. ASSUME NEW u \in Task, RetryDownload(u) PROVE call'[t] = "success"
  BY <1>1 DEF RetryDownload, Ledger!ReopenCall
<1>2. CASE SettleCalls
  BY <1>2 DEF SettleCalls, Ledger!SettleInterrupted
<1>3. ASSUME NEW c \in Co, OpenCall(c) \/ CloseCall(c) \/ Interrupt(c) PROVE call'[t] = "success"
  <2>1. /\ OpenCall(c) => run[c].pc = "prepare"
        /\ CloseCall(c) => run[c].pc \in {"won", "lost"}
        /\ Interrupt(c) => run[c].pc \in Interruptible
    BY DEF OpenCall, CloseCall, Interrupt, At
  <2>2. run[c].pc # "idle"
    BY <1>3, <2>1 DEF Interruptible
  <2>3. /\ run[c].pc = "prepare" => Fresh(run[c].task)
        /\ run[c].pc \in {"opened", "checkpointed", "accepted", "polling", "won", "lost"}
             => call[run[c].task] = "pending"
    BY <2>2, RowOfRun
  <2>4. run[c].task # t \/ UNCHANGED call
    BY <1>3, <2>1, <2>3 DEF Interrupt, Fresh
  <2>5. QED
    BY <1>3, <2>4 DEF OpenCall, CloseCall, Interrupt, Ledger!StartCall, Ledger!FinishCall
<1>4. ASSUME NEW c \in Co, RepollExpired(c) \/ SettleSuccess(c) \/ SettleUnresumable(c)
      PROVE  call'[t] = "success"
  BY <1>4 DEF RepollExpired, SettleSuccess, SettleUnresumable, Ledger!FinalizePending
<1>5. ASSUME \/ \E u \in Task : \/ Cancel(u) \/ FailOrphan(u) \/ HandOrphan(u) \/ Claim(u)
                                \/ RejectUnsupported(u) \/ PutBackFull(u) \/ DropHanded(u)
             \/ \E u \in Task, p \in Project, x \in Unit, d \in Task \union {None} : Enqueue(u, p, x, d)
             \/ \E u \in Task, c \in Co : Dispatch(u, c) \/ Resume(u, c) \/ RefuseResume(u, c)
             \/ ListOrphans \/ SkipSelfActive \/ ScanDone \/ Stop \/ Shutdown \/ Crash \/ Restart
             \/ UNCHANGED vars
      PROVE  UNCHANGED call
  BY <1>5 DEF Cancel, FailOrphan, HandOrphan, Claim, RejectUnsupported, PutBackFull, DropHanded, Enqueue,
              Dispatch, Resume, RefuseResume, ListOrphans, SkipSelfActive, ScanDone, Stop, Shutdown,
              LeaveLoop, BeginTeardown, EndProcess, Crash, LoseProcess, Restart, vars
<1>6. ASSUME NEW c \in Co,
             \/ Drain(c) \/ Drift(c) \/ PrepareFails(c) \/ WriteCheckpoint(c) \/ Submit(c)
             \/ RecordJob(c) \/ CallFails(c) \/ CallSucceeds(c) \/ Commit(c) \/ EndRun(c)
             \/ Promote(c) \/ LookUpCall(c) \/ Repoll(c) \/ Recommit(c) \/ EndResumption(c)
             \/ Leave(c) \/ EndInterrupted(c)
      PROVE  UNCHANGED call
  BY <1>6 DEF Drain, Drift, PrepareFails, WriteCheckpoint, Submit, RecordJob, CallFails, CallSucceeds,
              Commit, EndRun, Promote, LookUpCall, Repoll, Recommit, EndResumption, Leave, EndInterrupted
<1>7. QED
  BY <1>1, <1>2, <1>3, <1>4, <1>5, <1>6
     DEF Next, Request, Recovery, Route, FirstRunStep, LeavePrepare, ResumptionStep, Take, InterruptStep

(* A call billed as a success stays so, whichever writer comes late.       *)
THEOREM SuccessIsKept == Spec => BilledSuccessIsKept
<1>1. ProcessOK /\ IInv /\ [Next]_vars
        => [\A t \in Task : call[t] = "success" => call'[t] = "success"]_vars
  BY StepKeepsSuccess
<1>2. QED
  BY <1>1, WorkerInvariant, ProcessTypes, PTL DEF Spec, BilledSuccessIsKept
=============================================================================
