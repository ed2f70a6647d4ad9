-------------------------- MODULE TaskQueue_proofs --------------------------
(***************************************************************************)
(* Theorems about the task table, for every set of tasks, projects, units  *)
(* and seconds: type correctness, one active row per dedupe key, execution *)
(* only behind a succeeded prerequisite, no stranded waiter, and the       *)
(* refinement of the life cycle.                                           *)
(***************************************************************************)
EXTENDS TaskQueue, TLAPS

-----------------------------------------------------------------------------
(* The cascade visits queued rows only.                                    *)
LEMMA QueuedDependentsAreQueued ==
  \A t \in Task : \A u \in QueuedDependents(t) : u \in Task /\ status[u] = "queued"
BY DEF QueuedDependents, With

(* The cascade misses no queued row that waits on a row it ends.           *)
LEMMA QueuedDependentsAreClosed ==
  ASSUME NEW t \in Task, NEW v \in Task, status[v] = "queued",
         dep[v] \in QueuedDependents(t) \union {t}
  PROVE  v \in QueuedDependents(t)
<1>1. v \in With("queued")
  BY DEF With
<1>2. SUFFICES ASSUME NEW S \in SUBSET With("queued"), QueuedClosed(S, t)
               PROVE  v \in S
  BY <1>1 DEF QueuedDependents
<1>3. dep[v] \in S \union {t}
  BY <1>2 DEF QueuedDependents
<1>4. QED
  BY <1>1, <1>2, <1>3 DEF QueuedClosed

-----------------------------------------------------------------------------
(* Type correctness.                                                       *)
LEMMA InitType == Init => TypeOK
BY NoneAssumption DEF Init, TypeOK, Status, Code, KeyOf

(* Every repository call keeps the columns well typed.                     *)
LEMMA NextType == TypeOK /\ [Next]_vars => TypeOK'
<1> SUFFICES ASSUME TypeOK, [Next]_vars PROVE TypeOK'
  OBVIOUS
<1> USE DEF TypeOK, Status, Code, KeyOf
<1>1. ASSUME NEW t \in Task, NEW p \in Project, NEW x \in Unit,
             NEW d \in Task \union {None}, Enqueue(t, p, x, d)
      PROVE  TypeOK'
  BY <1>1 DEF Enqueue
<1>2. ASSUME NEW t \in Task, ClaimNext(t) PROVE TypeOK'
  BY <1>2 DEF ClaimNext, key
<1>3. ASSUME NEW t \in Task, MarkSucceeded(t) PROVE TypeOK'
  BY <1>3 DEF MarkSucceeded, key
<1>4. ASSUME NEW t \in Task, NEW c \in Code \ {"none"}, MarkFailed(t, c)
      PROVE  TypeOK'
  BY <1>4, QueuedDependentsAreQueued DEF MarkFailed, EndWithDependents, key
<1>5. ASSUME NEW T \in SUBSET Task, Requeue(T) PROVE TypeOK'
  BY <1>5 DEF Requeue, key
<1>6. ASSUME NEW t \in Task, CancelTask(t) PROVE TypeOK'
  BY <1>6, QueuedDependentsAreQueued DEF CancelTask, EndWithDependents, key
<1>7. ASSUME NEW t \in Task, FinalizeInterrupted(t) PROVE TypeOK'
  BY <1>7, QueuedDependentsAreQueued
     DEF FinalizeInterrupted, EndWithDependents, ActiveStatus, key
<1>8. ASSUME NEW p \in Project, CancelAllQueued(p) PROVE TypeOK'
  BY <1>8 DEF CancelAllQueued, BulkCancellable, With, key
<1>9. ASSUME NEW p \in Project, NEW s \in Second, Retire(p, s) PROVE TypeOK'
  BY <1>9, NoneAssumption DEF Retire, OfLive
<1>10. ASSUME NEW t \in Task, PersistCheckpoint(t) PROVE TypeOK'
  BY <1>10 DEF PersistCheckpoint, key
<1>11. ASSUME NEW t \in Task, PersistJob(t) PROVE TypeOK'
  BY <1>11 DEF PersistJob, key
<1>12. ASSUME NEW t \in Task, ReopenDownload(t) PROVE TypeOK'
  BY <1>12 DEF ReopenDownload, key
<1>13. CASE UNCHANGED vars
  BY <1>13 DEF vars
<1>14. QED
  BY <1>1, <1>2, <1>3, <1>4, <1>5, <1>6, <1>7, <1>8, <1>9, <1>10, <1>11,
     <1>12, <1>13 DEF Next

(* Every reachable task table is well typed.                               *)
THEOREM TypeCorrect == Spec => []TypeOK
<1>1. QED
  BY InitType, NextType, PTL DEF Spec

-----------------------------------------------------------------------------
(* One active row per dedupe key.  The index guards the three steps that   *)
(* can bring two keys together: an insert, a retry and a rename.           *)
LEMMA NextDedupe == TypeOK /\ ActiveDedupe /\ [Next]_vars => ActiveDedupe'
<1> SUFFICES ASSUME TypeOK, ActiveDedupe, [Next]_vars PROVE ActiveDedupe'
  OBVIOUS
<1> USE DEF ActiveDedupe, Active, ActiveStatus, KeyOf
<1>1. ASSUME NEW t \in Task, NEW p \in Project, NEW x \in Unit,
             NEW d \in Task \union {None}, Enqueue(t, p, x, d)
      PROVE  ActiveDedupe'
  BY <1>1 DEF Enqueue, IndexAdmits, TypeOK
<1>2. ASSUME NEW t \in Task, ClaimNext(t) PROVE ActiveDedupe'
  BY <1>2 DEF ClaimNext, key, TypeOK
<1>3. ASSUME NEW t \in Task, MarkSucceeded(t) PROVE ActiveDedupe'
  BY <1>3 DEF MarkSucceeded, key, TypeOK
<1>4. ASSUME NEW t \in Task, NEW c \in Code \ {"none"}, MarkFailed(t, c)
      PROVE  ActiveDedupe'
  BY <1>4 DEF MarkFailed, EndWithDependents, key, TypeOK
<1>5. ASSUME NEW T \in SUBSET Task, Requeue(T) PROVE ActiveDedupe'
  BY <1>5 DEF Requeue, key, TypeOK
<1>6. ASSUME NEW t \in Task, CancelTask(t) PROVE ActiveDedupe'
  BY <1>6 DEF CancelTask, EndWithDependents, key, TypeOK
<1>7. ASSUME NEW t \in Task, FinalizeInterrupted(t) PROVE ActiveDedupe'
  BY <1>7 DEF FinalizeInterrupted, EndWithDependents, key, TypeOK
<1>8. ASSUME NEW p \in Project, CancelAllQueued(p) PROVE ActiveDedupe'
  BY <1>8 DEF CancelAllQueued, key, TypeOK
<1>9. ASSUME NEW p \in Project, NEW s \in Second, Retire(p, s)
      PROVE  ActiveDedupe'
  <2> SUFFICES ASSUME NEW t \in Active', NEW u \in Active', KeyOf(t)' = KeyOf(u)',
                      t # u
               PROVE  FALSE
    OBVIOUS
  <2>1. t \in Active /\ u \in Active
    BY <1>9 DEF Retire, TypeOK
  <2>2. \A v \in Active' : v \in OfLive(p) => v \in OfLive(p) \intersect With("running")
    BY <1>9 DEF Retire, OfLive, With, TypeOK
  <2>3. owner[t] = owner[u] /\ unit[t] = unit[u] /\ tomb'[t] = tomb'[u]
    BY <1>9 DEF Retire
  <2>4. CASE t \in OfLive(p) /\ u \notin OfLive(p)
    <3>1. KeyOf(u) = <<p, s, unit[t]>>
      BY <1>9, <2>3, <2>4 DEF Retire, OfLive, TypeOK
    <3>2. QED
      BY <1>9, <2>1, <2>2, <2>4, <3>1 DEF Retire, IndexAdmits
  <2>5. CASE u \in OfLive(p) /\ t \notin OfLive(p)
    <3>1. KeyOf(t) = <<p, s, unit[u]>>
      BY <1>9, <2>3, <2>5 DEF Retire, OfLive, TypeOK
    <3>2. QED
      BY <1>9, <2>1, <2>2, <2>5, <3>1 DEF Retire, IndexAdmits
  <2>6. CASE t \in OfLive(p) <=> u \in OfLive(p)
    BY <1>9, <2>1, <2>3, <2>6 DEF Retire, OfLive, TypeOK
  <2>7. QED
    BY <2>4, <2>5, <2>6
<1>10. ASSUME NEW t \in Task, PersistCheckpoint(t) PROVE ActiveDedupe'
  BY <1>10 DEF PersistCheckpoint, key
<1>11. ASSUME NEW t \in Task, PersistJob(t) PROVE ActiveDedupe'
  BY <1>11 DEF PersistJob, key
<1>12. ASSUME NEW t \in Task, ReopenDownload(t) PROVE ActiveDedupe'
  BY <1>12 DEF ReopenDownload, IndexAdmits, key, TypeOK
<1>13. CASE UNCHANGED vars
  BY <1>13 DEF vars
<1>14. QED
  BY <1>1, <1>2, <1>3, <1>4, <1>5, <1>6, <1>7, <1>8, <1>9, <1>10, <1>11,
     <1>12, <1>13 DEF Next

(* No two active rows ever share a dedupe key, whatever requeues, retries  *)
(* and deletions of projects happen.                                       *)
THEOREM OneActiveRowPerKey == Spec => []ActiveDedupe
<1>1. Init => ActiveDedupe
  BY DEF Init, ActiveDedupe, Active, ActiveStatus
<1>2. QED
  BY <1>1, TypeCorrect, NextDedupe, PTL DEF Spec

-----------------------------------------------------------------------------
(* Prerequisites.  RunningDependencySucceeded is not inductive: a retried  *)
(* row runs again on the strength of its first claim, so the rows a retry  *)
(* may take are carried along, and with them the shape of dependencies.    *)
DependencyInv ==
  /\ DependencyShape
  /\ RunningDependencySucceeded
  /\ RetryableDependencySucceeded

(* A step that ends active rows, and never reopens one.                    *)
LEMMA EndingKeepsDependencies ==
  ASSUME TypeOK, DependencyInv, UNCHANGED <<key, dep>>, NEW D \in SUBSET Active,
         NEW s \in Dead,
         status' = [u \in Task |-> IF u \in D THEN s ELSE status[u]],
         code' \in [Task -> Code],
         \A u \in Task : code'[u] # code[u] /\ code'[u] = "download" => status[u] = "running"
  PROVE  DependencyInv'
<1> USE DEF DependencyInv, Active, ActiveStatus, Dead, With, key
<1>1. DependencyShape'
  BY DEF DependencyShape, TypeOK
<1>2. RunningDependencySucceeded'
  BY DEF RunningDependencySucceeded, TypeOK
<1>3. RetryableDependencySucceeded'
  <2> SUFFICES ASSUME NEW t \in With("failed")', code'[t] = "download", dep'[t] # None
               PROVE  status'[dep'[t]] = "succeeded"
    BY DEF RetryableDependencySucceeded
  <2>1. CASE status[t] = "running"
    BY <2>1 DEF RunningDependencySucceeded, TypeOK
  <2>2. CASE status[t] # "running"
    BY <2>2 DEF RetryableDependencySucceeded, TypeOK
  <2>3. QED
    BY <2>1, <2>2
<1>4. QED
  BY <1>1, <1>2, <1>3

(* Every repository call keeps the facts about prerequisites.              *)
LEMMA NextDependency == TypeOK /\ DependencyInv /\ [Next]_vars => DependencyInv'
<1> SUFFICES ASSUME TypeOK, DependencyInv, [Next]_vars PROVE DependencyInv'
  OBVIOUS
<1> DEFINE Parts == /\ DependencyShape'
                    /\ RunningDependencySucceeded'
                    /\ RetryableDependencySucceeded'
<1>a. Parts => DependencyInv'
  BY DEF DependencyInv
<1> USE DEF DependencyShape, RunningDependencySucceeded,
            RetryableDependencySucceeded, With
<1>1. ASSUME NEW t \in Task, NEW p \in Project, NEW x \in Unit,
             NEW d \in Task \union {None}, Enqueue(t, p, x, d)
      PROVE  DependencyInv'
  <2>1. \A u \in Task : dep[u] # t
    BY <1>1, NoneAssumption DEF Enqueue, DependencyInv, TypeOK
  <2>2. \A u \in Task : u # t => dep'[u] = dep[u] /\ status'[u] = status[u]
    BY <1>1 DEF Enqueue, TypeOK
  <2>3. status'[t] = "queued" /\ tomb'[t] = Live /\ owner'[t] = p /\ unit'[t] = x
    BY <1>1 DEF Enqueue, TypeOK, KeyOf
  <2>4. Parts
    BY <1>1, <2>1, <2>2, <2>3 DEF Enqueue, DependencyInv, TypeOK
  <2>5. QED
    BY <2>4, <1>a
<1>2. ASSUME NEW t \in Task, ClaimNext(t) PROVE DependencyInv'
  <2>1. Parts
    BY <1>2 DEF ClaimNext, DependencySucceeded, DependencyInv, key, TypeOK
  <2>2. QED
    BY <2>1, <1>a
<1>3. ASSUME NEW t \in Task, MarkSucceeded(t) PROVE DependencyInv'
  <2>1. Parts
    BY <1>3 DEF MarkSucceeded, DependencyInv, key, TypeOK
  <2>2. QED
    BY <2>1, <1>a
<1>4. ASSUME NEW t \in Task, NEW c \in Code \ {"none"}, MarkFailed(t, c)
      PROVE  DependencyInv'
  <2>1. {t} \union QueuedDependents(t) \in SUBSET Active
    BY <1>4, QueuedDependentsAreQueued DEF MarkFailed, Active, ActiveStatus
  <2>2. /\ code' \in [Task -> Code]
        /\ \A u \in Task : code'[u] # code[u] /\ code'[u] = "download" => status[u] = "running"
    BY <1>4 DEF MarkFailed, Code, TypeOK
  <2>3. QED
    BY <1>4, <2>1, <2>2, EndingKeepsDependencies DEF MarkFailed, EndWithDependents, Dead
<1>5. ASSUME NEW T \in SUBSET Task, Requeue(T) PROVE DependencyInv'
  <2>1. Parts
    BY <1>5 DEF Requeue, DependencyInv, key, TypeOK
  <2>2. QED
    BY <2>1, <1>a
<1>6. ASSUME NEW t \in Task, CancelTask(t) PROVE DependencyInv'
  <2>1. {t} \union QueuedDependents(t) \in SUBSET Active
    BY <1>6, QueuedDependentsAreQueued DEF CancelTask, Active, ActiveStatus
  <2>2. QED
    BY <1>6, <2>1, EndingKeepsDependencies DEF CancelTask, EndWithDependents, Dead, TypeOK
<1>7. ASSUME NEW t \in Task, FinalizeInterrupted(t) PROVE DependencyInv'
  <2>1. {t} \union QueuedDependents(t) \in SUBSET Active
    BY <1>7, QueuedDependentsAreQueued DEF FinalizeInterrupted, Active, ActiveStatus
  <2>2. QED
    BY <1>7, <2>1, EndingKeepsDependencies
       DEF FinalizeInterrupted, EndWithDependents, Dead, TypeOK
<1>8. ASSUME NEW p \in Project, CancelAllQueued(p) PROVE DependencyInv'
  <2>1. BulkCancellable(p) \in SUBSET Active
    BY DEF BulkCancellable, Active, ActiveStatus
  <2>2. QED
    BY <1>8, <2>1, EndingKeepsDependencies DEF CancelAllQueued, Dead, TypeOK
<1>9. ASSUME NEW p \in Project, NEW s \in Second, Retire(p, s) PROVE DependencyInv'
  <2>1. \A t \in Task : status'[t] # status[t] => status[t] = "queued" /\ status'[t] = "cancelled"
    BY <1>9 DEF Retire, TypeOK
  <2>2. \A t \in Task : tomb'[t] = IF t \in OfLive(p) THEN s ELSE tomb[t]
    BY <1>9 DEF Retire
  <2>3. DependencyShape'
    BY <1>9, <2>1, <2>2, LiveAssumption DEF Retire, OfLive, DependencyInv, TypeOK
  <2>4. RunningDependencySucceeded' /\ RetryableDependencySucceeded'
    BY <1>9, <2>1 DEF Retire, DependencyInv, TypeOK
  <2>5. QED
    BY <2>3, <2>4, <1>a
<1>10. ASSUME NEW t \in Task, PersistCheckpoint(t) PROVE DependencyInv'
  BY <1>10 DEF PersistCheckpoint, DependencyInv, key
<1>11. ASSUME NEW t \in Task, PersistJob(t) PROVE DependencyInv'
  BY <1>11 DEF PersistJob, DependencyInv, key
<1>12. ASSUME NEW t \in Task, ReopenDownload(t) PROVE DependencyInv'
  <2>1. Parts
    BY <1>12 DEF ReopenDownload, DependencyInv, key, TypeOK
  <2>2. QED
    BY <2>1, <1>a
<1>13. CASE UNCHANGED vars
  BY <1>13 DEF vars, DependencyInv
<1>14. QED
  BY <1>1, <1>2, <1>3, <1>4, <1>5, <1>6, <1>7, <1>8, <1>9, <1>10, <1>11,
     <1>12, <1>13 DEF Next

(* The strengthening holds in every reachable task table.                  *)
LEMMA DependencyInvariant == Spec => []DependencyInv
<1>1. Init => DependencyInv
  BY DEF Init, DependencyInv, DependencyShape, RunningDependencySucceeded,
         RetryableDependencySucceeded, With
<1>2. QED
  BY <1>1, TypeCorrect, NextDependency, PTL DEF Spec

(* Whatever brought a row to running, its prerequisite has succeeded.      *)
THEOREM ExecutionFollowsPrerequisite == Spec => []RunningDependencySucceeded
<1>1. DependencyInv => RunningDependencySucceeded
  BY DEF DependencyInv
<1>2. QED
  BY <1>1, DependencyInvariant, PTL

-----------------------------------------------------------------------------
(* A set of active rows that dies in one step, as the life cycle sees it.  *)
LEMMA PhaseFacts ==
  ASSUME TypeOK
  PROVE  \A t \in Task :
           /\ Phase[t] = "absent" <=> status[t] = "absent"
           /\ Phase[t] = "waiting" <=> status[t] = "queued"
           /\ Phase[t] = "executing" <=> status[t] = "running"
           /\ Phase[t] = "done" <=> status[t] = "succeeded"
           /\ Phase[t] = "dead" <=> status[t] \in Dead
BY DEF Phase, PhaseOf, TypeOK, Status, Dead

(* The refinement mapping as a function, for the EXCEPT of the life cycle. *)
LEMMA PhaseIsFunction == Phase = [t \in Task |-> Phase[t]]
BY DEF Phase

(* The set of rows a step ends holds every queued dependent of its members. *)
LEMMA CascadeIsClosed ==
  ASSUME NEW t \in Task, NEW u \in Task, status[u] = "queued",
         dep[u] \in {t} \union QueuedDependents(t)
  PROVE  u \in QueuedDependents(t)
BY QueuedDependentsAreClosed

(* Cancelling a project's queue leaves no waiter behind.                   *)
LEMMA BulkIsClosed ==
  ASSUME TypeOK, DependencyShape, NEW p \in Project,
         NEW u \in Task, status[u] = "queued", dep[u] \in BulkCancellable(p)
  PROVE  u \in BulkCancellable(p)
BY NoneAssumption DEF BulkCancellable, With, DependencyShape, TypeOK

(* Deleting a project leaves no waiter behind.                             *)
LEMMA RetiredIsClosed ==
  ASSUME TypeOK, DependencyShape, NEW p \in Project,
         NEW u \in Task, status[u] = "queued", dep[u] \in OfLive(p)
  PROVE  u \in OfLive(p)
BY NoneAssumption DEF OfLive, With, DependencyShape, TypeOK

(* A step that ends exactly the rows of D is the life cycle's Abort(D).    *)
LEMMA EndingIsAbort ==
  ASSUME TypeOK, TypeOK', NEW D \in SUBSET Active, UNCHANGED dep,
         NEW s \in Dead,
         status' = [u \in Task |-> IF u \in D THEN s ELSE status[u]],
         \A t, u \in D : status[t] = "running" /\ status[u] = "running" => t = u,
         \A u \in Task : status[u] = "queued" /\ dep[u] \in D => u \in D
  PROVE  Lifecycle!Next
<1>1. D \in SUBSET Task
  BY DEF Active
<1>2. \A t \in D : Phase[t] \in {"waiting", "executing"}
  BY PhaseFacts DEF Active, ActiveStatus
<1>3. Phase' = [t \in Task |-> IF t \in D THEN "dead" ELSE Phase[t]]
  BY DEF Phase, PhaseOf, Dead, TypeOK
<1>4. Lifecycle!Abort(D)
  BY <1>1, <1>2, <1>3, PhaseFacts DEF Lifecycle!Abort
<1>5. QED
  BY <1>1, <1>4 DEF Lifecycle!Next

(* Every repository call is a step of the life cycle or none.              *)
LEMMA LifecycleStep ==
  TypeOK /\ TypeOK' /\ DependencyInv /\ [Next]_vars
    => [Lifecycle!Next]_(Lifecycle!lvars)
<1> SUFFICES ASSUME TypeOK, TypeOK', DependencyInv, [Next]_vars
             PROVE  Lifecycle!Next \/ UNCHANGED <<Phase, dep>>
  BY DEF Lifecycle!lvars
<1>1. ASSUME NEW t \in Task, NEW p \in Project, NEW x \in Unit,
             NEW d \in Task \union {None}, Enqueue(t, p, x, d)
      PROVE  Lifecycle!Next
  <2>1. Phase[t] = "absent" /\ (d # None => Phase[d] # "absent")
    BY <1>1, PhaseFacts, NoneAssumption DEF Enqueue
  <2>2. Phase' = [Phase EXCEPT ![t] = "waiting"]
    BY <1>1 DEF Enqueue, Phase, PhaseOf, TypeOK
  <2>3. Lifecycle!Create(t, d)
    BY <1>1, <2>1, <2>2 DEF Enqueue, Lifecycle!Create
  <2>4. QED
    BY <2>3 DEF Lifecycle!Next
<1>2. ASSUME NEW t \in Task, ClaimNext(t) PROVE Lifecycle!Next
  <2>1. Phase[t] = "waiting" /\ (dep[t] # None => Phase[dep[t]] = "done")
    BY <1>2, PhaseFacts DEF ClaimNext, DependencySucceeded, With
  <2>2. Phase' = [Phase EXCEPT ![t] = "executing"]
    BY <1>2 DEF ClaimNext, Phase, PhaseOf, TypeOK
  <2>3. Lifecycle!Start(t)
    BY <1>2, <2>1, <2>2 DEF ClaimNext, Lifecycle!Start, Lifecycle!Ready
  <2>4. QED
    BY <2>3 DEF Lifecycle!Next
<1>3. ASSUME NEW t \in Task, MarkSucceeded(t) PROVE Lifecycle!Next
  <2>1. Phase[t] = "executing"
    BY <1>3, PhaseFacts DEF MarkSucceeded
  <2>2. Phase' = [Phase EXCEPT ![t] = "done"]
    BY <1>3 DEF MarkSucceeded, Phase, PhaseOf, TypeOK
  <2>3. Lifecycle!Finish(t)
    BY <1>3, <2>1, <2>2 DEF MarkSucceeded, Lifecycle!Finish
  <2>4. QED
    BY <2>3 DEF Lifecycle!Next
<1>4. ASSUME NEW t \in Task, NEW c \in Code \ {"none"}, MarkFailed(t, c)
      PROVE  Lifecycle!Next
  <2> DEFINE D == {t} \union QueuedDependents(t)
  <2>1. D \in SUBSET Active
    BY <1>4, QueuedDependentsAreQueued DEF MarkFailed, Active, ActiveStatus
  <2>2. \A u, v \in D : status[u] = "running" /\ status[v] = "running" => u = v
    BY QueuedDependentsAreQueued
  <2>3. \A u \in Task : status[u] = "queued" /\ dep[u] \in D => u \in D
    BY CascadeIsClosed
  <2>4. status' = [u \in Task |-> IF u \in D THEN "failed" ELSE status[u]]
    BY <1>4 DEF MarkFailed, EndWithDependents
  <2> HIDE DEF D
  <2>5. QED
    BY <1>4, <2>1, <2>2, <2>3, <2>4, EndingIsAbort DEF MarkFailed, Dead
<1>5. ASSUME NEW T \in SUBSET Task, Requeue(T) PROVE Lifecycle!Next
  <2>1. \A t \in T : Phase[t] = "executing"
    BY <1>5, PhaseFacts DEF Requeue
  <2>2. Phase' = [t \in Task |-> IF t \in T THEN "waiting" ELSE Phase[t]]
    BY <1>5 DEF Requeue, Phase, PhaseOf, TypeOK
  <2>3. Lifecycle!PutBack(T)
    BY <1>5, <2>1, <2>2 DEF Requeue, Lifecycle!PutBack
  <2>4. QED
    BY <2>3 DEF Lifecycle!Next
<1>6. ASSUME NEW t \in Task, status[t] \in ActiveStatus,
             EndWithDependents(t, "cancelled"), UNCHANGED dep
      PROVE  Lifecycle!Next
  <2> DEFINE D == {t} \union QueuedDependents(t)
  <2>1. D \in SUBSET Active
    BY <1>6, QueuedDependentsAreQueued DEF Active, ActiveStatus
  <2>2. \A u, v \in D : status[u] = "running" /\ status[v] = "running" => u = v
    BY QueuedDependentsAreQueued
  <2>3. \A u \in Task : status[u] = "queued" /\ dep[u] \in D => u \in D
    BY CascadeIsClosed
  <2>4. status' = [u \in Task |-> IF u \in D THEN "cancelled" ELSE status[u]]
    BY <1>6 DEF EndWithDependents
  <2> HIDE DEF D
  <2>5. QED
    BY <1>6, <2>1, <2>2, <2>3, <2>4, EndingIsAbort DEF Dead
<1>7. ASSUME NEW p \in Project, CancelAllQueued(p) PROVE Lifecycle!Next
  <2>1. BulkCancellable(p) \in SUBSET Active
    BY DEF BulkCancellable, With, Active, ActiveStatus
  <2>2. \A u \in BulkCancellable(p) : status[u] # "running"
    BY DEF BulkCancellable, With
  <2>3. \A u \in Task : status[u] = "queued" /\ dep[u] \in BulkCancellable(p)
                          => u \in BulkCancellable(p)
    BY BulkIsClosed DEF DependencyInv
  <2>4. QED
    BY <1>7, <2>1, <2>2, <2>3, EndingIsAbort DEF CancelAllQueued, Dead
<1>8. ASSUME NEW p \in Project, NEW s \in Second, Retire(p, s) PROVE Lifecycle!Next
  <2> DEFINE D == OfLive(p) \intersect With("queued")
  <2>1. D \in SUBSET Active
    BY DEF With, Active, ActiveStatus
  <2>2. \A u \in D : status[u] # "running"
    BY DEF With
  <2>3. \A u \in Task : status[u] = "queued" /\ dep[u] \in D => u \in D
    BY RetiredIsClosed DEF DependencyInv, With
  <2>4. status' = [u \in Task |-> IF u \in D THEN "cancelled" ELSE status[u]]
    BY <1>8 DEF Retire, OfLive, With
  <2> HIDE DEF D
  <2>5. QED
    BY <1>8, <2>1, <2>2, <2>3, <2>4, EndingIsAbort DEF Retire, Dead
<1>9. ASSUME NEW t \in Task, PersistCheckpoint(t) \/ PersistJob(t)
      PROVE  UNCHANGED <<Phase, dep>>
  BY <1>9 DEF PersistCheckpoint, PersistJob, Phase
<1>10. ASSUME NEW t \in Task, ReopenDownload(t) PROVE Lifecycle!Next
  <2>1. Phase[t] = "dead"
    BY <1>10, PhaseFacts DEF ReopenDownload, Dead
  <2>2. dep[t] # None => Phase[dep[t]] = "done"
    BY <1>10, PhaseFacts
       DEF ReopenDownload, DependencyInv, RetryableDependencySucceeded, With, TypeOK
  <2>3. Phase' = [Phase EXCEPT ![t] = "executing"]
    BY <1>10 DEF ReopenDownload, Phase, PhaseOf, TypeOK
  <2>4. Lifecycle!Reopen(t)
    BY <1>10, <2>1, <2>2, <2>3 DEF ReopenDownload, Lifecycle!Reopen, Lifecycle!Ready
  <2>5. QED
    BY <2>4 DEF Lifecycle!Next
<1>11. CASE UNCHANGED vars
  BY <1>11 DEF vars, Phase
<1>12. ASSUME NEW t \in Task, CancelTask(t) \/ FinalizeInterrupted(t)
       PROVE  Lifecycle!Next
  BY <1>6, <1>12 DEF CancelTask, FinalizeInterrupted, ActiveStatus
<1>13. QED
  BY <1>1, <1>2, <1>3, <1>4, <1>5, <1>7, <1>8, <1>9, <1>10, <1>11, <1>12 DEF Next

(* The task table implements the life cycle of TaskLifecycle.              *)
THEOREM QueueImplementsLifecycle == Spec => ImplementsLifecycle
<1>1. Init => Lifecycle!Init
  BY DEF Init, Lifecycle!Init, Phase, PhaseOf
<1>2. QED
  BY <1>1, TypeCorrect, DependencyInvariant, LifecycleStep, PTL
     DEF Spec, ImplementsLifecycle, Lifecycle!Spec

-----------------------------------------------------------------------------
(* A step of the life cycle that kills a task kills its waiters with it.   *)
LEMMA LifecycleStrandsNobody ==
  ASSUME TypeOK, TypeOK', Lifecycle!Next \/ UNCHANGED <<Phase, dep>>,
         NEW t \in Task, NEW u \in Task, dep[u] = t, status[u] = "queued",
         status[t] \in ActiveStatus, status'[t] \in Dead
  PROVE  status'[u] \in Dead
<1> USE DEF ActiveStatus, Dead
<1>1. Phase[u] = "waiting" /\ Phase[t] \in {"waiting", "executing"} /\ Phase'[t] = "dead"
  BY PhaseFacts DEF Phase, PhaseOf, TypeOK
<1>2. PICK D \in SUBSET Task : Lifecycle!Abort(D)
  BY <1>1, PhaseIsFunction
     DEF Lifecycle!Next, Lifecycle!Create, Lifecycle!Start, Lifecycle!Finish,
         Lifecycle!Reopen, Lifecycle!PutBack
<1>3. t \in D
  BY <1>1, <1>2 DEF Lifecycle!Abort
<1>4. u \in D
  BY <1>1, <1>2, <1>3 DEF Lifecycle!Abort
<1>5. Phase'[u] = "dead"
  BY <1>2, <1>4 DEF Lifecycle!Abort
<1>6. QED
  BY <1>5 DEF Phase, PhaseOf, TypeOK, Status

(* Whatever ends a prerequisite ends the rows queued behind it.            *)
THEOREM NoWaiterIsStranded == Spec => NeverStrandsAWaiter
<1> DEFINE Strands == \A t \in Task, u \in Task :
       /\ dep[u] = t /\ status[u] = "queued"
       /\ status[t] \in ActiveStatus /\ status'[t] \in Dead
       => status'[u] \in Dead
<1>1. TypeOK /\ TypeOK' /\ DependencyInv /\ [Next]_vars => [Strands]_vars
  <2> SUFFICES ASSUME TypeOK, TypeOK', DependencyInv, [Next]_vars PROVE Strands
    OBVIOUS
  <2>1. Lifecycle!Next \/ UNCHANGED <<Phase, dep>>
    BY LifecycleStep DEF Lifecycle!lvars
  <2>2. QED
    BY <2>1, LifecycleStrandsNobody
<1>2. QED
  BY <1>1, TypeCorrect, DependencyInvariant, PTL DEF Spec, NeverStrandsAWaiter
=============================================================================
