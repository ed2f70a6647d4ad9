---------------------- MODULE ProjectRetirement_proofs ----------------------
(***************************************************************************)
(* Theorems about a project name whose project is deleted or replaced, for *)
(* every number of incarnations, tasks, executions and removals and any    *)
(* number of failures and restarts.                                        *)
(***************************************************************************)
EXTENDS ProjectRetirement, TLAPS

-----------------------------------------------------------------------------
(* Type correctness.                                                       *)
Execution == [at : Steps, task : Task \cup {None}, name : {"live", "tomb"}, early : BOOLEAN]
Removing == [kind : {None, "delete", "overwrite"},
             at : {"off", "open", "moved", "placed", "delete", "restore"},
             ids : SUBSET Task, new : Project \cup {None},
             old : Project \cup {None, Residue, Litter},
             backup : Project \cup {None, Residue, Litter}]
Row == [status : Status, name : {"live", "tomb"}]

FilesOK ==
  /\ dir \in Project \cup {None, Residue, Litter}
  /\ making \in Project \cup {None}
  /\ used \subseteq Project
TasksOK ==
  /\ row \in [Task -> Row]
  /\ owner \in [Task -> Project \cup {None}]
  /\ revoked \subseteq Task
GhostsOK ==
  /\ written \in [Project -> SUBSET Task]
  /\ struck \subseteq Task
  /\ excuse \in [Task -> SUBSET Gaps]
  /\ crashes \in 0..MaxCrash /\ fails \in 0..MaxFail
(* An execution that is somewhere executes a task.                         *)
ExecOK ==
  /\ exec \in [Exec -> Execution]
  /\ \A e \in Exec : exec[e].at = "off" <=> exec[e].task = None
RemOK == rem \in [Removal -> Removing]
(* One transaction is open at a time.                                      *)
OneTransaction ==
  \A r, s \in Removal : InTransaction(r) /\ InTransaction(s) => r = s

Typed == FilesOK /\ TasksOK /\ GhostsOK /\ ExecOK /\ RemOK /\ OneTransaction

LEMMA TypeParts == Typed => TypeOK
BY DEF TypeOK, Typed, FilesOK, TasksOK, GhostsOK, ExecOK, RemOK, OneTransaction, InTransaction,
       Execution, Removing, Row

(* A step of an execution changes its place and nothing else.              *)
LEMMA StepMoves ==
  ASSUME ExecOK, NEW e \in Exec, NEW s \in Steps \ {"off"}, exec[e].at # "off", Step(e, s)
  PROVE  /\ ExecOK'
         /\ exec'[e] = [exec[e] EXCEPT !.at = s]
         /\ exec'[e].at = s /\ exec'[e].task = exec[e].task
         /\ exec'[e].name = exec[e].name /\ exec'[e].early = exec[e].early
         /\ \A f \in Exec \ {e} : exec'[f] = exec[f]
<1> DEFINE new == [exec[e] EXCEPT !.at = s]
<1>1. exec' = [exec EXCEPT ![e] = new]
  BY DEF Step
<1>2. /\ new \in Execution
      /\ new.at = s /\ new.task = exec[e].task /\ new.name = exec[e].name /\ new.early = exec[e].early
  BY DEF ExecOK, Execution
<1> HIDE DEF new
<1>3. ExecOK' /\ exec'[e] = new /\ \A f \in Exec \ {e} : exec'[f] = exec[f]
  BY <1>1, <1>2 DEF ExecOK
<1>4. QED
  BY <1>2, <1>3 DEF new

LEMMA StartMoves ==
  ASSUME ExecOK, TasksOK, NEW e \in Exec, NEW t \in Task, Start(e, t)
  PROVE  /\ ExecOK'
         /\ exec'[e].at = "claimed" /\ exec'[e].task = t
         /\ exec'[e].name = row[t].name /\ exec'[e].early = FALSE
         /\ \A f \in Exec \ {e} : exec'[f] = exec[f]
<1> DEFINE new == [Idle EXCEPT !.at = "claimed", !.task = t, !.name = row[t].name]
<1>1. exec' = [exec EXCEPT ![e] = new]
  BY DEF Start
<1>2. row[t].name \in {"live", "tomb"}
  BY DEF TasksOK, Row
<1>3. Idle \in Execution /\ Idle.early = FALSE /\ "claimed" \in Steps
  BY DEF Idle, Execution, Steps
<1>4. /\ new \in Execution
      /\ new.at = "claimed" /\ new.task = t /\ new.name = row[t].name /\ new.early = FALSE
  BY <1>2, <1>3 DEF Execution
<1> HIDE DEF new
<1>5. QED
  BY <1>1, <1>4, NamesAssumption DEF ExecOK

LEMMA LeaveMoves ==
  ASSUME ExecOK, NEW e \in Exec, Leave(e)
  PROVE  /\ ExecOK'
         /\ exec'[e] = Idle /\ Idle.at = "off" /\ Idle.task = None
         /\ \A f \in Exec \ {e} : exec'[f] = exec[f]
<1>1. Idle \in Execution /\ Idle.at = "off" /\ Idle.task = None
  BY DEF Idle, Execution, Steps
<1>2. exec' = [exec EXCEPT ![e] = Idle]
  BY DEF Leave
<1>3. QED
  BY <1>1, <1>2 DEF ExecOK

LEMMA CheckMoves ==
  ASSUME ExecOK, NEW e \in Exec, Check(e)
  PROVE  /\ ExecOK'
         /\ exec'[e].at = (IF Claimed(e) /\ dir # None THEN "cleared" ELSE "aborted")
         /\ exec'[e].task = exec[e].task /\ exec'[e].name = exec[e].name
         /\ \A f \in Exec \ {e} : exec'[f] = exec[f]
<1> DEFINE s == IF Claimed(e) /\ dir # None THEN "cleared" ELSE "aborted"
           new == [exec[e] EXCEPT !.early = FALSE, !.at = s]
<1>1. exec' = [exec EXCEPT ![e] = new]
  BY DEF Check
<1>2. s \in Steps \ {"off"} /\ exec[e].at # "off"
  BY DEF Steps, Check
<1> HIDE DEF s
<1>3. new \in Execution /\ new.at = s /\ new.task = exec[e].task /\ new.name = exec[e].name
  BY <1>2 DEF ExecOK, Execution
<1> HIDE DEF new
<1>4. QED
  BY <1>1, <1>2, <1>3 DEF ExecOK, s

(* The changes a removal makes to its own record.                          *)
LEMMA ToMoves ==
  ASSUME RemOK, NEW r \in Removal, NEW a \in {"off", "open", "moved", "placed", "delete", "restore"}, To(r, a)
  PROVE  /\ RemOK'
         /\ rem'[r].at = a /\ rem'[r].kind = rem[r].kind /\ rem'[r].ids = rem[r].ids
         /\ rem'[r].old = rem[r].old /\ rem'[r].new = rem[r].new /\ rem'[r].backup = rem[r].backup
         /\ \A s \in Removal \ {r} : rem'[s] = rem[s]
<1> DEFINE new == [rem[r] EXCEPT !.at = a]
<1>1. rem' = [rem EXCEPT ![r] = new]
  BY DEF To, Put
<1>2. /\ new \in Removing
      /\ new.at = a /\ new.kind = rem[r].kind /\ new.ids = rem[r].ids
      /\ new.old = rem[r].old /\ new.new = rem[r].new /\ new.backup = rem[r].backup
  BY DEF RemOK, Removing
<1> HIDE DEF new
<1>3. QED
  BY <1>1, <1>2 DEF RemOK

LEMMA PutMoves ==
  ASSUME RemOK, NEW r \in Removal, NEW c \in Removing, Put(r, c)
  PROVE  RemOK' /\ rem'[r] = c /\ \A s \in Removal \ {r} : rem'[s] = rem[s]
BY DEF RemOK, Put

LEMMA RestIs ==
  /\ Rest \in Removing
  /\ Rest.at = "off" /\ Rest.new = None /\ Rest.backup = None
BY DEF Rest, Removing

(* The changes to a row and to the excuses.                                *)
LEMMA SetRowSets ==
  ASSUME TasksOK, NEW t \in Task, NEW s \in Status, SetRow(t, s)
  PROVE  /\ row' \in [Task -> Row]
         /\ row'[t].status = s /\ row'[t].name = row[t].name
         /\ \A u \in Task \ {t} : row'[u] = row[u]
<1> DEFINE new == [row[t] EXCEPT !.status = s]
<1>1. row' = [row EXCEPT ![t] = new]
  BY DEF SetRow
<1>2. new \in Row /\ new.status = s /\ new.name = row[t].name
  BY DEF TasksOK, Row
<1> HIDE DEF new
<1>3. QED
  BY <1>1, <1>2 DEF TasksOK

LEMMA GapAdds ==
  ASSUME GhostsOK, NEW ts, NEW g \in Gaps
  PROVE  /\ Gap(ts, g) \in [Task -> SUBSET Gaps]
         /\ \A t \in Task : /\ excuse[t] \subseteq Gap(ts, g)[t]
                            /\ t \in ts => g \in Gap(ts, g)[t]
                            /\ t \notin ts => Gap(ts, g)[t] = excuse[t]
BY DEF Gap, GhostsOK

(* What an action leaves alone keeps its type.                             *)
LEMMA KeptTypes ==
  ASSUME Typed
  PROVE  /\ UNCHANGED files => FilesOK'
         /\ UNCHANGED <<row, owner, revoked>> => TasksOK'
         /\ UNCHANGED <<ghosts, bounds>> => GhostsOK'
         /\ UNCHANGED exec => ExecOK'
         /\ UNCHANGED rem => RemOK' /\ OneTransaction'
BY DEF Typed, files, ghosts, bounds, FilesOK, TasksOK, GhostsOK, ExecOK, RemOK, OneTransaction, InTransaction

(* The excuses of some tasks may grow; the histories and bounds stay.      *)
LEMMA GapTypes ==
  ASSUME Typed, NEW ts, NEW g \in Gaps, excuse' \in {excuse, Gap(ts, g)},
         UNCHANGED <<written, struck, bounds>>
  PROVE  GhostsOK'
<1>1. excuse' \in [Task -> SUBSET Gaps]
  BY GapAdds DEF Typed, GhostsOK
<1>2. QED
  BY <1>1 DEF Typed, GhostsOK, bounds

LEMMA EndRowTypes ==
  ASSUME Typed, NEW t \in Task, NEW s \in Status, EndRow(t, s), UNCHANGED owner, revoked' \subseteq revoked
  PROVE  TasksOK'
BY SetRowSets DEF Typed, TasksOK, EndRow

LEMMA RequestTypes ==
  ASSUME Typed, NEW t \in Task, Ask(t) \/ Insert(t) \/ Lose(t)
  PROVE  Typed'
<1>1. {"asked", "queued", "deleted", "failed"} \subseteq Status /\ {"requested", "crashed"} \subseteq Gaps
  BY DEF Status, Gaps
<1>2. UNCHANGED <<files, revoked, exec, rem, written, struck, bounds>>
  BY DEF Ask, Insert, Lose, ghosts
<1>3. \E s \in Status : SetRow(t, s)
  BY <1>1 DEF Ask, Insert, Lose
<1>4. owner' \in [Task -> Project \cup {None}]
  BY DEF Ask, Insert, Lose, Typed, TasksOK, Published
<1>5. \E g \in Gaps : excuse' \in {excuse, Gap({t}, g)}
  BY <1>1 DEF Ask, Insert, Lose, ghosts
<1>6. TasksOK'
  BY <1>2, <1>3, <1>4, SetRowSets DEF Typed, TasksOK
<1>7. GhostsOK'
  BY <1>2, <1>5, GapTypes
<1>8. QED
  BY <1>2, <1>6, <1>7, KeptTypes DEF Typed

(* The outcomes an execution can be about to write.                        *)
LEMMA EndsFacts ==
  /\ DOMAIN Ends = {"mark", "fail", "requeue"}
  /\ \A a \in DOMAIN Ends : Ends[a] \in {"succeeded", "failed", "queued"}
BY DEF Ends

LEMMA WorkerTypes ==
  ASSUME Typed, NEW e \in Exec,
         \/ \E t \in Task : Claim(e, t) \/ Resume(e, t)
         \/ Check(e) \/ Write(e) \/ Return(e) \/ Settle(e) \/ Bury(e) \/ Sweep(e)
  PROVE  Typed'
<1> DEFINE t == exec[e].task
<1>1. exec[e].at # "off" => t \in Task
  BY DEF Typed, ExecOK, Execution
<1>2. ASSUME NEW u \in Task, Claim(e, u) \/ Resume(e, u) PROVE Typed'
  <2>1. UNCHANGED <<files, owner, revoked, rem, ghosts, bounds>> /\ Start(e, u)
    BY <1>2 DEF Claim, Resume
  <2>2. ExecOK'
    BY <2>1, StartMoves DEF Typed
  <2>3. SetRow(u, "running") \/ UNCHANGED row
    BY <1>2 DEF Claim, Resume
  <2>4. TasksOK'
    BY <2>1, <2>3, SetRowSets DEF Typed, TasksOK, Status
  <2>5. QED
    BY <2>1, <2>2, <2>4, KeptTypes DEF Typed
<1>3. CASE Check(e)
  BY <1>3, CheckMoves, KeptTypes DEF Check, Typed
<1>4. CASE Write(e)
  <2>1. t \in Task /\ exec[e].at # "off"
    BY <1>1, <1>4 DEF Write
  <2>2. \E s \in Steps \ {"off"} : Step(e, s)
    BY <1>4 DEF Write, Steps
  <2>3. ExecOK'
    BY <2>1, <2>2, StepMoves DEF Typed
  <2>4. written' \in [Project -> SUBSET Task]
    BY <1>4, <2>1 DEF Write, Typed, GhostsOK
  <2>5. excuse' \in [Task -> SUBSET Gaps]
    BY <1>4, <2>1 DEF Write, Typed, GhostsOK, Gaps
  <2>6. FilesOK'
    BY <1>4 DEF Write, Typed, FilesOK
  <2>7. UNCHANGED <<row, owner, revoked, rem, struck, bounds>>
    BY <1>4 DEF Write
  <2>8. GhostsOK'
    BY <2>4, <2>5, <2>7 DEF Typed, GhostsOK, bounds
  <2>9. QED
    BY <2>3, <2>6, <2>7, <2>8, KeptTypes DEF Typed
<1>5. CASE Return(e)
  <2>1. exec[e].at # "off" /\ \E s \in Steps \ {"off"} : Step(e, s)
    BY <1>5 DEF Return, Outcomes, Verdict, Steps
  <2>2. ExecOK'
    BY <2>1, StepMoves DEF Typed
  <2>3. QED
    BY <1>5, <2>2, KeptTypes DEF Return, Typed
<1>6. ASSUME Leave(e), exec[e].at # "off" PROVE ExecOK' /\ revoked' \subseteq revoked
                         /\ \E g \in Gaps : excuse' \in {excuse, Gap({t}, g)}
  BY <1>6, LeaveMoves DEF Leave, Typed, Gaps
<1>7. CASE Settle(e)
  <2>1. exec[e].at # "off" /\ Leave(e) /\ UNCHANGED <<files, owner, rem, written, struck, bounds>>
    BY <1>7 DEF Settle, Ends
  <2>2. \E s \in Status : EndRow(t, s)
    BY <1>7, EndsFacts DEF Settle, Status
  <2>3. TasksOK'
    BY <1>1, <1>6, <2>1, <2>2, EndRowTypes
  <2>4. GhostsOK'
    BY <1>6, <2>1, GapTypes
  <2>5. QED
    BY <1>6, <2>1, <2>3, <2>4, KeptTypes DEF Typed
<1>8. CASE Bury(e)
  <2>1. EndRow(t, "deleted") /\ Step(e, "sweep") /\ exec[e].at # "off"
        /\ UNCHANGED <<files, owner, revoked, rem, ghosts, bounds>>
    BY <1>8 DEF Bury
  <2>2. TasksOK'
    BY <1>1, <2>1, EndRowTypes DEF Status
  <2>3. ExecOK'
    BY <2>1, StepMoves DEF Typed, Steps
  <2>4. QED
    BY <2>1, <2>2, <2>3, KeptTypes DEF Typed
<1>9. CASE Sweep(e)
  <2>1. /\ exec[e].at # "off" /\ Leave(e) /\ dir' \in {dir, None}
        /\ UNCHANGED <<making, used, row, owner, rem, written, struck, bounds>>
    BY <1>9 DEF Sweep
  <2>2. FilesOK' /\ TasksOK'
    BY <1>6, <2>1 DEF Typed, FilesOK, TasksOK
  <2>3. GhostsOK'
    BY <1>6, <2>1, GapTypes
  <2>4. QED
    BY <1>6, <2>1, <2>2, <2>3, KeptTypes DEF Typed
<1>10. QED
  BY <1>2, <1>3, <1>4, <1>5, <1>7, <1>8, <1>9

(* Retiring a row keeps its type.                                          *)
LEMMA RetiredIs ==
  ASSUME NEW c \in Row
  PROVE  /\ Retired(c) \in Row
         /\ c.status \in {"none", "asked"} => Retired(c) = c
         /\ c.status \notin {"none", "asked"} => Retired(c).name = "tomb"
         /\ c.status # "queued" => Retired(c).status = c.status
         /\ c.status = "queued" => Retired(c).status = "cancelled"
BY DEF Retired, Row, Status

(* What Begin does to the executions and to its removal.                   *)
LEMMA BeginMoves ==
  ASSUME Typed, NEW r \in Removal, NEW k \in {"delete", "overwrite"}, NEW p \in Project \cup {None},
         Begin(r, k, p)
  PROVE  /\ ExecOK' /\ RemOK' /\ GhostsOK'
         /\ rem'[r].at = "open" /\ rem'[r].ids = Running /\ rem'[r].new = p /\ rem'[r].backup = None
         /\ rem'[r].old = dir
         /\ \A s \in Removal \ {r} : rem'[s] = rem[s]
         /\ \A e \in Exec : /\ exec'[e].at = exec[e].at /\ exec'[e].task = exec[e].task
                            /\ exec'[e].name = exec[e].name
                            /\ exec[e].early => exec'[e].early
                            /\ exec[e].at = "cleared" /\ exec[e].task \in Running => exec'[e].early
         /\ \A t \in Task : excuse[t] \subseteq excuse'[t]
         /\ \A e \in Exec, t \in Task : exec[e].task = t =>
              /\ t \in Running /\ exec[e].at \in DOMAIN Ends => "returned" \in excuse'[t]
              /\ t \notin Running /\ row[t].name = "live" => "settled" \in excuse'[t]
<1> DEFINE new == [kind |-> k, at |-> "open", ids |-> Running, old |-> dir, new |-> p, backup |-> None]
<1>1. Put(r, new) /\ dir # None
  BY DEF Begin
<1>2. new \in Removing
  BY DEF Removing, Running, Typed, FilesOK
<1>3. RemOK' /\ rem'[r] = new /\ \A s \in Removal \ {r} : rem'[s] = rem[s]
  BY <1>1, <1>2, PutMoves DEF Typed
<1>4. exec' = [e \in Exec |->
                 [exec[e] EXCEPT !.early = @ \/ (exec[e].at = "cleared" /\ exec[e].task \in Running)]]
  BY DEF Begin
<1>5. ASSUME NEW e \in Exec
      PROVE  /\ exec'[e] \in Execution
             /\ exec'[e].at = exec[e].at /\ exec'[e].task = exec[e].task /\ exec'[e].name = exec[e].name
             /\ exec'[e].early = (exec[e].early \/ (exec[e].at = "cleared" /\ exec[e].task \in Running))
  <2>1. exec[e] \in Execution
    BY DEF Typed, ExecOK
  <2>2. exec'[e] = [exec[e] EXCEPT !.early = @ \/ (exec[e].at = "cleared" /\ exec[e].task \in Running)]
    BY <1>4
  <2>3. (exec[e].early \/ (exec[e].at = "cleared" /\ exec[e].task \in Running)) \in BOOLEAN
    OBVIOUS
  <2>4. QED
    BY <2>1, <2>2, <2>3 DEF Execution
<1>6. ExecOK'
  BY <1>4, <1>5 DEF Typed, ExecOK
<1> DEFINE due(t, f) == CASE t \in Running /\ exec[f].at \in DOMAIN Ends -> {"returned"}
                          [] t \notin Running /\ row[t].name = "live" -> {"settled"}
                          [] OTHER -> {}
<1>7. excuse' = [t \in Task |-> excuse[t] \cup UNION {due(t, e) : e \in {f \in Exec : exec[f].task = t}}]
  BY DEF Begin
<1>8. \A t, f : due(t, f) \subseteq {"returned", "settled"}
  OBVIOUS
<1>9. \A t, f : /\ t \in Running /\ exec[f].at \in DOMAIN Ends => due(t, f) = {"returned"}
                /\ t \notin Running /\ row[t].name = "live" => due(t, f) = {"settled"}
  OBVIOUS
<1> HIDE DEF due
<1>10. excuse' \in [Task -> SUBSET Gaps]
  BY <1>7, <1>8 DEF Typed, GhostsOK, Gaps
<1>11. GhostsOK'
  BY <1>10 DEF Begin, bounds, Typed, GhostsOK
<1>12. \A t \in Task : excuse[t] \subseteq excuse'[t]
  BY <1>7
<1>13. \A e \in Exec, t \in Task : exec[e].task = t => due(t, e) \subseteq excuse'[t]
  BY <1>7
<1>14. \A e \in Exec, t \in Task : exec[e].task = t =>
         /\ t \in Running /\ exec[e].at \in DOMAIN Ends => "returned" \in excuse'[t]
         /\ t \notin Running /\ row[t].name = "live" => "settled" \in excuse'[t]
  BY <1>9, <1>13
<1>15. \A e \in Exec : /\ exec[e].early => exec'[e].early
                       /\ exec[e].at = "cleared" /\ exec[e].task \in Running => exec'[e].early
  BY <1>5
<1>16. QED
  BY <1>3, <1>5, <1>6, <1>11, <1>12, <1>14, <1>15

(* A removal that fails gives the claims back.                             *)
LEMMA FailMoves ==
  ASSUME Typed, NEW r \in Removal, Fail(r)
  PROVE  /\ ExecOK' /\ RemOK' /\ GhostsOK'
         /\ IF rem[r].backup = None THEN rem'[r] = Rest
            ELSE /\ rem'[r].at = "restore" /\ rem'[r].ids = rem[r].ids
                 /\ rem'[r].new = rem[r].new /\ rem'[r].backup = rem[r].backup
         /\ \A s \in Removal \ {r} : rem'[s] = rem[s]
         /\ \A e \in Exec : /\ exec'[e].at = exec[e].at /\ exec'[e].task = exec[e].task
                            /\ exec'[e].name = exec[e].name
                            /\ exec[e].task \notin rem[r].ids => exec'[e].early = exec[e].early
<1>1. /\ RemOK'
      /\ IF rem[r].backup = None THEN rem'[r] = Rest
         ELSE /\ rem'[r].at = "restore" /\ rem'[r].ids = rem[r].ids
              /\ rem'[r].new = rem[r].new /\ rem'[r].backup = rem[r].backup
      /\ \A s \in Removal \ {r} : rem'[s] = rem[s]
  BY PutMoves, RestIs, ToMoves DEF Fail, Typed
<1>2. exec' = [e \in Exec |-> [exec[e] EXCEPT !.early = @ /\ exec[e].task \notin rem[r].ids]]
  BY DEF Fail
<1>3. ASSUME NEW e \in Exec
      PROVE  /\ exec'[e] \in Execution
             /\ exec'[e].at = exec[e].at /\ exec'[e].task = exec[e].task /\ exec'[e].name = exec[e].name
             /\ exec[e].task \notin rem[r].ids => exec'[e].early = exec[e].early
  <2>1. exec[e] \in Execution
    BY DEF Typed, ExecOK
  <2>2. exec'[e] = [exec[e] EXCEPT !.early = @ /\ exec[e].task \notin rem[r].ids]
    BY <1>2
  <2>3. (exec[e].early /\ exec[e].task \notin rem[r].ids) \in BOOLEAN
    OBVIOUS
  <2>4. exec[e].task \notin rem[r].ids => (exec[e].early /\ exec[e].task \notin rem[r].ids) = exec[e].early
    BY <2>1 DEF Execution
  <2>5. QED
    BY <2>1, <2>2, <2>3, <2>4 DEF Execution
<1>4. ExecOK'
  BY <1>2, <1>3 DEF Typed, ExecOK
<1>5. fails' \in 0..MaxFail
  BY BoundsAssumption DEF Fail, Typed, GhostsOK
<1>6. GhostsOK'
  BY <1>5 DEF Fail, ghosts, Typed, GhostsOK
<1>7. QED
  BY <1>1, <1>3, <1>4, <1>6

LEMMA RemovalTypes ==
  ASSUME Typed, NEW r \in Removal,
         \/ \E k \in {"delete", "overwrite"}, p \in Project \cup {None} : Begin(r, k, p)
         \/ Commit(r) \/ Move(r) \/ Place(r) \/ Fail(r) \/ Restore(r) \/ RemoveDir(r)
  PROVE  Typed'
<1>1. ASSUME NEW k \in {"delete", "overwrite"}, NEW p \in Project \cup {None}, Begin(r, k, p)
      PROVE  Typed'
  <2>1. ExecOK' /\ RemOK' /\ GhostsOK' /\ \A s \in Removal \ {r} : rem'[s] = rem[s]
    BY <1>1, BeginMoves
  <2>2. OneTransaction'
    BY <1>1, <2>1 DEF Begin, Unlocked, OneTransaction, InTransaction
  <2>3. FilesOK' /\ TasksOK'
    BY <1>1 DEF Begin, Typed, FilesOK, TasksOK, Running, Revoke
  <2>4. QED
    BY <2>1, <2>2, <2>3 DEF Typed
<1>2. CASE Commit(r)
  <2>1. UNCHANGED <<files, owner, revoked, exec, written, excuse, bounds>>
    BY <1>2 DEF Commit
  <2>2. row' \in [Task -> Row]
    BY <1>2, RetiredIs DEF Commit, Typed, TasksOK
  <2>3. struck' \subseteq Task
    BY <1>2 DEF Commit, Typed, GhostsOK, RemOK, Removing
  <2>4. /\ RemOK' /\ rem'[r].at \in {"off", "delete"}
        /\ \A s \in Removal \ {r} : rem'[s] = rem[s]
    BY <1>2, PutMoves, ToMoves, RestIs DEF Commit, Typed
  <2>5. OneTransaction'
    BY <2>4 DEF Typed, OneTransaction, InTransaction
  <2>6. TasksOK' /\ GhostsOK'
    BY <2>1, <2>2, <2>3 DEF Typed, TasksOK, GhostsOK, bounds
  <2>7. QED
    BY <2>1, <2>4, <2>5, <2>6, KeptTypes DEF Typed
<1>3. CASE Move(r)
  <2>1. UNCHANGED <<making, used, row, owner, revoked, exec, ghosts, bounds>> /\ dir' = None /\ dir # None
    BY <1>3 DEF Move
  <2> DEFINE new == [rem[r] EXCEPT !.at = "moved", !.backup = dir]
  <2>2. rem[r] \in Removing /\ dir \in Project \cup {None, Residue, Litter}
    BY DEF Typed, RemOK, FilesOK
  <2>3. Put(r, new)
    BY <1>3 DEF Move
  <2>4. new \in Removing
    BY <2>2 DEF Removing
  <2>5. RemOK' /\ \A s \in Removal \ {r} : rem'[s] = rem[s]
    BY <2>3, <2>4, PutMoves DEF Typed
  <2>6. InTransaction(r)
    BY <1>3 DEF Move, InTransaction
  <2>7. OneTransaction'
    BY <2>5, <2>6 DEF Typed, OneTransaction, InTransaction
  <2>8. FilesOK'
    BY <2>1 DEF Typed, FilesOK
  <2>9. QED
    BY <2>1, <2>5, <2>7, <2>8, KeptTypes DEF Typed
<1>4. CASE Place(r)
  <2>1. /\ UNCHANGED <<making, used, row, owner, revoked, exec, ghosts, bounds>>
        /\ InTransaction(r) /\ dir' = rem[r].new
    BY <1>4 DEF Place, InTransaction
  <2>2. RemOK' /\ \A s \in Removal \ {r} : rem'[s] = rem[s]
    BY <1>4, ToMoves DEF Place, Typed
  <2>3. OneTransaction'
    BY <2>1, <2>2 DEF Typed, OneTransaction, InTransaction
  <2>4. FilesOK'
    BY <2>1 DEF Typed, FilesOK, RemOK, Removing
  <2>5. QED
    BY <2>1, <2>2, <2>3, <2>4, KeptTypes DEF Typed
<1>5. CASE Fail(r)
  <2>1. /\ ExecOK' /\ RemOK' /\ GhostsOK' /\ \A s \in Removal \ {r} : rem'[s] = rem[s]
        /\ rem'[r].at \in {"off", "restore"}
    BY <1>5, FailMoves, RestIs
  <2>2. OneTransaction'
    BY <2>1 DEF Typed, OneTransaction, InTransaction
  <2>3. FilesOK' /\ TasksOK'
    BY <1>5 DEF Fail, Restored, files, Typed, FilesOK, TasksOK
  <2>4. QED
    BY <2>1, <2>2, <2>3 DEF Typed
<1>6. CASE Restore(r) \/ RemoveDir(r)
  <2>1. Put(r, Rest) /\ UNCHANGED <<making, used, row, owner, revoked, exec, written, struck, crashes>>
    BY <1>6 DEF Restore, RemoveDir, bounds
  <2>2. RemOK' /\ rem'[r].at = "off" /\ \A s \in Removal \ {r} : rem'[s] = rem[s]
    BY <2>1, PutMoves, RestIs DEF Typed
  <2>3. OneTransaction'
    BY <2>2 DEF Typed, OneTransaction, InTransaction
  <2>4. FilesOK'
    BY <1>6, <2>1 DEF Restore, RemoveDir, Typed, FilesOK, RemOK, Removing
  <2>5. fails' \in 0..MaxFail
    BY <1>6, BoundsAssumption DEF Restore, RemoveDir, bounds, Typed, GhostsOK
  <2>6. excuse' \in [Task -> SUBSET Gaps]
    BY <1>6, GapAdds DEF Restore, RemoveDir, Typed, GhostsOK, Gaps
  <2>7. GhostsOK'
    BY <2>1, <2>5, <2>6 DEF Typed, GhostsOK
  <2>8. QED
    BY <2>1, <2>2, <2>3, <2>4, <2>7, KeptTypes DEF Typed
<1>7. QED
  BY <1>1, <1>2, <1>3, <1>4, <1>5, <1>6

(* A crash leaves the rows and the directories.                            *)
LEMMA CrashMoves ==
  ASSUME Typed, Crash
  PROVE  /\ Typed'
         /\ \A e \in Exec : exec'[e].at = "off" /\ exec'[e].task = None
         /\ \A r \in Removal : rem'[r].at = "off" /\ rem'[r].backup = None /\ rem'[r].new = None
         /\ \A t \in Task : /\ row[t].status = "asked" => row'[t].status = "none" /\ owner'[t] = None
                            /\ row[t].status # "asked" => row'[t] = row[t] /\ owner'[t] = owner[t]
                            /\ row'[t].name = row[t].name
                            /\ excuse[t] \subseteq excuse'[t]
                            /\ \A r \in Removal : t \in OwnedBy(rem[r].backup) => "displaced" \in excuse'[t]
<1>1. Idle \in Execution /\ Idle.at = "off" /\ Idle.task = None
  BY DEF Idle, Execution, Steps
<1>2. ExecOK' /\ \A e \in Exec : exec'[e] = Idle
  BY <1>1 DEF Crash, ExecOK
<1>3. RemOK' /\ \A r \in Removal : rem'[r] = Rest
  BY RestIs DEF Crash, RemOK
<1>4. OneTransaction'
  BY <1>3, RestIs DEF OneTransaction, InTransaction
<1>5. FilesOK'
  BY DEF Crash, Typed, FilesOK
<1>6. ASSUME NEW t \in Task
      PROVE  /\ row'[t] \in Row
             /\ row[t].status = "asked" => row'[t].status = "none"
             /\ row[t].status # "asked" => row'[t] = row[t]
             /\ row'[t].name = row[t].name
  <2>1. row[t] \in Row
    BY DEF Typed, TasksOK
  <2>2. row'[t] = IF row[t].status = "asked" THEN [row[t] EXCEPT !.status = "none"] ELSE row[t]
    BY DEF Crash
  <2>3. QED
    BY <2>1, <2>2 DEF Row, Status
<1>7. TasksOK'
  BY <1>6 DEF Crash, Typed, TasksOK
<1>8. /\ excuse' \in [Task -> SUBSET Gaps]
      /\ \A t \in Task : /\ excuse[t] \subseteq excuse'[t]
                         /\ \A r \in Removal : t \in OwnedBy(rem[r].backup) => "displaced" \in excuse'[t]
  BY GapAdds DEF Crash, Typed, Gaps
<1>9. crashes' \in 0..MaxCrash
  BY BoundsAssumption DEF Crash, Typed, GhostsOK
<1>10. GhostsOK'
  BY <1>8, <1>9 DEF Crash, Typed, GhostsOK
<1>11. QED
  BY <1>1, <1>2, <1>3, <1>4, <1>5, <1>6, <1>7, <1>8, <1>10, RestIs DEF Crash, Typed

LEMMA InitTyped == Init => Typed
<1> SUFFICES ASSUME Init PROVE Typed
  OBVIOUS
<1>1. Idle \in Execution /\ Idle.at = "off" /\ Idle.task = None
  BY DEF Idle, Execution, Steps
<1>2. ExecOK /\ RemOK /\ OneTransaction
  BY <1>1, RestIs DEF Init, ExecOK, RemOK, OneTransaction, InTransaction
<1>3. FilesOK /\ TasksOK /\ GhostsOK
  BY BoundsAssumption DEF Init, FilesOK, TasksOK, GhostsOK, Row, Status
<1>4. QED
  BY <1>2, <1>3 DEF Typed

LEMMA NextTyped == Typed /\ [Next]_vars => Typed'
<1> SUFFICES ASSUME Typed, [Next]_vars PROVE Typed'
  OBVIOUS
<1>1. CASE ProjectSide
  <2>1. UNCHANGED <<row, owner, revoked, exec, rem, ghosts, bounds>>
    BY <1>1 DEF ProjectSide, Publish, Create, Import
  <2>2. FilesOK'
    BY <1>1 DEF ProjectSide, Publish, Create, Import, Typed, FilesOK
  <2>3. QED
    BY <2>1, <2>2, KeptTypes DEF Typed
<1>2. CASE UNCHANGED vars
  BY <1>2, KeptTypes DEF vars, files, ghosts, bounds, Typed
<1>3. QED
  BY <1>1, <1>2, RequestTypes, WorkerTypes, RemovalTypes, CrashMoves
     DEF Next, RequestSide, WorkerSide, RemovalSide

LEMMA AlwaysTyped == Spec => []Typed
<1>1. QED
  BY InitTyped, NextTyped, PTL DEF Spec

(* Every reachable state is well typed, and one removal's transaction is   *)
(* open at a time.                                                         *)
THEOREM RetirementTypeCorrect == Spec => []TypeOK
<1>1. QED
  BY AlwaysTyped, TypeParts, PTL

-----------------------------------------------------------------------------
(* There is a row for t.                                                   *)
Kept(t) == row[t].status \notin {"none", "asked"}

(* The rows a transaction strikes are those that run, until its end.       *)
IdsInv == \A r \in Removal : InTransaction(r) => rem[r].ids = Running

(* A revoked task is struck already, or about to be.                       *)
RevokedInv ==
  \A t \in revoked : row[t].name = "tomb" \/ \E r \in Removal : InTransaction(r) /\ t \in rem[r].ids

(* What a step may do to a row.                                            *)
RowStep(t) ==
  \/ row'[t] = row[t]
  \/ row'[t].name = row[t].name /\ row[t].status = "none" /\ row'[t].status = "asked" /\ Ask(t)
  \/ row'[t].name = row[t].name /\ row[t].status = "asked" /\ row'[t].status = "none"
  \/ /\ Unlocked /\ row'[t].name = row[t].name
     /\ \/ row[t].status = "asked" /\ row'[t].status = "queued" /\ Insert(t)
        \/ row[t].status = "queued" /\ row'[t].status = "running" /\ \E e \in Exec : Claim(e, t)
        \/ /\ row[t].status = "running" /\ row'[t].status \in {"succeeded", "failed", "queued", "deleted"}
           /\ \/ row'[t].status = "deleted" \/ (row'[t].status = "failed" /\ "crashed" \in excuse'[t])
              \/ \E e \in Exec : /\ exec[e].task = t /\ exec[e].at \in DOMAIN Ends
                                /\ row'[t].status = Ends[exec[e].at]
  \/ row'[t] = Retired(row[t]) /\ \E r \in Removal : Commit(r)

LEMMA WorkerRows ==
  ASSUME Typed, NEW e \in Exec, NEW t \in Task,
         \/ \E u \in Task : Claim(e, u) \/ Resume(e, u)
         \/ Check(e) \/ Write(e) \/ Return(e) \/ Settle(e) \/ Bury(e) \/ Sweep(e)
  PROVE  RowStep(t)
<1>1. exec[e].at # "off" => exec[e].task \in Task
  BY DEF Typed, ExecOK, Execution
<1>2. ASSUME NEW u \in Task, Claim(e, u) PROVE RowStep(t)
  <2>1. row'[u].status = "running" /\ row'[u].name = row[u].name /\ \A v \in Task \ {u} : row'[v] = row[v]
    BY <1>2, SetRowSets DEF Claim, Typed, Status
  <2>2. row[u].status = "queued" /\ Unlocked
    BY <1>2 DEF Claim
  <2>3. QED
    BY <1>2, <2>1, <2>2 DEF RowStep
<1>3. ASSUME NEW s \in Status, EndRow(exec[e].task, s), exec[e].at # "off", Unlocked,
             s \in {"succeeded", "failed", "queued", "deleted"},
             s = "deleted" \/ (exec[e].at \in DOMAIN Ends /\ s = Ends[exec[e].at])
      PROVE  RowStep(t)
  <2>1. CASE UNCHANGED row
    BY <2>1 DEF RowStep
  <2>2. CASE row[exec[e].task].status = "running" /\ SetRow(exec[e].task, s)
    <3>1. /\ row'[exec[e].task].status = s /\ row'[exec[e].task].name = row[exec[e].task].name
          /\ \A v \in Task \ {exec[e].task} : row'[v] = row[v]
      BY <1>1, <1>3, <2>2, SetRowSets DEF Typed
    <3>2. QED
      BY <1>3, <2>2, <3>1 DEF RowStep
  <2>3. QED
    BY <1>3, <2>1, <2>2 DEF EndRow
<1>4. CASE Settle(e)
  <2>1. Ends[exec[e].at] \in {"succeeded", "failed", "queued", "deleted"} /\ exec[e].at # "off"
        /\ exec[e].at \in DOMAIN Ends
        /\ EndRow(exec[e].task, Ends[exec[e].at]) /\ Unlocked
    BY <1>4, EndsFacts DEF Settle
  <2>2. QED
    BY <1>3, <2>1 DEF Status
<1>5. CASE Bury(e)
  <2>1. PICK s \in Status : s = "deleted"
    BY DEF Status
  <2>2. EndRow(exec[e].task, s) /\ exec[e].at # "off" /\ Unlocked
    BY <1>5, <2>1 DEF Bury
  <2>3. QED
    BY <1>3, <2>1, <2>2
<1>6. CASE Check(e) \/ Write(e) \/ Return(e) \/ Sweep(e) \/ \E u \in Task : Resume(e, u)
  BY <1>6 DEF Check, Write, Return, Sweep, Resume, RowStep
<1>7. QED
  BY <1>2, <1>4, <1>5, <1>6

LEMMA RowsStep ==
  ASSUME Typed, [Next]_vars, NEW t \in Task
  PROVE  RowStep(t)
<1>1. ASSUME NEW u \in Task, Ask(u) \/ Insert(u) \/ Lose(u) PROVE RowStep(t)
  <2>1. PICK s \in Status : SetRow(u, s)
    BY <1>1 DEF Ask, Insert, Lose, Status
  <2>2. row'[u].status = s /\ row'[u].name = row[u].name /\ \A v \in Task \ {u} : row'[v] = row[v]
    BY <2>1, SetRowSets DEF Typed
  <2>3. CASE t # u
    BY <2>2, <2>3 DEF RowStep
  <2>4. CASE t = u
    <3>1. CASE Ask(u)
      <4>1. row'[u].status = "asked"
        BY <3>1, SetRowSets DEF Ask, Typed, Status
      <4>2. QED
        BY <2>2, <2>4, <3>1, <4>1 DEF Ask, RowStep
    <3>2. CASE Insert(u)
      <4>1. row'[u].status = "queued"
        BY <3>2, SetRowSets DEF Insert, Typed, Status
      <4>2. QED
        BY <2>2, <2>4, <3>2, <4>1 DEF Insert, RowStep
    <3>3. CASE Lose(u)
      <4>1. row'[u].status = "deleted" \/ (row'[u].status = "failed" /\ "crashed" \in excuse'[u])
        BY <3>3, SetRowSets, GapAdds DEF Lose, Typed, Status, Gaps
      <4>2. QED
        BY <2>2, <2>4, <3>3, <4>1 DEF Lose, RowStep
    <3>4. QED
      BY <1>1, <3>1, <3>2, <3>3
  <2>5. QED
    BY <2>3, <2>4
<1>2. CASE RemovalSide
  BY <1>2 DEF RemovalSide, Begin, Commit, Move, Place, Fail, Restore, RemoveDir, RowStep
<1>3. CASE ProjectSide \/ UNCHANGED vars
  BY <1>3 DEF ProjectSide, Publish, Create, Import, vars, RowStep
<1>4. CASE Crash
  BY <1>4, CrashMoves DEF RowStep
<1>5. QED
  BY <1>1, <1>2, <1>3, <1>4, WorkerRows DEF Next, RequestSide, WorkerSide

(* The excuses of a task only grow.                                        *)
LEMMA ExcusesGrow ==
  ASSUME Typed, [Next]_vars, NEW t \in Task
  PROVE  excuse[t] \subseteq excuse'[t]
<1> USE DEF Gaps
<1>1. ASSUME NEW u \in Task, Ask(u) \/ Insert(u) \/ Lose(u) PROVE excuse[t] \subseteq excuse'[t]
  BY <1>1, GapAdds DEF Ask, Insert, Lose, ghosts, Typed
<1>2. ASSUME NEW e \in Exec, (\E u \in Task : Claim(e, u) \/ Resume(e, u)) \/ Check(e) \/ Return(e) \/ Bury(e)
      PROVE  excuse[t] \subseteq excuse'[t]
  BY <1>2 DEF Claim, Resume, Check, Return, Bury, ghosts
<1>3. ASSUME NEW e \in Exec, Write(e) PROVE excuse[t] \subseteq excuse'[t]
  BY <1>3 DEF Write, Typed, GhostsOK
<1>4. ASSUME NEW e \in Exec, Settle(e) \/ Sweep(e) PROVE excuse[t] \subseteq excuse'[t]
  BY <1>4, GapAdds DEF Settle, Sweep, Leave, Typed
<1>5. ASSUME NEW r \in Removal, \E k \in {"delete", "overwrite"}, p \in Project \cup {None} : Begin(r, k, p)
      PROVE  excuse[t] \subseteq excuse'[t]
  BY <1>5, BeginMoves
<1>6. ASSUME NEW r \in Removal, Commit(r) \/ Move(r) \/ Place(r) \/ Fail(r) \/ Restore(r) \/ RemoveDir(r)
      PROVE  excuse[t] \subseteq excuse'[t]
  BY <1>6, GapAdds DEF Commit, Move, Place, Fail, Restore, RemoveDir, ghosts, Typed
<1>7. CASE ProjectSide \/ UNCHANGED vars
  BY <1>7 DEF ProjectSide, Publish, Create, Import, vars, ghosts
<1>8. QED
  BY <1>1, <1>2, <1>3, <1>4, <1>5, <1>6, <1>7, CrashMoves DEF Next, RequestSide, WorkerSide, RemovalSide

-----------------------------------------------------------------------------
(* What a step may do to an execution.                                     *)
ExecStep(e) ==
  \/ /\ exec'[e].at = exec[e].at /\ exec'[e].task = exec[e].task /\ exec'[e].name = exec[e].name
     /\ \/ exec[e].early => exec'[e].early
        \/ \E r \in Removal : Fail(r) /\ exec[e].task \in rem[r].ids
  \/ \E u \in Task :
       /\ exec[e].at = "off" /\ exec'[e].at = "claimed" /\ exec'[e].task = u
       /\ exec'[e].name = row[u].name /\ row'[u].name = row[u].name
       /\ \/ row[u].status = "queued" /\ row'[u].status = "running" /\ Unlocked
          \/ row[u].status = "running" /\ row[u].name = "live" /\ UNCHANGED row
       /\ UNCHANGED <<owner, dir, rem, revoked, written>>
  \/ /\ exec[e].at \in {"claimed", "wrote"}
     /\ exec'[e].at = (IF Claimed(e) /\ dir # None THEN "cleared" ELSE "aborted")
     /\ exec'[e].task = exec[e].task /\ exec'[e].name = exec[e].name
     /\ UNCHANGED <<row, owner, dir, rem, revoked, written>>
  \/ /\ Write(e) /\ exec'[e].at \in {"wrote", "aborted"}
     /\ exec'[e].task = exec[e].task /\ exec'[e].name = exec[e].name
  \/ /\ exec[e].at \in {"claimed", "wrote", "aborted"}
     /\ exec'[e].at \in DOMAIN Ends \cup {"bury"}
     /\ exec[e].task \in revoked => exec'[e].at = "bury"
     /\ exec'[e].at = "mark" => exec[e].at = "wrote"
     /\ exec'[e].task = exec[e].task /\ exec'[e].name = exec[e].name
     /\ UNCHANGED <<row, owner, dir, rem, revoked, written>>
  \/ /\ exec[e].at = "bury" /\ exec'[e].at = "sweep" /\ row'[exec[e].task].status # "running"
     /\ exec'[e].task = exec[e].task /\ exec'[e].name = exec[e].name
     /\ UNCHANGED <<owner, dir, rem, revoked, written>>
  \/ /\ exec[e].at \in DOMAIN Ends \cup {"sweep"} /\ Leave(e)
     /\ exec'[e].at = "off" /\ exec'[e].task = None
     /\ exec[e].at \in DOMAIN Ends => Unlocked /\ row'[exec[e].task].status # "running"
  \/ exec'[e].at = "off" /\ exec'[e].task = None /\ Crash

(* A row that is not running after an end was written for it.              *)
LEMMA EndRowEnds ==
  ASSUME Typed, NEW t \in Task, NEW s \in Status \ {"running"}, EndRow(t, s)
  PROVE  row'[t].status # "running"
BY SetRowSets DEF EndRow, Typed

LEMMA WorkerSteps ==
  ASSUME Typed, NEW d \in Exec, NEW e \in Exec,
         \/ \E u \in Task : Claim(d, u) \/ Resume(d, u)
         \/ Check(d) \/ Write(d) \/ Return(d) \/ Settle(d) \/ Bury(d) \/ Sweep(d)
  PROVE  ExecStep(e)
<1>0. exec[d].at # "off" => exec[d].task \in Task
  BY DEF Typed, ExecOK, Execution
<1>1. ASSUME exec'[e] = exec[e] PROVE ExecStep(e)
  BY <1>1 DEF ExecStep
<1>2. ASSUME NEW u \in Task, Claim(d, u) \/ Resume(d, u) PROVE ExecStep(e)
  <2>1. /\ exec'[d].at = "claimed" /\ exec'[d].task = u /\ exec'[d].name = row[u].name
        /\ \A f \in Exec \ {d} : exec'[f] = exec[f]
    BY <1>2, StartMoves DEF Claim, Resume, Typed
  <2>2. /\ exec[d].at = "off" /\ row'[u].name = row[u].name
        /\ \/ row[u].status = "queued" /\ row'[u].status = "running" /\ Unlocked
           \/ row[u].status = "running" /\ row[u].name = "live" /\ UNCHANGED row
        /\ UNCHANGED <<owner, dir, rem, revoked, written>>
    BY <1>2, SetRowSets DEF Claim, Resume, Typed, Status, files, ghosts
  <2>3. QED
    BY <1>1, <2>1, <2>2 DEF ExecStep
<1>3. CASE Check(d)
  <2>1. exec[d].at \in {"claimed", "wrote"} /\ UNCHANGED <<row, owner, dir, rem, revoked, written>>
    BY <1>3 DEF Check, files, ghosts
  <2>2. QED
    BY <1>1, <1>3, <2>1, CheckMoves DEF ExecStep, Typed
<1>4. CASE Write(d)
  <2>1. exec[d].at = "cleared" /\ \E s \in {"wrote", "aborted"} : Step(d, s)
    BY <1>4 DEF Write
  <2>2. /\ exec'[d].at \in {"wrote", "aborted"} /\ exec'[d].task = exec[d].task
        /\ exec'[d].name = exec[d].name /\ \A f \in Exec \ {d} : exec'[f] = exec[f]
    BY <2>1, StepMoves DEF Typed, Steps
  <2>3. QED
    BY <1>1, <1>4, <2>2 DEF ExecStep
<1>5. CASE Return(d)
  <2>1. PICK s \in Outcomes(exec[d].at) : Step(d, Verdict(d, s))
    BY <1>5 DEF Return
  <2>2. exec[d].at \in {"claimed", "wrote", "aborted"} /\ s \in DOMAIN Ends
        /\ (s = "mark" => exec[d].at = "wrote")
    BY <2>1, EndsFacts DEF Outcomes
  <2>3. /\ Verdict(d, s) \in DOMAIN Ends \cup {"bury"}
        /\ exec[d].task \in revoked => Verdict(d, s) = "bury"
        /\ Verdict(d, s) = "mark" => s = "mark"
    BY <2>2 DEF Verdict
  <2>4. /\ exec'[d].at = Verdict(d, s) /\ exec'[d].task = exec[d].task
        /\ exec'[d].name = exec[d].name /\ \A f \in Exec \ {d} : exec'[f] = exec[f]
    BY <2>1, <2>2, <2>3, EndsFacts, StepMoves DEF Typed, Steps
  <2>5. UNCHANGED <<row, owner, dir, rem, revoked, written>>
    BY <1>5 DEF Return, files, ghosts
  <2>6. QED
    BY <1>1, <2>2, <2>3, <2>4, <2>5 DEF ExecStep
<1>6. CASE Bury(d)
  <2>1. /\ exec[d].at = "bury" /\ Step(d, "sweep") /\ EndRow(exec[d].task, "deleted")
        /\ UNCHANGED <<owner, dir, rem, revoked, written>>
    BY <1>6 DEF Bury, files, ghosts
  <2>2. row'[exec[d].task].status # "running"
    BY <1>0, <2>1, EndRowEnds DEF Status
  <2>3. /\ exec'[d].at = "sweep" /\ exec'[d].task = exec[d].task
        /\ exec'[d].name = exec[d].name /\ \A f \in Exec \ {d} : exec'[f] = exec[f]
    BY <2>1, StepMoves DEF Typed, Steps
  <2>4. QED
    BY <1>1, <2>1, <2>2, <2>3 DEF ExecStep
<1>7. CASE Settle(d) \/ Sweep(d)
  <2>1. exec[d].at \in DOMAIN Ends \cup {"sweep"} /\ Leave(d)
    BY <1>7 DEF Settle, Sweep
  <2>2. ASSUME exec[d].at \in DOMAIN Ends PROVE Unlocked /\ row'[exec[d].task].status # "running"
    <3>1. Settle(d) /\ exec[d].at # "off"
      BY <1>7, <2>2, EndsFacts DEF Sweep
    <3>2. EndRow(exec[d].task, Ends[exec[d].at]) /\ Unlocked
      BY <3>1 DEF Settle
    <3>3. QED
      BY <1>0, <2>2, <3>1, <3>2, EndRowEnds, EndsFacts DEF Status
  <2>3. QED
    BY <1>1, <2>1, <2>2, LeaveMoves DEF ExecStep, Typed
<1>8. QED
  BY <1>2, <1>3, <1>4, <1>5, <1>6, <1>7

LEMMA ExecsStep ==
  ASSUME Typed, [Next]_vars, NEW e \in Exec
  PROVE  ExecStep(e)
<1>1. CASE RequestSide \/ ProjectSide \/ UNCHANGED vars
  BY <1>1 DEF RequestSide, Ask, Insert, Lose, ProjectSide, Publish, Create, Import, vars, ExecStep
<1>2. ASSUME NEW r \in Removal, Commit(r) \/ Move(r) \/ Place(r) \/ Restore(r) \/ RemoveDir(r)
      PROVE  ExecStep(e)
  BY <1>2 DEF Commit, Move, Place, Restore, RemoveDir, ExecStep
<1>3. ASSUME NEW r \in Removal, Fail(r) PROVE ExecStep(e)
  BY <1>3, FailMoves DEF ExecStep
<1>4. ASSUME NEW r \in Removal, \E k \in {"delete", "overwrite"}, p \in Project \cup {None} : Begin(r, k, p)
      PROVE  ExecStep(e)
  BY <1>4, BeginMoves DEF ExecStep
<1>5. CASE Crash
  BY <1>5, CrashMoves DEF ExecStep
<1>6. QED
  BY <1>1, <1>2, <1>3, <1>4, <1>5, WorkerSteps DEF Next, WorkerSide, RemovalSide

-----------------------------------------------------------------------------
(* The transaction of a removal: opened by Begin, closed by Commit or Fail.*)
LEMMA TransactionsStep ==
  ASSUME Typed, [Next]_vars, NEW r \in Removal
  PROVE  /\ InTransaction(r)' =>
              \/ InTransaction(r) /\ rem'[r].ids = rem[r].ids
              \/ /\ Unlocked /\ rem'[r].ids = Running /\ UNCHANGED row
                 /\ \E k \in {"delete", "overwrite"}, p \in Project \cup {None} : Begin(r, k, p)
         /\ InTransaction(r) =>
              \/ InTransaction(r)' /\ rem'[r].ids = rem[r].ids /\ ~ \E s \in Removal : Commit(s) \/ Fail(s)
              \/ Commit(r) \/ Fail(r) \/ Crash
<1> DEFINE Goal ==
             /\ InTransaction(r)' =>
                  \/ InTransaction(r) /\ rem'[r].ids = rem[r].ids
                  \/ /\ Unlocked /\ rem'[r].ids = Running /\ UNCHANGED row
                     /\ \E k \in {"delete", "overwrite"}, p \in Project \cup {None} : Begin(r, k, p)
             /\ InTransaction(r) =>
                  \/ InTransaction(r)' /\ rem'[r].ids = rem[r].ids /\ ~ \E s \in Removal : Commit(s) \/ Fail(s)
                  \/ Commit(r) \/ Fail(r) \/ Crash
<1>0. \A s \in Removal : Commit(s) \/ Fail(s) => InTransaction(s) /\ ~InTransaction(s)'
  <2> SUFFICES ASSUME NEW s \in Removal, Commit(s) \/ Fail(s) PROVE InTransaction(s) /\ ~InTransaction(s)'
    OBVIOUS
  <2>1. CASE Commit(s)
    BY <2>1, ToMoves, PutMoves, RestIs DEF Commit, InTransaction, Typed
  <2>2. CASE Fail(s)
    BY <2>2, FailMoves, RestIs DEF Fail, InTransaction
  <2>3. QED
    BY <2>1, <2>2
<1>1. ASSUME rem'[r] = rem[r] PROVE Goal
  <2>1. InTransaction(r)' <=> InTransaction(r)
    BY <1>1 DEF InTransaction
  <2>2. InTransaction(r) => ~ \E s \in Removal : Commit(s) \/ Fail(s)
    BY <1>0, <2>1 DEF Typed, OneTransaction
  <2>3. QED
    BY <1>1, <2>1, <2>2
<1>2. CASE RequestSide \/ WorkerSide \/ ProjectSide \/ UNCHANGED vars
  <2>1. UNCHANGED rem
    BY <1>2 DEF RequestSide, Ask, Insert, Lose, WorkerSide, Claim, Resume, Check, Write, Return, Settle,
                Bury, Sweep, ProjectSide, Publish, Create, Import, vars
  <2>2. QED
    BY <1>1, <2>1
<1>3. ASSUME NEW q \in Removal, NEW k \in {"delete", "overwrite"}, NEW p \in Project \cup {None}, Begin(q, k, p)
      PROVE  Goal
  <2>1. CASE q # r
    BY <1>1, <1>3, <2>1, BeginMoves
  <2>2. CASE q = r
    <3>1. ~InTransaction(r) /\ Unlocked /\ UNCHANGED row /\ rem'[r].ids = Running
      BY <1>3, <2>2, BeginMoves DEF Begin, Unlocked
    <3>2. QED
      BY <1>3, <2>2, <3>1
  <2>3. QED
    BY <2>1, <2>2
<1>4. ASSUME NEW q \in Removal, Commit(q) \/ Fail(q) PROVE Goal
  <2>1. CASE q # r
    <3>1. rem'[r] = rem[r]
      BY <1>4, <2>1, ToMoves, PutMoves, RestIs, FailMoves DEF Commit, Typed
    <3>2. QED
      BY <1>1, <3>1
  <2>2. CASE q = r
    BY <1>0, <1>4, <2>2
  <2>3. QED
    BY <2>1, <2>2
<1>5. ASSUME NEW q \in Removal, Move(q) \/ Place(q) \/ Restore(q) \/ RemoveDir(q) PROVE Goal
  <2>1. /\ \A s \in Removal \ {q} : rem'[s] = rem[s]
        /\ \/ InTransaction(q) /\ InTransaction(q)' /\ rem'[q].ids = rem[q].ids
           \/ ~InTransaction(q) /\ ~InTransaction(q)'
    <3>1. CASE Move(q)
      <4> DEFINE new == [rem[q] EXCEPT !.at = "moved", !.backup = dir]
      <4>1. rem[q] \in Removing /\ dir \in Project \cup {None, Residue, Litter}
        BY DEF Typed, RemOK, FilesOK
      <4>2. new \in Removing /\ new.at = "moved" /\ new.ids = rem[q].ids /\ Put(q, new)
        BY <3>1, <4>1 DEF Move, Removing
      <4>3. QED
        BY <3>1, <4>2, PutMoves DEF Move, InTransaction, Typed
    <3>2. CASE Place(q)
      BY <3>2, ToMoves DEF Place, InTransaction, Typed
    <3>3. CASE Restore(q) \/ RemoveDir(q)
      BY <3>3, PutMoves, RestIs DEF Restore, RemoveDir, InTransaction, Typed
    <3>4. QED
      BY <1>5, <3>1, <3>2, <3>3
  <2>2. CASE q # r
    BY <1>1, <2>1, <2>2
  <2>3. CASE q = r /\ InTransaction(q)
    <3>1. ~ \E s \in Removal : Commit(s) \/ Fail(s)
      BY <1>0, <2>1, <2>3 DEF Typed, OneTransaction
    <3>2. QED
      BY <2>1, <2>3, <3>1
  <2>4. CASE q = r /\ ~InTransaction(q)
    BY <2>1, <2>4
  <2>5. QED
    BY <2>2, <2>3, <2>4
<1>6. CASE Crash
  BY <1>6, CrashMoves DEF InTransaction
<1>7. Goal
  BY <1>2, <1>3, <1>4, <1>5, <1>6 DEF Next, RemovalSide
<1>8. QED
  BY <1>7

(* What a step may do to a revocation.                                     *)
LEMMA RevokedStep ==
  ASSUME Typed, [Next]_vars, NEW t \in Task
  PROVE  /\ t \in revoked' \ revoked =>
              /\ t \in Running
              /\ \E r \in Removal, k \in {"delete", "overwrite"}, p \in Project \cup {None} : Begin(r, k, p)
         /\ t \in revoked \ revoked' =>
              \/ Crash
              \/ \E r \in Removal : Fail(r) /\ t \in rem[r].ids
              \/ \E e \in Exec : exec[e].task = t /\ Leave(e) /\ (Settle(e) \/ Sweep(e))
<1>1. CASE RequestSide \/ ProjectSide \/ UNCHANGED vars
  BY <1>1 DEF RequestSide, Ask, Insert, Lose, ProjectSide, Publish, Create, Import, vars
<1>2. CASE WorkerSide
  <2>1. PICK e \in Exec : \/ \E u \in Task : Claim(e, u) \/ Resume(e, u)
                          \/ Check(e) \/ Write(e) \/ Return(e) \/ Settle(e) \/ Bury(e) \/ Sweep(e)
    BY <1>2 DEF WorkerSide
  <2>2. CASE Settle(e) \/ Sweep(e)
    <3>1. Leave(e) /\ revoked' = revoked \ {exec[e].task}
      BY <2>2 DEF Settle, Sweep, Leave
    <3>2. QED
      BY <2>2, <3>1
  <2>3. CASE ~(Settle(e) \/ Sweep(e))
    BY <2>1, <2>3 DEF Claim, Resume, Check, Write, Return, Bury
  <2>4. QED
    BY <2>2, <2>3
<1>3. ASSUME NEW r \in Removal, NEW k \in {"delete", "overwrite"}, NEW p \in Project \cup {None}, Begin(r, k, p)
      PROVE  revoked' = revoked \cup Running
  BY <1>3 DEF Begin, Revoke
<1>4. ASSUME NEW r \in Removal, Commit(r) \/ Move(r) \/ Place(r) \/ Restore(r) \/ RemoveDir(r)
      PROVE  revoked' = revoked
  BY <1>4 DEF Commit, Move, Place, Restore, RemoveDir
<1>5. ASSUME NEW r \in Removal, Fail(r) PROVE revoked' = revoked \ rem[r].ids
  BY <1>5 DEF Fail, Restored
<1>6. CASE Crash
  BY <1>6 DEF Crash
<1>7. CASE RemovalSide
  <2>1. PICK r \in Removal :
      \/ \E k \in {"delete", "overwrite"}, p \in Project \cup {None} : Begin(r, k, p)
      \/ Commit(r) \/ Move(r) \/ Place(r) \/ Fail(r) \/ Restore(r) \/ RemoveDir(r)
    BY <1>7 DEF RemovalSide
  <2>2. QED
    BY <1>3, <1>4, <1>5, <2>1
<1>8. QED
  BY <1>1, <1>2, <1>6, <1>7 DEF Next

(* Rows are frozen while a transaction is open: what runs under the live   *)
(* name runs until it closes.                                              *)
LEMMA RunningStays ==
  ASSUME Typed, [Next]_vars, ~Unlocked, ~ \E s \in Removal : Commit(s)
  PROVE  Running' = Running
<1>1. ASSUME NEW t \in Task
      PROVE  (row'[t].status = "running" /\ row'[t].name = "live")
               <=> (row[t].status = "running" /\ row[t].name = "live")
  BY RowsStep DEF RowStep
<1>2. QED
  BY <1>1 DEF Running

LEMMA IdsKept ==
  ASSUME Typed, IdsInv, [Next]_vars
  PROVE  IdsInv'
<1> SUFFICES ASSUME NEW r \in Removal, InTransaction(r)' PROVE rem'[r].ids = Running'
  BY DEF IdsInv, InTransaction
<1>1. CASE Unlocked
  <2>1. rem'[r].ids = Running /\ UNCHANGED row
    BY <1>1, TransactionsStep DEF Unlocked
  <2>2. QED
    BY <2>1 DEF Running
<1>2. CASE ~Unlocked
  <2>1. InTransaction(r) /\ rem'[r].ids = rem[r].ids
    BY <1>2, TransactionsStep
  <2>2. ~ \E s \in Removal : Commit(s)
    <3> SUFFICES ASSUME NEW s \in Removal, Commit(s) PROVE FALSE
      OBVIOUS
    <3>1. InTransaction(s) /\ ~InTransaction(s)'
      BY ToMoves, PutMoves, RestIs DEF Commit, InTransaction, Typed
    <3>2. QED
      BY <2>1, <3>1 DEF Typed, OneTransaction
  <2>3. QED
    BY <1>2, <2>1, <2>2, RunningStays DEF IdsInv
<1>3. QED
  BY <1>1, <1>2

LEMMA RevokedKept ==
  ASSUME Typed, IdsInv, RevokedInv, [Next]_vars
  PROVE  RevokedInv'
<1> SUFFICES ASSUME NEW t \in Task, t \in revoked'
             PROVE  row'[t].name = "tomb" \/ \E r \in Removal : InTransaction(r)' /\ t \in rem'[r].ids
  BY NextTyped DEF RevokedInv, InTransaction, Typed, TasksOK
<1>1. CASE t \notin revoked
  <2>1. PICK r \in Removal, k \in {"delete", "overwrite"}, p \in Project \cup {None} :
           t \in Running /\ Begin(r, k, p)
    BY <1>1, RevokedStep
  <2>2. QED
    BY <2>1, BeginMoves DEF InTransaction
<1>2. CASE t \in revoked /\ row[t].name = "tomb"
  BY <1>2, RowsStep, RetiredIs DEF RowStep, Typed, TasksOK, Row
<1>3. ASSUME t \in revoked, NEW r \in Removal, InTransaction(r), t \in rem[r].ids
      PROVE  row'[t].name = "tomb" \/ \E s \in Removal : InTransaction(s)' /\ t \in rem'[s].ids
  <2>1. CASE InTransaction(r)' /\ rem'[r].ids = rem[r].ids
    BY <1>3, <2>1
  <2>2. CASE Commit(r)
    <3>1. row'[t] = Retired(row[t]) /\ row[t].status = "running" /\ row[t] \in Row
      BY <1>3, <2>2 DEF Commit, IdsInv, Running, Typed, TasksOK
    <3>2. QED
      BY <3>1, RetiredIs
  <2>3. CASE Fail(r) \/ Crash
    BY <1>3, <2>3 DEF Fail, Restored, Crash
  <2>4. QED
    BY <1>3, <2>1, <2>2, <2>3, TransactionsStep
<1>4. QED
  BY <1>1, <1>2, <1>3 DEF RevokedInv

LEMMA RevokedAlways == Spec => [](Typed /\ IdsInv /\ RevokedInv)
<1> DEFINE Inv == Typed /\ IdsInv /\ RevokedInv
<1>1. Init => Inv
  BY InitTyped, RestIs DEF Init, IdsInv, RevokedInv, InTransaction
<1>2. Inv /\ [Next]_vars => Inv'
  BY NextTyped, IdsKept, RevokedKept
<1>3. QED
  BY <1>1, <1>2, PTL DEF Spec

(* Outside a removal's transaction only tasks of retired projects are      *)
(* revoked: a removal that failed has given every claim back.              *)
THEOREM ClaimsReturned == Spec => []OnlyRetiredRevoked
<1>1. Typed /\ IdsInv /\ RevokedInv => OnlyRetiredRevoked
  BY DEF RevokedInv, OnlyRetiredRevoked, Unlocked
<1>2. QED
  BY <1>1, RevokedAlways, PTL

-----------------------------------------------------------------------------
(* A running row whose task was buried by one execution is held by another.*)
SweepInv ==
  \A e \in Exec, t \in Task :
    exec[e].task = t /\ exec[e].at = "sweep" /\ row[t].status = "running"
      => \E f \in Exec : exec[f].task = t /\ exec[f].at # "sweep"

(* While the transaction is open the tasks it will strike are revoked, and *)
(* no execution of them is about to write another end.                     *)
ClaimsInv ==
  \A r \in Removal, t \in Task :
    InTransaction(r) /\ t \in rem[r].ids => t \in revoked \/ Excused(t, {"forgotten"})
OutcomeInv ==
  \A r \in Removal, t \in Task, e \in Exec :
    InTransaction(r) /\ t \in rem[r].ids /\ exec[e].task = t /\ exec[e].at \in DOMAIN Ends
      => Excused(t, {"returned", "forgotten"})

(* The same of the tasks struck, until they have ended.                    *)
Doomed(t) ==
  /\ row[t].name = "tomb" /\ row[t].status \in {"running", "deleted"}
  /\ \A e \in Exec : exec[e].task = t => t \in revoked /\ exec[e].at \notin DOMAIN Ends
StruckInv ==
  \A t \in struck : Doomed(t) \/ Excused(t, {"returned", "forgotten", "crashed"})

LEMMA ExcusedStays ==
  ASSUME Typed, [Next]_vars, NEW t \in Task, NEW gaps, Excused(t, gaps)
  PROVE  Excused(t, gaps)'
BY ExcusesGrow DEF Excused

(* An execution that leaves drops the revocation for the others too.       *)
LEMMA LeaveForgets ==
  ASSUME Typed, NEW d \in Exec, NEW e \in Exec, d # e, NEW t \in Task, Leave(d),
         exec[d].task = t, exec[e].task = t, t \in revoked
  PROVE  "forgotten" \in excuse'[t]
<1>1. e \in Others(d, t) /\ "forgotten" \in Gaps
  BY DEF Others, Gaps
<1>2. excuse' = Gap({t}, "forgotten")
  BY <1>1 DEF Leave
<1>3. QED
  BY <1>1, <1>2, GapAdds DEF Typed

LEMMA SweepKept ==
  ASSUME Typed, SweepInv, [Next]_vars
  PROVE  SweepInv'
<1> SUFFICES ASSUME NEW e \in Exec, NEW t \in Task, exec'[e].task = t, exec'[e].at = "sweep",
                    row'[t].status = "running"
             PROVE  \E f \in Exec : exec'[f].task = t /\ exec'[f].at # "sweep"
  BY DEF SweepInv
<1>0. t # None /\ \A f \in Exec : exec[f].at = "off" <=> exec[f].task = None
  BY NamesAssumption DEF Typed, ExecOK
<1>1. exec[e].task = t /\ exec[e].at = "sweep"
  BY ExecsStep, EndsFacts DEF ExecStep
<1>2. CASE row[t].status = "running"
  <2>1. PICK f \in Exec : exec[f].task = t /\ exec[f].at # "sweep"
    BY <1>1, <1>2 DEF SweepInv
  <2>2. ~Crash
    BY CrashMoves
  <2>3. exec'[f].task = t /\ exec'[f].at # "sweep"
    BY <1>0, <2>1, <2>2, ExecsStep, EndsFacts DEF ExecStep
  <2>4. QED
    BY <2>3
<1>3. CASE row[t].status # "running"
  <2>1. row[t] \in Row
    BY DEF Typed, TasksOK
  <2>2. \E d \in Exec : Claim(d, t)
    BY <1>3, <2>1, RowsStep, RetiredIs DEF RowStep
  <2>3. QED
    BY <2>2, StartMoves DEF Claim, Typed
<1>4. QED
  BY <1>2, <1>3

LEMMA ClaimsKept ==
  ASSUME Typed, IdsInv, SweepInv, ClaimsInv, [Next]_vars
  PROVE  ClaimsInv'
<1> SUFFICES ASSUME NEW r \in Removal, NEW t \in Task, InTransaction(r)', t \in rem'[r].ids
             PROVE  t \in revoked' \/ Excused(t, {"forgotten"})'
  BY DEF ClaimsInv
<1>1. CASE \E k \in {"delete", "overwrite"}, p \in Project \cup {None} : Begin(r, k, p)
  BY <1>1, BeginMoves DEF Begin, Revoke
<1>2. CASE InTransaction(r) /\ rem'[r].ids = rem[r].ids
  <2>1. CASE Excused(t, {"forgotten"})
    BY <2>1, ExcusedStays
  <2>2. CASE t \in revoked /\ t \notin revoked'
    <3>1. ~Crash
      BY CrashMoves DEF InTransaction
    <3>2. ~ \E s \in Removal : Fail(s)
      <4> SUFFICES ASSUME NEW s \in Removal, Fail(s) PROVE FALSE
        OBVIOUS
      <4>1. s = r
        BY <1>2 DEF Fail, Typed, OneTransaction
      <4>2. QED
        BY <4>1, FailMoves, RestIs DEF InTransaction
    <3>3. PICK d \in Exec : exec[d].task = t /\ Leave(d) /\ (Settle(d) \/ Sweep(d))
      BY <2>2, <3>1, <3>2, RevokedStep
    <3>4. Sweep(d)
      BY <1>2, <3>3 DEF Settle, Unlocked
    <3>5. row[t].status = "running" /\ exec[d].at = "sweep"
      BY <1>2, <3>4 DEF IdsInv, Running, Sweep
    <3>6. PICK f \in Exec : exec[f].task = t /\ f # d
      BY <3>3, <3>5 DEF SweepInv
    <3>7. "forgotten" \in excuse'[t]
      BY <2>2, <3>3, <3>6, LeaveForgets
    <3>8. QED
      BY <3>7 DEF Excused
  <2>3. QED
    BY <1>2, <2>1, <2>2 DEF ClaimsInv
<1>3. QED
  BY <1>1, <1>2, TransactionsStep

LEMMA OutcomesKept ==
  ASSUME Typed, ClaimsInv, OutcomeInv, [Next]_vars
  PROVE  OutcomeInv'
<1> SUFFICES ASSUME NEW r \in Removal, NEW t \in Task, NEW e \in Exec, InTransaction(r)', t \in rem'[r].ids,
                    exec'[e].task = t, exec'[e].at \in DOMAIN Ends
             PROVE  Excused(t, {"returned", "forgotten"})'
  BY DEF OutcomeInv
<1>1. CASE \E k \in {"delete", "overwrite"}, p \in Project \cup {None} : Begin(r, k, p)
  <2>1. t \in Running /\ exec[e].task = t /\ exec[e].at \in DOMAIN Ends
    BY <1>1, BeginMoves
  <2>2. "returned" \in excuse'[t]
    BY <1>1, <2>1, BeginMoves
  <2>3. QED
    BY <2>2 DEF Excused
<1>2. CASE InTransaction(r) /\ rem'[r].ids = rem[r].ids
  <2>1. CASE Excused(t, {"returned", "forgotten"})
    BY <2>1, ExcusedStays
  <2>2. CASE ~Excused(t, {"returned", "forgotten"})
    <3>1. t \in revoked
      BY <1>2, <2>2 DEF ClaimsInv, Excused
    <3>2. exec[e].task # t \/ exec[e].at \notin DOMAIN Ends
      BY <1>2, <2>2 DEF OutcomeInv
    <3>3. t # None
      BY NamesAssumption
    <3>4. QED
      BY <3>1, <3>2, <3>3, ExecsStep, EndsFacts DEF ExecStep
  <2>3. QED
    BY <2>1, <2>2
<1>3. QED
  BY <1>1, <1>2, TransactionsStep

LEMMA StruckKept ==
  ASSUME Typed, IdsInv, ClaimsInv, OutcomeInv, StruckInv, [Next]_vars
  PROVE  StruckInv'
<1> SUFFICES ASSUME NEW t \in Task, t \in struck'
             PROVE  Doomed(t)' \/ Excused(t, {"returned", "forgotten", "crashed"})'
  BY NextTyped DEF StruckInv, Typed, GhostsOK
<1>0. t # None
  BY NamesAssumption
<1>1. CASE Excused(t, {"returned", "forgotten", "crashed"})
  BY <1>1, ExcusedStays
<1>2. CASE t \in struck /\ Doomed(t) /\ ~Excused(t, {"returned", "forgotten", "crashed"})'
  <2>1. row[t] \in Row /\ row[t].name = "tomb" /\ row[t].status \in {"running", "deleted"}
    BY <1>2 DEF Doomed, Typed, TasksOK
  <2>2. "crashed" \notin excuse'[t]
    BY <1>2 DEF Excused
  <2>3. ~ \E e \in Exec : exec[e].task = t /\ exec[e].at \in DOMAIN Ends
    BY <1>2 DEF Doomed
  <2>4. row'[t].name = "tomb" /\ row'[t].status \in {"running", "deleted"}
    BY <2>1, <2>2, <2>3, RowsStep, RetiredIs DEF RowStep
  <2>5. ASSUME NEW e \in Exec, exec'[e].task = t PROVE t \in revoked' /\ exec'[e].at \notin DOMAIN Ends
    <3>1. ~Crash
      BY <1>0, <2>5, CrashMoves
    <3>2. exec[e].task = t
      BY <1>0, <2>1, <2>5, ExecsStep DEF ExecStep
    <3>3. t \in revoked /\ exec[e].at \notin DOMAIN Ends
      BY <1>2, <3>2 DEF Doomed
    <3>4. exec'[e].at \notin DOMAIN Ends
      BY <1>0, <2>5, <3>2, <3>3, ExecsStep, EndsFacts DEF ExecStep
    <3>5. ASSUME NEW s \in Removal, Fail(s), t \in rem[s].ids PROVE FALSE
      BY <2>1, <3>5 DEF Fail, IdsInv, Running
    <3>6. ASSUME NEW d \in Exec, exec[d].task = t, Leave(d) PROVE FALSE
      <4>1. d # e
        BY <1>0, <2>5, <3>6, LeaveMoves DEF Typed
      <4>2. "forgotten" \in excuse'[t]
        BY <3>2, <3>3, <3>6, <4>1, LeaveForgets
      <4>3. QED
        BY <1>2, <4>2 DEF Excused
    <3>7. t \in revoked'
      BY <3>1, <3>3, <3>5, <3>6, RevokedStep
    <3>8. QED
      BY <3>4, <3>7
  <2>6. QED
    BY <2>4, <2>5 DEF Doomed
<1>3. CASE t \notin struck
  <2>1. PICK r \in Removal : Commit(r) /\ t \in rem[r].ids
    <3>1. struck' # struck
      BY <1>3
    <3>2. CASE RequestSide \/ WorkerSide \/ ProjectSide \/ Crash \/ UNCHANGED vars
      BY <3>1, <3>2 DEF RequestSide, Ask, Insert, Lose, WorkerSide, Claim, Resume, Check, Write, Return, Settle,
                Bury, Sweep, ProjectSide, Publish, Create, Import, Crash, vars, ghosts
    <3>3. CASE RemovalSide
      BY <1>3, <3>3 DEF RemovalSide, Begin, Commit, Move, Place, Fail, Restore, RemoveDir, ghosts
    <3>4. QED
      BY <3>2, <3>3 DEF Next
  <2>2. InTransaction(r) /\ t \in Running
    BY <2>1 DEF Commit, InTransaction, IdsInv
  <2>3. row'[t] = Retired(row[t]) /\ row[t] \in Row /\ UNCHANGED <<revoked, exec, excuse>>
    BY <2>1 DEF Commit, Typed, TasksOK
  <2>4. row'[t].name = "tomb" /\ row'[t].status = "running"
    BY <2>2, <2>3, RetiredIs DEF Running
  <2>5. QED
    BY <2>1, <2>2, <2>3, <2>4 DEF Doomed, ClaimsInv, OutcomeInv, Excused
<1>4. QED
  BY <1>1, <1>2, <1>3 DEF StruckInv

(* A task running when its project's records were retired ends as deleted, *)
(* whatever its executor returned, unless its end had been decided before, *)
(* another execution of it left, or a restart failed it.                   *)
THEOREM RevokedFails == Spec => []RevokedTaskFails
<1> DEFINE Inv == Typed /\ IdsInv /\ SweepInv /\ ClaimsInv /\ OutcomeInv /\ StruckInv
<1>1. Init => SweepInv /\ ClaimsInv /\ OutcomeInv /\ StruckInv
  BY RestIs DEF Init, SweepInv, ClaimsInv, OutcomeInv, StruckInv, InTransaction
<1>2. Init => Inv
  BY <1>1, InitTyped, RestIs DEF Init, IdsInv, InTransaction
<1>3. Inv /\ [Next]_vars => Inv'
  BY NextTyped, IdsKept, SweepKept, ClaimsKept, OutcomesKept, StruckKept
<1>4. Inv => RevokedTaskFails
  BY DEF StruckInv, RevokedTaskFails, Doomed
<1>5. QED
  BY <1>2, <1>3, <1>4, PTL DEF Spec

-----------------------------------------------------------------------------
(* Incarnations are not used twice, and a project is asked for only when   *)
(* its project.json is there.                                              *)
NamesInv ==
  /\ dir \in Project => dir \in used
  /\ \A t \in Task : /\ owner[t] # None => owner[t] \in used /\ owner[t] # making
                     /\ row[t].status # "none" => owner[t] # None
  /\ \A r \in Removal : /\ rem[r].new \in Project => rem[r].new \in used
                        /\ rem[r].backup \in Project => rem[r].backup \in used

(* A backup exists between the two renames and the end of the removal.     *)
BackupInv == \A r \in Removal : rem[r].at \in {"off", "open", "delete"} => rem[r].backup = None

(* A live row's project has the directory, or a removal has set it aside.  *)
AtHome(t) ==
  /\ owner[t] = dir \/ \E r \in Removal : rem[r].backup = owner[t]
  /\ \A r \in Removal : rem[r].at # "delete"
LiveInv ==
  \A t \in Task : Kept(t) /\ row[t].name = "live" => AtHome(t) \/ Excused(t, {"requested", "displaced"})

LEMMA KeptStays ==
  ASSUME Typed, [Next]_vars, NEW t \in Task, Kept(t)
  PROVE  Kept(t)'
<1>1. row[t] \in Row
  BY DEF Typed, TasksOK
<1>2. QED
  BY <1>1, RowsStep, RetiredIs DEF RowStep, Kept

(* The project of a request is fixed until a crash drops the request.      *)
LEMMA OwnerStep ==
  ASSUME Typed, [Next]_vars, NEW t \in Task
  PROVE  \/ owner'[t] = owner[t]
         \/ row[t].status = "none" /\ owner'[t] = dir /\ dir \in Project \ {making} /\ UNCHANGED <<files, rem>>
         \/ row[t].status = "asked" /\ row'[t].status = "none" /\ owner'[t] = None
<1>1. ASSUME NEW u \in Task, Ask(u) PROVE row[u].status = "none" /\ owner' = [owner EXCEPT ![u] = dir]
                                          /\ dir \in Project \ {making} /\ UNCHANGED <<files, rem>>
  BY <1>1 DEF Ask, Published
<1>2. ASSUME NEW u \in Task, Insert(u) \/ Lose(u) PROVE owner' = owner
  BY <1>2 DEF Insert, Lose
<1>3. CASE WorkerSide
  BY <1>3 DEF WorkerSide, Claim, Resume, Check, Write, Return, Settle, Bury, Sweep
<1>4. CASE RemovalSide
  BY <1>4 DEF RemovalSide, Begin, Commit, Move, Place, Fail, Restore, RemoveDir
<1>5. CASE ProjectSide \/ UNCHANGED vars
  BY <1>5 DEF ProjectSide, Publish, Create, Import, vars
<1>6. CASE Crash
  BY <1>6, CrashMoves
<1>7. CASE RequestSide
  BY <1>1, <1>2, <1>7 DEF RequestSide, Typed, TasksOK
<1>8. QED
  BY <1>3, <1>4, <1>5, <1>6, <1>7 DEF Next

(* What becomes of the directory, the names used and the removals.         *)
FilesStep ==
  \/ UNCHANGED <<dir, making, used>> /\ UNCHANGED rem
  \/ UNCHANGED <<dir, making>> /\ used \subseteq used' /\ \E r \in Removal :
       /\ rem[r].at = "off" /\ rem'[r].at = "open" /\ rem'[r].backup = None
       /\ rem'[r].new # None => rem'[r].new \in used'
       /\ \A s \in Removal \ {r} : rem'[s] = rem[s]
  \/ UNCHANGED <<dir, making, used>> /\ \E r \in Removal :
       /\ Commit(r)
       /\ rem'[r].new \in {None, rem[r].new} /\ rem'[r].backup \in {None, rem[r].backup}
       /\ rem'[r].at = "off" => rem'[r].backup = None
       /\ rem'[r].at # "off" => rem[r].at = "open"
       /\ \A s \in Removal \ {r} : rem'[s] = rem[s]
  \/ UNCHANGED <<making, used>> /\ dir # None /\ dir' = None /\ \E r \in Removal :
       /\ rem[r].at = "open" /\ rem'[r].at = "moved" /\ rem'[r].backup = dir /\ rem'[r].new = rem[r].new
       /\ \A s \in Removal \ {r} : rem'[s] = rem[s]
  \/ UNCHANGED <<making, used>> /\ dir = None /\ \E r \in Removal :
       /\ dir' = rem[r].new /\ rem[r].at = "moved" /\ rem'[r].at = "placed"
       /\ rem'[r].backup = rem[r].backup /\ rem'[r].new = rem[r].new
       /\ \A s \in Removal \ {r} : rem'[s] = rem[s]
  \/ UNCHANGED <<dir, making, used>> /\ \E r \in Removal :
       /\ rem'[r].backup = rem[r].backup /\ rem'[r].new \in {None, rem[r].new}
       /\ rem'[r].at = (IF rem[r].backup = None THEN "off" ELSE "restore")
       /\ \A s \in Removal \ {r} : rem'[s] = rem[s]
  \/ UNCHANGED <<making, used>> /\ \E r \in Removal :
       /\ Restore(r) /\ dir' = rem[r].backup /\ rem'[r] = Rest
       /\ \A s \in Removal \ {r} : rem'[s] = rem[s]
  \/ UNCHANGED <<making, used>> /\ dir' \in {dir, None} /\ \E r \in Removal :
       /\ rem[r].at = "delete" /\ rem'[r] = Rest
       /\ \A s \in Removal \ {r} : rem'[s] = rem[s]
  \/ UNCHANGED <<making, used, rem>> /\ dir \notin Project /\ dir' \in {Residue, Litter}
  \/ UNCHANGED <<making, used, rem>> /\ (dir = Residue \/ dir = making) /\ dir' = None
  \/ UNCHANGED <<dir, used, rem>> /\ making' = None
  \/ /\ UNCHANGED rem /\ dir = None /\ dir' \in Project \ used /\ used' = used \cup {dir'}
     /\ making' \in {making, dir'}
  \/ Crash

LEMMA FilesMove ==
  ASSUME Typed, [Next]_vars
  PROVE  FilesStep
<1>1. CASE RequestSide \/ UNCHANGED vars
  BY <1>1 DEF RequestSide, Ask, Insert, Lose, files, vars, FilesStep
<1>2. ASSUME NEW e \in Exec, \/ \E u \in Task : Claim(e, u) \/ Resume(e, u)
                             \/ Check(e) \/ Return(e) \/ Settle(e) \/ Bury(e)
      PROVE  FilesStep
  BY <1>2 DEF Claim, Resume, Check, Return, Settle, Bury, files, FilesStep
<1>3. ASSUME NEW e \in Exec, Write(e) PROVE FilesStep
  <2>1. UNCHANGED <<making, used, rem>>
        /\ (UNCHANGED dir \/ (dir \notin Project /\ dir' \in {None, Residue, Litter}))
        /\ (dir' = None => dir = None)
    BY <1>3, NamesAssumption DEF Write
  <2>2. QED
    BY <2>1 DEF FilesStep
<1>4. ASSUME NEW e \in Exec, Sweep(e) PROVE FilesStep
  <2>1. UNCHANGED <<making, used, rem>> /\ (UNCHANGED dir \/ ((dir = Residue \/ dir = making) /\ dir' = None))
    BY <1>4 DEF Sweep, Bare
  <2>2. QED
    BY <2>1 DEF FilesStep
<1>5. ASSUME NEW r \in Removal, NEW k \in {"delete", "overwrite"}, NEW p \in Project \cup {None}, Begin(r, k, p)
      PROVE  FilesStep
  <2>1. UNCHANGED <<dir, making>> /\ rem[r].at = "off" /\ used \subseteq used' /\ (p # None => p \in used')
    BY <1>5 DEF Begin
  <2>2. QED
    BY <1>5, <2>1, BeginMoves DEF FilesStep
<1>6. ASSUME NEW r \in Removal, Commit(r) PROVE FilesStep
  <2>1. /\ rem'[r].new \in {None, rem[r].new} /\ rem'[r].backup \in {None, rem[r].backup}
        /\ rem'[r].at = "off" => rem'[r].backup = None
        /\ rem'[r].at # "off" => rem[r].at = "open"
        /\ \A s \in Removal \ {r} : rem'[s] = rem[s]
        /\ UNCHANGED <<dir, making, used>>
    BY <1>6, ToMoves, PutMoves, RestIs DEF Commit, Typed, files
  <2>2. QED
    BY <1>6, <2>1 DEF FilesStep
<1>7. ASSUME NEW r \in Removal, Move(r) PROVE FilesStep
  <2> DEFINE new == [rem[r] EXCEPT !.at = "moved", !.backup = dir]
  <2>1. rem[r] \in Removing /\ dir \in Project \cup {None, Residue, Litter}
    BY DEF Typed, RemOK, FilesOK
  <2>2. new \in Removing /\ new.at = "moved" /\ new.backup = dir /\ new.new = rem[r].new /\ Put(r, new)
    BY <1>7, <2>1 DEF Move, Removing
  <2> HIDE DEF new
  <2>3. rem'[r] = new /\ \A s \in Removal \ {r} : rem'[s] = rem[s]
    BY <2>2, PutMoves DEF Typed
  <2>4. rem[r].at = "open" /\ UNCHANGED <<making, used>> /\ dir # None /\ dir' = None
    BY <1>7 DEF Move
  <2>5. QED
    BY <2>2, <2>3, <2>4 DEF FilesStep
<1>8. ASSUME NEW r \in Removal, Place(r) PROVE FilesStep
  <2>1. UNCHANGED <<making, used>> /\ dir = None /\ dir' = rem[r].new /\ rem[r].at = "moved" /\ To(r, "placed")
    BY <1>8 DEF Place
  <2>2. QED
    BY <2>1, ToMoves DEF FilesStep, Typed
<1>9. ASSUME NEW r \in Removal, Fail(r) PROVE FilesStep
  <2>1. UNCHANGED <<dir, making, used>>
    BY <1>9 DEF Fail, files
  <2>2. /\ rem'[r].backup = rem[r].backup /\ rem'[r].new \in {None, rem[r].new}
        /\ rem'[r].at = (IF rem[r].backup = None THEN "off" ELSE "restore")
        /\ \A s \in Removal \ {r} : rem'[s] = rem[s]
    BY <1>9, FailMoves, RestIs
  <2>3. QED
    BY <2>1, <2>2 DEF FilesStep
<1>10. ASSUME NEW r \in Removal, Restore(r) PROVE FilesStep
  <2>1. UNCHANGED <<making, used>> /\ dir' = rem[r].backup /\ Put(r, Rest)
    BY <1>10 DEF Restore
  <2>2. QED
    BY <1>10, <2>1, PutMoves, RestIs DEF FilesStep, Typed
<1>11. ASSUME NEW r \in Removal, RemoveDir(r) PROVE FilesStep
  <2>1. UNCHANGED <<making, used>> /\ dir' \in {dir, None} /\ rem[r].at = "delete" /\ Put(r, Rest)
    BY <1>11 DEF RemoveDir
  <2>2. QED
    BY <2>1, PutMoves, RestIs DEF FilesStep, Typed
<1>12. CASE ProjectSide
  BY <1>12 DEF ProjectSide, Publish, Create, Import, FilesStep
<1>13. CASE Crash
  BY <1>13 DEF FilesStep
<1>14. QED
  BY <1>1, <1>2, <1>3, <1>4, <1>5, <1>6, <1>7, <1>8, <1>9, <1>10, <1>11, <1>12, <1>13
     DEF Next, WorkerSide, RemovalSide

-----------------------------------------------------------------------------
LEMMA NamesKept ==
  ASSUME Typed, NamesInv, [Next]_vars
  PROVE  NamesInv'
<1>0. Typed' /\ FilesStep
  BY NextTyped, FilesMove
<1>1. used \subseteq used'
  BY <1>0 DEF FilesStep, Crash
<1>2. dir' \in Project => dir' \in used'
  BY <1>0, <1>1, NamesAssumption DEF FilesStep, NamesInv, Crash, Restore
<1>3. ASSUME NEW r \in Removal
      PROVE  /\ rem'[r].new \in Project => rem'[r].new \in used'
             /\ rem'[r].backup \in Project => rem'[r].backup \in used'
  BY <1>0, <1>1, <1>3, CrashMoves, RestIs, NamesAssumption DEF FilesStep, NamesInv
<1>4. ASSUME NEW t \in Task, owner'[t] # None PROVE owner'[t] \in used' /\ owner'[t] # making'
  <2>1. CASE owner'[t] = owner[t]
    <3>1. owner[t] \in used /\ owner[t] # making
      BY <1>4, <2>1 DEF NamesInv
    <3>2. owner[t] # making'
      BY <1>0, <1>4, <2>1, <3>1 DEF FilesStep, Crash
    <3>3. QED
      BY <1>1, <2>1, <3>1, <3>2
  <2>2. CASE owner'[t] = dir /\ dir \in Project \ {making} /\ UNCHANGED <<files, rem>>
    BY <2>2 DEF NamesInv, files
  <2>3. QED
    BY <1>4, <2>1, <2>2, OwnerStep
<1>5. ASSUME NEW t \in Task, row'[t].status # "none" PROVE owner'[t] # None
  <2>1. row[t] \in Row
    BY DEF Typed, TasksOK
  <2>2. CASE row[t].status = "none"
    <3>1. Ask(t)
      BY <1>5, <2>1, <2>2, RowsStep, RetiredIs DEF RowStep
    <3>2. dir # None /\ owner'[t] = dir
      BY <3>1, NamesAssumption DEF Ask, Published, Typed, TasksOK
    <3>3. QED
      BY <3>2
  <2>3. CASE row[t].status # "none"
    BY <1>5, <2>3, OwnerStep DEF NamesInv
  <2>4. QED
    BY <2>2, <2>3
<1>6. QED
  BY <1>2, <1>3, <1>4, <1>5 DEF NamesInv

LEMMA BackupKept ==
  ASSUME Typed, BackupInv, [Next]_vars
  PROVE  BackupInv'
<1> SUFFICES ASSUME NEW r \in Removal, rem'[r].at \in {"off", "open", "delete"} PROVE rem'[r].backup = None
  BY DEF BackupInv
<1>1. QED
  BY FilesMove, CrashMoves, RestIs DEF FilesStep, BackupInv

(* A request inserted late is noted as such.                               *)
LEMMA InsertIsHome ==
  ASSUME Typed, NEW t \in Task, Insert(t)
  PROVE  (AtHome(t) \/ Excused(t, {"requested", "displaced"}))'
<1>1. UNCHANGED <<files, owner, rem>>
  BY DEF Insert
<1>2. CASE Late(t)
  <2>1. "requested" \in excuse'[t]
    BY <1>2, GapAdds DEF Insert, Typed, Gaps
  <2>2. QED
    BY <2>1 DEF Excused
<1>3. CASE ~Late(t)
  BY <1>1, <1>3 DEF Late, AtHome, files
<1>4. QED
  BY <1>2, <1>3

LEMMA LiveKept ==
  ASSUME Typed, NamesInv, BackupInv, LiveInv, [Next]_vars
  PROVE  LiveInv'
<1> SUFFICES ASSUME NEW t \in Task, Kept(t)', row'[t].name = "live"
             PROVE  AtHome(t)' \/ Excused(t, {"requested", "displaced"})'
  BY DEF LiveInv
<1>0. row[t] \in Row
  BY DEF Typed, TasksOK
<1>1. CASE ~(Kept(t) /\ row[t].name = "live")
  <2>1. Insert(t)
    BY <1>0, <1>1, RowsStep, RetiredIs DEF RowStep, Kept
  <2>2. QED
    BY <2>1, InsertIsHome
<1>2. CASE Kept(t) /\ row[t].name = "live" /\ Excused(t, {"requested", "displaced"})
  BY <1>2, ExcusedStays
<1>3. CASE Kept(t) /\ row[t].name = "live" /\ AtHome(t)
  <2>1. /\ owner[t] \in Project /\ owner[t] # making /\ owner[t] # None /\ owner[t] \in used
        /\ owner[t] # Residue /\ owner[t] # Litter
    BY <1>3, NamesAssumption DEF NamesInv, Kept, Typed, TasksOK
  <2>2. owner'[t] = owner[t]
    BY <1>3, OwnerStep DEF Kept
  <2>3. \A r \in Removal : rem[r].at # "delete"
    BY <1>3 DEF AtHome
  <2>4. ASSUME NEW r \in Removal PROVE ~Commit(r)
    <3> SUFFICES ASSUME Commit(r) PROVE FALSE
      OBVIOUS
    <3>1. row'[t] = Retired(row[t])
      BY DEF Commit
    <3>2. QED
      BY <1>0, <1>3, <3>1, RetiredIs DEF Kept
  <2>5. CASE Crash
    <3>1. CASE owner[t] = dir
      <4>1. dir' = dir
        BY <2>1, <2>5, <3>1 DEF Crash
      <4>2. QED
        BY <2>2, <2>5, <3>1, <4>1, CrashMoves DEF AtHome
    <3>2. ASSUME NEW r \in Removal, rem[r].backup = owner[t] PROVE Excused(t, {"requested", "displaced"})'
      <4>1. t \in OwnedBy(rem[r].backup)
        BY <1>3, <3>2 DEF OwnedBy, Kept
      <4>2. "displaced" \in excuse'[t]
        BY <2>5, <4>1, CrashMoves
      <4>3. QED
        BY <4>2 DEF Excused
    <3>3. QED
      BY <1>3, <3>1, <3>2 DEF AtHome
  <2>6. ASSUME NEW r \in Removal, Restore(r)
        PROVE  AtHome(t)' \/ Excused(t, {"requested", "displaced"})'
    <3>0. dir' = rem[r].backup /\ rem'[r] = Rest /\ \A s \in Removal \ {r} : rem'[s] = rem[s]
      BY <2>6, PutMoves, RestIs DEF Restore, Typed
    <3>1. CASE owner[t] = dir
      <4>1. t \in OwnedBy(dir)
        BY <1>3, <3>1 DEF OwnedBy, Kept
      <4>2. "displaced" \in excuse'[t]
        BY <2>6, <4>1, GapAdds DEF Restore, Typed, Gaps
      <4>3. QED
        BY <4>2 DEF Excused
    <3>2. CASE owner[t] # dir
      BY <1>3, <2>2, <2>3, <3>0, <3>2, RestIs DEF AtHome
    <3>3. QED
      BY <3>1, <3>2
  <2>7. CASE ~Crash /\ ~ \E r \in Removal : Restore(r)
    <3>1. owner[t] = dir => dir' = dir \/ \E r \in Removal : rem'[r].backup = dir
      BY <2>1, <2>3, <2>4, <2>7, FilesMove DEF FilesStep
    <3>2. ASSUME NEW r \in Removal, rem[r].backup = owner[t] PROVE rem'[r].backup = owner[t]
      BY <2>1, <2>3, <2>4, <2>7, <3>2, FilesMove DEF FilesStep, BackupInv
    <3>3. ASSUME NEW r \in Removal PROVE rem'[r].at # "delete"
      BY <2>3, <2>4, <2>7, FilesMove DEF FilesStep
    <3>4. QED
      BY <1>3, <2>2, <3>1, <3>2, <3>3 DEF AtHome
  <2>8. QED
    BY <2>5, <2>6, <2>7
<1>4. QED
  BY <1>1, <1>2, <1>3 DEF LiveInv

LEMMA LiveAlways == Spec => [](Typed /\ NamesInv /\ BackupInv /\ LiveInv)
<1> DEFINE Inv == Typed /\ NamesInv /\ BackupInv /\ LiveInv
<1>1. Init => NamesInv /\ BackupInv /\ LiveInv
  BY RestIs, NamesAssumption DEF Init, NamesInv, BackupInv, LiveInv, Kept
<1>2. Init => Inv
  BY <1>1, InitTyped
<1>3. Inv /\ [Next]_vars => Inv'
  BY NextTyped, NamesKept, BackupKept, LiveKept
<1>4. QED
  BY <1>2, <1>3, PTL DEF Spec

(* When no removal is under way, the rows under the live name belong to    *)
(* the project in the directory, but for requests inserted too late and    *)
(* directories that went or came back without their records.               *)
THEOREM RecordsFollowProject == Spec => []RecordsFollow
<1>1. ASSUME Typed, NamesInv, BackupInv, LiveInv, Quiet, NEW t \in Task, row[t].name = "live",
             row[t].status \notin {"none", "asked"}
      PROVE  owner[t] = dir \/ Excused(t, {"requested", "displaced"})
  <2>1. owner[t] # None
    BY <1>1 DEF NamesInv
  <2>2. \A r \in Removal : rem[r].backup = None
    BY <1>1 DEF Quiet, BackupInv
  <2>3. QED
    BY <1>1, <2>1, <2>2 DEF LiveInv, Kept, AtHome
<1>2. Typed /\ NamesInv /\ BackupInv /\ LiveInv => RecordsFollow
  BY <1>1 DEF RecordsFollow
<1>3. QED
  BY <1>2, LiveAlways, PTL

-----------------------------------------------------------------------------
(* The task of an execution has a row.                                     *)
KeptInv == \A e \in Exec, t \in Task : exec[e].task = t => Kept(t)

(* An execution whose project is being removed, or is gone, is held back   *)
(* by its claim or by its name; what it may still write had been cleared   *)
(* before the removal began.                                               *)
Held(e, t) ==
  /\ row[t].name = "tomb" =>
       /\ t \in revoked \/ exec[e].name = "tomb"
       /\ exec[e].at = "cleared" => exec[e].early
  /\ row[t].name = "live" => \A r \in Removal : InTransaction(r) =>
       t \in rem[r].ids /\ (exec[e].at = "cleared" => exec[e].early)
HeldInv == \A e \in Exec, t \in Task : exec[e].task = t => Held(e, t) \/ Excused(t, Misled)

(* What is written comes from a task with a row.                           *)
WrittenInv == \A p \in Project : \A t \in written[p] : Kept(t)

(* An execution that has written has written to its project.               *)
Delivered(t) == t \in written[owner[t]] \/ Excused(t, Misled)
DoneInv == \A e \in Exec, t \in Task : exec[e].task = t /\ exec[e].at \in {"wrote", "mark"} => Delivered(t)

LEMMA KeptTaskStays ==
  ASSUME Typed, KeptInv, [Next]_vars
  PROVE  KeptInv'
<1> SUFFICES ASSUME NEW e \in Exec, NEW t \in Task, exec'[e].task = t PROVE Kept(t)'
  BY DEF KeptInv
<1>0. t # None
  BY NamesAssumption
<1>1. CASE exec[e].task = t
  BY <1>1, KeptStays DEF KeptInv
<1>2. CASE exec[e].task # t
  BY <1>0, <1>2, ExecsStep DEF ExecStep, Kept
<1>3. QED
  BY <1>1, <1>2

(* Writes are those of Write.                                              *)
LEMMA WrittenStep ==
  ASSUME Typed, [Next]_vars, NEW p \in Project
  PROVE  /\ written[p] \subseteq written'[p]
         /\ \A t \in written'[p] \ written[p] : \E e \in Exec : Write(e) /\ exec[e].task = t /\ dir = p
<1>1. CASE \E e \in Exec : Write(e)
  <2>1. PICK e \in Exec : Write(e)
    BY <1>1
  <2>2. exec[e].task \in Task
    BY <2>1 DEF Write, Typed, ExecOK, Execution
  <2>3. \/ dir \in Project /\ written' = [written EXCEPT ![dir] = @ \cup {exec[e].task}]
        \/ UNCHANGED written
    BY <2>1 DEF Write
  <2>4. QED
    BY <2>1, <2>2, <2>3 DEF Typed, GhostsOK
<1>2. CASE ~ \E e \in Exec : Write(e)
  <2>1. UNCHANGED written
    BY <1>2 DEF Next, RequestSide, Ask, Insert, Lose, WorkerSide, Claim, Resume, Check, Return, Settle, Bury,
       Sweep, RemovalSide, Begin, Commit, Move, Place, Fail, Restore, RemoveDir, ProjectSide, Publish, Create, Import,
       Crash, vars, ghosts
  <2>2. QED
    BY <2>1
<1>3. QED
  BY <1>1, <1>2

LEMMA WrittenKept ==
  ASSUME Typed, KeptInv, WrittenInv, [Next]_vars
  PROVE  WrittenInv'
<1> SUFFICES ASSUME NEW p \in Project, NEW t \in written'[p] PROVE Kept(t)'
  BY DEF WrittenInv
<1>1. t \in Task
  BY NextTyped DEF Typed, GhostsOK
<1>2. Kept(t)
  BY <1>1, WrittenStep DEF WrittenInv, KeptInv
<1>3. QED
  BY <1>1, <1>2, KeptStays

(* A write finds its project's directory, or goes through a known gap.     *)
LEMMA WriteLandsHome ==
  ASSUME Typed, NamesInv, BackupInv, LiveInv, KeptInv, HeldInv, [Next]_vars,
         NEW e \in Exec, NEW t \in Task, exec[e].task = t, Write(e), dir # None
  PROVE  dir = owner[t] \/ Excused(t, Misled)'
<1>1. SUFFICES ASSUME dir # owner[t], ~Excused(t, Misled) PROVE Excused(t, Misled)'
  BY ExcusedStays
<1>2. exec[e].at = "cleared" /\ Kept(t) /\ row[t].name \in {"live", "tomb"} /\ owner[t] # None
  BY DEF Write, KeptInv, NamesInv, Kept, Typed, TasksOK, Row
<1>3. excuse'[t] = excuse[t] \cup {g \in {"cleared", "restoring"} :
          /\ dir # owner[t]
          /\ \/ g = "cleared" /\ exec[e].early
             \/ g = "restoring" /\ \E r \in Removal : rem[r].at = "restore"}
  BY DEF Write, Typed, GhostsOK
<1>4. Held(e, t)
  BY <1>1 DEF HeldInv
<1>5. ASSUME exec[e].early \/ \E r \in Removal : rem[r].at = "restore"
      PROVE  Excused(t, Misled)'
  <2>1. "cleared" \in excuse'[t] \/ "restoring" \in excuse'[t]
    BY <1>1, <1>3, <1>5
  <2>2. QED
    BY <2>1 DEF Excused, Misled
<1>6. CASE row[t].name = "tomb"
  BY <1>2, <1>4, <1>5, <1>6 DEF Held
<1>7. CASE row[t].name = "live"
  <2>1. ~Excused(t, {"requested", "displaced"})
    BY <1>1 DEF Excused, Misled
  <2>2. PICK r \in Removal : rem[r].backup = owner[t]
    BY <1>1, <1>2, <1>7, <2>1 DEF LiveInv, AtHome
  <2>3. rem[r].at \in {"moved", "placed", "restore"}
    BY <1>2, <2>2 DEF BackupInv, Typed, RemOK, Removing
  <2>4. CASE InTransaction(r)
    BY <1>2, <1>4, <1>5, <1>7, <2>4 DEF Held
  <2>5. QED
    BY <1>5, <2>3, <2>4 DEF InTransaction
<1>8. QED
  BY <1>2, <1>6, <1>7

(* A claim given back is that of a task under the live name.               *)
LEMMA RevokedStays ==
  ASSUME Typed, IdsInv, [Next]_vars, ~Crash, NEW e \in Exec, NEW t \in Task,
         exec[e].task = t, exec'[e].task = t,
         t \in revoked, row[t].name = "tomb", ~Excused(t, Misled)'
  PROVE  t \in revoked'
<1>1. ASSUME NEW s \in Removal, Fail(s), t \in rem[s].ids PROVE FALSE
  BY <1>1 DEF Fail, IdsInv, Running
<1>2. ASSUME NEW d \in Exec, exec[d].task = t, Leave(d) PROVE FALSE
  <2>1. d # e
    BY <1>2, LeaveMoves, NamesAssumption DEF Typed
  <2>2. "forgotten" \in excuse'[t]
    BY <1>2, <2>1, LeaveForgets
  <2>3. QED
    BY <2>2 DEF Excused, Misled
<1>3. QED
  BY <1>1, <1>2, RevokedStep

LEMMA HeldKept ==
  ASSUME Typed, IdsInv, ClaimsInv, HeldInv, [Next]_vars
  PROVE  HeldInv'
<1> SUFFICES ASSUME NEW e \in Exec, NEW t \in Task, exec'[e].task = t, ~Excused(t, Misled)'
             PROVE  Held(e, t)'
  BY DEF HeldInv
<1>0. /\ t # None /\ ~Crash /\ ~Excused(t, Misled) /\ row[t] \in Row
      /\ ~Excused(t, {"forgotten"}) /\ ~Excused(t, {"forgotten"})'
  BY NamesAssumption, CrashMoves, ExcusedStays DEF Excused, Misled, Typed, TasksOK
<1>1. CASE exec[e].task # t
  <2>1. /\ exec'[e].at = "claimed" /\ exec'[e].name = row[t].name /\ row'[t].name = row[t].name
        /\ \/ Unlocked
           \/ row[t].status = "running" /\ row[t].name = "live"
        /\ UNCHANGED rem
    BY <1>0, <1>1, ExecsStep DEF ExecStep
  <2>2. row'[t].name = "tomb" => t \in revoked' \/ exec'[e].name = "tomb"
    BY <2>1
  <2>3. ASSUME NEW r \in Removal, InTransaction(r)' PROVE t \in rem'[r].ids
    BY <2>1, <2>3 DEF InTransaction, Unlocked, IdsInv, Running
  <2>4. QED
    BY <2>1, <2>2, <2>3 DEF Held
<1>2. CASE exec[e].task = t
  <2>1. Held(e, t)
    BY <1>0, <1>2 DEF HeldInv
  <2>2. exec'[e].name = exec[e].name
    BY <1>0, <1>2, ExecsStep DEF ExecStep, Typed, ExecOK
  <2>3. CASE \E r \in Removal : Commit(r)
    <3>1. PICK r \in Removal : Commit(r)
      BY <2>3
    <3>2. UNCHANGED <<revoked, exec, excuse>> /\ row'[t] = Retired(row[t]) /\ InTransaction(r) /\ ~Unlocked
      BY <3>1 DEF Commit, InTransaction, Unlocked
    <3>3. row[t].name = "live" => t \in rem[r].ids /\ (exec[e].at = "cleared" => exec[e].early)
      BY <2>1, <3>2 DEF Held
    <3>4. row[t].name = "live" => t \in revoked
      BY <1>0, <3>2, <3>3 DEF ClaimsInv
    <3>5. row'[t].name = "tomb" => t \in revoked' \/ exec'[e].name = "tomb"
      BY <1>0, <2>1, <3>2, <3>4 DEF Held, Row
    <3>6. row'[t].name = "tomb" => (exec'[e].at = "cleared" => exec'[e].early)
      BY <1>0, <2>1, <3>2, <3>3 DEF Held, Row
    <3>7. \A s \in Removal : ~InTransaction(s)'
      <4>1. ~InTransaction(r)' /\ \A s \in Removal \ {r} : rem'[s] = rem[s]
        BY <3>1, ToMoves, PutMoves, RestIs DEF Commit, InTransaction, Typed
      <4>2. QED
        BY <3>2, <4>1 DEF Typed, OneTransaction, InTransaction
    <3>8. QED
      BY <3>5, <3>6, <3>7 DEF Held
  <2>4. CASE ~ \E r \in Removal : Commit(r)
    <3>1. row'[t].name = row[t].name
      BY <2>4, RowsStep DEF RowStep
    <3>2. CASE row[t].name = "tomb"
      <4>1. t \in revoked' \/ exec'[e].name = "tomb"
        BY <1>0, <1>2, <2>1, <2>2, <3>2, RevokedStays DEF Held
      <4>2. ASSUME exec'[e].at = "cleared" PROVE exec'[e].early
        <5>1. ~Claimed(e)
          BY <1>2, <2>1, <3>2 DEF Held, Claimed
        <5>2. ~ \E r \in Removal : Fail(r) /\ exec[e].task \in rem[r].ids
          BY <1>2, <3>2 DEF Fail, IdsInv, Running
        <5>3. exec[e].at = "cleared" /\ (exec[e].early => exec'[e].early)
          BY <1>0, <1>2, <4>2, <5>1, <5>2, ExecsStep, EndsFacts DEF ExecStep
        <5>4. QED
          BY <2>1, <3>2, <5>3 DEF Held
      <4>3. QED
        BY <3>1, <3>2, <4>1, <4>2 DEF Held
    <3>3. CASE row[t].name = "live"
      <4> SUFFICES ASSUME NEW r \in Removal, InTransaction(r)'
                   PROVE  t \in rem'[r].ids /\ (exec'[e].at = "cleared" => exec'[e].early)
        BY <3>1, <3>3 DEF Held
      <4>1. CASE \E k \in {"delete", "overwrite"}, p \in Project \cup {None} : Begin(r, k, p)
        <5>1. t \in Running
          BY <1>0, <1>2, <3>3, <4>1, BeginMoves DEF Excused, Misled
        <5>2. rem'[r].ids = Running /\ exec'[e].at = exec[e].at
              /\ (exec[e].at = "cleared" => exec'[e].early)
          BY <1>2, <4>1, <5>1, BeginMoves
        <5>3. QED
          BY <5>1, <5>2
      <4>2. CASE InTransaction(r) /\ rem'[r].ids = rem[r].ids
        <5>1. t \in rem[r].ids /\ (exec[e].at = "cleared" => exec[e].early)
          BY <2>1, <3>3, <4>2 DEF Held
        <5>2. t \in revoked
          BY <1>0, <4>2, <5>1 DEF ClaimsInv
        <5>3. ~ \E s \in Removal : Fail(s) /\ exec[e].task \in rem[s].ids
          <6> SUFFICES ASSUME NEW s \in Removal, Fail(s) PROVE FALSE
            OBVIOUS
          <6>1. s = r
            BY <4>2 DEF Fail, Typed, OneTransaction
          <6>2. QED
            BY <6>1, FailMoves, RestIs DEF InTransaction
        <5>4. ASSUME exec'[e].at = "cleared" PROVE exec'[e].early
          BY <1>0, <1>2, <5>1, <5>2, <5>3, <5>4, ExecsStep, EndsFacts DEF ExecStep, Claimed
        <5>5. QED
          BY <4>2, <5>1, <5>4
      <4>3. QED
        BY <4>1, <4>2, TransactionsStep
    <3>4. QED
      BY <1>0, <3>2, <3>3 DEF Row
  <2>5. QED
    BY <2>3, <2>4
<1>3. QED
  BY <1>1, <1>2

-----------------------------------------------------------------------------
(* A delivered artifact stays delivered.                                   *)
LEMMA DeliveredStays ==
  ASSUME Typed, NamesInv, [Next]_vars, NEW t \in Task, Kept(t), Delivered(t)
  PROVE  Delivered(t)'
<1>1. owner'[t] = owner[t] /\ owner[t] \in Project
  BY OwnerStep DEF Kept, NamesInv, Typed, TasksOK
<1>2. written[owner[t]] \subseteq written'[owner'[t]]
  BY <1>1, WrittenStep
<1>3. QED
  BY <1>2, ExcusedStays DEF Delivered

LEMMA DoneKept ==
  ASSUME Typed, NamesInv, BackupInv, LiveInv, KeptInv, HeldInv, DoneInv, [Next]_vars
  PROVE  DoneInv'
<1> SUFFICES ASSUME NEW e \in Exec, NEW t \in Task, exec'[e].task = t, exec'[e].at \in {"wrote", "mark"}
             PROVE  Delivered(t)'
  BY DEF DoneInv
<1>0. t # None /\ "mark" \in DOMAIN Ends
  BY NamesAssumption, EndsFacts
<1>1. exec[e].task = t /\ (exec[e].at \in {"wrote", "mark"} \/ (Write(e) /\ exec'[e].at = "wrote"))
  BY <1>0, EndsFacts, ExecsStep DEF ExecStep
<1>2. CASE exec[e].at \in {"wrote", "mark"}
  <2>1. Kept(t) /\ Delivered(t)
    BY <1>1, <1>2 DEF DoneInv, KeptInv
  <2>2. QED
    BY <2>1, DeliveredStays
<1>3. CASE Write(e) /\ exec'[e].at = "wrote"
  <2>1. dir # None
    <3>1. CASE dir = None
      <4>1. Step(e, "aborted") /\ exec[e].at # "off"
        BY <1>3, <3>1, NamesAssumption DEF Write
      <4>2. exec'[e].at = "aborted"
        BY <4>1, StepMoves DEF Typed, Steps
      <4>3. QED
        BY <1>3, <4>2
    <3>2. QED
      BY <3>1
  <2>2. owner'[t] = owner[t] /\ owner[t] \in Project
    BY <1>1, <1>3, OwnerStep DEF Write, KeptInv, Kept, NamesInv, Typed, TasksOK
  <2>3. CASE dir = owner[t]
    <3>1. written' = [written EXCEPT ![dir] = @ \cup {t}]
      BY <1>1, <1>3, <2>2, <2>3, NamesAssumption DEF Write
    <3>2. t \in written'[owner'[t]]
      BY <2>2, <2>3, <3>1 DEF Typed, GhostsOK
    <3>3. QED
      BY <3>2 DEF Delivered
  <2>4. CASE dir # owner[t]
    BY <1>1, <1>3, <2>1, <2>4, WriteLandsHome DEF Delivered
  <2>5. QED
    BY <2>3, <2>4
<1>4. QED
  BY <1>1, <1>2, <1>3

LEMMA ForeignKept ==
  ASSUME Typed, NamesInv, BackupInv, LiveInv, KeptInv, HeldInv, WrittenInv, NoForeignWrite, [Next]_vars
  PROVE  NoForeignWrite'
<1> SUFFICES ASSUME NEW p \in Project, NEW t \in written'[p] PROVE owner'[t] = p \/ Excused(t, Misled)'
  BY DEF NoForeignWrite
<1>1. t \in Task
  BY NextTyped DEF Typed, GhostsOK
<1>2. CASE t \in written[p]
  <2>1. owner'[t] = owner[t]
    BY <1>1, <1>2, OwnerStep DEF WrittenInv, Kept
  <2>2. owner[t] = p \/ Excused(t, Misled)
    BY <1>2 DEF NoForeignWrite
  <2>3. QED
    BY <1>1, <2>1, <2>2, ExcusedStays
<1>3. CASE t \notin written[p]
  <2>1. PICK e \in Exec : Write(e) /\ exec[e].task = t /\ dir = p
    BY <1>3, WrittenStep
  <2>2. owner'[t] = owner[t] /\ dir # None
    BY <1>1, <2>1, OwnerStep, NamesAssumption DEF KeptInv, Kept
  <2>3. QED
    BY <1>1, <2>1, <2>2, WriteLandsHome
<1>4. QED
  BY <1>2, <1>3

LEMMA SuccessStays ==
  ASSUME Typed, NamesInv, KeptInv, DoneInv, SuccessKept, [Next]_vars
  PROVE  SuccessKept'
<1> SUFFICES ASSUME NEW t \in Task, row'[t].status = "succeeded" PROVE Delivered(t)'
  BY DEF SuccessKept, Delivered
<1>0. row[t] \in Row
  BY DEF Typed, TasksOK
<1>1. CASE row[t].status = "succeeded"
  BY <1>1, DeliveredStays DEF SuccessKept, Delivered, Kept
<1>2. CASE row[t].status # "succeeded"
  <2>1. PICK e \in Exec : /\ exec[e].task = t /\ exec[e].at \in DOMAIN Ends
                          /\ Ends[exec[e].at] = "succeeded"
    BY <1>0, <1>2, RowsStep, RetiredIs DEF RowStep
  <2>2. exec[e].at = "mark"
    BY <2>1 DEF Ends
  <2>3. QED
    BY <2>1, <2>2, DeliveredStays DEF DoneInv, KeptInv
<1>3. QED
  BY <1>1, <1>2

(* The inductive invariant of the writes.                                  *)
WritesInv ==
  /\ Typed
  /\ IdsInv /\ SweepInv /\ ClaimsInv
  /\ NamesInv /\ BackupInv /\ LiveInv
  /\ KeptInv /\ HeldInv /\ WrittenInv /\ NoForeignWrite /\ DoneInv /\ SuccessKept

LEMMA WritesAlways == Spec => []WritesInv
<1>1. Init => WritesInv
  <2> SUFFICES ASSUME Init PROVE WritesInv
    OBVIOUS
  <2>1. Typed
    BY InitTyped
  <2>2. IdsInv /\ SweepInv /\ ClaimsInv
    BY RestIs DEF Init, IdsInv, SweepInv, ClaimsInv, InTransaction
  <2>3. NamesInv /\ BackupInv /\ LiveInv
    BY RestIs, NamesAssumption DEF Init, NamesInv, BackupInv, LiveInv, Kept
  <2>4. \A e \in Exec : exec[e].task = None
    BY DEF Init, Idle
  <2>5. KeptInv /\ HeldInv /\ DoneInv
    BY <2>4, NamesAssumption DEF KeptInv, HeldInv, DoneInv
  <2>6. WrittenInv /\ NoForeignWrite /\ SuccessKept
    BY DEF Init, WrittenInv, NoForeignWrite, SuccessKept
  <2>7. QED
    BY <2>1, <2>2, <2>3, <2>5, <2>6 DEF WritesInv
<1>2. WritesInv /\ [Next]_vars => WritesInv'
  <2> SUFFICES ASSUME WritesInv, [Next]_vars PROVE WritesInv'
    OBVIOUS
  <2>1. Typed' /\ IdsInv' /\ SweepInv' /\ ClaimsInv'
    BY NextTyped, IdsKept, SweepKept, ClaimsKept DEF WritesInv
  <2>2. NamesInv' /\ BackupInv' /\ LiveInv'
    BY NamesKept, BackupKept, LiveKept DEF WritesInv
  <2>3. KeptInv' /\ HeldInv' /\ WrittenInv'
    BY KeptTaskStays, HeldKept, WrittenKept DEF WritesInv
  <2>4. NoForeignWrite' /\ DoneInv' /\ SuccessKept'
    BY ForeignKept, DoneKept, SuccessStays DEF WritesInv
  <2>5. QED
    BY <2>1, <2>2, <2>3, <2>4 DEF WritesInv
<1>3. QED
  BY <1>1, <1>2, PTL DEF Spec

(* No task writes its artifact into a later project of the same name,      *)
(* except through a gap the excuses name.                                  *)
THEOREM WritesStayHome == Spec => []NoForeignWrite
<1>1. WritesInv => NoForeignWrite
  BY DEF WritesInv
<1>2. QED
  BY <1>1, WritesAlways, PTL

(* A task that ended as succeeded has its artifact in its own project,     *)
(* with the same exceptions.                                               *)
THEOREM SuccessDelivered == Spec => []SuccessKept
<1>1. WritesInv => SuccessKept
  BY DEF WritesInv
<1>2. QED
  BY <1>1, WritesAlways, PTL
=============================================================================
