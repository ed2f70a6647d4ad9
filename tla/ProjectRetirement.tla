-------------------------- MODULE ProjectRetirement --------------------------
(***************************************************************************)
(* What becomes of a project's tasks when the project is deleted or         *)
(* replaced by an import.  Everything here is about ONE project name: tasks *)
(* find the directory by it, and a directory of the same name may later     *)
(* belong to another project.  The code defends that with two things that   *)
(* are changed at different moments: the rows of the old project are moved  *)
(* to a tombstone name in one transaction (project_retirement.py), and the  *)
(* claims of its running tasks are revoked in memory, to be looked at again *)
(* before every write (task_project_claim.py).                              *)
(*                                                                          *)
(* A Project is one incarnation under the name.  Requests, executions,      *)
(* removals (DELETE route and overwriting import) and creations run side by *)
(* side in one process; database writes wait for the open transaction.      *)
(***************************************************************************)
EXTENDS Naturals, FiniteSets

CONSTANTS
  Project,    \* incarnations that may carry the name
  Task,       \* task ids
  Exec,       \* executions running in the worker
  Removal,    \* removals in flight: DELETE requests, overwriting imports
  None,
  MaxCrash,   \* bound: restarts of the process
  MaxFail     \* bound: failed renames, commits and deletions of directories

Residue == "residue"   \* a directory of empty directories, put back by mkdir(parents=True)
Litter == "litter"     \* a directory with files and without project.json

ASSUME NamesAssumption ==
  /\ {None, Residue, Litter} \intersect Project = {}
  /\ None \notin Task /\ None \notin {Residue, Litter}
ASSUME BoundsAssumption == MaxCrash \in Nat /\ MaxFail \in Nat

VARIABLES
  dir,       \* what the name's directory is: a project, Residue, Litter or None
  making,    \* the project whose create_project has made its directory only
  used,      \* the incarnations that exist or existed
  row,       \* task rows as committed: status, and the name they hang on
  owner,     \* history: the project a task's request was validated against
  revoked,   \* _revoked_task_ids
  exec,      \* the executions: step, task, name in the task dictionary, ...
  rem,       \* the removals: kind, step, ids to restore, prepared and backup directories
  written,   \* history: whose artifacts went into each project
  struck,    \* history: the tasks that were running when their project's records were retired
  excuse,    \* history: the known gaps a task has gone through
  crashes, fails

vars == <<dir, making, used, row, owner, revoked, exec, rem, written, struck,
          excuse, crashes, fails>>
files == <<dir, making, used>>
bounds == <<crashes, fails>>
ghosts == <<written, struck, excuse>>

Status == {"none", "asked", "queued", "running", "cancelled", "succeeded", "failed", "deleted"}
Steps == {"off", "claimed", "cleared", "wrote", "aborted", "requeue", "mark", "fail", "bury", "sweep"}
Gaps == {"cleared", "forgotten", "settled", "requested", "restoring", "displaced",
         "returned", "crashed"}

Idle == [at |-> "off", task |-> None, name |-> "live", early |-> FALSE]
Rest == [kind |-> None, at |-> "off", ids |-> {}, old |-> None, new |-> None,
         backup |-> None]

TypeOK ==
  /\ dir \in Project \cup {None, Residue, Litter}
  /\ making \in Project \cup {None}
  /\ used \subseteq Project
  /\ row \in [Task -> [status : Status, name : {"live", "tomb"}]]
  /\ owner \in [Task -> Project \cup {None}]
  /\ revoked \subseteq Task
  /\ exec \in [Exec -> [at : Steps, task : Task \cup {None}, name : {"live", "tomb"},
                        early : BOOLEAN]]
  /\ rem \in [Removal -> [kind : {None, "delete", "overwrite"},
                          at : {"off", "open", "moved", "placed", "delete", "restore"},
                          ids : SUBSET Task, new : Project \cup {None},
                          old : Project \cup {None, Residue, Litter},
                          backup : Project \cup {None, Residue, Litter}]]
  /\ \A r, s \in Removal :
       {rem[r].at, rem[s].at} \subseteq {"open", "moved", "placed"} => r = s
  /\ written \in [Project -> SUBSET Task]
  /\ struck \subseteq Task
  /\ excuse \in [Task -> SUBSET Gaps]
  /\ crashes \in 0..MaxCrash /\ fails \in 0..MaxFail

Init ==
  /\ \E p \in Project : dir = p /\ used = {p}
  /\ making = None
  /\ row = [t \in Task |-> [status |-> "none", name |-> "live"]]
  /\ owner = [t \in Task |-> None]
  /\ revoked = {} /\ struck = {}
  /\ exec = [e \in Exec |-> Idle]
  /\ rem = [r \in Removal |-> Rest]
  /\ written = [p \in Project |-> {}]
  /\ excuse = [t \in Task |-> {}]
  /\ crashes = 0 /\ fails = 0

(* The retiring transaction holds SQLite's write lock from its first UPDATE *)
(* to its end: no other write of a row happens meanwhile.                   *)
\* A slip: the block that moves the directories comes after the transaction.
InTransactionSlip(r) == rem[r].at = "open"
InTransaction(r) == rem[r].at \in {"open", "moved", "placed"}

Unlocked == \A r \in Removal : ~InTransaction(r)

Published == dir \in Project \ {making}    \* a project.json is there

Others(e, t) == {f \in Exec \ {e} : exec[f].task = t}
Gap(ts, g) == [t \in Task |-> IF t \in ts THEN excuse[t] \cup {g} ELSE excuse[t]]
OwnedBy(p) == {t \in Task : owner[t] = p /\ row[t].name = "live"
                               /\ row[t].status \notin {"none", "asked"}}
SetRow(t, s) == row' = [row EXCEPT ![t].status = s]

(***************************************************************************)
(* Requests.  The route loads the project, enqueue_task inserts later.      *)
(***************************************************************************)
Ask(t) ==
  /\ row[t].status = "none" /\ Published
  /\ SetRow(t, "asked") /\ owner' = [owner EXCEPT ![t] = dir]
  /\ UNCHANGED <<files, revoked, exec, rem, ghosts, bounds>>

(* Nothing of what the route read is read again: a row inserted after its   *)
(* project's records were retired hangs on the live name.                   *)
Late(t) ==
  \/ dir # owner[t] /\ \A r \in Removal : rem[r].backup # owner[t]
  \/ \E r \in Removal : rem[r].at = "delete"
Insert(t) ==
  /\ row[t].status = "asked" /\ Unlocked
  /\ SetRow(t, "queued")
  /\ excuse' = IF Late(t) THEN Gap({t}, "requested") ELSE excuse
  /\ UNCHANGED <<files, owner, revoked, exec, rem, written, struck, bounds>>

(***************************************************************************)
(* Executions.                                                              *)
(***************************************************************************)
Start(e, t) ==
  exec' = [exec EXCEPT ![e] = [Idle EXCEPT !.at = "claimed", !.task = t, !.name = row[t].name]]

(* claim_next_task, then _process_task.                                     *)
Claim(e, t) ==
  /\ exec[e].at = "off" /\ row[t].status = "queued" /\ Unlocked
  /\ SetRow(t, "running") /\ Start(e, t)
  /\ UNCHANGED <<files, owner, revoked, rem, ghosts, bounds>>

(* A scan or a retry takes up a running row.  That another execution may    *)
(* still hold it is what GenerationWorker's run of DoublePoll shows.  A row *)
(* under a tombstone name is failed without being run.                      *)
Resume(e, t) ==
  /\ exec[e].at = "off" /\ row[t].status = "running" /\ row[t].name = "live"
  /\ Start(e, t)
  /\ UNCHANGED <<files, row, owner, revoked, rem, ghosts, bounds>>
Lose(t) ==
  /\ row[t].status = "running" /\ Unlocked /\ \A e \in Exec : exec[e].task # t
  /\ \/ row[t].name = "tomb" /\ SetRow(t, "deleted") /\ UNCHANGED excuse
     \/ SetRow(t, "failed") /\ excuse' = Gap({t}, "crashed")
  /\ UNCHANGED <<files, owner, revoked, exec, rem, written, struck, bounds>>

Step(e, s) == exec' = [exec EXCEPT ![e].at = s]

\* A slip: the check before a write is not made.
ClaimedSlip(e) == exec[e].name = "live"
(* ensure_task_project_claim, by every get_project_path, metadata lock and  *)
(* _ensure_dirs.  A tombstone name is not a project name at all.            *)
Claimed(e) == exec[e].name = "live" /\ exec[e].task \notin revoked

Check(e) ==
  /\ exec[e].at \in {"claimed", "wrote"}
  /\ exec' = [exec EXCEPT ![e].early = FALSE,
                          ![e].at = IF Claimed(e) /\ dir # None THEN "cleared" ELSE "aborted"]
  /\ UNCHANGED <<files, row, owner, revoked, rem, ghosts, bounds>>

(* The write follows its check without a lock that a removal would take: it *)
(* goes to whatever the path leads to by then.  With no directory there it  *)
(* fails, or mkdir(parents=True) puts an empty one back.                    *)
Write(e) ==
  /\ exec[e].at = "cleared"
  /\ LET t == exec[e].task IN
     /\ excuse' = [excuse EXCEPT ![t] = @ \cup {g \in {"cleared", "restoring"} :
          /\ dir # owner[t]
          /\ \/ g = "cleared" /\ exec[e].early
             \/ g = "restoring" /\ \E r \in Removal : rem[r].at = "restore"}]
     /\ \/ /\ dir \in Project
           /\ written' = [written EXCEPT ![dir] = @ \cup {t}]
           /\ Step(e, "wrote") /\ UNCHANGED dir
        \/ /\ dir = None /\ dir' \in {None, Residue}
           /\ Step(e, "aborted") /\ UNCHANGED written
        \/ /\ dir \in {Residue, Litter} /\ dir' = Litter
           /\ Step(e, "wrote") /\ UNCHANGED written
  /\ UNCHANGED <<making, used, row, owner, revoked, rem, struck, bounds>>

(* The executor returns or raises, the claim is looked at once more, and    *)
(* the row is written later, when the database lets it.                     *)
Outcomes(at) == CASE at = "claimed" -> {"requeue", "fail"}
                  [] at = "wrote"   -> {"mark", "fail"}
                  [] at = "aborted" -> {"fail"}
                  [] OTHER          -> {}
\* A slip: the claim is looked at after an exception only.
VerdictSlip(e, s) == IF exec[e].task \in revoked /\ s # "mark" THEN "bury" ELSE s
Verdict(e, s) == IF exec[e].task \in revoked THEN "bury" ELSE s

Return(e) ==
  /\ \E s \in Outcomes(exec[e].at) : Step(e, Verdict(e, s))
  /\ UNCHANGED <<files, row, owner, revoked, rem, ghosts, bounds>>

(* Leaving claim_task_project discards the revocation by task id, whoever   *)
(* else is still executing the task.                                        *)
Leave(e) ==
  LET t == exec[e].task IN
  /\ exec' = [exec EXCEPT ![e] = Idle] /\ revoked' = revoked \ {t}
  /\ excuse' = IF t \in revoked /\ Others(e, t) # {} THEN Gap({t}, "forgotten") ELSE excuse

Ends == [mark |-> "succeeded", fail |-> "failed", requeue |-> "queued"]
EndRow(t, s) == IF row[t].status = "running" THEN SetRow(t, s) ELSE UNCHANGED row

Settle(e) ==
  /\ exec[e].at \in DOMAIN Ends /\ Unlocked
  /\ EndRow(exec[e].task, Ends[exec[e].at])
  /\ Leave(e)
  /\ UNCHANGED <<files, owner, rem, written, struck, bounds>>

(* fail_task_of_deleted_project: the row, then what is left of the          *)
(* directory.  A directory just made by create_project looks the same.      *)
Bury(e) ==
  /\ exec[e].at = "bury" /\ Unlocked
  /\ EndRow(exec[e].task, "deleted") /\ Step(e, "sweep")
  /\ UNCHANGED <<files, owner, revoked, rem, ghosts, bounds>>
Bare == dir = Residue \/ (dir \in Project /\ dir = making /\ written[dir] = {})
Sweep(e) ==
  /\ exec[e].at = "sweep"
  /\ dir' \in {dir} \cup (IF Bare THEN {None} ELSE {})
  /\ dir = Residue => dir' = None
  /\ Leave(e)
  /\ UNCHANGED <<making, used, row, owner, rem, written, struck, bounds>>

(***************************************************************************)
(* Removals.                                                                *)
(***************************************************************************)
Put(r, c) == rem' = [rem EXCEPT ![r] = c]
To(r, at) == Put(r, [rem[r] EXCEPT !.at = at])

\* A slip: the claims of the running tasks are left alone.
RevokeSlip(ids) == {}
Revoke(ids) == ids

Running == {t \in Task : row[t].status = "running" /\ row[t].name = "live"}

(* Up to the block of retiring_project: the transaction is open, the rows   *)
(* are changed in it and not yet committed, the claims are revoked.         *)
Begin(r, kind, p) ==
  /\ rem[r].at = "off" /\ Unlocked /\ dir # None /\ making = None
  /\ IF kind = "overwrite" THEN p \in Project \ used /\ used' = used \cup {p}
                           ELSE p = None /\ UNCHANGED used
  /\ Put(r, [kind |-> kind, at |-> "open", ids |-> Running, old |-> dir, new |-> p,
             backup |-> None])
  /\ revoked' = revoked \cup Revoke(Running)
  /\ exec' = [e \in Exec |-> [exec[e] EXCEPT !.early =
                                 @ \/ (exec[e].at = "cleared" /\ exec[e].task \in Running)]]
  /\ excuse' = [t \in Task |-> excuse[t] \cup UNION
       {CASE t \in Running /\ exec[e].at \in DOMAIN Ends -> {"returned"}
          [] t \notin Running /\ row[t].name = "live" -> {"settled"}
          [] OTHER -> {} : e \in {f \in Exec : exec[f].task = t}}]
  /\ UNCHANGED <<dir, making, row, owner, written, struck, bounds>>

\* A slip: the running rows keep the live name.
RetiredSlip(c) == CASE c.status \in {"none", "asked", "running"} -> c
                    [] c.status = "queued" -> [status |-> "cancelled", name |-> "tomb"]
                    [] OTHER -> [c EXCEPT !.name = "tomb"]
(* A row after retire_project_records.                                      *)
Retired(c) == CASE c.status \in {"none", "asked"} -> c
                [] c.status = "queued" -> [status |-> "cancelled", name |-> "tomb"]
                [] OTHER -> [c EXCEPT !.name = "tomb"]

Commit(r) ==
  /\ rem[r].at = (IF rem[r].kind = "delete" THEN "open" ELSE "placed")
  /\ row' = [t \in Task |-> Retired(row[t])]
  /\ struck' = struck \cup rem[r].ids
  /\ IF rem[r].kind = "delete" THEN To(r, "delete") ELSE Put(r, Rest)
  /\ UNCHANGED <<files, owner, revoked, exec, written, excuse, bounds>>

(* The two renames of _replace_project_dir.                                 *)
Move(r) ==
  /\ rem[r].kind = "overwrite" /\ rem[r].at = "open" /\ dir # None
  /\ Put(r, [rem[r] EXCEPT !.at = "moved", !.backup = dir]) /\ dir' = None
  /\ UNCHANGED <<making, used, row, owner, revoked, exec, ghosts, bounds>>
Place(r) ==
  /\ rem[r].at = "moved" /\ dir = None
  /\ To(r, "placed") /\ dir' = rem[r].new
  /\ UNCHANGED <<making, used, row, owner, revoked, exec, ghosts, bounds>>

\* A slip: the claims are not restored.
RestoredSlip(r) == revoked
(* restore_task_project_claims.                                             *)
Restored(r) == revoked \ rem[r].ids

(* The block or the commit raises: the rows stay as they were and the       *)
(* claims are given back; only then does the caller put the directory back. *)
MustFail(r) == \/ rem[r].at = "moved" /\ dir # None
               \/ rem[r].at = "open" /\ rem[r].kind = "overwrite" /\ dir = None
Fail(r) ==
  /\ InTransaction(r)
  /\ \/ MustFail(r) /\ UNCHANGED fails
     \/ fails < MaxFail /\ fails' = fails + 1
  /\ revoked' = Restored(r)
  /\ exec' = [e \in Exec |-> [exec[e] EXCEPT !.early = @ /\ exec[e].task \notin rem[r].ids]]
  /\ IF rem[r].backup = None THEN Put(r, Rest) ELSE To(r, "restore")
  /\ UNCHANGED <<files, row, owner, ghosts, crashes>>
Restore(r) ==
  /\ rem[r].at = "restore"
  /\ dir' = rem[r].backup /\ Put(r, Rest)
  /\ excuse' = Gap(OwnedBy(dir), "displaced")
  /\ UNCHANGED <<making, used, row, owner, revoked, exec, written, struck, bounds>>

(* delete_project_directory finds the directory by its name once more.      *)
RemoveDir(r) ==
  /\ rem[r].at = "delete" /\ Put(r, Rest)
  /\ \/ dir' = None /\ UNCHANGED fails
        /\ excuse' = IF dir = rem[r].old THEN excuse ELSE Gap(OwnedBy(dir), "displaced")
     \/ fails < MaxFail /\ fails' = fails + 1 /\ UNCHANGED <<dir, excuse>>
  /\ UNCHANGED <<making, used, row, owner, revoked, exec, written, struck, crashes>>

(***************************************************************************)
(* New projects under the name, and the end of the process.                 *)
(***************************************************************************)
Create(p) ==
  /\ dir = None /\ making = None /\ p \notin used
  /\ dir' = p /\ making' = p /\ used' = used \cup {p}
  /\ UNCHANGED <<row, owner, revoked, exec, rem, ghosts, bounds>>
Publish ==
  /\ making # None /\ making' = None    \* with its directory gone, the creation fails
  /\ UNCHANGED <<dir, used, row, owner, revoked, exec, rem, ghosts, bounds>>
Import(p) ==
  /\ dir = None /\ p \notin used
  /\ dir' = p /\ used' = used \cup {p}
  /\ UNCHANGED <<making, row, owner, revoked, exec, rem, ghosts, bounds>>

(* The database rolls back, the directories stay where they are.            *)
Crash ==
  /\ crashes < MaxCrash /\ crashes' = crashes + 1
  /\ exec' = [e \in Exec |-> Idle] /\ rem' = [r \in Removal |-> Rest]
  /\ revoked' = {}
  /\ dir' = IF dir = making /\ dir # None THEN Litter ELSE dir
  /\ making' = None
  /\ row' = [t \in Task |-> IF row[t].status = "asked" THEN [row[t] EXCEPT !.status = "none"]
                                                         ELSE row[t]]
  /\ owner' = [t \in Task |-> IF row[t].status = "asked" THEN None ELSE owner[t]]
  /\ excuse' = Gap(UNION {OwnedBy(rem[r].backup) : r \in Removal}, "displaced")
  /\ UNCHANGED <<used, written, struck, fails>>

RequestSide == \E t \in Task : Ask(t) \/ Insert(t) \/ Lose(t)
WorkerSide == \E e \in Exec :
  \/ \E t \in Task : Claim(e, t) \/ Resume(e, t)
  \/ Check(e) \/ Write(e) \/ Return(e) \/ Settle(e) \/ Bury(e) \/ Sweep(e)
RemovalSide == \E r \in Removal :
  \/ \E k \in {"delete", "overwrite"}, p \in Project \cup {None} : Begin(r, k, p)
  \/ Commit(r) \/ Move(r) \/ Place(r) \/ Fail(r) \/ Restore(r) \/ RemoveDir(r)
ProjectSide == Publish \/ \E p \in Project : Create(p) \/ Import(p)

Next == RequestSide \/ WorkerSide \/ RemovalSide \/ ProjectSide \/ Crash

Spec == Init /\ [][Next]_vars

-----------------------------------------------------------------------------
Excused(t, gaps) == excuse[t] \cap gaps # {}
Misled == {"cleared", "forgotten", "settled", "requested", "restoring", "displaced"}

(* A task never writes its artifact into a later project of the same name   *)
(* (formal_write.py, version_manager.py: the check stops it before it       *)
(* touches the directory), except through a gap the ghosts name: it had     *)
(* passed its check before the removal began, another execution of it left  *)
(* first or had ended its row, its request was inserted after the removal,  *)
(* the removal gave the claims back before the directory, or the directory  *)
(* went without its records.                                                *)
NoForeignWrite ==
  \A p \in Project : \A t \in written[p] : owner[t] = p \/ Excused(t, Misled)

(* Rows hang on the live name only for the project that has the directory:  *)
(* a later project of the name starts with no record of the old one, and a  *)
(* removal that fails leaves the old one its records.                       *)
Quiet == \A r \in Removal : rem[r].at = "off"
RecordsFollow ==
  Quiet => \A t \in Task :
    row[t].name = "live" /\ row[t].status \notin {"none", "asked"}
      => owner[t] = dir \/ Excused(t, {"requested", "displaced"})

(* Outside a removal's transaction only tasks of retired projects are       *)
(* revoked: one that failed gives every claim back.                         *)
OnlyRetiredRevoked ==
  Unlocked => \A t \in revoked : row[t].name = "tomb"

(* A task that ends as succeeded has its artifact in the project it was     *)
(* asked for, whatever removals began and failed meanwhile.                 *)
SuccessKept ==
  \A t \in Task : row[t].status = "succeeded"
    => t \in written[owner[t]] \/ Excused(t, Misled)

(* generation_worker.py:818-819 and video_resume.py:112-113: whatever its   *)
(* executor returned, and also when the project went before a restart, a    *)
(* task that was running when its project's records were retired ends with  *)
(* project_deleted_during_task.  The code breaks both sentences.            *)
DeletedTaskFails == \A t \in struck : row[t].status \in {"running", "deleted"}

(* It breaks them in three ways and no other: the outcome of the task had   *)
(* been decided before the claim was revoked and only its write was due     *)
(* (returned), another execution of the task left first and discarded the   *)
(* revocation (forgotten), or the startup scan failed the row with a code   *)
(* of its own (crashed).  In particular an executor that is still at work   *)
(* when the records go cannot end its task otherwise.  Executions that a    *)
(* shutdown interrupts are not modelled.                                    *)
RevokedTaskFails ==
  \A t \in struck : row[t].status \in {"running", "deleted"}
    \/ Excused(t, {"returned", "forgotten", "crashed"})
=============================================================================
