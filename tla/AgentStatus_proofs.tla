------------------------ MODULE AgentStatus_proofs --------------------------
(***************************************************************************)
(* Theorems about the status of an agent session: what the session object  *)
(* and its row in the table say agrees with what the CLI does, once all    *)
(* that is under way has been handled.                                     *)
(***************************************************************************)
EXTENDS AgentSession_proofs

-----------------------------------------------------------------------------
(* What is under way about the status.                                     *)
FrameIn(kind) == \E x \in ToSet(pipe) : x.kind = kind
Reports == {x.epoch : x \in {y \in ToSet(inbox) : y.kind = "idle"}}
Resumed == \E x \in ToSet(inbox) : x.kind = "busy"

(* A delivery that may still call an idle that it made look out of date    *)
(* back to mind.                                                           *)
MayAbandon ==
  /\ delivery.phase = "meta" /\ epoch = delivery.from + 1
  /\ idleEpoch \in {delivery.from, delivery.from + 1}

(* The last word of the CLI in the pipe is its present state.              *)
LastWord ==
  \A i \in 1..Len(pipe) : cli # "gone" /\ pipe[i].kind \in {"idle", "working"} /\ pipe[i].kind # cli
    => \E j \in i+1..Len(pipe) : pipe[j].kind = cli
GoneCli == cli = "gone" => cliQueue = {} /\ held = {}

(* While there is an actor, a delivery is refused only for a failed write. *)
PhaseInv ==
  /\ actor => delivery.phase # "refused"
  /\ actor /\ ~metaFailed => delivery.phase # "failing"
  /\ delivery.phase = "meta" => delivery.from < epoch

(* The inbox processor waits for the one redelivery it asked for.          *)
ByInv ==
  /\ \A i \in 1..Len(line) : line[i].by = "inbox" => processor.at = "redelivering"
  /\ \A i, j \in 1..Len(line) : line[i].by = "inbox" /\ line[j].by = "inbox" => i = j

(* A report of an idle is no younger than the session's epoch, and one that*)
(* is as young is of the last idle that was read.                          *)
ReportInv ==
  /\ idleEpoch # None => idleEpoch <= epoch
  /\ \A e \in Reports : e <= epoch /\ (e = epoch => idleEpoch = epoch)
  /\ residence = "cold" => idleEpoch = None

(* A report ahead of the notice of a new turn is out of date.              *)
BusyOrder ==
  \A i, j \in 1..Len(inbox) : i < j /\ inbox[i].kind = "idle" /\ inbox[j].kind = "busy"
    => inbox[i].epoch < epoch

(* What is being settled has been overtaken when the session is running.   *)
SettlingInv ==
  processor.at = "settling"
    => processor.epoch <= epoch /\ (status = "running" => processor.epoch < epoch)

(* A session that runs beside an idle CLI has a report to settle, or a     *)
(* delivery that will give the CLI work or call the report back to mind.   *)
Reported ==
  \/ epoch \in Reports
  \/ delivery.phase = "query"
  \/ delivery.phase = "meta" /\ (delivery.busy => MayAbandon)
RestInv ==
  actor /\ status = "running" /\ idleEpoch # None /\ cli = "idle" /\ cliQueue = {} /\ held = {}
    => FrameIn("idle") \/ Reported

(* A CLI at work of which the session does not know has said so.           *)
WorkInv ==
  actor /\ cli = "working" /\ (idleEpoch = epoch \/ MayAbandon \/ (~metaFailed /\ status # "running"))
    => FrameIn("working")

(* The row differs from the session only while somebody is writing it.     *)
RowInv == actor /\ ~metaFailed =>
  /\ Resumed \/ processor.at = "resettling" => status = "running"
  /\ status # "running" /\ meta = "running" => processor.at = "settling"
  /\ status = "running" /\ meta # "running" =>
       delivery.phase = "meta" \/ Resumed \/ processor.at \in {"settling", "resettling"}

StatusParts ==
  /\ LastWord /\ GoneCli /\ PhaseInv /\ ByInv /\ ReportInv /\ BusyOrder /\ SettlingInv
  /\ RestInv /\ WorkInv /\ RowInv

-----------------------------------------------------------------------------
(* The pipe.                                                               *)
LEMMA PipeTail ==
  ASSUME CliOK, pipe # <<>>, pipe' = Tail(pipe), UNCHANGED cli
  PROVE  /\ \A kind : FrameIn(kind)' => FrameIn(kind)
         /\ \A kind : FrameIn(kind) /\ Head(pipe).kind # kind => FrameIn(kind)'
         /\ LastWord => LastWord'
         /\ LastWord /\ cli # "gone" /\ Head(pipe).kind \in {"idle", "working"} /\ Head(pipe).kind # cli
              => FrameIn(cli)'
<1>1. /\ Len(pipe') = Len(pipe) - 1 /\ Len(pipe) \in Nat \ {0}
      /\ \A i \in 1..Len(pipe') : pipe'[i] = pipe[i + 1]
      /\ Head(pipe) = pipe[1] /\ ToSet(pipe) = {Head(pipe)} \cup ToSet(pipe')
  BY TailFacts DEF CliOK
<1>2. \A kind : /\ FrameIn(kind)' => FrameIn(kind)
                /\ FrameIn(kind) /\ Head(pipe).kind # kind => FrameIn(kind)'
  BY <1>1 DEF FrameIn, ToSet
<1>3. ASSUME LastWord PROVE LastWord'
  <2>1. SUFFICES ASSUME NEW i \in 1..Len(pipe'), cli # "gone", pipe'[i].kind \in {"idle", "working"}, pipe'[i].kind # cli
                 PROVE  \E j \in i+1..Len(pipe') : pipe'[j].kind = cli
    BY DEF LastWord
  <2>2. PICK j \in (i+1)+1..Len(pipe) : pipe[j].kind = cli
    BY <1>1, <1>3, <2>1 DEF LastWord
  <2>3. j - 1 \in i+1..Len(pipe') /\ pipe'[j - 1] = pipe[j]
    BY <1>1, <2>2
  <2>4. QED
    BY <2>2, <2>3
<1>4. ASSUME LastWord, cli # "gone", Head(pipe).kind \in {"idle", "working"}, Head(pipe).kind # cli
      PROVE  FrameIn(cli)'
  <2>1. PICK j \in 1+1..Len(pipe) : pipe[j].kind = cli
    BY <1>1, <1>4 DEF LastWord
  <2>2. j - 1 \in 1..Len(pipe') /\ pipe'[j - 1] = pipe[j]
    BY <1>1, <2>1
  <2>3. pipe[j] \in ToSet(pipe')
    BY <2>2 DEF ToSet
  <2>4. QED
    BY <2>1, <2>3 DEF FrameIn, ToSet
<1>5. QED
  BY <1>2, <1>3, <1>4

(* What is said names no state but the present one, and a new one is named.*)
LEMMA PipeSays ==
  ASSUME CliOK, NEW frames \in Seq(Said), pipe' = pipe \o frames,
         \A k \in 1..Len(frames) : frames[k].kind \in {"idle", "working"} => frames[k].kind = cli',
         cli' = cli \/ \E k \in 1..Len(frames) : frames[k].kind = cli'
  PROVE  /\ \A kind : FrameIn(kind)' <=> FrameIn(kind) \/ \E k \in 1..Len(frames) : frames[k].kind = kind
         /\ LastWord => LastWord'
<1>1. /\ Len(pipe') = Len(pipe) + Len(frames) /\ Len(pipe) \in Nat /\ Len(frames) \in Nat
      /\ \A i \in 1..Len(pipe') : pipe'[i] = IF i <= Len(pipe) THEN pipe[i] ELSE frames[i - Len(pipe)]
  BY DEF CliOK
<1>2. \A k \in 1..Len(frames) : Len(pipe) + k \in 1..Len(pipe') /\ pipe'[Len(pipe) + k] = frames[k]
  BY <1>1
<1>3. ToSet(pipe') = ToSet(pipe) \cup ToSet(frames)
  BY ConcatFacts DEF CliOK
<1>4. \A kind : FrameIn(kind)' <=> FrameIn(kind) \/ \E k \in 1..Len(frames) : frames[k].kind = kind
  <2>1. \A x : x \in ToSet(frames) <=> \E k \in 1..Len(frames) : frames[k] = x
    BY DEF ToSet
  <2>2. ToSet(pipe)' = ToSet(pipe')
    BY DEF ToSet
  <2>3. QED
    BY <1>3, <2>1, <2>2 DEF FrameIn
<1>5. ASSUME LastWord PROVE LastWord'
  <2>1. SUFFICES ASSUME NEW i \in 1..Len(pipe'), cli' # "gone", pipe'[i].kind \in {"idle", "working"}, pipe'[i].kind # cli'
                 PROVE  \E j \in i+1..Len(pipe') : pipe'[j].kind = cli'
    BY DEF LastWord
  <2>2. i \in 1..Len(pipe) /\ pipe'[i] = pipe[i]
    BY <1>1, <2>1
  <2>3. CASE \E k \in 1..Len(frames) : frames[k].kind = cli'
    <3>1. PICK k \in 1..Len(frames) : frames[k].kind = cli'
      BY <2>3
    <3>2. Len(pipe) + k \in i+1..Len(pipe') /\ pipe'[Len(pipe) + k].kind = cli'
      BY <1>1, <1>2, <2>2, <3>1
    <3>3. QED
      BY <3>2
  <2>4. CASE cli' = cli
    <3>1. PICK j \in i+1..Len(pipe) : pipe[j].kind = cli
      BY <1>5, <2>1, <2>2, <2>4 DEF LastWord
    <3>2. j \in i+1..Len(pipe') /\ pipe'[j].kind = cli'
      BY <1>1, <2>4, <3>1
    <3>3. QED
      BY <3>2
  <2>5. QED
    BY <2>3, <2>4
<1>6. QED
  BY <1>4, <1>5

(* The fate of a message says nothing of the state of the CLI.             *)
LEMMA PipeFate ==
  ASSUME CliOK, NEW x \in Said, x.kind \in Fates, pipe' = pipe \o <<x>>, UNCHANGED cli
  PROVE  /\ FrameIn("idle")' <=> FrameIn("idle")
         /\ FrameIn("working")' <=> FrameIn("working")
         /\ LastWord => LastWord'
<1>1. PICK frames \in Seq(Said) : pipe' = pipe \o frames /\ \A k \in 1..Len(frames) : frames[k].kind \in Fates
  <2>1. <<x>> \in Seq(Said) /\ \A k \in 1..Len(<<x>>) : <<x>>[k] = x
    OBVIOUS
  <2>2. QED
    BY <2>1
<1>2. \A k \in 1..Len(frames) : frames[k].kind # "idle" /\ frames[k].kind # "working"
  BY <1>1 DEF Fates
<1>3. /\ \A kind : FrameIn(kind)' <=> FrameIn(kind) \/ \E k \in 1..Len(frames) : frames[k].kind = kind
      /\ LastWord => LastWord'
  BY <1>1, <1>2, PipeSays
<1>4. QED
  BY <1>2, <1>3

-----------------------------------------------------------------------------
(* The inbox.                                                              *)
LEMMA ReportsAreEpochs ==
  ASSUME InboxOK
  PROVE  Reports \subseteq Nat
<1>1. \A x \in ToSet(inbox) : x \in Item
  BY DEF InboxOK, ToSet
<1>2. \A x \in Item : x.kind = "idle" => x.epoch \in Nat
  BY DEF Item
<1>3. QED
  BY <1>1, <1>2 DEF Reports

LEMMA TakeItem ==
  ASSUME InboxOK, inbox # <<>>, Take
  PROVE  /\ Reports' \subseteq Reports
         /\ Head(inbox).kind # "idle" => Reports' = Reports
         /\ Head(inbox).kind = "idle" => Head(inbox).epoch \in Reports /\ Reports = Reports' \union {Head(inbox).epoch}
         /\ Resumed' => Resumed
         /\ Head(inbox).kind # "busy" => (Resumed' <=> Resumed)
         /\ BusyOrder /\ UNCHANGED epoch => BusyOrder'
         /\ BusyOrder /\ Head(inbox).kind = "idle" /\ Resumed' => Head(inbox).epoch < epoch
<1>1. /\ Len(inbox') = Len(inbox) - 1 /\ Len(inbox) \in Nat \ {0}
      /\ \A i \in 1..Len(inbox') : inbox'[i] = inbox[i + 1]
      /\ Head(inbox) = inbox[1] /\ ToSet(inbox) = {Head(inbox)} \cup ToSet(inbox')
  BY TailFacts DEF InboxOK, Take
<1>2. ToSet(inbox)' = ToSet(inbox')
  BY DEF ToSet
<1>3. /\ Reports' \subseteq Reports
      /\ Head(inbox).kind # "idle" => Reports' = Reports
      /\ Head(inbox).kind = "idle" => Head(inbox).epoch \in Reports /\ Reports = Reports' \union {Head(inbox).epoch}
  BY <1>1, <1>2 DEF Reports
<1>4. /\ Resumed' => Resumed
      /\ Head(inbox).kind # "busy" => (Resumed' <=> Resumed)
  BY <1>1, <1>2 DEF Resumed
<1>5. ASSUME BusyOrder, UNCHANGED epoch PROVE BusyOrder'
  <2>1. SUFFICES ASSUME NEW i \in 1..Len(inbox'), NEW j \in 1..Len(inbox'), i < j,
                        inbox'[i].kind = "idle", inbox'[j].kind = "busy"
                 PROVE  inbox'[i].epoch < epoch
    BY <1>5 DEF BusyOrder
  <2>2. i + 1 \in 1..Len(inbox) /\ j + 1 \in 1..Len(inbox) /\ i + 1 < j + 1
    BY <1>1, <2>1
  <2>3. QED
    BY <1>1, <1>5, <2>1, <2>2 DEF BusyOrder
<1>6. ASSUME BusyOrder, Head(inbox).kind = "idle", Resumed' PROVE Head(inbox).epoch < epoch
  <2>1. PICK j \in 1..Len(inbox') : inbox'[j].kind = "busy"
    BY <1>2, <1>6 DEF Resumed, ToSet
  <2>2. j + 1 \in 1..Len(inbox) /\ 1 \in 1..Len(inbox) /\ 1 < j + 1 /\ inbox[j + 1].kind = "busy"
    BY <1>1, <2>1
  <2>3. QED
    BY <1>1, <1>6, <2>2 DEF BusyOrder
<1>7. QED
  BY <1>3, <1>4, <1>5, <1>6

LEMMA JoinInbox ==
  ASSUME ObjectOK, InboxOK, NEW x \in Item, inbox' = Append(inbox, x), epoch' \in Nat, epoch <= epoch'
  PROVE  /\ Reports' = Reports \union (IF x.kind = "idle" THEN {x.epoch} ELSE {})
         /\ Resumed' <=> Resumed \/ x.kind = "busy"
         /\ BusyOrder /\ (x.kind = "busy" => \A e \in Reports : e < epoch') => BusyOrder'
<1>1. /\ Len(inbox') = Len(inbox) + 1 /\ Len(inbox) \in Nat
      /\ \A i \in 1..Len(inbox) : inbox'[i] = inbox[i]
      /\ inbox'[Len(inbox) + 1] = x
      /\ ToSet(inbox') = ToSet(inbox) \cup {x}
  BY AppendFacts DEF InboxOK
<1>2. ToSet(inbox)' = ToSet(inbox')
  BY DEF ToSet
<1>3. Reports' = Reports \union (IF x.kind = "idle" THEN {x.epoch} ELSE {})
  BY <1>1, <1>2 DEF Reports
<1>4. Resumed' <=> Resumed \/ x.kind = "busy"
  BY <1>1, <1>2 DEF Resumed
<1>5. ASSUME BusyOrder, x.kind = "busy" => \A e \in Reports : e < epoch' PROVE BusyOrder'
  <2>1. SUFFICES ASSUME NEW i \in 1..Len(inbox'), NEW j \in 1..Len(inbox'), i < j,
                        inbox'[i].kind = "idle", inbox'[j].kind = "busy"
                 PROVE  inbox'[i].epoch < epoch'
    BY DEF BusyOrder
  <2>2. i \in 1..Len(inbox) /\ inbox'[i] = inbox[i] /\ inbox[i] \in ToSet(inbox)
    BY <1>1, <2>1 DEF ToSet
  <2>3. inbox[i].epoch \in Reports /\ inbox[i].epoch \in Nat
    BY <2>1, <2>2, ReportsAreEpochs DEF Reports
  <2>4. CASE j \in 1..Len(inbox)
    <3>1. inbox[i].epoch < epoch
      BY <1>1, <1>5, <2>1, <2>2, <2>4 DEF BusyOrder
    <3>2. QED
      BY <2>2, <2>3, <3>1 DEF ObjectOK
  <2>5. CASE j = Len(inbox) + 1
    BY <1>1, <1>5, <2>1, <2>2, <2>3, <2>5
  <2>6. QED
    BY <1>1, <2>4, <2>5
<1>6. QED
  BY <1>3, <1>4, <1>5
-----------------------------------------------------------------------------
(* What a step leaves alone.                                               *)
LEMMA PipeKeeps ==
  ASSUME UNCHANGED <<pipe, cli>>
  PROVE  /\ \A kind : FrameIn(kind)' <=> FrameIn(kind)
         /\ LastWord => LastWord'
BY DEF FrameIn, LastWord, ToSet

LEMMA InboxKeeps ==
  ASSUME ObjectOK, InboxOK, UNCHANGED inbox, epoch' \in Nat, epoch <= epoch'
  PROVE  /\ Reports' = Reports /\ (Resumed' <=> Resumed)
         /\ BusyOrder => BusyOrder'
<1>1. Reports' = Reports /\ (Resumed' <=> Resumed)
  BY DEF Reports, Resumed, ToSet
<1>2. ASSUME BusyOrder, NEW i \in 1..Len(inbox), NEW j \in 1..Len(inbox), i < j,
             inbox[i].kind = "idle", inbox[j].kind = "busy"
      PROVE  inbox[i].epoch < epoch'
  <2>1. inbox[i].epoch < epoch
    BY <1>2 DEF BusyOrder
  <2>2. inbox[i].epoch \in Reports
    BY <1>2 DEF Reports, ToSet
  <2>3. inbox[i].epoch \in Nat
    BY <2>2, ReportsAreEpochs
  <2>4. QED
    BY <2>1, <2>3 DEF ObjectOK
<1>3. QED
  BY <1>1, <1>2 DEF BusyOrder

(* A request of a user joins the line.                                     *)
LEMMA JoinKeeps ==
  ASSUME LineOK, NEW j \in Entry, j.by = "user", line' = Append(line, j), UNCHANGED processor, ByInv
  PROVE  ByInv'
<1>1. /\ Len(line') = Len(line) + 1 /\ Len(line) \in Nat
      /\ \A i \in 1..Len(line) : line'[i] = line[i]
      /\ line'[Len(line) + 1] = j
  BY AppendFacts DEF LineOK
<1>2. \A i \in 1..Len(line') : line'[i].by = "inbox" => i \in 1..Len(line) /\ line[i].by = "inbox"
  BY <1>1
<1>3. QED
  BY <1>2 DEF ByInv

(* The holder leaves; the inbox processor waits for nobody else.           *)
LEMMA LeaveKeeps ==
  ASSUME Typed, line # <<>>, LeaveLine, ByInv
  PROVE  /\ ByInv' /\ delivery'.phase = "none"
         /\ processor' = processor \/ (processor.at = "redelivering" /\ processor' = Ready)
<1>1. /\ Len(line') = Len(line) - 1 /\ Len(line) \in Nat \ {0}
      /\ \A i \in 1..Len(line') : line'[i] = line[i + 1]
      /\ Head(line) = line[1]
  BY TailFacts DEF Typed, LineOK, LeaveLine
<1>2. processor' = processor \/ (processor.at = "redelivering" /\ processor' = Ready)
  BY <1>1 DEF LeaveLine, ByInv
<1>3. delivery'.phase = "none"
  BY DEF LeaveLine, NoDelivery
<1>4. ASSUME NEW i \in 1..Len(line'), line'[i].by = "inbox" PROVE line[i + 1].by = "inbox" /\ i + 1 \in 1..Len(line)
  BY <1>1, <1>4
<1>5. ASSUME NEW i \in 1..Len(line'), line'[i].by = "inbox" PROVE processor'.at = "redelivering"
  <2>1. line[i + 1].by = "inbox" /\ i + 1 \in 1..Len(line) /\ i + 1 # 1
    BY <1>1, <1>4, <1>5
  <2>2. processor.at = "redelivering"
    BY <2>1 DEF ByInv
  <2>3. Head(line).by # "inbox"
    BY <1>1, <2>1 DEF ByInv
  <2>4. QED
    BY <2>2, <2>3 DEF LeaveLine
<1>6. ASSUME NEW i \in 1..Len(line'), NEW j \in 1..Len(line'), line'[i].by = "inbox", line'[j].by = "inbox" PROVE i = j
  <2>1. i + 1 = j + 1
    BY <1>4, <1>6 DEF ByInv
  <2>2. QED
    BY <1>1, <2>1
<1>7. QED
  BY <1>2, <1>3, <1>5, <1>6 DEF ByInv

(* A step that has nothing to do with the status.                          *)
LEMMA ApartStep ==
  ASSUME Typed, StatusParts, ByInv',
         UNCHANGED <<actor, status, meta, epoch, idleEpoch, delivery, metaFailed>>,
         UNCHANGED <<cli, cliQueue, held, pipe, inbox, processor>>,
         residence' = "cold" => residence = "cold"
  PROVE  StatusParts'
<1>1. /\ \A kind : FrameIn(kind)' <=> FrameIn(kind)
      /\ LastWord'
  BY PipeKeeps DEF StatusParts
<1>2. Reports' = Reports /\ (Resumed' <=> Resumed) /\ BusyOrder'
  BY InboxKeeps DEF StatusParts, Typed, ObjectOK
<1>3. GoneCli' /\ PhaseInv' /\ SettlingInv' /\ RowInv'
  BY <1>2 DEF StatusParts, GoneCli, PhaseInv, SettlingInv, RowInv
<1>4. ReportInv' /\ RestInv' /\ WorkInv'
  BY <1>1, <1>2 DEF StatusParts, ReportInv, RestInv, WorkInv, Reported, MayAbandon
<1>5. QED
  BY <1>1, <1>2, <1>3, <1>4 DEF StatusParts

(* Requests of users, and the answers they get.                            *)
LEMMA UserStatus ==
  ASSUME Typed, StatusParts, UserStep \/ AnswerStep
  PROVE  StatusParts'
<1>1. /\ UNCHANGED <<residence, actor, status, meta, epoch, idleEpoch, delivery, metaFailed>>
      /\ UNCHANGED <<cli, cliQueue, held, pipe, inbox, processor>>
  BY DEF UserStep, AnswerStep, Send, Resend, WithdrawUnsent, Ask, AnswerNo, AnswerDrop, AnswerNow,
         object, sending, inboxVars, cliVars, logVars
<1>2. \/ UNCHANGED line
      \/ \E j \in Entry : j.by = "user" /\ line' = Append(line, j)
  <2>1. ASSUME NEW m \in Msg, NEW op \in {"send", "resend", "cancel"}, Enqueue(op, m)
        PROVE  \E j \in Entry : j.by = "user" /\ line' = Append(line, j)
    <3>1. Job(op, m, "user") \in Entry /\ Job(op, m, "user").by = "user"
      BY JobIs DEF Job, Typed
    <3>2. QED
      BY <2>1, <3>1 DEF Enqueue
  <2>2. ASSUME NEW m \in Msg, Requeue(m, "now", "user")
        PROVE  \E j \in Entry : j.by = "user" /\ line' = Append(line, j)
    <3>1. [op |-> "now", msg |-> m, by |-> "user", uuid |-> attempt[m] + 1] \in Entry
      BY DEF Typed, TrayOK, Entry
    <3>2. QED
      BY <2>2, <3>1 DEF Requeue
  <2>3. CASE UserStep
    BY <2>1, <2>3 DEF UserStep, Send, Resend, WithdrawUnsent, Ask, sending
  <2>4. CASE AnswerStep
    BY <2>2, <2>4 DEF AnswerStep, AnswerNo, AnswerDrop, AnswerNow, sending
  <2>5. QED
    BY <2>3, <2>4
<1>3. ByInv'
  BY <1>1, <1>2, JoinKeeps DEF StatusParts, ByInv, Typed
<1>4. QED
  BY <1>1, <1>3, ApartStep

(* The holder leaves the lock with nothing in hand.                        *)
LEMMA IdleLeaveStatus ==
  ASSUME Typed, StatusParts, line # <<>>, LeaveLine,
         delivery.phase = "none" \/ ~actor \/ delivery.phase = "failing",
         UNCHANGED <<residence, actor, epoch, idleEpoch, metaFailed>>,
         UNCHANGED <<cli, cliQueue, held, pipe, inbox>>,
         UNCHANGED <<status, meta>> \/ ~actor \/ (delivery.phase = "failing" /\ UNCHANGED status),
         status' = "running" => status = "running"
  PROVE  StatusParts'
<1>1. /\ \A kind : FrameIn(kind)' <=> FrameIn(kind)
      /\ LastWord'
  BY PipeKeeps DEF StatusParts
<1>2. Reports' = Reports /\ (Resumed' <=> Resumed) /\ BusyOrder'
  BY InboxKeeps DEF StatusParts, Typed, ObjectOK
<1>3. /\ ByInv' /\ delivery'.phase = "none"
      /\ processor' = processor \/ (processor.at = "redelivering" /\ processor' = Ready)
  BY LeaveKeeps DEF StatusParts
<1>4. GoneCli' /\ PhaseInv' /\ SettlingInv'
  BY <1>3 DEF StatusParts, GoneCli, PhaseInv, SettlingInv, Ready
<1>5. ReportInv'
  BY <1>2 DEF StatusParts, ReportInv
<1>6. RestInv'
  BY <1>1, <1>2, <1>3 DEF StatusParts, RestInv, Reported
<1>7. WorkInv'
  BY <1>1, <1>3 DEF StatusParts, WorkInv, MayAbandon, PhaseInv
<1>8. RowInv'
  BY <1>2, <1>3 DEF StatusParts, RowInv, PhaseInv, Ready
<1>9. QED
  BY <1>1, <1>2, <1>3, <1>4, <1>5, <1>6, <1>7, <1>8 DEF StatusParts

(* A delivery begins: a report of an idle may have become out of date.     *)
LEMMA BeginStatus ==
  ASSUME Typed, StatusParts, delivery.phase = "none", Begin, UNCHANGED metaFailed
  PROVE  StatusParts'
<1>1. /\ delivery'.phase = "meta" /\ delivery'.from = epoch /\ delivery'.busy = (status = "running")
      /\ status' = "running" /\ epoch' = epoch + 1
      /\ UNCHANGED <<residence, actor, idleEpoch, meta, line, inbox, processor, cli, cliQueue, held, pipe>>
  BY DEF Begin, EnterRunning, inboxVars, cliVars
<1>2. /\ \A kind : FrameIn(kind)' <=> FrameIn(kind)
      /\ LastWord'
  BY <1>1, PipeKeeps DEF StatusParts
<1>3. epoch \in Nat /\ epoch' \in Nat /\ epoch <= epoch' /\ idleEpoch \in Nat \union {None} /\ None \notin Nat
  BY <1>1, BoundAssumption DEF Typed, ObjectOK
<1>4. Reports' = Reports /\ (Resumed' <=> Resumed) /\ BusyOrder' /\ Reports \subseteq Nat
  BY <1>1, <1>3, InboxKeeps, ReportsAreEpochs DEF StatusParts, Typed
<1>5. GoneCli' /\ PhaseInv' /\ ByInv'
  BY <1>1, <1>3 DEF StatusParts, GoneCli, PhaseInv, ByInv
<1>6. ReportInv'
  BY <1>1, <1>3, <1>4 DEF StatusParts, ReportInv
<1>7. SettlingInv'
  BY <1>1, <1>3 DEF StatusParts, SettlingInv, Typed, InboxOK, Processing
<1>8. RestInv'
  <2>1. CASE status = "running"
    <3>1. epoch \in Reports => idleEpoch = epoch
      BY DEF StatusParts, ReportInv
    <3>2. QED
      BY <1>1, <1>2, <1>3, <1>4, <2>1, <3>1 DEF StatusParts, RestInv, Reported, MayAbandon
  <2>2. CASE status # "running"
    BY <1>1, <2>2 DEF RestInv, Reported
  <2>3. QED
    BY <2>1, <2>2
<1>9. WorkInv'
  <2>1. idleEpoch # epoch'
    BY <1>1, <1>3 DEF StatusParts, ReportInv
  <2>2. MayAbandon' => idleEpoch = epoch
    BY <1>1, <1>3, <2>1 DEF MayAbandon
  <2>3. QED
    BY <1>1, <1>2, <2>1, <2>2 DEF StatusParts, WorkInv
<1>10. RowInv'
  BY <1>1, <1>4 DEF StatusParts, RowInv
<1>11. QED
  BY <1>2, <1>4, <1>5, <1>6, <1>7, <1>8, <1>9, <1>10 DEF StatusParts

(* The status is written, and the message is given to the actor.           *)
LEMMA WriteRunningStatus ==
  ASSUME Typed, StatusParts, WriteRunning
  PROVE  StatusParts'
<1>1. /\ delivery.phase = "meta" /\ delivery'.phase = IF actor THEN "query" ELSE "refused"
      /\ status' = "running" /\ meta' = "running" /\ epoch' = epoch + 1
      /\ UNCHANGED <<residence, actor, idleEpoch, metaFailed, line, inbox, processor, cli, cliQueue, held, pipe>>
  BY DEF WriteRunning, EnterRunning, inboxVars, cliVars, logVars, Typed, ObjectOK, LineOK, Delivering
<1>2. /\ \A kind : FrameIn(kind)' <=> FrameIn(kind)
      /\ LastWord'
  BY <1>1, PipeKeeps DEF StatusParts
<1>3. epoch \in Nat /\ epoch' \in Nat /\ epoch <= epoch' /\ idleEpoch \in Nat \union {None} /\ None \notin Nat
  BY <1>1, BoundAssumption DEF Typed, ObjectOK
<1>4. Reports' = Reports /\ (Resumed' <=> Resumed) /\ BusyOrder' /\ Reports \subseteq Nat
  BY <1>1, <1>3, InboxKeeps, ReportsAreEpochs DEF StatusParts, Typed
<1>5. GoneCli' /\ PhaseInv' /\ ByInv'
  BY <1>1, <1>3 DEF StatusParts, GoneCli, PhaseInv, ByInv
<1>6. ReportInv'
  BY <1>1, <1>3, <1>4 DEF StatusParts, ReportInv
<1>7. SettlingInv'
  BY <1>1, <1>3 DEF StatusParts, SettlingInv, Typed, InboxOK, Processing
<1>8. RestInv'
  BY <1>1 DEF RestInv, Reported
<1>9. WorkInv'
  <2>1. idleEpoch # epoch'
    BY <1>1, <1>3 DEF StatusParts, ReportInv
  <2>2. ~MayAbandon'
    BY <1>1 DEF MayAbandon
  <2>3. QED
    BY <1>1, <2>1, <2>2 DEF WorkInv
<1>10. RowInv'
  BY <1>1 DEF RowInv
<1>11. QED
  BY <1>2, <1>4, <1>5, <1>6, <1>7, <1>8, <1>9, <1>10 DEF StatusParts

(* The status could not be written.  In a turn at work an idle that the    *)
(* delivery made look out of date is reported again.                       *)
LEMMA BusyFailStatus ==
  ASSUME Typed, StatusParts, delivery.phase = "meta", delivery.busy, AbandonRunning, LeaveLine, metaFailed',
         UNCHANGED <<residence, actor, status, epoch, meta, cli, cliQueue, held, pipe>>
  PROVE  StatusParts'
<1>1. /\ \A kind : FrameIn(kind)' <=> FrameIn(kind)
      /\ LastWord'
  BY PipeKeeps DEF StatusParts
<1>2. line # <<>>
  BY DEF Typed, LineOK
<1>3. /\ ByInv' /\ delivery'.phase = "none"
      /\ processor' = processor \/ (processor.at = "redelivering" /\ processor' = Ready)
  BY <1>2, LeaveKeeps DEF StatusParts
<1>4. epoch \in Nat /\ idleEpoch \in Nat \union {None} /\ None \notin Nat /\ InboxOK /\ ObjectOK
  BY BoundAssumption DEF Typed, ObjectOK
<1>5. GoneCli' /\ PhaseInv' /\ SettlingInv' /\ RowInv'
  BY <1>3 DEF StatusParts, GoneCli, PhaseInv, SettlingInv, RowInv, Ready
<1>6. MayAbandon <=> epoch = delivery.from + 1 /\ idleEpoch \in {delivery.from, delivery.from + 1}
  BY DEF MayAbandon
<1>7. CASE MayAbandon
  <2>1. idleEpoch' = epoch /\ inbox' = Append(inbox, [kind |-> "idle", epoch |-> epoch])
    BY <1>6, <1>7 DEF AbandonRunning
  <2>2. [kind |-> "idle", epoch |-> epoch] \in Item
    BY <1>4 DEF Item
  <2>3. Reports' = Reports \union {epoch} /\ BusyOrder'
    BY <1>4, <2>1, <2>2, JoinInbox DEF StatusParts
  <2>4. idleEpoch # None
    BY <1>4, <1>7 DEF MayAbandon, Typed, LineOK, Delivering
  <2>5. ReportInv'
    BY <1>4, <2>1, <2>3, <2>4 DEF StatusParts, ReportInv
  <2>6. RestInv'
    BY <2>3 DEF RestInv, Reported
  <2>7. WorkInv'
    BY <1>1, <1>3, <1>7 DEF StatusParts, WorkInv, MayAbandon
  <2>8. QED
    BY <1>1, <1>3, <1>5, <2>3, <2>5, <2>6, <2>7 DEF StatusParts
<1>8. CASE ~MayAbandon
  <2>1. UNCHANGED <<idleEpoch, inbox>>
    BY <1>6, <1>8 DEF AbandonRunning
  <2>2. Reports' = Reports /\ BusyOrder'
    BY <1>4, <2>1, InboxKeeps DEF StatusParts
  <2>3. ReportInv'
    BY <2>1, <2>2 DEF StatusParts, ReportInv
  <2>4. RestInv'
    BY <1>1, <1>8, <2>1, <2>2 DEF StatusParts, RestInv, Reported
  <2>5. WorkInv'
    BY <1>1, <1>3, <2>1 DEF StatusParts, WorkInv, MayAbandon
  <2>6. QED
    BY <1>1, <1>3, <1>5, <2>2, <2>3, <2>4, <2>5 DEF StatusParts
<1>9. QED
  BY <1>7, <1>8

(* The session ends with the delivery that failed.                         *)
LEMMA EndedStatus ==
  ASSUME Typed, StatusParts, status' = "ended", delivery'.phase = "failing", metaFailed' \/ ~actor,
         UNCHANGED <<residence, actor, epoch, idleEpoch, meta, line, inbox, processor, cli, cliQueue, held, pipe>>
  PROVE  StatusParts'
<1>1. /\ \A kind : FrameIn(kind)' <=> FrameIn(kind)
      /\ LastWord'
  BY PipeKeeps DEF StatusParts
<1>2. Reports' = Reports /\ (Resumed' <=> Resumed) /\ BusyOrder'
  BY InboxKeeps DEF StatusParts, Typed, ObjectOK
<1>3. GoneCli' /\ PhaseInv' /\ ByInv' /\ SettlingInv' /\ RestInv' /\ RowInv'
  BY DEF StatusParts, GoneCli, PhaseInv, ByInv, SettlingInv, RestInv, RowInv
<1>4. ReportInv' /\ WorkInv'
  BY <1>1, <1>2 DEF StatusParts, ReportInv, WorkInv, MayAbandon
<1>5. QED
  BY <1>1, <1>2, <1>3, <1>4 DEF StatusParts

LEMMA HolderStatus ==
  ASSUME Typed, StatusParts, HolderStep
  PROVE  StatusParts'
<1>1. ASSUME AskCli \/ AnswerRetry \/ GiveUp PROVE StatusParts'
  <2>1. line # <<>> /\ LeaveLine /\ delivery.phase = "none"
    BY <1>1 DEF AskCli, AnswerRetry, GiveUp, Holds, Typed, LineOK
  <2>2. /\ UNCHANGED <<residence, actor, epoch, idleEpoch, metaFailed, status, meta>>
        /\ UNCHANGED <<cli, cliQueue, held, pipe, inbox>>
    BY <1>1 DEF AskCli, AnswerRetry, GiveUp, object, cliVars, logVars
  <2>3. QED
    BY <2>1, <2>2, IdleLeaveStatus
<1>2. ASSUME RegisterSend \/ RegisterResend \/ RegisterAgain PROVE StatusParts'
  BY <1>2, BeginStatus DEF RegisterSend, RegisterResend, RegisterAgain, Begin, logVars
<1>3. ASSUME MetaFails PROVE StatusParts'
  <2>1. /\ delivery.phase = "meta" /\ metaFailed' = TRUE
        /\ UNCHANGED <<residence, actor, epoch, meta, cli, cliQueue, held, pipe>>
    BY <1>3 DEF MetaFails, cliVars
  <2>2. CASE delivery.busy
    BY <1>3, <2>1, <2>2, BusyFailStatus DEF MetaFails
  <2>3. CASE ~delivery.busy
    <3>1. /\ status' = "ended" /\ delivery' = [delivery EXCEPT !.phase = "failing"]
          /\ UNCHANGED <<idleEpoch, inbox, line, processor>>
      BY <1>3, <2>3 DEF MetaFails
    <3>2. delivery'.phase = "failing"
      BY <3>1 DEF Typed, LineOK, Delivering
    <3>3. QED
      BY <2>1, <3>1, <3>2, EndedStatus
  <2>4. QED
    BY <2>2, <2>3
<1>4. ASSUME Refused PROVE StatusParts'
  <2>1. /\ delivery.phase = "refused" /\ status' = "ended" /\ ~actor
        /\ UNCHANGED <<residence, actor, epoch, idleEpoch, meta, metaFailed, cli, cliQueue, held, pipe, inbox>>
    BY <1>4 DEF Refused, cliVars, logVars, StatusParts, PhaseInv
  <2>2. CASE delivery.busy
    <3>1. line # <<>> /\ LeaveLine
      BY <1>4, <2>1, <2>2 DEF Refused, Typed, LineOK
    <3>2. QED
      BY <2>1, <3>1, IdleLeaveStatus
  <2>3. CASE ~delivery.busy
    <3>1. delivery' = [delivery EXCEPT !.phase = "failing"] /\ UNCHANGED <<line, processor>>
      BY <1>4, <2>3 DEF Refused
    <3>2. delivery'.phase = "failing"
      BY <3>1 DEF Typed, LineOK, Delivering
    <3>3. QED
      BY <2>1, <3>1, <3>2, EndedStatus
  <2>4. QED
    BY <2>2, <2>3
<1>5. ASSUME FailureWritten PROVE StatusParts'
  <2>1. /\ line # <<>> /\ LeaveLine /\ delivery.phase = "failing"
        /\ UNCHANGED <<residence, actor, epoch, idleEpoch, metaFailed, status, cli, cliQueue, held, pipe, inbox>>
    BY <1>5 DEF FailureWritten, object, cliVars, logVars, Typed, LineOK
  <2>2. QED
    BY <2>1, IdleLeaveStatus
<1>6. QED
  BY <1>1, <1>2, <1>3, <1>4, <1>5, WriteRunningStatus DEF HolderStep, Delivered

-----------------------------------------------------------------------------
(* The actor reads that the CLI has come to rest.                          *)
LEMMA ReadIdleStatus ==
  ASSUME Typed, GoneInv, StatusParts, ReadIdle
  PROVE  StatusParts'
<1>1. /\ actor /\ pipe # <<>> /\ Head(pipe).kind = "idle" /\ pipe' = Tail(pipe) /\ idleEpoch' = epoch
      /\ inbox' = Append(inbox, [kind |-> "idle", epoch |-> epoch])
      /\ UNCHANGED <<residence, actor, status, epoch, meta, line, delivery, processor, cli, cliQueue, held, metaFailed>>
  BY DEF ReadIdle, ActorFree, Frame, Notice, sending, logVars
<1>2. epoch \in Nat /\ None \notin Nat /\ InboxOK /\ ObjectOK /\ CliOK
  BY BoundAssumption DEF Typed, ObjectOK
<1>3. /\ \A kind : FrameIn(kind) /\ Head(pipe).kind # kind => FrameIn(kind)'
      /\ LastWord'
      /\ cli \in {"working"} => FrameIn(cli)'
  BY <1>1, <1>2, PipeTail DEF StatusParts
<1>4. [kind |-> "idle", epoch |-> epoch] \in Item
  BY <1>2 DEF Item
<1>5. Reports' = Reports \union {epoch} /\ (Resumed' <=> Resumed) /\ BusyOrder'
  BY <1>1, <1>2, <1>4, JoinInbox DEF StatusParts
<1>6. GoneCli' /\ PhaseInv' /\ ByInv' /\ SettlingInv'
  BY <1>1 DEF StatusParts, GoneCli, PhaseInv, ByInv, SettlingInv
<1>7. ReportInv'
  <2>1. residence # "cold"
    BY <1>1 DEF GoneInv
  <2>2. QED
    BY <1>1, <1>2, <1>5, <2>1 DEF StatusParts, ReportInv
<1>8. RestInv'
  BY <1>1, <1>5 DEF RestInv, Reported
<1>9. WorkInv'
  BY <1>1, <1>3 DEF WorkInv
<1>10. RowInv'
  BY <1>1, <1>5 DEF StatusParts, RowInv
<1>11. QED
  BY <1>3, <1>5, <1>6, <1>7, <1>8, <1>9, <1>10 DEF StatusParts

(* The actor reads that the CLI is at work.                                *)
LEMMA ReadWorkingStatus ==
  ASSUME Typed, StatusParts, ReadWorking
  PROVE  StatusParts'
<1>1. /\ actor /\ pipe # <<>> /\ Head(pipe).kind = "working" /\ pipe' = Tail(pipe)
      /\ status' = "running" /\ epoch' = epoch + 1
      /\ UNCHANGED <<residence, actor, idleEpoch, meta, line, delivery, processor, cli, cliQueue, held, metaFailed>>
  BY DEF ReadWorking, ActorFree, Frame, EnterRunning, sending, logVars
<1>2. /\ epoch \in Nat /\ epoch' \in Nat /\ epoch <= epoch' /\ None \notin Nat /\ InboxOK /\ ObjectOK /\ CliOK
      /\ idleEpoch \in Nat \union {None}
  BY <1>1, BoundAssumption DEF Typed, ObjectOK
<1>3. /\ \A kind : FrameIn(kind)' => FrameIn(kind)
      /\ \A kind : FrameIn(kind) /\ Head(pipe).kind # kind => FrameIn(kind)'
      /\ LastWord'
      /\ cli \in {"idle"} => FrameIn(cli)'
  BY <1>1, <1>2, PipeTail DEF StatusParts
<1>4. Reports \subseteq Nat /\ \A e \in Reports : e <= epoch
  BY <1>2, ReportsAreEpochs DEF StatusParts, ReportInv
<1>5. /\ Reports' = Reports /\ BusyOrder'
      /\ Resumed' <=> Resumed \/ status # "running"
  <2>1. CASE status = "running"
    <3>1. UNCHANGED inbox
      BY <2>1 DEF ReadWorking
    <3>2. QED
      BY <1>2, <2>1, <3>1, InboxKeeps DEF StatusParts
  <2>2. CASE status # "running"
    <3>1. inbox' = Append(inbox, [kind |-> "busy", epoch |-> epoch])
      BY <2>2 DEF ReadWorking, Notice
    <3>2. [kind |-> "busy", epoch |-> epoch] \in Item
      BY <1>2 DEF Item
    <3>3. \A e \in Reports : e < epoch'
      BY <1>1, <1>2, <1>4
    <3>4. QED
      BY <1>2, <2>2, <3>1, <3>2, <3>3, JoinInbox DEF StatusParts
  <2>3. QED
    BY <2>1, <2>2
<1>6. PhaseInv'
  BY <1>1, <1>2 DEF StatusParts, PhaseInv, Typed, LineOK, Delivering
<1>7. GoneCli' /\ ByInv'
  BY <1>1 DEF StatusParts, GoneCli, ByInv
<1>8. SettlingInv'
  BY <1>1, <1>2 DEF StatusParts, SettlingInv, Typed, InboxOK, Processing
<1>9. ReportInv'
  BY <1>1, <1>2, <1>4, <1>5 DEF StatusParts, ReportInv
<1>10. RestInv'
  BY <1>1, <1>3 DEF RestInv
<1>11. WorkInv'
  <2>1. idleEpoch # epoch'
    BY <1>1, <1>2 DEF StatusParts, ReportInv
  <2>2. ~MayAbandon'
    BY <1>1, <1>2 DEF MayAbandon, StatusParts, PhaseInv, Typed, LineOK, Delivering
  <2>3. QED
    BY <1>1, <2>1, <2>2 DEF WorkInv
<1>12. RowInv'
  BY <1>1, <1>5 DEF StatusParts, RowInv
<1>13. QED
  BY <1>3, <1>5, <1>6, <1>7, <1>8, <1>9, <1>10, <1>11, <1>12 DEF StatusParts

LEMMA ReadLifecycleStatus ==
  ASSUME Typed, StatusParts, ReadLifecycle
  PROVE  StatusParts'
<1>1. /\ pipe # <<>> /\ Head(pipe).kind \in Fates /\ Head(pipe).of \in Uuids /\ pipe' = Tail(pipe)
      /\ UNCHANGED <<residence, actor, status, epoch, idleEpoch, meta, line, delivery, processor>>
      /\ UNCHANGED <<cli, cliQueue, held, metaFailed>>
  BY FrameIs DEF ReadLifecycle, Frame, object, sending, logVars, Fates, Typed
<1>2. epoch \in Nat /\ InboxOK /\ ObjectOK /\ CliOK
  BY DEF Typed, ObjectOK
<1>3. /\ \A kind : FrameIn(kind)' => FrameIn(kind)
      /\ \A kind : FrameIn(kind) /\ Head(pipe).kind # kind => FrameIn(kind)'
      /\ LastWord'
  BY <1>1, <1>2, PipeTail DEF StatusParts
<1>4. /\ FrameIn("idle") <=> FrameIn("idle")'
      /\ FrameIn("working") <=> FrameIn("working")'
  BY <1>1, <1>3 DEF Fates
<1>5. Reports' = Reports /\ (Resumed' <=> Resumed) /\ BusyOrder'
  <2>1. epoch' \in Nat /\ epoch <= epoch'
    BY <1>1, <1>2
  <2>2. CASE UNCHANGED inbox
    BY <1>2, <2>1, <2>2, InboxKeeps DEF StatusParts
  <2>3. CASE ~UNCHANGED inbox
    <3>1. inbox' = Append(inbox, [kind |-> Head(pipe).kind, of |-> Head(pipe).of, preempted |-> urgent # {}])
      BY <2>3 DEF ReadLifecycle
    <3>2. [kind |-> Head(pipe).kind, of |-> Head(pipe).of, preempted |-> urgent # {}] \in Item
      BY <1>1 DEF Item, Fates
    <3>3. PICK x \in Item : inbox' = Append(inbox, x) /\ x.kind \in Fates
      BY <1>1, <3>1, <3>2
    <3>4. QED
      BY <1>2, <2>1, <3>3, JoinInbox DEF StatusParts, Fates
  <2>4. QED
    BY <2>2, <2>3
<1>6. GoneCli' /\ PhaseInv' /\ ByInv' /\ SettlingInv'
  BY <1>1 DEF StatusParts, GoneCli, PhaseInv, ByInv, SettlingInv
<1>7. ReportInv' /\ RestInv' /\ WorkInv' /\ RowInv'
  BY <1>1, <1>4, <1>5 DEF StatusParts, ReportInv, RestInv, WorkInv, RowInv, Reported, MayAbandon
<1>8. QED
  BY <1>3, <1>5, <1>6, <1>7 DEF StatusParts

(* The CLI is given the message, and so has work.                          *)
LEMMA WriteQueryStatus ==
  ASSUME Typed, StatusParts, WriteQuery
  PROVE  StatusParts'
<1>1. /\ line # <<>> /\ LeaveLine /\ delivery.phase = "query" /\ cli # "gone" /\ cliQueue' # {}
      /\ UNCHANGED <<residence, actor, status, epoch, idleEpoch, meta, inbox, cli, held, pipe, metaFailed>>
  <2>1. commands # <<>> /\ Head(commands).kind = "query"
    BY DEF WriteQuery, Command
  <2>2. Head(commands) = commands[1] /\ 1 \in 1..Len(commands)
    BY <2>1, TailFacts DEF Typed, WireOK
  <2>3. delivery.phase = "query"
    BY <2>1, <2>2 DEF Typed, WireOK
  <2>4. QED
    BY <2>3 DEF WriteQuery, object, logVars, Typed, LineOK
<1>2. /\ \A kind : FrameIn(kind)' <=> FrameIn(kind)
      /\ LastWord'
  BY <1>1, PipeKeeps DEF StatusParts
<1>3. Reports' = Reports /\ (Resumed' <=> Resumed) /\ BusyOrder'
  BY <1>1, InboxKeeps DEF StatusParts, Typed, ObjectOK
<1>4. /\ ByInv' /\ delivery'.phase = "none"
      /\ processor' = processor \/ (processor.at = "redelivering" /\ processor' = Ready)
  BY <1>1, LeaveKeeps DEF StatusParts
<1>5. GoneCli' /\ PhaseInv' /\ SettlingInv'
  BY <1>1, <1>4 DEF StatusParts, GoneCli, PhaseInv, SettlingInv, Ready
<1>6. ReportInv' /\ RestInv'
  BY <1>1, <1>3 DEF StatusParts, ReportInv, RestInv
<1>7. WorkInv'
  BY <1>1, <1>2, <1>4 DEF StatusParts, WorkInv, MayAbandon
<1>8. RowInv'
  BY <1>1, <1>3, <1>4 DEF StatusParts, RowInv, Ready
<1>9. QED
  BY <1>2, <1>3, <1>4, <1>5, <1>6, <1>7, <1>8 DEF StatusParts

(* A message is taken back from a CLI at work only.                        *)
LEMMA AskedToCancelStatus ==
  ASSUME Typed, StatusParts, AskedToCancel
  PROVE  StatusParts'
<1>1. /\ commands # <<>> /\ Head(commands).kind = "cancel" /\ Head(commands).of \in Uuids
      /\ cliQueue' = cliQueue \ {Head(commands).of} /\ (cli = "idle" => Head(commands).of \notin cliQueue)
      /\ UNCHANGED <<residence, actor, status, epoch, idleEpoch, meta, line, delivery, processor, inbox>>
      /\ UNCHANGED <<cli, held, metaFailed>>
  BY CommandIs DEF AskedToCancel, Command, object, sending, inboxVars, logVars, Typed
<1>2. epoch \in Nat /\ InboxOK /\ ObjectOK /\ CliOK
  BY DEF Typed, ObjectOK
<1>3. /\ FrameIn("idle")' <=> FrameIn("idle")
      /\ FrameIn("working")' <=> FrameIn("working")
      /\ LastWord'
  <2>1. CASE Head(commands).of \in cliQueue
    <3>1. pipe' = pipe \o <<[kind |-> "cancelled", of |-> Head(commands).of]>>
      <4>1. pipe' = Append(pipe, [kind |-> "cancelled", of |-> Head(commands).of])
        BY <2>1 DEF AskedToCancel
      <4>2. QED
        BY <4>1, <1>2 DEF CliOK
    <3>2. [kind |-> "cancelled", of |-> Head(commands).of] \in Said
      BY <1>1 DEF Said
    <3>3. PICK x \in Said : pipe' = pipe \o <<x>> /\ x.kind = "cancelled"
      BY <3>1, <3>2
    <3>4. QED
      BY <1>1, <1>2, <3>3, PipeFate DEF StatusParts, Fates
  <2>2. CASE Head(commands).of \notin cliQueue
    BY <1>1, <2>2, PipeKeeps DEF StatusParts, AskedToCancel
  <2>3. QED
    BY <2>1, <2>2
<1>4. Reports' = Reports /\ (Resumed' <=> Resumed) /\ BusyOrder'
  BY <1>1, <1>2, InboxKeeps DEF StatusParts
<1>5. GoneCli' /\ PhaseInv' /\ ByInv' /\ SettlingInv'
  BY <1>1 DEF StatusParts, GoneCli, PhaseInv, ByInv, SettlingInv
<1>6. RestInv'
  <2>1. cli = "idle" => cliQueue' = cliQueue
    BY <1>1
  <2>2. QED
    BY <1>1, <1>3, <1>4, <2>1 DEF StatusParts, RestInv, Reported, MayAbandon
<1>7. ReportInv' /\ WorkInv' /\ RowInv'
  BY <1>1, <1>3, <1>4 DEF StatusParts, ReportInv, WorkInv, RowInv, MayAbandon
<1>8. QED
  BY <1>3, <1>4, <1>5, <1>6, <1>7 DEF StatusParts

LEMMA ActorEndsStatus ==
  ASSUME Typed, StatusParts, ActorFails \/ Disconnect
  PROVE  StatusParts'
<1>1. PICK failed \in BOOLEAN : ActorEnds(failed)
  BY DEF ActorFails, Disconnect
<1>2. /\ ~actor' /\ cli' = "gone" /\ cliQueue' = {} /\ held' = {}
      /\ inbox' = Append(inbox, [kind |-> "exit", failed |-> failed])
      /\ delivery'.phase = "meta" => delivery' = delivery
      /\ UNCHANGED <<residence, status, epoch, idleEpoch, meta, line, processor, metaFailed>>
  BY <1>1 DEF ActorFails, Disconnect, ActorEnds, logVars, Typed, LineOK, Delivering
<1>3. epoch \in Nat /\ InboxOK /\ ObjectOK /\ [kind |-> "exit", failed |-> failed] \in Item
  BY DEF Typed, ObjectOK, Item
<1>4. Reports' = Reports /\ (Resumed' <=> Resumed) /\ BusyOrder'
  <2>1. PICK x \in Item : inbox' = Append(inbox, x) /\ x.kind = "exit"
    BY <1>2, <1>3
  <2>2. epoch' \in Nat /\ epoch <= epoch'
    BY <1>2, <1>3
  <2>3. QED
    BY <1>3, <2>1, <2>2, JoinInbox DEF StatusParts
<1>5. LastWord' /\ GoneCli' /\ RestInv' /\ WorkInv' /\ RowInv'
  BY <1>2 DEF LastWord, GoneCli, RestInv, WorkInv, RowInv
<1>6. PhaseInv' /\ ByInv' /\ SettlingInv' /\ ReportInv'
  BY <1>2, <1>4 DEF StatusParts, PhaseInv, ByInv, SettlingInv, ReportInv
<1>7. QED
  BY <1>4, <1>5, <1>6 DEF StatusParts

LEMMA ActorStatus ==
  ASSUME Typed, GoneInv, StatusParts, ActorStep
  PROVE  StatusParts'
BY ReadIdleStatus, ReadWorkingStatus, ReadLifecycleStatus, WriteQueryStatus, AskedToCancelStatus, ActorEndsStatus
DEF ActorStep, ActorReads, ActorTakesCommand

-----------------------------------------------------------------------------
(* The inbox processor settles a report of an idle.                        *)
LEMMA SettleIdleStatus ==
  ASSUME Typed, StatusParts, SettleIdle
  PROVE  StatusParts'
<1>1. /\ inbox # <<>> /\ Head(inbox).kind = "idle" /\ Take /\ processor = Ready
      /\ UNCHANGED <<residence, actor, epoch, idleEpoch, meta, line, delivery, cli, cliQueue, held, pipe, metaFailed>>
  BY DEF SettleIdle, InboxReady, sending, cliVars, logVars
<1>2. DEFINE e == Head(inbox).epoch
<1>3. e \in Nat /\ epoch \in Nat /\ InboxOK /\ ObjectOK
  BY <1>1, ItemIs DEF Typed, ObjectOK
<1>4. /\ \A kind : FrameIn(kind)' <=> FrameIn(kind)
      /\ LastWord'
  BY <1>1, PipeKeeps DEF StatusParts
<1>5. /\ Reports' \subseteq Reports /\ e \in Reports /\ Reports = Reports' \union {e}
      /\ Resumed' <=> Resumed
      /\ BusyOrder' /\ (Resumed' => e < epoch)
  BY <1>1, <1>3, TakeItem DEF StatusParts
<1>6. processor.at = "ready" /\ \A i \in 1..Len(line) : line[i].by # "inbox"
  BY <1>1 DEF Ready, StatusParts, ByInv
<1>7. GoneCli' /\ PhaseInv'
  BY <1>1 DEF StatusParts, GoneCli, PhaseInv
<1>8. ByInv'
  BY <1>1, <1>6 DEF ByInv
<1>9. ReportInv'
  BY <1>1, <1>5 DEF StatusParts, ReportInv
<1>10. CASE Current(e)
  <2>1. status' = "ended" /\ processor'.at = "settling" /\ processor'.epoch = e /\ e = epoch
    BY <1>10 DEF SettleIdle, Current
  <2>2. idleEpoch = epoch
    BY <1>5, <2>1 DEF StatusParts, ReportInv
  <2>3. SettlingInv' /\ RestInv' /\ RowInv'
    BY <1>1, <1>3, <1>5, <2>1 DEF SettlingInv, RestInv, RowInv
  <2>4. WorkInv'
    BY <1>1, <1>4, <2>2 DEF StatusParts, WorkInv
  <2>5. QED
    BY <1>4, <1>5, <1>7, <1>8, <1>9, <2>3, <2>4 DEF StatusParts
<1>11. CASE ~Current(e)
  <2>1. UNCHANGED <<status, processor>> /\ (status = "running" => e # epoch)
    BY <1>11 DEF SettleIdle, Current
  <2>2. SettlingInv' /\ RowInv'
    BY <1>1, <1>5, <2>1 DEF StatusParts, SettlingInv, RowInv
  <2>3. RestInv' /\ WorkInv'
    BY <1>1, <1>4, <1>5, <2>1 DEF StatusParts, RestInv, WorkInv, Reported, MayAbandon
  <2>4. QED
    BY <1>4, <1>5, <1>7, <1>8, <1>9, <2>2, <2>3 DEF StatusParts
<1>12. QED
  BY <1>10, <1>11

(* The row is written for what was settled, and for what overtook it.      *)
LEMMA WrittenStatus ==
  ASSUME Typed, GoneInv, StatusParts, IdleWritten \/ RunningRewritten \/ EndWritten
  PROVE  StatusParts'
<1>1. /\ UNCHANGED <<residence, actor, status, epoch, idleEpoch, line, delivery, inbox>>
      /\ UNCHANGED <<cli, cliQueue, held, pipe, metaFailed>>
  BY DEF IdleWritten, RunningRewritten, EndWritten, object, sending, cliVars, logVars
<1>2. /\ \A kind : FrameIn(kind)' <=> FrameIn(kind)
      /\ LastWord'
  BY <1>1, PipeKeeps DEF StatusParts
<1>3. Reports' = Reports /\ (Resumed' <=> Resumed) /\ BusyOrder'
  BY <1>1, InboxKeeps DEF StatusParts, Typed, ObjectOK
<1>4. processor.at \in {"settling", "resettling", "ending"}
      /\ processor'.at \in {"ready", "resettling", "done"}
  BY DEF IdleWritten, RunningRewritten, EndWritten, Ready, Typed, InboxOK, Processing
<1>5. GoneCli' /\ PhaseInv' /\ ReportInv' /\ SettlingInv' /\ RestInv' /\ WorkInv'
  BY <1>1, <1>2, <1>3, <1>4
  DEF StatusParts, GoneCli, PhaseInv, ReportInv, SettlingInv, RestInv, WorkInv, Reported, MayAbandon
<1>6. ByInv'
  <2>1. \A i \in 1..Len(line) : line[i].by # "inbox"
    BY <1>4 DEF StatusParts, ByInv
  <2>2. QED
    BY <1>1, <2>1 DEF ByInv
<1>7. RowInv'
  <2>1. CASE IdleWritten
    <3>1. processor.at = "settling" /\ meta' = "ended"
          /\ processor'.at = IF processor.epoch # epoch /\ status = "running" THEN "resettling" ELSE "ready"
      BY <2>1 DEF IdleWritten, Ready, Typed, InboxOK, Processing
    <3>2. status = "running" => processor.epoch # epoch
      BY <3>1 DEF StatusParts, SettlingInv, Typed, InboxOK, Processing, ObjectOK
    <3>3. QED
      BY <1>1, <1>3, <3>1, <3>2 DEF StatusParts, RowInv
  <2>2. CASE RunningRewritten
    <3>1. processor.at = "resettling" /\ meta' = "running" /\ processor'.at = "ready"
      BY <2>2 DEF RunningRewritten, Ready
    <3>2. QED
      BY <1>1, <1>3, <3>1 DEF StatusParts, RowInv
  <2>3. CASE EndWritten
    <3>1. ~actor
      BY <2>3 DEF EndWritten, GoneInv
    <3>2. QED
      BY <1>1, <3>1 DEF RowInv
  <2>4. QED
    BY <2>1, <2>2, <2>3
<1>8. QED
  BY <1>2, <1>3, <1>5, <1>6, <1>7 DEF StatusParts

LEMMA SettleBusyStatus ==
  ASSUME Typed, StatusParts, SettleBusy
  PROVE  StatusParts'
<1>1. /\ inbox # <<>> /\ Head(inbox).kind = "busy" /\ Take /\ meta' = "running"
      /\ UNCHANGED <<residence, actor, status, epoch, idleEpoch, line, delivery, processor>>
      /\ UNCHANGED <<cli, cliQueue, held, pipe, metaFailed>>
  BY DEF SettleBusy, InboxReady, object, sending, cliVars, logVars
<1>2. /\ \A kind : FrameIn(kind)' <=> FrameIn(kind)
      /\ LastWord'
  BY <1>1, PipeKeeps DEF StatusParts
<1>3. Reports' = Reports /\ (Resumed' => Resumed) /\ BusyOrder'
  BY <1>1, TakeItem DEF StatusParts, Typed
<1>4. Resumed
  <2>1. Head(inbox) \in ToSet(inbox)
    BY <1>1, TailFacts DEF Typed, InboxOK
  <2>2. QED
    BY <1>1, <2>1 DEF Resumed
<1>5. GoneCli' /\ PhaseInv' /\ ByInv' /\ ReportInv' /\ SettlingInv' /\ RestInv' /\ WorkInv'
  BY <1>1, <1>2, <1>3
  DEF StatusParts, GoneCli, PhaseInv, ByInv, ReportInv, SettlingInv, RestInv, WorkInv, Reported, MayAbandon
<1>6. RowInv'
  BY <1>1, <1>3, <1>4 DEF StatusParts, RowInv
<1>7. QED
  BY <1>2, <1>3, <1>5, <1>6 DEF StatusParts

(* The inbox processor settles what became of a message; for one that is   *)
(* sent again it waits.                                                    *)
LEMMA SettleFateStatus ==
  ASSUME Typed, StatusParts, SettleStarted \/ SettleUnstarted \/ SettleNothing
  PROVE  StatusParts'
<1>1. /\ inbox # <<>> /\ Head(inbox).kind \in Fates /\ Take /\ processor.at = "ready"
      /\ UNCHANGED <<residence, actor, status, epoch, idleEpoch, meta, delivery>>
      /\ UNCHANGED <<cli, cliQueue, held, pipe, metaFailed>>
  BY DEF SettleStarted, SettleUnstarted, SettleNothing, Settles, InboxReady, Fates, Ready,
         object, sending, cliVars, logVars
<1>2. /\ \A kind : FrameIn(kind)' <=> FrameIn(kind)
      /\ LastWord'
  BY <1>1, PipeKeeps DEF StatusParts
<1>3. Reports' = Reports /\ (Resumed' <=> Resumed) /\ BusyOrder'
  BY <1>1, TakeItem DEF StatusParts, Typed, Fates
<1>4. /\ ByInv'
      /\ processor' = processor \/ processor'.at = "redelivering"
  <2>1. CASE UNCHANGED <<line, processor>>
    BY <2>1 DEF StatusParts, ByInv
  <2>2. CASE \E j \in Entry : line' = Append(line, j) /\ processor'.at = "redelivering"
    <3>1. PICK j \in Entry : line' = Append(line, j) /\ processor'.at = "redelivering"
      BY <2>2
    <3>2. /\ Len(line') = Len(line) + 1 /\ Len(line) \in Nat
          /\ \A i \in 1..Len(line) : line'[i] = line[i]
      BY <3>1, AppendFacts DEF Typed, LineOK
    <3>3. \A i \in 1..Len(line') : line'[i].by = "inbox" => i = Len(line')
      BY <1>1, <3>2 DEF StatusParts, ByInv
    <3>4. QED
      BY <3>1, <3>3 DEF ByInv
  <2>3. UNCHANGED <<line, processor>> \/ \E j \in Entry : line' = Append(line, j) /\ processor'.at = "redelivering"
    <3>1. CASE SettleStarted \/ SettleNothing
      BY <3>1 DEF SettleStarted, SettleNothing, sending
    <3>2. CASE SettleUnstarted
      <4>1. \/ UNCHANGED <<line, processor>>
            \/ /\ \E op \in {"now", "again"} : Requeue(Head(inbox).of[1], op, "inbox")
               /\ processor' = [at |-> "redelivering", epoch |-> 0]
        BY <3>2, Zenon DEF SettleUnstarted
      <4>2. CASE UNCHANGED <<line, processor>>
        BY <4>2
      <4>3. ASSUME NEW op \in {"now", "again"}, Requeue(Head(inbox).of[1], op, "inbox"),
                   processor' = [at |-> "redelivering", epoch |-> 0]
            PROVE  \E j \in Entry : line' = Append(line, j) /\ processor'.at = "redelivering"
        <5>1. PICK m \in Msg : m = Head(inbox).of[1]
          BY <1>1, ItemIs DEF Typed, Fates
        <5>2. [op |-> op, msg |-> m, by |-> "inbox", uuid |-> attempt[m] + 1] \in Entry
          BY DEF Typed, TrayOK, Entry
        <5>3. QED
          BY <4>3, <5>1, <5>2 DEF Requeue
      <4>4. QED
        BY <4>1, <4>2, <4>3
    <3>3. QED
      BY <3>1, <3>2
  <2>4. QED
    BY <2>1, <2>2, <2>3
<1>5. GoneCli' /\ PhaseInv' /\ ReportInv' /\ SettlingInv' /\ RestInv' /\ WorkInv'
  BY <1>1, <1>2, <1>3, <1>4
  DEF StatusParts, GoneCli, PhaseInv, ReportInv, SettlingInv, RestInv, WorkInv, Reported, MayAbandon
<1>6. RowInv'
  BY <1>1, <1>3, <1>4 DEF StatusParts, RowInv
<1>7. QED
  BY <1>2, <1>3, <1>4, <1>5, <1>6 DEF StatusParts

(* The notice of the actor's end is settled when there is none.            *)
LEMMA SettleExitStatus ==
  ASSUME Typed, GoneInv, StatusParts, SettleExit
  PROVE  StatusParts'
<1>1. /\ inbox # <<>> /\ Head(inbox).kind = "exit" /\ Take /\ processor.at = "ready"
      /\ processor'.at \in {"ending", "done"} /\ status' \in {status, "ended"}
      /\ UNCHANGED <<residence, actor, epoch, idleEpoch, meta, line, delivery>>
      /\ UNCHANGED <<cli, cliQueue, held, pipe, metaFailed>>
  BY DEF SettleExit, InboxReady, Ready, sending, cliVars, logVars
<1>2. ~actor
  <2>1. Head(inbox) \in ToSet(inbox)
    BY <1>1, TailFacts DEF Typed, InboxOK
  <2>2. QED
    BY <1>1, <2>1 DEF GoneInv
<1>3. LastWord'
  BY <1>1, PipeKeeps DEF StatusParts
<1>4. Reports' = Reports /\ BusyOrder'
  BY <1>1, TakeItem DEF StatusParts, Typed
<1>5. GoneCli' /\ PhaseInv' /\ ReportInv' /\ SettlingInv' /\ RestInv' /\ WorkInv' /\ RowInv'
  BY <1>1, <1>2, <1>4 DEF StatusParts, GoneCli, PhaseInv, ReportInv, SettlingInv, RestInv, WorkInv, RowInv
<1>6. ByInv'
  BY <1>1 DEF StatusParts, ByInv
<1>7. QED
  BY <1>3, <1>4, <1>5, <1>6 DEF StatusParts

LEMMA InboxStatus ==
  ASSUME Typed, GoneInv, StatusParts, InboxStep
  PROVE  StatusParts'
BY SettleIdleStatus, WrittenStatus, SettleBusyStatus, SettleFateStatus, SettleExitStatus DEF InboxStep

-----------------------------------------------------------------------------
(* Evictions, and the ends of objects and connections.                     *)
LEMMA LeavingStatus ==
  ASSUME Typed, GoneInv, StatusParts, Evict \/ Disconnected
  PROVE  StatusParts'
<1>1. /\ UNCHANGED <<actor, epoch, idleEpoch, meta, line, delivery, inbox, processor>>
      /\ UNCHANGED <<cli, cliQueue, held, pipe, metaFailed>> /\ residence' # "cold"
  BY DEF Evict, Disconnected, sending, inboxVars, wire, cliVars, logVars
<1>2. CASE Evict
  <2>1. UNCHANGED status
    BY <1>2 DEF Evict
  <2>2. ByInv'
    BY <1>1 DEF StatusParts, ByInv
  <2>3. QED
    BY <1>1, <2>1, <2>2, ApartStep
<1>3. CASE Disconnected
  <2>1. ~actor /\ (status' = "running" <=> status = "running")
    BY <1>3 DEF Disconnected
  <2>2. LastWord'
    BY <1>1, PipeKeeps DEF StatusParts
  <2>3. Reports' = Reports /\ BusyOrder'
    BY <1>1, InboxKeeps DEF StatusParts, Typed, ObjectOK
  <2>4. GoneCli' /\ PhaseInv' /\ ByInv' /\ ReportInv' /\ SettlingInv' /\ RestInv' /\ WorkInv' /\ RowInv'
    BY <1>1, <2>1, <2>3
    DEF StatusParts, GoneCli, PhaseInv, ByInv, ReportInv, SettlingInv, RestInv, WorkInv, RowInv
  <2>5. QED
    BY <2>2, <2>3, <2>4 DEF StatusParts
<1>4. QED
  BY <1>2, <1>3

(* A new object, or a new connection, takes its status from the row, and   *)
(* has read no idle yet.                                                   *)
LEMMA RenewStatus ==
  ASSUME Typed, GoneInv, StatusParts, Evicted \/ Connect \/ Reconnect \/ ReconnectFails
  PROVE  StatusParts'
<1>1. ~actor /\ line = <<>> /\ cliQueue = {} /\ held = {} /\ pipe = <<>> /\ delivery.phase = "none"
  BY DEF Evicted, Connect, Reconnect, ReconnectFails, Drained, GoneInv, Typed, LineOK
<1>2. /\ UNCHANGED <<line, delivery, cliQueue, held, pipe>>
      /\ inbox' = <<>> /\ processor' = Ready /\ Ready.at = "ready" /\ idleEpoch' = None
      /\ ~actor' \/ (cli' = "idle" /\ status' = meta /\ meta' = meta)
  BY <1>1 DEF Evicted, Connect, Reconnect, ReconnectFails, StartActor, NewObject, Ready,
              sending, cliVars, inboxVars, GoneInv, StatusParts, ReportInv
<1>3. Reports' = {} /\ ~Resumed' /\ BusyOrder' /\ LastWord'
  BY <1>1, <1>2 DEF Reports, Resumed, BusyOrder, LastWord, ToSet
<1>4. GoneCli' /\ PhaseInv' /\ ByInv' /\ SettlingInv'
  BY <1>1, <1>2 DEF GoneCli, PhaseInv, ByInv, SettlingInv
<1>5. ReportInv' /\ RestInv' /\ RowInv'
  BY <1>2, <1>3 DEF ReportInv, RestInv, RowInv, Typed, ObjectOK
<1>6. WorkInv'
  BY <1>2 DEF WorkInv
<1>7. QED
  BY <1>3, <1>4, <1>5, <1>6 DEF StatusParts

-----------------------------------------------------------------------------
(* The CLI.                                                                *)
LEMMA SessionStays ==
  ASSUME Typed, StatusParts, Session' = Session
  PROVE  /\ UNCHANGED <<residence, actor, status, epoch, idleEpoch, meta, line, delivery, inbox, processor, metaFailed>>
         /\ Reports' = Reports /\ (Resumed' <=> Resumed) /\ BusyOrder'
         /\ PhaseInv' /\ ByInv' /\ ReportInv' /\ SettlingInv' /\ RowInv'
<1>1. UNCHANGED <<residence, actor, status, epoch, idleEpoch, meta, line, delivery, inbox, processor, metaFailed>>
  BY DEF Session, object, sending, inboxVars, logVars
<1>2. Reports' = Reports /\ (Resumed' <=> Resumed) /\ BusyOrder'
  BY <1>1, InboxKeeps DEF StatusParts, Typed, ObjectOK
<1>3. PhaseInv' /\ ByInv' /\ ReportInv' /\ SettlingInv' /\ RowInv'
  BY <1>1, <1>2 DEF StatusParts, PhaseInv, ByInv, ReportInv, SettlingInv, RowInv
<1>4. QED
  BY <1>1, <1>2, <1>3

LEMMA CliStatus ==
  ASSUME Typed, StatusParts, CliStep
  PROVE  StatusParts'
<1>1. ASSUME Session' = Session, LastWord', GoneCli',
             cli' = "idle" => FrameIn("idle")' \/ ((FrameIn("idle") => FrameIn("idle")') /\ cli = "idle"
                                                   /\ (cliQueue' = {} /\ held' = {} => cliQueue = {} /\ held = {})),
             cli' = "working" => FrameIn("working")' \/ ((FrameIn("working") => FrameIn("working")') /\ cli = "working")
      PROVE  StatusParts'
  <2>1. RestInv' /\ WorkInv'
    BY <1>1, SessionStays DEF StatusParts, RestInv, WorkInv, Reported, MayAbandon
  <2>2. QED
    BY <1>1, <2>1, SessionStays DEF StatusParts
<1>2. CliOK /\ LastWord /\ GoneCli
  BY DEF Typed, StatusParts
<1>3. ASSUME NEW u \in Uuids, NEW kind \in Fates
      PROVE  [kind |-> kind, of |-> u] \in Said /\ [kind |-> kind, of |-> u].kind \in Fates
  BY DEF Said, Fates
<1>4. ASSUME NEW u \in cliQueue, CliFetch(u) PROVE StatusParts'
  <2>1. /\ Session' = Session /\ UNCHANGED <<cli, pipe>> /\ held' # {} /\ cliQueue # {}
        /\ cliQueue' = cliQueue \ {u}
    BY <1>4 DEF CliFetch
  <2>2. LastWord' /\ \A kind : FrameIn(kind)' <=> FrameIn(kind)
    BY <1>2, <2>1, PipeKeeps
  <2>3. GoneCli'
    BY <1>2, <2>1 DEF GoneCli
  <2>4. QED
    BY <1>1, <2>1, <2>2, <2>3
<1>5. ASSUME NEW u \in held, CliStart(u) PROVE StatusParts'
  <2>1. u \in Uuids /\ cli # "gone"
    BY <1>2 DEF CliOK, GoneCli
  <2>2. Session' = Session /\ cli' = "working"
    BY <1>5 DEF CliStart
  <2>3. [kind |-> "started", of |-> u] \in Said /\ [kind |-> "working"] \in Said
    BY <2>1 DEF Said
  <2>4. GoneCli'
    BY <2>2 DEF GoneCli
  <2>5. CASE cli = "idle"
    <3>1. pipe' = pipe \o (<<[kind |-> "working"]>> \o <<[kind |-> "started", of |-> u]>>)
      BY <1>5, <2>5 DEF CliStart, Says
    <3>2. PICK f \in Said, g \in Said :
            f.kind = "working" /\ g.kind = "started" /\ pipe' = pipe \o (<<f>> \o <<g>>)
      BY <2>3, <3>1
    <3>3. /\ <<f>> \o <<g>> \in Seq(Said) /\ Len(<<f>> \o <<g>>) = 2
          /\ (<<f>> \o <<g>>)[1] = f /\ (<<f>> \o <<g>>)[2] = g
      OBVIOUS
    <3>4. PICK frames \in Seq(Said) :
            /\ pipe' = pipe \o frames /\ Len(frames) = 2
            /\ frames[1].kind = "working" /\ frames[2].kind = "started"
      BY <3>2, <3>3
    <3>5. /\ \A k \in 1..Len(frames) : frames[k].kind \in {"idle", "working"} => frames[k].kind = "working"
          /\ \E k \in 1..Len(frames) : frames[k].kind = "working"
      BY <3>4
    <3>6. LastWord' /\ FrameIn("working")'
      BY <1>2, <2>2, <3>4, <3>5, PipeSays
    <3>7. QED
      BY <1>1, <2>2, <2>4, <3>6
  <2>6. CASE cli # "idle"
    <3>1. cli = "working"
      BY <1>2, <2>1, <2>6 DEF CliOK
    <3>2. pipe' = pipe \o <<[kind |-> "started", of |-> u]>>
      <4>1. pipe' = pipe \o (<<>> \o <<[kind |-> "started", of |-> u]>>)
        BY <1>5, <2>6 DEF CliStart, Says
      <4>2. <<>> \o <<[kind |-> "started", of |-> u]>> = <<[kind |-> "started", of |-> u]>>
        OBVIOUS
      <4>3. QED
        BY <4>1, <4>2
    <3>3. PICK x \in Said : x.kind \in Fates /\ pipe' = pipe \o <<x>>
      BY <2>3, <3>2 DEF Fates
    <3>4. LastWord' /\ (FrameIn("working")' <=> FrameIn("working"))
      BY <1>2, <2>2, <3>1, <3>3, PipeFate
    <3>5. QED
      BY <1>1, <2>2, <2>4, <3>1, <3>4
  <2>7. QED
    BY <2>5, <2>6
<1>6. ASSUME NEW u \in held, NEW kind \in {"cancelled", "discarded"}, CliDrops(u, kind) PROVE StatusParts'
  <2>1. Session' = Session /\ cli = "working" /\ cli' = "working" /\ pipe' = pipe \o <<[kind |-> kind, of |-> u]>>
    BY <1>6 DEF CliDrops, Says
  <2>2. PICK x \in Said : x.kind \in Fates /\ pipe' = pipe \o <<x>>
    BY <1>2, <1>3, <2>1 DEF CliOK, Fates
  <2>3. LastWord' /\ (FrameIn("working")' <=> FrameIn("working"))
    BY <1>2, <2>1, <2>2, PipeFate
  <2>4. GoneCli'
    BY <2>1 DEF GoneCli
  <2>5. QED
    BY <1>1, <2>1, <2>3, <2>4
<1>7. ASSUME NEW u \in open, CliAborts(u) PROVE StatusParts'
  <2>1. Session' = Session /\ UNCHANGED <<cli, cliQueue, held>> /\ pipe' = pipe \o <<[kind |-> "cancelled", of |-> u]>>
    BY <1>7 DEF CliAborts, Says
  <2>2. PICK x \in Said : x.kind \in Fates /\ pipe' = pipe \o <<x>>
    BY <1>2, <1>3, <2>1 DEF CliOK, Fates
  <2>3. /\ LastWord' /\ (FrameIn("working")' <=> FrameIn("working"))
        /\ FrameIn("idle")' <=> FrameIn("idle")
    BY <1>2, <2>1, <2>2, PipeFate
  <2>4. GoneCli'
    BY <1>2, <2>1 DEF GoneCli
  <2>5. QED
    BY <1>1, <2>1, <2>3, <2>4
<1>8. ASSUME NEW kind \in {"idle", "working"}, pipe' = pipe \o <<[kind |-> kind]>>, cli' = kind, Session' = Session
      PROVE  StatusParts'
  <2>1. [kind |-> kind] \in Said
    BY DEF Said
  <2>2. PICK x \in Said : x.kind = kind /\ pipe' = pipe \o <<x>>
    BY <1>8, <2>1
  <2>3. <<x>> \in Seq(Said) /\ Len(<<x>>) = 1 /\ <<x>>[1] = x
    OBVIOUS
  <2>4. PICK frames \in Seq(Said) : pipe' = pipe \o frames /\ Len(frames) = 1 /\ frames[1].kind = kind
    BY <2>2, <2>3
  <2>5. (\A k \in 1..Len(frames) : frames[k].kind = kind) /\ \E k \in 1..Len(frames) : frames[k].kind = kind
    BY <2>4
  <2>6. LastWord' /\ FrameIn(kind)'
    BY <1>2, <1>8, <2>4, <2>5, PipeSays
  <2>7. GoneCli'
    BY <1>8 DEF GoneCli
  <2>8. QED
    BY <1>1, <1>8, <2>6, <2>7
<1>9. ASSUME CliIdles PROVE StatusParts'
  BY <1>8, <1>9 DEF CliIdles, Says
<1>10. ASSUME CliWorks PROVE StatusParts'
  BY <1>8, <1>10 DEF CliWorks, Says
<1>11. ASSUME CliDies PROVE StatusParts'
  <2>1. Session' = Session /\ cli' = "gone" /\ cliQueue' = {} /\ held' = {} /\ pipe' = pipe
    BY <1>11 DEF CliDies
  <2>2. LastWord' /\ GoneCli'
    BY <2>1 DEF LastWord, GoneCli
  <2>3. QED
    BY <1>1, <2>1, <2>2
<1>12. QED
  BY <1>4, <1>5, <1>6, <1>7, <1>9, <1>10, <1>11 DEF CliStep, CliTakes

-----------------------------------------------------------------------------
LEMMA InitStatus == Init => StatusParts
<1>1. SUFFICES ASSUME Init PROVE StatusParts
  OBVIOUS
<1>2. /\ residence = "resident" /\ status = "running" /\ meta = "running" /\ idleEpoch = None /\ epoch = 1
      /\ line = <<>> /\ delivery.phase = "none" /\ inbox = <<>> /\ processor.at = "ready"
      /\ cli = "working" /\ cliQueue = {} /\ held = {} /\ pipe = <<>>
  BY <1>1 DEF Init, NoDelivery, Ready
<1>3. Reports = {} /\ ~Resumed /\ BusyOrder /\ LastWord
  BY <1>2 DEF Reports, Resumed, BusyOrder, LastWord, ToSet
<1>4. GoneCli /\ PhaseInv /\ ByInv /\ ReportInv /\ SettlingInv /\ RestInv /\ RowInv
  BY <1>2, <1>3 DEF GoneCli, PhaseInv, ByInv, ReportInv, SettlingInv, RestInv, RowInv
<1>5. WorkInv
  BY <1>2, BoundAssumption DEF WorkInv, MayAbandon
<1>6. QED
  BY <1>3, <1>4, <1>5 DEF StatusParts

LEMMA NextStatus == Typed /\ GoneInv /\ StatusParts /\ [Next]_vars => StatusParts'
<1>1. SUFFICES ASSUME Typed, GoneInv, StatusParts, [Next]_vars PROVE StatusParts'
  OBVIOUS
<1>2. CASE UNCHANGED vars
  <2>1. /\ UNCHANGED <<residence, actor, status, meta, epoch, idleEpoch, delivery, metaFailed>>
        /\ UNCHANGED <<cli, cliQueue, held, pipe, inbox, processor, line>>
    BY <1>2 DEF vars, object, sending, inboxVars, cliVars, logVars
  <2>2. ByInv'
    BY <1>1, <2>1 DEF StatusParts, ByInv
  <2>3. QED
    BY <1>1, <2>1, <2>2, ApartStep
<1>3. CASE Next
  BY <1>1, <1>3, UserStatus, HolderStatus, ActorStatus, InboxStatus, LeavingStatus, RenewStatus, CliStatus
  DEF Next, EvictionStep
<1>4. QED
  BY <1>1, <1>2, <1>3

(* StatusFollows: the parts of the invariant hold together throughout.     *)
LEMMA StatusFollows == Spec => [](Typed /\ GoneInv /\ StatusParts)
<1>1. Typed /\ Inv => GoneInv
  BY DEF Inv
<1>2. Init => StatusParts
  BY InitStatus
<1>3. Typed /\ GoneInv /\ StatusParts /\ [Next]_vars => StatusParts'
  BY NextStatus
<1>4. QED
  BY <1>1, <1>2, <1>3, SessionInvariant, PTL DEF Spec

(* RestIsSettled: when nothing is under way and the CLI has reported idle  *)
(* on this connection, the session has left running, and so has its row    *)
(* unless a write of it failed: no report is lost to a delivery that was   *)
(* given up, to a turn that came between, or to the order of the writes.   *)
THEOREM RestIsSettled == Spec => []QuietIsSettled
<1>1. Typed /\ StatusParts => QuietIsSettled
  <2>1. SUFFICES ASSUME Typed, StatusParts, Quiet, idleEpoch # None
                 PROVE  status # "running" /\ (meta # "running" \/ metaFailed)
    BY DEF QuietIsSettled
  <2>2. /\ actor /\ cli = "idle" /\ cliQueue = {} /\ held = {} /\ pipe = <<>> /\ inbox = <<>>
        /\ processor.at = "ready" /\ delivery.phase = "none"
    BY <2>1 DEF Quiet, Ready, Typed, LineOK
  <2>3. ~FrameIn("idle") /\ Reports = {}
    BY <2>2 DEF FrameIn, Reports, ToSet
  <2>4. status # "running"
    BY <2>1, <2>2, <2>3 DEF StatusParts, RestInv, Reported
  <2>5. meta # "running" \/ metaFailed
    BY <2>1, <2>2, <2>4 DEF StatusParts, RowInv
  <2>6. QED
    BY <2>4, <2>5
<1>2. QED
  BY <1>1, StatusFollows, PTL

(* WorkIsShown: a session whose CLI is at work, with all that the CLI said *)
(* handled, is running, and so is its row: a turn that opens while an idle *)
(* is being settled is not overwritten by it.                              *)
THEOREM WorkIsShown == Spec => []WorkIsRunning
<1>1. Typed /\ StatusParts => WorkIsRunning
  <2>1. SUFFICES ASSUME Typed, StatusParts, ~metaFailed, actor, cli = "working", line = <<>>,
                        pipe = <<>>, inbox = <<>>, processor = Ready
                 PROVE  status = "running" /\ meta = "running"
    BY DEF WorkIsRunning
  <2>2. ~FrameIn("working") /\ ~Resumed
    BY <2>1 DEF FrameIn, Resumed, ToSet
  <2>3. processor.at = "ready" /\ delivery.phase = "none"
    BY <2>1 DEF Ready, Typed, LineOK
  <2>4. status = "running"
    BY <2>1, <2>2 DEF StatusParts, WorkInv
  <2>5. meta = "running"
    BY <2>1, <2>2, <2>3, <2>4 DEF StatusParts, RowInv
  <2>6. QED
    BY <2>4, <2>5
<1>2. QED
  BY <1>1, StatusFollows, PTL
=============================================================================
