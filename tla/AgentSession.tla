---------------------------- MODULE AgentSession ----------------------------
(***************************************************************************)
(* One agent session of server/agent_runtime: the session object, its      *)
(* actor, its inbox, the messages queued at the CLI, and the session's     *)
(* persisted status.                                                       *)
(*                                                                         *)
(* Everything in the process is a coroutine of one event loop.  The steps  *)
(* are the pieces between two awaits: a sender inside the send lock, the   *)
(* actor taking one frame or one command, the inbox processor handling one *)
(* item, an eviction.  The CLI is a process of its own, modelled from the  *)
(* frames and commands the code exchanges with it; between its output and  *)
(* the actor lies a pipe.                                                  *)
(*                                                                         *)
(* A message is named by its idempotency key.  Each delivery of it to the  *)
(* CLI carries a new uuid, here the pair of the message and a number.      *)
(***************************************************************************)
EXTENDS Naturals, FiniteSets, SequencesExt

CONSTANTS
  Msg,          \* the messages, by client_key
  None,         \* no epoch
  MaxSend,      \* bound: deliveries before which a user sends or resends
  MaxDelivery,  \* bound: deliveries of all messages
  MaxTurn,      \* bound: turns the CLI opens on its own account
  MaxLife,      \* bound: connections of the session
  MaxLine,      \* bound: requests of users in the send lock's line
  MaxPipe       \* bound: frames unread when the CLI says more

ASSUME BoundAssumption ==
  /\ MaxSend \in Nat /\ MaxDelivery \in Nat /\ MaxTurn \in Nat /\ MaxLife \in Nat /\ MaxLine \in Nat /\ MaxPipe \in Nat
  /\ None \notin Nat

VARIABLES
  residence,    \* "cold", "resident", "leaving" or "closing" (an eviction)
  actor,        \* the actor's task is alive
  status,       \* ManagedSession.status; "ended" for every terminal one
  meta,         \* the status in the session table
  epoch,        \* _running_epoch
  idleEpoch,    \* _cli_idle_epoch
  tray,         \* queued_messages: a message's state there, or "out"
  attempt,      \* the number of the message's last delivery: its cli_uuid
  intent,       \* QueuedMessage.withdrawal
  asking,       \* QueuedMessage.withdrawing: the request and the uuid it saw
  keyHeld,      \* sent_client_keys
  urgent,       \* now_messages_in_flight
  line,         \* the holder of the send lock and, behind it, those who wait
  delivery,     \* where the holder's delivery is
  commands,     \* the actor's command queue
  reply,        \* the outcome of the withdrawal of a message
  inbox,        \* items for the inbox processor
  processor,    \* what the inbox processor is awaiting
  cli,          \* the CLI: "gone", "idle" or "working"
  cliQueue,     \* deliveries waiting in the CLI
  held,         \* deliveries the CLI took from its queue and has not started
  open,         \* deliveries started in the turn at work
  pipe,         \* frames the actor has not read
  turns,        \* turns the CLI opened on its own account
  lives,        \* connections made so far
  heard,        \* messages this session object saw the CLI start
  recorded,     \* messages in the event log
  metaFailed    \* a write of the status has failed

object == <<residence, actor, status, epoch, idleEpoch>>
trayVars == <<tray, attempt, intent, asking, keyHeld, urgent>>
sending == <<line, delivery>>
wire == <<commands, reply>>
inboxVars == <<inbox, processor>>
cliVars == <<cli, cliQueue, held, open, pipe, turns>>
logVars == <<heard, recorded, metaFailed>>
vars == <<object, meta, trayVars, sending, wire, inboxVars, cliVars, lives, logVars>>

NoAsk == [for |-> "none", uuid |-> 0]
NoDelivery == [phase |-> "none", from |-> 0, busy |-> FALSE]
Ready == [at |-> "ready", epoch |-> 0]
Job(op, m, by) == [op |-> op, msg |-> m, by |-> by, uuid |-> attempt[m]]

Uuid(m) == <<m, attempt[m]>>
InTray(m) == tray[m] # "out"
Holds(op) == line # <<>> /\ Head(line).op \in op

(* A new session in the turn of the message that made it, which does not   *)
(* pass through the tray.                                                  *)
Init ==
  /\ residence = "resident" /\ actor = TRUE /\ status = "running" /\ meta = "running"
  /\ epoch = 1 /\ idleEpoch = None
  /\ tray = [m \in Msg |-> "out"]
  /\ attempt = [m \in Msg |-> 0]
  /\ intent = [m \in Msg |-> "none"]
  /\ asking = [m \in Msg |-> NoAsk]
  /\ keyHeld = [m \in Msg |-> FALSE]
  /\ urgent = {}
  /\ line = <<>> /\ delivery = NoDelivery
  /\ commands = <<>> /\ reply = [m \in Msg |-> "none"]
  /\ inbox = <<>> /\ processor = Ready
  /\ cli = "working" /\ cliQueue = {} /\ held = {} /\ open = {} /\ pipe = <<>> /\ turns = 0
  /\ lives = 1 /\ heard = {} /\ recorded = {} /\ metaFailed = FALSE

-----------------------------------------------------------------------------
(* Pieces of steps.                                                        *)

(* enter_running: the session is at work from here on, and every idle read *)
(* before this is out of date.                                             *)
EnterRunning ==
  /\ status' = "running"
  /\ epoch' = epoch + 1

(* A slip: the next holder finds the delivery of the last one.             *)
LeaveLineSlip ==
  /\ line' = Tail(line)
  /\ delivery' = delivery
  /\ processor' = IF Head(line).by = "inbox" THEN Ready ELSE processor

(* The holder leaves the send lock; a redelivery by the inbox lets it go on. *)
LeaveLine ==
  /\ line' = Tail(line)
  /\ delivery' = NoDelivery
  /\ processor' = IF Head(line).by = "inbox" THEN Ready ELSE processor

(* A slip: the key of what was never accepted is kept.                     *)
DiscardSlip(M) ==
  /\ tray' = [m \in Msg |-> IF m \in M THEN "out" ELSE tray[m]]
  /\ keyHeld' = keyHeld

(* discard_queued_message: out of the tray, and the key is free again.     *)
Discard(M) ==
  /\ tray' = [m \in Msg |-> IF m \in M THEN "out" ELSE tray[m]]
  /\ keyHeld' = [m \in Msg |-> IF m \in M THEN FALSE ELSE keyHeld[m]]

(* on_failure of a delivery: a new message is taken back, one that had     *)
(* been accepted before stays in the tray, unsent.                         *)
Undo(j) ==
  /\ urgent' = IF j.op = "now" THEN urgent \ {Uuid(j.msg)} ELSE urgent
  /\ IF j.op = "send"
       THEN Discard({j.msg})
       ELSE /\ tray' = [tray EXCEPT ![j.msg] = IF @ = "out" THEN @ ELSE "unsent"]
            /\ UNCHANGED keyHeld

(* _redeliver_after_cancel up to its wait for the lock.                    *)
Requeue(m, op, by) ==
  /\ attempt' = [attempt EXCEPT ![m] = @ + 1]
  /\ intent' = [intent EXCEPT ![m] = "none"]
  /\ line' = Append(line, [op |-> op, msg |-> m, by |-> by, uuid |-> attempt[m] + 1])

(* A slip: a message that leaves with the CLI keeps being called queued.   *)
UnsentTraySlip == tray

(* mark_queued_messages_unsent.                                            *)
UnsentTray == [m \in Msg |-> IF tray[m] = "queued" THEN "unsent" ELSE tray[m]]

(* The actor's task ends: its commands are answered with an error, and the *)
(* inbox is told, behind everything the actor had read.                    *)
ActorEnds(failed) ==
  /\ actor' = FALSE
  /\ commands' = <<>>
  /\ pipe' = <<>>
  /\ inbox' = Append(inbox, [kind |-> "exit", failed |-> failed])
  /\ delivery' = IF delivery.phase = "query"
                   THEN [delivery EXCEPT !.phase = "refused"] ELSE delivery
  /\ reply' = [m \in Msg |->
       IF \E i \in DOMAIN commands : commands[i].kind = "cancel" /\ commands[i].of[1] = m
         THEN "error" ELSE reply[m]]
  /\ cli' = "gone" /\ cliQueue' = {} /\ held' = {} /\ open' = {}

-----------------------------------------------------------------------------
(* Users.                                                                  *)

CanQueue == Len(line) < MaxLine
Deliveries ==
  MapThenSumSet(LAMBDA m : attempt[m], Msg)
    + Cardinality({i \in DOMAIN line : line[i].op \in {"send", "resend"}})

Enqueue(op, m) == line' = Append(line, Job(op, m, "user"))

(* send_message of m, or its retry with the same key, up to the lock.      *)
Send(m) ==
  /\ residence = "resident" /\ actor
  /\ CanQueue /\ Deliveries < MaxSend
  /\ Enqueue("send", m)
  /\ UNCHANGED <<object, meta, trayVars, delivery, wire, inboxVars, cliVars, lives, logVars>>

(* resend_queued_message of a message that was not sent.                   *)
Resend(m) ==
  /\ residence # "cold" /\ actor
  /\ tray[m] = "unsent"
  /\ CanQueue /\ Deliveries < MaxSend
  /\ Enqueue("resend", m)
  /\ UNCHANGED <<object, meta, trayVars, delivery, wire, inboxVars, cliVars, lives, logVars>>

(* withdraw_queued_message of a message that is not at the CLI.            *)
WithdrawUnsent(m) ==
  /\ residence # "cold"
  /\ tray[m] = "unsent"
  /\ asking[m] = NoAsk
  /\ Discard({m})
  /\ intent' = [intent EXCEPT ![m] = "drop"]
  /\ UNCHANGED <<object, meta, attempt, asking, urgent, sending, wire, inboxVars, cliVars,
                 lives, logVars>>

(* withdraw_queued_message and send_queued_message_now, up to the lock: a  *)
(* message whose withdrawal the CLI refused is only given the new intent.  *)
Ask(m, why) ==
  /\ residence # "cold"
  /\ tray[m] = "queued"
  /\ asking[m] = NoAsk
  /\ why = "now" => Deliveries < MaxDelivery
  /\ intent' = [intent EXCEPT ![m] = why]
  /\ IF intent[m] # "none"
       THEN UNCHANGED <<asking, line>>
       ELSE /\ CanQueue
            /\ asking' = [asking EXCEPT ![m] = [for |-> why, uuid |-> attempt[m]]]
            /\ Enqueue("cancel", m)
  /\ UNCHANGED <<object, meta, tray, attempt, keyHeld, urgent, delivery, wire, inboxVars,
                 cliVars, lives, logVars>>

(* _cancel_in_cli inside the lock: the command is enqueued and the lock is *)
(* left before the CLI answers.  It names the message that was asked about *)
(* by the uuid it has now, or had last if a new one took its key.          *)
AskCli ==
  /\ Holds({"cancel"})
  /\ LET m == Head(line).msg
         of == IF asking[m].for = "lost" THEN <<m, asking[m].uuid>> ELSE Uuid(m) IN
       IF actor
         THEN /\ commands' = Append(commands, [kind |-> "cancel", of |-> of])
              /\ UNCHANGED reply
         ELSE /\ reply' = [reply EXCEPT ![m] = "error"]
              /\ UNCHANGED commands
  /\ LeaveLine
  /\ UNCHANGED <<object, meta, trayVars, inbox, cliVars, lives, logVars>>

Answered(m) ==
  /\ reply' = [reply EXCEPT ![m] = "none"]
  /\ asking' = [asking EXCEPT ![m] = NoAsk]

(* The withdrawal was refused, could not be asked, or its message is gone. *)
AnswerNo(m) ==
  /\ \/ reply[m] \in {"no", "error"}
     \/ reply[m] = "yes" /\ (~InTray(m) \/ asking[m].for = "lost")
  /\ Answered(m)
  /\ intent' = IF reply[m] = "error" /\ asking[m].for # "lost"
                 THEN [intent EXCEPT ![m] = "none"] ELSE intent
  /\ UNCHANGED <<object, meta, tray, attempt, keyHeld, urgent, sending, commands, inboxVars,
                 cliVars, lives, logVars>>

(* The CLI gave the message back and the user wants it gone.               *)
AnswerDrop(m) ==
  /\ reply[m] = "yes" /\ asking[m].for = "drop" /\ InTray(m)
  /\ Answered(m)
  /\ Discard({m})
  /\ UNCHANGED <<object, meta, attempt, intent, urgent, sending, commands, inboxVars, cliVars,
                 lives, logVars>>

(* The CLI gave the message back and the user wants it first: it is sent   *)
(* again with priority, unless the inbox has already done so.              *)
AnswerNow(m) ==
  /\ reply[m] = "yes" /\ asking[m].for = "now" /\ InTray(m)
  /\ Answered(m)
  /\ IF asking[m].uuid = attempt[m]
       THEN Requeue(m, "now", "user")
       ELSE UNCHANGED <<attempt, intent, line>>
  /\ UNCHANGED <<object, meta, tray, keyHeld, urgent, delivery, commands, inboxVars, cliVars,
                 lives, logVars>>

-----------------------------------------------------------------------------
(* The holder of the send lock.                                            *)

(* A slip: a key that is in neither the tray nor the log is taken as free. *)
KnownSlip(m) == (keyHeld[m] /\ InTray(m)) \/ m \in recorded

(* A slip: only the log is searched for the key.                           *)
KnownLogSlip(m) == m \in recorded

(* _find_sent_message: in the tray, in the log, or heard and not recorded, *)
(* which is an error to the sender; in none of these cases is it sent.     *)
Known(m) == keyHeld[m] \/ m \in recorded

(* A retry of what is known is answered.                                   *)
AnswerRetry ==
  /\ Holds({"send"}) /\ delivery.phase = "none"
  /\ Known(Head(line).msg)
  /\ LeaveLine
  /\ UNCHANGED <<object, meta, trayVars, wire, inbox, cliVars, lives, logVars>>

(* _deliver_queued_message up to its first write.                          *)
Begin ==
  /\ delivery' = [phase |-> "meta", from |-> epoch, busy |-> status = "running"]
  /\ EnterRunning
  /\ UNCHANGED <<residence, actor, idleEpoch, meta, line, wire, inboxVars, cliVars, lives, logVars>>

(* What the search of the log read cannot change before the message is     *)
(* registered: an append is made for messages in the tray only.            *)
RegisterSend ==
  /\ Holds({"send"}) /\ delivery.phase = "none"
  /\ LET m == Head(line).msg IN
       /\ ~Known(m)
       /\ tray' = [tray EXCEPT ![m] = "queued"]
       /\ attempt' = [attempt EXCEPT ![m] = @ + 1]
       /\ intent' = [intent EXCEPT ![m] = "none"]
       /\ keyHeld' = [keyHeld EXCEPT ![m] = TRUE]
       /\ asking' = [asking EXCEPT ![m] = IF @ = NoAsk THEN @ ELSE [@ EXCEPT !.for = "lost"]]
  /\ UNCHANGED urgent
  /\ Begin

(* resend_queued_message inside the lock.                                  *)
RegisterResend ==
  /\ Holds({"resend"}) /\ delivery.phase = "none"
  /\ LET m == Head(line).msg IN
       /\ tray[m] = "unsent"
       /\ tray' = [tray EXCEPT ![m] = "queued"]
       /\ attempt' = [attempt EXCEPT ![m] = @ + 1]
  /\ UNCHANGED <<intent, asking, keyHeld, urgent>>
  /\ Begin

SameObject(j) == InTray(j.msg) /\ attempt[j.msg] = j.uuid

(* _redeliver_after_cancel inside the lock.                                *)
RegisterAgain ==
  /\ Holds({"now", "again"}) /\ delivery.phase = "none"
  /\ SameObject(Head(line))
  /\ urgent' = IF Head(line).op = "now" THEN urgent \union {Uuid(Head(line).msg)} ELSE urgent
  /\ UNCHANGED <<tray, attempt, intent, asking, keyHeld>>
  /\ Begin

(* The message left the tray, or was sent, while the request waited.       *)
GiveUp ==
  /\ delivery.phase = "none"
  /\ \/ Holds({"resend"}) /\ tray[Head(line).msg] # "unsent"
     \/ Holds({"now", "again"}) /\ ~SameObject(Head(line))
  /\ LeaveLine
  /\ UNCHANGED <<object, meta, trayVars, wire, inbox, cliVars, lives, logVars>>

(* The status is written, and send_query gives the message to the actor.   *)
WriteRunning ==
  /\ delivery.phase = "meta"
  /\ meta' = "running"
  /\ EnterRunning
  /\ IF actor
       THEN /\ commands' = Append(commands, [kind |-> "query", of |-> Uuid(Head(line).msg)])
            /\ delivery' = [delivery EXCEPT !.phase = "query"]
       ELSE /\ delivery' = [delivery EXCEPT !.phase = "refused"]
            /\ UNCHANGED commands
  /\ UNCHANGED <<residence, actor, idleEpoch, trayVars, line, reply, inboxVars, cliVars, lives,
                 logVars>>

(* A slip: a delivery that was given up is not undone for a turn at work.  *)
AbandonRunningSlip == UNCHANGED <<idleEpoch, inbox>>

(* abandon_running: an idle of the CLI that this delivery made look out of *)
(* date is reported again.                                                 *)
AbandonRunning ==
  IF epoch = delivery.from + 1 /\ idleEpoch \in {delivery.from, delivery.from + 1}
    THEN /\ idleEpoch' = epoch
         /\ inbox' = Append(inbox, [kind |-> "idle", epoch |-> epoch])
    ELSE UNCHANGED <<idleEpoch, inbox>>

(* The status cannot be written: nothing was sent.  Bound: once.           *)
MetaFails ==
  /\ delivery.phase = "meta" /\ ~metaFailed
  /\ metaFailed' = TRUE
  /\ Undo(Head(line))
  /\ IF delivery.busy
       THEN /\ AbandonRunning
            /\ LeaveLine
            /\ UNCHANGED status
       ELSE /\ status' = "ended"
            /\ delivery' = [delivery EXCEPT !.phase = "failing"]
            /\ UNCHANGED <<idleEpoch, inbox, line, processor>>
  /\ UNCHANGED <<residence, actor, epoch, meta, attempt, intent, asking, wire, cliVars, lives,
                 heard, recorded>>

(* The message could not be written to the CLI.  In a turn at work the end *)
(* of the actor is left to settle the session.                             *)
Refused ==
  /\ delivery.phase = "refused"
  /\ status' = "ended"
  /\ Undo(Head(line))
  /\ IF delivery.busy
       THEN LeaveLine
       ELSE /\ delivery' = [delivery EXCEPT !.phase = "failing"]
            /\ UNCHANGED <<line, processor>>
  /\ UNCHANGED <<residence, actor, epoch, idleEpoch, meta, attempt, intent, asking, wire, inbox,
                 cliVars, lives, logVars>>

FailureWritten ==
  /\ delivery.phase = "failing"
  /\ meta' = "ended"
  /\ LeaveLine
  /\ UNCHANGED <<object, trayVars, wire, inbox, cliVars, lives, logVars>>

-----------------------------------------------------------------------------
(* The actor.  Who waits for an answer of the CLI goes on before the actor *)
(* takes its next frame or command.                                        *)

Answers == {m \in Msg : reply[m] \in {"yes", "no"}}

(* A slip: the actor goes on at once.                                      *)
ActorFreeSlip == actor

ActorFree == actor /\ Answers = {}

Frame(kind) == pipe # <<>> /\ Head(pipe).kind \in kind
Command(kind) == commands # <<>> /\ Head(commands).kind = kind
Notice(kind) == inbox' = Append(inbox, [kind |-> kind, epoch |-> epoch])

ReadIdle ==
  /\ ActorFree /\ Frame({"idle"})
  /\ pipe' = Tail(pipe)
  /\ idleEpoch' = epoch
  /\ Notice("idle")
  /\ UNCHANGED <<residence, actor, status, epoch, meta, trayVars, sending, wire, processor, cli,
                 cliQueue, held, open, turns, lives, logVars>>

(* A slip: only a session that had left running counts the new turn.       *)
ReadWorkingSlip ==
  /\ ActorFree /\ Frame({"working"})
  /\ pipe' = Tail(pipe)
  /\ IF status = "running"
       THEN UNCHANGED <<status, epoch, inbox>>
       ELSE EnterRunning /\ Notice("busy")
  /\ UNCHANGED <<residence, actor, idleEpoch, meta, trayVars, sending, wire, processor, cli,
                 cliQueue, held, open, turns, lives, logVars>>

ReadWorking ==
  /\ ActorFree /\ Frame({"working"})
  /\ pipe' = Tail(pipe)
  /\ EnterRunning
  /\ IF status = "running" THEN UNCHANGED inbox ELSE Notice("busy")
  /\ UNCHANGED <<residence, actor, idleEpoch, meta, trayVars, sending, wire, processor, cli,
                 cliQueue, held, open, turns, lives, logVars>>

(* What became of a delivery, for the inbox to settle if it is the last    *)
(* one of a message in the tray.                                           *)
ReadLifecycle ==
  /\ ActorFree /\ Frame({"started", "cancelled", "discarded"})
  /\ pipe' = Tail(pipe)
  /\ LET frame == Head(pipe)
         m == frame.of[1] IN
       /\ urgent' = urgent \ {frame.of}
       /\ inbox' = IF InTray(m) /\ Uuid(m) = frame.of
                     THEN Append(inbox, [kind |-> frame.kind, of |-> frame.of,
                                         preempted |-> urgent # {}])
                     ELSE inbox
  /\ UNCHANGED <<object, meta, tray, attempt, intent, asking, keyHeld, sending, wire, processor,
                 cli, cliQueue, held, open, turns, lives, logVars>>

WriteQuery ==
  /\ ActorFree /\ Command("query") /\ cli # "gone"
  /\ commands' = Tail(commands)
  /\ cliQueue' = cliQueue \union {Head(commands).of}
  /\ LeaveLine
  /\ UNCHANGED <<object, meta, trayVars, reply, inbox, cli, held, open, pipe, turns, lives,
                 logVars>>

(* The CLI answers: it still had the message in its queue, or not.  An     *)
(* idle CLI takes what is written to it before it answers anything.        *)
AskedToCancel ==
  /\ ActorFree /\ Command("cancel")
  /\ cli = "idle" => Head(commands).of \notin cliQueue
  /\ commands' = Tail(commands)
  /\ LET u == Head(commands).of
         had == u \in cliQueue IN
       /\ reply' = [reply EXCEPT ![u[1]] =
            IF cli = "gone" THEN "error" ELSE IF had THEN "yes" ELSE "no"]
       /\ cliQueue' = cliQueue \ {u}
       /\ pipe' = IF had THEN Append(pipe, [kind |-> "cancelled", of |-> u]) ELSE pipe
  /\ UNCHANGED <<object, meta, trayVars, sending, inboxVars, cli, held, open, turns, lives,
                 logVars>>

(* A write fails, or the output ends: the actor fails.                     *)
ActorFails ==
  /\ ActorFree /\ cli = "gone"
  /\ Command("query") \/ pipe = <<>>
  /\ ActorEnds(TRUE)
  /\ UNCHANGED <<residence, status, epoch, idleEpoch, meta, trayVars, line, processor, turns,
                 lives, logVars>>

(* What the CLI still had to say is not read.                              *)
Disconnect ==
  /\ ActorFree /\ Command("disconnect")
  /\ ActorEnds(FALSE)
  /\ UNCHANGED <<residence, status, epoch, idleEpoch, meta, trayVars, line, processor, turns,
                 lives, logVars>>

-----------------------------------------------------------------------------
(* The inbox processor.                                                    *)

InboxReady(kind) == processor = Ready /\ inbox # <<>> /\ Head(inbox).kind \in kind
Take == inbox' = Tail(inbox)

Current(e) == status = "running" /\ e = epoch

(* _settle_cli_idle: the session leaves running; the write comes later.    *)
SettleIdle ==
  /\ InboxReady({"idle"})
  /\ Take
  /\ LET e == Head(inbox).epoch IN
       IF Current(e)
         THEN /\ status' = "ended"
              /\ processor' = [at |-> "settling", epoch |-> e]
         ELSE UNCHANGED <<status, processor>>
  /\ UNCHANGED <<residence, actor, epoch, idleEpoch, meta, trayVars, sending, wire, cliVars,
                 lives, logVars>>

IdleWritten ==
  /\ processor.at = "settling"
  /\ meta' = "ended"
  /\ processor' = IF processor.epoch # epoch /\ status = "running"
                    THEN [processor EXCEPT !.at = "resettling"] ELSE Ready
  /\ UNCHANGED <<object, trayVars, sending, wire, inbox, cliVars, lives, logVars>>

RunningRewritten ==
  /\ processor.at = "resettling"
  /\ meta' = "running"
  /\ processor' = Ready
  /\ UNCHANGED <<object, trayVars, sending, wire, inbox, cliVars, lives, logVars>>

(* _persist_cli_resumed.                                                   *)
SettleBusy ==
  /\ InboxReady({"busy"})
  /\ Take
  /\ meta' = "running"
  /\ UNCHANGED <<object, trayVars, sending, wire, processor, cliVars, lives, logVars>>

(* A slip: only what was started is settled.                               *)
SettlesSlip(kind) ==
  InboxReady(kind) /\ kind = {"started"} /\ Uuid(Head(inbox).of[1]) = Head(inbox).of

Settles(kind) ==
  InboxReady(kind) /\ InTray(Head(inbox).of[1]) /\ Uuid(Head(inbox).of[1]) = Head(inbox).of

(* The message is in the conversation: into the log, then out of the tray. *)
(* Its key is kept.                                                        *)
SettleStarted ==
  /\ Settles({"started"})
  /\ Take
  /\ LET m == Head(inbox).of[1] IN
       /\ recorded' \in {recorded, recorded \union {m}}
       /\ heard' = heard \union {m}
       /\ tray' = [tray EXCEPT ![m] = "out"]
  /\ UNCHANGED <<object, meta, attempt, intent, asking, keyHeld, urgent, sending, wire, processor,
                 cliVars, lives, metaFailed>>

(* The CLI let go of it: sent again if the user wants it first or if it    *)
(* fell with a turn that another one cut short, and gone otherwise.        *)
SettleUnstarted ==
  /\ Settles({"cancelled", "discarded"})
  /\ Take
  /\ LET item == Head(inbox)
         m == item.of[1]
         preempted == intent[m] = "none" /\ item.preempted /\ item.kind = "cancelled" IN
       IF intent[m] = "now" \/ preempted
         THEN /\ Requeue(m, IF preempted THEN "again" ELSE "now", "inbox")
              /\ processor' = [at |-> "redelivering", epoch |-> 0]
              /\ UNCHANGED <<tray, keyHeld>>
         ELSE /\ Discard({m})
              /\ UNCHANGED <<attempt, intent, line, processor>>
  /\ UNCHANGED <<object, meta, asking, urgent, delivery, wire, cliVars, lives, logVars>>

SettleNothing ==
  /\ InboxReady({"started", "cancelled", "discarded"})
  /\ ~Settles({"started", "cancelled", "discarded"})
  /\ Take
  /\ UNCHANGED <<object, meta, trayVars, sending, wire, processor, cliVars, lives, logVars>>

(* The notice of the actor's end: no message is at a CLI any more, and a   *)
(* turn at work ends here.                                                 *)
SettleExit ==
  /\ InboxReady({"exit"})
  /\ Take
  /\ tray' = UnsentTray
  /\ intent' = [m \in Msg |-> IF tray[m] = "queued" THEN "none" ELSE intent[m]]
  /\ IF Head(inbox).failed \/ status = "running"
       THEN /\ status' = "ended"
            /\ processor' = [at |-> "ending", epoch |-> 0]
       ELSE /\ processor' = [at |-> "done", epoch |-> 0]
            /\ UNCHANGED status
  /\ UNCHANGED <<residence, actor, epoch, idleEpoch, meta, attempt, asking, keyHeld, urgent,
                 sending, wire, cliVars, lives, logVars>>

EndWritten ==
  /\ processor.at = "ending"
  /\ meta' = "ended"
  /\ processor' = [processor EXCEPT !.at = "done"]
  /\ UNCHANGED <<object, trayVars, sending, wire, inbox, cliVars, lives, logVars>>

-----------------------------------------------------------------------------
(* Connections and evictions.                                              *)

(* Evictions of a session at rest: idle too long, the oldest at the limit  *)
(* of sessions, or found by the patrol.                                    *)
Evict ==
  /\ residence = "resident" /\ status # "running"
  /\ residence' = "leaving"
  /\ commands' = IF actor THEN Append(commands, [kind |-> "disconnect"]) ELSE commands
  /\ UNCHANGED <<actor, status, epoch, idleEpoch, meta, trayVars, sending, reply, inboxVars,
                 cliVars, lives, logVars>>

(* send_disconnect returns.                                                *)
Disconnected ==
  /\ residence = "leaving" /\ ~actor
  /\ residence' = "closing"
  /\ status' = IF status = "running" THEN status ELSE "closed"
  /\ UNCHANGED <<actor, epoch, idleEpoch, meta, trayVars, sending, wire, inboxVars, cliVars,
                 lives, logVars>>

Drained == line = <<>> /\ processor.at = "done" /\ \A m \in Msg : reply[m] = "none"

(* The rest of the session object's fields, as a new object has them.      *)
NewObject ==
  /\ epoch' = 0 /\ idleEpoch' = None
  /\ intent' = [m \in Msg |-> "none"]
  /\ urgent' = {}
  /\ inbox' = <<>> /\ processor' = Ready

(* The eviction ends, after the requests that use the object have.         *)
Evicted ==
  /\ residence = "closing" /\ Drained
  /\ residence' = "cold"
  /\ Discard(Msg)
  /\ meta' = IF status = "closed" THEN meta ELSE "ended"
  /\ status' = "ended"
  /\ heard' = {}
  /\ NewObject
  /\ UNCHANGED <<actor, attempt, asking, sending, wire, cliVars, lives, recorded, metaFailed>>

(* The actor starts, with a CLI of its own.                                *)
StartActor ==
  /\ lives < MaxLife
  /\ lives' = lives + 1
  /\ actor' = TRUE
  /\ status' = meta
  /\ cli' = "idle"
  /\ UNCHANGED <<cliQueue, held, open, pipe, turns>>

(* get_or_connect of a cold session.                                       *)
Connect ==
  /\ residence = "cold"
  /\ residence' = "resident"
  /\ StartActor
  /\ UNCHANGED <<epoch, idleEpoch, meta, trayVars, sending, wire, inboxVars, logVars>>

(* get_or_connect when the actor has ended: the tray and the keys go from  *)
(* the old object to the new one.                                          *)
Reconnect ==
  /\ residence = "resident" /\ ~actor /\ Drained
  /\ StartActor
  /\ tray' = UnsentTray
  /\ NewObject
  /\ UNCHANGED <<residence, meta, attempt, asking, keyHeld, sending, wire, logVars>>

(* The new connection fails: the tray goes with the old one.               *)
ReconnectFails ==
  /\ residence = "resident" /\ ~actor /\ Drained
  /\ residence' = "cold"
  /\ status' = "ended"
  /\ Discard(Msg)
  /\ heard' = {}
  /\ NewObject
  /\ UNCHANGED <<actor, meta, attempt, asking, sending, wire, cliVars, lives, recorded, metaFailed>>

-----------------------------------------------------------------------------
(* The CLI, as the code talks to it.                                       *)

Says(frames) == Len(pipe) < MaxPipe /\ pipe' = pipe \o frames
Session == <<object, meta, trayVars, sending, wire, inboxVars, lives, logVars>>

CliFetch(u) ==
  /\ cliQueue' = cliQueue \ {u}
  /\ held' = held \union {u}
  /\ UNCHANGED <<cli, open, pipe, turns, Session>>

(* A message is taken into the turn at work, or opens one.                 *)
CliStart(u) ==
  /\ held' = held \ {u}
  /\ open' = open \union {u}
  /\ cli' = "working"
  /\ Says((IF cli = "idle" THEN <<[kind |-> "working"]>> ELSE <<>>)
            \o <<[kind |-> "started", of |-> u]>>)
  /\ UNCHANGED <<cliQueue, turns, Session>>

(* A message to be sent first cuts the turn at work short.                 *)
Preempting == urgent \intersect (cliQueue \union held) # {}

(* A message it fetched falls with the turn, or the CLI has no use for it. *)
CliDrops(u, kind) ==
  /\ cli = "working" /\ Deliveries < MaxDelivery
  /\ kind = "cancelled" => Preempting /\ u \notin urgent
  /\ held' = held \ {u}
  /\ Says(<<[kind |-> kind, of |-> u]>>)
  /\ UNCHANGED <<cli, cliQueue, open, turns, Session>>

(* So is a message that had started, if its turn was cut short.            *)
CliAborts(u) ==
  /\ Preempting
  /\ open' = open \ {u}
  /\ Says(<<[kind |-> "cancelled", of |-> u]>>)
  /\ UNCHANGED <<cli, cliQueue, held, turns, Session>>

(* A task in the background opens a turn.                                  *)
CliWorks ==
  /\ cli = "idle" /\ turns < MaxTurn
  /\ turns' = turns + 1
  /\ cli' = "working"
  /\ Says(<<[kind |-> "working"]>>)
  /\ UNCHANGED <<cliQueue, held, open, Session>>

CliIdles ==
  /\ cli = "working" /\ cliQueue = {} /\ held = {}
  /\ cli' = "idle" /\ open' = {}
  /\ Says(<<[kind |-> "idle"]>>)
  /\ UNCHANGED <<cliQueue, held, turns, Session>>

CliDies ==
  /\ cli # "gone"
  /\ cli' = "gone" /\ cliQueue' = {} /\ held' = {} /\ open' = {}
  /\ UNCHANGED <<pipe, turns, Session>>

-----------------------------------------------------------------------------
UserStep ==
  \/ \E m \in Msg : Send(m) \/ Resend(m) \/ WithdrawUnsent(m)
  \/ \E m \in Msg, why \in {"drop", "now"} : Ask(m, why)

AnswerStep == \E m \in Msg : AnswerNo(m) \/ AnswerDrop(m) \/ AnswerNow(m)

Delivered == AskCli \/ AnswerRetry \/ RegisterSend \/ RegisterResend \/ RegisterAgain \/ GiveUp
               \/ WriteRunning \/ Refused \/ FailureWritten
HolderStep == Delivered \/ MetaFails

ActorReads == ReadIdle \/ ReadWorking \/ ReadLifecycle
ActorTakesCommand == WriteQuery \/ AskedToCancel \/ Disconnect
ActorStep == ActorReads \/ ActorTakesCommand \/ ActorFails

InboxStep == SettleIdle \/ IdleWritten \/ RunningRewritten \/ SettleBusy \/ SettleStarted
               \/ SettleUnstarted \/ SettleNothing \/ SettleExit \/ EndWritten

EvictionStep == Disconnected \/ Evicted

CliTakes == \/ \E u \in cliQueue : CliFetch(u)
            \/ \E u \in held : CliStart(u) \/ \E kind \in {"cancelled", "discarded"} : CliDrops(u, kind)

CliStep == CliTakes \/ CliIdles \/ CliWorks \/ CliDies \/ \E u \in open : CliAborts(u)

Next ==
  \/ UserStep \/ AnswerStep \/ HolderStep \/ ActorStep \/ InboxStep
  \/ Evict \/ EvictionStep \/ Connect \/ Reconnect \/ ReconnectFails
  \/ CliStep

Spec == Init /\ [][Next]_vars

(* The event loop runs what can run: the actor waits for a frame and for a *)
(* command at once and neglects neither.  A live CLI takes its messages    *)
(* and ends its turns.  Nothing obliges users, evictions, failures of a    *)
(* write or the CLI's death.                                               *)
FairSpec ==
  /\ Spec
  /\ WF_vars(AnswerStep) /\ WF_vars(HolderStep) /\ WF_vars(InboxStep)
  /\ WF_vars(ActorReads) /\ WF_vars(ActorTakesCommand) /\ WF_vars(ActorFails)
  /\ WF_vars(EvictionStep) /\ WF_vars(CliTakes) /\ WF_vars(CliIdles)

-----------------------------------------------------------------------------
TypeOK ==
  /\ residence \in {"cold", "resident", "leaving", "closing"}
  /\ actor \in BOOLEAN
  /\ status \in {"running", "ended", "closed"} /\ meta \in {"running", "ended"}
  /\ epoch \in Nat /\ idleEpoch \in Nat \union {None}
  /\ tray \in [Msg -> {"out", "queued", "unsent"}]
  /\ attempt \in [Msg -> Nat] /\ keyHeld \in [Msg -> BOOLEAN]
  /\ intent \in [Msg -> {"none", "drop", "now"}]
  /\ \A m \in Msg : asking[m].for \in {"none", "drop", "now", "lost"}
  /\ delivery.phase \in {"none", "meta", "query", "refused", "failing"}
  /\ delivery.phase # "none" => line # <<>>
  /\ reply \in [Msg -> {"none", "yes", "no", "error"}]
  /\ processor.at \in {"ready", "settling", "resettling", "redelivering", "ending", "done"}
  /\ cli \in {"gone", "idle", "working"}
  /\ heard \subseteq Msg /\ recorded \subseteq Msg /\ metaFailed \in BOOLEAN

(* NoHiddenMessage: while the actor is alive, whatever the CLI may still   *)
(* start is a message the user sees as queued, under the uuid the session  *)
(* knows; so what was withdrawn, given up or sent anew never runs.         *)
NoHiddenMessage ==
  actor => \A u \in cliQueue \union held : tray[u[1]] = "queued" /\ Uuid(u[1]) = u

(* HeardOnce: a message the CLI started is not sent to it again: it is out *)
(* of the tray for good, whatever retries, withdrawals and cancelled       *)
(* frames still come.                                                      *)
HeardOnce == \A m \in heard : ~InTray(m) /\ ~\E u \in cliQueue \union held : u[1] = m

(* KeyMeansHeard: a key held for a message that is in neither the tray nor *)
(* the log means that the CLI started it and the append failed, which is   *)
(* what _find_sent_message tells a retry.                                  *)
KeyMeansHeard == \A m \in Msg : keyHeld[m] /\ ~InTray(m) => m \in heard

(* NoCliNoQueue: when the inbox has handled the end of the actor, no       *)
(* message is called queued, except by a request that is still using the   *)
(* object and will fail.                                                   *)
NoCliNoQueue ==
  residence # "cold" /\ processor.at = "done" /\ line = <<>>
    => \A m \in Msg : tray[m] # "queued"

(* QuietIsSettled: when nothing is under way and the CLI has reported idle *)
(* on this connection, the session has left running, and so has its row.   *)
Quiet ==
  /\ residence = "resident" /\ actor
  /\ line = <<>> /\ commands = <<>> /\ pipe = <<>> /\ inbox = <<>> /\ processor = Ready
  /\ cli = "idle" /\ cliQueue = {} /\ held = {}

QuietIsSettled ==
  Quiet /\ idleEpoch # None => status # "running" /\ (meta # "running" \/ metaFailed)

(* WorkIsRunning: a session at work, with everything the CLI said handled, *)
(* is running, and so is its row.                                          *)
WorkIsRunning ==
  /\ ~metaFailed
  /\ residence = "resident" /\ actor /\ cli = "working"
  /\ line = <<>> /\ commands = <<>> /\ pipe = <<>> /\ inbox = <<>> /\ processor = Ready
  => status = "running" /\ meta = "running"

(* WithdrawalHasIntent: the assertion of withdraw_queued_message.          *)
WithdrawalHasIntent ==
  \A m \in Msg : reply[m] = "yes" /\ asking[m].for = "drop" /\ InTray(m) => intent[m] # "none"

(* TrayEmpties: no message stays queued forever: the CLI starts it, it is  *)
(* withdrawn, or it is left unsent for the user to decide.                 *)
TrayEmpties == \A m \in Msg : tray[m] = "queued" ~> tray[m] # "queued"

(* MetaSettles: when the connection has ended and nothing is under way, the*)
(* row of the session no longer says running.                              *)
MetaSettles ==
  residence = "resident" /\ ~actor /\ Drained => meta # "running"
=============================================================================
