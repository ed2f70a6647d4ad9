------------------------ MODULE AgentSession_proofs -------------------------
(***************************************************************************)
(* Theorems about one agent session, for every number of messages and any  *)
(* number of deliveries, turns and connections.                            *)
(***************************************************************************)
EXTENDS AgentSession, TLAPS

-----------------------------------------------------------------------------
(* Sequences and the sets of their elements.                               *)

LEMMA AppendFacts ==
  ASSUME NEW S, NEW s \in Seq(S), NEW x \in S
  PROVE  /\ Append(s, x) \in Seq(S) /\ Append(s, x) # <<>>
         /\ Len(Append(s, x)) = Len(s) + 1
         /\ \A i \in 1..Len(s) : Append(s, x)[i] = s[i]
         /\ Append(s, x)[Len(s) + 1] = x
         /\ s # <<>> => Head(Append(s, x)) = Head(s)
         /\ ToSet(Append(s, x)) = ToSet(s) \cup {x}
BY DEF ToSet

LEMMA TailFacts ==
  ASSUME NEW S, NEW s \in Seq(S), s # <<>>
  PROVE  /\ Tail(s) \in Seq(S) /\ Len(Tail(s)) = Len(s) - 1 /\ Len(s) \in Nat \ {0}
         /\ \A i \in 1..Len(Tail(s)) : Tail(s)[i] = s[i + 1]
         /\ Head(s) \in S /\ Head(s) = s[1]
         /\ ToSet(s) = {Head(s)} \cup ToSet(Tail(s))
<1>1. /\ Tail(s) \in Seq(S) /\ Len(Tail(s)) = Len(s) - 1 /\ Len(s) \in Nat \ {0}
      /\ \A i \in 1..Len(Tail(s)) : Tail(s)[i] = s[i + 1]
      /\ Head(s) \in S /\ Head(s) = s[1]
  OBVIOUS
<1>2. ToSet(Tail(s)) \subseteq ToSet(s) /\ Head(s) \in ToSet(s)
  BY <1>1 DEF ToSet
<1>3. ASSUME NEW i \in DOMAIN s PROVE s[i] \in {Head(s)} \cup ToSet(Tail(s))
  <2>1. CASE i = 1
    BY <1>1, <2>1
  <2>2. CASE i # 1
    <3>1. i - 1 \in 1..Len(Tail(s)) /\ Tail(s)[i - 1] = s[i]
      BY <1>1, <2>2
    <3>2. QED
      BY <3>1 DEF ToSet
  <2>3. QED
    BY <2>1, <2>2
<1>4. QED
  BY <1>1, <1>2, <1>3 DEF ToSet

LEMMA ConcatFacts ==
  ASSUME NEW S, NEW s \in Seq(S), NEW t \in Seq(S)
  PROVE  s \o t \in Seq(S) /\ ToSet(s \o t) = ToSet(s) \cup ToSet(t)
<1>1. /\ s \o t \in Seq(S) /\ Len(s \o t) = Len(s) + Len(t)
      /\ \A i \in 1..Len(s) + Len(t) : (s \o t)[i] = IF i <= Len(s) THEN s[i] ELSE t[i - Len(s)]
  OBVIOUS
<1>2. ToSet(s \o t) \subseteq ToSet(s) \cup ToSet(t)
  BY <1>1 DEF ToSet
<1>3. ToSet(s) \subseteq ToSet(s \o t)
  BY <1>1 DEF ToSet
<1>4. ASSUME NEW i \in DOMAIN t PROVE t[i] \in ToSet(s \o t)
  <2>1. Len(s) + i \in 1..Len(s \o t) /\ (s \o t)[Len(s) + i] = t[i]
    BY <1>1
  <2>2. QED
    BY <1>1, <2>1 DEF ToSet
<1>5. QED
  BY <1>1, <1>2, <1>3, <1>4 DEF ToSet

LEMMA OneFacts ==
  ASSUME NEW S, NEW x \in S
  PROVE  <<x>> \in Seq(S) /\ ToSet(<<x>>) = {x}
BY DEF ToSet
-----------------------------------------------------------------------------
(* Type correctness.                                                       *)
Uuids == Msg \X Nat
Entry == [op : {"send", "resend", "cancel", "now", "again"}, msg : Msg, by : {"user", "inbox"}, uuid : Nat]
Order == [kind : {"query", "cancel"}, of : Uuids] \cup [kind : {"disconnect"}]
Said == [kind : {"idle", "working"}] \cup [kind : {"started", "cancelled", "discarded"}, of : Uuids]
Item == [kind : {"idle", "busy"}, epoch : Nat]
          \cup [kind : {"started", "cancelled", "discarded"}, of : Uuids, preempted : BOOLEAN]
          \cup [kind : {"exit"}, failed : BOOLEAN]
Asked == [for : {"none", "drop", "now", "lost"}, uuid : Nat]
Delivering == [phase : {"none", "meta", "query", "refused", "failing"}, from : Nat, busy : BOOLEAN]
Processing == [at : {"ready", "settling", "resettling", "redelivering", "ending", "done"}, epoch : Nat]

ObjectOK ==
  /\ residence \in {"cold", "resident", "leaving", "closing"}
  /\ actor \in BOOLEAN
  /\ status \in {"running", "ended", "closed"} /\ meta \in {"running", "ended"}
  /\ epoch \in Nat /\ idleEpoch \in Nat \union {None}
TrayOK ==
  /\ tray \in [Msg -> {"out", "queued", "unsent"}]
  /\ attempt \in [Msg -> Nat] /\ keyHeld \in [Msg -> BOOLEAN]
  /\ intent \in [Msg -> {"none", "drop", "now"}]
  /\ asking \in [Msg -> Asked]
(* A delivery is that of the holder of the lock.                           *)
LineOK ==
  /\ line \in Seq(Entry) /\ delivery \in Delivering
  /\ delivery.phase # "none" => line # <<>> /\ Head(line).op # "cancel"
(* The actor has at most one message to write, that of the holder.         *)
WireOK ==
  /\ commands \in Seq(Order) /\ reply \in [Msg -> {"none", "yes", "no", "error"}]
  /\ \A i \in 1..Len(commands) : commands[i].kind = "query" => delivery.phase = "query"
  /\ \A i, j \in 1..Len(commands) : commands[i].kind = "query" /\ commands[j].kind = "query" => i = j
InboxOK == inbox \in Seq(Item) /\ processor \in Processing
CliOK ==
  /\ cli \in {"gone", "idle", "working"}
  /\ cliQueue \subseteq Uuids /\ held \subseteq Uuids /\ open \subseteq Uuids
  /\ pipe \in Seq(Said)
LogOK == heard \subseteq Msg /\ recorded \subseteq Msg /\ metaFailed \in BOOLEAN

Typed == ObjectOK /\ TrayOK /\ LineOK /\ WireOK /\ InboxOK /\ CliOK /\ LogOK

LEMMA TypeParts == Typed => TypeOK
BY DEF TypeOK, Typed, ObjectOK, TrayOK, LineOK, WireOK, InboxOK, CliOK, LogOK, Asked, Delivering, Processing

LEMMA KeptTypes ==
  ASSUME Typed
  PROVE  /\ UNCHANGED <<object, meta>> => ObjectOK'
         /\ UNCHANGED <<tray, attempt, intent, asking, keyHeld>> => TrayOK'
         /\ UNCHANGED sending => LineOK'
         /\ UNCHANGED <<wire, delivery>> => WireOK'
         /\ UNCHANGED inboxVars => InboxOK'
         /\ UNCHANGED <<cli, cliQueue, held, open, pipe>> => CliOK'
         /\ UNCHANGED logVars => LogOK'
BY DEF Typed, object, sending, wire, inboxVars, logVars, ObjectOK, TrayOK, LineOK, WireOK, InboxOK, CliOK, LogOK

(* A request joins the line.                                               *)
LEMMA JoinTypes ==
  ASSUME LineOK, NEW j \in Entry, line' = Append(line, j), UNCHANGED delivery
  PROVE  LineOK'
BY AppendFacts DEF LineOK

LEMMA JobIs ==
  ASSUME TrayOK, NEW m \in Msg, NEW op \in {"send", "resend", "cancel"}
  PROVE  Job(op, m, "user") \in Entry
BY DEF TrayOK, Job, Entry

(* The holder leaves the lock.                                             *)
LEMMA LeaveTypes ==
  ASSUME LineOK, InboxOK, line # <<>>, LeaveLine
  PROVE  /\ LineOK' /\ delivery' = NoDelivery /\ NoDelivery.phase = "none" /\ line' = Tail(line)
         /\ processor' \in Processing /\ processor' \in {processor, Ready}
<1>1. line' \in Seq(Entry) /\ delivery' = NoDelivery /\ line' = Tail(line)
  BY TailFacts DEF LineOK, LeaveLine
<1>2. NoDelivery \in Delivering /\ NoDelivery.phase = "none"
  BY DEF NoDelivery, Delivering
<1>3. processor' \in Processing /\ processor' \in {processor, Ready}
  BY DEF LeaveLine, InboxOK, Ready, Processing
<1>4. QED
  BY <1>1, <1>2, <1>3 DEF LineOK

(* The commands stay, whatever the phase is that is not "query".           *)
LEMMA WireStays ==
  ASSUME WireOK, UNCHANGED wire, delivery.phase # "query"
  PROVE  WireOK'
BY DEF WireOK, wire

(* A command that is no message joins the queue of the actor.              *)
LEMMA OrderTypes ==
  ASSUME WireOK, NEW c \in Order, c.kind # "query", commands' = Append(commands, c), UNCHANGED reply,
         delivery'.phase = delivery.phase \/ delivery.phase # "query"
  PROVE  WireOK'
<1>1. /\ commands' \in Seq(Order) /\ Len(commands') = Len(commands) + 1
      /\ \A i \in 1..Len(commands) : commands'[i] = commands[i]
      /\ commands'[Len(commands) + 1] = c
  BY AppendFacts DEF WireOK
<1>2. Len(commands) \in Nat
  BY DEF WireOK
<1>3. QED
  BY <1>1, <1>2 DEF WireOK

LEMMA ItemTypes ==
  ASSUME InboxOK, NEW x \in Item, inbox' = Append(inbox, x), UNCHANGED processor
  PROVE  InboxOK'
BY AppendFacts DEF InboxOK

(* Undo and Discard keep the tray a tray.                                  *)
LEMMA UndoTypes ==
  ASSUME TrayOK, NEW j \in Entry, Undo(j), UNCHANGED <<attempt, intent, asking>>
  PROVE  TrayOK'
<1>1. CASE j.op = "send"
  BY <1>1 DEF TrayOK, Undo, Discard
<1>2. CASE j.op # "send"
  <2>1. j.msg \in Msg
    BY DEF Entry
  <2>2. QED
    BY <1>2, <2>1 DEF TrayOK, Undo
<1>3. QED
  BY <1>1, <1>2

LEMMA UserTypes ==
  ASSUME Typed, UserStep
  PROVE  Typed'
<1>1. ASSUME NEW m \in Msg, Send(m) \/ Resend(m) PROVE Typed'
  <2>1. LineOK'
    <3>1. CASE Send(m)
      BY <3>1, JoinTypes, JobIs DEF Typed, Send, Enqueue
    <3>2. CASE Resend(m)
      BY <3>2, JoinTypes, JobIs DEF Typed, Resend, Enqueue
    <3>3. QED
      BY <1>1, <3>1, <3>2
  <2>2. QED
    BY <1>1, <2>1, KeptTypes DEF Typed, Send, Resend, trayVars, cliVars
<1>2. ASSUME NEW m \in Msg, WithdrawUnsent(m) PROVE Typed'
  <2>1. TrayOK'
    BY <1>2 DEF Typed, WithdrawUnsent, TrayOK, Discard
  <2>2. UNCHANGED <<wire, delivery>>
    BY <1>2 DEF WithdrawUnsent, sending
  <2>3. QED
    BY <1>2, <2>1, <2>2, KeptTypes DEF Typed, WithdrawUnsent, cliVars
<1>3. ASSUME NEW m \in Msg, NEW why \in {"drop", "now"}, Ask(m, why) PROVE Typed'
  <2>1. CASE intent[m] # "none"
    <3>1. TrayOK' /\ UNCHANGED sending
      BY <1>3, <2>1 DEF Typed, Ask, TrayOK, sending
    <3>2. QED
      BY <1>3, <3>1, KeptTypes DEF Typed, Ask, cliVars
  <2>2. CASE intent[m] = "none"
    <3>1. LineOK'
      BY <1>3, <2>2, JoinTypes, JobIs DEF Typed, Ask, Enqueue
    <3>2. [for |-> why, uuid |-> attempt[m]] \in Asked
      BY DEF Asked, Typed, TrayOK
    <3>3. TrayOK'
      BY <1>3, <2>2, <3>2 DEF Typed, Ask, TrayOK
    <3>4. QED
      BY <1>3, <3>1, <3>3, KeptTypes DEF Typed, Ask, cliVars
  <2>3. QED
    BY <2>1, <2>2
<1>4. QED
  BY <1>1, <1>2, <1>3 DEF UserStep

(* A message waits for the lock to be sent once more.                      *)
LEMMA RequeueTypes ==
  ASSUME TrayOK, LineOK, NEW m \in Msg, NEW op \in {"now", "again"}, NEW by \in {"user", "inbox"},
         Requeue(m, op, by), asking' \in [Msg -> Asked], UNCHANGED <<tray, keyHeld, delivery>>
  PROVE  TrayOK' /\ LineOK'
<1>1. [op |-> op, msg |-> m, by |-> by, uuid |-> attempt[m] + 1] \in Entry
  BY DEF TrayOK, Entry
<1>2. LineOK'
  BY <1>1, JoinTypes DEF Requeue
<1>3. attempt' \in [Msg -> Nat] /\ intent' \in [Msg -> {"none", "drop", "now"}]
  BY DEF TrayOK, Requeue
<1>4. QED
  BY <1>2, <1>3 DEF TrayOK

LEMMA AnswerTypes ==
  ASSUME Typed, AnswerStep
  PROVE  Typed'
<1>1. ASSUME NEW m \in Msg, Answered(m), UNCHANGED <<commands, delivery>>
      PROVE  WireOK' /\ asking' \in [Msg -> Asked]
  BY <1>1 DEF Typed, Answered, WireOK, TrayOK, NoAsk, Asked
<1>2. ASSUME NEW m \in Msg, AnswerNo(m) PROVE Typed'
  <2>1. WireOK' /\ TrayOK'
    BY <1>1, <1>2 DEF Typed, AnswerNo, TrayOK, sending
  <2>2. QED
    BY <1>2, <2>1, KeptTypes DEF Typed, AnswerNo, cliVars
<1>3. ASSUME NEW m \in Msg, AnswerDrop(m) PROVE Typed'
  <2>1. WireOK' /\ TrayOK'
    BY <1>1, <1>3 DEF Typed, AnswerDrop, TrayOK, Discard, sending
  <2>2. QED
    BY <1>3, <2>1, KeptTypes DEF Typed, AnswerDrop, cliVars
<1>4. ASSUME NEW m \in Msg, AnswerNow(m) PROVE Typed'
  <2>1. WireOK' /\ asking' \in [Msg -> Asked]
    BY <1>1, <1>4 DEF AnswerNow
  <2>2. TrayOK' /\ LineOK'
    <3>1. CASE asking[m].uuid = attempt[m]
      BY <1>4, <2>1, <3>1, RequeueTypes DEF Typed, AnswerNow
    <3>2. CASE asking[m].uuid # attempt[m]
      BY <1>4, <2>1, <3>2 DEF Typed, AnswerNow, TrayOK, LineOK
    <3>3. QED
      BY <3>1, <3>2
  <2>3. QED
    BY <1>4, <2>1, <2>2, KeptTypes DEF Typed, AnswerNow, cliVars
<1>5. QED
  BY <1>2, <1>3, <1>4 DEF AnswerStep

LEMMA HolderIs ==
  ASSUME LineOK, line # <<>>
  PROVE  /\ Head(line) \in Entry /\ Head(line).msg \in Msg
         /\ Head(line).op \in {"send", "resend", "cancel", "now", "again"}
<1>1. Head(line) \in Entry
  BY TailFacts DEF LineOK
<1>2. QED
  BY <1>1 DEF Entry

(* A step of the holder that keeps the lock moves its delivery on.         *)
LEMMA PhaseTypes ==
  ASSUME LineOK, UNCHANGED line, line # <<>>, Head(line).op # "cancel", delivery' \in Delivering
  PROVE  LineOK'
BY DEF LineOK

LEMMA BeginTypes ==
  ASSUME Typed, Begin, line # <<>>, Head(line).op # "cancel", delivery.phase = "none", TrayOK', UNCHANGED logVars
  PROVE  Typed'
<1>1. ObjectOK'
  BY DEF Typed, Begin, EnterRunning, ObjectOK
<1>2. [phase |-> "meta", from |-> epoch, busy |-> status = "running"] \in Delivering
  BY DEF Typed, ObjectOK, Delivering
<1>3. LineOK'
  BY <1>2, PhaseTypes DEF Typed, Begin
<1>4. WireOK'
  BY WireStays DEF Typed, Begin
<1>5. QED
  BY <1>1, <1>3, <1>4, KeptTypes DEF Typed, Begin, cliVars

LEMMA AbandonTypes ==
  ASSUME ObjectOK, inbox \in Seq(Item), AbandonRunning
  PROVE  inbox' \in Seq(Item) /\ idleEpoch' \in Nat \union {None}
<1>1. [kind |-> "idle", epoch |-> epoch] \in Item
  BY DEF ObjectOK, Item
<1>2. Append(inbox, [kind |-> "idle", epoch |-> epoch]) \in Seq(Item)
  BY <1>1, AppendFacts
<1>3. QED
  BY <1>2 DEF ObjectOK, AbandonRunning

LEMMA HolderTypes ==
  ASSUME Typed, HolderStep
  PROVE  Typed'
<1>1. ASSUME AskCli PROVE Typed'
  <2>1. line # <<>> /\ Head(line) \in Entry /\ Head(line).msg \in Msg /\ delivery.phase = "none"
    <3>1. line # <<>> /\ Head(line).op = "cancel" /\ LineOK
      BY <1>1 DEF AskCli, Holds, Typed
    <3>2. QED
      BY <3>1, HolderIs DEF LineOK
  <2>2. DEFINE m == Head(line).msg
               of == IF asking[m].for = "lost" THEN <<m, asking[m].uuid>> ELSE Uuid(m)
  <2>3. of \in Uuids /\ m \in Msg
    BY <2>1 DEF Typed, TrayOK, Asked, Uuid, Uuids
  <2>4. LineOK' /\ processor' \in Processing /\ delivery'.phase = "none"
    BY <1>1, <2>1, LeaveTypes DEF AskCli, Typed
  <2>5. WireOK'
    <3>1. CASE actor
      <4>1. commands' = Append(commands, [kind |-> "cancel", of |-> of]) /\ UNCHANGED reply
        BY <1>1, <3>1 DEF AskCli
      <4>2. [kind |-> "cancel", of |-> of] \in Order
        BY <2>3 DEF Order
      <4>3. QED
        BY <2>1, <2>4, <4>1, <4>2, OrderTypes DEF Typed
    <3>2. CASE ~actor
      BY <1>1, <2>1, <2>3, <3>2 DEF AskCli, Typed, WireOK
    <3>3. QED
      BY <3>1, <3>2
  <2>6. InboxOK'
    BY <1>1, <2>4 DEF AskCli, Typed, InboxOK
  <2>7. QED
    BY <1>1, <2>4, <2>5, <2>6, KeptTypes DEF AskCli, Typed, trayVars, cliVars
<1>2. ASSUME AnswerRetry \/ GiveUp PROVE Typed'
  <2>1. line # <<>> /\ delivery.phase = "none" /\ LeaveLine
    BY <1>2 DEF AnswerRetry, GiveUp, Holds
  <2>2. UNCHANGED <<object, meta, trayVars, wire, inbox, cliVars, lives, logVars>>
    BY <1>2 DEF AnswerRetry, GiveUp
  <2>3. LineOK' /\ InboxOK'
    BY <2>1, <2>2, LeaveTypes DEF Typed, InboxOK
  <2>4. WireOK'
    BY <2>1, <2>2, WireStays DEF Typed
  <2>5. QED
    BY <2>2, <2>3, <2>4, KeptTypes DEF Typed, trayVars, cliVars
<1>3. ASSUME RegisterSend PROVE Typed'
  <2>1. line # <<>> /\ Head(line).op = "send" /\ delivery.phase = "none" /\ Begin /\ UNCHANGED logVars
    BY <1>3 DEF RegisterSend, Begin, Holds
  <2>2. Head(line) \in Entry /\ Head(line).msg \in Msg
    BY <2>1, HolderIs DEF Typed
  <2>3. DEFINE m == Head(line).msg
  <2>4. [asking[m] EXCEPT !.for = "lost"] \in Asked
    BY <2>2 DEF Typed, TrayOK, Asked
  <2>5. asking' \in [Msg -> Asked]
    BY <1>3, <2>2, <2>4 DEF RegisterSend, Typed, TrayOK
  <2>6. TrayOK'
    BY <1>3, <2>2, <2>5 DEF RegisterSend, Typed, TrayOK
  <2>7. QED
    BY <2>1, <2>6, BeginTypes
<1>4. ASSUME RegisterResend PROVE Typed'
  <2>1. line # <<>> /\ Head(line).op = "resend" /\ delivery.phase = "none" /\ Begin /\ UNCHANGED logVars
    BY <1>4 DEF RegisterResend, Begin, Holds
  <2>2. Head(line).msg \in Msg
    BY <2>1, HolderIs DEF Typed
  <2>3. TrayOK'
    BY <1>4, <2>2 DEF RegisterResend, Typed, TrayOK
  <2>4. QED
    BY <2>1, <2>3, BeginTypes
<1>5. ASSUME RegisterAgain PROVE Typed'
  <2>1. line # <<>> /\ Head(line).op # "cancel" /\ delivery.phase = "none" /\ Begin /\ UNCHANGED logVars
    BY <1>5 DEF RegisterAgain, Begin, Holds
  <2>2. TrayOK'
    BY <1>5, KeptTypes DEF RegisterAgain, Typed
  <2>3. QED
    BY <2>1, <2>2, BeginTypes
<1>6. ASSUME WriteRunning PROVE Typed'
  <2>1. line # <<>> /\ Head(line) \in Entry /\ Head(line).msg \in Msg /\ Head(line).op # "cancel"
    <3>1. line # <<>> /\ Head(line).op # "cancel" /\ LineOK
      BY <1>6 DEF WriteRunning, Typed, LineOK
    <3>2. QED
      BY <3>1, HolderIs
  <2>2. ObjectOK'
    BY <1>6 DEF WriteRunning, EnterRunning, Typed, ObjectOK
  <2>3. delivery' \in Delivering /\ (actor => delivery'.phase = "query")
    BY <1>6 DEF WriteRunning, Typed, LineOK, Delivering
  <2>4. LineOK'
    BY <1>6, <2>1, <2>3, PhaseTypes DEF WriteRunning, Typed
  <2>5. WireOK'
    <3>1. CASE actor
      <4>1. [kind |-> "query", of |-> Uuid(Head(line).msg)] \in Order
        BY <2>1 DEF Typed, TrayOK, Order, Uuid, Uuids
      <4>2. \A i \in 1..Len(commands) : commands[i].kind # "query"
        BY <1>6 DEF WriteRunning, Typed, WireOK
      <4>3. /\ commands' = Append(commands, [kind |-> "query", of |-> Uuid(Head(line).msg)])
            /\ delivery'.phase = "query" /\ UNCHANGED reply
        BY <1>6, <2>3, <3>1 DEF WriteRunning
      <4>4. /\ commands' \in Seq(Order) /\ Len(commands') = Len(commands) + 1 /\ Len(commands) \in Nat
            /\ \A i \in 1..Len(commands) : commands'[i] = commands[i]
        BY <4>1, <4>3, AppendFacts DEF Typed, WireOK
      <4>5. QED
        BY <4>2, <4>3, <4>4 DEF Typed, WireOK
    <3>2. CASE ~actor
      BY <1>6, <3>2 DEF WriteRunning, Typed, WireOK
    <3>3. QED
      BY <3>1, <3>2
  <2>6. QED
    BY <1>6, <2>2, <2>4, <2>5, KeptTypes DEF WriteRunning, Typed, trayVars, cliVars
<1>7. ASSUME Refused \/ MetaFails PROVE Typed'
  <2>1. /\ line # <<>> /\ Head(line) \in Entry /\ Head(line).op # "cancel"
        /\ delivery.phase \in {"meta", "refused"}
    <3>1. line # <<>> /\ Head(line).op # "cancel" /\ LineOK /\ delivery.phase \in {"meta", "refused"}
      BY <1>7 DEF Refused, MetaFails, Typed, LineOK
    <3>2. QED
      BY <3>1, HolderIs
  <2>2. TrayOK'
    BY <1>7, <2>1, UndoTypes DEF Refused, MetaFails, Typed
  <2>3. inbox' \in Seq(Item) /\ idleEpoch' \in Nat \union {None}
    BY <1>7, AbandonTypes DEF Refused, MetaFails, Typed, InboxOK, ObjectOK
  <2>4. ObjectOK'
    BY <1>7, <2>3 DEF Refused, MetaFails, Typed, ObjectOK
  <2>5. LineOK' /\ processor' \in Processing
    <3>1. CASE delivery.busy
      BY <1>7, <2>1, <3>1, LeaveTypes DEF Refused, MetaFails, Typed
    <3>2. CASE ~delivery.busy
      <4>1. delivery' \in Delivering /\ UNCHANGED <<line, processor>>
        BY <1>7, <3>2 DEF Refused, MetaFails, Typed, LineOK, Delivering
      <4>2. QED
        BY <2>1, <4>1, PhaseTypes DEF Typed, InboxOK
    <3>3. QED
      BY <3>1, <3>2
  <2>6. WireOK'
    BY <1>7, <2>1, WireStays DEF Refused, MetaFails, Typed
  <2>7. LogOK' /\ CliOK'
    BY <1>7, KeptTypes DEF Refused, MetaFails, Typed, LogOK, logVars, cliVars
  <2>8. QED
    BY <2>2, <2>3, <2>4, <2>5, <2>6, <2>7 DEF Typed, InboxOK
<1>8. ASSUME FailureWritten PROVE Typed'
  <2>1. line # <<>> /\ delivery.phase # "query"
    BY <1>8 DEF FailureWritten, Typed, LineOK
  <2>2. ObjectOK'
    BY <1>8 DEF FailureWritten, Typed, ObjectOK, object
  <2>3. LineOK' /\ InboxOK'
    BY <1>8, <2>1, LeaveTypes DEF FailureWritten, Typed, InboxOK
  <2>4. WireOK'
    BY <1>8, <2>1, WireStays DEF FailureWritten, Typed
  <2>5. QED
    BY <1>8, <2>2, <2>3, <2>4, KeptTypes DEF FailureWritten, Typed, trayVars, cliVars
<1>9. QED
  BY <1>1, <1>2, <1>3, <1>4, <1>5, <1>6, <1>7, <1>8 DEF HolderStep, Delivered

(* The actor ends: there is nothing left to write.                         *)
LEMMA EndTypes ==
  ASSUME Typed, NEW failed \in BOOLEAN, ActorEnds(failed),
         UNCHANGED <<residence, status, epoch, idleEpoch, meta, trayVars, line, processor, logVars>>
  PROVE  Typed'
<1>1. ObjectOK' /\ TrayOK' /\ LogOK'
  BY KeptTypes DEF ActorEnds, Typed, ObjectOK, trayVars
<1>2. LineOK'
  BY DEF ActorEnds, Typed, LineOK, Delivering
<1>3. WireOK'
  <2>1. commands' = <<>>
    BY DEF ActorEnds
  <2>2. reply' \in [Msg -> {"none", "yes", "no", "error"}]
    BY DEF ActorEnds, Typed, WireOK
  <2>3. QED
    BY <2>1, <2>2 DEF WireOK
<1>4. InboxOK'
  <2>1. [kind |-> "exit", failed |-> failed] \in Item
    BY DEF Item
  <2>2. inbox' = Append(inbox, [kind |-> "exit", failed |-> failed])
    BY DEF ActorEnds
  <2>3. QED
    BY <2>1, <2>2, ItemTypes DEF Typed
<1>5. CliOK'
  BY DEF ActorEnds, CliOK
<1>6. QED
  BY <1>1, <1>2, <1>3, <1>4, <1>5 DEF Typed

(* The first frame and the first command.                                  *)
LEMMA FrameIs ==
  ASSUME CliOK, pipe # <<>>
  PROVE  /\ Head(pipe) \in Said /\ Tail(pipe) \in Seq(Said)
         /\ Head(pipe).kind \in {"started", "cancelled", "discarded"} => Head(pipe).of \in Uuids
<1>1. Head(pipe) \in Said /\ Tail(pipe) \in Seq(Said)
  BY TailFacts DEF CliOK
<1>2. QED
  BY <1>1 DEF Said

LEMMA CommandIs ==
  ASSUME WireOK, commands # <<>>
  PROVE  /\ Head(commands) \in Order /\ Tail(commands) \in Seq(Order)
         /\ Head(commands).kind \in {"query", "cancel"} => Head(commands).of \in Uuids
<1>1. Head(commands) \in Order /\ Tail(commands) \in Seq(Order)
  BY TailFacts DEF WireOK
<1>2. QED
  BY <1>1 DEF Order

LEMMA ItemIs ==
  ASSUME InboxOK, inbox # <<>>
  PROVE  /\ Head(inbox) \in Item /\ Tail(inbox) \in Seq(Item)
         /\ Head(inbox).kind \in {"idle", "busy"} => Head(inbox).epoch \in Nat
         /\ Head(inbox).kind \in {"started", "cancelled", "discarded"} =>
              Head(inbox).of \in Uuids /\ Head(inbox).of[1] \in Msg
<1>1. Head(inbox) \in Item /\ Tail(inbox) \in Seq(Item)
  BY TailFacts DEF InboxOK
<1>2. QED
  BY <1>1 DEF Item, Uuids

LEMMA ActorTypes ==
  ASSUME Typed, ActorStep
  PROVE  Typed'
<1>1. ASSUME ReadIdle \/ ReadWorking PROVE Typed'
  <2>1. CliOK'
    BY <1>1, FrameIs DEF ReadIdle, ReadWorking, Frame, Typed, CliOK
  <2>2. ObjectOK'
    BY <1>1 DEF ReadIdle, ReadWorking, EnterRunning, Typed, ObjectOK
  <2>3. \A kind \in {"idle", "busy"} : [kind |-> kind, epoch |-> epoch] \in Item
    BY DEF Typed, ObjectOK, Item
  <2>4. InboxOK'
    <3>1. UNCHANGED inboxVars \/ (UNCHANGED processor /\ \E kind \in {"idle", "busy"} : Notice(kind))
      BY <1>1 DEF ReadIdle, ReadWorking, inboxVars
    <3>2. ASSUME NEW kind \in {"idle", "busy"}, Notice(kind), UNCHANGED processor PROVE InboxOK'
      BY <2>3, <3>2, ItemTypes DEF Notice, Typed
    <3>3. QED
      BY <3>1, <3>2, KeptTypes
  <2>5. UNCHANGED <<trayVars, sending, wire, logVars>>
    BY <1>1 DEF ReadIdle, ReadWorking
  <2>6. QED
    BY <2>1, <2>2, <2>4, <2>5, KeptTypes DEF Typed, trayVars, sending
<1>2. ASSUME ReadLifecycle PROVE Typed'
  <2>1. pipe # <<>> /\ Head(pipe).kind \in {"started", "cancelled", "discarded"}
    BY <1>2 DEF ReadLifecycle, Frame
  <2>2. CliOK' /\ Head(pipe).of \in Uuids
    BY <1>2, <2>1, FrameIs DEF ReadLifecycle, Typed, CliOK
  <2>3. [kind |-> Head(pipe).kind, of |-> Head(pipe).of, preempted |-> urgent # {}] \in Item
    BY <2>1, <2>2 DEF Item
  <2>4. InboxOK'
    BY <1>2, <2>3, ItemTypes DEF ReadLifecycle, Typed, InboxOK
  <2>5. QED
    BY <1>2, <2>2, <2>4, KeptTypes DEF ReadLifecycle, Typed, sending
<1>3. ASSUME WriteQuery PROVE Typed'
  <2>1. commands # <<>> /\ Head(commands).kind = "query"
    BY <1>3 DEF WriteQuery, Command
  <2>2. Head(commands) = commands[1] /\ Len(commands) \in Nat \ {0} /\ Len(Tail(commands)) = Len(commands) - 1
        /\ \A i \in 1..Len(Tail(commands)) : Tail(commands)[i] = commands[i + 1]
    BY <2>1, TailFacts DEF Typed, WireOK
  <2>3. \A i \in 1..Len(Tail(commands)) : Tail(commands)[i].kind # "query"
    BY <2>1, <2>2 DEF Typed, WireOK
  <2>4. Tail(commands) \in Seq(Order) /\ Head(commands).of \in Uuids
    BY <2>1, CommandIs DEF Typed
  <2>5. line # <<>>
    BY <2>1, <2>2 DEF Typed, WireOK, LineOK
  <2>6. LineOK' /\ processor' \in Processing
    BY <1>3, <2>5, LeaveTypes DEF WriteQuery, Typed
  <2>7. WireOK'
    <3>1. commands' = Tail(commands) /\ reply' = reply
      BY <1>3 DEF WriteQuery
    <3>2. QED
      BY <2>3, <2>4, <3>1 DEF Typed, WireOK
  <2>8. CliOK' /\ InboxOK'
    BY <1>3, <2>4, <2>6 DEF WriteQuery, Typed, CliOK, InboxOK
  <2>9. QED
    BY <1>3, <2>6, <2>7, <2>8, KeptTypes DEF WriteQuery, Typed, trayVars
<1>4. ASSUME AskedToCancel PROVE Typed'
  <2>1. commands # <<>> /\ Head(commands).kind = "cancel"
    BY <1>4 DEF AskedToCancel, Command
  <2>2. Len(commands) \in Nat \ {0} /\ Len(Tail(commands)) = Len(commands) - 1
        /\ \A i \in 1..Len(Tail(commands)) : Tail(commands)[i] = commands[i + 1]
    BY <2>1, TailFacts DEF Typed, WireOK
  <2>3. Tail(commands) \in Seq(Order) /\ Head(commands).of \in Uuids
    BY <2>1, CommandIs DEF Typed
  <2>4. reply' \in [Msg -> {"none", "yes", "no", "error"}]
    BY <1>4 DEF AskedToCancel, Typed, WireOK
  <2>5. WireOK'
    <3>1. commands' = Tail(commands) /\ UNCHANGED sending
      BY <1>4 DEF AskedToCancel
    <3>2. QED
      BY <2>2, <2>3, <2>4, <3>1 DEF Typed, WireOK, sending
  <2>6. CliOK'
    <3>1. [kind |-> "cancelled", of |-> Head(commands).of] \in Said
      BY <2>3 DEF Said
    <3>2. pipe' \in Seq(Said)
      BY <1>4, <3>1, AppendFacts DEF AskedToCancel, Typed, CliOK
    <3>3. QED
      BY <1>4, <3>2 DEF AskedToCancel, Typed, CliOK
  <2>7. QED
    BY <1>4, <2>5, <2>6, KeptTypes DEF AskedToCancel, Typed, trayVars, inboxVars
<1>5. ASSUME ActorFails PROVE Typed'
  BY <1>5, EndTypes DEF ActorFails
<1>6. ASSUME Disconnect PROVE Typed'
  BY <1>6, EndTypes DEF Disconnect
<1>7. QED
  BY <1>1, <1>2, <1>3, <1>4, <1>5, <1>6 DEF ActorStep, ActorReads, ActorTakesCommand

LEMMA InboxTypes ==
  ASSUME Typed, InboxStep
  PROVE  Typed'
<1>1. ASSUME Take, inbox # <<>>, processor' \in Processing PROVE InboxOK'
  BY <1>1, ItemIs DEF Take, Typed, InboxOK
<1>2. ASSUME SettleIdle PROVE Typed'
  <2>1. inbox # <<>> /\ Head(inbox).kind = "idle" /\ Take
    BY <1>2 DEF SettleIdle, InboxReady
  <2>2. Head(inbox).epoch \in Nat
    BY <2>1, ItemIs DEF Typed
  <2>3. processor' \in Processing /\ ObjectOK'
    BY <1>2, <2>2 DEF SettleIdle, Typed, InboxOK, Processing, ObjectOK
  <2>4. QED
    BY <1>1, <1>2, <2>1, <2>3, KeptTypes DEF SettleIdle, Typed, trayVars, sending, cliVars
<1>3. ASSUME IdleWritten \/ RunningRewritten \/ EndWritten PROVE Typed'
  <2>1. processor' \in Processing /\ UNCHANGED inbox
    BY <1>3 DEF IdleWritten, RunningRewritten, EndWritten, Typed, InboxOK, Processing, Ready
  <2>2. ObjectOK'
    BY <1>3 DEF IdleWritten, RunningRewritten, EndWritten, Typed, ObjectOK, object
  <2>3. UNCHANGED <<trayVars, sending, wire, cliVars, logVars>>
    BY <1>3 DEF IdleWritten, RunningRewritten, EndWritten
  <2>4. QED
    BY <2>1, <2>2, <2>3, KeptTypes DEF Typed, InboxOK, trayVars, sending, cliVars
<1>4. ASSUME SettleBusy \/ SettleNothing PROVE Typed'
  <2>1. inbox # <<>> /\ Take /\ UNCHANGED processor
    BY <1>4 DEF SettleBusy, SettleNothing, InboxReady
  <2>2. ObjectOK'
    BY <1>4 DEF SettleBusy, SettleNothing, Typed, ObjectOK, object
  <2>3. UNCHANGED <<trayVars, sending, wire, cliVars, logVars>>
    BY <1>4 DEF SettleBusy, SettleNothing
  <2>4. QED
    BY <1>1, <2>1, <2>2, <2>3, KeptTypes DEF Typed, InboxOK, trayVars, sending, cliVars
<1>5. ASSUME SettleStarted PROVE Typed'
  <2>1. /\ inbox # <<>> /\ Take /\ UNCHANGED processor
        /\ Head(inbox).kind \in {"started", "cancelled", "discarded"}
    BY <1>5 DEF SettleStarted, Settles, InboxReady
  <2>2. Head(inbox).of[1] \in Msg
    BY <2>1, ItemIs DEF Typed
  <2>3. TrayOK' /\ LogOK'
    BY <1>5, <2>2 DEF SettleStarted, Typed, TrayOK, LogOK
  <2>4. QED
    BY <1>1, <1>5, <2>1, <2>3, KeptTypes DEF SettleStarted, Typed, InboxOK, sending, cliVars
<1>6. ASSUME SettleUnstarted PROVE Typed'
  <2>1. inbox # <<>> /\ Take /\ Head(inbox).kind \in {"started", "cancelled", "discarded"}
    BY <1>6 DEF SettleUnstarted, Settles, InboxReady
  <2>2. Head(inbox).of[1] \in Msg
    BY <2>1, ItemIs DEF Typed
  <2>3. DEFINE m == Head(inbox).of[1]
               preempted == intent[m] = "none" /\ Head(inbox).preempted /\ Head(inbox).kind = "cancelled"
  <2>4. TrayOK' /\ LineOK' /\ processor' \in Processing
    <3>1. CASE intent[m] = "now" \/ preempted
      <4>1. /\ Requeue(m, IF preempted THEN "again" ELSE "now", "inbox")
            /\ UNCHANGED <<tray, keyHeld, asking, delivery>>
            /\ processor' = [at |-> "redelivering", epoch |-> 0]
        BY <1>6, <3>1 DEF SettleUnstarted
      <4>2. TrayOK' /\ LineOK'
        BY <2>2, <4>1, RequeueTypes DEF Typed, TrayOK
      <4>3. QED
        BY <4>1, <4>2 DEF Processing
    <3>2. CASE ~(intent[m] = "now" \/ preempted)
      <4>1. Discard({m}) /\ UNCHANGED <<attempt, intent, line, processor, asking, delivery>>
        BY <1>6, <3>2 DEF SettleUnstarted
      <4>2. QED
        BY <4>1 DEF Discard, Typed, TrayOK, LineOK, InboxOK
    <3>3. QED
      BY <3>1, <3>2
  <2>5. WireOK'
    BY <1>6, KeptTypes DEF SettleUnstarted
  <2>6. QED
    BY <1>1, <1>6, <2>1, <2>4, <2>5, KeptTypes DEF SettleUnstarted, Typed, cliVars
<1>7. ASSUME SettleExit PROVE Typed'
  <2>1. inbox # <<>> /\ Take
    BY <1>7 DEF SettleExit, InboxReady
  <2>2. ObjectOK' /\ processor' \in Processing
    BY <1>7 DEF SettleExit, Typed, ObjectOK, Processing
  <2>3. TrayOK'
    BY <1>7 DEF SettleExit, UnsentTray, Typed, TrayOK
  <2>4. QED
    BY <1>1, <1>7, <2>1, <2>2, <2>3, KeptTypes DEF SettleExit, Typed, sending, cliVars
<1>8. QED
  BY <1>2, <1>3, <1>4, <1>5, <1>6, <1>7 DEF InboxStep

LEMMA NewObjectTypes ==
  ASSUME Typed, NewObject
  PROVE  /\ epoch' \in Nat /\ idleEpoch' \in Nat \union {None}
         /\ intent' \in [Msg -> {"none", "drop", "now"}] /\ InboxOK'
BY DEF NewObject, InboxOK, Ready, Processing

LEMMA ConnectionTypes ==
  ASSUME Typed, Evict \/ EvictionStep \/ Connect \/ Reconnect \/ ReconnectFails
  PROVE  Typed'
<1>1. ASSUME Evict PROVE Typed'
  <2>1. WireOK'
    <3>1. CASE actor
      <4>1. [kind |-> "disconnect"] \in Order /\ [kind |-> "disconnect"].kind # "query"
        BY DEF Order
      <4>2. commands' = Append(commands, [kind |-> "disconnect"]) /\ UNCHANGED <<reply, delivery>>
        BY <1>1, <3>1 DEF Evict, sending
      <4>3. QED
        BY <4>1, <4>2, OrderTypes DEF Typed
    <3>2. CASE ~actor
      BY <1>1, <3>2, KeptTypes DEF Evict, sending, wire
    <3>3. QED
      BY <3>1, <3>2 DEF Typed, ObjectOK
  <2>2. ObjectOK'
    BY <1>1 DEF Evict, Typed, ObjectOK
  <2>3. QED
    BY <1>1, <2>1, <2>2, KeptTypes DEF Evict, Typed, trayVars, cliVars
<1>2. ASSUME Disconnected PROVE Typed'
  <2>1. ObjectOK'
    BY <1>2 DEF Disconnected, Typed, ObjectOK
  <2>2. QED
    BY <1>2, <2>1, KeptTypes DEF Disconnected, Typed, trayVars, sending, cliVars
<1>3. ASSUME Connect PROVE Typed'
  <2>1. ObjectOK' /\ CliOK'
    BY <1>3 DEF Connect, StartActor, Typed, ObjectOK, CliOK
  <2>2. QED
    BY <1>3, <2>1, KeptTypes DEF Connect, Typed, trayVars, sending
<1>4. ASSUME Reconnect PROVE Typed'
  <2>1. ObjectOK' /\ CliOK'
    BY <1>4, NewObjectTypes DEF Reconnect, StartActor, Typed, ObjectOK, CliOK
  <2>2. TrayOK'
    BY <1>4, NewObjectTypes DEF Reconnect, UnsentTray, Typed, TrayOK
  <2>3. QED
    BY <1>4, <2>1, <2>2, NewObjectTypes, KeptTypes DEF Reconnect, Typed, sending
<1>5. ASSUME Evicted \/ ReconnectFails PROVE Typed'
  <2>1. ObjectOK' /\ InboxOK'
    BY <1>5, NewObjectTypes DEF Evicted, ReconnectFails, Typed, ObjectOK
  <2>2. TrayOK'
    BY <1>5, NewObjectTypes DEF Evicted, ReconnectFails, Discard, Typed, TrayOK
  <2>3. LogOK'
    BY <1>5 DEF Evicted, ReconnectFails, Typed, LogOK
  <2>4. UNCHANGED <<sending, wire, cliVars>>
    BY <1>5 DEF Evicted, ReconnectFails
  <2>5. QED
    BY <2>1, <2>2, <2>3, <2>4, KeptTypes DEF Typed, sending, cliVars
<1>6. QED
  BY <1>1, <1>2, <1>3, <1>4, <1>5 DEF EvictionStep

(* What the CLI says is put behind what was not read.                      *)
LEMMA SaysTypes ==
  ASSUME CliOK, NEW frames \in Seq(Said), Says(frames)
  PROVE  pipe' \in Seq(Said)
BY ConcatFacts DEF Says, CliOK

LEMMA CliTypes ==
  ASSUME Typed, CliStep
  PROVE  Typed'
<1>1. ASSUME NEW x \in Said PROVE <<x>> \in Seq(Said)
  BY <1>1, OneFacts
<1>2. /\ [kind |-> "working"] \in Said /\ [kind |-> "idle"] \in Said
      /\ \A u \in Uuids, kind \in {"started", "cancelled", "discarded"} : [kind |-> kind, of |-> u] \in Said
  BY DEF Said
<1>3. ASSUME NEW u \in cliQueue, CliFetch(u) PROVE Session' = Session /\ CliOK'
  BY <1>3 DEF CliFetch, Typed, CliOK
<1>4. ASSUME NEW u \in held, CliStart(u) PROVE Session' = Session /\ CliOK'
  <2>1. u \in Uuids
    BY DEF Typed, CliOK
  <2>2. DEFINE frames == (IF cli = "idle" THEN <<[kind |-> "working"]>> ELSE <<>>)
                           \o <<[kind |-> "started", of |-> u]>>
  <2>3. frames \in Seq(Said)
    <3>1. (IF cli = "idle" THEN <<[kind |-> "working"]>> ELSE <<>>) \in Seq(Said)
      BY <1>1, <1>2
    <3>2. <<[kind |-> "started", of |-> u]>> \in Seq(Said)
      BY <1>1, <1>2, <2>1
    <3>3. QED
      BY <3>1, <3>2, ConcatFacts
  <2>4. Says(frames)
    BY <1>4 DEF CliStart
  <2>5. pipe' \in Seq(Said)
    BY <2>3, <2>4, SaysTypes DEF Typed
  <2>6. QED
    BY <1>4, <2>1, <2>5 DEF CliStart, Typed, CliOK
<1>5. ASSUME NEW u \in Uuids, NEW kind \in {"cancelled", "discarded"}, CliDrops(u, kind) \/ CliAborts(u)
      PROVE  Session' = Session /\ CliOK'
  <2>1. PICK k \in {"cancelled", "discarded"} : Says(<<[kind |-> k, of |-> u]>>)
    BY <1>5 DEF CliDrops, CliAborts
  <2>2. pipe' \in Seq(Said)
    BY <1>1, <1>2, <2>1, SaysTypes DEF Typed
  <2>3. QED
    BY <1>5, <2>2 DEF CliDrops, CliAborts, Typed, CliOK
<1>6. ASSUME CliIdles \/ CliWorks PROVE Session' = Session /\ CliOK'
  <2>1. pipe' \in Seq(Said)
    BY <1>1, <1>2, <1>6, SaysTypes DEF CliIdles, CliWorks, Typed
  <2>2. QED
    BY <1>6, <2>1 DEF CliIdles, CliWorks, Typed, CliOK
<1>7. ASSUME CliDies PROVE Session' = Session /\ CliOK'
  BY <1>7 DEF CliDies, Typed, CliOK
<1>8. Session' = Session /\ CliOK'
  <2>1. held \subseteq Uuids /\ open \subseteq Uuids
    BY DEF Typed, CliOK
  <2>2. QED
    BY <1>3, <1>4, <1>5, <1>6, <1>7, <2>1 DEF CliStep, CliTakes
<1>9. QED
  BY <1>8, KeptTypes DEF Session, Typed, trayVars, sending

LEMMA InitTypes == Init => Typed
<1>1. SUFFICES ASSUME Init PROVE Typed
  OBVIOUS
<1>2. ObjectOK /\ CliOK /\ LogOK /\ InboxOK
  <2>1. ObjectOK /\ LogOK
    BY <1>1 DEF Init, ObjectOK, LogOK
  <2>2. CliOK
    BY <1>1 DEF Init, CliOK
  <2>3. InboxOK
    BY <1>1 DEF Init, InboxOK, Ready, Processing
  <2>4. QED
    BY <2>1, <2>2, <2>3
<1>3. TrayOK
  BY <1>1 DEF Init, TrayOK, NoAsk, Asked
<1>4. LineOK
  BY <1>1 DEF Init, LineOK, NoDelivery, Delivering
<1>5. WireOK
  BY <1>1, <1>4 DEF Init, WireOK
<1>6. QED
  BY <1>2, <1>3, <1>4, <1>5 DEF Typed

LEMMA NextTypes == Typed /\ [Next]_vars => Typed'
<1>1. SUFFICES ASSUME Typed, [Next]_vars PROVE Typed'
  OBVIOUS
<1>2. CASE UNCHANGED vars
  <2>1. /\ UNCHANGED <<object, meta>> /\ UNCHANGED <<tray, attempt, intent, asking, keyHeld>>
        /\ UNCHANGED sending /\ UNCHANGED <<wire, delivery>> /\ UNCHANGED inboxVars
        /\ UNCHANGED <<cli, cliQueue, held, open, pipe>> /\ UNCHANGED logVars
    BY <1>2 DEF vars, trayVars, sending, cliVars
  <2>2. QED
    BY <1>1, <2>1, KeptTypes DEF Typed
<1>3. CASE Next
  BY <1>1, <1>3, UserTypes, AnswerTypes, HolderTypes, ActorTypes, InboxTypes, ConnectionTypes, CliTypes
  DEF Next
<1>4. QED
  BY <1>1, <1>2, <1>3

(* AgentTypeCorrect: every variable of the session object, of its actor    *)
(* and of its CLI has its type, and a delivery has a holder of the lock.   *)
THEOREM AgentTypeCorrect == Spec => []TypeOK
<1>1. Init => Typed
  BY InitTypes
<1>2. Typed /\ [Next]_vars => Typed'
  BY NextTypes
<1>3. Typed => TypeOK
  BY TypeParts
<1>4. QED
  BY <1>1, <1>2, <1>3, PTL DEF Spec
-----------------------------------------------------------------------------
(* Where a delivery is.  It is at the CLI, in the hands of the holder of   *)
(* the lock, waiting for the lock, or spent: the CLI has started it or has *)
(* let go of it, and what it said of it is not settled.                    *)
Fates == {"started", "cancelled", "discarded"}
Of(s) == {x.of : x \in {y \in ToSet(s) : y.kind \in Fates}}

AtCli == cliQueue \union held
InHand == IF delivery.phase = "none" THEN {} ELSE {Uuid(Head(line).msg)}
Again == {i \in 1..Len(line) : line[i].op \in {"now", "again"} /\ (i > 1 \/ delivery.phase = "none")}
Waiting == {<<line[i].msg, line[i].uuid>> : i \in Again}
Spent == Of(pipe) \union Of(inbox) \union open

(* When the actor has ended there is no CLI.                               *)
GoneInv ==
  /\ ~actor => /\ cli = "gone" /\ cliQueue = {} /\ held = {} /\ open = {}
               /\ pipe = <<>> /\ commands = <<>>
  /\ residence \in {"cold", "closing"} => ~actor
  /\ residence = "cold" => /\ line = <<>> /\ inbox = <<>> /\ processor = Ready
                           /\ \A m \in Msg : reply[m] = "none"
  /\ actor => /\ \A x \in ToSet(inbox) : x.kind # "exit"
              /\ processor.at \notin {"ending", "done"}

(* A delivery is in one place, and numbered no higher than its message.    *)
PlaceInv ==
  /\ \A u \in AtCli \union InHand \union Waiting \union Spent : u \in Uuids /\ u[2] <= attempt[u[1]]
  /\ cliQueue \intersect held = {}
  /\ AtCli \intersect (InHand \union Waiting \union Spent) = {}
  /\ Spent \intersect (InHand \union Waiting) = {}
  /\ InHand \intersect Waiting = {}
AgainInv == \A i, j \in Again : line[i].msg = line[j].msg /\ line[i].uuid = line[j].uuid => i = j

(* What the CLI may start is the last delivery of a message shown as       *)
(* queued, and while there is an actor nothing else is under way.          *)
ShownInv ==
  /\ \A u \in AtCli : tray[u[1]] = "queued" /\ Uuid(u[1]) = u
  /\ actor => \A m \in Msg : InTray(m) /\ Uuid(m) \in Waiting \union Spent => tray[m] = "queued"
  /\ actor /\ delivery.phase \in {"meta", "query"} => tray[Head(line).msg] = "queued"
  /\ \A c \in ToSet(commands) : c.kind = "query" => c.of = Uuid(Head(line).msg)

(* A withdrawal is asked for once, and the request is in one place.        *)
InLine(m) == {i \in 1..Len(line) : line[i].op = "cancel" /\ line[i].msg = m}
Sent(m) == {i \in 1..Len(commands) : commands[i].kind = "cancel" /\ commands[i].of[1] = m}
Pending(m) == InLine(m) # {} \/ Sent(m) # {} \/ reply[m] # "none"

AskInv == \A m \in Msg :
  /\ asking[m] = NoAsk => ~Pending(m)
  /\ \A i, j \in InLine(m) : i = j
  /\ \A i, j \in Sent(m) : i = j
  /\ InLine(m) # {} => Sent(m) = {} /\ reply[m] = "none"
  /\ Sent(m) # {} => reply[m] = "none"

(* A message the CLI gave back is not settled before the answer is.        *)
YesInv == \A m \in Msg : reply[m] = "yes" =>
  /\ actor
  /\ InTray(m) /\ asking[m].for \in {"drop", "now"} =>
       tray[m] = "queued" /\ Uuid(m) \in Of(pipe) /\ Uuid(m) \notin Of(inbox)

IntentInv == \A m \in Msg :
  actor /\ Pending(m) /\ asking[m].for = "drop" /\ InTray(m) => intent[m] = "drop"

(* A key is held for what is in the tray and for what was heard.           *)
KeyInv ==
  /\ \A m \in Msg : InTray(m) => keyHeld[m]
  /\ \A m \in heard : keyHeld[m] /\ ~InTray(m)
  /\ delivery.phase \in {"meta", "query", "refused"} => Head(line).msg \notin heard

(* After the end of the actor only the holder's message is called queued.  *)
EndInv == \A m \in Msg :
  processor.at \in {"ending", "done"} /\ tray[m] = "queued"
    => delivery.phase \in {"meta", "refused"} /\ m = Head(line).msg

Inv == GoneInv /\ PlaceInv /\ AgainInv /\ ShownInv /\ AskInv /\ YesInv /\ IntentInv /\ KeyInv /\ EndInv

-----------------------------------------------------------------------------
(* How steps change where deliveries are.                                  *)
LEMMA OfFacts ==
  ASSUME NEW S, NEW s \in Seq(S)
  PROVE  /\ Of(<<>>) = {}
         /\ \A x \in S : /\ Of(<<x>>) = IF x.kind \in Fates THEN {x.of} ELSE {}
                         /\ Of(Append(s, x)) = Of(s) \union (IF x.kind \in Fates THEN {x.of} ELSE {})
         /\ s # <<>> => /\ Of(Tail(s)) \subseteq Of(s)
                        /\ Head(s).kind \in Fates => Head(s).of \in Of(s)
         /\ \A t \in Seq(S) : Of(s \o t) = Of(s) \union Of(t)
<1>1. Of(<<>>) = {}
  BY DEF Of, ToSet
<1>2. ASSUME NEW x \in S
      PROVE  /\ Of(<<x>>) = IF x.kind \in Fates THEN {x.of} ELSE {}
             /\ Of(Append(s, x)) = Of(s) \union (IF x.kind \in Fates THEN {x.of} ELSE {})
  <2>1. ToSet(<<x>>) = {x} /\ ToSet(Append(s, x)) = ToSet(s) \union {x}
    BY OneFacts, AppendFacts
  <2>2. QED
    BY <2>1 DEF Of
<1>3. ASSUME s # <<>>
      PROVE  Of(Tail(s)) \subseteq Of(s) /\ (Head(s).kind \in Fates => Head(s).of \in Of(s))
  <2>1. ToSet(s) = {Head(s)} \union ToSet(Tail(s))
    BY <1>3, TailFacts
  <2>2. QED
    BY <2>1 DEF Of
<1>4. ASSUME NEW t \in Seq(S) PROVE Of(s \o t) = Of(s) \union Of(t)
  <2>1. ToSet(s \o t) = ToSet(s) \union ToSet(t)
    BY ConcatFacts
  <2>2. QED
    BY <2>1 DEF Of
<1>5. QED
  BY <1>1, <1>2, <1>3, <1>4

LEMMA OfAppend ==
  ASSUME NEW S, NEW s \in Seq(S), NEW x \in S, NEW t, t = Append(s, x)
  PROVE  Of(t) = Of(s) \union (IF x.kind \in Fates THEN {x.of} ELSE {})
<1>1. ToSet(t) = ToSet(s) \union {x}
  BY AppendFacts
<1>2. QED
  BY <1>1 DEF Of

LEMMA OfConcat ==
  ASSUME NEW S, NEW s \in Seq(S), NEW t \in Seq(S)
  PROVE  Of(s \o t) = Of(s) \union Of(t)
<1>1. ToSet(s \o t) = ToSet(s) \union ToSet(t)
  BY ConcatFacts
<1>2. QED
  BY <1>1 DEF Of

(* A request joins the line: only one that sends again is a delivery.      *)
LEMMA JoinPlaces ==
  ASSUME LineOK, NEW j \in Entry, line' = Append(line, j), UNCHANGED delivery
  PROVE  /\ Waiting' = Waiting \union (IF j.op \in {"now", "again"} THEN {<<j.msg, j.uuid>>} ELSE {})
         /\ AgainInv /\ (j.op \in {"now", "again"} => <<j.msg, j.uuid>> \notin Waiting) => AgainInv'
         /\ delivery.phase # "none" => Head(line)' = Head(line)
         /\ \A m \in Msg : InLine(m)' = InLine(m) \union
              (IF j.op = "cancel" /\ j.msg = m THEN {Len(line) + 1} ELSE {})
         /\ \A m \in Msg : Len(line) + 1 \notin InLine(m)
<1>1. /\ Len(line') = Len(line) + 1 /\ Len(line) \in Nat
      /\ \A i \in 1..Len(line) : line'[i] = line[i]
      /\ line'[Len(line) + 1] = j
      /\ line # <<>> => Head(line') = Head(line)
  BY AppendFacts DEF LineOK
<1>2. Len(line) = 0 => line = <<>>
  BY DEF LineOK
<1>3. Again' = Again \union (IF j.op \in {"now", "again"} THEN {Len(line) + 1} ELSE {})
  BY <1>1, <1>2 DEF Again, LineOK
<1>4. \A i \in Again : i \in 1..Len(line) /\ line'[i] = line[i]
  BY <1>1 DEF Again
<1>5. Waiting' = Waiting \union (IF j.op \in {"now", "again"} THEN {<<j.msg, j.uuid>>} ELSE {})
  BY <1>1, <1>3, <1>4 DEF Waiting
<1>6. \A i \in Again : <<line[i].msg, line[i].uuid>> \in Waiting
  BY DEF Waiting
<1>7. AgainInv /\ (j.op \in {"now", "again"} => <<j.msg, j.uuid>> \notin Waiting) => AgainInv'
  BY <1>1, <1>3, <1>4, <1>6 DEF AgainInv
<1>8. ASSUME NEW m \in Msg
      PROVE  /\ InLine(m)' = InLine(m) \union (IF j.op = "cancel" /\ j.msg = m THEN {Len(line) + 1} ELSE {})
             /\ Len(line) + 1 \notin InLine(m)
  BY <1>1 DEF InLine
<1>9. QED
  BY <1>1, <1>5, <1>7, <1>8 DEF LineOK

(* The holder leaves: it has nothing in hand, and the others move up.      *)
LEMMA LeavePlaces ==
  ASSUME LineOK, InboxOK, line # <<>>, LeaveLine
  PROVE  /\ InHand' = {} /\ Waiting' \subseteq Waiting /\ delivery'.phase = "none"
         /\ AgainInv => AgainInv'
         /\ \A m \in Msg : \A i \in InLine(m)' : i \in Nat /\ i + 1 \in InLine(m)
         /\ 1 \in 1..Len(line) /\ Head(line) = line[1]
<1>1. line' = Tail(line) /\ delivery'.phase = "none"
  BY LeaveTypes
<1>2. /\ Len(line') = Len(line) - 1 /\ Len(line) \in Nat \ {0} /\ Head(line) = line[1]
      /\ \A i \in 1..Len(line') : line'[i] = line[i + 1]
  BY <1>1, TailFacts DEF LineOK
<1>3. \A i \in Again' : i \in Nat /\ i + 1 \in Again /\ line'[i] = line[i + 1]
  BY <1>2 DEF Again
<1>4. Waiting' \subseteq Waiting
  BY <1>3 DEF Waiting
<1>5. AgainInv => AgainInv'
  BY <1>3 DEF AgainInv
<1>6. \A m \in Msg : \A i \in InLine(m)' : i \in Nat /\ i + 1 \in InLine(m)
  BY <1>2 DEF InLine
<1>7. QED
  BY <1>1, <1>2, <1>4, <1>5, <1>6 DEF InHand

(* The delivery of the holder moves on, or begins.                         *)
LEMMA PhasePlaces ==
  ASSUME LineOK, UNCHANGED line
  PROVE  /\ \A m \in Msg : InLine(m)' = InLine(m)
         /\ (delivery'.phase = "none" <=> delivery.phase = "none") => Waiting' = Waiting
                                                                     /\ (AgainInv => AgainInv')
         /\ delivery'.phase # "none" => Waiting' \subseteq Waiting /\ (AgainInv => AgainInv')
BY DEF InLine, Waiting, Again, AgainInv

(* What is sent again is in hand from here on.                             *)
LEMMA TakeUpPlaces ==
  ASSUME LineOK, AgainInv, line # <<>>, UNCHANGED line, delivery.phase = "none", delivery'.phase # "none",
         Head(line).op \in {"now", "again"}
  PROVE  <<Head(line).msg, Head(line).uuid>> \in Waiting /\ <<Head(line).msg, Head(line).uuid>> \notin Waiting'
<1>1. Len(line) \in Nat \ {0} /\ Head(line) = line[1]
  BY TailFacts DEF LineOK
<1>2. 1 \in Again /\ 1 \notin Again' /\ Again' \subseteq Again
  BY <1>1 DEF Again
<1>3. ASSUME NEW i \in Again', line[i].msg = line[1].msg, line[i].uuid = line[1].uuid PROVE FALSE
  BY <1>2, <1>3 DEF AgainInv
<1>4. <<Head(line).msg, Head(line).uuid>> \in Waiting
  BY <1>1, <1>2 DEF Waiting
<1>5. <<Head(line).msg, Head(line).uuid>> \notin Waiting'
  BY <1>1, <1>3 DEF Waiting
<1>6. QED
  BY <1>4, <1>5

(* Commands join and leave the queue of the actor.                         *)
LEMMA OrderPlaces ==
  ASSUME WireOK
  PROVE  /\ \A c \in Order : commands' = Append(commands, c) =>
              /\ ToSet(commands)' = ToSet(commands) \union {c}
              /\ \A m \in Msg : /\ Sent(m)' = Sent(m) \union
                                    (IF c.kind = "cancel" /\ c.of[1] = m THEN {Len(commands) + 1} ELSE {})
                                /\ Len(commands) + 1 \notin Sent(m)
         /\ commands # <<>> /\ commands' = Tail(commands) =>
              /\ ToSet(commands)' \subseteq ToSet(commands) /\ Head(commands) \in ToSet(commands)
              /\ \A m \in Msg : \A i \in Sent(m)' : i \in Nat \ {0} /\ i + 1 \in Sent(m)
              /\ 1 \in 1..Len(commands) /\ Head(commands) = commands[1]
         /\ commands' = commands => ToSet(commands)' = ToSet(commands) /\ \A m \in Msg : Sent(m)' = Sent(m)
<1>1. ASSUME NEW c \in Order, commands' = Append(commands, c)
      PROVE  /\ ToSet(commands)' = ToSet(commands) \union {c}
             /\ \A m \in Msg : /\ Sent(m)' = Sent(m) \union
                                   (IF c.kind = "cancel" /\ c.of[1] = m THEN {Len(commands) + 1} ELSE {})
                               /\ Len(commands) + 1 \notin Sent(m)
  <2>1. /\ Len(commands') = Len(commands) + 1 /\ Len(commands) \in Nat
        /\ \A i \in 1..Len(commands) : commands'[i] = commands[i]
        /\ commands'[Len(commands) + 1] = c
        /\ ToSet(commands') = ToSet(commands) \union {c}
    BY <1>1, AppendFacts DEF WireOK
  <2>2. ToSet(commands)' = ToSet(commands')
    BY DEF ToSet
  <2>3. QED
    BY <2>1, <2>2 DEF Sent
<1>2. ASSUME commands # <<>>, commands' = Tail(commands)
      PROVE  /\ ToSet(commands)' \subseteq ToSet(commands) /\ Head(commands) \in ToSet(commands)
             /\ \A m \in Msg : \A i \in Sent(m)' : i \in Nat \ {0} /\ i + 1 \in Sent(m)
             /\ 1 \in 1..Len(commands) /\ Head(commands) = commands[1]
  <2>1. /\ Len(commands') = Len(commands) - 1 /\ Len(commands) \in Nat \ {0}
        /\ \A i \in 1..Len(commands') : commands'[i] = commands[i + 1]
        /\ Head(commands) = commands[1]
        /\ ToSet(commands) = {Head(commands)} \union ToSet(commands')
    BY <1>2, TailFacts DEF WireOK
  <2>2. ToSet(commands)' = ToSet(commands')
    BY DEF ToSet
  <2>3. QED
    BY <2>1, <2>2 DEF Sent
<1>3. ASSUME commands' = commands
      PROVE  ToSet(commands)' = ToSet(commands) /\ \A m \in Msg : Sent(m)' = Sent(m)
  BY <1>3 DEF ToSet, Sent
<1>4. QED
  BY <1>1, <1>2, <1>3

-----------------------------------------------------------------------------
(* Steps that leave a part of the invariant as it was.                     *)
LEMMA PlacesShrink ==
  ASSUME PlaceInv, UNCHANGED attempt, cliQueue' \subseteq cliQueue, held' \subseteq held,
         InHand' \subseteq InHand, Waiting' \subseteq Waiting, Spent' \subseteq Spent
  PROVE  PlaceInv'
BY DEF PlaceInv, AtCli

LEMMA ShownStays ==
  ASSUME ShownInv, UNCHANGED <<tray, attempt>>, AtCli' \subseteq AtCli, actor' => actor,
         Waiting' \subseteq Waiting, Spent' \subseteq Spent,
         delivery'.phase \in {"meta", "query"} =>
           delivery.phase \in {"meta", "query"} /\ Head(line)' = Head(line),
         \A c \in ToSet(commands)' : c.kind = "query" => c \in ToSet(commands) /\ Head(line)' = Head(line)
  PROVE  ShownInv'
BY DEF ShownInv, Uuid, InTray

LEMMA AskStays ==
  ASSUME AskInv, UNCHANGED <<asking, reply>>, \A m \in Msg : InLine(m)' = InLine(m) /\ Sent(m)' = Sent(m)
  PROVE  AskInv' /\ \A m \in Msg : Pending(m)' <=> Pending(m)
BY DEF AskInv, Pending

LEMMA YesStays ==
  ASSUME YesInv, actor' = actor,
         \A m \in Msg : reply'[m] = "yes" =>
           /\ reply[m] = "yes" /\ attempt'[m] = attempt[m] /\ asking'[m] = asking[m]
           /\ tray'[m] # "out" => tray'[m] = tray[m]
           /\ Of(pipe) \subseteq Of(pipe)' /\ Of(inbox)' \subseteq Of(inbox)
  PROVE  YesInv'
BY DEF YesInv, InTray, Uuid

LEMMA IntentStays ==
  ASSUME IntentInv, actor' => actor,
         \A m \in Msg : tray'[m] # "out" /\ Pending(m)' =>
           tray[m] # "out" /\ Pending(m) /\ asking'[m] = asking[m] /\ intent'[m] \in {"drop", intent[m]}
  PROVE  IntentInv'
BY DEF IntentInv, InTray

LEMMA KeyStays ==
  ASSUME KeyInv, UNCHANGED <<tray, keyHeld, heard>>,
         delivery'.phase \in {"meta", "query", "refused"} =>
           delivery.phase \in {"meta", "query", "refused"} /\ Head(line)' = Head(line)
  PROVE  KeyInv'
BY DEF KeyInv, InTray

LEMMA EndStays ==
  ASSUME EndInv, \A m \in Msg : tray'[m] = "queued" => tray[m] = "queued",
         processor'.at \in {"ending", "done"} => processor.at \in {"ending", "done"},
         delivery.phase \in {"meta", "refused"} =>
           delivery'.phase \in {"meta", "refused"} /\ Head(line)' = Head(line)
  PROVE  EndInv'
BY DEF EndInv

(* No action but those of the CLI and the actor changes what is at the CLI.*)
LEMMA GoneStays ==
  ASSUME GoneInv, UNCHANGED <<residence, actor, cli, cliQueue, held, open, pipe, commands, reply>>,
         residence = "cold" => UNCHANGED <<line, inbox, processor>>,
         actor => /\ \A x \in ToSet(inbox)' : x.kind # "exit"
                  /\ processor'.at \notin {"ending", "done"}
  PROVE  GoneInv'
BY DEF GoneInv

LEMMA QueryIs ==
  ASSUME Typed
  PROVE  \A c \in ToSet(commands) : c.kind = "query" => delivery.phase = "query" /\ line # <<>>
BY DEF Typed, WireOK, LineOK, ToSet

(* A message leaves the tray, or is left in it unsent.                     *)
LEMMA ShownLeaves ==
  ASSUME Typed, PlaceInv, ShownInv, NEW m \in Msg, UNCHANGED <<attempt, commands>>, actor' = actor,
         \A n \in Msg : n # m => tray'[n] = tray[n],
         tray'[m] = "out" \/ Uuid(m) \notin Waiting \union Spent,
         Uuid(m) \notin AtCli, AtCli' \subseteq AtCli, Waiting' \subseteq Waiting, Spent' \subseteq Spent,
         delivery'.phase \in {"meta", "query"} =>
           UNCHANGED <<delivery, line>> /\ (actor => Head(line).msg # m),
         UNCHANGED line \/ delivery.phase # "query"
  PROVE  ShownInv'
<1>1. \A u \in AtCli : u[1] \in Msg /\ u[1] # m
  BY DEF Typed, CliOK, AtCli, Uuids, ShownInv
<1>2. \A u \in AtCli' : tray'[u[1]] = "queued" /\ Uuid(u[1])' = u
  BY <1>1 DEF ShownInv, Uuid
<1>3. actor' => \A n \in Msg : InTray(n)' /\ Uuid(n)' \in Waiting' \union Spent' => tray'[n] = "queued"
  BY DEF ShownInv, Uuid, InTray
<1>4. actor' /\ delivery'.phase \in {"meta", "query"} => tray'[Head(line)'.msg] = "queued"
  <2>1. SUFFICES ASSUME actor', delivery'.phase \in {"meta", "query"} PROVE tray'[Head(line)'.msg] = "queued"
    OBVIOUS
  <2>2. line # <<>>
    BY <2>1 DEF Typed, LineOK
  <2>3. Head(line).msg \in Msg
    BY <2>2, HolderIs DEF Typed
  <2>4. QED
    BY <2>1, <2>3 DEF ShownInv
<1>5. \A c \in ToSet(commands)' : c.kind = "query" => c.of = Uuid(Head(line).msg)'
  BY QueryIs DEF ShownInv, Uuid, ToSet
<1>6. QED
  BY <1>2, <1>3, <1>4, <1>5 DEF ShownInv

LEMMA KeyLeaves ==
  ASSUME Typed, KeyInv, NEW m \in Msg, m \notin heard, Discard({m}), UNCHANGED heard,
         delivery'.phase \in {"meta", "query", "refused"} => UNCHANGED <<delivery, line>>
  PROVE  KeyInv'
<1>1. \A n \in Msg : /\ tray'[n] = (IF n = m THEN "out" ELSE tray[n])
                     /\ keyHeld'[n] = (IF n = m THEN FALSE ELSE keyHeld[n])
  BY DEF Discard
<1>2. heard \subseteq Msg
  BY DEF Typed, LogOK
<1>3. QED
  BY <1>1, <1>2 DEF KeyInv, InTray

-----------------------------------------------------------------------------
(* Users.                                                                  *)
LEMMA SendStep ==
  ASSUME Typed, Inv, NEW m \in Msg, Send(m) \/ Resend(m)
  PROVE  Inv'
<1>1. /\ UNCHANGED <<object, meta, trayVars, delivery, wire, inboxVars, cliVars, lives, logVars>>
      /\ residence # "cold"
  BY DEF Send, Resend
<1>2. PICK op \in {"send", "resend"} : line' = Append(line, Job(op, m, "user"))
  BY DEF Send, Resend, Enqueue
<1>3. Job(op, m, "user") \in Entry /\ Job(op, m, "user").op = op
  BY JobIs DEF Typed, Job
<1>4. /\ Waiting' = Waiting /\ AgainInv'
      /\ delivery.phase # "none" => Head(line)' = Head(line)
      /\ \A n \in Msg : InLine(n)' = InLine(n)
  BY <1>1, <1>2, <1>3, JoinPlaces DEF Typed, Inv
<1>5. /\ UNCHANGED <<tray, attempt, intent, asking, keyHeld, heard, delivery, commands, reply, inbox, processor>>
      /\ UNCHANGED <<residence, actor, cli, cliQueue, held, open, pipe>>
  BY <1>1 DEF object, trayVars, wire, inboxVars, cliVars, logVars
<1>6. InHand' = InHand /\ Spent' = Spent /\ AtCli' = AtCli
  BY <1>4, <1>5 DEF InHand, Uuid, Spent, Of, AtCli
<1>7. Of(pipe)' = Of(pipe) /\ Of(inbox)' = Of(inbox) /\ \A n \in Msg : Sent(n)' = Sent(n)
  BY <1>5 DEF Of, Sent
<1>8. GoneInv'
  BY <1>1, <1>5, GoneStays DEF Inv, GoneInv
<1>9. PlaceInv'
  BY <1>4, <1>5, <1>6, PlacesShrink DEF Inv
<1>10. ShownInv'
  BY <1>4, <1>5, <1>6, ShownStays, QueryIs DEF Inv
<1>11. AskInv' /\ \A n \in Msg : Pending(n)' <=> Pending(n)
  BY <1>4, <1>5, <1>7, AskStays DEF Inv
<1>12. YesInv' /\ IntentInv'
  BY <1>5, <1>7, <1>11, YesStays, IntentStays DEF Inv
<1>13. KeyInv' /\ EndInv'
  BY <1>4, <1>5, KeyStays, EndStays DEF Inv
<1>14. QED
  BY <1>4, <1>8, <1>9, <1>10, <1>11, <1>12, <1>13 DEF Inv

LEMMA WithdrawUnsentStep ==
  ASSUME Typed, Inv, NEW m \in Msg, WithdrawUnsent(m)
  PROVE  Inv'
<1>1. /\ UNCHANGED <<attempt, asking, line, delivery, commands, reply, inbox, processor, heard>>
      /\ UNCHANGED <<residence, actor, cli, cliQueue, held, open, pipe>>
  BY DEF WithdrawUnsent, object, sending, wire, inboxVars, cliVars, logVars
<1>2. /\ Discard({m}) /\ tray[m] = "unsent" /\ intent' = [intent EXCEPT ![m] = "drop"]
      /\ \A n \in Msg : tray'[n] = IF n = m THEN "out" ELSE tray[n]
  BY DEF WithdrawUnsent, Discard
<1>3. InHand' = InHand /\ Spent' = Spent /\ AtCli' = AtCli /\ Waiting' = Waiting /\ (AgainInv => AgainInv')
  BY <1>1 DEF InHand, Uuid, Spent, Of, AtCli, Waiting, Again, AgainInv
<1>4. /\ Of(pipe)' = Of(pipe) /\ Of(inbox)' = Of(inbox)
      /\ \A n \in Msg : InLine(n)' = InLine(n) /\ Sent(n)' = Sent(n)
  BY <1>1 DEF Of, InLine, Sent
<1>5. GoneInv'
  BY <1>1, GoneStays DEF Inv, GoneInv
<1>6. PlaceInv'
  BY <1>1, <1>3, PlacesShrink DEF Inv
<1>7. Uuid(m) \notin AtCli /\ (actor /\ delivery.phase \in {"meta", "query"} => Head(line).msg # m)
  BY <1>2 DEF Inv, ShownInv, Uuid
<1>8. ShownInv'
  BY <1>1, <1>2, <1>3, <1>7, ShownLeaves DEF Inv
<1>9. AskInv' /\ \A n \in Msg : Pending(n)' <=> Pending(n)
  BY <1>1, <1>4, AskStays DEF Inv
<1>10. YesInv'
  BY <1>1, <1>2, <1>4, YesStays DEF Inv
<1>11. IntentInv'
  BY <1>1, <1>2, <1>9, IntentStays DEF Inv, Typed, TrayOK
<1>12. KeyInv'
  BY <1>1, <1>2, KeyLeaves DEF Inv, KeyInv, InTray
<1>13. EndInv'
  BY <1>1, <1>2, EndStays DEF Inv
<1>14. QED
  BY <1>3, <1>5, <1>6, <1>8, <1>9, <1>10, <1>11, <1>12, <1>13 DEF Inv

LEMMA AskStep ==
  ASSUME Typed, Inv, NEW m \in Msg, NEW why \in {"drop", "now"}, Ask(m, why)
  PROVE  Inv'
<1>1. /\ UNCHANGED <<tray, attempt, keyHeld, delivery, commands, reply, inbox, processor, heard>>
      /\ UNCHANGED <<residence, actor, cli, cliQueue, held, open, pipe>>
      /\ residence # "cold" /\ asking[m] = NoAsk /\ intent' = [intent EXCEPT ![m] = why]
  BY DEF Ask, object, wire, inboxVars, cliVars, logVars
<1>2. ~Pending(m)
  BY <1>1 DEF Inv, AskInv
<1>3. \A n \in Msg : Sent(n)' = Sent(n)
  BY <1>1 DEF Sent
<1>4. /\ Waiting' = Waiting /\ AgainInv'
      /\ delivery.phase # "none" => Head(line)' = Head(line)
      /\ \A n \in Msg : n # m => InLine(n)' = InLine(n) /\ asking'[n] = asking[n] /\ intent'[n] = intent[n]
      /\ asking'[m] = NoAsk => InLine(m)' = InLine(m)
      /\ \A i, j \in InLine(m)' : i = j
      /\ InLine(m)' # {} => intent'[m] = why /\ asking'[m].for = why
  <2>1. CASE intent[m] # "none"
    <3>1. line' = line /\ asking' = asking
      BY <2>1 DEF Ask
    <3>2. Waiting' = Waiting /\ (AgainInv => AgainInv') /\ \A n \in Msg : InLine(n)' = InLine(n)
      BY <1>1, <3>1 DEF Waiting, Again, AgainInv, InLine
    <3>3. InLine(m) = {}
      BY <1>2 DEF Pending
    <3>4. QED
      BY <1>1, <3>1, <3>2, <3>3 DEF Inv, Typed, TrayOK
  <2>2. CASE intent[m] = "none"
    <3>1. /\ line' = Append(line, Job("cancel", m, "user"))
          /\ asking' = [asking EXCEPT ![m] = [for |-> why, uuid |-> attempt[m]]]
      BY <2>2 DEF Ask, Enqueue
    <3>2. /\ Job("cancel", m, "user") \in Entry /\ Job("cancel", m, "user").op = "cancel"
          /\ Job("cancel", m, "user").msg = m
      BY JobIs DEF Typed, Job
    <3>3. /\ Waiting' = Waiting /\ AgainInv'
          /\ delivery.phase # "none" => Head(line)' = Head(line)
          /\ \A n \in Msg : n # m => InLine(n)' = InLine(n)
          /\ InLine(m)' = InLine(m) \union {Len(line) + 1}
      <4>1. PICK j \in Entry : line' = Append(line, j) /\ j.op = "cancel" /\ j.msg = m
        BY <3>1, <3>2
      <4>2. LineOK /\ AgainInv /\ UNCHANGED delivery
        BY <1>1 DEF Inv, Typed
      <4>3. \A n \in Msg : InLine(n)' = InLine(n) \union (IF n = m THEN {Len(line) + 1} ELSE {})
        <5>1. \A n \in Msg : InLine(n)' = InLine(n) \union
                (IF j.op = "cancel" /\ j.msg = n THEN {Len(line) + 1} ELSE {})
          BY <4>1, <4>2, JoinPlaces
        <5>2. QED
          BY <4>1, <5>1
      <4>4. /\ Waiting' = Waiting /\ AgainInv'
            /\ delivery.phase # "none" => Head(line)' = Head(line)
        <5>1. j.op \notin {"now", "again"}
          BY <4>1
        <5>2. QED
          BY <4>1, <4>2, <5>1, JoinPlaces
      <4>5. QED
        BY <4>3, <4>4
    <3>4. InLine(m) = {}
      BY <1>2 DEF Pending
    <3>5. asking'[m].for = why /\ asking'[m] # NoAsk /\ \A n \in Msg : n # m => asking'[n] = asking[n]
      BY <3>1 DEF Typed, TrayOK, NoAsk
    <3>6. QED
      BY <1>1, <3>3, <3>4, <3>5 DEF Typed, TrayOK
  <2>3. QED
    BY <2>1, <2>2
<1>5. InHand' = InHand /\ Spent' = Spent /\ AtCli' = AtCli
  BY <1>1, <1>4 DEF InHand, Uuid, Spent, Of, AtCli
<1>6. Of(pipe)' = Of(pipe) /\ Of(inbox)' = Of(inbox)
  BY <1>1 DEF Of
<1>7. GoneInv'
  BY <1>1, GoneStays DEF Inv, GoneInv
<1>8. PlaceInv'
  BY <1>1, <1>4, <1>5, PlacesShrink DEF Inv
<1>9. ShownInv'
  BY <1>1, <1>4, <1>5, ShownStays, QueryIs DEF Inv
<1>10. AskInv'
  <2>1. reply[m] = "none" /\ Sent(m) = {}
    BY <1>2 DEF Pending
  <2>2. QED
    BY <1>1, <1>2, <1>3, <1>4, <2>1 DEF Inv, AskInv, Pending
<1>11. YesInv'
  <2>1. reply[m] # "yes"
    BY <1>2 DEF Pending
  <2>2. QED
    BY <1>1, <1>4, <1>6, <2>1 DEF Inv, YesInv, InTray, Uuid
<1>12. IntentInv'
  BY <1>1, <1>2, <1>3, <1>4 DEF Inv, IntentInv, Pending, InTray
<1>13. KeyInv' /\ EndInv'
  BY <1>1, <1>4, KeyStays, EndStays DEF Inv
<1>14. QED
  BY <1>4, <1>7, <1>8, <1>9, <1>10, <1>11, <1>12, <1>13 DEF Inv

-----------------------------------------------------------------------------
(* Answers of the CLI.                                                     *)
LEMMA AnsweredParts ==
  ASSUME Typed, AskInv, NEW m \in Msg, Answered(m), reply[m] # "none",
         \A n \in Msg : InLine(n)' = InLine(n) /\ Sent(n)' = Sent(n)
  PROVE  /\ AskInv'
         /\ \A n \in Msg : Pending(n)' => Pending(n) /\ n # m
         /\ \A n \in Msg : n # m => reply'[n] = reply[n] /\ asking'[n] = asking[n]
         /\ reply'[m] = "none"
<1>1. /\ \A n \in Msg : n # m => reply'[n] = reply[n] /\ asking'[n] = asking[n]
      /\ reply'[m] = "none" /\ asking'[m] = NoAsk
  BY DEF Answered, Typed, WireOK, TrayOK
<1>2. Sent(m) = {} /\ InLine(m) = {}
  BY DEF AskInv
<1>3. QED
  BY <1>1, <1>2 DEF AskInv, Pending

(* Sent again, a message has a number none of its deliveries had.          *)
LEMMA RequeueParts ==
  ASSUME Typed, PlaceInv, AgainInv, ShownInv, NEW m \in Msg, InTray(m), Uuid(m) \in Spent,
         NEW op \in {"now", "again"}, NEW by \in {"user", "inbox"}, Requeue(m, op, by), actor' = actor,
         UNCHANGED <<tray, delivery, commands, cliQueue, held>>, Spent' \subseteq Spent
  PROVE  /\ PlaceInv' /\ AgainInv' /\ ShownInv'
         /\ delivery.phase # "none" => Head(line)' = Head(line) /\ Head(line).msg # m
         /\ \A n \in Msg : InLine(n)' = InLine(n)
         /\ \A n \in Msg : n # m => attempt'[n] = attempt[n] /\ intent'[n] = intent[n]
<1>1. /\ attempt'[m] = attempt[m] + 1 /\ attempt[m] \in Nat /\ \A n \in Msg : n # m => attempt'[n] = attempt[n]
      /\ \A n \in Msg : n # m => intent'[n] = intent[n]
  BY DEF Requeue, Typed, TrayOK
<1>2. DEFINE v == <<m, attempt[m] + 1>>
<1>3. v \notin AtCli \union InHand \union Waiting \union Spent /\ v \in Uuids /\ v = Uuid(m)'
  BY <1>1 DEF PlaceInv, Uuids, Uuid
<1>4. /\ [op |-> op, msg |-> m, by |-> by, uuid |-> attempt[m] + 1] \in Entry
      /\ line' = Append(line, [op |-> op, msg |-> m, by |-> by, uuid |-> attempt[m] + 1])
  BY <1>1 DEF Requeue, Entry
<1>5. PICK j \in Entry : line' = Append(line, j) /\ j.op \in {"now", "again"} /\ <<j.msg, j.uuid>> = v
  BY <1>4
<1>6. LineOK /\ UNCHANGED delivery
  BY DEF Typed
<1>7. /\ Waiting' = Waiting \union {v} /\ AgainInv'
      /\ delivery.phase # "none" => Head(line)' = Head(line)
  BY <1>3, <1>5, <1>6, JoinPlaces
<1>8. \A n \in Msg : InLine(n)' = InLine(n)
  <2>1. \A n \in Msg : InLine(n)' = InLine(n) \union
          (IF j.op = "cancel" /\ j.msg = n THEN {Len(line) + 1} ELSE {})
    BY <1>5, <1>6, JoinPlaces
  <2>2. QED
    BY <1>5, <2>1
<1>9. delivery.phase # "none" => Head(line).msg # m
  <2>1. delivery.phase # "none" => Uuid(Head(line).msg) \in InHand
    BY DEF InHand
  <2>2. QED
    BY <2>1 DEF PlaceInv
<1>10. InHand' = InHand
  <2>1. CASE delivery.phase = "none"
    BY <2>1 DEF InHand
  <2>2. CASE delivery.phase # "none"
    <3>1. Head(line).msg \in Msg
      BY <2>2, HolderIs DEF Typed, LineOK
    <3>2. QED
      BY <1>1, <1>7, <1>9, <2>2, <3>1 DEF InHand, Uuid
  <2>3. QED
    BY <2>1, <2>2
<1>11. AtCli' = AtCli /\ \A u \in AtCli : u[1] \in Msg /\ u[1] # m
  <2>1. \A u \in AtCli : u[1] \in Msg /\ Uuid(u[1]) = u /\ u \notin Spent
    BY DEF PlaceInv, ShownInv, Uuids
  <2>2. QED
    BY <2>1 DEF AtCli
<1>12. PlaceInv'
  <2>1. \A u \in AtCli \union InHand \union Waiting \union Spent :
          u \in Uuids /\ u[2] <= attempt[u[1]] /\ attempt'[u[1]] \in {attempt[u[1]], attempt[u[1]] + 1}
          /\ attempt[u[1]] \in Nat
    BY <1>1 DEF PlaceInv, Uuids, Typed, TrayOK
  <2>2. \A u \in AtCli' \union InHand' \union Waiting' \union Spent' : u \in Uuids /\ u[2] <= attempt'[u[1]]
    BY <1>1, <1>3, <1>7, <1>10, <1>11, <2>1 DEF Uuids
  <2>3. QED
    BY <1>3, <1>7, <1>10, <1>11, <2>2 DEF PlaceInv
<1>13. ShownInv'
  <2>1. \A u \in AtCli' : tray'[u[1]] = "queued" /\ Uuid(u[1])' = u
    BY <1>1, <1>11 DEF ShownInv, Uuid
  <2>2. actor' => \A n \in Msg : InTray(n)' /\ Uuid(n)' \in Waiting' \union Spent' => tray'[n] = "queued"
    <3>1. actor => tray[m] = "queued"
      BY DEF ShownInv
    <3>2. \A n \in Msg : n # m => Uuid(n)' = Uuid(n) /\ Uuid(n) # v
      BY <1>1 DEF Uuid
    <3>3. QED
      BY <1>7, <3>1, <3>2 DEF ShownInv, InTray
  <2>3. \A c \in ToSet(commands)' : c.kind = "query" => c.of = Uuid(Head(line).msg)'
    <3>1. \A c \in ToSet(commands) : c.kind = "query" =>
            c.of = Uuid(Head(line).msg) /\ delivery.phase # "none" /\ Head(line).msg \in Msg
      BY QueryIs, HolderIs DEF ShownInv, Typed
    <3>2. QED
      BY <1>1, <1>7, <1>9, <3>1 DEF Uuid, ToSet
  <2>4. QED
    BY <1>7, <2>1, <2>2, <2>3 DEF ShownInv
<1>14. QED
  BY <1>1, <1>7, <1>8, <1>9, <1>12, <1>13

LEMMA AnswerInv ==
  ASSUME Typed, Inv, AnswerStep
  PROVE  Inv'
<1>1. ASSUME NEW m \in Msg, AnswerNo(m) PROVE Inv'
  <2>1. /\ UNCHANGED <<tray, attempt, keyHeld, line, delivery, commands, inbox, processor, heard>>
        /\ UNCHANGED <<residence, actor, cli, cliQueue, held, open, pipe>>
        /\ Answered(m) /\ reply[m] # "none"
        /\ \A n \in Msg : n # m => intent'[n] = intent[n]
    BY <1>1 DEF AnswerNo, object, sending, inboxVars, cliVars, logVars, Typed, TrayOK
  <2>2. InHand' = InHand /\ Spent' = Spent /\ AtCli' = AtCli /\ Waiting' = Waiting /\ (AgainInv => AgainInv')
    BY <2>1 DEF InHand, Uuid, Spent, Of, AtCli, Waiting, Again, AgainInv
  <2>3. /\ Of(pipe)' = Of(pipe) /\ Of(inbox)' = Of(inbox)
        /\ \A n \in Msg : InLine(n)' = InLine(n) /\ Sent(n)' = Sent(n)
    BY <2>1 DEF Of, InLine, Sent
  <2>4. /\ AskInv' /\ \A n \in Msg : Pending(n)' => Pending(n) /\ n # m
        /\ \A n \in Msg : n # m => reply'[n] = reply[n] /\ asking'[n] = asking[n]
        /\ reply'[m] = "none"
    BY <2>1, <2>3, AnsweredParts DEF Inv
  <2>5. GoneInv'
    BY <2>1, <2>4 DEF Inv, GoneInv
  <2>6. PlaceInv' /\ ShownInv'
    BY <2>1, <2>2, PlacesShrink, ShownStays DEF Inv
  <2>7. YesInv' /\ IntentInv'
    BY <2>1, <2>3, <2>4, YesStays, IntentStays DEF Inv
  <2>8. KeyInv' /\ EndInv'
    BY <2>1, KeyStays, EndStays DEF Inv
  <2>9. QED
    BY <2>2, <2>4, <2>5, <2>6, <2>7, <2>8 DEF Inv
<1>2. ASSUME NEW m \in Msg, reply[m] = "yes", asking[m].for \in {"drop", "now"}, InTray(m)
      PROVE  tray[m] = "queued" /\ Uuid(m) \in Spent /\ Uuid(m) \notin AtCli \union InHand \union Waiting /\ actor
  BY <1>2 DEF Inv, YesInv, PlaceInv, Spent
<1>3. ASSUME NEW m \in Msg, AnswerDrop(m) PROVE Inv'
  <2>1. /\ UNCHANGED <<attempt, intent, line, delivery, commands, inbox, processor, heard>>
        /\ UNCHANGED <<residence, actor, cli, cliQueue, held, open, pipe>>
        /\ Answered(m) /\ reply[m] = "yes" /\ asking[m].for = "drop" /\ InTray(m) /\ Discard({m})
        /\ \A n \in Msg : tray'[n] = IF n = m THEN "out" ELSE tray[n]
    BY <1>3 DEF AnswerDrop, Discard, object, sending, inboxVars, cliVars, logVars
  <2>2. InHand' = InHand /\ Spent' = Spent /\ AtCli' = AtCli /\ Waiting' = Waiting /\ (AgainInv => AgainInv')
    BY <2>1 DEF InHand, Uuid, Spent, Of, AtCli, Waiting, Again, AgainInv
  <2>3. /\ Of(pipe)' = Of(pipe) /\ Of(inbox)' = Of(inbox)
        /\ \A n \in Msg : InLine(n)' = InLine(n) /\ Sent(n)' = Sent(n)
    BY <2>1 DEF Of, InLine, Sent
  <2>4. /\ AskInv' /\ \A n \in Msg : Pending(n)' => Pending(n) /\ n # m
        /\ \A n \in Msg : n # m => reply'[n] = reply[n] /\ asking'[n] = asking[n]
        /\ reply'[m] = "none"
    BY <2>1, <2>3, AnsweredParts DEF Inv
  <2>5. GoneInv'
    BY <2>1, <2>4 DEF Inv, GoneInv
  <2>6. PlaceInv'
    BY <2>1, <2>2, PlacesShrink DEF Inv
  <2>7. ShownInv'
    <3>1. delivery.phase # "none" => Uuid(Head(line).msg) \in InHand
      BY DEF InHand
    <3>2. Uuid(m) \notin AtCli /\ (delivery.phase # "none" => Head(line).msg # m)
      BY <1>2, <2>1, <3>1
    <3>3. QED
      BY <2>1, <2>2, <3>2, ShownLeaves DEF Inv
  <2>8. YesInv' /\ IntentInv'
    BY <2>1, <2>3, <2>4, YesStays, IntentStays DEF Inv
  <2>9. KeyInv'
    BY <2>1, KeyLeaves DEF Inv, KeyInv
  <2>10. EndInv'
    BY <2>1, EndStays DEF Inv
  <2>11. QED
    BY <2>2, <2>4, <2>5, <2>6, <2>7, <2>8, <2>9, <2>10 DEF Inv
<1>4. ASSUME NEW m \in Msg, AnswerNow(m) PROVE Inv'
  <2>1. /\ UNCHANGED <<tray, keyHeld, delivery, commands, inbox, processor, heard>>
        /\ UNCHANGED <<residence, actor, cli, cliQueue, held, open, pipe>>
        /\ Answered(m) /\ reply[m] = "yes" /\ asking[m].for = "now" /\ InTray(m)
    BY <1>4 DEF AnswerNow, object, inboxVars, cliVars, logVars
  <2>2. /\ tray[m] = "queued" /\ Uuid(m) \in Spent
        /\ Uuid(m) \notin AtCli \union InHand \union Waiting /\ actor
    BY <1>2, <2>1
  <2>3. Spent' = Spent /\ AtCli' = AtCli
    BY <2>1 DEF Spent, Of, AtCli
  <2>4. /\ PlaceInv' /\ AgainInv' /\ ShownInv'
        /\ delivery.phase # "none" => Head(line)' = Head(line)
        /\ \A n \in Msg : InLine(n)' = InLine(n)
        /\ \A n \in Msg : n # m => attempt'[n] = attempt[n] /\ intent'[n] = intent[n]
    <3>1. CASE asking[m].uuid = attempt[m]
      <4>1. Requeue(m, "now", "user")
        BY <1>4, <3>1 DEF AnswerNow
      <4>2. QED
        BY <2>1, <2>2, <2>3, <4>1, RequeueParts DEF Inv
    <3>2. CASE asking[m].uuid # attempt[m]
      <4>1. UNCHANGED <<attempt, intent, line>>
        BY <1>4, <3>2 DEF AnswerNow
      <4>2. InHand' = InHand /\ Waiting' = Waiting /\ (AgainInv => AgainInv')
        BY <2>1, <4>1 DEF InHand, Uuid, Waiting, Again, AgainInv
      <4>3. QED
        BY <2>1, <2>3, <4>1, <4>2, PlacesShrink, ShownStays DEF Inv, InLine
    <3>3. QED
      BY <3>1, <3>2
  <2>5. Of(pipe)' = Of(pipe) /\ Of(inbox)' = Of(inbox) /\ \A n \in Msg : Sent(n)' = Sent(n)
    BY <2>1 DEF Of, Sent
  <2>6. /\ AskInv' /\ \A n \in Msg : Pending(n)' => Pending(n) /\ n # m
        /\ \A n \in Msg : n # m => reply'[n] = reply[n] /\ asking'[n] = asking[n]
        /\ reply'[m] = "none"
    BY <2>1, <2>4, <2>5, AnsweredParts DEF Inv
  <2>7. GoneInv'
    BY <2>1, <2>2, <2>6 DEF Inv, GoneInv
  <2>8. YesInv' /\ IntentInv'
    BY <2>1, <2>4, <2>5, <2>6, YesStays, IntentStays DEF Inv
  <2>9. KeyInv' /\ EndInv'
    BY <2>1, <2>4, KeyStays, EndStays DEF Inv
  <2>10. QED
    BY <2>4, <2>6, <2>7, <2>8, <2>9 DEF Inv
<1>5. QED
  BY <1>1, <1>3, <1>4 DEF AnswerStep

-----------------------------------------------------------------------------
(* The holder of the lock.                                                 *)
LEMMA LeaveInv ==
  ASSUME Typed, Inv, AnswerRetry \/ GiveUp \/ FailureWritten
  PROVE  Inv'
<1>1. /\ UNCHANGED <<tray, attempt, intent, asking, keyHeld, heard, commands, reply, inbox>>
      /\ UNCHANGED <<residence, actor, cli, cliQueue, held, open, pipe>>
      /\ LeaveLine /\ delivery.phase \in {"none", "failing"} /\ line # <<>>
  BY DEF AnswerRetry, GiveUp, FailureWritten, Holds, object, trayVars, wire, cliVars, logVars, Typed, LineOK
<1>2. LineOK /\ InboxOK
  BY DEF Typed
<1>3. Head(line).op # "cancel"
  BY <1>2 DEF AnswerRetry, GiveUp, FailureWritten, Holds, LineOK
<1>4. /\ InHand' = {} /\ Waiting' \subseteq Waiting /\ delivery'.phase = "none"
      /\ AgainInv => AgainInv'
      /\ \A m \in Msg : \A i \in InLine(m)' : i \in Nat /\ i + 1 \in InLine(m)
  BY <1>1, <1>2, LeavePlaces
<1>5. processor' \in {processor, Ready} /\ Ready.at = "ready"
  BY <1>1, <1>2, LeaveTypes DEF Ready
<1>6. Spent' = Spent /\ AtCli' = AtCli /\ Of(pipe)' = Of(pipe) /\ Of(inbox)' = Of(inbox)
      /\ \A n \in Msg : Sent(n)' = Sent(n)
  BY <1>1 DEF Spent, Of, AtCli, Sent
<1>7. GoneInv'
  BY <1>1, <1>5, GoneStays DEF Inv, GoneInv
<1>8. PlaceInv' /\ ShownInv'
  BY <1>1, <1>4, <1>6, PlacesShrink, ShownStays, QueryIs DEF Inv
<1>9. AskInv' /\ \A n \in Msg : Pending(n)' => Pending(n)
  <2>1. \A n \in Msg : (InLine(n)' # {} => InLine(n) # {}) /\ \A i, j \in InLine(n)' : i = j
    BY <1>4 DEF Inv, AskInv
  <2>2. QED
    BY <1>1, <1>6, <2>1 DEF Inv, AskInv, Pending
<1>10. YesInv' /\ IntentInv'
  BY <1>1, <1>6, <1>9, YesStays, IntentStays DEF Inv
<1>11. KeyInv' /\ EndInv'
  BY <1>1, <1>4, <1>5, KeyStays, EndStays DEF Inv
<1>12. QED
  BY <1>4, <1>7, <1>8, <1>9, <1>10, <1>11 DEF Inv

LEMMA AskCliInv ==
  ASSUME Typed, Inv, AskCli
  PROVE  Inv'
<1>1. /\ UNCHANGED <<tray, attempt, intent, asking, keyHeld, heard, inbox>>
      /\ UNCHANGED <<residence, actor, cli, cliQueue, held, open, pipe>>
      /\ LeaveLine /\ line # <<>> /\ Head(line).op = "cancel"
  BY DEF AskCli, Holds, object, trayVars, cliVars, logVars
<1>2. /\ LineOK /\ InboxOK /\ WireOK /\ delivery.phase = "none"
      /\ Head(line).msg \in Msg
  BY <1>1, HolderIs DEF Typed, LineOK
<1>3. /\ InHand' = {} /\ Waiting' \subseteq Waiting /\ delivery'.phase = "none"
      /\ AgainInv => AgainInv'
      /\ \A n \in Msg : \A i \in InLine(n)' : i \in Nat /\ i + 1 \in InLine(n)
      /\ 1 \in 1..Len(line) /\ Head(line) = line[1]
  BY <1>1, <1>2, LeavePlaces
<1>4. processor' \in {processor, Ready} /\ Ready.at = "ready"
  BY <1>1, <1>2, LeaveTypes DEF Ready
<1>5. Spent' = Spent /\ AtCli' = AtCli /\ Of(pipe)' = Of(pipe) /\ Of(inbox)' = Of(inbox)
  BY <1>1 DEF Spent, Of, AtCli
<1>6. PICK m \in Msg : m = Head(line).msg
  BY <1>2
<1>7. 1 \in InLine(m)
  BY <1>1, <1>3, <1>6 DEF InLine
<1>8. InLine(m)' = {} /\ Sent(m) = {} /\ reply[m] = "none" /\ Pending(m)
  <2>1. \A i \in InLine(m) : i = 1
    BY <1>2, <1>7 DEF Inv, AskInv
  <2>2. \A i \in InLine(m)' : i + 1 = 1 /\ i >= 1
    BY <1>2, <1>3, <2>1 DEF InLine
  <2>3. QED
    BY <1>2, <1>7, <2>2 DEF Inv, AskInv, Pending, InLine
<1>9. /\ \A n \in Msg : n # m => reply'[n] = reply[n] /\ Sent(n)' = Sent(n)
      /\ \A i, j \in Sent(m)' : i = j
      /\ reply'[m] \in {"none", "error"}
      /\ Sent(m)' # {} => reply'[m] = "none"
      /\ \A c \in ToSet(commands)' : c.kind = "query" => c \in ToSet(commands)
      /\ ~actor => commands' = commands
  <2>1. CASE actor
    <3>1. /\ commands' = Append(commands, [kind |-> "cancel", of |->
                            IF asking[m].for = "lost" THEN <<m, asking[m].uuid>> ELSE Uuid(m)])
          /\ reply' = reply
      BY <1>6, <2>1 DEF AskCli
    <3>2. (IF asking[m].for = "lost" THEN <<m, asking[m].uuid>> ELSE Uuid(m)) \in {m} \X Nat
      BY DEF Typed, TrayOK, Asked, Uuid
    <3>3. PICK of \in {m} \X Nat : commands' = Append(commands, [kind |-> "cancel", of |-> of])
      BY <3>1, <3>2
    <3>4. [kind |-> "cancel", of |-> of] \in Order /\ of[1] = m
      BY DEF Order, Uuids
    <3>5. PICK c \in Order : commands' = Append(commands, c) /\ c.kind = "cancel" /\ c.of[1] = m
      BY <3>3, <3>4
    <3>6. /\ ToSet(commands)' = ToSet(commands) \union {c}
          /\ \A n \in Msg : Sent(n)' = Sent(n) \union
               (IF c.kind = "cancel" /\ c.of[1] = n THEN {Len(commands) + 1} ELSE {})
      BY <1>2, <3>5, OrderPlaces
    <3>7. /\ \A n \in Msg : n # m => Sent(n)' = Sent(n)
          /\ Sent(m)' = {Len(commands) + 1}
      BY <1>8, <3>5, <3>6
    <3>8. QED
      BY <1>8, <2>1, <3>1, <3>5, <3>6, <3>7
  <2>2. CASE ~actor
    <3>1. commands' = commands /\ reply' = [reply EXCEPT ![m] = "error"]
      BY <1>6, <2>2 DEF AskCli
    <3>2. ToSet(commands)' = ToSet(commands) /\ \A n \in Msg : Sent(n)' = Sent(n)
      BY <1>2, <3>1, OrderPlaces
    <3>3. QED
      BY <1>2, <1>8, <3>1, <3>2 DEF WireOK
  <2>3. QED
    BY <2>1, <2>2
<1>10. \A c \in ToSet(commands) : c.kind # "query"
  BY <1>2, QueryIs
<1>11. GoneInv'
  BY <1>1, <1>4, <1>9 DEF Inv, GoneInv, ToSet
<1>12. PlaceInv' /\ ShownInv'
  BY <1>1, <1>3, <1>5, <1>9, <1>10, PlacesShrink, ShownStays DEF Inv
<1>13. AskInv' /\ \A n \in Msg : Pending(n)' => Pending(n)
  <2>1. \A n \in Msg : (InLine(n)' # {} => InLine(n) # {}) /\ \A i, j \in InLine(n)' : i = j
    BY <1>3 DEF Inv, AskInv
  <2>2. QED
    BY <1>1, <1>2, <1>8, <1>9, <2>1 DEF Inv, AskInv, Pending
<1>14. YesInv' /\ IntentInv'
  BY <1>1, <1>5, <1>9, <1>13, YesStays, IntentStays DEF Inv
<1>15. KeyInv' /\ EndInv'
  BY <1>1, <1>2, <1>3, <1>4, KeyStays, EndStays DEF Inv
<1>16. QED
  BY <1>3, <1>11, <1>12, <1>13, <1>14, <1>15 DEF Inv

(* A delivery begins, of the message of the holder.                        *)
LEMMA BeginParts ==
  ASSUME Typed, Inv, Begin, UNCHANGED heard, line # <<>>, delivery.phase = "none", Head(line).op # "cancel"
  PROVE  /\ UNCHANGED <<residence, actor, line, commands, reply, inbox, processor, cli, cliQueue, held, open, pipe>>
         /\ delivery'.phase = "meta" /\ InHand' = {Uuid(Head(line).msg)'} /\ AgainInv' /\ Waiting' \subseteq Waiting
         /\ Spent' = Spent /\ AtCli' = AtCli /\ Of(pipe)' = Of(pipe) /\ Of(inbox)' = Of(inbox)
         /\ \A n \in Msg : InLine(n)' = InLine(n) /\ Sent(n)' = Sent(n)
         /\ \A c \in ToSet(commands)' : c.kind # "query"
         /\ GoneInv'
<1>1. /\ UNCHANGED <<residence, actor, line, commands, reply, inbox, processor, cli, cliQueue, held, open, pipe>>
      /\ delivery'.phase = "meta"
  BY DEF Begin, wire, inboxVars, cliVars
<1>2. LineOK /\ WireOK
  BY DEF Typed
<1>3. AgainInv' /\ Waiting' \subseteq Waiting /\ \A n \in Msg : InLine(n)' = InLine(n)
  BY <1>1, <1>2, PhasePlaces DEF Inv
<1>4. Spent' = Spent /\ AtCli' = AtCli /\ Of(pipe)' = Of(pipe) /\ Of(inbox)' = Of(inbox)
      /\ \A n \in Msg : Sent(n)' = Sent(n)
  BY <1>1 DEF Spent, Of, AtCli, Sent
<1>5. InHand' = {Uuid(Head(line).msg)'}
  BY <1>1 DEF InHand
<1>6. \A c \in ToSet(commands)' : c.kind # "query"
  BY <1>1, QueryIs DEF ToSet
<1>7. GoneInv'
  BY <1>1, GoneStays DEF Inv, GoneInv
<1>8. QED
  BY <1>1, <1>3, <1>4, <1>5, <1>6, <1>7

(* A message of which the CLI has no delivery gets a new one.              *)
LEMMA FreshParts ==
  ASSUME Typed, Inv, Begin, UNCHANGED heard, line # <<>>, delivery.phase = "none", Head(line).op # "cancel",
         NEW m \in Msg, m = Head(line).msg, tray[m] # "queued",
         tray' = [tray EXCEPT ![m] = "queued"], attempt' = [attempt EXCEPT ![m] = @ + 1]
  PROVE  PlaceInv' /\ ShownInv' /\ EndInv'
<1>1. /\ UNCHANGED <<residence, actor, line, commands, reply, inbox, processor, cli, cliQueue, held, open, pipe>>
      /\ delivery'.phase = "meta" /\ InHand' = {Uuid(Head(line).msg)'} /\ Waiting' \subseteq Waiting
      /\ Spent' = Spent /\ AtCli' = AtCli
      /\ \A c \in ToSet(commands)' : c.kind # "query"
  BY BeginParts
<1>2. /\ attempt'[m] = attempt[m] + 1 /\ attempt[m] \in Nat /\ tray'[m] = "queued"
      /\ \A n \in Msg : n # m => attempt'[n] = attempt[n] /\ tray'[n] = tray[n]
  BY DEF Typed, TrayOK
<1>3. PICK v \in Uuids : v = <<m, attempt[m] + 1>>
  <2>1. <<m, attempt[m] + 1>> \in Uuids
    BY <1>2 DEF Uuids
  <2>2. QED
    BY <2>1
<1>4. InHand' = {v} /\ Uuid(m)' = v /\ v \notin AtCli \union InHand \union Waiting \union Spent
  BY <1>1, <1>2, <1>3 DEF Inv, PlaceInv, Uuids, Uuid
<1>5. \A u \in AtCli : u[1] \in Msg /\ u[1] # m
  BY DEF Inv, PlaceInv, ShownInv, Uuids
<1>6. PlaceInv'
  <2>1. \A u \in AtCli \union InHand \union Waiting \union Spent :
          u \in Uuids /\ u[2] <= attempt[u[1]] /\ attempt'[u[1]] \in {attempt[u[1]], attempt[u[1]] + 1}
          /\ attempt[u[1]] \in Nat
    BY <1>2 DEF Inv, PlaceInv, Uuids, Typed, TrayOK
  <2>2. \A u \in AtCli' \union InHand' \union Waiting' \union Spent' : u \in Uuids /\ u[2] <= attempt'[u[1]]
    BY <1>1, <1>2, <1>3, <1>4, <2>1 DEF Uuids
  <2>3. QED
    BY <1>1, <1>4, <2>2 DEF Inv, PlaceInv
<1>7. ShownInv'
  <2>1. \A u \in AtCli' : tray'[u[1]] = "queued" /\ Uuid(u[1])' = u
    BY <1>1, <1>2, <1>5 DEF Inv, ShownInv, Uuid
  <2>2. actor' => \A n \in Msg : InTray(n)' /\ Uuid(n)' \in Waiting' \union Spent' => tray'[n] = "queued"
    <3>1. \A n \in Msg : n # m => Uuid(n)' = Uuid(n)
      BY <1>2 DEF Uuid
    <3>2. QED
      BY <1>1, <1>2, <3>1 DEF Inv, ShownInv, InTray
  <2>3. QED
    BY <1>1, <1>2, <2>1, <2>2 DEF ShownInv
<1>8. EndInv'
  BY <1>1, <1>2 DEF Inv, EndInv
<1>9. QED
  BY <1>6, <1>7, <1>8

LEMMA RegisterSendInv ==
  ASSUME Typed, Inv, RegisterSend
  PROVE  Inv'
<1>1. line # <<>> /\ Head(line).op = "send" /\ delivery.phase = "none" /\ Begin /\ UNCHANGED heard
  BY DEF RegisterSend, Holds, Begin, logVars
<1>2. PICK m \in Msg : m = Head(line).msg
  BY <1>1, HolderIs DEF Typed
<1>3. /\ ~Known(m) /\ tray' = [tray EXCEPT ![m] = "queued"] /\ attempt' = [attempt EXCEPT ![m] = @ + 1]
      /\ intent' = [intent EXCEPT ![m] = "none"] /\ keyHeld' = [keyHeld EXCEPT ![m] = TRUE]
      /\ asking' = [asking EXCEPT ![m] = IF @ = NoAsk THEN @ ELSE [@ EXCEPT !.for = "lost"]]
  BY <1>2 DEF RegisterSend
<1>4. ~InTray(m) /\ m \notin heard
  BY <1>3 DEF Known, Inv, KeyInv
<1>5. PlaceInv' /\ ShownInv' /\ EndInv'
  BY <1>1, <1>2, <1>3, <1>4, FreshParts DEF InTray
<1>6. /\ UNCHANGED <<actor, line, commands, reply, inbox, processor>>
      /\ AgainInv' /\ GoneInv' /\ Of(pipe)' = Of(pipe) /\ Of(inbox)' = Of(inbox)
      /\ \A n \in Msg : InLine(n)' = InLine(n) /\ Sent(n)' = Sent(n)
  BY <1>1, BeginParts
<1>7. /\ \A n \in Msg : n # m => /\ attempt'[n] = attempt[n] /\ tray'[n] = tray[n] /\ asking'[n] = asking[n]
                                /\ intent'[n] = intent[n] /\ keyHeld'[n] = keyHeld[n]
      /\ keyHeld'[m] = TRUE /\ (asking'[m] = NoAsk <=> asking[m] = NoAsk)
      /\ asking[m] # NoAsk => asking'[m].for = "lost"
  BY <1>3 DEF Typed, TrayOK, Asked, NoAsk
<1>8. AskInv' /\ \A n \in Msg : Pending(n)' <=> Pending(n)
  <2>1. \A n \in Msg : Pending(n)' <=> Pending(n)
    BY <1>6 DEF Pending
  <2>2. \A n \in Msg : asking'[n] = NoAsk <=> asking[n] = NoAsk
    BY <1>7
  <2>3. QED
    BY <1>6, <2>1, <2>2 DEF Inv, AskInv
<1>9. ~Pending(m) \/ asking'[m].for = "lost"
  BY <1>7 DEF Inv, AskInv
<1>10. YesInv'
  <2>1. reply[m] = "yes" => Pending(m)
    BY DEF Pending
  <2>2. QED
    BY <1>6, <1>7, <1>9, <2>1 DEF Inv, YesInv, InTray, Uuid
<1>11. IntentInv'
  BY <1>6, <1>7, <1>8, <1>9 DEF Inv, IntentInv, InTray
<1>12. KeyInv'
  <2>1. heard \subseteq Msg
    BY DEF Typed, LogOK
  <2>2. QED
    BY <1>1, <1>2, <1>4, <1>6, <1>7, <2>1 DEF Inv, KeyInv, InTray
<1>13. QED
  BY <1>5, <1>6, <1>8, <1>10, <1>11, <1>12 DEF Inv

LEMMA RegisterResendInv ==
  ASSUME Typed, Inv, RegisterResend
  PROVE  Inv'
<1>1. line # <<>> /\ Head(line).op = "resend" /\ delivery.phase = "none" /\ Begin /\ UNCHANGED heard
  BY DEF RegisterResend, Holds, Begin, logVars
<1>2. PICK m \in Msg : m = Head(line).msg
  BY <1>1, HolderIs DEF Typed
<1>3. /\ tray[m] = "unsent" /\ tray' = [tray EXCEPT ![m] = "queued"] /\ attempt' = [attempt EXCEPT ![m] = @ + 1]
      /\ UNCHANGED <<intent, asking, keyHeld>>
  BY <1>2 DEF RegisterResend
<1>4. InTray(m) /\ m \notin heard /\ (reply[m] = "yes" => asking[m].for \notin {"drop", "now"})
  BY <1>3 DEF Inv, KeyInv, YesInv, InTray
<1>5. /\ \A n \in Msg : n # m => attempt'[n] = attempt[n] /\ tray'[n] = tray[n]
      /\ tray'[m] = "queued"
  BY <1>3 DEF Typed, TrayOK
<1>6. /\ UNCHANGED <<actor, line, commands, reply, inbox, processor>>
      /\ AgainInv' /\ GoneInv' /\ Of(pipe)' = Of(pipe) /\ Of(inbox)' = Of(inbox)
      /\ \A n \in Msg : InLine(n)' = InLine(n) /\ Sent(n)' = Sent(n)
  BY <1>1, BeginParts
<1>7. PlaceInv' /\ ShownInv' /\ EndInv'
  BY <1>1, <1>2, <1>3, <1>4, FreshParts
<1>8. AskInv' /\ \A n \in Msg : Pending(n)' <=> Pending(n)
  BY <1>3, <1>6, AskStays DEF Inv
<1>9. YesInv'
  BY <1>3, <1>4, <1>5, <1>6 DEF Inv, YesInv, InTray, Uuid
<1>10. IntentInv'
  BY <1>3, <1>4, <1>5, <1>6, <1>8 DEF Inv, IntentInv, InTray
<1>11. KeyInv'
  BY <1>1, <1>2, <1>3, <1>4, <1>5, <1>6 DEF Inv, KeyInv, InTray
<1>12. QED
  BY <1>6, <1>7, <1>8, <1>9, <1>10, <1>11 DEF Inv

LEMMA RegisterAgainInv ==
  ASSUME Typed, Inv, RegisterAgain
  PROVE  Inv'
<1>1. /\ line # <<>> /\ Head(line).op \in {"now", "again"} /\ delivery.phase = "none" /\ Begin
      /\ SameObject(Head(line)) /\ UNCHANGED <<tray, attempt, intent, asking, keyHeld, heard>>
  BY DEF RegisterAgain, Holds, Begin, logVars
<1>2. PICK m \in Msg : m = Head(line).msg
  BY <1>1, HolderIs DEF Typed
<1>3. /\ UNCHANGED <<actor, line, commands, reply, inbox, processor, cliQueue, held>>
      /\ delivery'.phase = "meta" /\ InHand' = {Uuid(Head(line).msg)'} /\ AgainInv' /\ Waiting' \subseteq Waiting
      /\ Spent' = Spent /\ AtCli' = AtCli /\ Of(pipe)' = Of(pipe) /\ Of(inbox)' = Of(inbox)
      /\ \A n \in Msg : InLine(n)' = InLine(n) /\ Sent(n)' = Sent(n)
      /\ \A c \in ToSet(commands)' : c.kind # "query"
      /\ GoneInv'
  BY <1>1, BeginParts
<1>4. InTray(m) /\ m \notin heard /\ InHand' = {Uuid(m)} /\ Uuid(m) = <<Head(line).msg, Head(line).uuid>>
  BY <1>1, <1>2, <1>3 DEF SameObject, Inv, KeyInv, Uuid
<1>5. Uuid(m) \in Waiting /\ Uuid(m) \notin Waiting'
  BY <1>1, <1>3, <1>4, TakeUpPlaces DEF Inv, Typed
<1>6. PlaceInv'
  BY <1>1, <1>3, <1>4, <1>5 DEF Inv, PlaceInv
<1>7. ShownInv'
  <2>1. actor' => tray'[Head(line)'.msg] = "queued"
    BY <1>1, <1>2, <1>3, <1>4, <1>5 DEF Inv, ShownInv
  <2>2. QED
    BY <1>1, <1>3, <2>1 DEF Inv, ShownInv, Uuid, InTray
<1>8. AskInv' /\ \A n \in Msg : Pending(n)' <=> Pending(n)
  BY <1>1, <1>3, AskStays DEF Inv
<1>9. YesInv' /\ IntentInv'
  BY <1>1, <1>3, <1>8, YesStays, IntentStays DEF Inv
<1>10. KeyInv'
  BY <1>1, <1>2, <1>3, <1>4 DEF Inv, KeyInv, InTray
<1>11. EndInv'
  BY <1>1, <1>3, EndStays DEF Inv
<1>12. QED
  BY <1>3, <1>6, <1>7, <1>8, <1>9, <1>10, <1>11 DEF Inv

LEMMA WriteRunningInv ==
  ASSUME Typed, Inv, WriteRunning
  PROVE  Inv'
<1>1. /\ UNCHANGED <<residence, actor, tray, attempt, intent, asking, keyHeld, heard, line, reply, inbox, processor>>
      /\ UNCHANGED <<cli, cliQueue, held, open, pipe>>
      /\ delivery.phase = "meta" /\ line # <<>>
  BY DEF WriteRunning, trayVars, inboxVars, cliVars, logVars, Typed, LineOK
<1>2. /\ actor => delivery'.phase = "query"
      /\ ~actor => delivery'.phase = "refused" /\ commands' = commands
  BY DEF WriteRunning, Typed, LineOK, Delivering
<1>3. LineOK /\ WireOK /\ Head(line).msg \in Msg
  BY <1>1, HolderIs DEF Typed
<1>4. Waiting' = Waiting /\ AgainInv' /\ \A n \in Msg : InLine(n)' = InLine(n)
  BY <1>1, <1>2, <1>3, PhasePlaces DEF Inv
<1>5. InHand' = InHand /\ Spent' = Spent /\ AtCli' = AtCli /\ Of(pipe)' = Of(pipe) /\ Of(inbox)' = Of(inbox)
  BY <1>1, <1>2 DEF InHand, Uuid, Spent, Of, AtCli
<1>6. /\ \A n \in Msg : Sent(n)' = Sent(n)
      /\ \A c \in ToSet(commands)' : c.kind = "query" => c.of = Uuid(Head(line).msg)
  <2>1. \A c \in ToSet(commands) : c.kind # "query"
    BY <1>1, QueryIs
  <2>2. CASE actor
    <3>1. commands' = Append(commands, [kind |-> "query", of |-> Uuid(Head(line).msg)])
      BY <2>2 DEF WriteRunning
    <3>2. [kind |-> "query", of |-> Uuid(Head(line).msg)] \in Order
      BY <1>3 DEF Order, Uuid, Uuids, Typed, TrayOK
    <3>3. PICK c \in Order : commands' = Append(commands, c) /\ c.kind = "query" /\ c.of = Uuid(Head(line).msg)
      BY <3>1, <3>2
    <3>4. /\ ToSet(commands)' = ToSet(commands) \union {c}
          /\ \A n \in Msg : Sent(n)' = Sent(n) \union
               (IF c.kind = "cancel" /\ c.of[1] = n THEN {Len(commands) + 1} ELSE {})
      BY <1>3, <3>3, OrderPlaces
    <3>5. QED
      BY <2>1, <3>3, <3>4
  <2>3. CASE ~actor
    BY <1>2, <1>3, <2>1, <2>3, OrderPlaces
  <2>4. QED
    BY <2>2, <2>3
<1>7. GoneInv'
  BY <1>1, <1>2 DEF Inv, GoneInv, ToSet
<1>8. PlaceInv'
  BY <1>1, <1>4, <1>5, PlacesShrink DEF Inv
<1>9. ShownInv'
  BY <1>1, <1>4, <1>5, <1>6 DEF Inv, ShownInv, Uuid, InTray
<1>10. AskInv' /\ \A n \in Msg : Pending(n)' <=> Pending(n)
  BY <1>1, <1>4, <1>6, AskStays DEF Inv
<1>11. YesInv' /\ IntentInv'
  BY <1>1, <1>5, <1>10, YesStays, IntentStays DEF Inv
<1>12. KeyInv'
  BY <1>1, KeyStays DEF Inv
<1>13. EndInv'
  BY <1>1, <1>2 DEF Inv, EndInv, GoneInv
<1>14. QED
  BY <1>4, <1>7, <1>8, <1>9, <1>10, <1>11, <1>12, <1>13 DEF Inv

(* A delivery fails: its message is taken back or left unsent.             *)
LEMMA UndoInv ==
  ASSUME Typed, Inv, Refused \/ MetaFails
  PROVE  Inv'
<1>1. /\ UNCHANGED <<residence, actor, attempt, intent, asking, heard, commands, reply>>
      /\ UNCHANGED <<cli, cliQueue, held, open, pipe>>
      /\ delivery.phase \in {"meta", "refused"} /\ line # <<>> /\ Undo(Head(line))
  BY DEF Refused, MetaFails, wire, cliVars, logVars, Typed, LineOK
<1>2. PICK m \in Msg : m = Head(line).msg
  BY <1>1, HolderIs DEF Typed
<1>3. LineOK /\ InboxOK /\ WireOK
  BY DEF Typed
<1>4. /\ InHand' \subseteq InHand /\ Waiting' \subseteq Waiting /\ AgainInv'
      /\ delivery'.phase \in {"none", "failing"} /\ processor'.at \in {"ready", processor.at}
      /\ \A n \in Msg : (InLine(n)' # {} => InLine(n) # {}) /\ \A i, j \in InLine(n)' : i = j
  <2>1. CASE delivery.busy
    <3>1. LeaveLine
      BY <1>1, <2>1 DEF Refused, MetaFails
    <3>2. /\ InHand' = {} /\ Waiting' \subseteq Waiting /\ delivery'.phase = "none" /\ AgainInv'
          /\ \A n \in Msg : \A i \in InLine(n)' : i \in Nat /\ i + 1 \in InLine(n)
      BY <1>1, <1>3, <3>1, LeavePlaces DEF Inv
    <3>3. processor' \in {processor, Ready} /\ Ready.at = "ready"
      BY <1>1, <1>3, <3>1, LeaveTypes DEF Ready
    <3>4. QED
      BY <3>2, <3>3 DEF Inv, AskInv
  <2>2. CASE ~delivery.busy
    <3>1. UNCHANGED <<line, processor>> /\ delivery'.phase = "failing"
      BY <1>1, <1>3, <2>2 DEF Refused, MetaFails, LineOK, Delivering
    <3>2. Waiting' = Waiting /\ AgainInv' /\ \A n \in Msg : InLine(n)' = InLine(n)
      BY <1>1, <1>3, <3>1, PhasePlaces DEF Inv
    <3>3. InHand' = InHand
      BY <1>1, <3>1 DEF InHand, Uuid
    <3>4. QED
      BY <3>1, <3>2, <3>3 DEF Inv, AskInv
  <2>3. QED
    BY <2>1, <2>2
<1>5. /\ \A n \in Msg : n # m => tray'[n] = tray[n] /\ keyHeld'[n] = keyHeld[n]
      /\ tray'[m] \in {"out", "unsent"} /\ (tray[m] = "out" => tray'[m] = "out")
      /\ Discard({m}) \/ keyHeld' = keyHeld
  BY <1>1, <1>2 DEF Undo, Discard, Typed, TrayOK
<1>6. Of(inbox)' = Of(inbox) /\ (actor => \A x \in ToSet(inbox)' : x.kind # "exit") /\ ToSet(inbox)' = ToSet(inbox')
  <2>1. CASE inbox' = inbox
    BY <2>1 DEF Of, ToSet, Inv, GoneInv
  <2>2. CASE inbox' # inbox
    <3>1. inbox' = Append(inbox, [kind |-> "idle", epoch |-> epoch])
      BY <2>2 DEF Refused, MetaFails, AbandonRunning
    <3>2. [kind |-> "idle", epoch |-> epoch] \in Item
      BY DEF Item, Typed, ObjectOK
    <3>3. PICK x \in Item : inbox' = Append(inbox, x) /\ x.kind = "idle"
      BY <3>1, <3>2
    <3>4. Of(inbox') = Of(inbox) \union (IF x.kind \in Fates THEN {x.of} ELSE {})
      BY <1>3, <3>3, OfAppend DEF InboxOK
    <3>5. ToSet(inbox') = ToSet(inbox) \union {x}
      BY <1>3, <3>3, AppendFacts DEF InboxOK
    <3>6. Of(inbox)' = Of(inbox') /\ ToSet(inbox)' = ToSet(inbox')
      BY DEF Of, ToSet
    <3>7. QED
      BY <3>3, <3>4, <3>5, <3>6 DEF Fates, Inv, GoneInv
  <2>3. QED
    BY <2>1, <2>2
<1>7. Spent' = Spent /\ AtCli' = AtCli /\ Of(pipe)' = Of(pipe) /\ \A n \in Msg : Sent(n)' = Sent(n)
  BY <1>1, <1>6 DEF Spent, Of, AtCli, Sent
<1>8. Uuid(m) \notin AtCli \union Waiting \union Spent
  BY <1>1, <1>2 DEF Inv, PlaceInv, InHand
<1>9. GoneInv'
  BY <1>1, <1>4, <1>6 DEF Inv, GoneInv
<1>10. PlaceInv'
  BY <1>1, <1>4, <1>7, PlacesShrink DEF Inv
<1>11. ShownInv'
  BY <1>1, <1>4, <1>5, <1>7, <1>8, ShownLeaves DEF Inv
<1>12. AskInv' /\ \A n \in Msg : Pending(n)' => Pending(n)
  BY <1>1, <1>4, <1>7 DEF Inv, AskInv, Pending
<1>13. YesInv'
  <2>1. Uuid(m) \notin Of(pipe)
    BY <1>8 DEF Spent
  <2>2. QED
    BY <1>1, <1>5, <1>6, <1>7, <2>1 DEF Inv, YesInv, InTray, Uuid
<1>14. IntentInv'
  <2>1. \A n \in Msg : tray'[n] # "out" => tray[n] # "out"
    BY <1>5
  <2>2. QED
    BY <1>1, <1>12, <2>1, IntentStays DEF Inv
<1>15. KeyInv'
  <2>1. m \notin heard
    BY <1>1, <1>2 DEF Inv, KeyInv
  <2>2. CASE Discard({m})
    BY <1>1, <1>4, <2>1, <2>2, KeyLeaves DEF Inv
  <2>3. CASE keyHeld' = keyHeld
    <3>1. heard \subseteq Msg
      BY DEF Typed, LogOK
    <3>2. QED
      BY <1>1, <1>4, <1>5, <2>3, <3>1 DEF Inv, KeyInv, InTray
  <2>4. QED
    BY <1>5, <2>2, <2>3
<1>16. EndInv'
  BY <1>2, <1>4, <1>5 DEF Inv, EndInv
<1>17. QED
  BY <1>4, <1>9, <1>10, <1>11, <1>12, <1>13, <1>14, <1>15, <1>16 DEF Inv

LEMMA HolderInv ==
  ASSUME Typed, Inv, HolderStep
  PROVE  Inv'
BY LeaveInv, AskCliInv, RegisterSendInv, RegisterResendInv, RegisterAgainInv, WriteRunningInv, UndoInv
DEF HolderStep, Delivered

-----------------------------------------------------------------------------
(* The actor.  It does nothing while an answer is not taken.               *)
LEMMA ReadInv ==
  ASSUME Typed, Inv, ActorReads
  PROVE  Inv'
<1>1. /\ UNCHANGED <<residence, actor, tray, attempt, intent, asking, keyHeld, heard, line, delivery>>
      /\ UNCHANGED <<commands, reply, processor, cli, cliQueue, held, open>>
      /\ ActorFree /\ pipe # <<>> /\ pipe' = Tail(pipe)
  BY DEF ActorReads, ReadIdle, ReadWorking, ReadLifecycle, Frame, object, trayVars, sending, wire, logVars
<1>2. CliOK /\ InboxOK /\ actor /\ \A n \in Msg : reply[n] # "yes"
  BY <1>1 DEF Typed, ActorFree, Answers
<1>3. Of(pipe)' \subseteq Of(pipe) /\ (Head(pipe).kind \in Fates => Head(pipe).of \in Of(pipe))
  <2>1. Of(Tail(pipe)) \subseteq Of(pipe) /\ (Head(pipe).kind \in Fates => Head(pipe).of \in Of(pipe))
    BY <1>1, <1>2, OfFacts DEF CliOK
  <2>2. Of(pipe)' = Of(Tail(pipe))
    BY <1>1 DEF Of
  <2>3. QED
    BY <2>1, <2>2
<1>4. /\ Of(inbox)' \subseteq Of(inbox) \union Of(pipe)
      /\ \A x \in ToSet(inbox)' : x.kind # "exit"
  <2>1. CASE inbox' = inbox
    BY <1>2, <2>1 DEF Of, ToSet, Inv, GoneInv
  <2>2. CASE inbox' # inbox
    <3>1. PICK x \in Item : /\ inbox' = Append(inbox, x) /\ x.kind # "exit"
                            /\ x.kind \in Fates => x.of \in Of(pipe)
      <4>1. CASE ReadIdle \/ ReadWorking
        <5>1. PICK kind \in {"idle", "busy"} : inbox' = Append(inbox, [kind |-> kind, epoch |-> epoch])
          BY <2>2, <4>1 DEF ReadIdle, ReadWorking, Notice
        <5>2. [kind |-> kind, epoch |-> epoch] \in Item
          BY DEF Item, Typed, ObjectOK
        <5>3. QED
          BY <5>1, <5>2 DEF Fates
      <4>2. CASE ReadLifecycle
        <5>1. /\ Head(pipe).kind \in {"started", "cancelled", "discarded"}
              /\ inbox' = Append(inbox, [kind |-> Head(pipe).kind, of |-> Head(pipe).of,
                                         preempted |-> urgent # {}])
          BY <2>2, <4>2 DEF ReadLifecycle, Frame
        <5>2. Head(pipe).of \in Uuids
          BY <1>1, <1>2, <5>1, FrameIs
        <5>3. [kind |-> Head(pipe).kind, of |-> Head(pipe).of, preempted |-> urgent # {}] \in Item
          BY <5>1, <5>2 DEF Item
        <5>4. QED
          BY <1>3, <5>1, <5>3 DEF Fates
      <4>3. QED
        BY <4>1, <4>2 DEF ActorReads
    <3>2. Of(inbox') = Of(inbox) \union (IF x.kind \in Fates THEN {x.of} ELSE {})
      BY <1>2, <3>1, OfAppend DEF InboxOK
    <3>3. ToSet(inbox') = ToSet(inbox) \union {x}
      BY <1>2, <3>1, AppendFacts DEF InboxOK
    <3>4. Of(inbox)' = Of(inbox') /\ ToSet(inbox)' = ToSet(inbox')
      BY DEF Of, ToSet
    <3>5. QED
      BY <1>2, <3>1, <3>2, <3>3, <3>4 DEF Inv, GoneInv
  <2>3. QED
    BY <2>1, <2>2
<1>5. InHand' = InHand /\ AtCli' = AtCli /\ Waiting' = Waiting /\ (AgainInv => AgainInv') /\ Spent' \subseteq Spent
  BY <1>1, <1>3, <1>4 DEF InHand, Uuid, Spent, AtCli, Waiting, Again, AgainInv
<1>6. \A n \in Msg : InLine(n)' = InLine(n) /\ Sent(n)' = Sent(n)
  BY <1>1 DEF InLine, Sent
<1>7. GoneInv'
  BY <1>1, <1>2, <1>4 DEF Inv, GoneInv
<1>8. PlaceInv' /\ ShownInv'
  <2>1. \A c \in ToSet(commands)' : c.kind = "query" => c \in ToSet(commands) /\ Head(line)' = Head(line)
    BY <1>1 DEF ToSet
  <2>2. QED
    BY <1>1, <1>5, <2>1, PlacesShrink, ShownStays DEF Inv
<1>9. AskInv' /\ \A n \in Msg : Pending(n)' <=> Pending(n)
  BY <1>1, <1>6, AskStays DEF Inv
<1>10. YesInv'
  BY <1>1, <1>2 DEF YesInv
<1>11. IntentInv' /\ KeyInv' /\ EndInv'
  BY <1>1, <1>9, IntentStays, KeyStays, EndStays DEF Inv
<1>12. QED
  BY <1>5, <1>7, <1>8, <1>9, <1>10, <1>11 DEF Inv

(* The message of the holder is given to the CLI.                          *)
LEMMA WriteQueryInv ==
  ASSUME Typed, Inv, WriteQuery
  PROVE  Inv'
<1>1. /\ UNCHANGED <<residence, actor, tray, attempt, intent, asking, keyHeld, heard>>
      /\ UNCHANGED <<reply, inbox, cli, held, open, pipe>>
      /\ actor /\ commands # <<>> /\ commands' = Tail(commands) /\ Head(commands).kind = "query" /\ LeaveLine
      /\ cliQueue' = cliQueue \union {Head(commands).of}
  BY DEF WriteQuery, Command, ActorFree, object, trayVars, logVars
<1>2. WireOK /\ LineOK /\ InboxOK
  BY DEF Typed
<1>3. /\ ToSet(commands)' \subseteq ToSet(commands) /\ Head(commands) \in ToSet(commands)
      /\ \A n \in Msg : \A i \in Sent(n)' : i \in Nat \ {0} /\ i + 1 \in Sent(n)
      /\ 1 \in 1..Len(commands) /\ Head(commands) = commands[1]
  BY <1>1, <1>2, OrderPlaces
<1>4. delivery.phase = "query" /\ line # <<>> /\ Head(commands).of = Uuid(Head(line).msg)
  BY <1>1, <1>3, QueryIs DEF Inv, ShownInv
<1>5. PICK m \in Msg : m = Head(line).msg
  BY <1>2, <1>4, HolderIs
<1>6. /\ InHand' = {} /\ Waiting' \subseteq Waiting /\ delivery'.phase = "none" /\ AgainInv'
      /\ \A n \in Msg : \A i \in InLine(n)' : i \in Nat /\ i + 1 \in InLine(n)
  BY <1>1, <1>2, <1>4, LeavePlaces DEF Inv
<1>7. processor' \in {processor, Ready} /\ Ready.at = "ready"
  BY <1>1, <1>2, <1>4, LeaveTypes DEF Ready
<1>8. /\ InHand = {Uuid(m)} /\ AtCli' = AtCli \union {Uuid(m)} /\ cliQueue' = cliQueue \union {Uuid(m)}
      /\ Spent' = Spent /\ Of(pipe)' = Of(pipe) /\ Of(inbox)' = Of(inbox) /\ tray[m] = "queued"
  BY <1>1, <1>4, <1>5 DEF InHand, AtCli, Spent, Of, Inv, ShownInv
<1>9. \A c \in ToSet(commands)' : c.kind # "query"
  <2>1. WireOK' /\ delivery'.phase = "none"
    BY <1>6, NextTypes DEF Next, ActorStep, ActorTakesCommand, Typed
  <2>2. QED
    BY <2>1 DEF WireOK, ToSet
<1>10. GoneInv'
  BY <1>1, <1>4, <1>7 DEF Inv, GoneInv, ToSet
<1>11. PlaceInv'
  BY <1>1, <1>6, <1>8 DEF Inv, PlaceInv, AtCli
<1>12. ShownInv'
  BY <1>1, <1>5, <1>6, <1>8, <1>9 DEF Inv, ShownInv, Uuid, InTray
<1>13. AskInv' /\ \A n \in Msg : Pending(n)' => Pending(n)
  <2>1. \A n \in Msg : /\ (InLine(n)' # {} => InLine(n) # {}) /\ \A i, j \in InLine(n)' : i = j
                       /\ (Sent(n)' # {} => Sent(n) # {}) /\ \A i, j \in Sent(n)' : i = j
    BY <1>3, <1>6 DEF Inv, AskInv
  <2>2. QED
    BY <1>1, <2>1 DEF Inv, AskInv, Pending
<1>14. YesInv' /\ IntentInv'
  BY <1>1, <1>8, <1>13, YesStays, IntentStays DEF Inv
<1>15. KeyInv' /\ EndInv'
  BY <1>1, <1>4, <1>6, <1>7, KeyStays, EndStays DEF Inv
<1>16. QED
  BY <1>6, <1>10, <1>11, <1>12, <1>13, <1>14, <1>15 DEF Inv

(* The CLI is asked to give a message back.                                *)
LEMMA AskedToCancelInv ==
  ASSUME Typed, Inv, AskedToCancel
  PROVE  Inv'
<1>1. /\ UNCHANGED <<residence, actor, tray, attempt, intent, asking, keyHeld, heard, line, delivery>>
      /\ UNCHANGED <<inbox, processor, cli, held, open>>
      /\ ActorFree /\ commands # <<>> /\ commands' = Tail(commands) /\ Head(commands).kind = "cancel"
  BY DEF AskedToCancel, Command, object, trayVars, sending, inboxVars, logVars
<1>2. /\ WireOK /\ CliOK /\ actor /\ (\A n \in Msg : reply[n] # "yes") /\ Head(commands).of \in Uuids
      /\ \A n \in Msg : reply[n] \in {"none", "yes", "no", "error"}
  BY <1>1, CommandIs DEF Typed, ActorFree, Answers, WireOK
<1>3. PICK u \in Uuids : u = Head(commands).of
  BY <1>2
<1>4. PICK m \in Msg : m = u[1]
  BY DEF Uuids
<1>5. /\ ToSet(commands)' \subseteq ToSet(commands)
      /\ \A n \in Msg : \A i \in Sent(n)' : i \in Nat \ {0} /\ i + 1 \in Sent(n)
      /\ 1 \in 1..Len(commands) /\ Head(commands) = commands[1]
  BY <1>1, <1>2, OrderPlaces
<1>6. /\ cliQueue' = cliQueue \ {u} /\ \A n \in Msg : n # m => reply'[n] = reply[n]
      /\ reply'[m] = "yes" => u \in cliQueue
  BY <1>2, <1>3, <1>4 DEF AskedToCancel, WireOK
<1>7. /\ Of(pipe)' = Of(pipe) \union (IF u \in cliQueue THEN {u} ELSE {})
      /\ \A x \in ToSet(inbox)' : x \in ToSet(inbox)
  <2>1. CASE u \in cliQueue
    <3>1. pipe' = Append(pipe, [kind |-> "cancelled", of |-> u]) /\ [kind |-> "cancelled", of |-> u] \in Said
      BY <1>3, <2>1 DEF AskedToCancel, Said
    <3>2. PICK x \in Said : pipe' = Append(pipe, x) /\ x.kind = "cancelled" /\ x.of = u
      BY <3>1
    <3>3. Of(pipe') = Of(pipe) \union (IF x.kind \in Fates THEN {x.of} ELSE {})
      BY <1>2, <3>2, OfAppend DEF CliOK
    <3>4. Of(pipe)' = Of(pipe')
      BY DEF Of
    <3>5. QED
      BY <1>1, <2>1, <3>2, <3>3, <3>4 DEF Fates, ToSet
  <2>2. CASE u \notin cliQueue
    BY <1>1, <1>3, <2>2 DEF AskedToCancel, Of, ToSet
  <2>3. QED
    BY <2>1, <2>2
<1>8. InHand' = InHand /\ Waiting' = Waiting /\ (AgainInv => AgainInv') /\ Of(inbox)' = Of(inbox)
      /\ Spent' = Spent \union (IF u \in cliQueue THEN {u} ELSE {})
      /\ AtCli' \subseteq AtCli /\ (u \in cliQueue => u \in AtCli /\ u \notin AtCli')
  <2>1. InHand' = InHand /\ Waiting' = Waiting /\ (AgainInv => AgainInv') /\ Of(inbox)' = Of(inbox)
    BY <1>1 DEF InHand, Uuid, Waiting, Again, AgainInv, Of
  <2>2. Spent' = Spent \union (IF u \in cliQueue THEN {u} ELSE {})
    BY <1>1, <1>7, <2>1 DEF Spent
  <2>3. AtCli' \subseteq AtCli /\ (u \in cliQueue => u \in AtCli /\ u \notin AtCli')
    BY <1>1, <1>6 DEF AtCli, Inv, PlaceInv
  <2>4. QED
    BY <2>1, <2>2, <2>3
<1>9. 1 \in Sent(m) /\ Pending(m) /\ InLine(m) = {}
  BY <1>1, <1>3, <1>4, <1>5 DEF Sent, Pending, Inv, AskInv
<1>10. Sent(m)' = {}
  <2>1. \A i \in Sent(m) : i = 1
    BY <1>9 DEF Inv, AskInv
  <2>2. QED
    BY <1>5, <2>1
<1>11. \A n \in Msg : InLine(n)' = InLine(n)
  BY <1>1 DEF InLine
<1>12. GoneInv'
  BY <1>1, <1>2, <1>7 DEF Inv, GoneInv
<1>13. PlaceInv'
  BY <1>1, <1>6, <1>8 DEF Inv, PlaceInv
<1>14. ShownInv'
  <2>1. u \in cliQueue => tray[m] = "queued" /\ Uuid(m) = u
    BY <1>4 DEF Inv, ShownInv, AtCli
  <2>2. \A n \in Msg : Uuid(n) = u => n = m
    BY <1>4 DEF Uuid
  <2>3. QED
    BY <1>1, <1>5, <1>8, <2>1, <2>2 DEF Inv, ShownInv, Uuid, InTray
<1>15. AskInv' /\ \A n \in Msg : Pending(n)' => Pending(n)
  <2>1. \A n \in Msg : (Sent(n)' # {} => Sent(n) # {}) /\ \A i, j \in Sent(n)' : i = j
    BY <1>5 DEF Inv, AskInv
  <2>2. QED
    BY <1>1, <1>6, <1>9, <1>10, <1>11, <2>1 DEF Inv, AskInv, Pending
<1>16. YesInv'
  <2>1. reply'[m] = "yes" => tray[m] = "queued" /\ Uuid(m) \in Of(pipe)' /\ Uuid(m) \notin Of(inbox)
    BY <1>4, <1>6, <1>7 DEF Inv, ShownInv, AtCli, PlaceInv, Spent
  <2>2. QED
    BY <1>1, <1>2, <1>6, <1>8, <2>1 DEF YesInv, InTray, Uuid
<1>17. IntentInv' /\ KeyInv' /\ EndInv'
  BY <1>1, <1>15, IntentStays, KeyStays, EndStays DEF Inv
<1>18. QED
  BY <1>8, <1>12, <1>13, <1>14, <1>15, <1>16, <1>17 DEF Inv

(* The actor ends, and with it what it had to write and to read.           *)
LEMMA ActorEndsInv ==
  ASSUME Typed, Inv, ActorFails \/ Disconnect
  PROVE  Inv'
<1>1. /\ UNCHANGED <<residence, tray, attempt, intent, asking, keyHeld, heard, line, processor>>
      /\ ActorFree /\ \E failed \in BOOLEAN : ActorEnds(failed)
  BY DEF ActorFails, Disconnect, trayVars, logVars
<1>2. PICK failed \in BOOLEAN : ActorEnds(failed)
  BY <1>1
<1>3. /\ ~actor' /\ commands' = <<>> /\ pipe' = <<>> /\ cli' = "gone"
      /\ cliQueue' = {} /\ held' = {} /\ open' = {}
      /\ inbox' = Append(inbox, [kind |-> "exit", failed |-> failed])
      /\ \A n \in Msg : reply'[n] = IF Sent(n) # {} THEN "error" ELSE reply[n]
  BY <1>2 DEF ActorEnds, Sent
<1>4. actor /\ InboxOK /\ LineOK /\ WireOK /\ \A n \in Msg : reply[n] # "yes"
  BY <1>1 DEF Typed, ActorFree, Answers
<1>5. /\ delivery'.phase = "none" <=> delivery.phase = "none"
      /\ delivery'.phase \in {"meta", "query", "refused"} => delivery.phase \in {"meta", "query", "refused"}
  BY <1>2, <1>4 DEF ActorEnds, LineOK, Delivering
<1>6. Waiting' = Waiting /\ (AgainInv => AgainInv') /\ \A n \in Msg : InLine(n)' = InLine(n)
  BY <1>1, <1>4, <1>5, PhasePlaces
<1>7. Of(inbox)' = Of(inbox)
  <2>1. [kind |-> "exit", failed |-> failed] \in Item
    BY DEF Item
  <2>2. PICK x \in Item : inbox' = Append(inbox, x) /\ x.kind = "exit"
    BY <1>3, <2>1
  <2>3. Of(inbox') = Of(inbox) \union (IF x.kind \in Fates THEN {x.of} ELSE {})
    BY <1>4, <2>2, OfAppend DEF InboxOK
  <2>4. Of(inbox)' = Of(inbox')
    BY DEF Of
  <2>5. QED
    BY <2>2, <2>3, <2>4 DEF Fates
<1>8. Of(pipe)' = {} /\ ToSet(commands)' = {} /\ \A n \in Msg : Sent(n)' = {}
  BY <1>3 DEF Of, ToSet, Sent
<1>9. InHand' = InHand /\ AtCli' = {} /\ Spent' \subseteq Spent
  BY <1>1, <1>3, <1>5, <1>7, <1>8 DEF InHand, Uuid, AtCli, Spent
<1>10. GoneInv'
  BY <1>1, <1>3, <1>4 DEF Inv, GoneInv
<1>11. PlaceInv'
  BY <1>1, <1>3, <1>6, <1>9, PlacesShrink DEF Inv
<1>12. ShownInv'
  BY <1>3, <1>8, <1>9 DEF ShownInv
<1>13. AskInv'
  BY <1>1, <1>3, <1>6, <1>8 DEF Inv, AskInv, Pending
<1>14. YesInv' /\ IntentInv'
  BY <1>3, <1>4 DEF YesInv, IntentInv
<1>15. KeyInv'
  BY <1>1, <1>5, KeyStays DEF Inv
<1>16. EndInv'
  BY <1>1, <1>4 DEF Inv, GoneInv, EndInv
<1>17. QED
  BY <1>6, <1>10, <1>11, <1>12, <1>13, <1>14, <1>15, <1>16 DEF Inv

LEMMA ActorInv ==
  ASSUME Typed, Inv, ActorStep
  PROVE  Inv'
BY ReadInv, WriteQueryInv, AskedToCancelInv, ActorEndsInv DEF ActorStep, ActorTakesCommand

-----------------------------------------------------------------------------
(* The inbox processor.                                                    *)
LEMMA TakeParts ==
  ASSUME Typed, inbox # <<>>, Take
  PROVE  /\ Of(inbox)' \subseteq Of(inbox) /\ (Head(inbox).kind \in Fates => Head(inbox).of \in Of(inbox))
         /\ ToSet(inbox)' \subseteq ToSet(inbox) /\ Head(inbox) \in ToSet(inbox)
<1>1. inbox \in Seq(Item)
  BY DEF Typed, InboxOK
<1>2. /\ Of(Tail(inbox)) \subseteq Of(inbox) /\ (Head(inbox).kind \in Fates => Head(inbox).of \in Of(inbox))
      /\ ToSet(inbox) = {Head(inbox)} \union ToSet(Tail(inbox))
  BY <1>1, OfFacts, TailFacts
<1>3. Of(inbox)' = Of(Tail(inbox)) /\ ToSet(inbox)' = ToSet(Tail(inbox))
  BY DEF Take, Of, ToSet
<1>4. QED
  BY <1>2, <1>3

(* Steps that settle the status leave the messages as they are.            *)
LEMMA StatusInv ==
  ASSUME Typed, Inv, SettleIdle \/ IdleWritten \/ RunningRewritten \/ SettleBusy \/ SettleNothing \/ EndWritten
  PROVE  Inv'
<1>1. /\ UNCHANGED <<residence, actor, tray, attempt, intent, asking, keyHeld, heard, line, delivery>>
      /\ UNCHANGED <<commands, reply, cli, cliQueue, held, open, pipe>>
      /\ (inbox # <<>> /\ Take) \/ inbox' = inbox
      /\ processor'.at \in {"ending", "done"} => processor.at \in {"ending", "done"}
      /\ inbox # <<>> \/ processor # Ready
  BY DEF SettleIdle, IdleWritten, RunningRewritten, SettleBusy, SettleNothing, EndWritten, InboxReady, Ready,
         object, trayVars, sending, wire, cliVars, logVars, Typed, InboxOK, Processing
<1>2. Of(inbox)' \subseteq Of(inbox) /\ \A x \in ToSet(inbox)' : x \in ToSet(inbox)
  <2>1. CASE inbox' = inbox
    BY <2>1 DEF Of, ToSet
  <2>2. CASE inbox # <<>> /\ Take
    BY <2>2, TakeParts
  <2>3. QED
    BY <1>1, <2>1, <2>2
<1>3. /\ InHand' = InHand /\ AtCli' = AtCli /\ Waiting' = Waiting /\ (AgainInv => AgainInv')
      /\ Of(pipe)' = Of(pipe) /\ Spent' \subseteq Spent
      /\ \A n \in Msg : InLine(n)' = InLine(n) /\ Sent(n)' = Sent(n)
  BY <1>1, <1>2 DEF InHand, Uuid, Spent, AtCli, Waiting, Again, AgainInv, Of, InLine, Sent
<1>4. \A c \in ToSet(commands)' : c.kind = "query" => c \in ToSet(commands) /\ Head(line)' = Head(line)
  BY <1>1 DEF ToSet
<1>5. GoneInv'
  BY <1>1, <1>2 DEF Inv, GoneInv
<1>6. PlaceInv' /\ ShownInv'
  BY <1>1, <1>3, <1>4, PlacesShrink, ShownStays DEF Inv
<1>7. AskInv' /\ \A n \in Msg : Pending(n)' <=> Pending(n)
  BY <1>1, <1>3, AskStays DEF Inv
<1>8. YesInv' /\ IntentInv'
  BY <1>1, <1>2, <1>3, <1>7, YesStays, IntentStays DEF Inv
<1>9. KeyInv' /\ EndInv'
  BY <1>1, KeyStays, EndStays DEF Inv
<1>10. QED
  BY <1>3, <1>5, <1>6, <1>7, <1>8, <1>9 DEF Inv

(* The item at the head is about the last delivery of its message.         *)
LEMMA SettlesParts ==
  ASSUME Typed, Inv, NEW kinds \in SUBSET Fates, Settles(kinds), Take, NEW m \in Msg, m = Head(inbox).of[1]
  PROVE  /\ InTray(m) /\ Uuid(m) \in Of(inbox) /\ Uuid(m) \in Spent /\ Uuid(m) \notin AtCli
         /\ delivery.phase # "none" => Head(line).msg # m
         /\ m \notin heard /\ residence # "cold" /\ inbox # <<>>
         /\ reply[m] = "yes" => asking[m].for \notin {"drop", "now"}
<1>1. inbox # <<>> /\ Head(inbox).kind \in Fates /\ InTray(m) /\ Uuid(m) = Head(inbox).of
  BY DEF Settles, InboxReady
<1>2. Uuid(m) \in Of(inbox)
  BY <1>1, TakeParts
<1>3. Uuid(m) \in Spent
  BY <1>2 DEF Spent
<1>4. Uuid(m) \notin AtCli /\ Uuid(m) \notin InHand
  BY <1>3 DEF Inv, PlaceInv
<1>5. QED
  BY <1>1, <1>2, <1>3, <1>4 DEF InHand, Inv, KeyInv, YesInv, GoneInv

LEMMA SettleStartedInv ==
  ASSUME Typed, Inv, SettleStarted
  PROVE  Inv'
<1>1. /\ UNCHANGED <<residence, actor, attempt, intent, asking, keyHeld, line, delivery>>
      /\ UNCHANGED <<commands, reply, processor, cli, cliQueue, held, open, pipe>>
      /\ Settles({"started"}) /\ Take /\ inbox # <<>> /\ Head(inbox).kind \in {"started"}
  BY DEF SettleStarted, Settles, InboxReady, object, sending, wire, cliVars
<1>2. PICK m \in Msg : m = Head(inbox).of[1]
  BY <1>1, ItemIs DEF Typed
<1>3. /\ InTray(m) /\ Uuid(m) \in Spent /\ Uuid(m) \notin AtCli
      /\ delivery.phase # "none" => Head(line).msg # m
      /\ residence # "cold"
  BY <1>1, <1>2, SettlesParts DEF Fates
<1>4. heard' = heard \union {m} /\ \A n \in Msg : tray'[n] = IF n = m THEN "out" ELSE tray[n]
  BY <1>2 DEF SettleStarted, Typed, TrayOK
<1>5. Of(inbox)' \subseteq Of(inbox) /\ \A x \in ToSet(inbox)' : x \in ToSet(inbox)
  BY <1>1, TakeParts
<1>6. /\ InHand' = InHand /\ AtCli' = AtCli /\ Waiting' = Waiting /\ (AgainInv => AgainInv')
      /\ Of(pipe)' = Of(pipe) /\ Spent' \subseteq Spent
      /\ \A n \in Msg : InLine(n)' = InLine(n) /\ Sent(n)' = Sent(n)
  BY <1>1, <1>5 DEF InHand, Uuid, Spent, AtCli, Waiting, Again, AgainInv, Of, InLine, Sent
<1>7. GoneInv'
  BY <1>1, <1>3, <1>5 DEF Inv, GoneInv
<1>8. PlaceInv' /\ ShownInv'
  BY <1>1, <1>3, <1>4, <1>6, PlacesShrink, ShownLeaves DEF Inv
<1>9. AskInv' /\ \A n \in Msg : Pending(n)' <=> Pending(n)
  BY <1>1, <1>6, AskStays DEF Inv
<1>10. YesInv' /\ IntentInv' /\ EndInv'
  BY <1>1, <1>4, <1>5, <1>6, <1>9, YesStays, IntentStays, EndStays DEF Inv
<1>11. KeyInv'
  BY <1>1, <1>3, <1>4 DEF Inv, KeyInv, InTray, Typed, LogOK
<1>12. QED
  BY <1>6, <1>7, <1>8, <1>9, <1>10, <1>11 DEF Inv

LEMMA SettleUnstartedInv ==
  ASSUME Typed, Inv, SettleUnstarted
  PROVE  Inv'
<1>1. /\ UNCHANGED <<residence, actor, asking, heard, delivery, commands, reply, cli, cliQueue, held, open, pipe>>
      /\ Settles({"cancelled", "discarded"}) /\ Take /\ inbox # <<>>
      /\ Head(inbox).kind \in {"cancelled", "discarded"}
  BY DEF SettleUnstarted, Settles, InboxReady, object, wire, cliVars, logVars
<1>2. PICK m \in Msg : m = Head(inbox).of[1]
  BY <1>1, ItemIs DEF Typed
<1>3. /\ InTray(m) /\ Uuid(m) \in Spent /\ Uuid(m) \notin AtCli /\ m \notin heard
      /\ delivery.phase # "none" => Head(line).msg # m
      /\ residence # "cold"
      /\ reply[m] = "yes" => asking[m].for \notin {"drop", "now"}
  BY <1>1, <1>2, SettlesParts DEF Fates
<1>4. Of(inbox)' \subseteq Of(inbox) /\ \A x \in ToSet(inbox)' : x \in ToSet(inbox)
  BY <1>1, TakeParts
<1>5. /\ AtCli' = AtCli /\ Of(pipe)' = Of(pipe) /\ Spent' \subseteq Spent
      /\ \A n \in Msg : Sent(n)' = Sent(n)
  BY <1>1, <1>4 DEF Spent, AtCli, Of, Sent
<1>6. CASE intent[m] # "drop" /\ UNCHANGED <<tray, keyHeld>> /\ processor'.at = "redelivering"
           /\ \E op \in {"now", "again"} : Requeue(m, op, "inbox")
  <2>1. PICK op \in {"now", "again"} : Requeue(m, op, "inbox")
    BY <1>6
  <2>2. /\ PlaceInv' /\ AgainInv' /\ ShownInv'
        /\ delivery.phase # "none" => Head(line)' = Head(line) /\ Head(line).msg # m
        /\ \A n \in Msg : InLine(n)' = InLine(n)
        /\ \A n \in Msg : n # m => attempt'[n] = attempt[n] /\ intent'[n] = intent[n]
    BY <1>1, <1>3, <1>5, <1>6, <2>1, RequeueParts DEF Inv
  <2>3. GoneInv'
    BY <1>1, <1>3, <1>4, <1>6 DEF Inv, GoneInv
  <2>4. AskInv' /\ \A n \in Msg : Pending(n)' <=> Pending(n)
    BY <1>1, <1>5, <2>2, AskStays DEF Inv
  <2>5. YesInv'
    BY <1>1, <1>3, <1>4, <1>5, <1>6, <2>2 DEF Inv, YesInv, InTray, Uuid
  <2>6. IntentInv'
    BY <1>1, <1>6, <2>2, <2>4 DEF Inv, IntentInv, InTray
  <2>7. KeyInv' /\ EndInv'
    BY <1>1, <1>6, <2>2, KeyStays DEF Inv, EndInv
  <2>8. QED
    BY <2>2, <2>3, <2>4, <2>5, <2>6, <2>7 DEF Inv
<1>7. CASE Discard({m}) /\ UNCHANGED <<attempt, intent, line, processor>>
  <2>1. \A n \in Msg : tray'[n] = IF n = m THEN "out" ELSE tray[n]
    BY <1>7 DEF Discard
  <2>2. /\ InHand' = InHand /\ Waiting' = Waiting /\ (AgainInv => AgainInv')
        /\ \A n \in Msg : InLine(n)' = InLine(n)
    BY <1>1, <1>7 DEF InHand, Uuid, Waiting, Again, AgainInv, InLine
  <2>3. GoneInv'
    BY <1>1, <1>3, <1>4, <1>7 DEF Inv, GoneInv
  <2>4. PlaceInv' /\ ShownInv'
    BY <1>1, <1>3, <1>5, <1>7, <2>1, <2>2, PlacesShrink, ShownLeaves DEF Inv
  <2>5. AskInv' /\ \A n \in Msg : Pending(n)' <=> Pending(n)
    BY <1>1, <1>5, <2>2, AskStays DEF Inv
  <2>6. YesInv' /\ IntentInv' /\ EndInv'
    BY <1>1, <1>4, <1>5, <1>7, <2>1, <2>5, YesStays, IntentStays, EndStays DEF Inv
  <2>7. KeyInv'
    BY <1>1, <1>3, <1>7, KeyLeaves DEF Inv
  <2>8. QED
    BY <2>2, <2>3, <2>4, <2>5, <2>6, <2>7 DEF Inv
<1>8. QED
  <2>1. DEFINE preempted == intent[m] = "none" /\ Head(inbox).preempted /\ Head(inbox).kind = "cancelled"
  <2>2. \/ /\ intent[m] = "now" \/ preempted
           /\ Requeue(m, IF preempted THEN "again" ELSE "now", "inbox")
           /\ processor' = [at |-> "redelivering", epoch |-> 0] /\ UNCHANGED <<tray, keyHeld>>
        \/ Discard({m}) /\ UNCHANGED <<attempt, intent, line, processor>>
    BY <1>2 DEF SettleUnstarted
  <2>3. QED
    BY <1>6, <1>7, <2>2

LEMMA SettleExitInv ==
  ASSUME Typed, Inv, SettleExit
  PROVE  Inv'
<1>1. /\ UNCHANGED <<residence, actor, attempt, asking, keyHeld, heard, line, delivery>>
      /\ UNCHANGED <<commands, reply, cli, cliQueue, held, open, pipe>>
      /\ Take /\ inbox # <<>> /\ Head(inbox).kind = "exit" /\ tray' = UnsentTray
  BY DEF SettleExit, InboxReady, object, sending, wire, cliVars, logVars
<1>2. Of(inbox)' \subseteq Of(inbox) /\ ToSet(inbox)' \subseteq ToSet(inbox) /\ Head(inbox) \in ToSet(inbox)
  BY <1>1, TakeParts
<1>3. ~actor /\ AtCli = {} /\ commands = <<>> /\ residence # "cold"
  BY <1>1, <1>2 DEF Inv, GoneInv, AtCli
<1>4. \A n \in Msg : tray'[n] # "queued" /\ (tray'[n] = "out" <=> tray[n] = "out")
  BY <1>1 DEF UnsentTray
<1>5. /\ InHand' = InHand /\ AtCli' = AtCli /\ Waiting' = Waiting /\ (AgainInv => AgainInv')
      /\ Spent' \subseteq Spent /\ ToSet(commands)' = {}
      /\ \A n \in Msg : InLine(n)' = InLine(n) /\ Sent(n)' = Sent(n)
  BY <1>1, <1>2, <1>3 DEF InHand, Uuid, Spent, AtCli, Waiting, Again, AgainInv, Of, InLine, Sent, ToSet
<1>6. GoneInv'
  BY <1>1, <1>3 DEF Inv, GoneInv
<1>7. PlaceInv'
  BY <1>1, <1>5, PlacesShrink DEF Inv
<1>8. ShownInv'
  BY <1>1, <1>3, <1>5 DEF ShownInv
<1>9. AskInv' /\ \A n \in Msg : Pending(n)' <=> Pending(n)
  BY <1>1, <1>5, AskStays DEF Inv
<1>10. YesInv' /\ IntentInv' /\ EndInv'
  BY <1>1, <1>3, <1>4 DEF Inv, YesInv, IntentInv, EndInv
<1>11. KeyInv'
  BY <1>1, <1>4 DEF Inv, KeyInv, InTray, Typed, LogOK
<1>12. QED
  BY <1>5, <1>6, <1>7, <1>8, <1>9, <1>10, <1>11 DEF Inv

LEMMA InboxInv ==
  ASSUME Typed, Inv, InboxStep
  PROVE  Inv'
BY StatusInv, SettleStartedInv, SettleUnstartedInv, SettleExitInv DEF InboxStep

-----------------------------------------------------------------------------
(* Connections.                                                            *)
LEMMA EvictInv ==
  ASSUME Typed, Inv, Evict \/ Disconnected
  PROVE  Inv'
<1>1. /\ UNCHANGED <<actor, tray, attempt, intent, asking, keyHeld, heard, line, delivery>>
      /\ UNCHANGED <<reply, inbox, processor, cli, cliQueue, held, open, pipe>>
      /\ residence # "cold" /\ residence' \in {"leaving", "closing"} /\ (residence' = "closing" => ~actor)
      /\ ~actor => commands' = commands
  BY DEF Evict, Disconnected, trayVars, sending, wire, inboxVars, cliVars, logVars
<1>2. /\ \A n \in Msg : Sent(n)' = Sent(n)
      /\ \A c \in ToSet(commands)' : c.kind = "query" => c \in ToSet(commands)
  <2>1. CASE commands' = commands
    BY <2>1 DEF Sent, ToSet
  <2>2. CASE commands' # commands
    <3>1. commands' = Append(commands, [kind |-> "disconnect"])
      BY <2>2 DEF Evict, Disconnected, wire
    <3>2. [kind |-> "disconnect"] \in Order
      BY DEF Order
    <3>3. PICK c \in Order : commands' = Append(commands, c) /\ c.kind = "disconnect"
      BY <3>1, <3>2
    <3>4. WireOK
      BY DEF Typed
    <3>5. /\ ToSet(commands)' = ToSet(commands) \union {c}
          /\ \A n \in Msg : Sent(n)' = Sent(n) \union
               (IF c.kind = "cancel" /\ c.of[1] = n THEN {Len(commands) + 1} ELSE {})
      BY <3>3, <3>4, OrderPlaces
    <3>6. QED
      BY <3>3, <3>5
  <2>3. QED
    BY <2>1, <2>2
<1>3. /\ InHand' = InHand /\ AtCli' = AtCli /\ Waiting' = Waiting /\ (AgainInv => AgainInv') /\ Spent' = Spent
      /\ Of(pipe)' = Of(pipe) /\ Of(inbox)' = Of(inbox) /\ \A n \in Msg : InLine(n)' = InLine(n)
  BY <1>1 DEF InHand, Uuid, Spent, AtCli, Waiting, Again, AgainInv, Of, InLine
<1>4. GoneInv'
  BY <1>1 DEF Inv, GoneInv, ToSet
<1>5. PlaceInv' /\ ShownInv'
  BY <1>1, <1>2, <1>3, PlacesShrink, ShownStays DEF Inv
<1>6. AskInv' /\ \A n \in Msg : Pending(n)' <=> Pending(n)
  BY <1>1, <1>2, <1>3, AskStays DEF Inv
<1>7. YesInv' /\ IntentInv'
  BY <1>1, <1>3, <1>6, YesStays, IntentStays DEF Inv
<1>8. KeyInv' /\ EndInv'
  BY <1>1, KeyStays, EndStays DEF Inv
<1>9. QED
  BY <1>3, <1>4, <1>5, <1>6, <1>7, <1>8 DEF Inv

(* With nobody in line and no actor, nothing is on its way.                *)
LEMMA RestParts ==
  ASSUME Typed, Inv, ~actor, line = <<>>, \A n \in Msg : reply[n] = "none"
  PROVE  /\ delivery.phase = "none" /\ InHand = {} /\ Waiting = {} /\ Again = {} /\ AtCli = {}
         /\ Of(pipe) = {} /\ open = {} /\ ToSet(commands) = {}
         /\ \A n \in Msg : InLine(n) = {} /\ Sent(n) = {} /\ ~Pending(n)
<1>1. delivery.phase = "none" /\ cliQueue = {} /\ held = {} /\ open = {} /\ pipe = <<>> /\ commands = <<>>
  BY DEF Typed, LineOK, Inv, GoneInv
<1>2. Again = {} /\ \A n \in Msg : InLine(n) = {} /\ Sent(n) = {}
  BY <1>1 DEF Again, InLine, Sent
<1>3. Of(pipe) = {} /\ ToSet(commands) = {}
  BY <1>1 DEF Of, ToSet
<1>4. QED
  BY <1>1, <1>2, <1>3 DEF InHand, Waiting, AtCli, Pending

(* A new object, or a new connection, finds nothing of the old one.        *)
LEMMA RenewInv ==
  ASSUME Typed, Inv, EvictionStep \/ Connect \/ Reconnect \/ ReconnectFails, ~Disconnected
  PROVE  Inv'
<1>1. ~actor /\ line = <<>> /\ (\A n \in Msg : reply[n] = "none")
  BY DEF EvictionStep, Evicted, Connect, Reconnect, ReconnectFails, Drained, Inv, GoneInv
<1>2. /\ delivery.phase = "none" /\ Waiting = {} /\ Again = {} /\ AtCli = {}
      /\ Of(pipe) = {} /\ open = {} /\ ToSet(commands) = {} /\ cliQueue = {} /\ held = {}
      /\ pipe = <<>> /\ commands = <<>> /\ cli = "gone"
      /\ \A n \in Msg : InLine(n) = {} /\ Sent(n) = {} /\ ~Pending(n)
  BY <1>1, RestParts DEF Inv, GoneInv
<1>3. /\ UNCHANGED <<attempt, asking, line, delivery, commands, reply, cliQueue, held, open, pipe>>
      /\ inbox' = <<>> /\ processor' = Ready /\ Ready.at = "ready"
      /\ \/ ~actor' /\ residence' = "cold" /\ cli' = cli
         \/ actor' /\ residence' = "resident"
  BY <1>1 DEF EvictionStep, Evicted, Connect, Reconnect, ReconnectFails, StartActor, NewObject, Ready,
              sending, wire, cliVars, inboxVars, trayVars, Inv, GoneInv
<1>4. /\ InHand' = {} /\ AtCli' = {} /\ Waiting' = {} /\ Again' = {} /\ Spent' = {} /\ ToSet(commands)' = {}
      /\ \A n \in Msg : InLine(n)' = {} /\ Sent(n)' = {}
  <2>1. InHand' = {} /\ AtCli' = {} /\ Again' = Again /\ Of(pipe)' = Of(pipe)
        /\ \A n \in Msg : InLine(n)' = InLine(n) /\ Sent(n)' = Sent(n)
    BY <1>2, <1>3 DEF InHand, AtCli, Again, Of, InLine, Sent
  <2>2. Of(inbox)' = {} /\ ToSet(commands)' = ToSet(commands)
    BY <1>3 DEF Of, ToSet
  <2>3. QED
    BY <1>2, <1>3, <2>1, <2>2 DEF Waiting, Spent
<1>5. GoneInv'
  <2>1. ToSet(inbox)' = {}
    BY <1>3 DEF ToSet
  <2>2. QED
    BY <1>1, <1>2, <1>3, <2>1 DEF GoneInv
<1>6. PlaceInv' /\ AgainInv'
  BY <1>2, <1>3, <1>4 DEF PlaceInv, AgainInv
<1>7. ShownInv'
  BY <1>2, <1>3, <1>4 DEF ShownInv
<1>8. AskInv' /\ \A n \in Msg : ~Pending(n)'
  BY <1>1, <1>3, <1>4 DEF AskInv, Pending
<1>9. YesInv' /\ IntentInv' /\ EndInv'
  BY <1>1, <1>3, <1>8 DEF YesInv, IntentInv, EndInv
<1>10. KeyInv'
  <2>1. CASE UNCHANGED <<keyHeld, heard>> /\ tray' \in {tray, UnsentTray}
    <3>1. \A n \in Msg : tray'[n] = "out" <=> tray[n] = "out"
      BY <2>1 DEF UnsentTray, Typed, TrayOK
    <3>2. heard \subseteq Msg
      BY DEF Typed, LogOK
    <3>3. QED
      BY <1>2, <1>3, <2>1, <3>1, <3>2 DEF Inv, KeyInv, InTray
  <2>2. CASE heard' = {} /\ Discard(Msg)
    BY <1>2, <1>3, <2>2 DEF KeyInv, InTray, Discard
  <2>3. QED
    BY <2>1, <2>2 DEF EvictionStep, Evicted, Connect, Reconnect, ReconnectFails, trayVars, logVars
<1>11. QED
  BY <1>5, <1>6, <1>7, <1>8, <1>9, <1>10 DEF Inv

-----------------------------------------------------------------------------
(* The CLI.  What leaves its queue and is not started is said to have      *)
(* fallen.                                                                 *)
LEMMA CliMoves ==
  ASSUME Typed, Inv, actor, Session' = Session, cliQueue' \intersect held' = {}, AtCli' \subseteq AtCli,
         Of(pipe) \subseteq Of(pipe)', Spent' \subseteq Spent \union (AtCli \ AtCli')
  PROVE  Inv'
<1>1. /\ UNCHANGED <<residence, actor, tray, attempt, intent, asking, keyHeld, heard, line, delivery>>
      /\ UNCHANGED <<commands, reply, inbox, processor>>
  BY DEF Session, object, trayVars, sending, wire, inboxVars, logVars
<1>2. /\ InHand' = InHand /\ Waiting' = Waiting /\ (AgainInv => AgainInv') /\ Of(inbox)' = Of(inbox)
      /\ ToSet(commands)' = ToSet(commands) /\ ToSet(inbox)' = ToSet(inbox)
      /\ \A n \in Msg : InLine(n)' = InLine(n) /\ Sent(n)' = Sent(n)
  BY <1>1 DEF InHand, Uuid, Waiting, Again, AgainInv, Of, InLine, Sent, ToSet
<1>3. GoneInv'
  BY <1>1, <1>2 DEF Inv, GoneInv
<1>4. PlaceInv'
  BY <1>1, <1>2 DEF Inv, PlaceInv
<1>5. ShownInv'
  <2>1. \A n \in Msg : Uuid(n) \in AtCli => tray[n] = "queued"
    BY DEF Inv, ShownInv, Uuid
  <2>2. QED
    BY <1>1, <1>2, <2>1 DEF Inv, ShownInv, Uuid, InTray
<1>6. AskInv' /\ \A n \in Msg : Pending(n)' <=> Pending(n)
  BY <1>1, <1>2, AskStays DEF Inv
<1>7. YesInv' /\ IntentInv'
  BY <1>1, <1>2, <1>6, YesStays, IntentStays DEF Inv
<1>8. KeyInv' /\ EndInv'
  BY <1>1, KeyStays, EndStays DEF Inv
<1>9. QED
  BY <1>2, <1>3, <1>4, <1>5, <1>6, <1>7, <1>8 DEF Inv

LEMMA SaysParts ==
  ASSUME CliOK, NEW frames \in Seq(Said), Says(frames)
  PROVE  Of(pipe)' = Of(pipe) \union Of(frames)
<1>1. pipe' = pipe \o frames
  BY DEF Says
<1>2. Of(pipe \o frames) = Of(pipe) \union Of(frames)
  BY OfFacts DEF CliOK
<1>3. Of(pipe)' = Of(pipe')
  BY DEF Of
<1>4. QED
  BY <1>1, <1>2, <1>3

LEMMA OneParts ==
  ASSUME NEW x \in Said
  PROVE  <<x>> \in Seq(Said) /\ Of(<<x>>) = IF x.kind \in Fates THEN {x.of} ELSE {}
<1>1. <<x>> \in Seq(Said) /\ ToSet(<<x>>) = {x}
  BY OneFacts
<1>2. QED
  BY <1>1 DEF Of

LEMMA CliInv ==
  ASSUME Typed, Inv, CliStep
  PROVE  Inv'
<1>1. /\ [kind |-> "working"] \in Said /\ [kind |-> "idle"] \in Said
      /\ \A u \in Uuids, kind \in Fates : [kind |-> kind, of |-> u] \in Said
      /\ CliOK /\ held \subseteq Uuids /\ open \subseteq Uuids
  BY DEF Said, Fates, Typed, CliOK
<1>2. ASSUME NEW x \in Said, Says(<<x>>)
      PROVE  Of(pipe)' = Of(pipe) \union (IF x.kind \in Fates THEN {x.of} ELSE {})
  BY <1>1, <1>2, OneParts, SaysParts
<1>3. ASSUME NEW u \in cliQueue, CliFetch(u) PROVE Inv'
  <2>1. actor /\ Session' = Session /\ pipe' = pipe /\ open' = open
    BY <1>3 DEF CliFetch, Inv, GoneInv
  <2>2. AtCli' = AtCli /\ cliQueue' \intersect held' = {}
    BY <1>3 DEF CliFetch, AtCli, Inv, PlaceInv
  <2>3. Of(pipe)' = Of(pipe) /\ Spent' = Spent
    BY <2>1 DEF Of, Spent, Session, inboxVars
  <2>4. QED
    BY <2>1, <2>2, <2>3, CliMoves
<1>4. ASSUME NEW u \in held, Session' = Session, cliQueue' = cliQueue, held' = held \ {u},
             open' \in {open, open \union {u}}, Of(pipe)' = Of(pipe) \union {u}
      PROVE  Inv'
  <2>1. AtCli' = AtCli \ {u} /\ cliQueue' \intersect held' = {} /\ actor /\ u \in AtCli
    BY <1>4 DEF AtCli, Inv, PlaceInv, GoneInv
  <2>2. Of(inbox)' = Of(inbox)
    BY <1>4 DEF Of, Session, inboxVars
  <2>3. Spent' \subseteq Spent \union (AtCli \ AtCli') /\ AtCli' \subseteq AtCli /\ Of(pipe) \subseteq Of(pipe)'
    BY <1>4, <2>1, <2>2 DEF Spent
  <2>4. QED
    BY <1>4, <2>1, <2>3, CliMoves
<1>5. ASSUME NEW u \in held, CliStart(u) PROVE Inv'
  <2>1. PICK x \in Said : x = [kind |-> "started", of |-> u]
    BY <1>1 DEF Fates
  <2>2. x.kind \in Fates /\ x.of = u
    BY <2>1 DEF Fates
  <2>3. Of(pipe)' = Of(pipe) \union {u}
    <3>1. PICK w \in Said : w = [kind |-> "working"]
      BY <1>1
    <3>2. w.kind \notin Fates
      BY <3>1 DEF Fates
    <3>3. PICK first : /\ first \in {<<>>, <<w>>}
                       /\ Says(first \o <<x>>)
      BY <1>5, <2>1, <3>1 DEF CliStart
    <3>4. first \in Seq(Said) /\ Of(first) = {} /\ <<x>> \in Seq(Said) /\ Of(<<x>>) = {u}
      <4>1. <<w>> \in Seq(Said) /\ Of(<<w>>) = {} /\ <<x>> \in Seq(Said) /\ Of(<<x>>) = {u}
        BY <2>2, <3>2, OneParts
      <4>2. Of(<<>>) = {} /\ <<>> \in Seq(Said)
        BY DEF Of, ToSet
      <4>3. QED
        BY <3>3, <4>1, <4>2
    <3>5. first \o <<x>> \in Seq(Said)
      BY <3>4, ConcatFacts
    <3>6. Of(first \o <<x>>) = {u}
      <4>1. Of(first \o <<x>>) = Of(first) \union Of(<<x>>)
        <5>1. PICK s \in Seq(Said) : s = first /\ Of(s) = {}
          BY <3>4
        <5>2. PICK t \in Seq(Said) : t = <<x>>
          BY <3>4
        <5>3. Of(s \o t) = Of(s) \union Of(t)
          BY OfConcat
        <5>4. QED
          BY <5>1, <5>2, <5>3
      <4>2. QED
        BY <3>4, <4>1
    <3>7. PICK frames \in Seq(Said) : Says(frames) /\ Of(frames) = {u}
      BY <3>3, <3>5, <3>6
    <3>8. QED
      BY <1>1, <3>7, SaysParts
  <2>4. QED
    BY <1>4, <1>5, <2>3 DEF CliStart
<1>6. ASSUME NEW u \in held, NEW kind \in {"cancelled", "discarded"}, CliDrops(u, kind) PROVE Inv'
  <2>1. PICK x \in Said : x = [kind |-> kind, of |-> u]
    BY <1>1 DEF Fates
  <2>2. x.kind \in Fates /\ x.of = u
    BY <2>1 DEF Fates
  <2>3. Of(pipe)' = Of(pipe) \union {u}
    BY <1>2, <1>6, <2>1, <2>2 DEF CliDrops
  <2>4. QED
    BY <1>4, <1>6, <2>3 DEF CliDrops
<1>7. ASSUME NEW u \in open, CliAborts(u) PROVE Inv'
  <2>1. PICK x \in Said : x = [kind |-> "cancelled", of |-> u]
    BY <1>1 DEF Fates
  <2>2. x.kind \in Fates /\ x.of = u
    BY <2>1 DEF Fates
  <2>3. Of(pipe)' = Of(pipe) \union {u}
    BY <1>2, <1>7, <2>1, <2>2 DEF CliAborts
  <2>4. /\ Session' = Session /\ AtCli' = AtCli /\ actor /\ cliQueue' \intersect held' = {}
        /\ open' \subseteq open
    BY <1>7 DEF CliAborts, AtCli, Inv, PlaceInv, GoneInv
  <2>5. Of(inbox)' = Of(inbox)
    BY <2>4 DEF Of, Session, inboxVars
  <2>6. Spent' \subseteq Spent
    BY <2>3, <2>4, <2>5 DEF Spent
  <2>7. QED
    BY <2>3, <2>4, <2>6, CliMoves
<1>8. ASSUME CliIdles \/ CliWorks \/ CliDies PROVE Inv'
  <2>1. /\ Session' = Session /\ actor /\ cliQueue' \subseteq cliQueue /\ held' \subseteq held /\ open' \subseteq open
    BY <1>8 DEF CliIdles, CliWorks, CliDies, Inv, GoneInv
  <2>2. Of(pipe)' = Of(pipe)
    <3>1. CASE CliDies
      BY <3>1 DEF CliDies, Of
    <3>2. CASE CliIdles \/ CliWorks
      <4>1. PICK x \in Said : Says(<<x>>) /\ x.kind \notin Fates
        BY <1>1, <3>2 DEF CliIdles, CliWorks, Fates
      <4>2. QED
        BY <1>2, <4>1
    <3>3. QED
      BY <1>8, <3>1, <3>2
  <2>3. Of(inbox)' = Of(inbox)
    BY <2>1 DEF Of, Session, inboxVars
  <2>4. AtCli' \subseteq AtCli /\ cliQueue' \intersect held' = {} /\ Spent' \subseteq Spent
    BY <2>1, <2>2, <2>3 DEF AtCli, Spent, Inv, PlaceInv
  <2>5. QED
    BY <2>1, <2>2, <2>4, CliMoves
<1>9. QED
  BY <1>3, <1>5, <1>6, <1>7, <1>8 DEF CliStep, CliTakes

-----------------------------------------------------------------------------
(* The invariant holds, and with it what the session promises.             *)
LEMMA InitInv == Init => Inv
<1>1. SUFFICES ASSUME Init PROVE Inv
  OBVIOUS
<1>2. Of(pipe) = {} /\ Of(inbox) = {} /\ ToSet(commands) = {} /\ ToSet(inbox) = {}
  BY <1>1 DEF Init, Of, ToSet
<1>3. Again = {} /\ Waiting = {} /\ InHand = {} /\ AtCli = {} /\ Spent = {}
  BY <1>1, <1>2 DEF Init, Again, Waiting, InHand, AtCli, Spent, NoDelivery
<1>4. GoneInv
  BY <1>1, <1>2 DEF Init, GoneInv, Ready
<1>5. PlaceInv /\ AgainInv /\ ShownInv
  BY <1>1, <1>2, <1>3 DEF Init, PlaceInv, AgainInv, ShownInv, NoDelivery
<1>6. AskInv
  BY <1>1 DEF Init, AskInv, Pending, InLine, Sent
<1>7. YesInv /\ IntentInv /\ KeyInv /\ EndInv
  BY <1>1 DEF Init, YesInv, IntentInv, KeyInv, EndInv, NoAsk, InTray, NoDelivery
<1>8. QED
  BY <1>4, <1>5, <1>6, <1>7 DEF Inv

LEMMA NextInv == Typed /\ Inv /\ [Next]_vars => Inv'
<1>1. SUFFICES ASSUME Typed, Inv, [Next]_vars PROVE Inv'
  OBVIOUS
<1>2. CASE UNCHANGED vars
  <2>1. /\ UNCHANGED <<residence, actor, tray, attempt, intent, asking, keyHeld, heard, line, delivery>>
        /\ UNCHANGED <<commands, reply, inbox, processor, cli, cliQueue, held, open, pipe>>
    BY <1>2 DEF vars, object, trayVars, sending, wire, inboxVars, cliVars, logVars
  <2>2. UNCHANGED <<InHand, AtCli, Waiting, Spent>> /\ (AgainInv => AgainInv')
    BY <2>1 DEF InHand, Uuid, Spent, AtCli, Waiting, Again, AgainInv, Of
  <2>3. /\ Of(pipe)' = Of(pipe) /\ Of(inbox)' = Of(inbox) /\ ToSet(commands)' = ToSet(commands)
        /\ \A n \in Msg : InLine(n)' = InLine(n) /\ Sent(n)' = Sent(n)
    BY <2>1 DEF Of, ToSet, InLine, Sent
  <2>4. GoneInv' /\ PlaceInv' /\ ShownInv'
    BY <1>1, <2>1, <2>2, <2>3, GoneStays, PlacesShrink, ShownStays DEF Inv, GoneInv
  <2>5. AskInv' /\ \A n \in Msg : Pending(n)' <=> Pending(n)
    BY <1>1, <2>1, <2>3, AskStays DEF Inv
  <2>6. YesInv' /\ IntentInv' /\ KeyInv' /\ EndInv'
    BY <1>1, <2>1, <2>3, <2>5, YesStays, IntentStays, KeyStays, EndStays DEF Inv
  <2>7. QED
    BY <1>1, <2>2, <2>4, <2>5, <2>6 DEF Inv
<1>3. CASE Next
  <2>1. CASE UserStep
    BY <1>1, <2>1, SendStep, WithdrawUnsentStep, AskStep DEF UserStep
  <2>2. CASE AnswerStep \/ HolderStep \/ ActorStep \/ InboxStep \/ CliStep
    BY <1>1, <2>2, AnswerInv, HolderInv, ActorInv, InboxInv, CliInv
  <2>3. CASE Evict \/ EvictionStep \/ Connect \/ Reconnect \/ ReconnectFails
    BY <1>1, <2>3, EvictInv, RenewInv DEF EvictionStep
  <2>4. QED
    BY <1>3, <2>1, <2>2, <2>3 DEF Next
<1>4. QED
  BY <1>1, <1>2, <1>3

LEMMA SessionInvariant == Spec => [](Typed /\ Inv)
<1>1. Init => Typed /\ Inv
  BY InitTypes, InitInv
<1>2. Typed /\ Inv /\ [Next]_vars => (Typed /\ Inv)'
  BY NextTypes, NextInv
<1>3. QED
  BY <1>1, <1>2, PTL DEF Spec

(* NothingHidden: while the actor is alive, whatever the CLI may still     *)
(* start is a message the user sees as queued, under the uuid the session  *)
(* knows: what was withdrawn, given up or sent anew never runs.            *)
THEOREM NothingHidden == Spec => []NoHiddenMessage
<1>1. Inv => NoHiddenMessage
  BY DEF Inv, ShownInv, NoHiddenMessage, AtCli
<1>2. QED
  BY <1>1, SessionInvariant, PTL

(* HeardStaysHeard: a message the CLI started leaves the tray for good and *)
(* is at the CLI no more, whatever retries and withdrawals still come.     *)
THEOREM HeardStaysHeard == Spec => []HeardOnce
<1>1. Inv => HeardOnce
  BY DEF Inv, ShownInv, KeyInv, HeardOnce, AtCli, InTray
<1>2. QED
  BY <1>1, SessionInvariant, PTL

(* WithdrawalsIntended: when the CLI gave a message back that is still in  *)
(* the tray, the intent of the user who asked is still there, as           *)
(* withdraw_queued_message asserts.                                        *)
THEOREM WithdrawalsIntended == Spec => []WithdrawalHasIntent
<1>1. Typed /\ Inv => WithdrawalHasIntent
  BY DEF Inv, YesInv, IntentInv, Pending, WithdrawalHasIntent
<1>2. QED
  BY <1>1, SessionInvariant, PTL

(* EndEmptiesQueue: when the inbox has handled the end of the actor and    *)
(* no request uses the object, no message is called queued.                *)
THEOREM EndEmptiesQueue == Spec => []NoCliNoQueue
<1>1. Typed /\ Inv => NoCliNoQueue
  BY DEF Typed, LineOK, Inv, EndInv, NoCliNoQueue
<1>2. QED
  BY <1>1, SessionInvariant, PTL

(* What changes the tray and the keys: a message is discarded with its     *)
(* key, gets one, is heard, or is there before and after.                  *)
TrayMoves ==
  \/ UNCHANGED <<keyHeld, heard>> /\ \A m \in Msg : tray'[m] = "out" => tray[m] = "out"
  \/ \E M \in SUBSET Msg : Discard(M) /\ (UNCHANGED heard \/ M = Msg)
  \/ \E m \in Msg : /\ UNCHANGED heard /\ \A n \in Msg : tray'[n] = IF n = m THEN "queued" ELSE tray[n]
                    /\ \A n \in Msg : n # m => keyHeld'[n] = keyHeld[n]
  \/ \E m \in Msg : /\ heard' = heard \union {m} /\ UNCHANGED keyHeld
                    /\ \A n \in Msg : n # m => tray'[n] = tray[n]

LEMMA TrayMovesOnly ==
  ASSUME Typed, [Next]_vars
  PROVE  TrayMoves
<1>1. CASE UNCHANGED <<tray, keyHeld, heard>>
  BY <1>1 DEF TrayMoves
<1>2. ASSUME NEW m \in Msg, Discard({m}), UNCHANGED heard PROVE TrayMoves
  BY <1>2 DEF TrayMoves
<1>3. CASE UNCHANGED vars
  BY <1>1, <1>3 DEF vars, trayVars, logVars
<1>4. CASE UserStep
  BY <1>1, <1>2, <1>4 DEF UserStep, Send, Resend, Ask, WithdrawUnsent, trayVars, logVars
<1>5. CASE AnswerStep
  BY <1>1, <1>2, <1>5 DEF AnswerStep, AnswerNo, AnswerDrop, AnswerNow, logVars
<1>6. CASE HolderStep
  <2>1. CASE AskCli \/ AnswerRetry \/ RegisterAgain \/ GiveUp \/ WriteRunning \/ FailureWritten
    BY <1>1, <2>1 DEF AskCli, AnswerRetry, RegisterAgain, Begin, GiveUp, WriteRunning, FailureWritten, trayVars, logVars
  <2>2. CASE RegisterSend \/ RegisterResend
    <3>1. line # <<>> /\ UNCHANGED heard /\ tray' = [tray EXCEPT ![Head(line).msg] = "queued"]
      <4>1. CASE RegisterSend
        BY <4>1, Zenon DEF RegisterSend, Holds, Begin, logVars
      <4>2. CASE RegisterResend
        BY <4>2 DEF RegisterResend, Holds, Begin, logVars
      <4>3. QED
        BY <2>2, <4>1, <4>2
    <3>2. keyHeld' = keyHeld \/ keyHeld' = [keyHeld EXCEPT ![Head(line).msg] = TRUE]
      <4>1. CASE RegisterSend
        BY <4>1, Zenon DEF RegisterSend
      <4>2. CASE RegisterResend
        BY <4>2 DEF RegisterResend
      <4>3. QED
        BY <2>2, <4>1, <4>2
    <3>3. PICK m \in Msg : m = Head(line).msg
      BY <3>1, HolderIs DEF Typed
    <3>4. /\ \A n \in Msg : tray'[n] = IF n = m THEN "queued" ELSE tray[n]
          /\ \A n \in Msg : n # m => keyHeld'[n] = keyHeld[n]
      BY <3>1, <3>2, <3>3 DEF Typed, TrayOK
    <3>5. QED
      BY <3>1, <3>4 DEF TrayMoves
  <2>3. CASE Refused \/ MetaFails
    <3>1. UNCHANGED heard /\ Undo(Head(line)) /\ line # <<>>
      <4>1. UNCHANGED heard /\ Undo(Head(line)) /\ delivery.phase # "none"
        BY <2>3 DEF Refused, MetaFails, logVars
      <4>2. QED
        BY <4>1 DEF Typed, LineOK
    <3>2. Head(line).msg \in Msg
      BY <3>1, HolderIs DEF Typed
    <3>3. CASE Discard({Head(line).msg})
      BY <1>2, <3>1, <3>2, <3>3
    <3>4. CASE UNCHANGED keyHeld /\ tray' = [tray EXCEPT ![Head(line).msg] = IF @ = "out" THEN @ ELSE "unsent"]
      <4>1. \A n \in Msg : tray'[n] = "out" => tray[n] = "out"
        BY <3>4 DEF Typed, TrayOK
      <4>2. QED
        BY <3>1, <3>4, <4>1 DEF TrayMoves
    <3>5. QED
      BY <3>1, <3>3, <3>4 DEF Undo
  <2>4. QED
    BY <1>6, <2>1, <2>2, <2>3 DEF HolderStep, Delivered
<1>7. CASE ActorStep
  BY <1>1, <1>7 DEF ActorStep, ActorReads, ActorTakesCommand, ReadIdle, ReadWorking, ReadLifecycle,
                    WriteQuery, AskedToCancel, ActorFails, Disconnect, trayVars, logVars
<1>8. CASE InboxStep
  <2>1. CASE SettleIdle \/ IdleWritten \/ RunningRewritten \/ SettleBusy \/ SettleNothing \/ EndWritten
    BY <1>1, <2>1 DEF SettleIdle, IdleWritten, RunningRewritten, SettleBusy, SettleNothing, EndWritten,
                      trayVars, logVars
  <2>2. CASE SettleStarted \/ SettleUnstarted
    <3>1. inbox # <<>> /\ Head(inbox).kind \in {"started", "cancelled", "discarded"}
      BY <2>2 DEF SettleStarted, SettleUnstarted, Settles, InboxReady
    <3>2. PICK m \in Msg : m = Head(inbox).of[1]
      BY <3>1, ItemIs DEF Typed
    <3>3. CASE SettleStarted
      BY <3>2, <3>3 DEF SettleStarted, TrayMoves, Typed, TrayOK
    <3>4. CASE SettleUnstarted
      <4>1. UNCHANGED heard /\ (UNCHANGED <<tray, keyHeld>> \/ Discard({Head(inbox).of[1]}))
        BY <3>4, Zenon DEF SettleUnstarted, logVars
      <4>2. CASE UNCHANGED <<tray, keyHeld>>
        BY <1>1, <4>1, <4>2
      <4>3. CASE Discard({m})
        BY <1>2, <4>1, <4>3
      <4>4. QED
        BY <3>2, <4>1, <4>2, <4>3
    <3>5. QED
      BY <2>2, <3>3, <3>4
  <2>3. CASE SettleExit
    BY <2>3 DEF SettleExit, UnsentTray, TrayMoves, logVars
  <2>4. QED
    BY <1>8, <2>1, <2>2, <2>3 DEF InboxStep
<1>9. CASE Evict \/ Disconnected \/ Connect
  BY <1>1, <1>9 DEF Evict, Disconnected, Connect, trayVars, logVars
<1>10. CASE Reconnect
  BY <1>10 DEF Reconnect, UnsentTray, TrayMoves, logVars
<1>11. CASE Evicted \/ ReconnectFails
  BY <1>11 DEF Evicted, ReconnectFails, TrayMoves
<1>12. CASE CliStep
  BY <1>1, <1>12 DEF CliStep, CliTakes, CliFetch, CliStart, CliDrops, CliAborts, CliIdles, CliWorks, CliDies,
                     Session, trayVars, logVars
<1>13. QED
  BY <1>3, <1>4, <1>5, <1>6, <1>7, <1>8, <1>9, <1>10, <1>11, <1>12 DEF Next, EvictionStep

(* KeyHeldForHeard: a key held for a message in neither the tray nor the   *)
(* log means that the CLI started it, which is what _find_sent_message     *)
(* tells a retry.                                                          *)
THEOREM KeyHeldForHeard == Spec => []KeyMeansHeard
<1>1. Init => KeyMeansHeard
  BY DEF Init, KeyMeansHeard
<1>2. KeyMeansHeard /\ TrayMoves => KeyMeansHeard'
  BY DEF KeyMeansHeard, TrayMoves, Discard, InTray
<1>3. KeyMeansHeard /\ Typed /\ [Next]_vars => KeyMeansHeard'
  BY <1>2, TrayMovesOnly
<1>4. QED
  BY <1>1, <1>3, SessionInvariant, PTL DEF Spec
====
