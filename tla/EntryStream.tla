---------------------------- MODULE EntryStream -----------------------------
(***************************************************************************)
(* How one panel follows one agent session: the event log, the broadcast   *)
(* channel of the session with its bounded subscriber queue, the entry     *)
(* stream of the server, and the panel's store.                            *)
(*                                                                         *)
(* The session is reduced to what it broadcasts and when (AgentSession     *)
(* models the rest of it).  The panel is a process of its own; what is in  *)
(* flight to it is what the stream has not yet taken from its queue, for   *)
(* a connection that breaks loses both alike.                              *)
(*                                                                         *)
(* An entry is named by its seq, from 1 up; 0 is the cursor before the     *)
(* first.                                                                  *)
(***************************************************************************)
EXTENDS Naturals, FiniteSets, SequencesExt

CONSTANTS
  Msg,        \* user messages, by id
  None,       \* no message, no channel, nothing to announce
  Output,     \* the payload of an entry that is not a user message
  Capacity,   \* queue_maxsize of a subscriber
  MaxEntry,   \* bound: entries of the log
  MaxRev,     \* bound: deltas of one session object
  MaxLife,    \* bound: session objects
  MaxRare     \* bound: session objects, turns of the CLI's own, streams that lose their panel and
              \* retries, together

\* What the inbox processor has stored and not yet announced.
Stored == [kind : {"entry"}, seq : Nat, msg : Msg \cup {None}]
Written == [kind : {"status"}, status : {"idle", "error"}]

ASSUME BoundAssumption ==
  /\ Capacity \in Nat \ {0}
  /\ \A b \in {MaxEntry, MaxRev, MaxLife, MaxRare} : b \in Nat
  /\ None \notin Msg \cup Nat \cup Stored \cup Written /\ Output \notin Msg \cup {None}
  /\ IsFiniteSet(Msg)

VARIABLES
  log,        \* the event log: by seq, the message or Output
  residence,  \* "cold", "live", "exited" (its CLI is gone), "leaving", "starting"
  status,     \* ManagedSession.status
  meta,       \* the status in the session table
  tray,       \* queued_messages: a message's state there, or "out"
  detached,   \* the tray a reconnect has taken from the exited object
  sent,       \* messages handed to the session so far
  rev,        \* DraftAccumulator.rev
  writing,    \* what the inbox processor has stored and not yet announced
  busy,       \* a _CliBusyNotice waits in the inbox
  lives,      \* session objects made
  registered, \* _channels[session_id]
  channel,    \* the channel of the session object
  sub,        \* the stream that serves the panel
  ghost,      \* the channel a stream still subscribes to whose panel is gone
  panel,      \* the panel's store and its stream handle
  rare        \* turns of the CLI's own, streams that lost their panel and retries, so far

sessionVars == <<residence, status, meta, tray, detached, sent, rev, writing, busy, lives, channel>>

vars == <<log, sessionVars, registered, sub, ghost, panel, rare>>

Chan == 1..3

\* A state of the tray, of messages at rest.
Empty == [m \in Msg |-> "out"]

NoSub == [stage |-> "off", chan |-> None, queue |-> <<>>, ended |-> FALSE, last |-> 0, upto |-> 0,
          status |-> "none", life |-> 0, bare |-> FALSE]

NewPanel == [up |-> FALSE, entries |-> {}, tray |-> Empty, settled |-> {}, status |-> "none", gate |-> 0,
             cursor |-> 0, after |-> 0, blind |-> FALSE, holed |-> FALSE]

-----------------------------------------------------------------------------
(* The channel: its registry, its subscribers and its overflow policy.     *)

\* A slip: the removals of queued messages are not critical.
CriticalSlip(item) == item.kind \notin {"delta", "remove"}

Critical(item) == item.kind # "delta"

EvictOne(queue) == LET i == SelectInSeq(queue, LAMBDA item : ~Critical(item))
                   IN IF i = 0 THEN queue ELSE RemoveAt(queue, i)

\* A slip: a critical message that finds no room is dropped.
DeliverDropSlip(s, item) ==
  LET room == IF Critical(item) /\ Len(s.queue) = Capacity THEN EvictOne(s.queue) ELSE s.queue
  IN IF s.ended \/ Len(room) = Capacity THEN s ELSE [s EXCEPT !.queue = Append(room, item)]

\* A slip: the queue of a stream that is to end is not emptied.
DeliverFullSlip(s, item) ==
  IF s.ended THEN s
  ELSE IF Len(s.queue) < Capacity THEN [s EXCEPT !.queue = Append(@, item)]
  ELSE [s EXCEPT !.ended = TRUE]

\* EvictNonCriticalAndSignal.deliver, and the end of a stream it refuses.
Deliver(s, item) ==
  LET room == IF Critical(item) /\ Len(s.queue) = Capacity THEN EvictOne(s.queue) ELSE s.queue
  IN IF s.ended THEN s
     ELSE IF Len(room) < Capacity THEN [s EXCEPT !.queue = Append(room, item)]
     ELSE IF Critical(item) THEN [s EXCEPT !.queue = <<>>, !.ended = TRUE]
     ELSE s

\* One item after the other.
DeliverAll(s, items) ==
  LET after[i \in 0..Len(items)] == IF i = 0 THEN s ELSE Deliver(after[i - 1], items[i])
  IN after[Len(items)]

Broadcast(on, items) == sub' = IF sub.chan = on /\ on # None THEN DeliverAll(sub, items) ELSE sub

\* has_subscribers of a channel: a stream removed by overflow is not one.
Subscribed(c, s, g) == (s.chan = c /\ ~s.ended) \/ g = c

\* A slip: a stream does not keep the channel of a session that left.
ReleaseSlip(s, g, resident) == IF resident THEN registered ELSE None

\* _release_channel
Release(s, g, resident) ==
  IF resident \/ (registered # None /\ Subscribed(registered, s, g)) THEN registered ELSE None

Fresh == CHOOSE c \in Chan : c \notin {registered, sub.chan, ghost}

\* _session_channel
SessionChannel == IF registered = None THEN Fresh ELSE registered

\* Bounds: something rare may happen still, the connection a reconnect is about to make counted in.
Room == rare + lives + (IF detached = Empty THEN 0 ELSE 1) < MaxRare

Resident == residence \in {"live", "exited", "leaving", "starting"}

-----------------------------------------------------------------------------
(* What the session broadcasts.                                            *)

Upsert(m, state) == [kind |-> "upsert", msg |-> m, state |-> state]
Removal(m)        == [kind |-> "remove", msg |-> m]
Status(st)       == [kind |-> "status", status |-> st]
Each(ms, item(_)) == LET s == SetToSeq(ms) IN [i \in DOMAIN s |-> item(s[i])]

InTray == {m \in Msg : tray[m] # "out"}

\* _deliver_queued_message: a message registers, is announced, and the session runs.
Register(m) ==
  /\ residence = "live"
  /\ tray' = [tray EXCEPT ![m] = "queued"]
  /\ status' = "running" /\ meta' = "running"
  /\ Broadcast(channel, <<Upsert(m, "queued")>>)
  /\ UNCHANGED <<log, residence, detached, rev, writing, busy, lives, channel, registered, ghost, panel, rare>>

Send(m) == m \notin sent /\ sent' = sent \cup {m} /\ Register(m)

Resend(m) == tray[m] = "unsent" /\ Register(m) /\ UNCHANGED sent

\* The CLI starts a message: its entry is stored, or the log stays without it.
Settle(m) ==
  /\ residence = "live" /\ writing = None /\ tray[m] = "queued" /\ Len(log) < MaxEntry
  /\ \/ log' = Append(log, m) /\ writing' = [kind |-> "entry", seq |-> Len(log) + 1, msg |-> m]
     \/ log' = log /\ writing' = [kind |-> "entry", seq |-> 0, msg |-> m]
  /\ UNCHANGED <<residence, status, meta, tray, detached, sent, rev, busy, lives, channel>>
  /\ UNCHANGED <<registered, sub, ghost, panel, rare>>

\* handle_message for a frame that makes an entry.
Produce ==
  /\ residence = "live" /\ writing = None /\ status = "running" /\ Len(log) < MaxEntry
  /\ log' = Append(log, Output)
  /\ writing' = [kind |-> "entry", seq |-> Len(log) + 1, msg |-> None]
  /\ UNCHANGED <<residence, status, meta, tray, detached, sent, rev, busy, lives, channel>>
  /\ UNCHANGED <<registered, sub, ghost, panel, rare>>

\* The entry is broadcast, and after it the message leaves the tray.
AnnounceEntry ==
  /\ writing # None /\ writing.kind = "entry"
  /\ LET m == writing.msg
         gone == m # None /\ m \in InTray
     IN /\ Broadcast(channel, (IF writing.seq = 0 THEN <<>> ELSE <<[kind |-> "entry", seq |-> writing.seq]>>)
                              \o (IF gone THEN <<Removal(m)>> ELSE <<>>))
        /\ tray' = IF gone THEN [tray EXCEPT ![m] = "out"] ELSE tray
  /\ writing' = None
  /\ UNCHANGED <<log, residence, status, meta, detached, sent, rev, busy, lives, channel>>
  /\ UNCHANGED <<registered, ghost, panel, rare>>

\* discard_queued_message: withdrawn by a user, or dropped by the CLI.
Discard(m) ==
  /\ residence \in {"live", "exited"} /\ m \in InTray
  /\ tray' = [tray EXCEPT ![m] = "out"]
  /\ Broadcast(channel, <<Removal(m)>>)
  /\ UNCHANGED <<log, residence, status, meta, detached, sent, rev, writing, busy, lives, channel>>
  /\ UNCHANGED <<registered, ghost, panel, rare>>

\* A piece of the message being generated.
Delta ==
  /\ residence = "live" /\ writing = None /\ status = "running" /\ rev < MaxRev
  /\ rev' = rev + 1
  /\ Broadcast(channel, <<[kind |-> "delta", rev |-> rev']>>)
  /\ UNCHANGED <<log, residence, status, meta, tray, detached, sent, writing, busy, lives, channel>>
  /\ UNCHANGED <<registered, ghost, panel, rare>>

\* The CLI starts a turn of its own; the inbox hears of it later.
CliResumes ==
  /\ residence = "live" /\ status # "running" /\ Room
  /\ status' = "running" /\ busy' = TRUE /\ rare' = rare + 1
  /\ UNCHANGED <<log, residence, meta, tray, detached, sent, rev, writing, lives, channel>>
  /\ UNCHANGED <<registered, sub, ghost, panel>>

\* _persist_cli_resumed
AnnounceResumed ==
  /\ residence = "live" /\ busy /\ writing = None
  /\ busy' = FALSE /\ meta' = "running"
  /\ Broadcast(channel, <<Status("running")>>)
  /\ UNCHANGED <<log, residence, status, tray, detached, sent, rev, writing, lives, channel>>
  /\ UNCHANGED <<registered, ghost, panel, rare>>

\* _settle_cli_idle up to its write of the status.
Idle ==
  /\ residence = "live" /\ writing = None /\ status = "running" /\ ~busy
  /\ status' = "idle" /\ writing' = [kind |-> "status", status |-> "idle"]
  /\ UNCHANGED <<log, residence, meta, tray, detached, sent, rev, busy, lives, channel>>
  /\ UNCHANGED <<registered, sub, ghost, panel, rare>>

\* The exit of the actor: what is queued becomes unsent, the session ends.
Exit ==
  /\ residence = "live" /\ writing = None
  /\ residence' = "exited" /\ status' = "error" /\ busy' = FALSE
  /\ writing' = [kind |-> "status", status |-> "error"]
  /\ tray' = [m \in Msg |-> IF tray[m] = "queued" THEN "unsent" ELSE tray[m]]
  /\ Broadcast(channel, Each({m \in Msg : tray[m] = "queued"}, LAMBDA m : Upsert(m, "unsent")))
  /\ UNCHANGED <<log, meta, detached, sent, rev, lives, channel, registered, ghost, panel, rare>>

\* The write is done: the status is broadcast, unless the session runs again.
AnnounceStatus ==
  /\ writing # None /\ writing.kind = "status"
  /\ writing' = None
  /\ IF status = "running" THEN meta' = "running" /\ sub' = sub
                           ELSE meta' = writing.status /\ Broadcast(channel, <<Status(writing.status)>>)
  /\ UNCHANGED <<log, residence, status, tray, detached, sent, rev, busy, lives, channel>>
  /\ UNCHANGED <<registered, ghost, panel, rare>>

\* An eviction begins: the session is closed in memory first.  A reconnect takes the tray along.
Leave ==
  /\ residence \in {"live", "exited"} /\ status # "running" /\ writing = None /\ ~busy
  /\ residence' = "leaving" /\ status' = "closed"
  /\ \/ detached' = detached /\ tray' = tray
     \/ residence = "exited" /\ InTray # {} /\ lives < MaxLife /\ Room /\ detached' = tray /\ tray' = Empty
  /\ UNCHANGED <<log, meta, sent, rev, writing, busy, lives, channel, registered, sub, ghost, panel, rare>>

\* A slip: what leaves with the object is not said to leave.
LeftSlip ==
  /\ residence = "leaving"
  /\ residence' = "cold" /\ tray' = Empty /\ channel' = None /\ sub' = sub
  /\ registered' = Release(sub, ghost, FALSE)
  /\ UNCHANGED <<log, status, meta, detached, sent, rev, writing, busy, lives, ghost, panel, rare>>

\* drop_queued_messages, then the object leaves and its channel may.
Left ==
  /\ residence = "leaving"
  /\ residence' = "cold" /\ tray' = Empty /\ channel' = None
  /\ Broadcast(channel, Each(InTray, Removal))
  /\ registered' = Release(sub', ghost, FALSE)
  /\ UNCHANGED <<log, status, meta, detached, sent, rev, writing, busy, lives, ghost, panel, rare>>

\* _connect_resumed_session: a new object on the session's channel.
Connect ==
  /\ residence = "cold" /\ lives < MaxLife /\ (detached # Empty \/ Room)
  /\ residence' = "starting" /\ lives' = lives + 1
  /\ status' = meta /\ rev' = 0
  /\ channel' = SessionChannel /\ registered' = SessionChannel
  /\ UNCHANGED <<log, meta, tray, detached, sent, writing, busy, sub, ghost, panel, rare>>

\* The actor runs: the tray a reconnect took along is adopted, and nothing is said of it.
Connected ==
  /\ residence = "starting"
  /\ residence' = "live" /\ tray' = detached /\ detached' = Empty
  /\ UNCHANGED <<log, status, meta, sent, rev, writing, busy, lives, channel, registered, sub, ghost, panel, rare>>

\* It does not start: what was taken along is dropped.
ConnectFails ==
  /\ residence = "starting"
  /\ residence' = "cold" /\ detached' = Empty /\ channel' = None
  /\ registered' = Release(sub, ghost, FALSE)
  /\ Broadcast(registered', Each({m \in Msg : detached[m] # "out"}, Removal))
  /\ UNCHANGED <<log, status, meta, tray, sent, rev, writing, busy, lives, ghost, panel, rare>>

-----------------------------------------------------------------------------
(* The stream of the server and what the panel does with each event.       *)

LiveStatus == IF Resident THEN status ELSE meta
DraftRev   == IF Resident THEN rev ELSE 0

LastSeq(p) == IF p.entries = {} THEN 0 ELSE CHOOSE n \in p.entries : \A k \in p.entries : k <= n
Messages(p) == {log[n] : n \in p.entries} \ {Output}
Without(p, m) == [p EXCEPT !.tray[m] = "out", !.settled = @ \cup {m}]

\* appendEntry: only what follows the last entry, which leaves the tray if it was there.
AppendEntry(p, n) ==
  IF n <= LastSeq(p) THEN p
  ELSE LET q == [p EXCEPT !.entries = @ \cup {n}]
       IN IF log[n] = Output THEN q ELSE Without(q, log[n])

\* upsertQueuedMessage: not what has left the tray or entered the conversation.
PutInTray(p, m, state) ==
  IF m \in p.settled \cup Messages(p) THEN p ELSE [p EXCEPT !.tray[m] = state]

\* A slip: no draft follows the status.
AlignedSlip(p, st) == [p EXCEPT !.status = st]

\* _status_change_events: the status, and for "running" the draft's revision.
Aligned(p, st) == [p EXCEPT !.status = st, !.gate = IF st = "running" THEN DraftRev ELSE @]

\* What the panel makes of an event the stream sends for an item.
Taken(p, item, last) ==
  CASE item.kind = "entry"  -> IF item.seq > last THEN [AppendEntry(p, item.seq) EXCEPT !.cursor = item.seq] ELSE p
    [] item.kind = "delta"  -> IF item.rev > p.gate THEN [p EXCEPT !.gate = item.rev] ELSE p
    [] item.kind = "upsert" -> PutInTray(p, item.msg, item.state)
    [] item.kind = "remove" -> Without(p, item.msg)
    [] item.kind = "status" -> [p EXCEPT !.status = item.status]

Streaming(stage) == panel.up /\ sub.stage = stage

\* The panel connects, again with the last id it received; the stream subscribes before it reads.
Open ==
  /\ ~panel.up
  /\ sub' = [NoSub EXCEPT !.stage = "subscribed", !.chan = IF Resident THEN channel ELSE SessionChannel,
                          !.last = IF panel.cursor # 0 THEN panel.cursor ELSE panel.after]
  /\ registered' = IF Resident THEN registered ELSE SessionChannel
  /\ panel' = [panel EXCEPT !.up = TRUE]
  /\ UNCHANGED <<log, sessionVars, ghost, rare>>

\* list_after the cursor.
Read ==
  /\ Streaming("subscribed")
  /\ sub' = [sub EXCEPT !.stage = "entries", !.upto = Len(log)]
  /\ UNCHANGED <<log, sessionVars, registered, ghost, panel, rare>>

\* What was read is sent, all of it or, if the connection breaks, the first of it.
SendUpTo(n) ==
  LET shown[i \in 0..(n - sub.last)] == IF i = 0 THEN panel ELSE AppendEntry(shown[i - 1], sub.last + i)
  IN IF n > sub.last THEN [shown[n - sub.last] EXCEPT !.cursor = n] ELSE panel

SendEntries ==
  /\ Streaming("entries")
  /\ sub' = [sub EXCEPT !.stage = "draft", !.last = IF sub.upto > @ THEN sub.upto ELSE @, !.upto = 0]
  /\ panel' = SendUpTo(sub.upto)
  /\ UNCHANGED <<log, sessionVars, registered, ghost, rare>>

\* The draft's revision is the gate: older deltas are in it.
SendDraft ==
  /\ Streaming("draft")
  /\ sub' = [sub EXCEPT !.stage = "queue", !.life = lives]
  /\ panel' = [panel EXCEPT !.gate = DraftRev]
  /\ UNCHANGED <<log, sessionVars, registered, ghost, rare>>

\* The tray as it is now, taken over as a whole; blind if a reconnect holds it at this moment.
SendQueue ==
  /\ Streaming("queue")
  /\ sub' = [sub EXCEPT !.stage = "status"]
  /\ panel' = [panel EXCEPT !.tray = IF Resident THEN tray ELSE Empty, !.blind = detached # Empty]
  /\ UNCHANGED <<log, sessionVars, registered, ghost, rare>>

SendStatus ==
  /\ Streaming("status")
  /\ sub' = [sub EXCEPT !.stage = "live", !.status = LiveStatus, !.life = 0, !.bare = lives # sub.life]
  /\ panel' = [panel EXCEPT !.status = LiveStatus]
  /\ UNCHANGED <<log, sessionVars, registered, ghost, rare>>

\* The next item; a session found running is shown so before the item is.
Take ==
  /\ Streaming("live") /\ sub.queue # <<>>
  /\ LET item  == Head(sub.queue)
         first == item.kind # "status" /\ sub.status # "running" /\ LiveStatus = "running"
     IN /\ panel' = Taken(IF first THEN Aligned(panel, "running") ELSE panel, item, sub.last)
        /\ sub' = [sub EXCEPT
             !.queue  = Tail(@),
             !.last   = IF item.kind = "entry" /\ item.seq > @ THEN item.seq ELSE @,
             !.status = IF item.kind = "status" THEN item.status ELSE IF first THEN "running" ELSE @,
             !.bare   = (@ /\ ~first) \/ (item.kind = "status" /\ item.status = "running" /\ sub.status # "running")]
  /\ UNCHANGED <<log, sessionVars, registered, ghost, rare>>

\* Nothing came for a while: the status is compared.
Heartbeat ==
  /\ Streaming("live") /\ sub.queue = <<>> /\ ~sub.ended /\ sub.status # LiveStatus
  /\ panel' = Aligned(panel, LiveStatus)
  /\ sub' = [sub EXCEPT !.status = LiveStatus, !.bare = @ /\ LiveStatus # "running"]
  /\ UNCHANGED <<log, sessionVars, registered, ghost, rare>>

\* A slip: a removed subscriber is not told so.
EndSlip == FALSE /\ UNCHANGED vars

\* The queue overflowed: the stream ends, which tells the panel to connect again.
End ==
  /\ Streaming("live") /\ sub.ended
  /\ panel' = [panel EXCEPT !.up = FALSE]
  /\ sub' = NoSub
  /\ registered' = Release(NoSub, ghost, Resident)
  /\ UNCHANGED <<log, sessionVars, ghost, rare>>

\* The stream loses its panel, which the server finds out later; until then it stays subscribed.
Outlive ==
  /\ Room /\ rare' = rare + 1
  /\ ghost' = IF sub.chan # None /\ ~sub.ended THEN sub.chan ELSE ghost
  /\ sub' = NoSub
  /\ UNCHANGED <<log, sessionVars, registered>>

\* The connection breaks.
Break ==
  /\ panel.up /\ Outlive
  /\ \/ panel' = [panel EXCEPT !.up = FALSE]
     \/ /\ sub.stage = "entries"
        /\ \E n \in (sub.last + 1)..(sub.upto - 1) : panel' = [SendUpTo(n) EXCEPT !.up = FALSE]

\* The user leaves the session and comes back: the store starts anew, from a cold read
\* unless the session runs, and so does the stream handle.
Reload ==
  /\ panel.status # "none" /\ Outlive
  /\ LET read == IF LiveStatus = "running" THEN {} ELSE DOMAIN log
     IN panel' = [NewPanel EXCEPT !.entries = read, !.status = LiveStatus, !.after = Cardinality(read)]

\* A stream without a panel unsubscribes.
Unsubscribe ==
  /\ ghost # None /\ ghost' = None
  /\ registered' = Release(sub, None, Resident)
  /\ UNCHANGED <<log, sessionVars, sub, panel, rare>>

\* A retry of a send finds its message in the log and answers with the entry: the panel reads
\* what it misses before it, which may fail, and adds it.  An entry it has changes nothing.
RetryAnswered(n) ==
  /\ panel.status # "none" /\ log[n] # Output /\ n > LastSeq(panel)
  /\ Room /\ rare' = rare + 1
  /\ LET missed == n > LastSeq(panel) + 1
         read   == (LastSeq(panel) + 1)..Len(log)
     IN \/ panel' = AppendEntry([panel EXCEPT !.entries = IF missed THEN @ \cup read ELSE @], n)
        \/ missed /\ panel' = [AppendEntry(panel, n) EXCEPT !.holed = TRUE]
  /\ UNCHANGED <<log, sessionVars, registered, sub, ghost>>

-----------------------------------------------------------------------------
\* The panel follows a session at rest; what it recorded before is left out.
Init ==
  /\ log = <<>> /\ residence = "live" /\ status = "idle" /\ meta = "idle"
  /\ tray = Empty /\ detached = Empty /\ sent = {} /\ rev = 0 /\ writing = None /\ busy = FALSE
  /\ lives = 1 /\ registered = 1 /\ channel = 1 /\ ghost = None
  /\ sub = [NoSub EXCEPT !.stage = "live", !.chan = 1, !.status = "idle"]
  /\ panel = [NewPanel EXCEPT !.up = TRUE, !.status = "idle"] /\ rare = 0

Inbox == AnnounceEntry \/ AnnounceResumed \/ AnnounceStatus
Session ==
  \/ \E m \in Msg : Send(m) \/ Resend(m) \/ Settle(m) \/ Discard(m)
  \/ Produce \/ Delta \/ CliResumes \/ Idle \/ Exit \/ Inbox
  \/ Leave \/ Left \/ Connect \/ Connected \/ ConnectFails
Stream == Read \/ SendEntries \/ SendDraft \/ SendQueue \/ SendStatus \/ Take \/ Heartbeat \/ End
Panel == Open \/ Break \/ Unsubscribe \/ Reload \/ \E n \in DOMAIN log : RetryAnswered(n)

Next == Session \/ Stream \/ Panel

Spec == Init /\ [][Next]_vars

\* What goes on by itself: the coroutines, the start of an actor, the client that reconnects.
\* Users, the CLI, evictions and the network owe nothing.
Going == Inbox \/ Left \/ (Connect /\ detached # Empty) \/ Connected \/ ConnectFails \/ Stream \/ Open

-----------------------------------------------------------------------------
(* Type correctness of the records and the registry.                       *)
Item == [kind : {"entry"}, seq : 1..MaxEntry] \cup [kind : {"delta"}, rev : 1..MaxRev]
        \cup [kind : {"upsert"}, msg : Msg, state : {"queued", "unsent"}] \cup [kind : {"remove"}, msg : Msg]
        \cup [kind : {"status"}, status : {"idle", "running", "error"}]

TypeOK ==
  /\ ToSet(log) \subseteq Msg \cup {Output} /\ Len(log) <= MaxEntry
  /\ ToSet(sub.queue) \subseteq Item /\ Len(sub.queue) <= Capacity /\ (sub.ended => sub.queue = <<>>)
  /\ sub.last \in 0..Len(log) /\ sub.upto \in 0..Len(log)
  /\ panel.entries \subseteq DOMAIN log /\ panel.cursor \in 0..Len(log) /\ panel.after \in 0..Len(log)
  /\ registered \in Chan \cup {None} /\ ghost \in Chan \cup {None}
  /\ {tray[m] : m \in Msg} \cup {detached[m] : m \in Msg} \cup {panel.tray[m] : m \in Msg}
       \subseteq {"out", "queued", "unsent"}
  /\ Resident <=> channel # None

Following == panel.up /\ sub.stage = "live" /\ ~sub.ended

(* The timeline has no hole: whatever was broadcast, dropped, replayed     *)
(* after a broken connection or read beside the stream, the panel holds    *)
(* the entries up to its last one, unless a read of missing entries failed *)
(* (the catch in sendMessage, useAssistantSession.ts).                     *)
NoHole == panel.holed \/ panel.entries = 1..LastSeq(panel)

(* A stream and the session meet on one channel, across evictions,         *)
(* revivals and streams that outlive their panel: _release_channel never   *)
(* lets a channel go that a subscriber or a resident session still uses.   *)
OneChannel ==
  /\ Resident => registered = channel
  /\ sub.chan # None /\ ~sub.ended => registered = sub.chan
  /\ ghost # None => registered = ghost

(* A message is not left in the tray once the panel has its entry: if both *)
(* are there, its removal is still to come (_settle_queued_message         *)
(* broadcasts the entry first, then the removal; a snapshot of the tray    *)
(* may fall between the stored entry and the removal).                     *)
SeenOnce ==
  Following => \A m \in Msg : panel.tray[m] # "out" /\ m \in Messages(panel) =>
    tray[m] # "out" \/ Removal(m) \in ToSet(sub.queue)

(* The panel hears the deltas of the session it follows: a gate above the  *)
(* session's revision, which a revival resets, would drop them.  It is     *)
(* above only when "running" reached the panel without a draft behind it:  *)
(* by the broadcast of a turn of the CLI's own, or in an opening during    *)
(* which the session was revived.                                          *)
DeltasHeard ==
  Following /\ sub.queue = <<>> /\ sub.status = "running" /\ LiveStatus = "running" /\ ~sub.bare
    => panel.gate <= DraftRev

(* Nothing is owed: the inbox is done, no object comes or goes, and the    *)
(* panel's stream has heard all there is and compared the status.          *)
Resting ==
  /\ writing = None /\ ~(residence = "live" /\ busy)
  /\ residence \notin {"leaving", "starting"} /\ (residence = "cold" => detached = Empty)
  /\ Following /\ sub.queue = <<>> /\ sub.status = LiveStatus

(* Nothing stalls: whatever is owed, some coroutine or the client can go   *)
(* on with it.  An overflow ends the stream, which the panel hears; a      *)
(* tray that a reconnect has taken along finds an object to adopt it, or   *)
(* is dropped; no one waits for a user, the CLI or the network.            *)
NothingStalls == Resting \/ ENABLED Going

(* When nothing is owed any more the panel shows the session's log, tray   *)
(* and status: an overflow ends the stream, the client reconnects from its *)
(* cursor, and the opening and the heartbeat make up for what was not      *)
(* broadcast.  An exception is a snapshot of the tray taken while a        *)
(* reconnect holds it (detach_queued_messages): adopting it is not         *)
(* broadcast.                                                              *)
RestAgrees ==
  Resting =>
    /\ panel.holed \/ panel.entries = DOMAIN log
    /\ panel.blind \/ panel.tray = tray
    /\ panel.status = LiveStatus
=============================================================================
