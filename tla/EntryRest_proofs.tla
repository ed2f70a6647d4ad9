-------------------------- MODULE EntryRest_proofs --------------------------
(***************************************************************************)
(* Once nothing is owed the panel shows what the session is.  The parts of *)
(* the invariant below say of every message what the panel will make of    *)
(* it: the last that is in the stream's queue about it is what the tray    *)
(* says, and where nothing is in the queue the panel shows it already.     *)
(***************************************************************************)
EXTENDS EntryStream_proofs

\* What the tray says of a message, or the tray a reconnect has taken along.
Shown(m) == IF detached[m] # "out" THEN detached[m] ELSE tray[m]

\* Its entry is stored, and both are about to be announced.
InFlux(m) == Storing(m) /\ Held(m)

\* Items about a message, and what they say of it.
IsAbout(x, m) == x.kind \in {"upsert", "remove"} /\ x.msg = m
Says(x) == IF x.kind = "upsert" THEN x.state ELSE "out"
Silent(q, m) == \A i \in 1..Len(q) : ~IsAbout(q[i], m)
LastAbout(q, i, m) == IsAbout(q[i], m) /\ \A j \in 1..Len(q) : i < j => ~IsAbout(q[j], m)

QueueTrue ==
  \A m \in Msg : ~InFlux(m) =>
    \A i \in 1..Len(sub.queue) : LastAbout(sub.queue, i, m) => Says(sub.queue[i]) = Shown(m)

PanelTrue ==
  sub.stage \in {"status", "live"} /\ ~sub.ended /\ ~panel.blind =>
    \A m \in Msg : ~InFlux(m) /\ Silent(sub.queue, m) => panel.tray[m] = Shown(m)

\* What was said to leave the tray, or the panel has seen leave it, does not come back.
Gone(m) == m \in sent /\ ~Held(m)
RemovedInv == \A i \in 1..Len(sub.queue) : sub.queue[i].kind = "remove" => Gone(sub.queue[i].msg)
SettledInv == \A m \in panel.settled : m \in sent /\ (Held(m) => InLog(m))

StatusShown == sub.stage = "live" => panel.status = sub.status

RestParts == QueueTrue /\ PanelTrue /\ RemovedInv /\ SettledInv /\ StatusShown

-----------------------------------------------------------------------------
(* Items.                                                                  *)

LEMMA AboutFacts ==
  ASSUME NEW m
  PROVE  /\ IsAbout(Removal(m), m) /\ Says(Removal(m)) = "out" /\ Removal(m).kind = "remove" /\ Removal(m).msg = m
         /\ \A st : /\ IsAbout(Upsert(m, st), m) /\ Says(Upsert(m, st)) = st
                    /\ Upsert(m, st).kind = "upsert" /\ Upsert(m, st).msg = m
         /\ \A x : IsAbout(x, m) => Critical(x)
BY DEF IsAbout, Says, Removal, Upsert, Critical

LEMMA UnsentFacts ==
  ASSUME NEW m
  PROVE  /\ IsAbout(Upsert(m, "unsent"), m) /\ Says(Upsert(m, "unsent")) = "unsent"
         /\ Upsert(m, "unsent").kind = "upsert" /\ Upsert(m, "unsent").msg = m
BY AboutFacts

LEMMA LastExists ==
  ASSUME NEW q, Len(q) \in Nat, NEW m, NEW i \in 1..Len(q), IsAbout(q[i], m)
  PROVE  \E j \in 1..Len(q) : LastAbout(q, j, m)
<1> DEFINE T == {d \in Nat : Len(q) - d \in 1..Len(q) /\ IsAbout(q[Len(q) - d], m)}
<1>1. Len(q) - i \in T
  <2>1. PICK e : e = Len(q) - i
    OBVIOUS
  <2>2. e \in Nat /\ Len(q) - e = i
    BY <2>1
  <2>3. QED
    BY <2>1, <2>2
<1>2. PICK d \in T : \A k \in T : d <= k
  BY <1>1, LeastOf
<1>3. PICK j : j = Len(q) - d
  OBVIOUS
<1>4. j \in 1..Len(q) /\ IsAbout(q[j], m) /\ d \in Nat /\ d = Len(q) - j
  BY <1>2, <1>3
<1>5. ASSUME NEW k \in 1..Len(q), j < k, IsAbout(q[k], m) PROVE FALSE
  <2>1. PICK e : e = Len(q) - k
    OBVIOUS
  <2>2. e \in Nat /\ Len(q) - e = k /\ e < d
    BY <1>4, <1>5, <2>1
  <2>3. e \in T
    BY <1>5, <2>2
  <2>4. QED
    BY <1>2, <1>4, <2>2, <2>3
<1>6. LastAbout(q, j, m)
  BY <1>4, <1>5 DEF LastAbout
<1>7. QED
  BY <1>4, <1>6

LEMMA EachUnsent ==
  ASSUME NEW S \in SUBSET Msg
  PROVE  \A m \in S : \E i \in 1..Len(Each(S, LAMBDA k : Upsert(k, "unsent"))) :
           Each(S, LAMBDA k : Upsert(k, "unsent"))[i] = Upsert(m, "unsent")
<1>1. IsFiniteSet(S)
  BY BoundAssumption, FS_Subset
<1>2. PICK s \in Seq(S) : s = SetToSeq(S) /\ \A x \in S : \E i \in 1..Len(s) : s[i] = x
  BY <1>1, SetAsSeq
<1>3. DOMAIN s = 1..Len(s) /\ Len(s) \in Nat
  OBVIOUS
<1>4. PICK u : u = [i \in 1..Len(s) |-> Upsert(s[i], "unsent")]
  OBVIOUS
<1>5. u = Each(S, LAMBDA k : Upsert(k, "unsent")) /\ Len(u) = Len(s)
  BY <1>2, <1>3, <1>4 DEF Each
<1>6. \A i \in 1..Len(s) : u[i] = Upsert(s[i], "unsent")
  BY <1>4
<1>7. \A m \in S : \E i \in 1..Len(u) : u[i] = Upsert(m, "unsent")
  BY <1>2, <1>5, <1>6
<1>8. QED
  BY <1>5, <1>7

-----------------------------------------------------------------------------
(* What entries do to the panel's tray.                                    *)

\* The panel q is p but for the messages of the log.
Spares(p, q) ==
  /\ \A m \in Msg : q.tray[m] = p.tray[m] \/ (q.tray[m] = "out" /\ InLog(m))
  /\ \A m \in q.settled : m \in p.settled \/ InLog(m)

LEMMA AppendSpares ==
  ASSUME LogOK, NEW p \in Panels, NEW n \in 1..Len(log), NEW q, q = AppendEntry(p, n)
  PROVE  Spares(p, q)
<1>1. log[n] \in Msg \cup {Output} /\ InLog(log[n])
  BY DEF LogOK, InLog
<1>2. CASE n <= LastSeq(p)
  BY <1>2 DEF AppendEntry, Spares
<1>3. CASE ~(n <= LastSeq(p))
  <2>1. PICK r : r = [p EXCEPT !.entries = @ \cup {n}]
    OBVIOUS
  <2>2. r.tray = p.tray /\ r.settled = p.settled /\ r.tray \in [Msg -> States]
    BY <2>1 DEF Panels
  <2>3. q = IF log[n] = Output THEN r ELSE Without(r, log[n])
    BY <1>3, <2>1 DEF AppendEntry
  <2>4. CASE log[n] = Output
    BY <2>2, <2>3, <2>4 DEF Spares
  <2>5. CASE log[n] # Output
    <3>1. q = [r EXCEPT !.tray[log[n]] = "out", !.settled = @ \cup {log[n]}]
      BY <2>3, <2>5 DEF Without
    <3>2. q.tray = [r.tray EXCEPT ![log[n]] = "out"] /\ q.settled = r.settled \cup {log[n]}
      BY <2>1, <3>1 DEF Panels
    <3>3. QED
      BY <1>1, <2>2, <3>2 DEF Spares
  <2>6. QED
    BY <2>4, <2>5
<1>4. QED
  BY <1>2, <1>3

LEMMA SendUpToSpares ==
  ASSUME Typed, NEW n \in 0..Len(log), NEW q, q = SendUpTo(n)
  PROVE  Spares(panel, q)
<1>1. /\ Len(log) \in Nat /\ sub.last \in Nat /\ n \in Nat /\ LogOK
      /\ panel \in Panels /\ panel.entries \subseteq 1..Len(log)
  BY DEF Typed, LogOK, SubOK, Streams, PanelOK
<1>2. CASE ~(n > sub.last)
  BY <1>2 DEF SendUpTo, Spares
<1>3. CASE n > sub.last
  <2>1. PICK f : /\ f[0] = panel /\ SendUpTo(n) = [f[n - sub.last] EXCEPT !.cursor = n]
                 /\ \A i \in 1..(n - sub.last) : f[i] = AppendEntry(f[i - 1], sub.last + i)
    BY <1>1, <1>3, ShownInTurn
  <2> DEFINE Good(i) == f[i] \in Panels /\ f[i].entries \subseteq 1..Len(log) /\ Spares(panel, f[i])
             T == {i \in Nat : i <= n - sub.last => Good(i)}
  <2>2. 0 \in T
    <3>1. Good(0)
      BY <1>1, <2>1 DEF Spares
    <3>2. QED
      BY <3>1
  <2>3. ASSUME NEW i \in Nat, i \in T PROVE i + 1 \in T
    <3>1. SUFFICES ASSUME i + 1 <= n - sub.last PROVE Good(i + 1)
      OBVIOUS
    <3>2. Good(i)
      BY <1>1, <2>3, <3>1
    <3>3. i + 1 \in 1..(n - sub.last) /\ (i + 1) - 1 = i /\ sub.last + (i + 1) \in 1..Len(log)
      BY <1>1, <3>1
    <3> DEFINE p == f[i]
               r == f[i + 1]
               e == sub.last + (i + 1)
    <3>4. r = AppendEntry(p, e) /\ e \in 1..Len(log) /\ p \in Panels /\ p.entries \subseteq 1..Len(log)
      BY <2>1, <3>2, <3>3
    <3>5. Spares(panel, p)
      BY <3>2
    <3> HIDE DEF p, r, e
    <3>6. Appends(p, e, r) /\ Spares(p, r)
      BY <1>1, <3>4, AppendEntryFacts, AppendSpares
    <3>7. r \in Panels /\ r.entries \subseteq 1..Len(log)
      BY <3>4, <3>6 DEF Appends
    <3>8. Spares(panel, r)
      BY <3>5, <3>6 DEF Spares
    <3>9. QED
      BY <3>7, <3>8 DEF r
  <2> HIDE DEF Good
  <2>4. \A i \in Nat : i \in T
    BY <2>2, <2>3, Induction
  <2>5. n - sub.last \in Nat
    BY <1>1, <1>3
  <2>6. Good(n - sub.last)
    BY <2>4, <2>5
  <2> DEFINE r == f[n - sub.last]
  <2>7. r \in Panels /\ q = [r EXCEPT !.cursor = n] /\ Spares(panel, r)
    BY <2>1, <2>6 DEF Good
  <2> HIDE DEF r
  <2>8. q.tray = r.tray /\ q.settled = r.settled
    BY <2>7 DEF Panels
  <2>9. QED
    BY <2>7, <2>8 DEF Spares
<1>4. QED
  BY <1>2, <1>3

LEMMA RetrySpares ==
  ASSUME Typed, NEW n \in DOMAIN log, RetryAnswered(n)
  PROVE  Spares(panel, panel') /\ panel'.status = panel.status /\ panel'.blind = panel.blind
<1>1. n \in 1..Len(log) /\ Len(log) \in Nat /\ LogOK /\ panel \in Panels /\ panel.entries \subseteq 1..Len(log)
  BY TypedUse, PanelUse DEF Typed
<1>2. LastSeq(panel) \in 0..Len(log)
  BY <1>1, LastFacts
<1>3. PICK read : read = (LastSeq(panel) + 1)..Len(log)
  OBVIOUS
<1>4. ASSUME NEW e, e \in {panel.entries, panel.entries \cup read}, panel' = AppendEntry([panel EXCEPT !.entries = e], n)
      PROVE  Spares(panel, panel') /\ panel'.status = panel.status /\ panel'.blind = panel.blind
  <2>1. PICK p : p = [panel EXCEPT !.entries = e]
    OBVIOUS
  <2>2. e \subseteq 1..Len(log) /\ e \in SUBSET Nat
    BY <1>1, <1>2, <1>3, <1>4
  <2>3. /\ p \in Panels /\ p.tray = panel.tray /\ p.settled = panel.settled /\ p.entries = e
        /\ p.status = panel.status /\ p.blind = panel.blind
    BY <1>1, <2>1, <2>2 DEF Panels
  <2>4. Spares(p, panel') /\ Appends(p, n, panel')
    BY <1>1, <1>4, <2>1, <2>2, <2>3, AppendSpares, AppendEntryFacts
  <2>5. QED
    BY <2>3, <2>4 DEF Spares, Appends, Kept
<1>5. CASE panel' = [AppendEntry(panel, n) EXCEPT !.holed = TRUE]
  <2>1. PICK r : r = AppendEntry(panel, n)
    OBVIOUS
  <2>2. Spares(panel, r) /\ Appends(panel, n, r)
    BY <1>1, <2>1, AppendSpares, AppendEntryFacts
  <2>3. r \in Panels /\ panel' = [r EXCEPT !.holed = TRUE]
    BY <1>5, <2>1, <2>2 DEF Appends
  <2>4. panel'.tray = r.tray /\ panel'.settled = r.settled /\ panel'.status = r.status /\ panel'.blind = r.blind
    BY <2>3 DEF Panels
  <2>5. QED
    BY <2>2, <2>4 DEF Spares, Appends, Kept
<1>6. QED
  <2>1. \/ panel' = AppendEntry([panel EXCEPT !.entries = IF n > LastSeq(panel) + 1 THEN @ \cup read ELSE @], n)
        \/ panel' = [AppendEntry(panel, n) EXCEPT !.holed = TRUE]
    BY <1>3 DEF RetryAnswered
  <2>2. PICK e : e = IF n > LastSeq(panel) + 1 THEN panel.entries \cup read ELSE panel.entries
    OBVIOUS
  <2>3. e \in {panel.entries, panel.entries \cup read}
    BY <2>2
  <2>4. \/ panel' = AppendEntry([panel EXCEPT !.entries = e], n)
        \/ panel' = [AppendEntry(panel, n) EXCEPT !.holed = TRUE]
    BY <2>1, <2>2
  <2>5. QED
    BY <1>4, <1>5, <2>3, <2>4

-----------------------------------------------------------------------------
(* What a step of the session says of each message.                        *)
Speaks(items) ==
  /\ items \in Seq(Item) /\ Said(items)
  /\ \A m \in Msg : ~InFlux(m)' =>
       \/ Silent(items, m) /\ Shown(m)' = Shown(m) /\ ~InFlux(m)
       \/ \E i \in 1..Len(items) : LastAbout(items, i, m) /\ Says(items[i]) = Shown(m)'
  /\ \A k \in 1..Len(items) : items[k].kind = "remove" => Gone(items[k].msg)'
  /\ \A m \in Msg : Held(m)' => Held(m) \/ m \notin sent

LEMMA ShownFacts ==
  ASSUME Typed, NEW m \in Msg
  PROVE  /\ Held(m) <=> Shown(m) # "out"
         /\ detached = Empty => Shown(m) = tray[m]
         /\ tray = Empty => Shown(m) = detached[m]
BY EmptyFacts DEF Held, Shown

LEMMA LiveShown ==
  ASSUME TrayInv, residence \in {"live", "exited"}
  PROVE  detached = Empty
BY DEF TrayInv

LEMMA SpeaksNothing ==
  ASSUME Typed, Typed', sub' = sub, \A m \in Msg : Shown(m)' = Shown(m),
         \A m \in Msg : Storing(m) => Storing(m)'
  PROVE  \E items : Speaks(items)
<1>1. <<>> \in Seq(Item) /\ Said(<<>>) /\ Len(<<>>) = 0
  BY NothingSaid
<1>2. ASSUME NEW m \in Msg PROVE (Held(m)' <=> Held(m)) /\ (InFlux(m) => InFlux(m)')
  <2>1. (Held(m) <=> Shown(m) # "out") /\ (Held(m)' <=> Shown(m)' # "out")
    BY DEF Held, Shown
  <2>2. Shown(m)' = Shown(m)
    OBVIOUS
  <2>3. QED
    BY <2>1, <2>2 DEF InFlux
<1>3. Speaks(<<>>)
  BY <1>1, <1>2 DEF Speaks, Silent
<1>4. QED
  BY <1>3

LEMMA SpeaksOfNone ==
  ASSUME Typed, ChanInv, Resident, NEW x \in Item, x.kind \notin {"upsert", "remove"}, Broadcast(channel, <<x>>),
         UNCHANGED <<tray, detached, sent>>, writing.kind = "status" \/ writing' = writing
  PROVE  \E items : Speaks(items)
<1>1. PICK items \in Seq(Item) : Said(items) /\ Len(items) = 1 /\ items[1] = x
  BY SaidOne
<1>2. \A k \in 1..Len(items) : items[k] = x
  BY <1>1
<1>3. ASSUME NEW m \in Msg
      PROVE  /\ Silent(items, m) /\ Shown(m)' = Shown(m) /\ (Held(m)' <=> Held(m))
             /\ InFlux(m) => InFlux(m)'
  <2>1. Shown(m)' = Shown(m) /\ (Held(m)' <=> Held(m))
    BY DEF Shown, Held
  <2>2. Storing(m) => Storing(m)'
    BY DEF Storing
  <2>3. QED
    BY <1>2, <2>1, <2>2 DEF Silent, IsAbout, InFlux
<1>4. Speaks(items)
  BY <1>1, <1>2, <1>3 DEF Speaks
<1>5. QED
  BY <1>4

\* One message changes in the tray, and is said to.
LEMMA SpeaksOfOne ==
  ASSUME Typed, ChanInv, TrayInv, residence \in {"live", "exited"}, NEW m \in Msg, NEW x \in Item, IsAbout(x, m),
         Broadcast(channel, <<x>>), UNCHANGED <<detached, writing>>, tray' = [tray EXCEPT ![m] = Says(x)],
         x.kind = "remove" => m \in sent', Held(m) \/ m \notin sent
  PROVE  \E items : Speaks(items)
<1>1. Resident /\ detached = Empty
  BY LiveShown DEF Resident
<1>2. PICK items \in Seq(Item) : Said(items) /\ Len(items) = 1 /\ items[1] = x
  BY <1>1, SaidOne
<1>3. 1 \in 1..Len(items) /\ \A k \in 1..Len(items) : k = 1 /\ items[k] = x
  BY <1>2
<1>4. tray'[m] = Says(x) /\ \A k \in Msg : k # m => tray'[k] = tray[k]
  BY TypedUse
<1>5. \A k \in Msg : detached[k] = "out" /\ detached'[k] = "out"
  BY <1>1, EmptyFacts
<1>6. Shown(m)' = Says(x) /\ LastAbout(items, 1, m)
  BY <1>3, <1>4, <1>5 DEF Shown, LastAbout
<1>7. ASSUME NEW k \in Msg, k # m
      PROVE  Silent(items, k) /\ Shown(k)' = Shown(k) /\ (Held(k)' <=> Held(k)) /\ (InFlux(k) <=> InFlux(k)')
  <2>1. Silent(items, k)
    BY <1>3, <1>7 DEF Silent, IsAbout
  <2>2. Shown(k)' = Shown(k) /\ (Held(k)' <=> Held(k)) /\ (Storing(k)' <=> Storing(k))
    BY <1>4, <1>7 DEF Shown, Held, Storing
  <2>3. QED
    BY <2>1, <2>2 DEF InFlux
<1>8. ASSUME NEW k \in 1..Len(items), items[k].kind = "remove" PROVE Gone(items[k].msg)'
  <2>1. x.kind = "remove" /\ items[k].msg = m
    BY <1>3, <1>8 DEF IsAbout
  <2>2. tray'[m] = "out"
    BY <1>4, <2>1 DEF Says
  <2>3. QED
    BY <1>5, <2>1, <2>2 DEF Gone, Held
<1>9. Speaks(items)
  <2>1. \A k \in Msg : ~InFlux(k)' =>
       \/ Silent(items, k) /\ Shown(k)' = Shown(k) /\ ~InFlux(k)
       \/ \E i \in 1..Len(items) : LastAbout(items, i, k) /\ Says(items[i]) = Shown(k)'
    BY <1>3, <1>6, <1>7
  <2>2. \A k \in Msg : Held(k)' => Held(k) \/ k \notin sent
    BY <1>7
  <2>3. QED
    BY <1>2, <1>8, <2>1, <2>2 DEF Speaks
<1>10. QED
  BY <1>9

\* What is in S leaves the tray.
LEMMA SpeaksOfGone ==
  ASSUME Typed, NEW S \in SUBSET Msg, Said(Each(S, Removal)), \A m \in S : m \in sent' /\ ~Held(m)',
         \A m \in Msg : m \notin S => tray'[m] = tray[m] /\ detached'[m] = detached[m], writing = None
  PROVE  \E items : Speaks(items)
<1>1. PICK items \in Seq(Item) :
        /\ items = Each(S, Removal)
        /\ \A m \in S : \E i \in 1..Len(items) : items[i] = Removal(m)
        /\ \A i \in 1..Len(items) : items[i] \in {Removal(m) : m \in S}
  BY EachFacts
<1>2. \A m : ~InFlux(m)
  BY DEF InFlux, Storing
<1>3. ASSUME NEW m \in S
      PROVE  \E i \in 1..Len(items) : LastAbout(items, i, m) /\ Says(items[i]) = Shown(m)'
  <2>1. PICK i \in 1..Len(items) : items[i] = Removal(m)
    BY <1>1
  <2>2. PICK j \in 1..Len(items) : LastAbout(items, j, m)
    BY <2>1, AboutFacts, LastExists
  <2>3. items[j].kind = "remove"
    <3>1. PICK k \in S : items[j] = Removal(k)
      BY <1>1
    <3>2. QED
      BY <3>1, AboutFacts
  <2>4. Shown(m)' = "out"
    BY DEF Held, Shown
  <2>5. QED
    BY <2>2, <2>3, <2>4 DEF Says
<1>4. ASSUME NEW m \in Msg, m \notin S
      PROVE  Silent(items, m) /\ Shown(m)' = Shown(m) /\ (Held(m)' <=> Held(m))
  <2>1. Silent(items, m)
    <3>1. SUFFICES ASSUME NEW i \in 1..Len(items), items[i].msg = m PROVE FALSE
      BY DEF Silent, IsAbout
    <3>2. PICK k \in S : items[i] = Removal(k)
      BY <1>1
    <3>3. QED
      BY <1>4, <3>1, <3>2, AboutFacts
  <2>2. QED
    BY <1>4, <2>1 DEF Shown, Held
<1>5. ASSUME NEW i \in 1..Len(items) PROVE Gone(items[i].msg)'
  <2>1. PICK k \in S : items[i] = Removal(k)
    BY <1>1
  <2>2. items[i].msg = k
    BY <2>1, AboutFacts
  <2>3. k \in sent' /\ ~Held(k)'
    OBVIOUS
  <2>4. QED
    BY <2>2, <2>3 DEF Gone, Held
<1>6. \A m \in Msg : Held(m)' => Held(m)
  BY <1>4
<1>7. Speaks(items)
  BY <1>1, <1>2, <1>3, <1>4, <1>5, <1>6 DEF Speaks
<1>8. QED
  BY <1>7

LEMMA EntryAlone ==
  ASSUME Typed, writing # None, writing.kind = "entry", ~(writing.msg # None /\ writing.msg \in InTray)
  PROVE  \A i \in 1..Len(EntryItems) : EntryItems[i].kind = "entry"
<1>1. PICK e : e = [kind |-> "entry", seq |-> writing.seq]
  OBVIOUS
<1>2. EntryItems = (IF writing.seq = 0 THEN <<>> ELSE <<e>>) \o <<>>
  BY <1>1 DEF EntryItems
<1>3. PICK S : S = {e}
  OBVIOUS
<1>4. <<>> \in Seq(S) /\ <<e>> \in Seq(S)
  BY <1>3
<1>5. CASE writing.seq = 0
  <2>1. EntryItems = <<>> \o <<>>
    BY <1>2, <1>5
  <2>2. Len(EntryItems) = 0
    BY <1>4, <2>1, ConcatFacts
  <2>3. QED
    BY <2>2
<1>6. CASE writing.seq # 0
  <2>1. EntryItems = <<e>> \o <<>>
    BY <1>2, <1>6
  <2>2. EntryItems \in Seq(S)
    BY <1>4, <2>1, ConcatFacts
  <2>3. e.kind = "entry"
    BY <1>1
  <2>4. QED
    BY <1>3, <2>2, <2>3
<1>7. QED
  BY <1>5, <1>6

LEMMA SessionSpeaks ==
  ASSUME Typed, Typed', StoreInv, TrayInv, TrayInv', ChanInv, Session
  PROVE  \E items : Speaks(items)
<1>1. ASSUME NEW m \in Msg, Send(m) \/ Resend(m) PROVE \E items : Speaks(items)
  <2>1. /\ residence = "live" /\ UNCHANGED <<detached, writing>> /\ Broadcast(channel, <<Upsert(m, "queued")>>)
        /\ tray' = [tray EXCEPT ![m] = "queued"] /\ (m \notin sent \/ tray[m] = "unsent")
    BY <1>1 DEF Send, Resend, Register
  <2>2. PICK x \in Item : x = Upsert(m, "queued")
    BY ItemFacts DEF Upsert
  <2>3. IsAbout(x, m) /\ Says(x) = "queued" /\ x.kind # "remove"
    BY <2>2, AboutFacts
  <2>4. Held(m) \/ m \notin sent
    BY <2>1 DEF Held
  <2>5. QED
    BY <2>1, <2>2, <2>3, <2>4, SpeaksOfOne
<1>2. ASSUME NEW m \in Msg, Discard(m) PROVE \E items : Speaks(items)
  <2>1. /\ residence \in {"live", "exited"} /\ UNCHANGED <<detached, writing, sent>>
        /\ Broadcast(channel, <<Removal(m)>>) /\ tray' = [tray EXCEPT ![m] = "out"] /\ tray[m] # "out"
    BY <1>2 DEF Discard, InTray
  <2>2. PICK x \in Item : x = Removal(m)
    BY ItemFacts DEF Removal
  <2>3. IsAbout(x, m) /\ Says(x) = "out"
    BY <2>2, AboutFacts
  <2>4. Held(m) /\ m \in sent'
    BY <2>1 DEF Held, TrayInv
  <2>5. QED
    BY <2>1, <2>2, <2>3, <2>4, SpeaksOfOne
<1>3. ASSUME UNCHANGED <<sub, tray, detached>>, writing = None \/ writing' = writing PROVE \E items : Speaks(items)
  <2>1. \A m \in Msg : Shown(m)' = Shown(m) /\ (Storing(m) => Storing(m)')
    BY <1>3 DEF Shown, Storing
  <2>2. QED
    BY <1>3, <2>1, SpeaksNothing
<1>4. ASSUME NEW m \in Msg, Settle(m) PROVE \E items : Speaks(items)
  BY <1>3, <1>4 DEF Settle
<1>5. CASE Produce \/ CliResumes \/ Idle \/ Connect
  BY <1>3, <1>5 DEF Produce, CliResumes, Idle, Connect
<1>6. CASE Delta
  <2>1. Resident /\ UNCHANGED <<tray, detached, sent, writing>> /\ Broadcast(channel, <<[kind |-> "delta", rev |-> rev']>>)
    BY <1>6 DEF Delta, Resident
  <2>2. rev' \in 1..MaxRev
    BY <1>6, TypedUse, NoneFacts DEF Delta
  <2>3. PICK x \in Item : x = [kind |-> "delta", rev |-> rev'] /\ x.kind = "delta"
    BY <2>2, ItemFacts
  <2>4. QED
    BY <2>1, <2>3, SpeaksOfNone
<1>7. CASE AnnounceResumed
  <2>1. Resident /\ UNCHANGED <<tray, detached, sent, writing>> /\ Broadcast(channel, <<Status("running")>>)
    BY <1>7 DEF AnnounceResumed, Resident
  <2>2. PICK x \in Item : x = Status("running") /\ x.kind = "status"
    BY ItemFacts DEF Status
  <2>3. QED
    BY <2>1, <2>2, SpeaksOfNone
<1>8. CASE AnnounceStatus
  <2>1. writing \in Written /\ Resident /\ UNCHANGED <<tray, detached, sent>>
    BY <1>8, TypedUse DEF AnnounceStatus, StoreInv, Resident, Stored
  <2>2. writing.status \in {"idle", "error"} /\ writing.kind = "status"
    BY <2>1 DEF Written
  <2>3. PICK x \in Item : x = Status(writing.status) /\ x.kind = "status"
    BY <2>2, ItemFacts DEF Status
  <2>4. sub' = sub \/ Broadcast(channel, <<Status(writing.status)>>)
    BY <1>8 DEF AnnounceStatus
  <2>5. CASE sub' = sub
    <3>1. \A m \in Msg : Shown(m)' = Shown(m) /\ ~Storing(m)
      BY <2>1, <2>2 DEF Shown, Storing
    <3>2. QED
      BY <2>5, <3>1, SpeaksNothing
  <2>6. QED
    BY <2>1, <2>2, <2>3, <2>4, <2>5, SpeaksOfNone
<1>9. CASE Exit
  <2>1. PICK S \in SUBSET Msg : S = {m \in Msg : tray[m] = "queued"}
    OBVIOUS
  <2>2. PICK items \in Seq(Item) :
          /\ items = Each(S, LAMBDA m : Upsert(m, "unsent"))
          /\ \A i \in 1..Len(items) : items[i] \in {Upsert(m, "unsent") : m \in S}
          /\ \A m \in S : \E i \in 1..Len(items) : items[i] = Upsert(m, "unsent")
    BY <2>1, EachFacts, EachUnsent
  <2>3. /\ residence = "live" /\ Resident /\ Broadcast(channel, items) /\ UNCHANGED <<detached, sent>> /\ writing = None
        /\ tray' = [m \in Msg |-> IF tray[m] = "queued" THEN "unsent" ELSE tray[m]]
    BY <1>9, <2>1, <2>2 DEF Exit, Resident
  <2>4. Said(items) /\ detached = Empty
    BY <2>2, <2>3, SaidOnChannel, LiveShown
  <2>5. ASSUME NEW m \in Msg
        PROVE  /\ Shown(m) = tray[m] /\ Shown(m)' = tray'[m] /\ (Held(m)' <=> Held(m)) /\ ~InFlux(m)
    <3>1. detached[m] = "out" /\ detached'[m] = "out"
      BY <2>3, <2>4, EmptyFacts
    <3>2. tray'[m] # "out" <=> tray[m] # "out"
      BY <2>3
    <3>3. QED
      BY <2>3, <3>1, <3>2 DEF Shown, Held, InFlux, Storing
  <2>6. ASSUME NEW m \in S
        PROVE  \E i \in 1..Len(items) : LastAbout(items, i, m) /\ Says(items[i]) = Shown(m)'
    <3>1. PICK i \in 1..Len(items) : items[i] = Upsert(m, "unsent")
      BY <2>2
    <3>2. PICK j \in 1..Len(items) : LastAbout(items, j, m)
      <4>1. IsAbout(items[i], m) /\ Len(items) \in Nat
        BY <3>1, UnsentFacts
      <4>2. QED
        BY <4>1, LastExists
    <3>3. Says(items[j]) = "unsent"
      <4>1. PICK k \in S : items[j] = Upsert(k, "unsent")
        BY <2>2
      <4>2. QED
        BY <4>1, UnsentFacts
    <3>4. Shown(m)' = "unsent"
      BY <2>1, <2>3, <2>5
    <3>5. QED
      BY <3>2, <3>3, <3>4
  <2>7. ASSUME NEW m \in Msg, m \notin S PROVE Silent(items, m) /\ Shown(m)' = Shown(m)
    <3>1. ASSUME NEW i \in 1..Len(items), items[i].msg = m PROVE FALSE
      <4>1. PICK k \in S : items[i] = Upsert(k, "unsent")
        BY <2>2
      <4>2. QED
        BY <2>7, <3>1, <4>1, UnsentFacts
    <3>2. tray'[m] = tray[m]
      BY <2>1, <2>3, <2>7
    <3>3. QED
      BY <2>5, <3>1, <3>2 DEF Silent, IsAbout
  <2>8. ASSUME NEW i \in 1..Len(items) PROVE items[i].kind # "remove"
    <3>1. PICK k \in S : items[i] = Upsert(k, "unsent")
      BY <2>2
    <3>2. QED
      BY <3>1, UnsentFacts
  <2>9. \A m \in Msg : ~InFlux(m)' =>
          \/ Silent(items, m) /\ Shown(m)' = Shown(m) /\ ~InFlux(m)
          \/ \E i \in 1..Len(items) : LastAbout(items, i, m) /\ Says(items[i]) = Shown(m)'
    BY <2>5, <2>6, <2>7
  <2>10. Speaks(items)
    BY <2>2, <2>4, <2>5, <2>8, <2>9 DEF Speaks
  <2>11. QED
    BY <2>10
<1>10. CASE AnnounceEntry
  <2>1. /\ writing # None /\ writing.kind = "entry" /\ UNCHANGED <<detached, sent>> /\ residence = "live" /\ Resident
        /\ Broadcast(channel, EntryItems) /\ writing' = None
        /\ tray' = IF writing.msg # None /\ writing.msg \in InTray THEN [tray EXCEPT ![writing.msg] = "out"] ELSE tray
    BY <1>10 DEF AnnounceEntry, EntryItems, StoreInv, Resident
  <2>2. PICK items \in Seq(Item) : items = EntryItems /\ Said(items)
    BY <2>1, EntryItemsFacts, SaidOnChannel
  <2>3. /\ \A i \in 1..Len(items) : items[i].kind = "entry" \/ items[i] = Removal(writing.msg)
        /\ writing.msg # None /\ writing.msg \in InTray => \E i \in 1..Len(items) : items[i] = Removal(writing.msg)
    BY <2>1, <2>2, EntryItemsParts
  <2>4. detached = Empty
    BY <2>1, LiveShown
  <2>5. ASSUME NEW m \in Msg
        PROVE  /\ Shown(m) = tray[m] /\ Shown(m)' = tray'[m] /\ (Held(m) <=> tray[m] # "out")
               /\ (Held(m)' <=> tray'[m] # "out") /\ tray'[m] = IF m = writing.msg THEN "out" ELSE tray[m]
    <3>1. detached[m] = "out" /\ detached'[m] = "out"
      BY <2>1, <2>4, EmptyFacts
    <3>2. tray'[m] = IF m = writing.msg THEN "out" ELSE tray[m]
      BY <2>1, TypedUse, NoneFacts DEF InTray
    <3>3. QED
      BY <3>1, <3>2 DEF Shown, Held
  <2>6. ASSUME NEW m \in Msg, m = writing.msg, m \in InTray
        PROVE  \E i \in 1..Len(items) : LastAbout(items, i, m) /\ Says(items[i]) = Shown(m)'
    <3>1. PICK i \in 1..Len(items) : items[i] = Removal(m)
      BY <2>3, <2>6, NoneFacts
    <3>2. PICK j \in 1..Len(items) : LastAbout(items, j, m)
      <4>1. IsAbout(items[i], m) /\ Len(items) \in Nat
        BY <3>1, AboutFacts
      <4>2. QED
        BY <4>1, LastExists
    <3>3. items[j] = Removal(m)
      <4>1. items[j].kind # "entry"
        BY <3>2 DEF LastAbout, IsAbout
      <4>2. QED
        BY <2>3, <2>6, <4>1
    <3>4. Shown(m)' = "out" /\ Says(items[j]) = "out"
      BY <2>5, <2>6, <3>3, AboutFacts
    <3>5. QED
      BY <3>2, <3>4
  <2>7. ASSUME NEW m \in Msg, m # writing.msg PROVE Silent(items, m) /\ Shown(m)' = Shown(m) /\ ~InFlux(m)
    <3>1. ASSUME NEW i \in 1..Len(items), IsAbout(items[i], m) PROVE FALSE
      <4>1. items[i].kind # "entry" /\ items[i].msg = m
        BY <3>1 DEF IsAbout
      <4>2. items[i] = Removal(writing.msg)
        BY <2>3, <4>1
      <4>3. QED
        BY <2>7, <4>1, <4>2, AboutFacts
    <3>2. QED
      BY <2>5, <2>7, <3>1 DEF Silent, InFlux, Storing
  <2>8. ASSUME NEW m \in Msg, m = writing.msg, m \notin InTray PROVE Silent(items, m)
    BY <2>1, <2>2, <2>8, EntryAlone DEF Silent, IsAbout
  <2>9. ASSUME NEW m \in Msg, m = writing.msg, m \notin InTray
        PROVE  Shown(m)' = Shown(m) /\ ~InFlux(m)
    BY <2>5, <2>9 DEF InFlux, InTray
  <2>10. ASSUME NEW i \in 1..Len(items), items[i].kind = "remove" PROVE Gone(items[i].msg)'
    <3>1. items[i] = Removal(writing.msg) /\ items[i].msg = writing.msg /\ items[i] \in Item
      BY <2>3, <2>10, AboutFacts
    <3>2. writing.msg \in Msg
      BY <2>10, <3>1, ItemKinds
    <3>3. PICK m \in Msg : m = writing.msg
      BY <3>2
    <3>4. ~Held(m)'
      BY <2>5, <3>3
    <3>5. m \in InTray
      BY <2>1, <2>2, <2>10, <3>3, EntryAlone
    <3>6. m \in sent'
      BY <2>1, <3>5 DEF TrayInv, InTray
    <3>7. QED
      BY <3>1, <3>3, <3>4, <3>6 DEF Gone, Held
  <2>11. \A m \in Msg : ~InFlux(m)' =>
          \/ Silent(items, m) /\ Shown(m)' = Shown(m) /\ ~InFlux(m)
          \/ \E i \in 1..Len(items) : LastAbout(items, i, m) /\ Says(items[i]) = Shown(m)'
    BY <2>6, <2>7, <2>8, <2>9
  <2>12. \A m \in Msg : Held(m)' => Held(m)
    BY <2>5
  <2>13. Speaks(items)
    BY <2>2, <2>10, <2>11, <2>12 DEF Speaks
  <2>14. QED
    BY <2>13
<1>11. CASE Leave
  <2>1. UNCHANGED <<sub, writing>>
        /\ \/ tray' = tray /\ detached' = detached
           \/ detached' = tray /\ tray' = Empty /\ residence = "exited"
    BY <1>11 DEF Leave
  <2>2. residence = "exited" => detached = Empty
    BY LiveShown
  <2>3. \A m \in Msg : Shown(m)' = Shown(m) /\ (Storing(m) => Storing(m)')
    BY <2>1, <2>2, EmptyFacts DEF Shown, Storing
  <2>4. QED
    BY <2>1, <2>3, SpeaksNothing
<1>12. CASE Connected
  <2>1. UNCHANGED <<sub, writing>> /\ tray' = detached /\ detached' = Empty /\ tray = Empty
    BY <1>12 DEF Connected, TrayInv
  <2>2. \A m \in Msg : Shown(m)' = Shown(m) /\ (Storing(m) => Storing(m)')
    BY <2>1, EmptyFacts DEF Shown, Storing
  <2>3. QED
    BY <2>1, <2>2, SpeaksNothing
<1>13. CASE Left
  <2>1. PICK S \in SUBSET Msg : S = InTray
    BY DEF InTray
  <2>2. PICK items \in Seq(Item) : items = Each(S, Removal)
    BY EachFacts
  <2>3. Resident /\ Broadcast(channel, items) /\ UNCHANGED <<detached, sent>> /\ tray' = Empty /\ writing = None
    BY <1>13, <2>1, <2>2 DEF Left, Resident, StoreInv
  <2>4. Said(Each(S, Removal))
    BY <2>2, <2>3, SaidOnChannel
  <2>5. ASSUME NEW m \in Msg
        PROVE  (m \in S => m \in sent' /\ ~Held(m)') /\ (m \notin S => tray'[m] = tray[m] /\ detached'[m] = detached[m])
    <3>1. m \in S <=> tray[m] # "out"
      BY <2>1 DEF InTray
    <3>2. tray'[m] = "out" /\ detached'[m] = detached[m]
      BY <2>3, EmptyFacts
    <3>3. tray[m] # "out" => detached[m] = "out" /\ m \in sent
      BY EmptyFacts DEF TrayInv
    <3>4. QED
      BY <2>3, <3>1, <3>2, <3>3 DEF Held
  <2>6. QED
    BY <2>3, <2>4, <2>5, SpeaksOfGone
<1>14. CASE ConnectFails
  <2>1. PICK S \in SUBSET Msg : S = {m \in Msg : detached[m] # "out"}
    OBVIOUS
  <2>2. Said(Each(S, Removal))
    BY <1>14, <2>1, ConnectFailsSaid
  <2>3. UNCHANGED <<tray, sent>> /\ detached' = Empty /\ tray = Empty /\ writing = None
    BY <1>14 DEF ConnectFails, TrayInv, StoreInv
  <2>4. ASSUME NEW m \in Msg
        PROVE  (m \in S => m \in sent' /\ ~Held(m)') /\ (m \notin S => tray'[m] = tray[m] /\ detached'[m] = detached[m])
    <3>1. detached'[m] = "out" /\ tray'[m] = "out" /\ tray[m] = "out"
      BY <2>3, EmptyFacts
    <3>2. QED
      BY <2>1, <2>3, <3>1 DEF Held, TrayInv
  <2>5. QED
    BY <2>2, <2>3, <2>4, SpeaksOfGone
<1>15. QED
  BY <1>1, <1>2, <1>4, <1>5, <1>6, <1>7, <1>8, <1>9, <1>10, <1>11, <1>12, <1>13, <1>14 DEF Session, Inbox

LEMMA SentGrows ==
  ASSUME Session
  PROVE  sent \subseteq sent'
BY DEF Session, Inbox, Send, Resend, Register, Settle, Produce, AnnounceEntry, Discard, Delta, CliResumes,
   AnnounceResumed, Idle, Exit, AnnounceStatus, Leave, Left, Connect, Connected, ConnectFails

LEMMA LogKept ==
  ASSUME Typed, Session, NEW m, InLog(m)
  PROVE  InLog(m)'
<1>1. log' = log \/ \E x : log' = Append(log, x)
  BY DEF Session, Inbox, Send, Resend, Register, Settle, Produce, AnnounceEntry, Discard, Delta, CliResumes,
     AnnounceResumed, Idle, Exit, AnnounceStatus, Leave, Left, Connect, Connected, ConnectFails
<1>2. PICK n \in 1..Len(log) : log[n] = m
  BY DEF InLog
<1>3. n \in 1..Len(log') /\ log'[n] = m
  <2>1. CASE log' = log
    BY <1>2, <2>1
  <2>2. CASE \E x : log' = Append(log, x)
    BY <1>2, <2>2, TypedUse
  <2>3. QED
    BY <1>1, <2>1, <2>2
<1>4. QED
  BY <1>3 DEF InLog

LEMMA SessionRest ==
  ASSUME Typed, Typed', StoreInv, TrayInv, TrayInv', ChanInv, RestParts, Session
  PROVE  RestParts'
<1>1. PICK items : Speaks(items)
  BY SessionSpeaks
<1>2. /\ items \in Seq(Item) /\ Said(items)
      /\ \A m \in Msg : ~InFlux(m)' =>
           \/ Silent(items, m) /\ Shown(m)' = Shown(m) /\ ~InFlux(m)
           \/ \E i \in 1..Len(items) : LastAbout(items, i, m) /\ Says(items[i]) = Shown(m)'
      /\ \A k \in 1..Len(items) : items[k].kind = "remove" => Gone(items[k].msg)'
      /\ \A m \in Msg : Held(m)' => Held(m) \/ m \notin sent
  BY <1>1 DEF Speaks
<1>3. /\ sub'.stage = sub.stage /\ sub'.status = sub.status /\ panel' = panel /\ (~sub'.ended => ~sub.ended)
      /\ sent \subseteq sent'
  BY SessionHears, HearsKeeps, SentGrows
<1>4. QueueTrue /\ PanelTrue /\ RemovedInv /\ SettledInv /\ StatusShown
  BY DEF RestParts
<1>5. StatusShown'
  BY <1>3, <1>4 DEF StatusShown
<1>6. SettledInv'
  <2>1. SUFFICES ASSUME NEW m \in panel.settled PROVE m \in sent' /\ (Held(m)' => InLog(m)')
    BY <1>3 DEF SettledInv
  <2>2. m \in Msg /\ m \in sent /\ (Held(m) => InLog(m))
    BY <1>4, PanelUse DEF SettledInv
  <2>3. InLog(m) => InLog(m)'
    BY LogKept
  <2>4. QED
    BY <1>2, <1>3, <2>2, <2>3
<1>7. CASE sub'.queue = <<>> /\ (sub'.ended \/ sub'.stage = "off")
  <2>1. Len(sub'.queue) = 0
    BY <1>7
  <2>2. QueueTrue' /\ PanelTrue' /\ RemovedInv'
    BY <1>7, <2>1 DEF QueueTrue, PanelTrue, RemovedInv
  <2>3. QED
    BY <1>5, <1>6, <2>2 DEF RestParts
<1>8. CASE ~sub.ended /\ ~sub'.ended /\ sub'.queue \in Seq(Item) /\ \E g : Carried(g, items)
  <2>1. PICK g : Carried(g, items)
    BY <1>8
  <2>2. Len(sub'.queue) \in Nat /\ Len(sub.queue) \in Nat /\ sub.queue \in Seq(Item) /\ Len(items) \in Nat
    BY <1>2, <1>8, SubUse
  <2>3. /\ \A k \in 1..Len(sub.queue) : Critical(sub.queue[k]) =>
             \E i \in 1..Len(sub'.queue) : g[i] = k /\ sub'.queue[i] = sub.queue[k]
        /\ \A k \in 1..Len(items) : Critical(items[k]) =>
             \E i \in 1..Len(sub'.queue) : g[i] = Len(sub.queue) + k /\ sub'.queue[i] = items[k]
    BY <1>2, <2>1, <2>2, CarriedFacts
  <2>4. /\ g \in [1..Len(sub'.queue) -> 1..(Len(sub.queue) + Len(items))]
        /\ \A i, j \in 1..Len(sub'.queue) : i < j => g[i] < g[j]
        /\ \A i \in 1..Len(sub'.queue) :
             \/ g[i] \in 1..Len(sub.queue) /\ sub'.queue[i] = sub.queue[g[i]]
             \/ \E k \in 1..Len(items) : g[i] = Len(sub.queue) + k /\ sub'.queue[i] = items[k]
    BY <2>1 DEF Carried
  <2>5. \A i, j \in 1..Len(sub'.queue) : g[i] < g[j] => i < j
    <3>1. SUFFICES ASSUME NEW i \in 1..Len(sub'.queue), NEW j \in 1..Len(sub'.queue), g[i] < g[j], ~(i < j) PROVE FALSE
      OBVIOUS
    <3>2. g[i] \in Nat /\ g[j] \in Nat
      BY <2>2, <2>4
    <3>3. i = j \/ j < i
      BY <2>2, <3>1
    <3>4. QED
      BY <2>4, <3>1, <3>2, <3>3
  <2>6. RemovedInv'
    <3>1. SUFFICES ASSUME NEW i \in 1..Len(sub'.queue), sub'.queue[i].kind = "remove",
                          NEW m \in Msg, m = sub'.queue[i].msg
                   PROVE  m \in sent' /\ ~Held(m)'
      <4>1. ASSUME NEW i \in 1..Len(sub'.queue), sub'.queue[i].kind = "remove" PROVE sub'.queue[i].msg \in Msg
        BY <1>8, <4>1, ItemKinds
      <4>2. QED
        BY <4>1 DEF RemovedInv, Gone, Held
    <3>2. CASE g[i] \in 1..Len(sub.queue) /\ sub'.queue[i] = sub.queue[g[i]]
      <4>1. Gone(m)
        BY <1>4, <3>1, <3>2 DEF RemovedInv
      <4>2. QED
        BY <1>2, <1>3, <4>1 DEF Gone
    <3>3. CASE \E k \in 1..Len(items) : sub'.queue[i] = items[k]
      <4>1. PICK k \in 1..Len(items) : sub'.queue[i] = items[k]
        BY <3>3
      <4>2. items[k].kind = "remove" /\ items[k].msg = m
        BY <3>1, <4>1
      <4>3. Gone(items[k].msg)'
        BY <1>2, <4>2
      <4>4. QED
        BY <4>2, <4>3 DEF Gone, Held
    <3>4. QED
      BY <2>4, <3>2, <3>3
  <2>7. ASSUME NEW m \in Msg, Silent(items, m), NEW k \in 1..Len(sub'.queue), IsAbout(sub'.queue[k], m)
        PROVE  g[k] \in 1..Len(sub.queue) /\ sub'.queue[k] = sub.queue[g[k]]
    BY <2>4, <2>7 DEF Silent
  <2>8. ASSUME NEW m \in Msg, ~InFlux(m)', Silent(items, m), Shown(m)' = Shown(m), ~InFlux(m)
        PROVE  /\ \A i \in 1..Len(sub'.queue) : LastAbout(sub'.queue, i, m) => Says(sub'.queue[i]) = Shown(m)'
               /\ Silent(sub'.queue, m) => Silent(sub.queue, m)
    <3>1. ASSUME NEW j \in 1..Len(sub.queue), IsAbout(sub.queue[j], m)
          PROVE  \E l \in 1..Len(sub'.queue) : g[l] = j /\ IsAbout(sub'.queue[l], m)
      <4>1. Critical(sub.queue[j])
        BY <3>1, AboutFacts
      <4>2. PICK l \in 1..Len(sub'.queue) : g[l] = j /\ sub'.queue[l] = sub.queue[j]
        BY <2>3, <4>1
      <4>3. QED
        BY <3>1, <4>2
    <3>2. ASSUME NEW i \in 1..Len(sub'.queue), LastAbout(sub'.queue, i, m) PROVE Says(sub'.queue[i]) = Shown(m)'
      <4>1. IsAbout(sub'.queue[i], m) /\ \A l \in 1..Len(sub'.queue) : i < l => ~IsAbout(sub'.queue[l], m)
        BY <3>2 DEF LastAbout
      <4>2. PICK k \in 1..Len(sub.queue) : k = g[i] /\ sub'.queue[i] = sub.queue[k]
        BY <2>7, <2>8, <4>1
      <4>3. ASSUME NEW j \in 1..Len(sub.queue), k < j, IsAbout(sub.queue[j], m) PROVE FALSE
        <5>1. PICK l \in 1..Len(sub'.queue) : g[l] = j /\ IsAbout(sub'.queue[l], m)
          BY <3>1, <4>3
        <5>2. i < l
          BY <2>5, <4>2, <4>3, <5>1
        <5>3. QED
          BY <4>1, <5>1, <5>2
      <4>4. LastAbout(sub.queue, k, m)
        BY <4>1, <4>2, <4>3 DEF LastAbout
      <4>5. Says(sub.queue[k]) = Shown(m)
        BY <1>4, <2>8, <4>4 DEF QueueTrue
      <4>6. QED
        BY <2>8, <4>2, <4>5
    <3>3. Silent(sub'.queue, m) => Silent(sub.queue, m)
      BY <3>1 DEF Silent
    <3>4. QED
      BY <3>2, <3>3
  <2>9. ASSUME NEW m \in Msg, NEW k \in 1..Len(items), LastAbout(items, k, m), Says(items[k]) = Shown(m)'
        PROVE  /\ \A i \in 1..Len(sub'.queue) : LastAbout(sub'.queue, i, m) => Says(sub'.queue[i]) = Shown(m)'
               /\ ~Silent(sub'.queue, m)
    <3>1. IsAbout(items[k], m) /\ \A j \in 1..Len(items) : k < j => ~IsAbout(items[j], m)
      BY <2>9 DEF LastAbout
    <3>2. PICK l \in 1..Len(sub'.queue) : g[l] = Len(sub.queue) + k /\ sub'.queue[l] = items[k]
      BY <2>3, <3>1, AboutFacts
    <3>3. IsAbout(sub'.queue[l], m)
      BY <3>1, <3>2
    <3>4. ASSUME NEW i \in 1..Len(sub'.queue), LastAbout(sub'.queue, i, m) PROVE Says(sub'.queue[i]) = Shown(m)'
      <4>1. IsAbout(sub'.queue[i], m) /\ ~(i < l)
        BY <3>3, <3>4 DEF LastAbout
      <4>2. i = l \/ l < i
        BY <2>2, <4>1
      <4>3. g[i] >= Len(sub.queue) + k /\ g[i] \in Nat
        BY <2>2, <2>4, <3>2, <4>2
      <4>4. g[i] \notin 1..Len(sub.queue)
        BY <2>2, <4>3
      <4>5. PICK j \in 1..Len(items) : g[i] = Len(sub.queue) + j /\ sub'.queue[i] = items[j]
        BY <2>4, <4>4
      <4>6. ~(k < j)
        BY <3>1, <4>1, <4>5
      <4>7. j = k
        BY <2>2, <4>3, <4>5, <4>6
      <4>8. QED
        BY <2>9, <4>5, <4>7
    <3>5. QED
      BY <3>3, <3>4 DEF Silent
  <2>10. ASSUME NEW m \in Msg, ~InFlux(m)'
         PROVE  /\ \A i \in 1..Len(sub'.queue) : LastAbout(sub'.queue, i, m) => Says(sub'.queue[i]) = Shown(m)'
                /\ Silent(sub'.queue, m) => Silent(sub.queue, m) /\ Shown(m)' = Shown(m) /\ ~InFlux(m)
    <3>1. CASE Silent(items, m) /\ Shown(m)' = Shown(m) /\ ~InFlux(m)
      BY <2>8, <2>10, <3>1
    <3>2. CASE \E i \in 1..Len(items) : LastAbout(items, i, m) /\ Says(items[i]) = Shown(m)'
      BY <2>9, <3>2
    <3>3. QED
      BY <1>2, <2>10, <3>1, <3>2
  <2>11. QueueTrue'
    BY <2>10 DEF QueueTrue
  <2>12. PanelTrue'
    <3>1. SUFFICES ASSUME sub.stage \in {"status", "live"}, ~panel.blind, NEW m \in Msg, ~InFlux(m)', Silent(sub'.queue, m)
                   PROVE  panel.tray[m] = Shown(m)'
      BY <1>3 DEF PanelTrue
    <3>2. Silent(sub.queue, m) /\ Shown(m)' = Shown(m) /\ ~InFlux(m)
      BY <2>10, <3>1
    <3>3. QED
      BY <1>4, <1>8, <3>1, <3>2 DEF PanelTrue
  <2>13. QED
    BY <1>5, <1>6, <2>6, <2>11, <2>12 DEF RestParts
<1>9. QED
  <2>1. sub.stage = "off" => sub.queue = <<>>
    BY SubUse, NoSubFacts
  <2>2. QED
    BY <1>2, <1>3, <1>7, <1>8, <2>1 DEF Said

-----------------------------------------------------------------------------
(* What the panel makes of an item.                                        *)

\* The panel q is p after the item x.
TakesTray(p, x, q) ==
  /\ x.kind = "entry" => Spares(p, q)
  /\ x.kind \in {"delta", "status"} => q.tray = p.tray /\ q.settled = p.settled
  /\ x.kind = "remove" => q.tray = [p.tray EXCEPT ![x.msg] = "out"] /\ q.settled = p.settled \cup {x.msg}
  /\ x.kind = "upsert" => /\ q.settled = p.settled
                          /\ q.tray = IF x.msg \in p.settled \cup Messages(p) THEN p.tray
                                      ELSE [p.tray EXCEPT ![x.msg] = x.state]

LEMMA TakenTray ==
  ASSUME LogOK, NEW p \in Panels, NEW x \in Item, x.kind = "entry" => x.seq \in 1..Len(log),
         NEW last, NEW q, q = Taken(p, x, last)
  PROVE  TakesTray(p, x, q)
<1>1. ASSUME x.kind = "entry" PROVE Spares(p, q)
  <2>1. CASE x.seq > last
    <3>1. PICK r : r = AppendEntry(p, x.seq)
      OBVIOUS
    <3>2. Spares(p, r)
      BY <1>1, <3>1, AppendSpares
    <3>3. q = [r EXCEPT !.cursor = x.seq]
      BY <1>1, <2>1, <3>1 DEF Taken
    <3>4. r \in Panels
      <4>1. CASE x.seq <= LastSeq(p)
        BY <3>1, <4>1 DEF AppendEntry
      <4>2. CASE ~(x.seq <= LastSeq(p))
        <5>1. PICK e : e = [p EXCEPT !.entries = @ \cup {x.seq}]
          OBVIOUS
        <5>2. x.seq \in Nat
          BY <1>1, ItemKinds, NoneFacts
        <5>3. e \in Panels
          BY <5>1, <5>2 DEF Panels
        <5>4. r = IF log[x.seq] = Output THEN e ELSE Without(e, log[x.seq])
          BY <3>1, <4>2, <5>1 DEF AppendEntry
        <5>5. log[x.seq] \in Msg \cup {Output}
          BY <1>1 DEF LogOK
        <5>6. ASSUME log[x.seq] # Output PROVE Without(e, log[x.seq]) \in Panels
          <6>1. PICK m \in Msg : m = log[x.seq]
            BY <5>5, <5>6
          <6>2. Without(e, m) = [e EXCEPT !.tray = [e.tray EXCEPT ![m] = "out"], !.settled = e.settled \cup {m}]
            BY <5>3 DEF Without, Panels
          <6>3. [e.tray EXCEPT ![m] = "out"] \in [Msg -> States] /\ e.settled \cup {m} \in SUBSET Msg
            BY <5>3 DEF Panels, States
          <6>4. QED
            BY <5>3, <6>1, <6>2, <6>3 DEF Panels
        <5>7. QED
          BY <5>3, <5>4, <5>6
      <4>3. QED
        BY <4>1, <4>2
    <3>5. q.tray = r.tray /\ q.settled = r.settled
      BY <3>3, <3>4 DEF Panels
    <3>6. QED
      BY <3>2, <3>5 DEF Spares
  <2>2. CASE ~(x.seq > last)
    <3>1. q = p
      BY <1>1, <2>2 DEF Taken
    <3>2. QED
      BY <3>1 DEF Spares
  <2>3. QED
    BY <2>1, <2>2
<1>2. ASSUME x.kind = "delta" PROVE q.tray = p.tray /\ q.settled = p.settled
  <2>1. q = p \/ q = [p EXCEPT !.gate = x.rev]
    BY <1>2 DEF Taken
  <2>2. QED
    BY <2>1 DEF Panels
<1>3. ASSUME x.kind = "status" PROVE q.tray = p.tray /\ q.settled = p.settled
  <2>1. q = [p EXCEPT !.status = x.status]
    BY <1>3 DEF Taken
  <2>2. QED
    BY <2>1 DEF Panels
<1>4. ASSUME x.kind = "remove"
      PROVE  q.tray = [p.tray EXCEPT ![x.msg] = "out"] /\ q.settled = p.settled \cup {x.msg}
  <2>1. q = [p EXCEPT !.tray[x.msg] = "out", !.settled = @ \cup {x.msg}]
    BY <1>4 DEF Taken, Without
  <2>2. QED
    BY <2>1 DEF Panels
<1>5. ASSUME x.kind = "upsert"
      PROVE  /\ q.settled = p.settled
             /\ q.tray = IF x.msg \in p.settled \cup Messages(p) THEN p.tray ELSE [p.tray EXCEPT ![x.msg] = x.state]
  <2>1. q = IF x.msg \in p.settled \cup Messages(p) THEN p ELSE [p EXCEPT !.tray[x.msg] = x.state]
    BY <1>5 DEF Taken, PutInTray
  <2>2. QED
    BY <2>1 DEF Panels
<1>6. QED
  BY <1>1, <1>2, <1>3, <1>4, <1>5 DEF TakesTray

\* A message of the log that the session holds is being announced.
LEMMA LoggedShown ==
  ASSUME Typed, TrayInv, NEW m \in Msg, InLog(m), ~InFlux(m)
  PROVE  Shown(m) = "out" /\ ~Held(m)
<1>1. ~Held(m)
  BY DEF TrayInv, Held, InFlux
<1>2. QED
  BY <1>1 DEF Held, Shown

LEMMA BeforeRest ==
  ASSUME Typed
  PROVE  /\ Before.settled = panel.settled /\ Before.blind = panel.blind
         /\ Before.status = IF FirstShown THEN "running" ELSE panel.status
BY PanelUse DEF Before, Aligned, Panels

LEMMA TakeRest ==
  ASSUME Typed, StoreInv, TrayInv, OrderInv, RestParts, Take
  PROVE  RestParts'
<1>1. TakesSub /\ UNCHANGED <<log, sessionVars>>
  BY TakeSubFacts DEF Take
<1>2. UNCHANGED <<log, tray, detached, sent, writing>>
  BY <1>1 DEF sessionVars
<1>3. sub.queue # <<>> /\ sub.queue \in Seq(Item) /\ sub.stage = "live" /\ LogOK
  BY SubUse DEF Take, Streaming, Typed
<1>4. PICK q \in Seq(Item) : q = Tail(sub.queue) /\ Len(q) = Len(sub.queue) - 1 /\ \A i \in 1..Len(q) : q[i] = sub.queue[i + 1]
  BY <1>3, TailFacts
<1>5. sub'.queue = q /\ Len(sub.queue) \in Nat \ {0} /\ Len(q) \in Nat
  BY <1>1, <1>3, <1>4, TailFacts DEF TakesSub
<1>6. \A i \in 1..Len(q) : i + 1 \in 1..Len(sub.queue) /\ q[i] = sub.queue[i + 1]
  BY <1>4, <1>5
<1>7. \A j \in 1..Len(sub.queue) : j # 1 => j - 1 \in 1..Len(q) /\ q[j - 1] = sub.queue[j]
  <2>1. SUFFICES ASSUME NEW j \in 1..Len(sub.queue), j # 1 PROVE j - 1 \in 1..Len(q) /\ q[j - 1] = sub.queue[j]
    OBVIOUS
  <2>2. j - 1 \in 1..Len(q) /\ (j - 1) + 1 = j
    BY <1>4, <1>5, <2>1
  <2>3. QED
    BY <1>6, <2>2
<1>8. PICK x \in Item : x = Head(sub.queue) /\ x = sub.queue[1]
  BY LoggedFacts, TakeFacts
<1>9. /\ Takes(Before, x, sub.last, panel') /\ (x.kind = "entry" => x.seq \in 1..Len(log))
      /\ Before \in Panels /\ Before.tray = panel.tray /\ Before.settled = panel.settled
      /\ Before.blind = panel.blind /\ Before.entries = panel.entries
      /\ Before.status = IF FirstShown THEN "running" ELSE panel.status
  BY <1>8, LoggedFacts, TakeFacts, BeforeFacts, BeforeRest
<1>10. panel' = Taken(Before, x, sub.last)
  BY <1>8 DEF Take, Before, FirstShown
<1>11. /\ x.kind = "entry" => Spares(Before, panel')
       /\ x.kind \in {"delta", "status"} => panel'.tray = panel.tray /\ panel'.settled = panel.settled
       /\ x.kind = "remove" => panel'.tray = [panel.tray EXCEPT ![x.msg] = "out"] /\ panel'.settled = panel.settled \cup {x.msg}
       /\ x.kind = "upsert" => /\ panel'.settled = panel.settled
                               /\ panel'.tray = IF x.msg \in panel.settled \cup Messages(panel) THEN panel.tray
                                                ELSE [panel.tray EXCEPT ![x.msg] = x.state]
  <2>1. Messages(Before) = Messages(panel)
    BY <1>9 DEF Messages
  <2>2. TakesTray(Before, x, panel')
    BY <1>3, <1>9, <1>10, TakenTray
  <2>3. QED
    BY <1>9, <2>1, <2>2 DEF TakesTray
<1>12. panel.tray \in [Msg -> States] /\ panel.settled \subseteq Msg /\ panel.entries \subseteq 1..Len(log) /\ 1 \in 1..Len(sub.queue)
  BY <1>5, PanelUse
<1>13. QueueTrue /\ PanelTrue /\ RemovedInv /\ SettledInv /\ StatusShown
  BY DEF RestParts
<1>14. \A m \in Msg : /\ Shown(m)' = Shown(m) /\ (InFlux(m)' <=> InFlux(m)) /\ (Held(m)' <=> Held(m))
                       /\ (InLog(m)' <=> InLog(m)) /\ (Gone(m)' <=> Gone(m))
  BY <1>2 DEF Shown, InFlux, Held, InLog, Gone, Storing
<1>15. QueueTrue'
  <2>1. SUFFICES ASSUME NEW m \in Msg, ~InFlux(m), NEW i \in 1..Len(q), LastAbout(q, i, m)
                 PROVE  Says(q[i]) = Shown(m)
    BY <1>5, <1>14 DEF QueueTrue
  <2>2. i + 1 \in 1..Len(sub.queue) /\ IsAbout(sub.queue[i + 1], m) /\ q[i] = sub.queue[i + 1]
    BY <1>6, <2>1 DEF LastAbout
  <2>3. ASSUME NEW j \in 1..Len(sub.queue), i + 1 < j, IsAbout(sub.queue[j], m) PROVE FALSE
    <3>1. j - 1 \in 1..Len(q) /\ q[j - 1] = sub.queue[j] /\ i < j - 1
      BY <1>5, <1>7, <2>3
    <3>2. QED
      BY <2>1, <2>3, <3>1 DEF LastAbout
  <2>4. LastAbout(sub.queue, i + 1, m)
    BY <2>2, <2>3 DEF LastAbout
  <2>5. QED
    BY <1>13, <2>1, <2>2, <2>4 DEF QueueTrue
<1>16. RemovedInv'
  <2>1. SUFFICES ASSUME NEW i \in 1..Len(q), q[i].kind = "remove" PROVE Gone(q[i].msg)'
    BY <1>5 DEF RemovedInv
  <2>2. q[i].msg \in Msg /\ Gone(q[i].msg)
    BY <1>6, <1>13, <2>1, ItemKinds DEF RemovedInv
  <2>3. PICK m \in Msg : m = q[i].msg /\ Gone(m)
    BY <2>2
  <2>4. Gone(m)'
    BY <1>14, <2>3
  <2>5. QED
    BY <1>4, <2>3, <2>4
<1>17. SettledInv'
  <2>1. SUFFICES ASSUME NEW m \in panel'.settled PROVE m \in sent /\ (Held(m) => InLog(m))
    <3>1. panel'.settled \subseteq Msg
      BY <1>9 DEF Takes, Panels
    <3>2. QED
      BY <1>2, <1>14, <2>1, <3>1 DEF SettledInv
  <2>2. m \in Msg
    BY <1>9 DEF Takes, Panels
  <2>3. CASE m \in panel.settled
    BY <1>13, <2>3 DEF SettledInv
  <2>4. CASE InLog(m)
    BY <2>2, <2>4 DEF TrayInv
  <2>5. CASE x.kind = "remove" /\ m = x.msg
    BY <1>8, <1>12, <1>13, <2>5 DEF RemovedInv, Gone
  <2>6. QED
    <3>1. x.kind = "entry" => m \in panel.settled \/ InLog(m)
      BY <1>9, <1>11 DEF Spares
    <3>2. QED
      BY <1>11, <2>3, <2>4, <2>5, <3>1, ItemKinds
<1>18. PanelTrue'
  <2>1. SUFFICES ASSUME ~sub.ended, ~panel.blind, NEW m \in Msg, ~InFlux(m), Silent(q, m)
                 PROVE  panel'.tray[m] = Shown(m)
    <3>1. sub'.ended = sub.ended /\ panel'.blind = panel.blind
      BY <1>1, <1>9 DEF TakesSub, Takes
    <3>2. QED
      BY <1>5, <1>14, <2>1, <3>1 DEF PanelTrue
  <2>2. CASE ~IsAbout(x, m)
    <3>1. Silent(sub.queue, m)
      <4>1. SUFFICES ASSUME NEW j \in 1..Len(sub.queue) PROVE ~IsAbout(sub.queue[j], m)
        BY DEF Silent
      <4>2. CASE j = 1
        BY <1>8, <2>2, <4>2
      <4>3. CASE j # 1
        BY <1>7, <2>1, <4>3 DEF Silent
      <4>4. QED
        BY <4>2, <4>3
    <3>2. panel.tray[m] = Shown(m)
      BY <1>3, <1>13, <2>1, <3>1 DEF PanelTrue
    <3>3. panel'.tray[m] = panel.tray[m] \/ (panel'.tray[m] = "out" /\ InLog(m))
      <4>1. x.kind = "entry" => panel'.tray[m] = panel.tray[m] \/ (panel'.tray[m] = "out" /\ InLog(m))
        BY <1>9, <1>11 DEF Spares
      <4>2. x.kind \in {"remove", "upsert"} => x.msg # m
        BY <2>2 DEF IsAbout
      <4>3. QED
        BY <1>11, <1>12, <4>1, <4>2, ItemKinds
    <3>4. QED
      BY <2>1, <3>2, <3>3, LoggedShown
  <2>3. CASE IsAbout(x, m)
    <3>1. ASSUME NEW j \in 1..Len(sub.queue), 1 < j PROVE ~IsAbout(sub.queue[j], m)
      BY <1>7, <2>1, <3>1 DEF Silent
    <3>2. LastAbout(sub.queue, 1, m)
      BY <1>8, <2>3, <3>1 DEF LastAbout
    <3>3. Says(x) = Shown(m) /\ x.msg = m
      BY <1>8, <1>12, <1>13, <2>1, <2>3, <3>2 DEF QueueTrue, IsAbout
    <3>4. CASE x.kind = "remove"
      BY <1>11, <1>12, <3>3, <3>4 DEF Says
    <3>5. CASE x.kind = "upsert"
      <4>1. Shown(m) = x.state /\ x.state # "out"
        BY <3>3, <3>5, ItemKinds DEF Says
      <4>2. Held(m)
        BY <4>1 DEF Shown, Held
      <4>3. ~InLog(m)
        BY <2>1, <4>2, LoggedShown
      <4>4. m \notin panel.settled
        BY <1>13, <4>2, <4>3 DEF SettledInv
      <4>5. m \notin Messages(panel)
        BY <1>12, <4>3 DEF Messages, InLog
      <4>6. QED
        BY <1>11, <1>12, <3>3, <3>5, <4>1, <4>4, <4>5
    <3>6. QED
      BY <2>3, <3>4, <3>5 DEF IsAbout
  <2>4. QED
    BY <2>2, <2>3
<1>19. StatusShown'
  <2>1. panel.status = sub.status
    BY <1>3, <1>13 DEF StatusShown
  <2>2. panel'.status = IF x.kind = "status" THEN x.status ELSE Before.status
    BY <1>9 DEF Takes
  <2>3. sub'.status = IF x.kind = "status" THEN x.status ELSE IF FirstShown THEN "running" ELSE sub.status
    BY <1>1, <1>8 DEF TakesSub
  <2>4. QED
    BY <1>9, <2>1, <2>2, <2>3 DEF StatusShown
<1>20. QED
  BY <1>15, <1>16, <1>17, <1>18, <1>19 DEF RestParts

-----------------------------------------------------------------------------
(* The steps of the stream and of the panel.                               *)

\* A step that touches neither the session nor the stream's queue.
Beside ==
  /\ UNCHANGED <<log, sessionVars>> /\ sub'.queue = sub.queue
  /\ \A m \in panel'.settled : m \in panel.settled \/ InLog(m)

LEMMA BesideKeeps ==
  ASSUME Typed, Typed', TrayInv, RestParts, Beside
  PROVE  QueueTrue' /\ RemovedInv' /\ SettledInv'
<1>1. UNCHANGED <<log, tray, detached, sent, writing>> /\ sub'.queue = sub.queue
  BY DEF Beside, sessionVars
<1>2. QueueTrue /\ RemovedInv /\ SettledInv
  BY DEF RestParts
<1>3. QueueTrue'
  BY <1>1, <1>2 DEF QueueTrue, InFlux, Storing, Held, Shown, LastAbout, IsAbout
<1>4. RemovedInv'
  BY <1>1, <1>2 DEF RemovedInv, Gone, Held
<1>5. SettledInv'
  <2>1. SUFFICES ASSUME NEW m \in Msg, m \in panel'.settled PROVE m \in sent /\ (Held(m) => InLog(m))
    <3>1. panel'.settled \subseteq Msg
      BY DEF Typed, PanelOK, Panels
    <3>2. QED
      BY <1>1, <2>1, <3>1 DEF SettledInv, Held, InLog
  <2>2. m \in panel.settled \/ InLog(m)
    BY <2>1 DEF Beside
  <2>3. QED
    BY <1>2, <2>2 DEF SettledInv, TrayInv
<1>6. QED
  BY <1>3, <1>4, <1>5

\* There is no stream that has read the tray.
LEMMA StartOfStream ==
  ASSUME Typed, Typed', TrayInv, RestParts, UNCHANGED <<log, sessionVars>>, sub'.queue = <<>>,
         sub'.stage \notin {"status", "live"}, \A m \in panel'.settled : m \in panel.settled \/ InLog(m)
  PROVE  RestParts'
<1>1. UNCHANGED <<log, tray, detached, sent>> /\ Len(sub'.queue) = 0
  BY DEF sessionVars
<1>2. QueueTrue' /\ RemovedInv' /\ PanelTrue' /\ StatusShown'
  BY <1>1 DEF QueueTrue, RemovedInv, PanelTrue, StatusShown
<1>3. ASSUME NEW m \in Msg, m \in panel'.settled PROVE m \in sent /\ (Held(m) => InLog(m))
  BY <1>3 DEF RestParts, SettledInv, TrayInv
<1>4. panel'.settled \subseteq Msg
  BY DEF Typed, PanelOK, Panels
<1>5. SettledInv'
  BY <1>1, <1>3, <1>4 DEF SettledInv, Held, InLog
<1>6. QED
  BY <1>2, <1>5 DEF RestParts

LEMMA BreakSettles ==
  ASSUME Typed, Break
  PROVE  \A m \in panel'.settled : m \in panel.settled \/ InLog(m)
<1>1. CASE panel' = [panel EXCEPT !.up = FALSE]
  <2>1. panel'.settled = panel.settled
    BY <1>1, PanelUse DEF Panels
  <2>2. QED
    BY <2>1
<1>2. ASSUME NEW n \in (sub.last + 1)..(sub.upto - 1), panel' = [SendUpTo(n) EXCEPT !.up = FALSE]
      PROVE  \A m \in panel'.settled : m \in panel.settled \/ InLog(m)
  <2>1. n \in 0..Len(log)
    BY <1>2, SubUse, TypedUse
  <2>2. PICK r : r = SendUpTo(n)
    OBVIOUS
  <2>3. Spares(panel, r) /\ r \in Panels
    BY <2>1, <2>2, SendUpToSpares, SendUpToFacts DEF Sends
  <2>4. panel'.settled = r.settled
    BY <1>2, <2>2, <2>3 DEF Panels
  <2>5. QED
    BY <2>3, <2>4 DEF Spares
<1>3. QED
  BY <1>1, <1>2 DEF Break

LEMMA RestStep ==
  ASSUME Typed, Typed', StoreInv, TrayInv, TrayInv', ChanInv, OrderInv, RestParts, Next
  PROVE  RestParts'
<1>1. QueueTrue /\ PanelTrue /\ RemovedInv /\ SettledInv /\ StatusShown /\ panel \in Panels
  BY PanelUse DEF RestParts
<1>2. CASE Read \/ SendDraft
  <2>1. sub'.queue = sub.queue /\ UNCHANGED <<log, sessionVars>> /\ sub'.stage \notin {"status", "live"}
    BY <1>2, OpeningKeeps, OpeningMoves DEF Read, SendDraft
  <2>2. panel'.settled = panel.settled
    BY <1>1, <1>2 DEF Read, SendDraft, Panels
  <2>3. Beside
    BY <2>1, <2>2 DEF Beside
  <2>4. QED
    BY <2>1, <2>3, BesideKeeps DEF RestParts, PanelTrue, StatusShown
<1>3. CASE SendEntries
  <2>1. sub'.queue = sub.queue /\ UNCHANGED <<log, sessionVars>> /\ sub'.stage \notin {"status", "live"}
    BY <1>3, OpeningKeeps, OpeningMoves DEF SendEntries
  <2>2. sub.upto \in 0..Len(log) /\ panel' = SendUpTo(sub.upto)
    BY <1>3, SubUse DEF SendEntries
  <2>3. Spares(panel, panel')
    BY <2>2, SendUpToSpares
  <2>4. Beside
    BY <2>1, <2>3 DEF Beside, Spares
  <2>5. QED
    BY <2>1, <2>4, BesideKeeps DEF RestParts, PanelTrue, StatusShown
<1>4. CASE SendQueue
  <2>1. sub'.queue = sub.queue /\ UNCHANGED <<log, sessionVars>> /\ sub'.stage = "status"
    BY <1>4, OpeningKeeps, OpeningMoves DEF SendQueue
  <2>2. PICK t, b : panel' = [panel EXCEPT !.tray = t, !.blind = b] /\ t = (IF Resident THEN tray ELSE Empty)
                    /\ b = (detached # Empty)
    BY <1>4 DEF SendQueue
  <2>3. panel'.settled = panel.settled /\ panel'.tray = t /\ panel'.blind = b
    BY <1>1, <2>2 DEF Panels
  <2>4. Beside
    BY <2>1, <2>3 DEF Beside
  <2>5. ~Resident => tray = Empty
    BY TypedUse DEF Resident, TrayInv
  <2>6. t = tray
    BY <2>2, <2>5
  <2>7. ASSUME ~panel'.blind, NEW m \in Msg PROVE panel'.tray[m] = Shown(m)'
    <3>1. detached = Empty
      BY <2>2, <2>3, <2>7
    <3>2. Shown(m) = tray[m]
      BY <3>1, ShownFacts
    <3>3. Shown(m)' = Shown(m)
      BY <2>1 DEF sessionVars, Shown
    <3>4. QED
      BY <2>3, <2>6, <3>2, <3>3
  <2>8. PanelTrue' /\ StatusShown'
    BY <2>1, <2>7 DEF PanelTrue, StatusShown
  <2>9. QED
    BY <2>4, <2>8, BesideKeeps DEF RestParts
<1>5. CASE SendStatus
  <2>1. /\ sub'.queue = sub.queue /\ sub'.ended = sub.ended /\ UNCHANGED <<log, sessionVars>>
        /\ sub.stage = "status" /\ sub'.stage = "live" /\ sub'.status = LiveStatus
    BY <1>5, OpeningKeeps, OpeningMoves DEF SendStatus
  <2>2. panel' = [panel EXCEPT !.status = LiveStatus]
    BY <1>5 DEF SendStatus
  <2>3. panel'.settled = panel.settled /\ panel'.tray = panel.tray /\ panel'.blind = panel.blind /\ panel'.status = LiveStatus
    BY <1>1, <2>2 DEF Panels
  <2>4. Beside
    BY <2>1, <2>3 DEF Beside
  <2>5. PanelTrue'
    BY <1>1, <2>1, <2>3 DEF PanelTrue, sessionVars, InFlux, Storing, Held, Shown, Silent, IsAbout
  <2>6. StatusShown'
    BY <2>1, <2>3 DEF StatusShown
  <2>7. QED
    BY <2>4, <2>5, <2>6, BesideKeeps DEF RestParts
<1>6. CASE Heartbeat
  <2>1. /\ sub'.queue = sub.queue /\ sub'.ended = sub.ended /\ UNCHANGED <<log, sessionVars>>
        /\ sub'.stage = sub.stage /\ sub'.status = LiveStatus
    BY <1>6, HeartbeatFacts DEF Heartbeat
  <2>2. PICK st, gate : panel' = [panel EXCEPT !.status = st, !.gate = gate] /\ st = LiveStatus
    BY <1>6 DEF Heartbeat, Aligned
  <2>3. panel'.settled = panel.settled /\ panel'.tray = panel.tray /\ panel'.blind = panel.blind /\ panel'.status = LiveStatus
    BY <1>1, <2>2 DEF Panels
  <2>4. Beside
    BY <2>1, <2>3 DEF Beside
  <2>5. PanelTrue'
    BY <1>1, <2>1, <2>3 DEF PanelTrue, sessionVars, InFlux, Storing, Held, Shown, Silent, IsAbout
  <2>6. StatusShown'
    BY <2>1, <2>3 DEF StatusShown
  <2>7. QED
    BY <2>4, <2>5, <2>6, BesideKeeps DEF RestParts
<1>7. CASE End \/ Break \/ Reload
  <2>1. sub' = NoSub /\ UNCHANGED <<log, sessionVars>>
    BY <1>7, StreamOff
  <2>2. sub'.queue = <<>> /\ sub'.stage = "off"
    BY <2>1, NoSubFacts
  <2>3. CASE Break
    BY <2>1, <2>2, <2>3, BreakSettles, StartOfStream
  <2>4. CASE End
    <3>1. panel'.settled = panel.settled
      BY <1>1, <2>4 DEF End, Panels
    <3>2. QED
      BY <2>1, <2>2, <3>1, StartOfStream
  <2>5. CASE Reload
    <3>1. PICK e, st, a : panel' = [NewPanel EXCEPT !.entries = e, !.status = st, !.after = a]
      BY <2>5 DEF Reload
    <3>2. panel'.settled = {}
      BY <3>1 DEF NewPanel
    <3>3. QED
      BY <2>1, <2>2, <3>2, StartOfStream
  <2>6. QED
    BY <1>7, <2>3, <2>4, <2>5
<1>8. CASE Open
  <2>1. sub'.stage = "subscribed" /\ sub'.queue = <<>> /\ UNCHANGED <<log, sessionVars>>
    BY <1>8, OpenFacts DEF Open
  <2>2. panel'.settled = panel.settled
    BY <1>1, <1>8 DEF Open, Panels
  <2>3. QED
    BY <2>1, <2>2, StartOfStream
<1>9. ASSUME UNCHANGED <<log, sessionVars, sub>>, Spares(panel, panel'), panel'.status = panel.status,
             panel'.blind = panel.blind
      PROVE  RestParts'
  <2>1. Beside
    BY <1>9 DEF Beside, Spares
  <2>2. StatusShown'
    BY <1>1, <1>9 DEF StatusShown
  <2>3. PanelTrue'
    <3>1. SUFFICES ASSUME sub.stage \in {"status", "live"}, ~sub.ended, ~panel.blind, NEW m \in Msg, ~InFlux(m),
                          Silent(sub.queue, m)
                   PROVE  panel'.tray[m] = Shown(m)
      BY <1>9 DEF PanelTrue, sessionVars, InFlux, Storing, Held, Shown
    <3>2. panel.tray[m] = Shown(m)
      BY <1>1, <3>1 DEF PanelTrue
    <3>3. panel'.tray[m] = panel.tray[m] \/ (panel'.tray[m] = "out" /\ InLog(m))
      BY <1>9 DEF Spares
    <3>4. QED
      BY <3>1, <3>2, <3>3, LoggedShown
  <2>4. QED
    BY <2>1, <2>2, <2>3, BesideKeeps DEF RestParts
<1>10. CASE Unsubscribe
  BY <1>9, <1>10 DEF Unsubscribe, Spares
<1>11. ASSUME NEW n \in DOMAIN log, RetryAnswered(n) PROVE RestParts'
  <2>1. UNCHANGED <<log, sessionVars, sub>>
    BY <1>11 DEF RetryAnswered
  <2>2. QED
    BY <1>9, <1>11, <2>1, RetrySpares
<1>12. QED
  BY <1>2, <1>3, <1>4, <1>5, <1>6, <1>7, <1>8, <1>10, <1>11, SessionRest, TakeRest DEF Next, Stream, Panel

LEMMA InitRest == Init => RestParts
<1>1. SUFFICES ASSUME Init PROVE RestParts
  OBVIOUS
<1>2. sub.queue = <<>> /\ sub.stage = "live" /\ sub.status = "idle" /\ tray = Empty /\ detached = Empty
  <2>1. sub = [NoSub EXCEPT !.stage = "live", !.chan = 1, !.status = "idle"]
    BY <1>1 DEF Init
  <2>2. QED
    BY <1>1, <2>1 DEF Init, NoSub
<1>3. panel.tray = Empty /\ panel.settled = {} /\ panel.status = "idle"
  <2>1. panel = [NewPanel EXCEPT !.up = TRUE, !.status = "idle"]
    BY <1>1 DEF Init
  <2>2. QED
    BY <2>1 DEF NewPanel
<1>4. Len(sub.queue) = 0
  BY <1>2
<1>5. QED
  BY <1>2, <1>3, <1>4, EmptyFacts DEF RestParts, QueueTrue, PanelTrue, RemovedInv, SettledInv, StatusShown, Shown

(* RestFollows: what the panel will make of each message is what the       *)
(* session's tray says, throughout.                                        *)
LEMMA RestFollows == Spec => [](Inv /\ RestParts)
<1>1. Init => RestParts
  BY InitRest
<1>2. Inv /\ Inv' /\ RestParts /\ [Next]_vars => RestParts'
  <2>1. ASSUME Inv, Inv', RestParts, Next PROVE RestParts'
    BY <2>1, RestStep DEF Inv
  <2>2. ASSUME RestParts, UNCHANGED vars PROVE RestParts'
    BY <2>2 DEF vars, sessionVars, RestParts, QueueTrue, PanelTrue, RemovedInv, SettledInv, StatusShown,
       Shown, InFlux, Storing, Held, InLog, Gone, Silent, LastAbout, IsAbout
  <2>3. QED
    BY <2>1, <2>2
<1>3. QED
  BY <1>1, <1>2, StreamInvariant, PTL DEF Spec

(* RestIsAgreement: when nothing is owed the panel shows the log, the tray *)
(* and the status of the session, whatever an overflow (deliver of the     *)
(* subscriber's queue) dropped, wherever a connection broke and however    *)
(* often the session was evicted and revived in between; but for a read of *)
(* missing entries that failed and a tray read while a reconnect held it.  *)
THEOREM RestIsAgreement == Spec => []RestAgrees
<1>1. Inv /\ RestParts => RestAgrees
  <2>1. SUFFICES ASSUME Inv, RestParts, Resting
                 PROVE  /\ panel.holed \/ panel.entries = DOMAIN log
                        /\ panel.blind \/ panel.tray = tray
                        /\ panel.status = LiveStatus
    BY DEF RestAgrees
  <2>2. /\ Typed /\ StoreInv /\ TrayInv /\ ReachInv /\ UptoInv /\ WholeInv
        /\ PanelTrue /\ StatusShown
    BY <2>1 DEF Inv, RestParts
  <2>3. /\ writing = None /\ residence \notin {"leaving", "starting"} /\ (residence = "cold" => detached = Empty)
        /\ sub.stage = "live" /\ ~sub.ended /\ sub.queue = <<>> /\ Len(sub.queue) = 0 /\ sub.status = LiveStatus
    BY <2>1 DEF Resting, Following
  <2>4. panel.status = LiveStatus
    BY <2>2, <2>3 DEF StatusShown
  <2>5. ASSUME ~panel.holed PROVE panel.entries = DOMAIN log
    <3>1. PICK k \in 0..Len(log) : panel.entries = 1..k /\ sub.last <= k
      BY <2>2, <2>5 DEF WholeInv
    <3>2. Announced = Len(log) /\ sub.upto = 0 /\ Len(log) \in Nat /\ DOMAIN log = 1..Len(log) /\ sub.last \in Nat
      BY <2>2, <2>3, TypedUse, SubUse DEF Announced, UptoInv
    <3>3. ASSUME k # Len(log) PROVE FALSE
      <4>1. PICK n \in 1..Announced : n = Len(log) /\ n > sub.last /\ n > sub.upto
        BY <3>1, <3>2, <3>3
      <4>2. PICK i \in 1..Len(sub.queue) : sub.queue[i] = [kind |-> "entry", seq |-> n]
        BY <2>2, <2>3, <4>1 DEF ReachInv
      <4>3. QED
        BY <2>3, <4>2
    <3>4. QED
      BY <3>1, <3>2, <3>3
  <2>6. ASSUME ~panel.blind PROVE panel.tray = tray
    <3>1. detached = Empty
      BY <2>2, <2>3, TypedUse DEF TrayInv
    <3>2. ASSUME NEW m \in Msg PROVE panel.tray[m] = tray[m]
      <4>1. ~InFlux(m) /\ Silent(sub.queue, m)
        BY <2>3 DEF InFlux, Storing, Silent
      <4>2. panel.tray[m] = Shown(m)
        BY <2>2, <2>3, <2>6, <4>1 DEF PanelTrue
      <4>3. QED
        BY <2>2, <3>1, <4>2, ShownFacts
    <3>3. panel.tray \in [Msg -> States] /\ tray \in [Msg -> States]
      BY <2>2, PanelUse, TypedUse
    <3>4. QED
      BY <3>2, <3>3
  <2>7. QED
    BY <2>4, <2>5, <2>6
<1>2. QED
  BY <1>1, RestFollows, PTL
=============================================================================
