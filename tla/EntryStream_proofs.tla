------------------------ MODULE EntryStream_proofs --------------------------
(***************************************************************************)
(* Theorems about a panel and the session it follows, for every number of  *)
(* messages, entries, revisions and lives, and every queue size.           *)
(***************************************************************************)
EXTENDS EntryStream, FiniteSetTheorems, WellFoundedInduction, TLAPS

-----------------------------------------------------------------------------
(* Induction, from the least number outside a set.                         *)

LEMMA LeastOf ==
  ASSUME NEW T, T \subseteq Nat, T # {}
  PROVE  \E n \in T : \A k \in T : n <= k
<1>1. IsWellFoundedOn({p \in Nat \X Nat : p[1] < p[2]}, Nat)
  BY NatLessThanWellFounded DEF OpToRel
<1>2. PICK n \in T : \A k \in T : ~(<<k, n>> \in {p \in Nat \X Nat : p[1] < p[2]})
  BY <1>1, WFMin
<1>3. ASSUME NEW k \in T PROVE n <= k
  <2>1. ~(<<k, n>>[1] < <<k, n>>[2])
    BY <1>2
  <2>2. QED
    BY <2>1
<1>4. QED
  BY <1>3

LEMMA Induction ==
  ASSUME NEW T, 0 \in T, \A n \in Nat : n \in T => n + 1 \in T
  PROVE  \A n \in Nat : n \in T
<1>1. SUFFICES ASSUME {n \in Nat : n \notin T} # {} PROVE FALSE
  OBVIOUS
<1>2. PICK n \in {n \in Nat : n \notin T} : \A k \in {k \in Nat : k \notin T} : n <= k
  BY <1>1, LeastOf
<1>3. n # 0 /\ n - 1 \in Nat /\ n - 1 \in T
  BY <1>2
<1>4. QED
  BY <1>2, <1>3

-----------------------------------------------------------------------------
(* Sequences.                                                              *)

LEMMA AppendFacts ==
  ASSUME NEW S, NEW s \in Seq(S), NEW x \in S
  PROVE  /\ Append(s, x) \in Seq(S) /\ Len(Append(s, x)) = Len(s) + 1
         /\ \A i \in 1..Len(s) : Append(s, x)[i] = s[i]
         /\ Append(s, x)[Len(s) + 1] = x
OBVIOUS

LEMMA TailFacts ==
  ASSUME NEW S, NEW s \in Seq(S), s # <<>>
  PROVE  /\ Tail(s) \in Seq(S) /\ Len(Tail(s)) = Len(s) - 1 /\ Len(s) \in Nat \ {0}
         /\ \A i \in 1..Len(Tail(s)) : Tail(s)[i] = s[i + 1]
         /\ Head(s) \in S /\ Head(s) = s[1]
OBVIOUS

LEMMA ConcatFacts ==
  ASSUME NEW S, NEW s \in Seq(S), NEW t \in Seq(S)
  PROVE  /\ s \o t \in Seq(S) /\ Len(s \o t) = Len(s) + Len(t)
         /\ \A i \in 1..Len(s) : (s \o t)[i] = s[i]
         /\ \A i \in 1..Len(t) : (s \o t)[Len(s) + i] = t[i]
OBVIOUS

LEMMA RemoveFacts ==
  ASSUME NEW S, NEW s \in Seq(S), NEW d \in 1..Len(s)
  PROVE  /\ RemoveAt(s, d) \in Seq(S) /\ Len(RemoveAt(s, d)) = Len(s) - 1
         /\ \A i \in 1..(Len(s) - 1) : RemoveAt(s, d)[i] = IF i < d THEN s[i] ELSE s[i + 1]
<1>1. Len(s) \in Nat /\ d \in Nat /\ d >= 1 /\ d <= Len(s)
  OBVIOUS
<1>2. PICK a \in Seq(S) :
        a = SubSeq(s, 1, d - 1) /\ Len(a) = d - 1 /\ \A i \in 1..(d - 1) : a[i] = s[i]
  <2>1. /\ SubSeq(s, 1, d - 1) \in Seq(S) /\ Len(SubSeq(s, 1, d - 1)) = d - 1
        /\ \A i \in 1..(d - 1) : SubSeq(s, 1, d - 1)[i] = s[i]
    BY <1>1
  <2>2. QED
    BY <2>1
<1>3. PICK b \in Seq(S) :
        b = SubSeq(s, d + 1, Len(s)) /\ Len(b) = Len(s) - d /\ \A i \in 1..(Len(s) - d) : b[i] = s[d + i]
  <2>1. /\ SubSeq(s, d + 1, Len(s)) \in Seq(S) /\ Len(SubSeq(s, d + 1, Len(s))) = Len(s) - d
        /\ \A i \in 1..(Len(s) - d) : SubSeq(s, d + 1, Len(s))[i] = s[d + i]
    BY <1>1
  <2>2. QED
    BY <2>1
<1>4. RemoveAt(s, d) = a \o b
  BY <1>2, <1>3 DEF RemoveAt
<1>5. /\ a \o b \in Seq(S) /\ Len(a \o b) = Len(s) - 1
      /\ \A i \in 1..(d - 1) : (a \o b)[i] = a[i]
      /\ \A i \in 1..(Len(s) - d) : (a \o b)[d - 1 + i] = b[i]
  <2>1. /\ a \o b \in Seq(S) /\ Len(a \o b) = Len(a) + Len(b)
        /\ \A i \in 1..Len(a) : (a \o b)[i] = a[i]
        /\ \A i \in 1..Len(b) : (a \o b)[Len(a) + i] = b[i]
    BY ConcatFacts
  <2>2. Len(a \o b) = Len(s) - 1
    <3>1. Len(a) = d - 1 /\ Len(b) = Len(s) - d /\ Len(a \o b) = Len(a) + Len(b)
      BY <1>2, <1>3, <2>1
    <3>2. QED
      BY <1>1, <3>1
  <2>3. ASSUME NEW i \in 1..(Len(s) - d) PROVE (a \o b)[d - 1 + i] = b[i]
    BY <1>2, <1>3, <2>1
  <2>4. QED
    BY <1>2, <2>1, <2>2, <2>3
<1>6. ASSUME NEW i \in 1..(Len(s) - 1) PROVE (a \o b)[i] = IF i < d THEN s[i] ELSE s[i + 1]
  <2>1. CASE i < d
    BY <1>2, <1>5, <2>1
  <2>2. CASE ~(i < d)
    <3>1. i - d + 1 \in 1..(Len(s) - d) /\ d - 1 + (i - d + 1) = i /\ d + (i - d + 1) = i + 1
      BY <1>1, <2>2
    <3>2. PICK k \in 1..(Len(s) - d) : d - 1 + k = i /\ d + k = i + 1
      BY <3>1
    <3>3. (a \o b)[d - 1 + k] = b[k] /\ b[k] = s[d + k]
      BY <1>3, <1>5
    <3>4. QED
      BY <2>2, <3>2, <3>3
  <2>3. QED
    BY <2>1, <2>2
<1>7. QED
  BY <1>4, <1>5, <1>6

LEMMA SetAsSeq ==
  ASSUME NEW S, IsFiniteSet(S)
  PROVE  /\ SetToSeq(S) \in Seq(S)
         /\ \A x \in S : \E i \in 1..Len(SetToSeq(S)) : SetToSeq(S)[i] = x
<1> DEFINE n == Cardinality(S)
<1>1. n \in Nat /\ ExistsBijection(1..n, S)
  BY FS_CardinalityType
<1>2. IsFiniteSet(1..n) /\ Cardinality(1..n) = n
  <2>1. 0 \in Int /\ 1 \in Int /\ n \in Int
    BY <1>1
  <2>2. QED
    BY <1>1, <2>1, FS_Interval
<1>3. \E f \in [1..n -> S] : IsInjective(f)
  BY <1>1 DEF ExistsBijection, Bijection, Injection
<1>4. SetToSeq(S) \in [1..n -> S] /\ IsInjective(SetToSeq(S))
  BY <1>3 DEF SetToSeq
<1>5. SetToSeq(S) \in Injection(1..n, S)
  BY <1>4 DEF Injection
<1>6. SetToSeq(S) \in Surjection(1..n, S)
  BY <1>2, <1>5, FS_Injection
<1>7. SetToSeq(S) \in Seq(S) /\ Len(SetToSeq(S)) = n
  BY <1>1, <1>4
<1>8. QED
  BY <1>6, <1>7 DEF Surjection

-----------------------------------------------------------------------------
(* What the channel does to a queue: what was there and what comes stays   *)
(* in order, and only deltas are left out.                                 *)
Stages == {"off", "subscribed", "entries", "draft", "queue", "status", "live"}
Statuses == {"none", "idle", "running", "error", "closed"}
Streams == [stage : Stages, chan : Chan \cup {None}, queue : Seq(Item), ended : BOOLEAN, last : Nat,
            upto : Nat, status : Statuses, life : Nat, bare : BOOLEAN]
Bounded(s) == Len(s.queue) <= Capacity /\ (s.ended => s.queue = <<>>)

Thin(q, all, n) == \E g \in [1..Len(q) -> 1..n] :
  /\ \A i, j \in 1..Len(q) : i < j => g[i] < g[j]
  /\ \A i \in 1..Len(q) : q[i] = all[g[i]]
  /\ \A k \in 1..n : Critical(all[k]) => \E i \in 1..Len(q) : g[i] = k

LEMMA EvictFacts ==
  ASSUME NEW q \in Seq(Item)
  PROVE  \/ EvictOne(q) = q
         \/ \E d \in 1..Len(q) : ~Critical(q[d]) /\ EvictOne(q) = RemoveAt(q, d)
<1> DEFINE I == {i \in 1..Len(q) : ~Critical(q[i])}
<1>1. CASE I = {}
  BY <1>1 DEF EvictOne, SelectInSeq
<1>2. CASE I # {}
  <2>1. I \subseteq Nat
    OBVIOUS
  <2>2. \E d \in I : \A k \in I : d <= k
    BY <1>2, <2>1, LeastOf
  <2>3. Min(I) \in I
    BY <2>2 DEF Min
  <2>4. EvictOne(q) = IF Min(I) = 0 THEN q ELSE RemoveAt(q, Min(I))
    BY <1>2 DEF EvictOne, SelectInSeq
  <2>5. QED
    BY <2>3, <2>4
<1>3. QED
  BY <1>1, <1>2

Receives(s, x, t) ==
  /\ t \in Streams /\ Bounded(t) /\ t = [s EXCEPT !.queue = t.queue, !.ended = t.ended]
  /\ s.ended => t = s
  /\ ~t.ended =>
       \/ t.queue = Append(s.queue, x)
       \/ ~Critical(x) /\ t.queue = s.queue
       \/ \E d \in 1..Len(s.queue) : ~Critical(s.queue[d]) /\ t.queue = Append(RemoveAt(s.queue, d), x)

LEMMA DeliverFacts ==
  ASSUME NEW s \in Streams, NEW x \in Item, Bounded(s), NEW t, t = Deliver(s, x)
  PROVE  Receives(s, x, t)
<1>1. s.queue \in Seq(Item) /\ Capacity \in Nat \ {0} /\ Len(s.queue) \in Nat /\ s.ended \in BOOLEAN
  BY BoundAssumption DEF Streams
<1> DEFINE room == IF Critical(x) /\ Len(s.queue) = Capacity THEN EvictOne(s.queue) ELSE s.queue
<1>2. /\ room \in Seq(Item) /\ Len(room) \in Nat /\ Len(room) <= Capacity
      /\ \/ room = s.queue
         \/ \E d \in 1..Len(s.queue) : ~Critical(s.queue[d]) /\ room = RemoveAt(s.queue, d)
  <2>1. CASE room = s.queue
    BY <1>1, <2>1 DEF Bounded
  <2>2. CASE room # s.queue
    <3>1. PICK d \in 1..Len(s.queue) : ~Critical(s.queue[d]) /\ room = RemoveAt(s.queue, d)
      BY <1>1, <2>2, EvictFacts
    <3>2. RemoveAt(s.queue, d) \in Seq(Item) /\ Len(RemoveAt(s.queue, d)) = Len(s.queue) - 1
      BY <1>1, RemoveFacts
    <3>3. room \in Seq(Item) /\ Len(room) = Len(s.queue) - 1
      BY <3>1, <3>2
    <3>4. QED
      BY <1>1, <3>1, <3>3 DEF Bounded
  <2>3. QED
    BY <2>1, <2>2
<1>3. t = IF s.ended THEN s
          ELSE IF Len(room) < Capacity THEN [s EXCEPT !.queue = Append(room, x)]
          ELSE IF Critical(x) THEN [s EXCEPT !.queue = <<>>, !.ended = TRUE]
          ELSE s
  BY Zenon DEF Deliver
<1> HIDE DEF room
<1>4. CASE s.ended
  <2>1. t = s
    BY <1>3, <1>4
  <2>2. QED
    BY <1>1, <1>4, <2>1 DEF Receives, Streams
<1>5. CASE ~s.ended /\ Len(room) < Capacity
  <2>1. Append(room, x) \in Seq(Item) /\ Len(Append(room, x)) = Len(room) + 1
    BY <1>2, AppendFacts
  <2>2. t = [s EXCEPT !.queue = Append(room, x)]
    BY <1>3, <1>5
  <2>3. t.queue = Append(room, x) /\ t.ended = s.ended /\ t \in Streams
    BY <1>5, <2>1, <2>2 DEF Streams
  <2>4. t = [s EXCEPT !.queue = t.queue, !.ended = t.ended]
    BY <2>2, <2>3 DEF Streams
  <2>5. Bounded(t)
    BY <1>1, <1>2, <1>5, <2>1, <2>3 DEF Bounded
  <2>6. QED
    BY <1>2, <1>5, <2>3, <2>4, <2>5 DEF Receives
<1>6. CASE ~s.ended /\ ~(Len(room) < Capacity) /\ ~Critical(x)
  <2>1. t = s
    BY <1>3, <1>6
  <2>2. QED
    BY <1>1, <1>6, <2>1 DEF Receives, Streams
<1>7. CASE ~s.ended /\ ~(Len(room) < Capacity) /\ Critical(x)
  <2>1. t = [s EXCEPT !.queue = <<>>, !.ended = TRUE]
    BY <1>3, <1>7
  <2>2. <<>> \in Seq(Item) /\ Len(<<>>) = 0
    OBVIOUS
  <2>3. t.queue = <<>> /\ t.ended = TRUE /\ t \in Streams
    BY <2>1, <2>2 DEF Streams
  <2>4. t = [s EXCEPT !.queue = t.queue, !.ended = t.ended]
    BY <2>1, <2>3
  <2>5. QED
    BY <1>1, <1>7, <2>2, <2>3, <2>4 DEF Receives, Bounded
<1>8. QED
  BY <1>4, <1>5, <1>6, <1>7

LEMMA ThinStart ==
  ASSUME NEW q \in Seq(Item), NEW all, \A i \in 1..Len(q) : all[i] = q[i]
  PROVE  Thin(q, all, Len(q))
<1> DEFINE g == [i \in 1..Len(q) |-> i]
<1>1. g \in [1..Len(q) -> 1..Len(q)] /\ \A i \in 1..Len(q) : g[i] = i
  OBVIOUS
<1> HIDE DEF g
<1>2. QED
  BY <1>1 DEF Thin

LEMMA ThinAppends ==
  ASSUME NEW q \in Seq(Item), NEW n \in Nat, NEW all, Thin(q, all, n), all[n + 1] \in Item
  PROVE  /\ Thin(Append(q, all[n + 1]), all, n + 1)
         /\ ~Critical(all[n + 1]) => Thin(q, all, n + 1)
<1>1. PICK g \in [1..Len(q) -> 1..n] :
        /\ \A i, j \in 1..Len(q) : i < j => g[i] < g[j]
        /\ \A i \in 1..Len(q) : q[i] = all[g[i]]
        /\ \A k \in 1..n : Critical(all[k]) => \E i \in 1..Len(q) : g[i] = k
  BY DEF Thin
<1>2. ASSUME ~Critical(all[n + 1]) PROVE Thin(q, all, n + 1)
  <2>1. g \in [1..Len(q) -> 1..(n + 1)]
    BY <1>1
  <2>2. \A k \in 1..(n + 1) : Critical(all[k]) => \E i \in 1..Len(q) : g[i] = k
    BY <1>1, <1>2
  <2>3. QED
    BY <1>1, <2>1, <2>2 DEF Thin
<1>3. Thin(Append(q, all[n + 1]), all, n + 1)
  <2>1. PICK r \in Seq(Item) : /\ r = Append(q, all[n + 1]) /\ Len(r) = Len(q) + 1
                               /\ (\A i \in 1..Len(q) : r[i] = q[i]) /\ r[Len(q) + 1] = all[n + 1]
    <3>1. /\ Append(q, all[n + 1]) \in Seq(Item) /\ Len(Append(q, all[n + 1])) = Len(q) + 1
          /\ \A i \in 1..Len(q) : Append(q, all[n + 1])[i] = q[i]
          /\ Append(q, all[n + 1])[Len(q) + 1] = all[n + 1]
      BY AppendFacts
    <3>2. QED
      BY <3>1
  <2> DEFINE h == [i \in 1..Len(r) |-> IF i = Len(r) THEN n + 1 ELSE g[i]]
  <2>2. Len(q) \in Nat /\ Len(r) \in Nat
    OBVIOUS
  <2>3. /\ \A i \in 1..Len(q) : i \in 1..Len(r) /\ i # Len(r) /\ h[i] = g[i]
        /\ Len(r) \in 1..Len(r) /\ h[Len(r)] = n + 1
        /\ \A i \in 1..Len(r) : i # Len(r) => i \in 1..Len(q)
    BY <2>1, <2>2
  <2>4. h \in [1..Len(r) -> 1..(n + 1)]
    <3>1. \A i \in 1..Len(r) : (IF i = Len(r) THEN n + 1 ELSE g[i]) \in 1..(n + 1)
      BY <1>1, <2>3
    <3>2. QED
      BY <3>1
  <2> HIDE DEF h
  <2>5. \A i, j \in 1..Len(r) : i < j => h[i] < h[j]
    BY <1>1, <2>2, <2>3
  <2>6. \A i \in 1..Len(r) : r[i] = all[h[i]]
    BY <1>1, <2>1, <2>3
  <2>7. \A k \in 1..(n + 1) : Critical(all[k]) => \E i \in 1..Len(r) : h[i] = k
    <3>1. ASSUME NEW k \in 1..n, Critical(all[k]) PROVE \E i \in 1..Len(r) : h[i] = k
      BY <1>1, <2>3, <3>1
    <3>2. QED
      BY <2>3, <3>1
  <2>8. QED
    BY <2>1, <2>4, <2>5, <2>6, <2>7 DEF Thin
<1>4. QED
  BY <1>2, <1>3

LEMMA ThinEvicts ==
  ASSUME NEW q \in Seq(Item), NEW n \in Nat, NEW all, Thin(q, all, n),
         NEW d \in 1..Len(q), ~Critical(q[d]), NEW r, r = RemoveAt(q, d)
  PROVE  Thin(r, all, n)
<1>1. PICK g \in [1..Len(q) -> 1..n] :
        /\ \A i, j \in 1..Len(q) : i < j => g[i] < g[j]
        /\ \A i \in 1..Len(q) : q[i] = all[g[i]]
        /\ \A k \in 1..n : Critical(all[k]) => \E i \in 1..Len(q) : g[i] = k
  BY DEF Thin
<1>2. Len(q) \in Nat /\ d \in Nat /\ d >= 1 /\ d <= Len(q)
  OBVIOUS
<1>3. Len(r) = Len(q) - 1 /\ \A i \in 1..Len(r) : r[i] = IF i < d THEN q[i] ELSE q[i + 1]
  BY RemoveFacts
<1> DEFINE at(i) == IF i < d THEN i ELSE i + 1
           h == [i \in 1..Len(r) |-> g[at(i)]]
<1>4. /\ \A i \in 1..Len(r) : at(i) \in 1..Len(q) /\ at(i) # d /\ r[i] = q[at(i)]
      /\ \A i, j \in 1..Len(r) : i < j => at(i) < at(j)
      /\ \A k \in 1..Len(q) : k # d => \E i \in 1..Len(r) : at(i) = k
  <2>1. ASSUME NEW k \in 1..Len(q), k # d PROVE \E i \in 1..Len(r) : at(i) = k
    <3>1. CASE k < d
      BY <1>2, <1>3, <3>1
    <3>2. CASE k > d
      <4>1. k - 1 \in 1..Len(r) /\ at(k - 1) = k
        BY <1>2, <1>3, <3>2
      <4>2. QED
        BY <4>1
    <3>3. QED
      BY <1>2, <2>1, <3>1, <3>2
  <2>2. QED
    BY <1>2, <1>3, <2>1
<1> HIDE DEF at
<1>5. h \in [1..Len(r) -> 1..n] /\ \A i \in 1..Len(r) : h[i] = g[at(i)]
  BY <1>1, <1>4
<1> HIDE DEF h
<1>6. \A i, j \in 1..Len(r) : i < j => h[i] < h[j]
  BY <1>1, <1>4, <1>5
<1>7. \A i \in 1..Len(r) : r[i] = all[h[i]]
  BY <1>1, <1>4, <1>5
<1>8. \A k \in 1..n : Critical(all[k]) => \E i \in 1..Len(r) : h[i] = k
  BY <1>1, <1>4, <1>5
<1>9. QED
  BY <1>5, <1>6, <1>7, <1>8 DEF Thin

(* Each item is delivered after the one before it.                         *)
LEMMA DeliveredInTurn ==
  ASSUME NEW s, NEW items \in Seq(Item)
  PROVE  \E f : /\ f[0] = s /\ DeliverAll(s, items) = f[Len(items)]
                /\ \A i \in 1..Len(items) : f[i] = Deliver(f[i - 1], items[i])
<1> DEFINE Upto(n, f) == f = [i \in 0..n |-> IF i = 0 THEN s ELSE Deliver(f[i - 1], items[i])]
           T == {n \in Nat : \E f : Upto(n, f)}
<1>1. 0 \in T
  <2>1. Upto(0, [i \in 0..0 |-> s])
    OBVIOUS
  <2>2. QED
    BY <2>1
<1>2. ASSUME NEW n \in Nat, n \in T PROVE n + 1 \in T
  <2>1. PICK f : Upto(n, f)
    BY <1>2
  <2> DEFINE g == [i \in 0..(n + 1) |-> IF i = n + 1 THEN Deliver(f[n], items[n + 1]) ELSE f[i]]
  <2>2. ASSUME NEW i \in 0..(n + 1) PROVE g[i] = IF i = 0 THEN s ELSE Deliver(g[i - 1], items[i])
    <3>1. CASE i = n + 1
      BY <2>1, <3>1
    <3>2. CASE i # n + 1
      <4>1. i \in 0..n /\ (i # 0 => i - 1 \in 0..n)
        BY <3>2
      <4>2. g[i] = f[i] /\ (i # 0 => g[i - 1] = f[i - 1])
        BY <4>1
      <4>3. f[i] = IF i = 0 THEN s ELSE Deliver(f[i - 1], items[i])
        BY <2>1, <4>1
      <4>4. QED
        BY <4>2, <4>3
    <3>3. QED
      BY <3>1, <3>2
  <2>3. Upto(n + 1, g)
    BY <2>2
  <2> HIDE DEF Upto, g
  <2>4. \E h : Upto(n + 1, h)
    BY <2>3
  <2>5. QED
    BY <2>4
<1> HIDE DEF Upto
<1>3. \A n \in Nat : n \in T
  BY <1>1, <1>2, Induction
<1>4. Len(items) \in Nat
  OBVIOUS
<1>5. PICK f : /\ f = [i \in 0..Len(items) |-> IF i = 0 THEN s ELSE Deliver(f[i - 1], items[i])]
               /\ DeliverAll(s, items) = f[Len(items)]
  BY <1>3, <1>4 DEF Upto, DeliverAll
<1>6. QED
  BY <1>4, <1>5

LEMMA DeliverAllFacts ==
  ASSUME NEW s \in Streams, Bounded(s), NEW items \in Seq(Item), NEW t, t = DeliverAll(s, items)
  PROVE  /\ t \in Streams /\ Bounded(t) /\ t = [s EXCEPT !.queue = t.queue, !.ended = t.ended]
         /\ s.ended => t = s
         /\ ~t.ended => Thin(t.queue, s.queue \o items, Len(s.queue) + Len(items))
<1> DEFINE all == s.queue \o items
           n == Len(s.queue)
<1>1. s.queue \in Seq(Item) /\ n \in Nat /\ Len(items) \in Nat
  BY DEF Streams
<1>2. /\ \A i \in 1..n : all[i] = s.queue[i]
      /\ \A i \in 1..Len(items) : all[n + i] = items[i] /\ items[i] \in Item
  BY <1>1, ConcatFacts
<1> HIDE DEF all, n
<1>3. PICK f : /\ f[0] = s /\ t = f[Len(items)]
               /\ \A i \in 1..Len(items) : f[i] = Deliver(f[i - 1], items[i])
  BY DeliveredInTurn
<1> DEFINE Good(i) == /\ f[i] \in Streams /\ Bounded(f[i])
                      /\ f[i] = [s EXCEPT !.queue = f[i].queue, !.ended = f[i].ended]
                      /\ s.ended => f[i] = s
                      /\ ~f[i].ended => Thin(f[i].queue, all, n + i)
           T == {i \in Nat : i <= Len(items) => Good(i)}
<1>4. 0 \in T
  <2>1. Thin(s.queue, all, n)
    BY <1>1, <1>2, ThinStart DEF n
  <2>2. s = [s EXCEPT !.queue = s.queue, !.ended = s.ended]
    BY DEF Streams
  <2>3. Good(0)
    BY <1>1, <1>3, <2>1, <2>2
  <2>4. QED
    BY <2>3
<1>5. ASSUME NEW i \in Nat, i \in T PROVE i + 1 \in T
  <2>1. SUFFICES ASSUME i + 1 <= Len(items) PROVE Good(i + 1)
    OBVIOUS
  <2>2. Good(i)
    BY <1>1, <1>5, <2>1
  <2>3. i + 1 \in 1..Len(items) /\ i + 1 - 1 = i
    BY <1>1, <2>1
  <2> DEFINE r == f[i]
             u == f[i + 1]
             x == items[i + 1]
  <2>4. u = Deliver(r, x) /\ x \in Item /\ all[n + i + 1] = x /\ n + i \in Nat
    BY <1>1, <1>2, <1>3, <2>3
  <2>5. r \in Streams /\ Bounded(r) /\ r = [s EXCEPT !.queue = r.queue, !.ended = r.ended]
    BY <2>2
  <2> HIDE DEF r, u, x
  <2>6. /\ u \in Streams /\ Bounded(u) /\ u = [r EXCEPT !.queue = u.queue, !.ended = u.ended]
        /\ r.ended => u = r
        /\ ~u.ended =>
             \/ u.queue = Append(r.queue, x)
             \/ ~Critical(x) /\ u.queue = r.queue
             \/ \E d \in 1..Len(r.queue) : ~Critical(r.queue[d]) /\ u.queue = Append(RemoveAt(r.queue, d), x)
    <3>1. Receives(r, x, u)
      BY <2>4, <2>5, DeliverFacts
    <3>2. QED
      BY <3>1 DEF Receives
  <2>7. u = [s EXCEPT !.queue = u.queue, !.ended = u.ended]
    BY <2>5, <2>6 DEF Streams
  <2>8. s.ended => u = s
    BY <2>2, <2>6 DEF r
  <2>9. ASSUME ~u.ended PROVE Thin(u.queue, all, n + (i + 1))
    <3>1. ~r.ended
      BY <2>6, <2>9
    <3>2. Thin(r.queue, all, n + i) /\ r.queue \in Seq(Item)
      BY <2>2, <2>5, <3>1 DEF r, Streams
    <3>3. Thin(Append(r.queue, x), all, n + i + 1) /\ (~Critical(x) => Thin(r.queue, all, n + i + 1))
      BY <2>4, <3>2, ThinAppends
    <3>4. ASSUME NEW d \in 1..Len(r.queue), ~Critical(r.queue[d])
          PROVE  Thin(Append(RemoveAt(r.queue, d), x), all, n + i + 1)
      <4>1. PICK q \in Seq(Item) : q = RemoveAt(r.queue, d)
        <5>1. RemoveAt(r.queue, d) \in Seq(Item)
          BY <3>2, RemoveFacts
        <5>2. QED
          BY <5>1
      <4>2. Thin(q, all, n + i)
        BY <2>4, <3>2, <3>4, <4>1, ThinEvicts
      <4>3. Thin(Append(q, x), all, n + i + 1)
        BY <2>4, <4>2, ThinAppends
      <4>4. QED
        BY <4>1, <4>3
    <3>5. n + i + 1 = n + (i + 1)
      BY <1>1
    <3>6. QED
      BY <2>6, <2>9, <3>3, <3>4, <3>5
  <2>10. QED
    BY <2>6, <2>7, <2>8, <2>9 DEF u
<1> HIDE DEF Good
<1>6. \A i \in Nat : i \in T
  BY <1>4, <1>5, Induction
<1>7. Good(Len(items))
  BY <1>1, <1>6
<1>8. QED
  BY <1>3, <1>7 DEF Good, all, n

-----------------------------------------------------------------------------
(* Types: every record has its fields.                                     *)
States == {"out", "queued", "unsent"}
Panels == [up : BOOLEAN, entries : SUBSET Nat, tray : [Msg -> States], settled : SUBSET Msg,
           status : Statuses, gate : Nat, cursor : Nat, after : Nat, blind : BOOLEAN, holed : BOOLEAN]

LogOK == log \in Seq(Msg \cup {Output}) /\ Len(log) <= MaxEntry
SessionOK ==
  /\ residence \in {"cold", "live", "exited", "leaving", "starting"}
  /\ status \in {"idle", "running", "error", "closed"} /\ meta \in {"idle", "running", "error"}
  /\ tray \in [Msg -> States] /\ detached \in [Msg -> States] /\ sent \subseteq Msg
  /\ rev \in 0..MaxRev /\ lives \in Nat /\ busy \in BOOLEAN
  /\ writing \in {None} \cup Stored \cup Written
  /\ writing # None /\ writing.kind = "entry" => writing.seq <= MaxEntry
ChannelOK ==
  /\ registered \in Chan \cup {None} /\ channel \in Chan \cup {None} /\ ghost \in Chan \cup {None}
  /\ Resident <=> channel # None
SubOK ==
  /\ sub \in Streams /\ Bounded(sub)
  /\ sub.last <= Len(log) /\ sub.upto <= Len(log) /\ sub.life <= lives
  /\ sub.stage = "off" => sub = NoSub
PanelOK ==
  /\ panel \in Panels
  /\ panel.entries \subseteq 1..Len(log) /\ panel.cursor <= Len(log) /\ panel.after <= Len(log)
  /\ panel.up <=> sub.stage # "off"

Typed == LogOK /\ SessionOK /\ ChannelOK /\ SubOK /\ PanelOK

LEMMA TypeParts == Typed => TypeOK
<1>1. SUFFICES ASSUME Typed PROVE TypeOK
  OBVIOUS
<1>2. ToSet(log) \subseteq Msg \cup {Output} /\ Len(log) <= MaxEntry /\ Len(log) \in Nat /\ DOMAIN log = 1..Len(log)
  BY <1>1 DEF Typed, LogOK, ToSet
<1>3. ToSet(sub.queue) \subseteq Item /\ Len(sub.queue) <= Capacity /\ (sub.ended => sub.queue = <<>>)
  <2>1. sub.queue \in Seq(Item)
    BY <1>1 DEF Typed, SubOK, Streams
  <2>2. QED
    BY <1>1, <2>1 DEF Typed, SubOK, Bounded, ToSet
<1>4. sub.last \in 0..Len(log) /\ sub.upto \in 0..Len(log)
  BY <1>1, <1>2 DEF Typed, SubOK, Streams
<1>5. panel.entries \subseteq DOMAIN log /\ panel.cursor \in 0..Len(log) /\ panel.after \in 0..Len(log)
  BY <1>1, <1>2 DEF Typed, PanelOK, Panels
<1>6. {tray[m] : m \in Msg} \cup {detached[m] : m \in Msg} \cup {panel.tray[m] : m \in Msg}
        \subseteq {"out", "queued", "unsent"}
  BY <1>1 DEF Typed, SessionOK, PanelOK, Panels, States
<1>7. QED
  BY <1>1, <1>2, <1>3, <1>4, <1>5, <1>6 DEF TypeOK, Typed, ChannelOK

(* The items.                                                              *)
LEMMA ItemFacts ==
  /\ \A m \in Msg : Removal(m) \in Item /\ Upsert(m, "queued") \in Item /\ Upsert(m, "unsent") \in Item
  /\ \A st \in {"idle", "running", "error"} : Status(st) \in Item
  /\ \A n \in 1..MaxEntry : [kind |-> "entry", seq |-> n] \in Item
  /\ \A n \in 1..MaxRev : [kind |-> "delta", rev |-> n] \in Item
BY DEF Item, Removal, Upsert, Status

LEMMA ItemKinds ==
  ASSUME NEW x \in Item
  PROVE  \/ x.kind = "entry" /\ x.seq \in 1..MaxEntry /\ x = [kind |-> "entry", seq |-> x.seq]
         \/ x.kind = "delta" /\ x.rev \in 1..MaxRev /\ x = [kind |-> "delta", rev |-> x.rev]
         \/ x.kind = "upsert" /\ x.msg \in Msg /\ x.state \in {"queued", "unsent"}
         \/ x.kind = "remove" /\ x.msg \in Msg /\ x = Removal(x.msg)
         \/ x.kind = "status" /\ x.status \in {"idle", "running", "error"}
BY DEF Item, Removal

LEMMA EachFacts ==
  ASSUME NEW S \in SUBSET Msg
  PROVE  /\ Each(S, Removal) \in Seq(Item)
         /\ Each(S, LAMBDA m : Upsert(m, "unsent")) \in Seq(Item)
         /\ \A m \in S : \E i \in 1..Len(Each(S, Removal)) : Each(S, Removal)[i] = Removal(m)
         /\ \A i \in 1..Len(Each(S, Removal)) : Each(S, Removal)[i] \in {Removal(m) : m \in S}
         /\ \A i \in 1..Len(Each(S, LAMBDA m : Upsert(m, "unsent"))) :
              Each(S, LAMBDA m : Upsert(m, "unsent"))[i] \in {Upsert(m, "unsent") : m \in S}
<1>1. IsFiniteSet(S)
  BY BoundAssumption, FS_Subset
<1>2. PICK s \in Seq(S) : s = SetToSeq(S) /\ \A x \in S : \E i \in 1..Len(s) : s[i] = x
  BY <1>1, SetAsSeq
<1>3. Len(s) \in Nat /\ DOMAIN s = 1..Len(s) /\ \A i \in 1..Len(s) : s[i] \in S
  OBVIOUS
<1>4. PICK r : r = [i \in 1..Len(s) |-> Removal(s[i])]
  OBVIOUS
<1>5. PICK u : u = [i \in 1..Len(s) |-> Upsert(s[i], "unsent")]
  OBVIOUS
<1>6. r = Each(S, Removal) /\ u = Each(S, LAMBDA m : Upsert(m, "unsent"))
  BY <1>2, <1>3, <1>4, <1>5 DEF Each
<1>7. /\ r \in Seq(Item) /\ Len(r) = Len(s) /\ \A i \in 1..Len(s) : r[i] = Removal(s[i])
      /\ u \in Seq(Item) /\ Len(u) = Len(s) /\ \A i \in 1..Len(s) : u[i] = Upsert(s[i], "unsent")
  BY <1>3, <1>4, <1>5, ItemFacts
<1>8. /\ \A m \in S : \E i \in 1..Len(r) : r[i] = Removal(m)
      /\ \A i \in 1..Len(r) : r[i] \in {Removal(m) : m \in S}
      /\ \A i \in 1..Len(u) : u[i] \in {Upsert(m, "unsent") : m \in S}
  BY <1>2, <1>3, <1>7
<1>9. QED
  BY <1>6, <1>7, <1>8

LEMMA OneItem ==
  ASSUME NEW x \in Item
  PROVE  <<x>> \in Seq(Item) /\ Len(<<x>>) = 1 /\ <<x>>[1] = x
OBVIOUS

(* What a broadcast does to the stream, whoever hears it.                  *)
LEMMA BroadcastTypes ==
  ASSUME Typed, NEW on, NEW items \in Seq(Item), Broadcast(on, items)
  PROVE  /\ sub' \in Streams /\ Bounded(sub')
         /\ sub' = [sub EXCEPT !.queue = sub'.queue, !.ended = sub'.ended]
         /\ sub.chan = None => sub' = sub
         /\ sub.ended => sub' = sub
<1>1. sub \in Streams /\ Bounded(sub)
  BY DEF Typed, SubOK
<1>2. CASE sub' = sub
  BY <1>1, <1>2 DEF Streams, Bounded
<1>3. CASE sub.chan = on /\ on # None
  <2>1. PICK t : t = DeliverAll(sub, items)
    OBVIOUS
  <2>2. /\ t \in Streams /\ Bounded(t) /\ t = [sub EXCEPT !.queue = t.queue, !.ended = t.ended]
        /\ sub.ended => t = sub
    BY <1>1, <2>1, DeliverAllFacts
  <2>3. sub' = t
    BY <1>3, <2>1 DEF Broadcast
  <2>4. QED
    BY <1>3, <2>2, <2>3 DEF Bounded
<1>4. QED
  BY <1>2, <1>3 DEF Broadcast

-----------------------------------------------------------------------------
(* What the panel does with entries.                                       *)

LEMMA LastFacts ==
  ASSUME NEW p, NEW n \in Nat, p.entries \subseteq 1..n
  PROVE  /\ LastSeq(p) \in 0..n /\ \A k \in p.entries : k <= LastSeq(p)
         /\ \A k \in Nat : p.entries = 1..k => LastSeq(p) = k
         /\ p.entries # {} => LastSeq(p) \in p.entries
<1>1. CASE p.entries = {}
  BY <1>1 DEF LastSeq
<1>2. CASE p.entries # {}
  <2> DEFINE T == {n - k : k \in p.entries}
  <2>1. T \subseteq Nat /\ T # {}
    BY <1>2
  <2>2. PICK d \in T : \A e \in T : d <= e
    BY <2>1, LeastOf
  <2>3. PICK j \in p.entries : d = n - j
    BY <2>2
  <2>4. ASSUME NEW k \in p.entries PROVE k <= j
    <3>1. n - k \in T /\ k \in Nat /\ j \in Nat
      BY <2>3
    <3>2. n - j <= n - k
      BY <2>2, <2>3, <3>1
    <3>3. QED
      BY <3>1, <3>2
  <2>5. LastSeq(p) \in p.entries /\ \A k \in p.entries : k <= LastSeq(p)
    BY <1>2, <2>3, <2>4 DEF LastSeq
  <2>6. ASSUME NEW k \in Nat, p.entries = 1..k PROVE LastSeq(p) = k
    <3>1. LastSeq(p) \in 1..k /\ k \in 1..k
      BY <2>5, <2>6
    <3>2. QED
      BY <2>5, <2>6, <3>1
  <2>7. QED
    BY <2>5, <2>6
<1>3. QED
  BY <1>1, <1>2

\* Only the entries and the tray of the panel changed, and the cursor.
Kept(p, q) == /\ q.up = p.up /\ q.status = p.status /\ q.gate = p.gate /\ q.after = p.after
              /\ q.blind = p.blind /\ q.holed = p.holed

\* The panel q has the entry n, which p may have lacked.
Appends(p, n, q) ==
  /\ q \in Panels /\ Kept(p, q) /\ q.cursor = p.cursor
  /\ q.entries \in {p.entries, p.entries \cup {n}}
  /\ \A k \in Nat : p.entries = 1..k /\ n <= k => q.entries = p.entries
  /\ \A k \in Nat : p.entries = 1..k /\ n = k + 1 => q.entries = 1..n
  /\ \A m \in Msg : q.tray[m] \in {p.tray[m], "out"}

LEMMA AppendEntryFacts ==
  ASSUME LogOK, NEW p \in Panels, p.entries \subseteq 1..Len(log), NEW n \in 1..Len(log), NEW q,
         q = AppendEntry(p, n)
  PROVE  Appends(p, n, q)
<1>1. Len(log) \in Nat /\ log[n] \in Msg \cup {Output} /\ n \in Nat
  BY DEF LogOK
<1>2. /\ LastSeq(p) \in 0..Len(log)
      /\ \A k \in Nat : p.entries = 1..k => LastSeq(p) = k
  BY <1>1, LastFacts
<1>3. CASE n <= LastSeq(p)
  <2>1. q = p
    BY <1>3 DEF AppendEntry
  <2>2. \A k \in Nat : p.entries = 1..k => n <= k
    BY <1>2, <1>3
  <2>3. QED
    BY <1>1, <2>1, <2>2 DEF Appends, Kept
<1>4. CASE ~(n <= LastSeq(p))
  <2> DEFINE r == [p EXCEPT !.entries = @ \cup {n}]
  <2>1. /\ r \in Panels /\ r.entries = p.entries \cup {n} /\ r.tray = p.tray /\ r.settled = p.settled
        /\ Kept(p, r) /\ r.cursor = p.cursor
    BY <1>1 DEF Panels, Kept
  <2>2. q = IF log[n] = Output THEN r ELSE Without(r, log[n])
    BY <1>4 DEF AppendEntry
  <2> HIDE DEF r
  <2>3. /\ q \in Panels /\ Kept(p, q) /\ q.cursor = p.cursor
        /\ q.entries = p.entries \cup {n}
        /\ \A m \in Msg : q.tray[m] \in {p.tray[m], "out"}
    <3>1. CASE log[n] = Output
      BY <2>1, <2>2, <3>1
    <3>2. CASE log[n] # Output
      <4>1. q = [r EXCEPT !.tray[log[n]] = "out", !.settled = @ \cup {log[n]}] /\ log[n] \in Msg
        BY <1>1, <2>2, <3>2 DEF Without
      <4>2. QED
        <5>1. q \in Panels
          <6>1. q.tray = [r.tray EXCEPT ![log[n]] = "out"] /\ r.tray \in [Msg -> States]
            BY <2>1, <4>1 DEF Panels
          <6>2. q.tray \in [Msg -> States]
            BY <6>1 DEF States
          <6>3. q.settled \in SUBSET Msg
            BY <2>1, <4>1 DEF Panels
          <6>4. QED
            BY <2>1, <4>1, <6>2, <6>3 DEF Panels
        <5>2. Kept(p, q) /\ q.cursor = p.cursor /\ q.entries = p.entries \cup {n}
          BY <2>1, <4>1 DEF Panels, Kept
        <5>3. \A m \in Msg : q.tray[m] \in {p.tray[m], "out"}
          BY <2>1, <4>1 DEF Panels
        <5>4. QED
          BY <5>1, <5>2, <5>3
    <3>3. QED
      BY <3>1, <3>2
  <2>4. \A k \in Nat : p.entries = 1..k => ~(n <= k)
    BY <1>2, <1>4
  <2>5. \A k \in Nat : p.entries = 1..k /\ n = k + 1 => q.entries = 1..n
    BY <2>3
  <2>6. QED
    BY <2>3, <2>4, <2>5 DEF Appends
<1>5. QED
  BY <1>3, <1>4

(* Entry after entry.                                                      *)
LEMMA ShownInTurn ==
  ASSUME NEW n \in Nat, sub.last \in Nat, n > sub.last
  PROVE  \E f : /\ f[0] = panel /\ SendUpTo(n) = [f[n - sub.last] EXCEPT !.cursor = n]
                /\ \A i \in 1..(n - sub.last) : f[i] = AppendEntry(f[i - 1], sub.last + i)
<1> DEFINE Upto(d, f) == f = [i \in 0..d |-> IF i = 0 THEN panel ELSE AppendEntry(f[i - 1], sub.last + i)]
           T == {d \in Nat : \E f : Upto(d, f)}
<1>1. 0 \in T
  <2>1. Upto(0, [i \in 0..0 |-> panel])
    OBVIOUS
  <2>2. QED
    BY <2>1
<1>2. ASSUME NEW d \in Nat, d \in T PROVE d + 1 \in T
  <2>1. PICK f : Upto(d, f)
    BY <1>2
  <2> DEFINE g == [i \in 0..(d + 1) |-> IF i = d + 1 THEN AppendEntry(f[d], sub.last + (d + 1)) ELSE f[i]]
  <2>2. ASSUME NEW i \in 0..(d + 1)
        PROVE  g[i] = IF i = 0 THEN panel ELSE AppendEntry(g[i - 1], sub.last + i)
    <3>1. CASE i = d + 1
      BY <2>1, <3>1
    <3>2. CASE i # d + 1
      <4>1. i \in 0..d /\ (i # 0 => i - 1 \in 0..d)
        BY <3>2
      <4>2. g[i] = f[i] /\ (i # 0 => g[i - 1] = f[i - 1])
        BY <4>1
      <4>3. f[i] = IF i = 0 THEN panel ELSE AppendEntry(f[i - 1], sub.last + i)
        BY <2>1, <4>1
      <4>4. QED
        BY <4>2, <4>3
    <3>3. QED
      BY <3>1, <3>2
  <2>3. Upto(d + 1, g)
    BY <2>2
  <2> HIDE DEF Upto, g
  <2>4. \E h : Upto(d + 1, h)
    BY <2>3
  <2>5. QED
    BY <2>4
<1> HIDE DEF Upto
<1>3. \A d \in Nat : d \in T
  BY <1>1, <1>2, Induction
<1>4. n - sub.last \in Nat
  OBVIOUS
<1>5. PICK f : /\ f = [i \in 0..(n - sub.last) |->
                         IF i = 0 THEN panel ELSE AppendEntry(f[i - 1], sub.last + i)]
               /\ SendUpTo(n) = [f[n - sub.last] EXCEPT !.cursor = n]
  <2>1. PICK f : Upto(n - sub.last, f)
    BY <1>3, <1>4
  <2>2. QED
    BY <1>3, <1>4 DEF Upto, SendUpTo
<1>6. PICK d \in Nat : d = n - sub.last
  BY <1>4
<1>7. f[0] = panel /\ \A i \in 1..d : f[i] = AppendEntry(f[i - 1], sub.last + i)
  <2>1. f = [i \in 0..d |-> IF i = 0 THEN panel ELSE AppendEntry(f[i - 1], sub.last + i)]
    BY <1>5, <1>6
  <2>2. QED
    BY <2>1
<1>8. QED
  BY <1>5, <1>6, <1>7

\* What the panel has been sent up to the entry n.
Sends(n, q) ==
  /\ q \in Panels /\ q.entries \subseteq 1..Len(log)
  /\ Kept(panel, q) /\ q.cursor = IF n > sub.last THEN n ELSE panel.cursor
  /\ \A m \in Msg : q.tray[m] \in {panel.tray[m], "out"}
  /\ \A k \in Nat : panel.entries = 1..k /\ sub.last <= k => q.entries = 1..(IF n > k THEN n ELSE k)

LEMMA SendUpToFacts ==
  ASSUME Typed, NEW n \in 0..Len(log), NEW q, q = SendUpTo(n)
  PROVE  Sends(n, q)
<1>1. /\ Len(log) \in Nat /\ sub.last \in Nat /\ n \in Nat /\ LogOK
      /\ panel \in Panels /\ panel.entries \subseteq 1..Len(log)
  BY DEF Typed, LogOK, SubOK, Streams, PanelOK
<1>2. CASE ~(n > sub.last)
  <2>1. q = panel
    BY <1>2 DEF SendUpTo
  <2>2. \A k \in Nat : sub.last <= k => ~(n > k)
    BY <1>1, <1>2
  <2>3. QED
    BY <1>1, <1>2, <2>1, <2>2 DEF Sends, Kept
<1>3. CASE n > sub.last
  <2>1. PICK f : /\ f[0] = panel /\ SendUpTo(n) = [f[n - sub.last] EXCEPT !.cursor = n]
                 /\ \A i \in 1..(n - sub.last) : f[i] = AppendEntry(f[i - 1], sub.last + i)
    BY <1>1, <1>3, ShownInTurn
  <2> DEFINE Good(i) ==
               /\ f[i] \in Panels /\ f[i].entries \subseteq 1..Len(log)
               /\ Kept(panel, f[i]) /\ f[i].cursor = panel.cursor
               /\ \A m \in Msg : f[i].tray[m] \in {panel.tray[m], "out"}
               /\ \A k \in Nat : panel.entries = 1..k /\ sub.last <= k =>
                    f[i].entries = 1..(IF sub.last + i > k THEN sub.last + i ELSE k)
             T == {i \in Nat : i <= n - sub.last => Good(i)}
  <2>2. 0 \in T
    <3>1. \A k \in Nat : sub.last <= k => ~(sub.last + 0 > k)
      BY <1>1
    <3>2. Good(0)
      BY <1>1, <2>1, <3>1 DEF Kept
    <3>3. QED
      BY <3>2
  <2>3. ASSUME NEW i \in Nat, i \in T PROVE i + 1 \in T
    <3>1. SUFFICES ASSUME i + 1 <= n - sub.last PROVE Good(i + 1)
      OBVIOUS
    <3>2. Good(i)
      BY <1>1, <2>3, <3>1
    <3>3. i + 1 \in 1..(n - sub.last) /\ (i + 1) - 1 = i /\ sub.last + (i + 1) \in 1..Len(log)
      BY <1>1, <3>1
    <3> DEFINE p == f[i]
               r == f[i + 1]
               e == sub.last + (i + 1)
    <3>4. r = AppendEntry(p, e) /\ e \in 1..Len(log) /\ p \in Panels /\ p.entries \subseteq 1..Len(log)
      BY <2>1, <3>2, <3>3
    <3> HIDE DEF p, r, e
    <3>5. Appends(p, e, r)
      BY <1>1, <3>4, AppendEntryFacts
    <3>6. /\ r \in Panels /\ r.entries \subseteq 1..Len(log)
          /\ Kept(p, r) /\ r.cursor = p.cursor
          /\ \A m \in Msg : r.tray[m] \in {p.tray[m], "out"}
      BY <3>4, <3>5 DEF Appends
    <3>7. Kept(panel, r) /\ r.cursor = panel.cursor
      BY <3>2, <3>6 DEF p, Kept
    <3>8. \A m \in Msg : r.tray[m] \in {panel.tray[m], "out"}
      BY <3>2, <3>6 DEF p
    <3>9. ASSUME NEW k \in Nat, panel.entries = 1..k, sub.last <= k
          PROVE  r.entries = 1..(IF e > k THEN e ELSE k)
      <4>1. p.entries = 1..(IF sub.last + i > k THEN sub.last + i ELSE k)
        BY <3>2, <3>9 DEF p
      <4>2. PICK j \in Nat : j = (IF sub.last + i > k THEN sub.last + i ELSE k) /\ p.entries = 1..j
        BY <1>1, <4>1
      <4>3. e = sub.last + i + 1 /\ e \in Nat
        BY <1>1 DEF e
      <4>4. CASE e > k
        <5>1. e = j + 1
          BY <1>1, <4>2, <4>3, <4>4
        <5>2. r.entries = 1..e
          BY <3>5, <4>2, <5>1 DEF Appends
        <5>3. QED
          BY <4>4, <5>2
      <4>5. CASE ~(e > k)
        <5>1. j = k /\ e <= j
          BY <1>1, <4>2, <4>3, <4>5
        <5>2. r.entries = 1..k
          BY <3>5, <4>2, <5>1 DEF Appends
        <5>3. QED
          BY <4>5, <5>2
      <4>6. QED
        BY <4>4, <4>5
    <3>10. QED
      BY <3>6, <3>7, <3>8, <3>9 DEF r, e
  <2> HIDE DEF Good
  <2>4. \A i \in Nat : i \in T
    BY <2>2, <2>3, Induction
  <2>5. n - sub.last \in Nat
    BY <1>1, <1>3
  <2>6. Good(n - sub.last)
    BY <2>4, <2>5
  <2> DEFINE r == f[n - sub.last]
  <2>7. /\ r \in Panels /\ r.entries \subseteq 1..Len(log) /\ q = [r EXCEPT !.cursor = n]
        /\ Kept(panel, r) /\ r.cursor = panel.cursor
        /\ \A m \in Msg : r.tray[m] \in {panel.tray[m], "out"}
    BY <2>1, <2>6 DEF Good
  <2>8. sub.last + (n - sub.last) = n
    BY <1>1
  <2>9. \A k \in Nat : panel.entries = 1..k /\ sub.last <= k => r.entries = 1..(IF n > k THEN n ELSE k)
    BY <2>6, <2>8 DEF Good
  <2> HIDE DEF r
  <2>10. q \in Panels /\ q.entries = r.entries /\ q.tray = r.tray /\ q.settled = r.settled /\ q.cursor = n
    BY <1>1, <2>7 DEF Panels
  <2>11. Kept(panel, q)
    BY <2>7 DEF Panels, Kept
  <2>12. QED
    BY <1>3, <2>7, <2>9, <2>10, <2>11 DEF Sends
<1>4. QED
  BY <1>2, <1>3

-----------------------------------------------------------------------------
(* The types hold through every step.                                      *)

LEMMA NoneFacts ==
  /\ None \notin Chan /\ None \notin Msg /\ None \notin Stored /\ None \notin Written
  /\ Capacity \in Nat \ {0} /\ MaxEntry \in Nat /\ MaxRev \in Nat /\ MaxLife \in Nat /\ MaxRare \in Nat
  /\ Output \notin Msg
BY BoundAssumption DEF Chan

LEMMA EmptyFacts == Empty \in [Msg -> States] /\ \A m \in Msg : Empty[m] = "out"
BY DEF Empty, States

LEMMA NoSubFacts ==
  /\ NoSub \in Streams /\ Bounded(NoSub) /\ NoSub.stage = "off" /\ NoSub.chan = None /\ NoSub.queue = <<>>
  /\ NoSub.ended = FALSE /\ NoSub.last = 0 /\ NoSub.upto = 0 /\ NoSub.life = 0 /\ NoSub.bare = FALSE
  /\ NoSub.status = "none"
BY NoneFacts DEF NoSub, Streams, Bounded, Stages, Statuses

LEMMA NewPanelFacts ==
  /\ NewPanel \in Panels /\ NewPanel.entries = {} /\ NewPanel.cursor = 0 /\ NewPanel.after = 0
  /\ NewPanel.up = FALSE /\ NewPanel.tray = Empty /\ NewPanel.holed = FALSE /\ NewPanel.gate = 0
BY EmptyFacts DEF NewPanel, Panels, Statuses

LEMMA FreshFacts ==
  ASSUME Typed
  PROVE  SessionChannel \in Chan
<1>1. CASE registered # None
  BY <1>1 DEF SessionChannel, Typed, ChannelOK
<1>2. CASE registered = None
  <2>1. None \notin 1..3
    BY NoneFacts DEF Chan
  <2>2. \E c \in Chan : c \notin {registered, sub.chan, ghost}
    BY <1>2, <2>1 DEF Chan
  <2>3. Fresh \in Chan
    BY <2>2 DEF Fresh
  <2>4. QED
    BY <1>2, <2>3 DEF SessionChannel
<1>3. QED
  BY <1>1, <1>2

LEMMA StatusFacts ==
  ASSUME Typed
  PROVE  LiveStatus \in {"idle", "running", "error", "closed"} /\ DraftRev \in 0..MaxRev
BY NoneFacts DEF Typed, SessionOK, LiveStatus, DraftRev

LEMMA ReleaseFacts ==
  ASSUME NEW s, NEW g, NEW r
  PROVE  Release(s, g, r) \in {registered, None}
BY DEF Release

LEMMA SubKept ==
  ASSUME Typed, LogOK', Len(log) <= Len(log'), lives' \in Nat, lives <= lives', sub' \in Streams, Bounded(sub'),
         sub' = [sub EXCEPT !.queue = sub'.queue, !.ended = sub'.ended], sub.chan = None => sub' = sub
  PROVE  SubOK' /\ sub'.stage = sub.stage
<1>1. /\ sub \in Streams /\ Len(log) \in Nat /\ Len(log') \in Nat /\ lives \in Nat
      /\ sub.last <= Len(log) /\ sub.upto <= Len(log) /\ sub.life <= lives
      /\ sub.stage = "off" => sub = NoSub
  BY DEF Typed, SubOK, LogOK, SessionOK
<1>2. /\ sub'.last = sub.last /\ sub'.upto = sub.upto /\ sub'.life = sub.life /\ sub'.stage = sub.stage
  BY <1>1 DEF Streams
<1>3. sub.stage = "off" => sub' = NoSub
  BY <1>1, NoSubFacts
<1>4. sub'.last <= Len(log') /\ sub'.upto <= Len(log') /\ sub'.life <= lives'
  BY <1>1, <1>2 DEF Streams
<1>5. QED
  BY <1>2, <1>3, <1>4 DEF SubOK, Bounded

LEMMA PanelKept ==
  ASSUME Typed, LogOK', Len(log) <= Len(log'), panel' = panel, sub'.stage = sub.stage
  PROVE  PanelOK'
<1>1. /\ panel \in Panels /\ Len(log) \in Nat /\ Len(log') \in Nat /\ panel.entries \subseteq 1..Len(log)
      /\ panel.cursor <= Len(log) /\ panel.after <= Len(log) /\ (panel.up <=> sub.stage # "off")
  BY DEF Typed, PanelOK, LogOK
<1>2. panel.cursor \in Nat /\ panel.after \in Nat
  BY <1>1 DEF Panels
<1>3. panel.entries \subseteq 1..Len(log') /\ panel.cursor <= Len(log') /\ panel.after <= Len(log')
  BY <1>1, <1>2
<1>4. QED
  BY <1>1, <1>3 DEF PanelOK

\* A step of the session as the stream sees it.
Hears == sub' = sub \/ \E on, items : items \in Seq(Item) /\ Broadcast(on, items)

LEMMA HearsTypes ==
  ASSUME Typed, Hears
  PROVE  /\ sub' \in Streams /\ Bounded(sub')
         /\ sub' = [sub EXCEPT !.queue = sub'.queue, !.ended = sub'.ended]
         /\ sub.chan = None => sub' = sub
         /\ sub.ended => sub' = sub
<1>1. sub \in Streams /\ Bounded(sub)
  BY DEF Typed, SubOK
<1>2. CASE sub' = sub
  BY <1>1, <1>2 DEF Streams, Bounded
<1>3. CASE sub' # sub
  <2>1. PICK on, items : items \in Seq(Item) /\ Broadcast(on, items)
    BY <1>3 DEF Hears
  <2>2. QED
    BY <2>1, BroadcastTypes
<1>4. QED
  BY <1>2, <1>3

LEMMA SessionStep ==
  ASSUME Typed, LogOK', SessionOK', ChannelOK', Len(log) <= Len(log'), lives <= lives', panel' = panel, Hears
  PROVE  Typed'
<1>1. lives' \in Nat
  BY DEF SessionOK
<1>2. SubOK' /\ sub'.stage = sub.stage
  <2>1. /\ sub' \in Streams /\ Bounded(sub')
        /\ sub' = [sub EXCEPT !.queue = sub'.queue, !.ended = sub'.ended]
        /\ sub.chan = None => sub' = sub
    BY HearsTypes
  <2>2. QED
    BY <1>1, <2>1, SubKept
<1>3. PanelOK'
  BY <1>2, PanelKept
<1>4. QED
  BY <1>2, <1>3 DEF Typed

LEMMA ItemSeqs ==
  ASSUME Typed
  PROVE  /\ \A m \in Msg : /\ <<Upsert(m, "queued")>> \in Seq(Item) /\ <<Removal(m)>> \in Seq(Item)
         /\ \A st \in {"idle", "running", "error"} : <<Status(st)>> \in Seq(Item)
         /\ \A n \in 1..MaxRev : <<[kind |-> "delta", rev |-> n]>> \in Seq(Item)
         /\ \A n \in 1..MaxEntry : <<[kind |-> "entry", seq |-> n]>> \in Seq(Item)
         /\ \A S \in SUBSET Msg : /\ Each(S, Removal) \in Seq(Item)
                                  /\ Each(S, LAMBDA m : Upsert(m, "unsent")) \in Seq(Item)
<1>1. \A x \in Item : <<x>> \in Seq(Item)
  BY OneItem
<1>2. QED
  BY <1>1, ItemFacts, EachFacts

\* What an entry that is announced says.
EntryItems == (IF writing.seq = 0 THEN <<>> ELSE <<[kind |-> "entry", seq |-> writing.seq]>>)
              \o (IF writing.msg # None /\ writing.msg \in InTray THEN <<Removal(writing.msg)>> ELSE <<>>)

LEMMA EntryItemsFacts ==
  ASSUME Typed, writing # None, writing.kind = "entry"
  PROVE  /\ writing \in Stored /\ writing.seq \in 0..MaxEntry /\ EntryItems \in Seq(Item)
         /\ writing.msg # None /\ writing.msg \in InTray => writing.msg \in Msg
<1>1. writing \in Stored /\ writing.seq <= MaxEntry
  BY DEF Typed, SessionOK, Written
<1>2. writing.seq \in 0..MaxEntry /\ writing.msg \in Msg \cup {None}
  BY <1>1, NoneFacts DEF Stored
<1>3. writing.msg # None => writing.msg \in Msg
  BY <1>2
<1>4. /\ (IF writing.seq = 0 THEN <<>> ELSE <<[kind |-> "entry", seq |-> writing.seq]>>) \in Seq(Item)
      /\ (IF writing.msg # None /\ writing.msg \in InTray THEN <<Removal(writing.msg)>> ELSE <<>>) \in Seq(Item)
  <2>1. <<>> \in Seq(Item)
    OBVIOUS
  <2>2. writing.seq # 0 => writing.seq \in 1..MaxEntry
    BY <1>2, NoneFacts
  <2>3. writing.seq # 0 => <<[kind |-> "entry", seq |-> writing.seq]>> \in Seq(Item)
    BY <2>2, ItemSeqs
  <2>4. writing.msg # None => <<Removal(writing.msg)>> \in Seq(Item)
    BY <1>3, ItemSeqs
  <2>5. QED
    BY <2>1, <2>3, <2>4
<1>5. EntryItems \in Seq(Item)
  BY <1>4, ConcatFacts DEF EntryItems
<1>6. QED
  BY <1>1, <1>2, <1>3, <1>5

(* The session's own steps.                                                *)
LEMMA TypedUse ==
  ASSUME Typed
  PROVE  /\ log \in Seq(Msg \cup {Output}) /\ Len(log) \in Nat /\ Len(log) <= MaxEntry
         /\ residence \in {"cold", "live", "exited", "leaving", "starting"}
         /\ status \in {"idle", "running", "error", "closed"} /\ meta \in {"idle", "running", "error"}
         /\ tray \in [Msg -> States] /\ detached \in [Msg -> States] /\ sent \subseteq Msg
         /\ rev \in 0..MaxRev /\ lives \in Nat /\ busy \in BOOLEAN
         /\ writing \in {None} \cup Stored \cup Written
         /\ writing # None /\ writing.kind = "entry" => writing.seq <= MaxEntry
         /\ registered \in Chan \cup {None} /\ channel \in Chan \cup {None} /\ ghost \in Chan \cup {None}
         /\ Resident <=> channel # None
BY DEF Typed, LogOK, SessionOK, ChannelOK

LEMMA RegisterTypes ==
  ASSUME Typed, NEW m \in Msg, Send(m) \/ Resend(m)
  PROVE  Typed'
<1>1. Register(m) /\ sent' \subseteq Msg
  BY TypedUse DEF Send, Resend
<1>2. tray' \in [Msg -> States]
  BY <1>1, TypedUse DEF Register, States
<1>3. Hears
  BY <1>1, ItemSeqs DEF Register, Hears
<1>4. LogOK' /\ SessionOK' /\ ChannelOK'
  BY <1>1, <1>2, TypedUse DEF Register, LogOK, SessionOK, ChannelOK, Resident
<1>5. QED
  BY <1>1, <1>3, <1>4, TypedUse, SessionStep DEF Register

LEMMA SettleTypes ==
  ASSUME Typed, NEW m \in Msg, Settle(m)
  PROVE  Typed'
<1>1. Len(log) + 1 \in Nat /\ Len(log) + 1 <= MaxEntry
  BY TypedUse, NoneFacts DEF Settle
<1>2. /\ Append(log, m) \in Seq(Msg \cup {Output}) /\ Len(Append(log, m)) = Len(log) + 1
  BY TypedUse
<1>3. LogOK' /\ Len(log) <= Len(log')
  BY <1>1, <1>2, TypedUse DEF Settle, LogOK
<1>4. writing' \in Stored /\ writing'.seq <= MaxEntry
  BY <1>1, NoneFacts DEF Settle, Stored
<1>5. SessionOK' /\ ChannelOK'
  BY <1>4, TypedUse DEF Settle, SessionOK, ChannelOK, Resident
<1>6. QED
  BY <1>3, <1>5, TypedUse, SessionStep DEF Settle, Hears

LEMMA ProduceTypes ==
  ASSUME Typed, Produce
  PROVE  Typed'
<1>1. Len(log) + 1 \in Nat /\ Len(log) + 1 <= MaxEntry
  BY TypedUse, NoneFacts DEF Produce
<1>2. /\ Append(log, Output) \in Seq(Msg \cup {Output}) /\ Len(Append(log, Output)) = Len(log) + 1
  BY TypedUse
<1>3. LogOK' /\ Len(log) <= Len(log')
  BY <1>1, <1>2, TypedUse DEF Produce, LogOK
<1>4. writing' \in Stored /\ writing'.seq <= MaxEntry
  BY <1>1 DEF Produce, Stored
<1>5. SessionOK' /\ ChannelOK'
  BY <1>4, TypedUse DEF Produce, SessionOK, ChannelOK, Resident
<1>6. QED
  BY <1>3, <1>5, TypedUse, SessionStep DEF Produce, Hears

LEMMA AnnounceEntryTypes ==
  ASSUME Typed, AnnounceEntry
  PROVE  Typed'
<1>1. /\ writing # None /\ writing.kind = "entry" /\ writing' = None
      /\ tray' = IF writing.msg # None /\ writing.msg \in InTray THEN [tray EXCEPT ![writing.msg] = "out"] ELSE tray
      /\ UNCHANGED <<log, residence, status, meta, detached, sent, rev, busy, lives, channel>>
      /\ UNCHANGED <<registered, ghost, panel, rare>>
  BY DEF AnnounceEntry
<1>2. Broadcast(channel, EntryItems)
  BY DEF AnnounceEntry, EntryItems
<1>3. Hears
  BY <1>1, <1>2, EntryItemsFacts DEF Hears
<1>4. tray' \in [Msg -> States]
  BY <1>1, TypedUse, EntryItemsFacts DEF States
<1>5. LogOK' /\ SessionOK' /\ ChannelOK'
  BY <1>1, <1>4, TypedUse DEF LogOK, SessionOK, ChannelOK, Resident
<1>6. QED
  BY <1>1, <1>3, <1>5, TypedUse, SessionStep

LEMMA DiscardTypes ==
  ASSUME Typed, NEW m \in Msg, Discard(m)
  PROVE  Typed'
<1>1. tray' \in [Msg -> States]
  BY TypedUse DEF Discard, States
<1>2. Hears
  BY ItemSeqs DEF Discard, Hears
<1>3. LogOK' /\ SessionOK' /\ ChannelOK'
  BY <1>1, TypedUse DEF Discard, LogOK, SessionOK, ChannelOK, Resident
<1>4. QED
  BY <1>2, <1>3, TypedUse, SessionStep DEF Discard

LEMMA DeltaTypes ==
  ASSUME Typed, Delta
  PROVE  Typed'
<1>1. rev' \in 1..MaxRev
  BY TypedUse, NoneFacts DEF Delta
<1>2. <<[kind |-> "delta", rev |-> rev']>> \in Seq(Item)
  BY <1>1, ItemSeqs
<1>3. Hears
  BY <1>2 DEF Delta, Hears
<1>4. LogOK' /\ SessionOK' /\ ChannelOK'
  BY <1>1, TypedUse, NoneFacts DEF Delta, LogOK, SessionOK, ChannelOK, Resident
<1>5. QED
  BY <1>3, <1>4, TypedUse, SessionStep DEF Delta

LEMMA StatusTypes ==
  ASSUME Typed, CliResumes \/ AnnounceResumed \/ Idle \/ AnnounceStatus
  PROVE  Typed'
<1>1. /\ UNCHANGED <<log, residence, tray, detached, sent, rev, lives, channel, registered, ghost, panel>>
      /\ status' \in {"idle", "running", "error", "closed"} /\ busy' \in BOOLEAN
  BY TypedUse DEF CliResumes, AnnounceResumed, Idle, AnnounceStatus
<1>2. writing' \in {None} \cup Written \/ writing' = writing
  BY DEF CliResumes, AnnounceResumed, Idle, AnnounceStatus, Written
<1>3. meta' \in {"idle", "running", "error"} /\ Hears
  <2>1. CASE CliResumes \/ Idle
    BY <2>1, TypedUse DEF CliResumes, Idle, Hears
  <2>2. CASE AnnounceResumed
    BY <2>2, ItemSeqs DEF AnnounceResumed, Hears
  <2>3. CASE AnnounceStatus
    <3>1. writing \in Written
      BY <2>3, TypedUse DEF AnnounceStatus, Stored
    <3>2. writing.status \in {"idle", "error"}
      BY <3>1 DEF Written
    <3>3. QED
      BY <2>3, <3>2, ItemSeqs DEF AnnounceStatus, Hears
  <2>4. QED
    BY <2>1, <2>2, <2>3
<1>4. writing' # None /\ writing'.kind = "entry" => writing'.seq <= MaxEntry
  BY <1>2, TypedUse DEF Written
<1>5. writing' \in {None} \cup Stored \cup Written
  BY <1>2, TypedUse
<1>6. LogOK' /\ ChannelOK'
  BY <1>1, TypedUse DEF LogOK, ChannelOK, Resident
<1>7. SessionOK'
  BY <1>1, <1>3, <1>4, <1>5, TypedUse DEF SessionOK
<1>8. QED
  BY <1>1, <1>3, <1>6, <1>7, TypedUse, SessionStep

LEMMA ExitTypes ==
  ASSUME Typed, Exit
  PROVE  Typed'
<1>1. tray' \in [Msg -> States]
  BY TypedUse DEF Exit, States
<1>2. {m \in Msg : tray[m] = "queued"} \in SUBSET Msg
  OBVIOUS
<1>3. Each({m \in Msg : tray[m] = "queued"}, LAMBDA m : Upsert(m, "unsent")) \in Seq(Item)
  BY <1>2, ItemSeqs
<1>4. Hears
  BY <1>3 DEF Exit, Hears
<1>5. writing' \in Written /\ writing'.kind = "status"
  BY DEF Exit, Written
<1>6. LogOK' /\ ChannelOK'
  BY TypedUse DEF Exit, LogOK, ChannelOK, Resident
<1>7. SessionOK'
  BY <1>1, <1>5, TypedUse DEF Exit, SessionOK
<1>8. QED
  BY <1>4, <1>6, <1>7, TypedUse, SessionStep DEF Exit

LEMMA LifeTypes ==
  ASSUME Typed, Leave \/ Connect \/ Connected
  PROVE  Typed'
<1>1. sub' = sub /\ panel' = panel /\ log' = log
  BY DEF Leave, Connect, Connected
<1>2. tray' \in [Msg -> States] /\ detached' \in [Msg -> States]
  BY TypedUse, EmptyFacts DEF Leave, Connect, Connected
<1>3. LogOK' /\ lives' \in Nat /\ lives <= lives'
  BY TypedUse DEF Leave, Connect, Connected, LogOK
<1>4. rev' \in 0..MaxRev
  BY TypedUse, NoneFacts DEF Leave, Connect, Connected
<1>5. ChannelOK'
  BY TypedUse, FreshFacts, NoneFacts DEF Leave, Connect, Connected, ChannelOK, Resident
<1>6. SessionOK'
  BY <1>2, <1>3, <1>4, TypedUse DEF Leave, Connect, Connected, SessionOK
<1>7. QED
  BY <1>1, <1>3, <1>5, <1>6, TypedUse, SessionStep DEF Hears

LEMMA GoneTypes ==
  ASSUME Typed, Left \/ ConnectFails
  PROVE  Typed'
<1>1. registered' \in {registered, None}
  BY ReleaseFacts DEF Left, ConnectFails
<1>2. tray' \in [Msg -> States] /\ detached' \in [Msg -> States]
  BY TypedUse, EmptyFacts DEF Left, ConnectFails
<1>3. Hears
  <2>1. InTray \in SUBSET Msg /\ {m \in Msg : detached[m] # "out"} \in SUBSET Msg
    BY DEF InTray
  <2>2. Each(InTray, Removal) \in Seq(Item) /\ Each({m \in Msg : detached[m] # "out"}, Removal) \in Seq(Item)
    BY <2>1, ItemSeqs
  <2>3. CASE Left
    BY <2>2, <2>3 DEF Left, Hears
  <2>4. CASE ConnectFails
    BY <2>2, <2>4 DEF ConnectFails, Hears
  <2>5. QED
    BY <2>3, <2>4
<1>4. LogOK' /\ ChannelOK'
  BY <1>1, TypedUse DEF Left, ConnectFails, LogOK, ChannelOK, Resident
<1>5. SessionOK'
  BY <1>2, TypedUse DEF Left, ConnectFails, SessionOK
<1>6. log' = log /\ lives' = lives /\ panel' = panel
  BY DEF Left, ConnectFails
<1>7. QED
  BY <1>3, <1>4, <1>5, <1>6, TypedUse, SessionStep

(* The stream's steps and the panel's.                                     *)
LEMMA StreamStep ==
  ASSUME Typed, UNCHANGED <<log, sessionVars>>, registered' \in Chan \cup {None}, ghost' \in Chan \cup {None},
         SubOK', PanelOK'
  PROVE  Typed'
<1>1. LogOK' /\ SessionOK' /\ ChannelOK'
  BY TypedUse DEF sessionVars, LogOK, SessionOK, ChannelOK, Resident
<1>2. QED
  BY <1>1 DEF Typed

LEMMA SubUse ==
  ASSUME Typed
  PROVE  /\ sub \in Streams /\ Bounded(sub) /\ sub.queue \in Seq(Item) /\ Len(sub.queue) \in Nat
         /\ sub.last \in 0..Len(log) /\ sub.upto \in 0..Len(log) /\ sub.life \in Nat /\ sub.life <= lives
         /\ sub.stage \in Stages /\ sub.chan \in Chan \cup {None}
         /\ sub.ended \in BOOLEAN /\ sub.status \in Statuses /\ sub.bare \in BOOLEAN
         /\ sub.stage = "off" => sub = NoSub
BY TypedUse DEF Typed, SubOK, Streams

LEMMA PanelUse ==
  ASSUME Typed
  PROVE  /\ panel \in Panels /\ panel.entries \subseteq 1..Len(log) /\ panel.cursor \in 0..Len(log)
         /\ panel.after \in 0..Len(log) /\ (panel.up <=> sub.stage # "off")
         /\ panel.tray \in [Msg -> States] /\ panel.settled \subseteq Msg /\ panel.gate \in Nat
BY TypedUse DEF Typed, PanelOK, Panels

LEMMA OpenTypes ==
  ASSUME Typed, Open
  PROVE  Typed'
<1>1. registered' \in Chan \cup {None} /\ sub'.chan \in Chan \cup {None}
  BY TypedUse, FreshFacts, NoSubFacts DEF Open, NoSub
<1>2. sub' = [NoSub EXCEPT !.stage = "subscribed", !.chan = sub'.chan, !.last = sub'.last]
      /\ sub'.last \in 0..Len(log)
  BY PanelUse DEF Open, NoSub
<1>3. /\ sub' \in Streams /\ sub'.stage = "subscribed" /\ sub'.queue = <<>> /\ sub'.ended = FALSE /\ sub'.upto = 0
      /\ sub'.life = 0
  <2>1. sub'.last \in Nat /\ "subscribed" \in Stages
    BY <1>2 DEF Stages
  <2>2. NoSub \in Streams /\ NoSub.queue = <<>> /\ NoSub.ended = FALSE /\ NoSub.upto = 0 /\ NoSub.life = 0
    BY NoSubFacts
  <2>3. PICK c \in Chan \cup {None} : c = sub'.chan
    BY <1>1
  <2>4. PICK n \in Nat : n = sub'.last
    BY <2>1
  <2>5. sub' = [NoSub EXCEPT !.stage = "subscribed", !.chan = c, !.last = n]
    BY <1>2, <2>3, <2>4
  <2>6. QED
    BY <2>1, <2>2, <2>5 DEF Streams
<1>4. SubOK'
  BY <1>2, <1>3, TypedUse, NoneFacts DEF Open, sessionVars, SubOK, Bounded
<1>5. PanelOK'
  <2>1. panel' = [panel EXCEPT !.up = TRUE] /\ log' = log
    BY DEF Open
  <2>2. panel' \in Panels /\ panel'.up = TRUE /\ panel'.entries = panel.entries /\ panel'.cursor = panel.cursor
        /\ panel'.after = panel.after
    BY <2>1, PanelUse DEF Panels
  <2>3. QED
    BY <1>3, <2>1, <2>2, PanelUse, TypedUse DEF PanelOK
<1>6. QED
  BY <1>1, <1>4, <1>5, TypedUse, StreamStep DEF Open

LEMMA AdvanceSub ==
  ASSUME Typed, UNCHANGED <<log, sessionVars>>, sub' \in Streams, Bounded(sub'), sub.stage # "off", sub'.stage # "off",
         sub'.last <= Len(log), sub'.upto <= Len(log), sub'.life <= lives, panel' \in Panels,
         panel'.entries \subseteq 1..Len(log), panel'.cursor <= Len(log), panel'.after <= Len(log),
         panel'.up = panel.up, registered' \in Chan \cup {None}, ghost' \in Chan \cup {None}
  PROVE  Typed'
<1>1. log' = log /\ lives' = lives
  BY DEF sessionVars
<1>2. SubOK'
  BY <1>1 DEF SubOK, Bounded
<1>3. PanelOK'
  BY <1>1, PanelUse DEF PanelOK
<1>4. QED
  BY <1>2, <1>3, StreamStep

LEMMA OpeningTypes ==
  ASSUME Typed, Read \/ SendEntries \/ SendDraft \/ SendQueue \/ SendStatus
  PROVE  Typed'
<1>1. UNCHANGED <<log, sessionVars, registered, ghost>> /\ sub.stage # "off"
  BY DEF Read, SendEntries, SendDraft, SendQueue, SendStatus, Streaming
<1>2. /\ sub' \in Streams /\ Bounded(sub') /\ sub'.stage # "off"
      /\ sub'.last <= Len(log) /\ sub'.upto <= Len(log) /\ sub'.life <= lives
  <2>1. CASE Read
    <3>1. sub' = [sub EXCEPT !.stage = "entries", !.upto = Len(log)] /\ "entries" \in Stages /\ Len(log) \in Nat
      BY <2>1, TypedUse DEF Read, Stages
    <3>2. sub' \in Streams /\ sub'.stage = "entries" /\ sub'.queue = sub.queue /\ sub'.ended = sub.ended
      BY <3>1, SubUse DEF Streams
    <3>3. sub'.last = sub.last /\ sub'.upto = Len(log) /\ sub'.life = sub.life
      BY <3>1, SubUse DEF Streams
    <3>4. QED
      BY <3>1, <3>2, <3>3, SubUse DEF Bounded
  <2>2. CASE SendEntries
    <3>1. sub' = [sub EXCEPT !.stage = "draft", !.last = IF sub.upto > @ THEN sub.upto ELSE @, !.upto = 0]
      BY <2>2 DEF SendEntries
    <3>2. sub'.last \in 0..Len(log) /\ sub'.upto = 0 /\ sub'.life = sub.life
      BY <3>1, SubUse, TypedUse DEF Streams
    <3>3. sub' \in Streams /\ sub'.stage = "draft" /\ sub'.queue = sub.queue /\ sub'.ended = sub.ended
      BY <3>1, <3>2, SubUse, TypedUse DEF Streams, Stages
    <3>4. QED
      BY <3>2, <3>3, SubUse, TypedUse DEF Bounded
  <2>3. CASE SendDraft
    <3>1. sub' = [sub EXCEPT !.stage = "queue", !.life = lives] /\ "queue" \in Stages /\ lives \in Nat
      BY <2>3, TypedUse DEF SendDraft, Stages
    <3>2. sub' \in Streams /\ sub'.stage = "queue" /\ sub'.queue = sub.queue /\ sub'.ended = sub.ended
      BY <3>1, SubUse DEF Streams
    <3>3. sub'.last = sub.last /\ sub'.upto = sub.upto /\ sub'.life = lives
      BY <3>1, SubUse DEF Streams
    <3>4. QED
      BY <3>1, <3>2, <3>3, SubUse, TypedUse DEF Bounded
  <2>4. CASE SendQueue
    <3>1. sub' = [sub EXCEPT !.stage = "status"] /\ "status" \in Stages
      BY <2>4 DEF SendQueue, Stages
    <3>2. sub' \in Streams /\ sub'.stage = "status" /\ sub'.queue = sub.queue /\ sub'.ended = sub.ended
      BY <3>1, SubUse DEF Streams
    <3>3. sub'.last = sub.last /\ sub'.upto = sub.upto /\ sub'.life = sub.life
      BY <3>1, SubUse DEF Streams
    <3>4. QED
      BY <3>2, <3>3, SubUse, TypedUse DEF Bounded
  <2>5. CASE SendStatus
    <3>1. LiveStatus \in Statuses
      BY StatusFacts DEF Statuses
    <3>2. PICK st \in Statuses : st = LiveStatus
      BY <3>1
    <3>3. PICK b \in BOOLEAN : b = (lives # sub.life)
      OBVIOUS
    <3>4. sub' = [sub EXCEPT !.stage = "live", !.status = st, !.life = 0, !.bare = b] /\ "live" \in Stages
      BY <2>5, <3>2, <3>3, Zenon DEF SendStatus, Stages
    <3>5. sub' \in Streams /\ sub'.stage = "live" /\ sub'.queue = sub.queue /\ sub'.ended = sub.ended
      BY <3>4, SubUse DEF Streams
    <3>6. sub'.last = sub.last /\ sub'.upto = sub.upto /\ sub'.life = 0
      BY <3>4, SubUse DEF Streams
    <3>7. QED
      BY <3>5, <3>6, SubUse, TypedUse DEF Bounded
  <2>6. QED
    BY <2>1, <2>2, <2>3, <2>4, <2>5
<1>3. /\ panel' \in Panels /\ panel'.entries \subseteq 1..Len(log) /\ panel'.cursor <= Len(log)
      /\ panel'.after <= Len(log) /\ panel'.up = panel.up
  <2>1. CASE Read
    BY <2>1, PanelUse, TypedUse DEF Read
  <2>2. CASE SendEntries
    <3>1. Sends(sub.upto, panel')
      BY <2>2, SubUse, SendUpToFacts DEF SendEntries
    <3>2. QED
      BY <3>1, PanelUse, SubUse, TypedUse DEF Sends, Kept
  <2>3. CASE SendDraft
    <3>1. PICK d \in Nat : d = DraftRev
      BY StatusFacts, NoneFacts
    <3>2. panel' = [panel EXCEPT !.gate = d] /\ panel \in Panels
      BY <2>3, <3>1, PanelUse DEF SendDraft
    <3>3. /\ panel' \in Panels /\ panel'.entries = panel.entries /\ panel'.cursor = panel.cursor
          /\ panel'.after = panel.after /\ panel'.up = panel.up
      BY <3>2 DEF Panels
    <3>4. QED
      BY <3>3, PanelUse, TypedUse
  <2>4. CASE SendQueue
    <3>1. (IF Resident THEN tray ELSE Empty) \in [Msg -> States]
      BY TypedUse, EmptyFacts
    <3>2. PICK t \in [Msg -> States] : t = IF Resident THEN tray ELSE Empty
      BY <3>1
    <3>3. PICK b \in BOOLEAN : b = (detached # Empty)
      OBVIOUS
    <3>4. panel' = [panel EXCEPT !.tray = t, !.blind = b]
      BY <2>4, <3>2, <3>3, Zenon DEF SendQueue
    <3>5. panel \in Panels
      BY PanelUse
    <3>6. /\ panel' \in Panels /\ panel'.entries = panel.entries /\ panel'.cursor = panel.cursor
          /\ panel'.after = panel.after /\ panel'.up = panel.up
      BY <3>4, <3>5 DEF Panels
    <3>7. QED
      BY <3>6, PanelUse, TypedUse
  <2>5. CASE SendStatus
    <3>1. LiveStatus \in Statuses
      BY StatusFacts DEF Statuses
    <3>2. panel' = [panel EXCEPT !.status = LiveStatus]
      BY <2>5 DEF SendStatus
    <3>3. QED
      BY <3>1, <3>2, PanelUse, TypedUse DEF Panels
  <2>6. QED
    BY <2>1, <2>2, <2>3, <2>4, <2>5
<1>4. QED
  BY <1>1, <1>2, <1>3, TypedUse, AdvanceSub

\* What the panel makes of an item: entries only grow by the item's, the tray changes at its message.
Takes(p, x, last, q) ==
  /\ q \in Panels /\ q.up = p.up /\ q.after = p.after /\ q.holed = p.holed /\ q.blind = p.blind
  /\ x.kind # "entry" => q.entries = p.entries /\ q.cursor = p.cursor
  /\ x.kind = "entry" /\ x.seq <= last => q = p
  /\ x.kind = "entry" /\ x.seq > last => q.cursor = x.seq
  /\ x.kind = "entry" => /\ q.entries \in {p.entries, p.entries \cup {x.seq}}
                         /\ \A k \in Nat : p.entries = 1..k /\ x.seq = k + 1 /\ x.seq > last => q.entries = 1..x.seq
                         /\ \A k \in Nat : p.entries = 1..k /\ x.seq <= k => q.entries = p.entries
  /\ \A m \in Msg : \/ q.tray[m] \in {p.tray[m], "out"}
                    \/ x.kind = "upsert" /\ x.msg = m
  /\ x.kind = "remove" => q.tray[x.msg] = "out"
  /\ q.gate = IF x.kind = "delta" /\ x.rev > p.gate THEN x.rev ELSE p.gate
  /\ q.status = IF x.kind = "status" THEN x.status ELSE p.status

LEMMA TakenFacts ==
  ASSUME LogOK, NEW p \in Panels, p.entries \subseteq 1..Len(log), NEW x \in Item,
         x.kind = "entry" => x.seq \in 1..Len(log), NEW last \in Nat, NEW q, q = Taken(p, x, last)
  PROVE  Takes(p, x, last, q)
<1>0. p.gate \in Nat /\ p.tray \in [Msg -> States] /\ p.settled \subseteq Msg
  BY DEF Panels
<1>1. CASE x.kind = "entry"
  <2>1. q = IF x.seq > last THEN [AppendEntry(p, x.seq) EXCEPT !.cursor = x.seq] ELSE p
    BY <1>1 DEF Taken
  <2>2. x.seq \in 1..Len(log) /\ x.seq \in Nat
    BY <1>1 DEF LogOK
  <2>3. PICK r : r = AppendEntry(p, x.seq)
    OBVIOUS
  <2>4. Appends(p, x.seq, r)
    BY <2>2, <2>3, AppendEntryFacts
  <2>5. CASE x.seq > last
    <3>1. q = [r EXCEPT !.cursor = x.seq]
      BY <2>1, <2>3, <2>5
    <3>2. r \in Panels
      BY <2>4 DEF Appends
    <3>3. /\ q \in Panels /\ q.cursor = x.seq /\ q.entries = r.entries /\ q.tray = r.tray /\ q.up = r.up
          /\ q.after = r.after /\ q.holed = r.holed /\ q.blind = r.blind /\ q.gate = r.gate /\ q.status = r.status
      BY <2>2, <3>1, <3>2 DEF Panels
    <3>4. \A k \in Nat : p.entries = 1..k /\ x.seq = k + 1 /\ x.seq > last => q.entries = 1..x.seq
      BY <2>4, <3>3 DEF Appends
    <3>5. \A k \in Nat : p.entries = 1..k /\ x.seq <= k => q.entries = p.entries
      BY <2>4, <3>3 DEF Appends
    <3>6. Kept(p, r) /\ r.entries \in {p.entries, p.entries \cup {x.seq}} /\ \A m \in Msg : r.tray[m] \in {p.tray[m], "out"}
      BY <2>4 DEF Appends
    <3>7. ~(x.seq <= last)
      BY <2>2, <2>5
    <3>8. QED
      BY <1>1, <2>5, <3>3, <3>4, <3>5, <3>6, <3>7 DEF Takes, Kept
  <2>6. CASE ~(x.seq > last)
    <3>1. q = p
      BY <2>1, <2>6
    <3>2. QED
      BY <1>1, <2>6, <3>1 DEF Takes
  <2>7. QED
    BY <2>5, <2>6
<1>2. CASE x.kind = "delta"
  <2>1. q = IF x.rev > p.gate THEN [p EXCEPT !.gate = x.rev] ELSE p
    BY <1>2 DEF Taken
  <2>2. x.rev \in Nat
    BY <1>2, ItemKinds, NoneFacts
  <2>3. QED
    BY <1>0, <1>2, <2>1, <2>2 DEF Takes, Panels
<1>3. CASE x.kind = "upsert"
  <2>1. q = p \/ q = [p EXCEPT !.tray[x.msg] = x.state]
    BY <1>3 DEF Taken, PutInTray
  <2>2. x.msg \in Msg /\ x.state \in States
    BY <1>3, ItemKinds DEF States
  <2>3. CASE q = p
    BY <1>3, <2>3 DEF Takes
  <2>4. CASE q = [p EXCEPT !.tray[x.msg] = x.state]
    <3>1. q.tray = [p.tray EXCEPT ![x.msg] = x.state]
      BY <2>4 DEF Panels
    <3>2. q.tray \in [Msg -> States] /\ \A m \in Msg : m # x.msg => q.tray[m] = p.tray[m]
      BY <1>0, <2>2, <3>1
    <3>3. /\ q \in Panels /\ q.cursor = p.cursor /\ q.entries = p.entries /\ q.up = p.up
          /\ q.after = p.after /\ q.holed = p.holed /\ q.blind = p.blind /\ q.gate = p.gate /\ q.status = p.status
      BY <2>4, <3>2 DEF Panels
    <3>4. QED
      BY <1>3, <3>2, <3>3 DEF Takes
  <2>5. QED
    BY <2>1, <2>3, <2>4
<1>4. CASE x.kind = "remove"
  <2>1. q = [p EXCEPT !.tray[x.msg] = "out", !.settled = @ \cup {x.msg}]
    BY <1>4 DEF Taken, Without
  <2>2. x.msg \in Msg
    BY <1>4, ItemKinds
  <2>3. q.tray = [p.tray EXCEPT ![x.msg] = "out"]
    BY <2>1 DEF Panels
  <2>4. q.tray \in [Msg -> States] /\ q.tray[x.msg] = "out" /\ \A m \in Msg : q.tray[m] \in {p.tray[m], "out"}
    BY <1>0, <2>2, <2>3 DEF States
  <2>5. q.settled \in SUBSET Msg
    BY <1>0, <2>1, <2>2 DEF Panels
  <2>6. /\ q \in Panels /\ q.cursor = p.cursor /\ q.entries = p.entries /\ q.up = p.up
        /\ q.after = p.after /\ q.holed = p.holed /\ q.blind = p.blind /\ q.gate = p.gate /\ q.status = p.status
    BY <2>1, <2>4, <2>5 DEF Panels
  <2>7. QED
    BY <1>4, <2>4, <2>6 DEF Takes
<1>5. CASE x.kind = "status"
  <2>1. q = [p EXCEPT !.status = x.status]
    BY <1>5 DEF Taken
  <2>2. x.status \in Statuses
    BY <1>5, ItemKinds DEF Statuses
  <2>3. QED
    BY <1>5, <2>1, <2>2 DEF Takes, Panels
<1>6. QED
  BY <1>1, <1>2, <1>3, <1>4, <1>5, ItemKinds

\* The panel when the next item is handled, and whether a running session is shown first.
FirstShown == Head(sub.queue).kind # "status" /\ sub.status # "running" /\ LiveStatus = "running"
Before == IF FirstShown THEN Aligned(panel, "running") ELSE panel

LEMMA BeforeFacts ==
  ASSUME Typed
  PROVE  /\ Before \in Panels /\ Before.entries = panel.entries /\ Before.tray = panel.tray /\ Before.up = panel.up
         /\ Before.cursor = panel.cursor /\ Before.after = panel.after /\ Before.holed = panel.holed
         /\ Before.gate = IF FirstShown THEN DraftRev ELSE panel.gate
<1>1. DraftRev \in Nat /\ "running" \in Statuses /\ panel \in Panels
  BY StatusFacts, PanelUse, NoneFacts DEF Statuses
<1>2. Aligned(panel, "running") = [panel EXCEPT !.status = "running", !.gate = DraftRev]
  BY DEF Aligned
<1>3. QED
  BY <1>1, <1>2 DEF Before, Panels

\* What the stream is after it took the next item.
TakesSub ==
  /\ sub' \in Streams /\ sub'.queue = Tail(sub.queue) /\ sub'.stage = "live" /\ sub'.chan = sub.chan
  /\ sub'.ended = sub.ended /\ sub'.upto = sub.upto /\ sub'.life = sub.life
  /\ sub'.last = IF Head(sub.queue).kind = "entry" /\ Head(sub.queue).seq > sub.last THEN Head(sub.queue).seq
                 ELSE sub.last
  /\ sub'.status = IF Head(sub.queue).kind = "status" THEN Head(sub.queue).status
                   ELSE IF FirstShown THEN "running" ELSE sub.status
  /\ sub'.bare <=> \/ sub.bare /\ ~FirstShown
                   \/ /\ Head(sub.queue).kind = "status" /\ Head(sub.queue).status = "running"
                      /\ sub.status # "running"

LEMMA TakeSubFacts ==
  ASSUME Typed, Take
  PROVE  TakesSub
<1>1. sub \in Streams /\ sub.queue # <<>> /\ sub.stage = "live" /\ sub.queue \in Seq(Item)
  BY SubUse DEF Take, Streaming
<1>2. Head(sub.queue) \in Item /\ Tail(sub.queue) \in Seq(Item)
  BY <1>1, TailFacts
<1> DEFINE x == Head(sub.queue)
<1>3. PICK last : last = IF x.kind = "entry" /\ x.seq > sub.last THEN x.seq ELSE sub.last
  OBVIOUS
<1>4. PICK st : st = IF x.kind = "status" THEN x.status ELSE IF FirstShown THEN "running" ELSE sub.status
  OBVIOUS
<1>5. PICK b : b = ((sub.bare /\ ~FirstShown)
                    \/ (x.kind = "status" /\ x.status = "running" /\ sub.status # "running"))
  OBVIOUS
<1>6. sub' = [sub EXCEPT !.queue = Tail(@), !.last = last, !.status = st, !.bare = b]
  BY <1>3, <1>4, <1>5, Zenon DEF Take, FirstShown
<1>7. last \in Nat /\ st \in Statuses /\ b \in BOOLEAN
  <2>1. sub.last \in Nat /\ sub.status \in Statuses
    BY <1>1 DEF Streams
  <2>2. x.kind = "entry" => x.seq \in Nat
    BY <1>2, ItemKinds, NoneFacts
  <2>3. x.kind = "status" => x.status \in Statuses
    BY <1>2, ItemKinds DEF Statuses
  <2>4. last \in Nat
    BY <1>3, <2>1, <2>2
  <2>5. st \in Statuses
    BY <1>4, <2>1, <2>3 DEF Statuses
  <2>6. b \in BOOLEAN
    BY <1>5
  <2>7. QED
    BY <2>4, <2>5, <2>6
<1>8. /\ sub' \in Streams /\ sub'.queue = Tail(sub.queue) /\ sub'.stage = "live" /\ sub'.chan = sub.chan
      /\ sub'.ended = sub.ended /\ sub'.upto = sub.upto /\ sub'.life = sub.life
      /\ sub'.last = last /\ sub'.status = st /\ sub'.bare = b
  BY <1>1, <1>2, <1>6, <1>7 DEF Streams
<1>9. QED
  BY <1>3, <1>4, <1>5, <1>8 DEF TakesSub

\* Every entry in the queue is in the log.
Logged == \A i \in 1..Len(sub.queue) : sub.queue[i].kind = "entry" => sub.queue[i].seq <= Len(log)

LEMMA TakeFacts ==
  ASSUME Typed, Logged, Take
  PROVE  Takes(Before, Head(sub.queue), sub.last, panel') /\ Head(sub.queue) \in Item
         /\ Head(sub.queue) = sub.queue[1] /\ (Head(sub.queue).kind = "entry" => Head(sub.queue).seq \in 1..Len(log))
<1>1. sub.queue # <<>> /\ sub.queue \in Seq(Item) /\ sub.last \in Nat /\ LogOK /\ Len(log) \in Nat
  BY SubUse, TypedUse DEF Take, Typed
<1>2. Head(sub.queue) \in Item /\ Head(sub.queue) = sub.queue[1] /\ Len(sub.queue) \in Nat \ {0}
  BY <1>1, TailFacts
<1>3. Head(sub.queue).kind = "entry" => Head(sub.queue).seq \in 1..Len(log)
  <2>1. Head(sub.queue).kind = "entry" => Head(sub.queue).seq \in 1..MaxEntry
    BY <1>2, ItemKinds
  <2>2. Head(sub.queue).kind = "entry" => Head(sub.queue).seq <= Len(log)
    BY <1>2 DEF Logged
  <2>3. QED
    BY <1>1, <2>1, <2>2, NoneFacts
<1>4. panel' = Taken(Before, Head(sub.queue), sub.last)
  BY DEF Take, Before, FirstShown
<1>5. Before \in Panels /\ Before.entries \subseteq 1..Len(log)
  BY BeforeFacts, PanelUse
<1>6. QED
  BY <1>1, <1>2, <1>3, <1>4, <1>5, TakenFacts

LEMMA TakeTypes ==
  ASSUME Typed, Logged, Take
  PROVE  Typed'
<1>1. /\ Takes(Before, Head(sub.queue), sub.last, panel') /\ Head(sub.queue) \in Item
      /\ Head(sub.queue).kind = "entry" => Head(sub.queue).seq \in 1..Len(log)
  BY TakeFacts
<1>2. /\ Before.entries = panel.entries /\ Before.up = panel.up
      /\ Before.cursor = panel.cursor /\ Before.after = panel.after
  BY BeforeFacts
<1>3. panel' \in Panels /\ panel'.up = panel.up /\ panel'.after = panel.after
  BY <1>1, <1>2 DEF Takes
<1>4. panel'.entries \subseteq 1..Len(log) /\ panel'.cursor <= Len(log)
  <2>1. CASE Head(sub.queue).kind = "entry"
    <3>1. panel'.entries \subseteq 1..Len(log)
      BY <1>1, <1>2, <2>1, PanelUse DEF Takes
    <3>2. panel'.cursor \in {panel.cursor, Head(sub.queue).seq}
      <4>1. Head(sub.queue).seq <= sub.last \/ Head(sub.queue).seq > sub.last
        BY <1>1, <2>1, SubUse, TypedUse
      <4>2. QED
        BY <1>1, <1>2, <2>1, <4>1 DEF Takes
    <3>3. QED
      BY <1>1, <2>1, <3>1, <3>2, PanelUse, TypedUse
  <2>2. CASE Head(sub.queue).kind # "entry"
    BY <1>1, <1>2, <2>2, PanelUse, TypedUse DEF Takes
  <2>3. QED
    BY <2>1, <2>2
<1>5. TakesSub
  BY TakeSubFacts
<1>6. sub.queue # <<>> /\ sub.queue \in Seq(Item) /\ Bounded(sub) /\ sub.stage = "live"
  BY SubUse DEF Take, Streaming
<1>7. Bounded(sub')
  <2>1. Len(Tail(sub.queue)) = Len(sub.queue) - 1 /\ Len(sub.queue) \in Nat
    BY <1>6, TailFacts
  <2>2. ~sub.ended
    BY <1>6 DEF Bounded
  <2>3. QED
    BY <1>5, <1>6, <2>1, <2>2, NoneFacts DEF Bounded, TakesSub
<1>8. sub'.last <= Len(log) /\ sub'.upto <= Len(log) /\ sub'.life <= lives /\ sub'.stage # "off"
  BY <1>1, <1>5, SubUse, TypedUse DEF TakesSub
<1>9. UNCHANGED <<log, sessionVars, registered, ghost>>
  BY DEF Take
<1>10. panel'.after <= Len(log) /\ sub' \in Streams /\ sub.stage # "off"
  BY <1>3, <1>5, <1>6, PanelUse, TypedUse DEF TakesSub
<1>11. QED
  BY <1>3, <1>4, <1>7, <1>8, <1>9, <1>10, TypedUse, AdvanceSub

LEMMA HeartbeatFacts ==
  ASSUME Typed, Heartbeat
  PROVE  /\ sub' \in Streams /\ sub'.queue = sub.queue /\ sub'.stage = sub.stage /\ sub'.chan = sub.chan
         /\ sub'.ended = sub.ended /\ sub'.upto = sub.upto /\ sub'.life = sub.life /\ sub'.last = sub.last
         /\ sub'.status = LiveStatus /\ (sub'.bare <=> sub.bare /\ LiveStatus # "running")
         /\ panel' \in Panels /\ panel'.up = panel.up /\ panel'.entries = panel.entries
         /\ panel'.tray = panel.tray /\ panel'.cursor = panel.cursor /\ panel'.after = panel.after
         /\ panel'.holed = panel.holed
         /\ panel'.gate = IF LiveStatus = "running" THEN DraftRev ELSE panel.gate
<1>1. LiveStatus \in Statuses /\ DraftRev \in Nat /\ sub \in Streams /\ panel \in Panels
  BY StatusFacts, SubUse, PanelUse, NoneFacts DEF Statuses
<1>2. PICK st \in Statuses : st = LiveStatus
  BY <1>1
<1>3. PICK b \in BOOLEAN : b = (sub.bare /\ st # "running")
  OBVIOUS
<1>4. sub' = [sub EXCEPT !.status = st, !.bare = b]
  BY <1>2, <1>3, Zenon DEF Heartbeat
<1>5. PICK g \in Nat : g = IF st = "running" THEN DraftRev ELSE panel.gate
  BY <1>1 DEF Panels
<1>6. panel' = [panel EXCEPT !.status = st, !.gate = g]
  BY <1>2, <1>5 DEF Heartbeat, Aligned
<1>7. /\ sub' \in Streams /\ sub'.queue = sub.queue /\ sub'.stage = sub.stage /\ sub'.chan = sub.chan
      /\ sub'.ended = sub.ended /\ sub'.upto = sub.upto /\ sub'.life = sub.life /\ sub'.last = sub.last
      /\ sub'.status = st /\ sub'.bare = b
  BY <1>1, <1>4 DEF Streams
<1>8. /\ panel' \in Panels /\ panel'.up = panel.up /\ panel'.entries = panel.entries
      /\ panel'.tray = panel.tray /\ panel'.cursor = panel.cursor /\ panel'.after = panel.after
      /\ panel'.holed = panel.holed /\ panel'.gate = g
  BY <1>1, <1>6 DEF Panels
<1>9. QED
  BY <1>2, <1>3, <1>5, <1>7, <1>8

LEMMA HeartbeatTypes ==
  ASSUME Typed, Heartbeat
  PROVE  Typed'
<1>1. UNCHANGED <<log, sessionVars, registered, ghost>> /\ sub.stage # "off"
  BY DEF Heartbeat, Streaming
<1>2. Bounded(sub') /\ sub'.last <= Len(log) /\ sub'.upto <= Len(log) /\ sub'.life <= lives
  BY HeartbeatFacts, SubUse, TypedUse DEF Bounded
<1>3. panel'.entries \subseteq 1..Len(log) /\ panel'.cursor <= Len(log) /\ panel'.after <= Len(log)
  BY HeartbeatFacts, PanelUse, TypedUse
<1>4. QED
  BY <1>1, <1>2, <1>3, HeartbeatFacts, TypedUse, AdvanceSub

LEMMA OffTypes ==
  ASSUME Typed, UNCHANGED <<log, sessionVars>>, sub' = NoSub, registered' \in Chan \cup {None},
         ghost' \in Chan \cup {None}, panel' \in Panels, ~panel'.up, panel'.entries \subseteq 1..Len(log),
         panel'.cursor <= Len(log), panel'.after <= Len(log)
  PROVE  Typed'
<1>1. log' = log /\ lives' = lives
  BY DEF sessionVars
<1>2. SubOK'
  BY <1>1, NoSubFacts, TypedUse DEF SubOK, Bounded
<1>3. PanelOK'
  BY <1>1, NoSubFacts DEF PanelOK
<1>4. QED
  BY <1>2, <1>3, StreamStep

LEMMA OutliveFacts ==
  ASSUME Typed, Outlive
  PROVE  /\ sub' = NoSub /\ ghost' \in Chan \cup {None} /\ registered' = registered
         /\ UNCHANGED <<log, sessionVars>>
BY TypedUse, SubUse DEF Outlive

LEMMA BreakFacts ==
  ASSUME Typed, Break
  PROVE  /\ panel' \in Panels /\ ~panel'.up /\ panel'.after = panel.after /\ panel'.holed = panel.holed
         /\ panel'.entries \subseteq 1..Len(log) /\ panel'.cursor <= Len(log)
         /\ \/ panel'.entries = panel.entries /\ panel'.cursor = panel.cursor
            \/ \E n \in 0..Len(log) :
                 /\ panel'.cursor = n /\ n > sub.last
                 /\ \A k \in Nat : panel.entries = 1..k /\ sub.last <= k =>
                      panel'.entries = 1..(IF n > k THEN n ELSE k)
<1>1. CASE panel' = [panel EXCEPT !.up = FALSE]
  <2>1. panel \in Panels
    BY PanelUse
  <2>2. /\ panel' \in Panels /\ ~panel'.up /\ panel'.after = panel.after /\ panel'.holed = panel.holed
        /\ panel'.entries = panel.entries /\ panel'.cursor = panel.cursor
    BY <1>1, <2>1 DEF Panels
  <2>3. QED
    BY <2>2, PanelUse, TypedUse
<1>2. CASE \E n \in (sub.last + 1)..(sub.upto - 1) : panel' = [SendUpTo(n) EXCEPT !.up = FALSE]
  <2>1. PICK n \in (sub.last + 1)..(sub.upto - 1) : panel' = [SendUpTo(n) EXCEPT !.up = FALSE]
    BY <1>2
  <2>2. n \in 0..Len(log) /\ n > sub.last
    BY SubUse, TypedUse
  <2>3. PICK q : q = SendUpTo(n)
    OBVIOUS
  <2>4. Sends(n, q)
    BY <2>2, <2>3, SendUpToFacts
  <2>5. panel' = [q EXCEPT !.up = FALSE] /\ q \in Panels
    BY <2>1, <2>3, <2>4 DEF Sends
  <2>6. /\ panel' \in Panels /\ ~panel'.up /\ panel'.after = q.after /\ panel'.holed = q.holed
        /\ panel'.entries = q.entries /\ panel'.cursor = q.cursor
    BY <2>5 DEF Panels
  <2>7. /\ q.cursor = n /\ q.entries \subseteq 1..Len(log) /\ q.after = panel.after /\ q.holed = panel.holed
        /\ \A k \in Nat : panel.entries = 1..k /\ sub.last <= k => q.entries = 1..(IF n > k THEN n ELSE k)
    BY <2>2, <2>4 DEF Sends, Kept
  <2>8. n <= Len(log)
    BY <2>2
  <2>9. QED
    BY <2>2, <2>6, <2>7, <2>8
<1>3. QED
  BY <1>1, <1>2 DEF Break

LEMMA ReloadFacts ==
  ASSUME Typed, Reload
  PROVE  \E k \in 0..Len(log) :
           /\ panel' \in Panels /\ ~panel'.up /\ panel'.entries = 1..k /\ panel'.cursor = 0 /\ panel'.after = k
           /\ ~panel'.holed
<1>1. PICK k \in 0..Len(log) : (IF LiveStatus = "running" THEN {} ELSE DOMAIN log) = 1..k
  <2>1. DOMAIN log = 1..Len(log) /\ {} = 1..0 /\ Len(log) \in Nat
    BY TypedUse
  <2>2. CASE LiveStatus = "running"
    <3>1. 0 \in 0..Len(log)
      BY <2>1
    <3>2. QED
      BY <2>1, <2>2, <3>1
  <2>3. CASE LiveStatus # "running"
    <3>1. Len(log) \in 0..Len(log)
      BY <2>1
    <3>2. QED
      BY <2>1, <2>3, <3>1
  <2>4. QED
    BY <2>2, <2>3
<1>2. Cardinality(1..k) = k /\ k \in Nat
  <2>1. k \in Nat /\ 1 \in Int /\ k \in Int
    BY TypedUse
  <2>2. Cardinality(1..k) = IF 1 > k THEN 0 ELSE k - 1 + 1
    BY <2>1, FS_Interval
  <2>3. QED
    BY <2>1, <2>2
<1>3. panel' = [NewPanel EXCEPT !.entries = 1..k, !.status = LiveStatus, !.after = k]
  BY <1>1, <1>2 DEF Reload
<1>4. LiveStatus \in Statuses
  BY StatusFacts DEF Statuses
<1>5. /\ panel' \in Panels /\ panel'.up = NewPanel.up /\ panel'.entries = 1..k
      /\ panel'.cursor = NewPanel.cursor /\ panel'.after = k /\ panel'.holed = NewPanel.holed
  <2>1. PICK st \in Statuses : st = LiveStatus
    BY <1>4
  <2>2. panel' = [NewPanel EXCEPT !.entries = 1..k, !.status = st, !.after = k] /\ 1..k \in SUBSET Nat
    BY <1>2, <1>3, <2>1
  <2>3. NewPanel \in Panels
    BY NewPanelFacts
  <2>4. QED
    BY <1>2, <2>2, <2>3 DEF Panels
<1>6. QED
  BY <1>5, NewPanelFacts

LEMMA LostTypes ==
  ASSUME Typed, Break \/ Reload
  PROVE  Typed'
<1>1. Outlive
  BY DEF Break, Reload
<1>2. /\ panel' \in Panels /\ ~panel'.up /\ panel'.entries \subseteq 1..Len(log)
      /\ panel'.cursor <= Len(log) /\ panel'.after <= Len(log)
  <2>1. CASE Break
    BY <2>1, BreakFacts, PanelUse, TypedUse
  <2>2. CASE Reload
    BY <2>2, ReloadFacts, TypedUse
  <2>3. QED
    BY <2>1, <2>2
<1>3. registered \in Chan \cup {None}
  BY TypedUse
<1>4. QED
  BY <1>1, <1>2, <1>3, OutliveFacts, OffTypes

LEMMA EndTypes ==
  ASSUME Typed, End
  PROVE  Typed'
<1>1. registered' \in Chan \cup {None} /\ ghost' \in Chan \cup {None}
  BY ReleaseFacts, TypedUse DEF End
<1>2. panel' = [panel EXCEPT !.up = FALSE]
  BY DEF End
<1>3. /\ panel' \in Panels /\ ~panel'.up /\ panel'.entries = panel.entries /\ panel'.cursor = panel.cursor
      /\ panel'.after = panel.after
  BY <1>2, PanelUse DEF Panels
<1>4. QED
  BY <1>1, <1>3, PanelUse, TypedUse, OffTypes DEF End

LEMMA UnsubscribeTypes ==
  ASSUME Typed, Unsubscribe
  PROVE  Typed'
<1>1. registered' \in Chan \cup {None} /\ ghost' \in Chan \cup {None} /\ sub' = sub /\ panel' = panel /\ log' = log
      /\ lives' = lives
  BY ReleaseFacts, TypedUse DEF Unsubscribe, sessionVars
<1>2. SubOK' /\ PanelOK'
  BY <1>1, SubUse, PanelUse, TypedUse DEF SubOK, PanelOK, Bounded
<1>3. QED
  BY <1>1, <1>2, StreamStep DEF Unsubscribe

\* What a retry's answer does to the entries.
LEMMA RetryFacts ==
  ASSUME Typed, NEW n \in DOMAIN log, RetryAnswered(n)
  PROVE  /\ panel' \in Panels /\ panel'.up = panel.up /\ panel'.cursor = panel.cursor /\ panel'.after = panel.after
         /\ panel'.entries \subseteq 1..Len(log) /\ panel'.gate = panel.gate
         /\ \A m \in Msg : panel'.tray[m] \in {panel.tray[m], "out"}
         /\ \/ panel'.holed
            \/ /\ panel'.holed = panel.holed
               /\ \A k \in Nat : panel.entries = 1..k =>
                    \E j \in 0..Len(log) : k <= j /\ panel'.entries = 1..j
<1>1. n \in 1..Len(log) /\ Len(log) \in Nat /\ LogOK /\ panel \in Panels /\ panel.entries \subseteq 1..Len(log)
  BY TypedUse, PanelUse DEF Typed
<1>2. LastSeq(panel) \in 0..Len(log) /\ \A k \in Nat : panel.entries = 1..k => LastSeq(panel) = k
  BY <1>1, LastFacts
<1>3. n > LastSeq(panel)
  BY DEF RetryAnswered
<1> DEFINE missed == n > LastSeq(panel) + 1
           read == (LastSeq(panel) + 1)..Len(log)
           p == [panel EXCEPT !.entries = IF missed THEN @ \cup read ELSE @]
<1>4. CASE panel' = AppendEntry(p, n)
  <2>1. /\ p.entries \subseteq 1..Len(log)
        /\ p.entries = IF missed THEN panel.entries \cup read ELSE panel.entries
    BY <1>1, <1>2 DEF Panels
  <2>2. p.entries \in SUBSET Nat
    BY <1>1, <2>1
  <2>3. p \in Panels /\ Kept(panel, p) /\ p.cursor = panel.cursor /\ p.tray = panel.tray /\ p.up = panel.up
    BY <1>1, <2>1, <2>2 DEF Panels, Kept
  <2>4. \A k \in Nat : panel.entries = 1..k /\ missed => p.entries = 1..Len(log)
    BY <1>1, <1>2, <2>1
  <2>5. \A k \in Nat : panel.entries = 1..k /\ ~missed => p.entries = 1..k /\ n = k + 1
    BY <1>1, <1>2, <1>3, <2>1
  <2> HIDE DEF p, missed
  <2>6. Appends(p, n, panel')
    BY <1>1, <1>4, <2>1, <2>3, AppendEntryFacts
  <2>7. ASSUME NEW k \in Nat, panel.entries = 1..k
        PROVE  \E j \in 0..Len(log) : k <= j /\ panel'.entries = 1..j
    <3>1. CASE missed
      <4>1. p.entries = 1..Len(log) /\ k <= Len(log) /\ n <= Len(log)
        BY <1>1, <1>2, <2>4, <2>7, <3>1
      <4>2. panel'.entries = 1..Len(log)
        BY <1>1, <2>6, <4>1 DEF Appends
      <4>3. Len(log) \in 0..Len(log)
        BY <1>1
      <4>4. QED
        BY <4>1, <4>2, <4>3
    <3>2. CASE ~missed
      <4>1. p.entries = 1..k /\ n = k + 1
        BY <2>5, <2>7, <3>2
      <4>2. panel'.entries = 1..n
        BY <2>6, <4>1 DEF Appends
      <4>3. n \in 0..Len(log) /\ k <= n
        BY <1>1, <4>1
      <4>4. QED
        BY <4>2, <4>3
    <3>3. QED
      BY <3>1, <3>2
  <2>8. panel'.entries \subseteq 1..Len(log)
    BY <1>1, <2>1, <2>6 DEF Appends
  <2>9. QED
    BY <2>3, <2>6, <2>7, <2>8 DEF Appends, Kept
<1>5. CASE panel' = [AppendEntry(panel, n) EXCEPT !.holed = TRUE]
  <2>1. PICK r : r = AppendEntry(panel, n)
    OBVIOUS
  <2>2. Appends(panel, n, r)
    BY <1>1, <2>1, AppendEntryFacts
  <2>3. r \in Panels /\ panel' = [r EXCEPT !.holed = TRUE]
    BY <1>5, <2>1, <2>2 DEF Appends
  <2>4. /\ panel' \in Panels /\ panel'.holed = TRUE /\ panel'.up = r.up /\ panel'.cursor = r.cursor
        /\ panel'.after = r.after /\ panel'.gate = r.gate /\ panel'.entries = r.entries /\ panel'.tray = r.tray
    BY <2>3 DEF Panels
  <2>5. r.entries \subseteq 1..Len(log)
    BY <1>1, <2>2 DEF Appends
  <2>6. QED
    BY <2>2, <2>4, <2>5 DEF Appends, Kept
<1>6. QED
  BY <1>4, <1>5 DEF RetryAnswered

LEMMA RetryTypes ==
  ASSUME Typed, NEW n \in DOMAIN log, RetryAnswered(n)
  PROVE  Typed'
<1>1. UNCHANGED <<log, sessionVars, registered, sub, ghost>> /\ lives' = lives
  BY DEF RetryAnswered, sessionVars
<1>2. SubOK'
  BY <1>1, SubUse, TypedUse DEF SubOK, Bounded
<1>3. PanelOK'
  BY <1>1, RetryFacts, PanelUse, TypedUse DEF PanelOK
<1>4. QED
  BY <1>1, <1>2, <1>3, TypedUse, StreamStep

LEMMA NextTypes ==
  ASSUME Typed, Logged, Next
  PROVE  Typed'
<1>1. CASE Session
  BY <1>1, RegisterTypes, SettleTypes, DiscardTypes, ProduceTypes, DeltaTypes, StatusTypes, ExitTypes,
     AnnounceEntryTypes, LifeTypes, GoneTypes DEF Session, Inbox
<1>2. CASE Stream
  BY <1>2, OpeningTypes, TakeTypes, HeartbeatTypes, EndTypes DEF Stream
<1>3. CASE Panel
  BY <1>3, OpenTypes, LostTypes, UnsubscribeTypes, RetryTypes DEF Panel
<1>4. QED
  BY <1>1, <1>2, <1>3 DEF Next

LEMMA InitTypes ==
  ASSUME Init
  PROVE  Typed
<1>1. log = <<>> /\ Len(log) = 0 /\ LogOK
  BY NoneFacts DEF Init, LogOK
<1>2. SessionOK
  <2>1. tray \in [Msg -> States] /\ detached \in [Msg -> States] /\ rev \in 0..MaxRev
    BY EmptyFacts, NoneFacts DEF Init
  <2>2. /\ residence = "live" /\ status = "idle" /\ meta = "idle" /\ sent = {} /\ writing = None /\ busy = FALSE
        /\ lives = 1
    BY DEF Init
  <2>3. QED
    BY <2>1, <2>2 DEF SessionOK
<1>3. ChannelOK
  <2>1. channel = 1 /\ registered = 1 /\ ghost = None /\ residence = "live" /\ 1 \in Chan
    BY DEF Init, Chan
  <2>2. channel # None
    BY <2>1, NoneFacts
  <2>3. QED
    BY <2>1, <2>2 DEF ChannelOK, Resident
<1>4. /\ sub \in Streams /\ sub.queue = <<>> /\ sub.ended = FALSE /\ sub.last = 0 /\ sub.upto = 0 /\ sub.life = 0
      /\ sub.stage = "live"
  <2>1. sub = [NoSub EXCEPT !.stage = "live", !.chan = 1, !.status = "idle"] /\ NoSub \in Streams
    BY NoSubFacts DEF Init
  <2>2. "live" \in Stages /\ "idle" \in Statuses /\ 1 \in Chan \cup {None}
    BY DEF Stages, Statuses, Chan
  <2>3. /\ sub \in Streams /\ sub.queue = NoSub.queue /\ sub.ended = NoSub.ended /\ sub.last = NoSub.last
        /\ sub.upto = NoSub.upto /\ sub.life = NoSub.life /\ sub.stage = "live"
    BY <2>1, <2>2 DEF Streams
  <2>4. QED
    BY <2>3, NoSubFacts
<1>5. SubOK
  BY <1>1, <1>4, NoneFacts DEF Init, SubOK, Bounded
<1>6. /\ panel \in Panels /\ panel.entries = {} /\ panel.cursor = 0 /\ panel.after = 0 /\ panel.up = TRUE
  BY NewPanelFacts DEF Init, Panels, Statuses
<1>7. PanelOK
  BY <1>1, <1>4, <1>6 DEF PanelOK
<1>8. QED
  BY <1>1, <1>2, <1>3, <1>5, <1>7 DEF Typed

-----------------------------------------------------------------------------
(* What the inbox has stored is announced before anything else happens to  *)
(* the log or the status, and a message is in one tray.                    *)
InLog(m) == \E n \in 1..Len(log) : log[n] = m
Storing(m) == writing # None /\ writing.kind = "entry" /\ writing.msg = m
Announced == IF writing # None /\ writing.kind = "entry" /\ writing.seq # 0 THEN Len(log) - 1 ELSE Len(log)

StoreInv ==
  /\ writing # None => residence \in {"live", "exited"}
  /\ writing # None /\ writing.kind = "entry" => residence = "live" /\ writing.seq \in {0, Len(log)}
  /\ residence \notin {"live", "exited"} => ~busy
  /\ busy => status = "running"
  /\ residence # "live" => status # "running"
  /\ status # "running" /\ ~(writing # None /\ writing.kind = "status") => meta # "running"

TrayInv ==
  /\ residence \in {"cold", "starting"} => tray = Empty
  /\ detached # Empty => residence \in {"leaving", "cold", "starting"} /\ tray = Empty
  /\ \A m \in Msg : tray[m] # "out" \/ detached[m] # "out" \/ InLog(m) => m \in sent
  /\ \A m \in Msg : InLog(m) /\ (tray[m] # "out" \/ detached[m] # "out") => Storing(m)

LEMMA InLogGrows ==
  ASSUME Typed, NEW x \in Msg \cup {Output}, log' = Append(log, x)
  PROVE  \A m : InLog(m)' <=> InLog(m) \/ m = x
<1>1. PICK l : l = Append(log, x) /\ l = log'
  OBVIOUS
<1>2. /\ Len(log) \in Nat /\ Len(l) = Len(log) + 1 /\ l[Len(log) + 1] = x
      /\ \A i \in 1..Len(log) : l[i] = log[i]
  BY <1>1, TypedUse
<1>3. ASSUME NEW m PROVE (\E n \in 1..Len(l) : l[n] = m) <=> (\E n \in 1..Len(log) : log[n] = m) \/ m = x
  <2>1. Len(log) + 1 \in 1..Len(l) /\ \A n \in 1..Len(l) : n \in 1..Len(log) \/ n = Len(log) + 1
    BY <1>2
  <2>2. \A n \in 1..Len(log) : n \in 1..Len(l)
    BY <1>2
  <2>3. QED
    BY <1>2, <2>1, <2>2
<1>4. QED
  BY <1>1, <1>3 DEF InLog

LEMMA QuietSession ==
  ASSUME Typed, StoreInv, TrayInv, UNCHANGED <<log, sessionVars>>
  PROVE  StoreInv' /\ TrayInv'
BY DEF sessionVars, StoreInv, TrayInv, InLog, Storing

LEMMA QuietSteps ==
  ASSUME Stream \/ Panel
  PROVE  UNCHANGED <<log, sessionVars>>
BY DEF Stream, Panel, Read, SendEntries, SendDraft, SendQueue, SendStatus, Take, Heartbeat, End, Open, Break, Reload,
   Outlive, Unsubscribe, RetryAnswered

LEMMA StoreStep ==
  ASSUME Typed, StoreInv, Session
  PROVE  StoreInv'
<1>1. ASSUME NEW m \in Msg, Send(m) \/ Resend(m) PROVE StoreInv'
  BY <1>1 DEF Send, Resend, Register, StoreInv
<1>2. ASSUME NEW m \in Msg, Settle(m) PROVE StoreInv'
  <2>1. /\ residence = "live" /\ UNCHANGED <<residence, status, meta, busy>> /\ writing = None
        /\ writing'.kind = "entry" /\ writing'.seq \in {0, Len(log) + 1} /\ (writing'.seq # 0 => log' = Append(log, m))
    BY <1>2 DEF Settle
  <2>2. log' = Append(log, m) => Len(log') = Len(log) + 1
    BY TypedUse
  <2>3. QED
    BY <2>1, <2>2 DEF StoreInv
<1>3. CASE Produce
  <2>1. /\ residence = "live" /\ UNCHANGED <<residence, status, meta, busy>> /\ writing = None
        /\ writing'.kind = "entry" /\ writing'.seq = Len(log) + 1 /\ log' = Append(log, Output)
    BY <1>3 DEF Produce
  <2>2. Len(log') = Len(log) + 1
    BY <2>1, TypedUse
  <2>3. QED
    BY <2>1, <2>2 DEF StoreInv
<1>4. CASE AnnounceEntry
  <2>1. /\ UNCHANGED <<log, residence, status, meta, busy>> /\ writing' = None /\ writing # None
        /\ writing.kind = "entry"
    BY <1>4 DEF AnnounceEntry
  <2>2. QED
    BY <2>1 DEF StoreInv
<1>5. ASSUME NEW m \in Msg, Discard(m) PROVE StoreInv'
  BY <1>5 DEF Discard, StoreInv
<1>6. CASE Delta \/ CliResumes \/ AnnounceResumed
  BY <1>6 DEF Delta, CliResumes, AnnounceResumed, StoreInv
<1>7. CASE Idle \/ Exit
  <2>1. [kind |-> "status", status |-> "idle"] \in Written /\ [kind |-> "status", status |-> "error"] \in Written
    BY DEF Written
  <2>2. /\ residence' \in {"live", "exited"} /\ status' # "running" /\ writing' \in Written /\ writing'.kind = "status"
        /\ busy' = FALSE
    BY <1>7, <2>1, TypedUse DEF Idle, Exit
  <2>3. writing' # None
    BY <2>2, NoneFacts
  <2>4. QED
    BY <2>2, <2>3 DEF StoreInv
<1>8. CASE AnnounceStatus
  <2>1. writing \in Written
    BY <1>8, TypedUse DEF AnnounceStatus, Stored
  <2>2. writing.status # "running" /\ writing.kind = "status"
    BY <2>1 DEF Written
  <2>3. QED
    BY <1>8, <2>2 DEF AnnounceStatus, StoreInv
<1>9. ASSUME residence' # "live", status' # "running", busy' = FALSE, writing' = None, meta' # "running"
      PROVE  StoreInv'
  BY <1>9 DEF StoreInv
<1>10. CASE Leave
  <2>1. /\ residence' = "leaving" /\ status' = "closed" /\ UNCHANGED <<busy, meta, writing>> /\ status # "running"
        /\ writing = None /\ ~busy
    BY <1>10 DEF Leave
  <2>2. busy' = FALSE /\ meta' # "running"
    BY <2>1, TypedUse DEF StoreInv
  <2>3. QED
    BY <1>9, <2>1, <2>2
<1>11. CASE Left \/ Connect \/ ConnectFails
  <2>1. /\ residence \notin {"live", "exited"} /\ residence' # "live" /\ UNCHANGED <<busy, meta, writing>>
        /\ status' \in {status, meta}
    BY <1>11 DEF Left, Connect, ConnectFails
  <2>2. writing = None /\ ~busy /\ status # "running"
    BY <2>1 DEF StoreInv
  <2>3. busy' = FALSE /\ meta # "running"
    BY <2>1, <2>2, TypedUse DEF StoreInv
  <2>4. QED
    BY <1>9, <2>1, <2>2, <2>3
<1>12. CASE Connected
  BY <1>12, NoneFacts DEF Connected, StoreInv
<1>13. QED
  BY <1>1, <1>2, <1>3, <1>4, <1>5, <1>6, <1>7, <1>8, <1>10, <1>11, <1>12 DEF Session, Inbox

LEMMA TrayStep ==
  ASSUME Typed, StoreInv, TrayInv, Session
  PROVE  TrayInv'
<1>1. ASSUME NEW m \in Msg, Send(m) \/ Resend(m) PROVE TrayInv'
  <2>1. /\ Register(m) /\ m \in sent' /\ sent \subseteq sent'
        /\ m \in sent => tray[m] # "out"
    <3>1. CASE Send(m)
      BY <3>1 DEF Send
    <3>2. CASE Resend(m)
      BY <3>2 DEF Resend, TrayInv
    <3>3. QED
      BY <1>1, <3>1, <3>2
  <2>2. /\ residence' = "live" /\ residence = "live" /\ UNCHANGED <<log, writing, detached>>
        /\ tray' = [tray EXCEPT ![m] = "queued"]
    BY <2>1 DEF Register
  <2>3. \A k \in Msg : k # m => tray'[k] = tray[k]
    BY <2>2, TypedUse
  <2>4. detached = Empty
    BY <2>2 DEF TrayInv
  <2>5. \A k \in Msg : InLog(k)' <=> InLog(k)
    BY <2>2 DEF InLog
  <2>6. \A k \in Msg : Storing(k)' <=> Storing(k)
    BY <2>2 DEF Storing
  <2>7. \A k \in Msg : tray'[k] # "out" \/ detached'[k] # "out" \/ InLog(k)' => k \in sent'
    BY <2>1, <2>2, <2>3, <2>5 DEF TrayInv
  <2>8. ASSUME NEW k \in Msg, InLog(k)', tray'[k] # "out" \/ detached'[k] # "out" PROVE Storing(k)'
    <3>1. tray[k] # "out" \/ detached[k] # "out"
      BY <2>1, <2>2, <2>3, <2>5, <2>8 DEF TrayInv
    <3>2. QED
      BY <2>5, <2>6, <2>8, <3>1 DEF TrayInv
  <2>9. QED
    BY <2>2, <2>4, <2>7, <2>8 DEF TrayInv
<1>2. ASSUME NEW m \in Msg, Settle(m) PROVE TrayInv'
  <2>1. /\ residence = "live" /\ UNCHANGED <<residence, tray, detached, sent>> /\ writing = None
        /\ writing' # None /\ writing'.kind = "entry" /\ writing'.msg = m /\ tray[m] = "queued"
        /\ log' = Append(log, m) \/ log' = log
    <3>1. writing' \in Stored
      <4>1. Len(log) + 1 \in Nat
        BY TypedUse
      <4>2. QED
        BY <1>2, <4>1 DEF Settle, Stored
    <3>2. QED
      BY <1>2, <3>1, NoneFacts DEF Settle
  <2>2. \A k \in Msg : InLog(k)' => InLog(k) \/ k = m
    <3>1. CASE log' = Append(log, m)
      BY <3>1, InLogGrows
    <3>2. CASE log' = log
      BY <3>2 DEF InLog
    <3>3. QED
      BY <2>1, <3>1, <3>2
  <2>3. \A k \in Msg : InLog(k) => tray[k] = "out" /\ detached[k] = "out"
    BY <2>1 DEF TrayInv, Storing
  <2>4. m \in sent
    BY <2>1 DEF TrayInv
  <2>5. Storing(m)'
    BY <2>1 DEF Storing
  <2>6. QED
    BY <2>1, <2>2, <2>3, <2>4, <2>5 DEF TrayInv
<1>3. CASE Produce
  <2>1. /\ UNCHANGED <<residence, tray, detached, sent>> /\ writing = None /\ log' = Append(log, Output)
    BY <1>3 DEF Produce
  <2>2. \A k \in Msg : InLog(k)' => InLog(k)
    BY <2>1, InLogGrows, NoneFacts
  <2>3. \A k \in Msg : InLog(k) => tray[k] = "out" /\ detached[k] = "out"
    BY <2>1 DEF TrayInv, Storing
  <2>4. QED
    BY <2>1, <2>2, <2>3 DEF TrayInv
<1>4. CASE AnnounceEntry
  <2>1. /\ UNCHANGED <<log, residence, detached, sent>> /\ writing # None /\ writing.kind = "entry"
        /\ tray' = IF writing.msg # None /\ writing.msg \in InTray THEN [tray EXCEPT ![writing.msg] = "out"] ELSE tray
    BY <1>4 DEF AnnounceEntry
  <2>2. residence = "live" /\ detached = Empty
    BY <2>1 DEF StoreInv, TrayInv
  <2>3. \A k \in Msg : tray'[k] \in {tray[k], "out"} /\ (k = writing.msg => tray'[k] = "out")
    BY <2>1, TypedUse, NoneFacts DEF InTray
  <2>4. \A k \in Msg : InLog(k)' <=> InLog(k)
    BY <2>1 DEF InLog
  <2>5. \A k \in Msg : Storing(k) => k = writing.msg
    BY DEF Storing
  <2>6. QED
    BY <2>1, <2>2, <2>3, <2>4, <2>5, EmptyFacts DEF TrayInv
<1>5. ASSUME NEW m \in Msg, Discard(m) PROVE TrayInv'
  <2>1. /\ UNCHANGED <<log, residence, writing, detached, sent>> /\ residence \in {"live", "exited"}
        /\ tray' = [tray EXCEPT ![m] = "out"]
    BY <1>5 DEF Discard
  <2>2. \A k \in Msg : tray'[k] \in {tray[k], "out"}
    BY <2>1, TypedUse
  <2>3. detached = Empty
    BY <2>1 DEF TrayInv
  <2>4. \A k \in Msg : (InLog(k)' <=> InLog(k)) /\ (Storing(k)' <=> Storing(k))
    BY <2>1 DEF InLog, Storing
  <2>5. QED
    BY <2>1, <2>2, <2>3, <2>4 DEF TrayInv
<1>6. CASE Delta \/ CliResumes \/ AnnounceResumed
  <2>1. UNCHANGED <<log, residence, writing, tray, detached, sent>>
    BY <1>6 DEF Delta, CliResumes, AnnounceResumed
  <2>2. QED
    BY <2>1 DEF TrayInv, InLog, Storing
<1>7. CASE Idle \/ AnnounceStatus \/ Exit
  <2>1. UNCHANGED <<log, detached, sent>> /\ \A k \in Msg : tray'[k] # "out" => tray[k] # "out"
    BY <1>7, TypedUse DEF Idle, AnnounceStatus, Exit
  <2>2. \A k \in Msg : ~Storing(k)
    BY <1>7 DEF Idle, AnnounceStatus, Exit, Storing
  <2>3. residence' \in {"cold", "starting"} => residence' = residence /\ tray' = tray
    BY <1>7 DEF Idle, AnnounceStatus, Exit
  <2>4. detached # Empty => residence' = residence /\ tray' = tray
    BY <1>7 DEF Idle, AnnounceStatus, Exit, TrayInv
  <2>5. \A k \in Msg : (InLog(k)' <=> InLog(k))
    BY <2>1 DEF InLog
  <2>6. QED
    BY <2>1, <2>2, <2>3, <2>4, <2>5 DEF TrayInv
<1>8. CASE Leave
  <2>1. UNCHANGED <<log, writing, sent>> /\ residence' = "leaving" /\ writing = None /\ residence \in {"live", "exited"}
    BY <1>8 DEF Leave
  <2>2. \A k \in Msg : (InLog(k)' <=> InLog(k)) /\ ~Storing(k)
    BY <2>1 DEF InLog, Storing
  <2>3. detached = Empty
    BY <2>1 DEF TrayInv
  <2>4. CASE detached' = detached /\ tray' = tray
    BY <2>1, <2>2, <2>3, <2>4 DEF TrayInv
  <2>5. CASE detached' = tray /\ tray' = Empty
    BY <2>1, <2>2, <2>3, <2>5, EmptyFacts DEF TrayInv
  <2>6. QED
    BY <1>8, <2>4, <2>5 DEF Leave
<1>9. CASE Left \/ Connect \/ Connected \/ ConnectFails
  <2>1. /\ UNCHANGED <<log, writing, sent>>
        /\ \/ residence' \in {"cold", "starting"} /\ tray' = Empty /\ detached' \in {detached, Empty}
           \/ residence' = "live" /\ tray' = detached /\ detached' = Empty
    BY <1>9 DEF Left, Connect, Connected, ConnectFails, TrayInv
  <2>2. \A k \in Msg : (InLog(k)' <=> InLog(k)) /\ (Storing(k)' <=> Storing(k))
    BY <2>1 DEF InLog, Storing
  <2>3. \A k \in Msg : tray'[k] # "out" \/ detached'[k] # "out" => tray[k] # "out" \/ detached[k] # "out"
    BY <2>1, EmptyFacts
  <2>4. QED
    BY <2>1, <2>2, <2>3 DEF TrayInv
<1>10. QED
  BY <1>1, <1>2, <1>3, <1>4, <1>5, <1>6, <1>7, <1>8, <1>9 DEF Session, Inbox

LEMMA InitStore ==
  ASSUME Init
  PROVE  StoreInv /\ TrayInv
BY EmptyFacts DEF Init, StoreInv, TrayInv, InLog

-----------------------------------------------------------------------------
(* The channel of the session, of its stream and of a ghost is one.        *)
ChanInv ==
  /\ Resident => registered = channel
  /\ sub.chan # None /\ ~sub.ended => registered = sub.chan
  /\ ghost # None => registered = ghost
  /\ sub.stage # "off" => sub.chan # None

LEMMA OpeningKeeps ==
  ASSUME Typed, Read \/ SendEntries \/ SendDraft \/ SendQueue \/ SendStatus
  PROVE  /\ sub'.chan = sub.chan /\ sub'.queue = sub.queue /\ sub'.ended = sub.ended
         /\ sub'.bare = IF SendStatus THEN lives # sub.life ELSE sub.bare
         /\ SendStatus => sub'.status = LiveStatus
<1>1. sub \in Streams
  BY SubUse
<1>2. ASSUME SendStatus, ~SendStatus PROVE FALSE
  BY <1>2
<1>3. CASE SendStatus
  <2>1. sub' = [sub EXCEPT !.stage = "live", !.status = LiveStatus, !.life = 0, !.bare = lives # sub.life]
    BY <1>3 DEF SendStatus
  <2>2. /\ sub'.chan = sub.chan /\ sub'.queue = sub.queue /\ sub'.ended = sub.ended
        /\ sub'.bare = (lives # sub.life) /\ sub'.status = LiveStatus
    BY <1>1, <2>1, Zenon DEF Streams
  <2>3. QED
    BY <1>3, <2>2
<1>4. CASE ~SendStatus
  <2>1. \/ sub' = [sub EXCEPT !.stage = "entries", !.upto = Len(log)]
        \/ sub' = [sub EXCEPT !.stage = "draft", !.last = IF sub.upto > @ THEN sub.upto ELSE @, !.upto = 0]
        \/ sub' = [sub EXCEPT !.stage = "queue", !.life = lives]
        \/ sub' = [sub EXCEPT !.stage = "status"]
    BY <1>4 DEF Read, SendEntries, SendDraft, SendQueue
  <2>2. /\ sub'.chan = sub.chan /\ sub'.queue = sub.queue /\ sub'.ended = sub.ended
        /\ sub'.bare = sub.bare
    BY <1>1, <2>1 DEF Streams
  <2>3. QED
    BY <1>4, <2>2
<1>5. QED
  BY <1>3, <1>4

LEMMA HearsKeeps ==
  ASSUME Typed, Hears
  PROVE  /\ sub'.chan = sub.chan /\ sub'.stage = sub.stage /\ sub'.last = sub.last /\ sub'.upto = sub.upto
         /\ sub'.status = sub.status /\ sub'.life = sub.life /\ sub'.bare = sub.bare
         /\ ~sub'.ended => ~sub.ended
<1>1. sub' = [sub EXCEPT !.queue = sub'.queue, !.ended = sub'.ended] /\ (sub.ended => sub' = sub)
  BY HearsTypes
<1>2. sub \in Streams
  BY SubUse
<1>3. PICK q, e : sub' = [sub EXCEPT !.queue = q, !.ended = e]
  BY <1>1
<1>4. QED
  BY <1>1, <1>2, <1>3 DEF Streams

LEMMA SessionHears ==
  ASSUME Typed, Session
  PROVE  Hears /\ panel' = panel /\ ghost' = ghost
<1>1. ASSUME NEW m \in Msg, Send(m) \/ Resend(m) PROVE Hears /\ panel' = panel /\ ghost' = ghost
  BY <1>1, ItemSeqs DEF Send, Resend, Register, Hears
<1>2. ASSUME NEW m \in Msg, Discard(m) PROVE Hears /\ panel' = panel /\ ghost' = ghost
  BY <1>2, ItemSeqs DEF Discard, Hears
<1>3. ASSUME NEW m \in Msg, Settle(m) PROVE Hears /\ panel' = panel /\ ghost' = ghost
  BY <1>3 DEF Settle, Hears
<1>4. CASE Produce \/ CliResumes \/ Idle \/ Leave \/ Connect \/ Connected
  BY <1>4 DEF Produce, CliResumes, Idle, Leave, Connect, Connected, Hears
<1>5. CASE AnnounceEntry
  <2>1. Broadcast(channel, EntryItems) /\ writing # None /\ writing.kind = "entry"
    BY <1>5 DEF AnnounceEntry, EntryItems
  <2>2. Hears
    BY <2>1, EntryItemsFacts DEF Hears
  <2>3. QED
    BY <1>5, <2>2 DEF AnnounceEntry
<1>6. CASE Delta
  <2>1. rev' \in 1..MaxRev
    BY <1>6, TypedUse, NoneFacts DEF Delta
  <2>2. <<[kind |-> "delta", rev |-> rev']>> \in Seq(Item)
    BY <2>1, ItemSeqs
  <2>3. QED
    BY <1>6, <2>2 DEF Delta, Hears
<1>7. CASE AnnounceResumed
  BY <1>7, ItemSeqs DEF AnnounceResumed, Hears
<1>8. CASE AnnounceStatus
  <2>1. writing \in Written
    BY <1>8, TypedUse DEF AnnounceStatus, Stored
  <2>2. writing.status \in {"idle", "error"}
    BY <2>1 DEF Written
  <2>3. QED
    BY <1>8, <2>2, ItemSeqs DEF AnnounceStatus, Hears
<1>9. CASE Exit
  <2>1. {m \in Msg : tray[m] = "queued"} \in SUBSET Msg
    OBVIOUS
  <2>2. Each({m \in Msg : tray[m] = "queued"}, LAMBDA m : Upsert(m, "unsent")) \in Seq(Item)
    BY <2>1, ItemSeqs
  <2>3. QED
    BY <1>9, <2>2 DEF Exit, Hears
<1>10. CASE Left \/ ConnectFails
  <2>1. InTray \in SUBSET Msg /\ {m \in Msg : detached[m] # "out"} \in SUBSET Msg
    BY DEF InTray
  <2>2. Each(InTray, Removal) \in Seq(Item) /\ Each({m \in Msg : detached[m] # "out"}, Removal) \in Seq(Item)
    BY <2>1, ItemSeqs
  <2>3. CASE Left
    BY <2>2, <2>3 DEF Left, Hears
  <2>4. CASE ConnectFails
    BY <2>2, <2>4 DEF ConnectFails, Hears
  <2>5. QED
    BY <1>10, <2>3, <2>4
<1>11. QED
  BY <1>1, <1>2, <1>3, <1>4, <1>5, <1>6, <1>7, <1>8, <1>9, <1>10 DEF Session, Inbox

LEMMA SessionChan ==
  ASSUME Typed, Session
  PROVE  \/ UNCHANGED <<registered, channel>> /\ (Resident' <=> Resident)
         \/ ~Resident' /\ registered' = Release(sub', ghost, FALSE)
         \/ ~Resident' /\ registered' = Release(sub, ghost, FALSE)
         \/ registered' = SessionChannel /\ channel' = SessionChannel /\ (registered # None => registered' = registered)
<1>1. ASSUME NEW m \in Msg, Send(m) \/ Resend(m) \/ Discard(m) \/ Settle(m)
      PROVE  UNCHANGED <<registered, channel>> /\ (Resident' <=> Resident)
  BY <1>1 DEF Send, Resend, Register, Discard, Settle, Resident
<1>2. CASE Produce \/ CliResumes \/ Idle \/ Inbox \/ Delta
  BY <1>2 DEF Produce, CliResumes, Idle, Inbox, AnnounceEntry, AnnounceResumed, AnnounceStatus, Delta, Resident
<1>3. CASE Exit \/ Leave \/ Connected
  BY <1>3 DEF Exit, Leave, Connected, Resident
<1>4. CASE Connect
  BY <1>4 DEF Connect, SessionChannel
<1>5. CASE Left
  BY <1>5 DEF Left, Resident
<1>6. CASE ConnectFails
  BY <1>6 DEF ConnectFails, Resident
<1>7. QED
  BY <1>1, <1>2, <1>3, <1>4, <1>5, <1>6 DEF Session

LEMMA ChanStep ==
  ASSUME Typed, ChanInv, Next
  PROVE  ChanInv'
<1>1. CASE Session
  <2>1. /\ ghost' = ghost /\ sub'.chan = sub.chan /\ sub'.stage = sub.stage /\ (~sub'.ended => ~sub.ended)
    BY <1>1, SessionHears, HearsKeeps
  <2>2. CASE UNCHANGED <<registered, channel>> /\ (Resident' <=> Resident)
    BY <2>1, <2>2 DEF ChanInv
  <2>3. CASE ~Resident' /\ registered' = Release(sub', ghost, FALSE)
    BY <2>1, <2>3 DEF ChanInv, Release, Subscribed
  <2>4. CASE ~Resident' /\ registered' = Release(sub, ghost, FALSE)
    BY <2>1, <2>4 DEF ChanInv, Release, Subscribed
  <2>5. CASE registered' = SessionChannel /\ channel' = SessionChannel /\ (registered # None => registered' = registered)
    BY <2>1, <2>5 DEF ChanInv
  <2>6. QED
    BY <1>1, <2>2, <2>3, <2>4, <2>5, SessionChan
<1>2. CASE Read \/ SendEntries \/ SendDraft \/ SendQueue \/ SendStatus
  <2>1. UNCHANGED <<sessionVars, registered, ghost>> /\ sub.stage # "off"
    BY <1>2 DEF Read, SendEntries, SendDraft, SendQueue, SendStatus, Streaming
  <2>2. sub'.chan = sub.chan /\ sub'.ended = sub.ended
    BY <1>2, OpeningKeeps
  <2>3. QED
    BY <2>1, <2>2 DEF ChanInv, sessionVars, Resident
<1>3. CASE Take \/ Heartbeat
  <2>1. UNCHANGED <<sessionVars, registered, ghost>> /\ sub.stage # "off"
    BY <1>3 DEF Take, Heartbeat, Streaming
  <2>2. sub'.chan = sub.chan /\ sub'.ended = sub.ended
    BY <1>3, TakeSubFacts, HeartbeatFacts DEF TakesSub
  <2>3. QED
    BY <2>1, <2>2 DEF ChanInv, sessionVars, Resident
<1>4. CASE End
  <2>1. sub' = NoSub /\ registered' = Release(NoSub, ghost, Resident) /\ UNCHANGED <<sessionVars, ghost>>
    BY <1>4 DEF End
  <2>2. QED
    BY <2>1, NoSubFacts DEF ChanInv, Release, Subscribed, sessionVars, Resident
<1>5. CASE Break \/ Reload
  <2>1. /\ ghost' = IF sub.chan # None /\ ~sub.ended THEN sub.chan ELSE ghost
        /\ sub' = NoSub /\ UNCHANGED <<sessionVars, registered>>
    BY <1>5 DEF Break, Reload, Outlive
  <2>2. QED
    BY <2>1, NoSubFacts DEF ChanInv, sessionVars, Resident
<1>6. CASE Unsubscribe
  <2>1. ghost' = None /\ registered' = Release(sub, None, Resident) /\ UNCHANGED <<sessionVars, sub>>
    BY <1>6 DEF Unsubscribe
  <2>2. QED
    BY <2>1 DEF ChanInv, Release, Subscribed, sessionVars, Resident
<1>7. CASE Open
  <2>1. sub'.chan = (IF Resident THEN channel ELSE SessionChannel) /\ UNCHANGED <<sessionVars, ghost>>
        /\ registered' = IF Resident THEN registered ELSE SessionChannel
    BY <1>7 DEF Open, NoSub
  <2>2. sub'.chan # None
    BY <2>1, FreshFacts, TypedUse, NoneFacts
  <2>3. registered # None => SessionChannel = registered
    BY DEF SessionChannel
  <2>4. QED
    BY <2>1, <2>2, <2>3 DEF ChanInv, sessionVars, Resident
<1>8. ASSUME NEW n \in DOMAIN log, RetryAnswered(n) PROVE ChanInv'
  BY <1>8 DEF RetryAnswered, ChanInv, sessionVars, Resident
<1>9. QED
  BY <1>1, <1>2, <1>3, <1>4, <1>5, <1>6, <1>7, <1>8 DEF Next, Stream, Panel

LEMMA InitChan ==
  ASSUME Init
  PROVE  ChanInv
<1>1. channel = 1 /\ registered = 1 /\ ghost = None /\ 1 # None /\ sub.chan = 1
  BY NoneFacts DEF Init, Chan, NoSub
<1>2. QED
  BY <1>1 DEF ChanInv

-----------------------------------------------------------------------------
(* What the stream's queue is after a broadcast that reaches it.           *)

\* The queue after a broadcast, item by item: from the queue before it, or from what was broadcast.
Carried(g, items) ==
  /\ g \in [1..Len(sub'.queue) -> 1..(Len(sub.queue) + Len(items))]
  /\ \A i, j \in 1..Len(sub'.queue) : i < j => g[i] < g[j]
  /\ \A i \in 1..Len(sub'.queue) :
       \/ g[i] \in 1..Len(sub.queue) /\ sub'.queue[i] = sub.queue[g[i]]
       \/ \E k \in 1..Len(items) : g[i] = Len(sub.queue) + k /\ sub'.queue[i] = items[k]
  /\ \A k \in 1..Len(sub.queue) : Critical(sub.queue[k]) => \E i \in 1..Len(sub'.queue) : g[i] = k
  /\ \A k \in 1..Len(items) : Critical(items[k]) => \E i \in 1..Len(sub'.queue) : g[i] = Len(sub.queue) + k

\* The stream hears the items, or its queue has overflowed, or there is no stream.
Said(items) ==
  \/ sub.stage = "off" /\ sub' = sub
  \/ sub'.ended /\ sub'.queue = <<>>
  \/ ~sub.ended /\ ~sub'.ended /\ sub'.queue \in Seq(Item) /\ \E g : Carried(g, items)

LEMMA SaidFacts ==
  ASSUME Typed, NEW on, NEW items \in Seq(Item), Broadcast(on, items),
         sub.stage # "off" /\ ~sub.ended => sub.chan = on /\ on # None
  PROVE  Said(items)
<1>1. sub \in Streams /\ Bounded(sub) /\ sub.queue \in Seq(Item) /\ Len(sub.queue) \in Nat /\ Len(items) \in Nat
  BY SubUse
<1>2. /\ sub' \in Streams /\ Bounded(sub') /\ (sub.chan = None => sub' = sub) /\ (sub.ended => sub' = sub)
  BY BroadcastTypes
<1>3. CASE sub.stage = "off"
  <2>1. sub.chan = None
    BY <1>3, SubUse, NoSubFacts
  <2>2. QED
    BY <1>2, <1>3, <2>1 DEF Said
<1>4. CASE sub.ended
  BY <1>2, <1>4 DEF Said, Bounded
<1>5. CASE sub.stage # "off" /\ ~sub.ended /\ ~sub'.ended
  <2>1. sub' = DeliverAll(sub, items)
    BY <1>5 DEF Broadcast
  <2>2. PICK t : t = DeliverAll(sub, items)
    OBVIOUS
  <2>3. ~t.ended => Thin(t.queue, sub.queue \o items, Len(sub.queue) + Len(items))
    BY <1>1, <2>2, DeliverAllFacts
  <2>4. Thin(sub'.queue, sub.queue \o items, Len(sub.queue) + Len(items)) /\ sub'.queue \in Seq(Item)
    BY <1>2, <1>5, <2>1, <2>2, <2>3 DEF Streams
  <2>5. PICK all \in Seq(Item) :
          /\ Thin(sub'.queue, all, Len(sub.queue) + Len(items))
          /\ \A i \in 1..Len(sub.queue) : all[i] = sub.queue[i]
          /\ \A i \in 1..Len(items) : all[Len(sub.queue) + i] = items[i]
    <3>1. /\ sub.queue \o items \in Seq(Item)
          /\ \A i \in 1..Len(sub.queue) : (sub.queue \o items)[i] = sub.queue[i]
          /\ \A i \in 1..Len(items) : (sub.queue \o items)[Len(sub.queue) + i] = items[i]
      BY <1>1, ConcatFacts
    <3>2. QED
      BY <2>4, <3>1
  <2>6. PICK g \in [1..Len(sub'.queue) -> 1..(Len(sub.queue) + Len(items))] :
        /\ \A i, j \in 1..Len(sub'.queue) : i < j => g[i] < g[j]
        /\ \A i \in 1..Len(sub'.queue) : sub'.queue[i] = all[g[i]]
        /\ \A k \in 1..(Len(sub.queue) + Len(items)) : Critical(all[k]) => \E i \in 1..Len(sub'.queue) : g[i] = k
    BY <2>5 DEF Thin
  <2>7. ASSUME NEW i \in 1..Len(sub'.queue)
        PROVE  \/ g[i] \in 1..Len(sub.queue) /\ sub'.queue[i] = sub.queue[g[i]]
               \/ \E k \in 1..Len(items) : g[i] = Len(sub.queue) + k /\ sub'.queue[i] = items[k]
    <3>1. g[i] \in 1..(Len(sub.queue) + Len(items))
      BY <2>6
    <3>2. CASE g[i] <= Len(sub.queue)
      BY <1>1, <2>5, <2>6, <3>1, <3>2
    <3>3. CASE g[i] > Len(sub.queue)
      <4>1. PICK k \in 1..Len(items) : g[i] = Len(sub.queue) + k
        <5>1. g[i] - Len(sub.queue) \in 1..Len(items) /\ g[i] = Len(sub.queue) + (g[i] - Len(sub.queue))
          BY <1>1, <3>1, <3>3
        <5>2. QED
          BY <5>1
      <4>2. all[Len(sub.queue) + k] = items[k] /\ sub'.queue[i] = all[g[i]]
        BY <2>5, <2>6
      <4>3. sub'.queue[i] = items[k]
        BY <4>1, <4>2
      <4>4. QED
        BY <4>1, <4>3
    <3>4. QED
      BY <1>1, <3>1, <3>2, <3>3
  <2>8. ASSUME NEW k \in 1..Len(sub.queue), Critical(sub.queue[k])
        PROVE  \E i \in 1..Len(sub'.queue) : g[i] = k
    <3>1. k \in 1..(Len(sub.queue) + Len(items)) /\ all[k] = sub.queue[k]
      BY <1>1, <2>5
    <3>2. QED
      BY <2>6, <2>8, <3>1
  <2>9. ASSUME NEW k \in 1..Len(items), Critical(items[k])
        PROVE  \E i \in 1..Len(sub'.queue) : g[i] = Len(sub.queue) + k
    <3>1. Len(sub.queue) + k \in 1..(Len(sub.queue) + Len(items)) /\ all[Len(sub.queue) + k] = items[k]
      BY <1>1, <2>5
    <3>2. QED
      BY <2>6, <2>9, <3>1
  <2>10. Carried(g, items)
    BY <2>6, <2>7, <2>8, <2>9 DEF Carried
  <2>11. QED
    BY <1>5, <2>4, <2>10 DEF Said
<1>6. QED
  BY <1>2, <1>3, <1>4, <1>5 DEF Said, Bounded

LEMMA SaidOnChannel ==
  ASSUME Typed, ChanInv, Resident, NEW items \in Seq(Item), Broadcast(channel, items)
  PROVE  Said(items)
<1>1. sub.stage # "off" /\ ~sub.ended => sub.chan = channel /\ channel # None
  BY DEF ChanInv
<1>2. QED
  BY <1>1, SaidFacts

LEMMA EntryItemsParts ==
  ASSUME Typed, writing # None, writing.kind = "entry"
  PROVE  /\ \A i \in 1..Len(EntryItems) :
              \/ i = 1 /\ writing.seq # 0 /\ EntryItems[i] = [kind |-> "entry", seq |-> writing.seq]
              \/ EntryItems[i] = Removal(writing.msg)
         /\ writing.seq # 0 => Len(EntryItems) >= 1 /\ EntryItems[1] = [kind |-> "entry", seq |-> writing.seq]
         /\ writing.msg # None /\ writing.msg \in InTray =>
              \E i \in 1..Len(EntryItems) : EntryItems[i] = Removal(writing.msg)
<1> DEFINE e == [kind |-> "entry", seq |-> writing.seq]
           r == Removal(writing.msg)
<1>1. PICK a : a = IF writing.seq = 0 THEN <<>> ELSE <<e>>
  OBVIOUS
<1>2. PICK b : b = IF writing.msg # None /\ writing.msg \in InTray THEN <<r>> ELSE <<>>
  OBVIOUS
<1>3. PICK c : c = EntryItems
  OBVIOUS
<1>4. c = a \o b
  BY <1>1, <1>2, <1>3 DEF EntryItems
<1> HIDE DEF e, r
<1>5. PICK S : S = {e, r}
  OBVIOUS
<1>6. a \in Seq(S) /\ b \in Seq(S)
  <2>1. e \in S /\ r \in S
    BY <1>5
  <2>2. <<>> \in Seq(S) /\ <<e>> \in Seq(S) /\ <<r>> \in Seq(S)
    BY <2>1
  <2>3. QED
    BY <1>1, <1>2, <2>2
<1>7. /\ Len(c) = Len(a) + Len(b) /\ (\A i \in 1..Len(a) : c[i] = a[i])
      /\ \A i \in 1..Len(b) : c[Len(a) + i] = b[i]
  BY <1>4, <1>6, ConcatFacts
<1>8. /\ writing.seq = 0 => Len(a) = 0
      /\ writing.seq # 0 => Len(a) = 1 /\ a[1] = e
      /\ writing.msg # None /\ writing.msg \in InTray => Len(b) = 1 /\ b[1] = r
      /\ ~(writing.msg # None /\ writing.msg \in InTray) => Len(b) = 0
  BY <1>1, <1>2
<1>9. Len(a) \in {0, 1} /\ Len(b) \in {0, 1}
  BY <1>8
<1>10. ASSUME NEW i \in 1..Len(c)
       PROVE  \/ i = 1 /\ writing.seq # 0 /\ c[i] = e
              \/ c[i] = r
  <2>1. CASE i <= Len(a)
    BY <1>7, <1>8, <1>9, <2>1
  <2>2. CASE i > Len(a)
    <3>1. i = Len(a) + 1 /\ 1 \in 1..Len(b) /\ Len(b) = 1
      BY <1>7, <1>9, <2>2
    <3>2. c[Len(a) + 1] = b[1]
      BY <1>7, <3>1
    <3>3. QED
      BY <1>8, <3>1, <3>2
  <2>3. QED
    BY <1>9, <2>1, <2>2
<1>11. ASSUME writing.seq # 0 PROVE Len(c) >= 1 /\ c[1] = e
  BY <1>7, <1>8, <1>9, <1>11
<1>12. ASSUME writing.msg # None, writing.msg \in InTray PROVE \E i \in 1..Len(c) : c[i] = r
  <2>1. c[Len(a) + 1] = r /\ Len(a) + 1 \in 1..Len(c)
    BY <1>7, <1>8, <1>9, <1>12
  <2>2. QED
    BY <2>1
<1>13. QED
  BY <1>3, <1>10, <1>11, <1>12 DEF e, r

(* The steps of the session: what each says.                               *)
NoEntry(items) == \A i \in 1..Len(items) : items[i].kind # "entry"

LEMMA OneSaid ==
  ASSUME NEW x \in Item
  PROVE  /\ <<x>> \in Seq(Item) /\ Len(<<x>>) = 1 /\ \A i \in 1..Len(<<x>>) : i = 1 /\ <<x>>[i] = x
OBVIOUS

LEMMA EachKinds ==
  ASSUME NEW S \in SUBSET Msg
  PROVE  /\ NoEntry(Each(S, Removal)) /\ Each(S, Removal) \in Seq(Item)
         /\ NoEntry(Each(S, LAMBDA m : Upsert(m, "unsent"))) /\ Each(S, LAMBDA m : Upsert(m, "unsent")) \in Seq(Item)
<1>1. \A i \in 1..Len(Each(S, Removal)) : Each(S, Removal)[i] \in {Removal(m) : m \in S}
  BY EachFacts
<1>2. \A i \in 1..Len(Each(S, LAMBDA m : Upsert(m, "unsent"))) :
              Each(S, LAMBDA m : Upsert(m, "unsent"))[i] \in {Upsert(m, "unsent") : m \in S}
  BY EachFacts
<1>3. \A m : Removal(m).kind = "remove" /\ Upsert(m, "unsent").kind = "upsert"
  BY DEF Removal, Upsert
<1>4. QED
  BY <1>1, <1>2, <1>3, EachFacts DEF NoEntry

LEMMA ConnectFailsSaid ==
  ASSUME Typed, ChanInv, ConnectFails
  PROVE  Said(Each({m \in Msg : detached[m] # "out"}, Removal))
<1>1. /\ registered' = Release(sub, ghost, FALSE)
      /\ Broadcast(registered', Each({m \in Msg : detached[m] # "out"}, Removal))
  BY DEF ConnectFails
<1>2. sub.stage # "off" /\ ~sub.ended => sub.chan = registered' /\ registered' # None
  BY <1>1 DEF ChanInv, Release, Subscribed
<1>3. PICK on : on = registered'
  OBVIOUS
<1>4. {m \in Msg : detached[m] # "out"} \in SUBSET Msg
  OBVIOUS
<1>5. Each({m \in Msg : detached[m] # "out"}, Removal) \in Seq(Item)
  BY <1>4, ItemSeqs
<1>6. PICK items \in Seq(Item) : items = Each({m \in Msg : detached[m] # "out"}, Removal)
  BY <1>5
<1>7. Broadcast(on, items)
  BY <1>1, <1>3, <1>6
<1>8. Said(items)
  BY <1>2, <1>3, <1>7, SaidFacts
<1>9. QED
  BY <1>6, <1>8

-----------------------------------------------------------------------------
(* The entries in the queue are in order, and with what was read before    *)
(* them there are all the announced ones.                                  *)
IsEntry(i) == sub.queue[i].kind = "entry"

OrderInv ==
  /\ \A i, j \in 1..Len(sub.queue) : IsEntry(i) /\ IsEntry(j) /\ i < j => sub.queue[i].seq < sub.queue[j].seq
  /\ \A i \in 1..Len(sub.queue) : IsEntry(i) => sub.queue[i].seq <= Announced

ReachInv ==
  sub.stage \notin {"off", "subscribed"} /\ ~sub.ended =>
    \A n \in 1..Announced : n > sub.last /\ n > sub.upto =>
      \E i \in 1..Len(sub.queue) : sub.queue[i] = [kind |-> "entry", seq |-> n]

UptoInv == sub.stage # "entries" => sub.upto = 0

WholeInv ==
  ~panel.holed => \E k \in 0..Len(log) :
    panel.entries = 1..k /\ panel.cursor <= k /\ panel.after <= k /\ sub.last <= k

LEMMA AnnouncedFacts ==
  ASSUME Typed, StoreInv
  PROVE  /\ Announced \in 0..Len(log)
         /\ writing # None /\ writing.kind = "entry" /\ writing.seq # 0 =>
              writing.seq = Len(log) /\ Announced = Len(log) - 1 /\ Len(log) >= 1
         /\ ~(writing # None /\ writing.kind = "entry" /\ writing.seq # 0) => Announced = Len(log)
<1>1. Len(log) \in Nat
  BY TypedUse
<1>2. CASE writing # None /\ writing.kind = "entry" /\ writing.seq # 0
  <2>1. writing.seq = Len(log)
    BY <1>2 DEF StoreInv
  <2>2. QED
    BY <1>1, <1>2, <2>1 DEF Announced
<1>3. CASE ~(writing # None /\ writing.kind = "entry" /\ writing.seq # 0)
  BY <1>1, <1>3 DEF Announced
<1>4. QED
  BY <1>2, <1>3

LEMMA LoggedFacts ==
  ASSUME Typed, StoreInv, OrderInv
  PROVE  Logged
<1>1. Announced \in 0..Len(log) /\ Len(log) \in Nat /\ sub.queue \in Seq(Item)
  BY AnnouncedFacts, TypedUse, SubUse
<1>2. SUFFICES ASSUME NEW i \in 1..Len(sub.queue), sub.queue[i].kind = "entry" PROVE sub.queue[i].seq <= Len(log)
  BY DEF Logged
<1>3. sub.queue[i].seq <= Announced
  BY <1>2 DEF OrderInv, IsEntry
<1>4. sub.queue[i] \in Item
  BY <1>1
<1>5. sub.queue[i].seq \in Nat
  BY <1>2, <1>4, ItemKinds, NoneFacts
<1>6. QED
  BY <1>1, <1>3, <1>5

\* What a step of the session says of entries.
Quiet == Announced' = Announced /\ \E items \in Seq(Item) : NoEntry(items) /\ Said(items)
Loud == /\ writing # None /\ writing.kind = "entry" /\ writing.seq # 0 /\ Announced' = Announced + 1
        /\ writing.seq = Announced + 1 /\ Said(EntryItems)

LEMMA NothingSaid ==
  ASSUME Typed, sub' = sub
  PROVE  <<>> \in Seq(Item) /\ NoEntry(<<>>) /\ Said(<<>>)
<1>1. sub.queue \in Seq(Item) /\ Len(sub.queue) \in Nat /\ sub.ended \in BOOLEAN /\ Bounded(sub)
  BY SubUse
<1>2. PICK none \in Seq(Item) : none = <<>> /\ Len(none) = 0
  <2>1. <<>> \in Seq(Item) /\ Len(<<>>) = 0
    OBVIOUS
  <2>2. QED
    BY <2>1
<1>3. CASE sub.ended
  BY <1>1, <1>3 DEF Said, Bounded, NoEntry
<1>4. CASE ~sub.ended
  <2>1. PICK g : g = [i \in 1..Len(sub.queue) |-> i]
    OBVIOUS
  <2>2. \A i \in 1..Len(sub.queue) : g[i] = i
    BY <2>1
  <2>3. g \in [1..Len(sub'.queue) -> 1..(Len(sub.queue) + Len(none))]
    BY <1>1, <1>2, <2>1
  <2>4. Carried(g, none)
    BY <1>1, <1>2, <2>2, <2>3 DEF Carried
  <2>5. QED
    BY <1>1, <1>2, <1>4, <2>4 DEF Said, NoEntry
<1>5. QED
  BY <1>3, <1>4

LEMMA SessionQuiet ==
  ASSUME Typed, StoreInv, ChanInv, Session, StoreInv', Typed'
  PROVE  Quiet \/ Loud
<1>1. ASSUME sub' = sub, Announced' = Announced PROVE Quiet
  BY <1>1, NothingSaid DEF Quiet
<1>2. ASSUME NEW x \in Item, x.kind # "entry", Resident, Broadcast(channel, <<x>>), Announced' = Announced PROVE Quiet
  <2>1. <<x>> \in Seq(Item) /\ NoEntry(<<x>>)
    BY <1>2, OneSaid DEF NoEntry
  <2>2. QED
    BY <1>2, <2>1, SaidOnChannel DEF Quiet
<1>3. ASSUME UNCHANGED <<log, writing>> PROVE Announced' = Announced
  BY <1>3 DEF Announced
<1>4. \A m \in Msg : /\ Removal(m) \in Item /\ Removal(m).kind # "entry"
                     /\ Upsert(m, "queued") \in Item /\ Upsert(m, "queued").kind # "entry"
  BY ItemFacts DEF Removal, Upsert
<1>5. \A st \in {"idle", "running", "error"} : Status(st) \in Item /\ Status(st).kind # "entry"
  BY ItemFacts DEF Status
<1>6. ASSUME NEW m \in Msg, Send(m) \/ Resend(m) PROVE Quiet
  <2>1. Resident /\ UNCHANGED <<log, writing>> /\ Broadcast(channel, <<Upsert(m, "queued")>>)
    BY <1>6 DEF Send, Resend, Register, Resident
  <2>2. QED
    BY <1>2, <1>3, <1>4, <2>1
<1>7. ASSUME NEW m \in Msg, Discard(m) PROVE Quiet
  <2>1. Resident /\ UNCHANGED <<log, writing>> /\ Broadcast(channel, <<Removal(m)>>)
    BY <1>7 DEF Discard, Resident
  <2>2. QED
    BY <1>2, <1>3, <1>4, <2>1
<1>8. ASSUME NEW m \in Msg, Settle(m) PROVE Quiet
  <2>1. sub' = sub /\ writing = None
    BY <1>8 DEF Settle
  <2>2. Announced = Len(log) /\ Len(log) \in Nat
    BY <2>1, TypedUse DEF Announced
  <2>3. Announced' = Len(log)
    <3>1. CASE Settle(m) /\ log' = log /\ writing'.seq = 0
      BY <3>1, TypedUse DEF Announced
    <3>2. CASE Settle(m) /\ writing'.kind = "entry" /\ writing'.seq = Len(log) + 1
               /\ log' = Append(log, m)
      <4>1. Len(log') = Len(log) + 1
        BY <3>2, TypedUse
      <4>2. writing' # None /\ writing'.seq # 0
        <5>1. writing' \in Stored
          BY <3>2, <2>2 DEF Settle, Stored
        <5>2. QED
          BY <2>2, <3>2, <5>1, NoneFacts
      <4>3. Announced' = Len(log') - 1
        BY <3>2, <4>2 DEF Announced
      <4>4. QED
        BY <2>2, <4>1, <4>3
    <3>3. QED
      BY <1>8, <3>1, <3>2 DEF Settle
  <2>4. QED
    BY <1>1, <2>1, <2>2, <2>3
<1>9. ASSUME Produce PROVE Quiet
  <2>1. sub' = sub /\ writing = None /\ log' = Append(log, Output) /\ writing'.kind = "entry"
        /\ writing'.seq = Len(log) + 1 /\ Len(log) \in Nat
    BY <1>9, TypedUse DEF Produce
  <2>2. Len(log') = Len(log) + 1
    BY <2>1, TypedUse
  <2>3. writing' # None
    <3>1. writing' \in Stored
      BY <1>9, <2>1 DEF Produce, Stored
    <3>2. QED
      BY <3>1, NoneFacts
  <2>4. Announced' = Len(log) /\ Announced = Len(log)
    BY <2>1, <2>2, <2>3 DEF Announced
  <2>5. QED
    BY <1>1, <2>1, <2>4
<1>10. CASE AnnounceEntry
  <2>1. /\ writing # None /\ writing.kind = "entry" /\ writing' = None /\ log' = log /\ Resident
        /\ Broadcast(channel, EntryItems)
    BY <1>10 DEF AnnounceEntry, EntryItems, StoreInv, Resident
  <2>2. EntryItems \in Seq(Item)
    BY <2>1, EntryItemsFacts
  <2>3. Said(EntryItems)
    BY <2>1, <2>2, SaidOnChannel
  <2>4. Announced' = Len(log)
    BY <2>1 DEF Announced
  <2>5. CASE writing.seq # 0
    BY <2>1, <2>3, <2>4, <2>5, AnnouncedFacts, TypedUse DEF Loud
  <2>6. CASE writing.seq = 0
    <3>1. Removal(writing.msg).kind # "entry"
      BY DEF Removal
    <3>2. NoEntry(EntryItems)
      BY <2>1, <2>6, <3>1, EntryItemsParts DEF NoEntry
    <3>3. Announced = Len(log)
      BY <2>6 DEF Announced
    <3>4. QED
      BY <2>2, <2>3, <2>4, <3>2, <3>3 DEF Quiet
  <2>7. QED
    BY <2>5, <2>6
<1>11. CASE Delta
  <2>1. Resident /\ UNCHANGED <<log, writing>> /\ Broadcast(channel, <<[kind |-> "delta", rev |-> rev']>>)
    BY <1>11 DEF Delta, Resident
  <2>2. rev' \in 1..MaxRev
    BY <1>11, TypedUse, NoneFacts DEF Delta
  <2>3. PICK x \in Item : x = [kind |-> "delta", rev |-> rev'] /\ x.kind # "entry"
    BY <2>2, ItemFacts
  <2>4. QED
    BY <1>2, <1>3, <2>1, <2>3
<1>12. CASE AnnounceResumed
  <2>1. Resident /\ UNCHANGED <<log, writing>> /\ Broadcast(channel, <<Status("running")>>)
    BY <1>12 DEF AnnounceResumed, Resident
  <2>2. QED
    BY <1>2, <1>3, <1>5, <2>1
<1>13. CASE AnnounceStatus
  <2>1. writing \in Written /\ Resident /\ log' = log /\ writing' = None /\ writing # None /\ writing.kind = "status"
    BY <1>13, TypedUse DEF AnnounceStatus, StoreInv, Resident, Stored
  <2>2. Announced' = Announced
    BY <2>1 DEF Announced
  <2>3. writing.status \in {"idle", "error"}
    BY <2>1 DEF Written
  <2>4. sub' = sub \/ Broadcast(channel, <<Status(writing.status)>>)
    BY <1>13 DEF AnnounceStatus
  <2>5. QED
    BY <1>1, <1>2, <1>5, <2>1, <2>2, <2>3, <2>4
<1>14. CASE Exit
  <2>1. {m \in Msg : tray[m] = "queued"} \in SUBSET Msg
    OBVIOUS
  <2>2. PICK items \in Seq(Item) :
          NoEntry(items) /\ items = Each({m \in Msg : tray[m] = "queued"}, LAMBDA m : Upsert(m, "unsent"))
    BY <2>1, EachKinds
  <2>3. Resident /\ Broadcast(channel, items) /\ log' = log /\ writing = None /\ writing'.kind = "status"
    BY <1>14, <2>2 DEF Exit, Resident
  <2>4. Announced' = Announced
    BY <2>3 DEF Announced
  <2>5. QED
    BY <2>2, <2>3, <2>4, SaidOnChannel DEF Quiet
<1>15. CASE CliResumes \/ Leave \/ Connect \/ Connected
  <2>1. sub' = sub /\ UNCHANGED <<log, writing>>
    BY <1>15 DEF CliResumes, Leave, Connect, Connected
  <2>2. QED
    BY <1>1, <1>3, <2>1
<1>16. CASE Idle
  <2>1. sub' = sub /\ log' = log /\ writing = None /\ writing'.kind = "status"
    BY <1>16 DEF Idle
  <2>2. Announced' = Announced
    BY <2>1 DEF Announced
  <2>3. QED
    BY <1>1, <2>1, <2>2
<1>17. CASE Left
  <2>1. InTray \in SUBSET Msg
    BY DEF InTray
  <2>2. PICK items \in Seq(Item) : NoEntry(items) /\ items = Each(InTray, Removal)
    BY <2>1, EachKinds
  <2>3. Resident /\ Broadcast(channel, items) /\ UNCHANGED <<log, writing>>
    BY <1>17, <2>2 DEF Left, Resident
  <2>4. QED
    BY <1>3, <2>2, <2>3, SaidOnChannel DEF Quiet
<1>18. CASE ConnectFails
  <2>1. {m \in Msg : detached[m] # "out"} \in SUBSET Msg
    OBVIOUS
  <2>2. PICK items \in Seq(Item) : NoEntry(items) /\ items = Each({m \in Msg : detached[m] # "out"}, Removal)
    BY <2>1, EachKinds
  <2>3. UNCHANGED <<log, writing>>
    BY <1>18 DEF ConnectFails
  <2>4. QED
    BY <1>3, <1>18, <2>2, <2>3, ConnectFailsSaid DEF Quiet
<1>19. QED
  BY <1>6, <1>7, <1>8, <1>9, <1>10, <1>11, <1>12, <1>13, <1>14, <1>15, <1>16, <1>17, <1>18 DEF Session, Inbox

LEMMA CarriedFacts ==
  ASSUME Typed, NEW items \in Seq(Item), NEW g, Carried(g, items), Len(sub'.queue) \in Nat
  PROVE  /\ \A k \in 1..Len(sub.queue) : Critical(sub.queue[k]) =>
              \E i \in 1..Len(sub'.queue) : g[i] = k /\ sub'.queue[i] = sub.queue[k]
         /\ \A k \in 1..Len(items) : Critical(items[k]) =>
              \E i \in 1..Len(sub'.queue) : g[i] = Len(sub.queue) + k /\ sub'.queue[i] = items[k]
<1>1. Len(sub.queue) \in Nat /\ Len(items) \in Nat
  BY SubUse
<1>2. /\ \A i \in 1..Len(sub'.queue) :
           \/ g[i] \in 1..Len(sub.queue) /\ sub'.queue[i] = sub.queue[g[i]]
           \/ \E k \in 1..Len(items) : g[i] = Len(sub.queue) + k /\ sub'.queue[i] = items[k]
      /\ \A k \in 1..Len(sub.queue) : Critical(sub.queue[k]) => \E i \in 1..Len(sub'.queue) : g[i] = k
      /\ \A k \in 1..Len(items) : Critical(items[k]) => \E i \in 1..Len(sub'.queue) : g[i] = Len(sub.queue) + k
  BY DEF Carried
<1>3. ASSUME NEW k \in 1..Len(sub.queue), Critical(sub.queue[k])
      PROVE  \E i \in 1..Len(sub'.queue) : g[i] = k /\ sub'.queue[i] = sub.queue[k]
  <2>1. PICK i \in 1..Len(sub'.queue) : g[i] = k
    BY <1>2, <1>3
  <2>2. ~ \E j \in 1..Len(items) : k = Len(sub.queue) + j
    BY <1>1
  <2>3. QED
    BY <1>2, <2>1, <2>2
<1>4. ASSUME NEW k \in 1..Len(items), Critical(items[k])
      PROVE  \E i \in 1..Len(sub'.queue) : g[i] = Len(sub.queue) + k /\ sub'.queue[i] = items[k]
  <2>1. PICK i \in 1..Len(sub'.queue) : g[i] = Len(sub.queue) + k
    BY <1>2, <1>4
  <2>2. Len(sub.queue) + k \notin 1..Len(sub.queue)
    BY <1>1
  <2>3. PICK j \in 1..Len(items) : g[i] = Len(sub.queue) + j /\ sub'.queue[i] = items[j]
    BY <1>2, <2>1, <2>2
  <2>4. j = k
    BY <1>1, <2>1, <2>3
  <2>5. QED
    BY <2>1, <2>3, <2>4
<1>5. QED
  BY <1>3, <1>4

LEMMA EntrySeqs ==
  ASSUME Typed
  PROVE  \A i \in 1..Len(sub.queue) : IsEntry(i) => sub.queue[i].seq \in Nat
BY SubUse, ItemKinds, NoneFacts DEF IsEntry

LEMMA SessionOrder ==
  ASSUME Typed, Typed', StoreInv, StoreInv', ChanInv, OrderInv, ReachInv, Session
  PROVE  OrderInv' /\ ReachInv'
<1>1. /\ sub'.stage = sub.stage /\ sub'.last = sub.last /\ sub'.upto = sub.upto /\ (~sub'.ended => ~sub.ended)
  BY SessionHears, HearsKeeps
<1>2. Quiet \/ Loud
  BY SessionQuiet
<1>3. Announced \in Nat /\ sub.last \in Nat /\ sub.upto \in Nat /\ Len(sub.queue) \in Nat /\ Len(log) \in Nat
  BY AnnouncedFacts, SubUse, TypedUse
<1>4. Announced' \in {Announced, Announced + 1}
  BY <1>2 DEF Quiet, Loud
<1>5. CASE sub'.ended /\ sub'.queue = <<>>
  <2>1. Len(sub'.queue) = 0
    BY <1>5
  <2>2. QED
    BY <1>5, <2>1 DEF OrderInv, ReachInv
<1>6. CASE sub.stage = "off" /\ sub' = sub
  <2>1. sub'.queue = <<>>
    BY <1>6, SubUse, NoSubFacts
  <2>2. Len(sub'.queue) = 0
    BY <2>1
  <2>3. QED
    BY <1>1, <1>6, <2>2 DEF OrderInv, ReachInv
<1>7. ASSUME NEW items \in Seq(Item), Quiet \/ Loud, Announced' = Announced \/ items = EntryItems,
             Announced' = Announced => NoEntry(items), Announced' # Announced => Loud,
             ~sub.ended, ~sub'.ended, sub'.queue \in Seq(Item), NEW g, Carried(g, items)
      PROVE  OrderInv' /\ ReachInv'
  <2>1. Len(sub'.queue) \in Nat
    BY <1>7
  <2>2. /\ \A i, j \in 1..Len(sub'.queue) : i < j => g[i] < g[j]
        /\ \A i \in 1..Len(sub'.queue) :
             \/ g[i] \in 1..Len(sub.queue) /\ sub'.queue[i] = sub.queue[g[i]]
             \/ \E k \in 1..Len(items) : g[i] = Len(sub.queue) + k /\ sub'.queue[i] = items[k]
    BY <1>7 DEF Carried
  <2>3. \A k \in 1..Len(items) : items[k].kind = "entry" =>
          k = 1 /\ items[k].seq = Announced + 1 /\ Announced' = Announced + 1
    <3>1. CASE Announced' = Announced
      BY <1>7, <3>1 DEF NoEntry
    <3>2. CASE Announced' # Announced
      <4>1. Loud /\ items = EntryItems
        BY <1>7, <3>2
      <4>2. Removal(writing.msg).kind # "entry"
        BY DEF Removal
      <4>3. writing # None /\ writing.kind = "entry" /\ writing.seq = Announced + 1 /\ Announced' = Announced + 1
        BY <4>1 DEF Loud
      <4>4. \A k \in 1..Len(EntryItems) :
              \/ k = 1 /\ EntryItems[k] = [kind |-> "entry", seq |-> writing.seq]
              \/ EntryItems[k] = Removal(writing.msg)
        BY <4>3, EntryItemsParts
      <4>5. QED
        BY <4>1, <4>2, <4>3, <4>4
    <3>3. QED
      BY <3>1, <3>2
  <2>4. \A i \in 1..Len(sub'.queue) : sub'.queue[i].kind = "entry" =>
          \/ g[i] \in 1..Len(sub.queue) /\ IsEntry(g[i]) /\ sub'.queue[i].seq = sub.queue[g[i]].seq
          \/ g[i] = Len(sub.queue) + 1 /\ sub'.queue[i].seq = Announced + 1 /\ Announced' = Announced + 1
    BY <2>2, <2>3 DEF IsEntry
  <2>5. ASSUME NEW i \in 1..Len(sub'.queue), NEW j \in 1..Len(sub'.queue), sub'.queue[i].kind = "entry",
               sub'.queue[j].kind = "entry", i < j
        PROVE  sub'.queue[i].seq < sub'.queue[j].seq
    <3>1. g[i] < g[j]
      BY <2>2, <2>5
    <3>2. CASE g[i] \in 1..Len(sub.queue) /\ IsEntry(g[i]) /\ sub'.queue[i].seq = sub.queue[g[i]].seq
      <4>1. sub.queue[g[i]].seq <= Announced /\ sub.queue[g[i]].seq \in Nat
        BY <3>2, EntrySeqs DEF OrderInv
      <4>2. CASE g[j] \in 1..Len(sub.queue) /\ IsEntry(g[j]) /\ sub'.queue[j].seq = sub.queue[g[j]].seq
        BY <3>1, <3>2, <4>2 DEF OrderInv
      <4>3. CASE sub'.queue[j].seq = Announced + 1
        BY <1>3, <3>2, <4>1, <4>3
      <4>4. QED
        BY <2>4, <2>5, <4>2, <4>3
    <3>3. CASE g[i] = Len(sub.queue) + 1
      <4>1. g[j] \in 1..Len(sub.queue) \/ g[j] = Len(sub.queue) + 1
        BY <2>4, <2>5
      <4>2. QED
        BY <1>3, <3>1, <3>3, <4>1
    <3>4. QED
      BY <2>4, <2>5, <3>2, <3>3
  <2>6. ASSUME NEW i \in 1..Len(sub'.queue), sub'.queue[i].kind = "entry"
        PROVE  sub'.queue[i].seq <= Announced'
    <3>1. CASE g[i] \in 1..Len(sub.queue) /\ IsEntry(g[i]) /\ sub'.queue[i].seq = sub.queue[g[i]].seq
      <4>1. sub.queue[g[i]].seq <= Announced /\ sub.queue[g[i]].seq \in Nat
        BY <3>1, EntrySeqs DEF OrderInv
      <4>2. QED
        BY <1>3, <1>4, <3>1, <4>1
    <3>2. CASE sub'.queue[i].seq = Announced + 1 /\ Announced' = Announced + 1
      BY <1>3, <3>2
    <3>3. QED
      BY <2>4, <2>6, <3>1, <3>2
  <2>7. OrderInv'
    BY <2>5, <2>6 DEF OrderInv, IsEntry
  <2>8. ASSUME sub'.stage \notin {"off", "subscribed"}, NEW n \in 1..Announced', n > sub'.last, n > sub'.upto
        PROVE  \E i \in 1..Len(sub'.queue) : sub'.queue[i] = [kind |-> "entry", seq |-> n]
    <3>1. /\ \A k \in 1..Len(sub.queue) : Critical(sub.queue[k]) =>
               \E i \in 1..Len(sub'.queue) : g[i] = k /\ sub'.queue[i] = sub.queue[k]
          /\ \A k \in 1..Len(items) : Critical(items[k]) =>
               \E i \in 1..Len(sub'.queue) : g[i] = Len(sub.queue) + k /\ sub'.queue[i] = items[k]
      BY <1>7, <2>1, CarriedFacts
    <3>2. Critical([kind |-> "entry", seq |-> n])
      BY DEF Critical
    <3>3. CASE n \in 1..Announced
      <4>1. PICK k \in 1..Len(sub.queue) : sub.queue[k] = [kind |-> "entry", seq |-> n]
        BY <1>1, <1>7, <2>8, <3>3 DEF ReachInv
      <4>2. QED
        BY <3>1, <3>2, <4>1
    <3>4. CASE n \notin 1..Announced
      <4>1. n = Announced + 1 /\ Announced' # Announced
        BY <1>3, <1>4, <2>8, <3>4
      <4>2. Loud /\ items = EntryItems
        BY <1>7, <4>1
      <4>3. writing # None /\ writing.kind = "entry" /\ writing.seq # 0 /\ writing.seq = n
        BY <4>1, <4>2 DEF Loud
      <4>4. Len(items) >= 1 /\ items[1] = [kind |-> "entry", seq |-> n]
        BY <4>2, <4>3, EntryItemsParts
      <4>5. 1 \in 1..Len(items)
        BY <4>4
      <4>6. QED
        BY <3>1, <3>2, <4>4, <4>5
    <3>5. QED
      BY <3>3, <3>4
  <2>9. ReachInv'
    BY <2>8 DEF ReachInv
  <2>10. QED
    BY <2>7, <2>9
<1>8. CASE Quiet
  <2>1. PICK items \in Seq(Item) : NoEntry(items) /\ Said(items)
    BY <1>8 DEF Quiet
  <2>2. Announced' = Announced
    BY <1>8 DEF Quiet
  <2>3. QED
    BY <1>5, <1>6, <1>7, <1>8, <2>1, <2>2 DEF Said
<1>9. CASE Loud
  <2>1. Announced' # Announced /\ Said(EntryItems)
    BY <1>3, <1>9 DEF Loud
  <2>2. EntryItems \in Seq(Item)
    BY <1>9, EntryItemsFacts DEF Loud
  <2>3. QED
    BY <1>5, <1>6, <1>7, <1>9, <2>1, <2>2 DEF Said
<1>10. QED
  BY <1>2, <1>8, <1>9

LEMMA AnnouncedKept ==
  ASSUME UNCHANGED <<log, sessionVars>>
  PROVE  Announced' = Announced
BY DEF sessionVars, Announced

\* The first entry in the queue of a stream that has done its reading is the next one.
LEMMA NextEntry ==
  ASSUME Typed, StoreInv, OrderInv, ReachInv, UptoInv, Take
  PROVE  /\ Head(sub.queue).kind = "entry" => Head(sub.queue).seq <= sub.last + 1
         /\ sub.upto = 0 /\ ~sub.ended
<1>1. /\ sub.queue # <<>> /\ sub.queue \in Seq(Item) /\ sub.stage = "live" /\ sub.last \in Nat /\ ~sub.ended
      /\ Announced \in Nat
  BY SubUse, TypedUse, AnnouncedFacts DEF Take, Streaming, Bounded
<1>2. Head(sub.queue) = sub.queue[1] /\ Len(sub.queue) \in Nat \ {0}
  BY <1>1, TailFacts
<1>3. sub.upto = 0
  BY <1>1 DEF UptoInv
<1>4. ASSUME Head(sub.queue).kind = "entry", Head(sub.queue).seq > sub.last + 1 PROVE FALSE
  <2>1. 1 \in 1..Len(sub.queue) /\ IsEntry(1)
    BY <1>2, <1>4 DEF IsEntry
  <2>2. sub.queue[1].seq \in Nat /\ sub.queue[1].seq <= Announced
    BY <2>1, EntrySeqs DEF OrderInv
  <2>3. sub.last + 1 \in 1..Announced /\ sub.last + 1 > sub.last /\ sub.last + 1 > sub.upto
    BY <1>1, <1>2, <1>3, <1>4, <2>2
  <2>4. PICK i \in 1..Len(sub.queue) : sub.queue[i] = [kind |-> "entry", seq |-> sub.last + 1]
    BY <1>1, <2>3 DEF ReachInv
  <2>5. i # 1
    BY <1>1, <1>2, <1>4, <2>2, <2>4
  <2>6. IsEntry(i) /\ 1 < i /\ sub.queue[i].seq = sub.last + 1
    BY <1>2, <2>4, <2>5 DEF IsEntry
  <2>7. sub.queue[1].seq < sub.last + 1
    BY <2>1, <2>6 DEF OrderInv
  <2>8. QED
    BY <1>1, <1>2, <1>4, <2>2, <2>7
<1>5. QED
  BY <1>1, <1>2, <1>3, <1>4, EntrySeqs DEF IsEntry

LEMMA TakeOrder ==
  ASSUME Typed, StoreInv, OrderInv, ReachInv, UptoInv, Take
  PROVE  OrderInv' /\ ReachInv'
<1>1. TakesSub /\ UNCHANGED <<log, sessionVars>>
  BY TakeSubFacts DEF Take
<1>2. Announced' = Announced /\ Announced \in Nat
  BY <1>1, AnnouncedKept, AnnouncedFacts, TypedUse
<1>3. sub.queue # <<>> /\ sub.queue \in Seq(Item) /\ sub.stage = "live" /\ sub.last \in Nat
  BY SubUse DEF Take, Streaming
<1>4. PICK q \in Seq(Item) : q = Tail(sub.queue) /\ Len(q) = Len(sub.queue) - 1 /\ \A i \in 1..Len(q) : q[i] = sub.queue[i + 1]
  BY <1>3, TailFacts
<1>5. sub'.queue = q /\ Len(sub.queue) \in Nat \ {0} /\ Head(sub.queue) = sub.queue[1] /\ Len(q) \in Nat
  BY <1>1, <1>3, <1>4, TailFacts DEF TakesSub
<1>6. \A i \in 1..Len(q) : i + 1 \in 1..Len(sub.queue) /\ q[i] = sub.queue[i + 1]
  BY <1>4, <1>5
<1>7. OrderInv'
  <2>1. ASSUME NEW i \in 1..Len(q), NEW j \in 1..Len(q), q[i].kind = "entry", q[j].kind = "entry", i < j
        PROVE  q[i].seq < q[j].seq
    <3>1. i + 1 < j + 1 /\ IsEntry(i + 1) /\ IsEntry(j + 1)
      BY <1>6, <2>1 DEF IsEntry
    <3>2. QED
      BY <1>6, <3>1 DEF OrderInv
  <2>2. ASSUME NEW i \in 1..Len(q), q[i].kind = "entry" PROVE q[i].seq <= Announced
    BY <1>6, <2>2 DEF OrderInv, IsEntry
  <2>3. QED
    BY <1>2, <1>5, <2>1, <2>2 DEF OrderInv, IsEntry
<1>8. ReachInv'
  <2>1. SUFFICES ASSUME NEW n \in 1..Announced, n > sub'.last, n > sub'.upto
                 PROVE  \E i \in 1..Len(q) : q[i] = [kind |-> "entry", seq |-> n]
    BY <1>2, <1>5 DEF ReachInv
  <2>2. sub'.upto = sub.upto /\ ~sub.ended
    BY <1>1, NextEntry DEF TakesSub
  <2>3. 1 \in 1..Len(sub.queue) /\ (IsEntry(1) => sub.queue[1].seq \in Nat)
    BY <1>5, EntrySeqs
  <2>4. n > sub.last /\ (IsEntry(1) => n # sub.queue[1].seq)
    <3>1. CASE IsEntry(1)
      <4>1. sub'.last = IF sub.queue[1].seq > sub.last THEN sub.queue[1].seq ELSE sub.last
        BY <1>1, <1>5, <3>1 DEF TakesSub, IsEntry
      <4>2. QED
        BY <1>2, <1>3, <2>1, <2>3, <3>1, <4>1
    <3>2. CASE ~IsEntry(1)
      BY <1>1, <1>5, <2>1, <3>2 DEF TakesSub, IsEntry
    <3>3. QED
      BY <3>1, <3>2
  <2>5. PICK i \in 1..Len(sub.queue) : sub.queue[i] = [kind |-> "entry", seq |-> n]
    BY <1>3, <2>1, <2>2, <2>4 DEF ReachInv
  <2>6. i # 1
    BY <2>4, <2>5 DEF IsEntry
  <2>7. i - 1 \in 1..Len(q) /\ (i - 1) + 1 = i
    BY <1>4, <1>5, <2>6
  <2>8. q[i - 1] = sub.queue[i]
    BY <1>6, <2>7
  <2>9. QED
    BY <2>5, <2>7, <2>8
<1>9. QED
  BY <1>7, <1>8

LEMMA OpeningMoves ==
  ASSUME Typed
  PROVE  /\ Read => /\ sub.stage = "subscribed" /\ sub'.stage = "entries" /\ sub'.upto = Len(log)
                    /\ sub'.last = sub.last
         /\ SendEntries => /\ sub.stage = "entries" /\ sub'.stage = "draft" /\ sub'.upto = 0
                           /\ sub'.last = IF sub.upto > sub.last THEN sub.upto ELSE sub.last
         /\ SendDraft => sub.stage = "draft" /\ sub'.stage = "queue" /\ sub'.life = lives
         /\ SendQueue => sub.stage = "queue" /\ sub'.stage = "status" /\ sub'.life = sub.life
         /\ SendStatus => sub.stage = "status" /\ sub'.stage = "live"
         /\ SendDraft \/ SendQueue \/ SendStatus => sub'.upto = sub.upto /\ sub'.last = sub.last
<1>1. sub \in Streams
  BY SubUse
<1>2. ASSUME Read PROVE /\ sub.stage = "subscribed" /\ sub'.stage = "entries" /\ sub'.upto = Len(log)
                        /\ sub'.last = sub.last
  BY <1>1, <1>2 DEF Read, Streaming, Streams
<1>3. ASSUME SendEntries
      PROVE /\ sub.stage = "entries" /\ sub'.stage = "draft" /\ sub'.upto = 0
            /\ sub'.last = IF sub.upto > sub.last THEN sub.upto ELSE sub.last
  <2>1. sub' = [sub EXCEPT !.stage = "draft", !.last = IF sub.upto > @ THEN sub.upto ELSE @, !.upto = 0]
        /\ sub.stage = "entries"
    BY <1>3 DEF SendEntries, Streaming
  <2>2. QED
    BY <1>1, <2>1 DEF Streams
<1>4. ASSUME SendDraft PROVE /\ sub.stage = "draft" /\ sub'.stage = "queue" /\ sub'.life = lives
                             /\ sub'.upto = sub.upto /\ sub'.last = sub.last
  BY <1>1, <1>4 DEF SendDraft, Streaming, Streams
<1>5. ASSUME SendQueue PROVE /\ sub.stage = "queue" /\ sub'.stage = "status" /\ sub'.life = sub.life
                             /\ sub'.upto = sub.upto /\ sub'.last = sub.last
  BY <1>1, <1>5 DEF SendQueue, Streaming, Streams
<1>6. ASSUME SendStatus PROVE sub.stage = "status" /\ sub'.stage = "live" /\ sub'.upto = sub.upto /\ sub'.last = sub.last
  <2>1. sub' = [sub EXCEPT !.stage = "live", !.status = LiveStatus, !.life = 0, !.bare = lives # sub.life]
        /\ sub.stage = "status"
    BY <1>6 DEF SendStatus, Streaming
  <2>2. PICK st, b : sub' = [sub EXCEPT !.stage = "live", !.status = st, !.life = 0, !.bare = b]
    BY <2>1
  <2>3. sub'.stage = "live" /\ sub'.upto = sub.upto /\ sub'.last = sub.last
    BY <1>1, <2>2 DEF Streams
  <2>4. QED
    BY <2>1, <2>3
<1>7. QED
  BY <1>2, <1>3, <1>4, <1>5, <1>6

LEMMA OpenFacts ==
  ASSUME Typed, Open
  PROVE  /\ sub.stage = "off" /\ sub'.stage = "subscribed" /\ sub'.queue = <<>> /\ sub'.upto = 0 /\ ~sub'.ended
         /\ sub'.last = IF panel.cursor # 0 THEN panel.cursor ELSE panel.after
         /\ panel'.entries = panel.entries /\ panel'.cursor = panel.cursor /\ panel'.after = panel.after
         /\ panel'.holed = panel.holed /\ panel'.tray = panel.tray /\ panel'.gate = panel.gate
<1>1. /\ sub' = [NoSub EXCEPT !.stage = "subscribed", !.chan = IF Resident THEN channel ELSE SessionChannel,
                              !.last = IF panel.cursor # 0 THEN panel.cursor ELSE panel.after]
      /\ panel' = [panel EXCEPT !.up = TRUE] /\ ~panel.up
  BY DEF Open
<1>2. panel \in Panels /\ sub.stage = "off"
  BY <1>1, PanelUse
<1>3. /\ sub'.stage = "subscribed" /\ sub'.queue = <<>> /\ sub'.upto = 0 /\ ~sub'.ended
      /\ sub'.last = IF panel.cursor # 0 THEN panel.cursor ELSE panel.after
  BY <1>1 DEF NoSub
<1>4. QED
  BY <1>1, <1>2, <1>3 DEF Panels

LEMMA StreamOff ==
  ASSUME End \/ Break \/ Reload
  PROVE  sub' = NoSub /\ UNCHANGED <<log, sessionVars>>
BY DEF End, Break, Reload, Outlive

LEMMA OrderStep ==
  ASSUME Typed, Typed', StoreInv, StoreInv', ChanInv, OrderInv, ReachInv, UptoInv, Next
  PROVE  OrderInv' /\ ReachInv' /\ UptoInv'
<1>0. Announced \in 0..Len(log) /\ Len(log) \in Nat /\ sub.last \in Nat /\ sub.upto \in Nat
  BY AnnouncedFacts, TypedUse, SubUse
<1>1. CASE Session
  <2>1. sub'.stage = sub.stage /\ sub'.upto = sub.upto
    BY <1>1, SessionHears, HearsKeeps
  <2>2. QED
    BY <1>1, <2>1, SessionOrder DEF UptoInv
<1>2. CASE Read \/ SendEntries \/ SendDraft \/ SendQueue \/ SendStatus
  <2>1. /\ sub'.queue = sub.queue /\ sub'.ended = sub.ended
    BY <1>2, OpeningKeeps
  <2>2. Announced' = Announced
    BY <1>2, AnnouncedKept DEF Read, SendEntries, SendDraft, SendQueue, SendStatus
  <2>3. OrderInv'
    BY <2>1, <2>2 DEF OrderInv, IsEntry
  <2>4. UptoInv'
    BY <1>2, OpeningMoves DEF UptoInv
  <2>5. CASE Read
    <3>1. sub'.upto = Len(log)
      BY <2>5, OpeningMoves
    <3>2. \A n \in 1..Announced' : ~(n > sub'.upto)
      BY <1>0, <2>2, <3>1
    <3>3. QED
      BY <2>3, <2>4, <3>2 DEF ReachInv
  <2>6. CASE SendEntries
    <3>1. /\ sub.stage = "entries" /\ sub'.upto = 0
          /\ sub'.last = IF sub.upto > sub.last THEN sub.upto ELSE sub.last
      BY <2>6, OpeningMoves
    <3>2. \A n \in Nat : n > sub'.last => n > sub.last /\ n > sub.upto
      BY <1>0, <3>1
    <3>3. ReachInv'
      BY <2>1, <2>2, <3>1, <3>2 DEF ReachInv
    <3>4. QED
      BY <2>3, <2>4, <3>3
  <2>7. CASE SendDraft \/ SendQueue \/ SendStatus
    <3>1. sub.stage \notin {"off", "subscribed"} /\ sub'.upto = sub.upto /\ sub'.last = sub.last
      BY <2>7, OpeningMoves
    <3>2. ReachInv'
      BY <2>1, <2>2, <3>1 DEF ReachInv
    <3>3. QED
      BY <2>3, <2>4, <3>2
  <2>8. QED
    BY <1>2, <2>5, <2>6, <2>7
<1>3. CASE Take
  <2>1. sub'.upto = sub.upto /\ sub'.stage = "live" /\ sub.stage = "live"
    BY <1>3, TakeSubFacts DEF TakesSub, Take, Streaming
  <2>2. QED
    BY <1>3, <2>1, TakeOrder DEF UptoInv
<1>4. CASE Heartbeat
  <2>1. /\ sub'.queue = sub.queue /\ sub'.stage = sub.stage /\ sub'.ended = sub.ended /\ sub'.upto = sub.upto
        /\ sub'.last = sub.last
    BY <1>4, HeartbeatFacts
  <2>2. Announced' = Announced
    BY <1>4, AnnouncedKept DEF Heartbeat
  <2>3. QED
    BY <2>1, <2>2 DEF OrderInv, ReachInv, UptoInv, IsEntry
<1>5. CASE End \/ Break \/ Reload
  <2>1. sub' = NoSub
    BY <1>5, StreamOff
  <2>2. Len(sub'.queue) = 0 /\ sub'.stage = "off" /\ sub'.upto = 0
    BY <2>1, NoSubFacts
  <2>3. QED
    BY <2>2 DEF OrderInv, ReachInv, UptoInv
<1>6. CASE Open
  <2>1. Len(sub'.queue) = 0 /\ sub'.stage = "subscribed" /\ sub'.upto = 0
    BY <1>6, OpenFacts
  <2>2. QED
    BY <2>1 DEF OrderInv, ReachInv, UptoInv
<1>7. ASSUME Unsubscribe \/ \E n \in DOMAIN log : RetryAnswered(n) PROVE OrderInv' /\ ReachInv' /\ UptoInv'
  <2>1. UNCHANGED <<log, sessionVars, sub>>
    BY <1>7 DEF Unsubscribe, RetryAnswered
  <2>2. Announced' = Announced
    BY <2>1, AnnouncedKept
  <2>3. QED
    BY <2>1, <2>2 DEF OrderInv, ReachInv, UptoInv, IsEntry
<1>8. QED
  BY <1>1, <1>2, <1>3, <1>4, <1>5, <1>6, <1>7 DEF Next, Stream, Panel

LEMMA LogGrows ==
  ASSUME Typed, Session
  PROVE  Len(log) <= Len(log')
<1>1. log' = log \/ \E x : log' = Append(log, x)
  BY DEF Session, Inbox, Send, Resend, Register, Settle, Produce, AnnounceEntry, Discard, Delta, CliResumes,
     AnnounceResumed, Idle, Exit, AnnounceStatus, Leave, Left, Connect, Connected, ConnectFails
<1>2. CASE log' = log
  BY <1>2, TypedUse
<1>3. CASE log' # log
  <2>1. PICK x : log' = Append(log, x)
    BY <1>1, <1>3
  <2>2. Len(log') = Len(log) + 1
    BY <2>1, TypedUse
  <2>3. QED
    BY <2>2, TypedUse
<1>4. QED
  BY <1>2, <1>3

\* The panel has the entries up to the k-th, and what it and its stream remember is among them.
Whole(k) == panel.entries = 1..k /\ panel.cursor <= k /\ panel.after <= k /\ sub.last <= k

LEMMA WholeStep ==
  ASSUME Typed, Typed', StoreInv, OrderInv, ReachInv, UptoInv, WholeInv, Next
  PROVE  WholeInv'
<1>0. /\ Len(log) \in Nat /\ sub.last \in Nat /\ sub.upto \in 0..Len(log) /\ panel.cursor \in Nat /\ panel.after \in Nat
  BY TypedUse, SubUse, PanelUse
<1>1. CASE Session
  <2>1. sub'.last = sub.last /\ panel' = panel /\ Len(log) <= Len(log')
    BY <1>1, SessionHears, HearsKeeps, LogGrows
  <2>2. Len(log') \in Nat
    BY TypedUse, SubUse DEF Typed, LogOK
  <2>3. QED
    BY <1>0, <2>1, <2>2 DEF WholeInv
<1>2. ASSUME log' = log, panel'.holed = panel.holed,
             \A k \in 0..Len(log) : Whole(k) => \E j \in 0..Len(log) : Whole(j)'
      PROVE  WholeInv'
  BY <1>2 DEF WholeInv, Whole
<1>3. ASSUME panel'.entries = panel.entries, panel'.cursor = panel.cursor, panel'.after = panel.after,
             panel'.holed = panel.holed, sub'.last \in {sub.last, 0}, log' = log
      PROVE  WholeInv'
  BY <1>0, <1>3 DEF WholeInv
<1>4. CASE Read \/ SendDraft \/ SendQueue \/ SendStatus
  <2>1. sub'.last = sub.last /\ log' = log
    BY <1>4, OpeningMoves DEF Read, SendDraft, SendQueue, SendStatus
  <2>2. /\ panel'.entries = panel.entries /\ panel'.cursor = panel.cursor /\ panel'.after = panel.after
        /\ panel'.holed = panel.holed
    BY <1>4, PanelUse DEF Read, SendDraft, SendQueue, SendStatus, Panels
  <2>3. QED
    BY <1>3, <2>1, <2>2
<1>5. CASE SendEntries
  <2>1. /\ sub'.last = IF sub.upto > sub.last THEN sub.upto ELSE sub.last
    BY <1>5, OpeningMoves
  <2>2. Sends(sub.upto, panel')
    BY <1>0, <1>5, SendUpToFacts DEF SendEntries
  <2>3. /\ panel'.holed = panel.holed /\ panel'.after = panel.after
        /\ panel'.cursor = IF sub.upto > sub.last THEN sub.upto ELSE panel.cursor
    BY <2>2 DEF Sends, Kept
  <2>4. ASSUME NEW k \in 0..Len(log), Whole(k) PROVE \E j \in 0..Len(log) : Whole(j)'
    <3>1. panel'.entries = 1..(IF sub.upto > k THEN sub.upto ELSE k)
      BY <2>2, <2>4 DEF Sends, Whole
    <3>2. PICK j \in 0..Len(log) : j = IF sub.upto > k THEN sub.upto ELSE k
      BY <1>0
    <3>3. sub'.last <= j /\ panel'.cursor <= j /\ panel'.after <= j
      BY <1>0, <2>1, <2>3, <2>4, <3>2 DEF Whole
    <3>4. QED
      BY <3>1, <3>2, <3>3 DEF Whole
  <2>5. log' = log
    BY <1>5 DEF SendEntries
  <2>6. QED
    BY <1>2, <2>3, <2>4, <2>5
<1>6. CASE Take
  <2>1. /\ Takes(Before, Head(sub.queue), sub.last, panel') /\ Head(sub.queue) \in Item
        /\ Head(sub.queue).kind = "entry" => Head(sub.queue).seq \in 1..Len(log)
    BY <1>6, LoggedFacts, TakeFacts
  <2>2. /\ Before.entries = panel.entries /\ Before.cursor = panel.cursor /\ Before.after = panel.after
        /\ Before.holed = panel.holed
    BY BeforeFacts
  <2>3. panel'.after = panel.after /\ panel'.holed = panel.holed
    BY <2>1, <2>2 DEF Takes
  <2>4. /\ sub'.last = IF Head(sub.queue).kind = "entry" /\ Head(sub.queue).seq > sub.last THEN Head(sub.queue).seq
                       ELSE sub.last
    BY <1>6, TakeSubFacts DEF TakesSub
  <2>5. log' = log
    BY <1>6 DEF Take
  <2>6. CASE Head(sub.queue).kind # "entry"
    <3>1. panel'.entries = panel.entries /\ panel'.cursor = panel.cursor
      BY <2>1, <2>2, <2>6 DEF Takes
    <3>2. QED
      BY <1>3, <2>3, <2>4, <2>5, <2>6, <3>1
  <2>7. CASE Head(sub.queue).kind = "entry" /\ Head(sub.queue).seq <= sub.last
    <3>1. panel' = Before /\ sub'.last = sub.last
      BY <1>0, <2>1, <2>4, <2>7 DEF Takes
    <3>2. QED
      BY <1>3, <2>2, <2>3, <2>5, <3>1
  <2>8. CASE Head(sub.queue).kind = "entry" /\ Head(sub.queue).seq > sub.last
    <3> DEFINE n == Head(sub.queue).seq
    <3>1. n = sub.last + 1 /\ n \in 1..Len(log)
      BY <1>0, <1>6, <2>1, <2>8, NextEntry
    <3>2. panel'.cursor = n /\ sub'.last = n
      BY <2>1, <2>4, <2>8 DEF Takes
    <3>3. /\ \A k \in Nat : panel.entries = 1..k /\ n = k + 1 => panel'.entries = 1..n
          /\ \A k \in Nat : panel.entries = 1..k /\ n <= k => panel'.entries = panel.entries
      BY <2>1, <2>2, <2>8 DEF Takes
    <3> HIDE DEF n
    <3>4. ASSUME ~panel.holed PROVE \E j \in 0..Len(log) : Whole(j)'
      <4>1. PICK k \in 0..Len(log) : Whole(k)
        BY <3>4 DEF WholeInv, Whole
      <4>2. CASE n <= k
        <5>1. panel'.entries = 1..k
          BY <3>3, <4>1, <4>2 DEF Whole
        <5>2. panel'.cursor <= k /\ panel'.after <= k /\ sub'.last <= k
          BY <2>3, <3>2, <4>1, <4>2 DEF Whole
        <5>3. QED
          BY <5>1, <5>2 DEF Whole
      <4>3. CASE n > k
        <5>1. n = k + 1 /\ panel.after <= n
          BY <1>0, <3>1, <4>1, <4>3 DEF Whole
        <5>2. panel'.entries = 1..n
          BY <3>3, <4>1, <5>1 DEF Whole
        <5>3. n <= n /\ n \in 0..Len(log)
          BY <1>0, <3>1
        <5>4. QED
          BY <2>3, <3>2, <5>1, <5>2, <5>3 DEF Whole
      <4>4. QED
        BY <1>0, <3>1, <4>2, <4>3
    <3>5. QED
      BY <2>3, <2>5, <3>4 DEF WholeInv, Whole
  <2>9. QED
    BY <1>0, <2>1, <2>6, <2>7, <2>8
<1>7. CASE Heartbeat
  <2>1. log' = log
    BY <1>7 DEF Heartbeat
  <2>2. QED
    BY <1>3, <1>7, <2>1, HeartbeatFacts
<1>8. CASE End
  <2>1. panel' = [panel EXCEPT !.up = FALSE] /\ log' = log
    BY <1>8 DEF End
  <2>2. /\ panel'.entries = panel.entries /\ panel'.cursor = panel.cursor /\ panel'.after = panel.after
        /\ panel'.holed = panel.holed
    BY <2>1, PanelUse DEF Panels
  <2>3. sub'.last = 0
    BY <1>8, StreamOff, NoSubFacts
  <2>4. QED
    BY <1>3, <2>1, <2>2, <2>3
<1>9. CASE Break
  <2>1. sub'.last = 0 /\ log' = log
    BY <1>9, StreamOff, NoSubFacts
  <2>2. panel'.after = panel.after /\ panel'.holed = panel.holed
    BY <1>9, BreakFacts
  <2>3. CASE panel'.entries = panel.entries /\ panel'.cursor = panel.cursor
    BY <1>3, <2>1, <2>2, <2>3
  <2>4. CASE \E n \in 0..Len(log) :
               /\ panel'.cursor = n /\ n > sub.last
               /\ \A k \in Nat : panel.entries = 1..k /\ sub.last <= k =>
                    panel'.entries = 1..(IF n > k THEN n ELSE k)
    <3>1. PICK n \in 0..Len(log) :
               /\ panel'.cursor = n /\ n > sub.last
               /\ \A k \in Nat : panel.entries = 1..k /\ sub.last <= k =>
                    panel'.entries = 1..(IF n > k THEN n ELSE k)
      BY <2>4
    <3>2. ASSUME ~panel.holed PROVE \E j \in 0..Len(log) : Whole(j)'
      <4>1. PICK k \in 0..Len(log) : Whole(k)
        BY <3>2 DEF WholeInv, Whole
      <4>2. PICK j \in 0..Len(log) : j = IF n > k THEN n ELSE k
        BY <1>0
      <4>3. panel'.entries = 1..j
        BY <3>1, <4>1, <4>2 DEF Whole
      <4>4. panel'.cursor <= j /\ panel'.after <= j /\ sub'.last <= j
        BY <1>0, <2>1, <2>2, <3>1, <4>1, <4>2 DEF Whole
      <4>5. QED
        BY <4>3, <4>4 DEF Whole
    <3>3. QED
      BY <2>1, <2>2, <3>2 DEF WholeInv, Whole
  <2>5. QED
    BY <1>9, <2>3, <2>4, BreakFacts
<1>10. CASE Reload
  <2>1. PICK k \in 0..Len(log) : panel'.entries = 1..k /\ panel'.cursor = 0 /\ panel'.after = k
    BY <1>10, ReloadFacts
  <2>2. sub'.last = 0 /\ log' = log
    BY <1>10, StreamOff, NoSubFacts
  <2>3. 0 <= k /\ k <= k
    BY <1>0
  <2>4. QED
    BY <2>1, <2>2, <2>3 DEF WholeInv
<1>11. CASE Open
  <2>1. /\ panel'.entries = panel.entries /\ panel'.cursor = panel.cursor /\ panel'.after = panel.after
        /\ panel'.holed = panel.holed /\ sub'.last \in {panel.cursor, panel.after} /\ log' = log
    BY <1>11, OpenFacts DEF Open
  <2>2. QED
    BY <2>1 DEF WholeInv
<1>12. CASE Unsubscribe
  BY <1>12 DEF Unsubscribe, WholeInv
<1>13. ASSUME NEW n \in DOMAIN log, RetryAnswered(n) PROVE WholeInv'
  <2>1. sub' = sub /\ log' = log
    BY <1>13 DEF RetryAnswered
  <2>2. /\ panel'.cursor = panel.cursor /\ panel'.after = panel.after
        /\ \/ panel'.holed
           \/ /\ panel'.holed = panel.holed
              /\ \A k \in Nat : panel.entries = 1..k =>
                   \E j \in 0..Len(log) : k <= j /\ panel'.entries = 1..j
    BY <1>13, RetryFacts
  <2>3. ASSUME ~panel'.holed PROVE \E j \in 0..Len(log) : Whole(j)'
    <3>1. ~panel.holed
      BY <2>2, <2>3
    <3>2. PICK k \in 0..Len(log) : Whole(k)
      BY <3>1 DEF WholeInv, Whole
    <3>3. PICK j \in 0..Len(log) : k <= j /\ panel'.entries = 1..j
      BY <2>2, <2>3, <3>2 DEF Whole
    <3>4. panel'.cursor <= j /\ panel'.after <= j /\ sub'.last <= j
      BY <1>0, <2>1, <2>2, <3>2, <3>3 DEF Whole
    <3>5. QED
      BY <3>3, <3>4 DEF Whole
  <2>4. QED
    BY <2>1, <2>3 DEF WholeInv, Whole
<1>14. QED
  BY <1>1, <1>4, <1>5, <1>6, <1>7, <1>8, <1>9, <1>10, <1>11, <1>12, <1>13 DEF Next, Stream, Panel

-----------------------------------------------------------------------------
(* A removal follows an upsert of what is in the tray no more.             *)
Held(m) == tray[m] # "out" \/ detached[m] # "out"
RemovedAfter(i, m) == \E j \in 1..Len(sub.queue) : i < j /\ sub.queue[j] = Removal(m)

UpsertInv ==
  \A i \in 1..Len(sub.queue) : sub.queue[i].kind = "upsert" =>
    Held(sub.queue[i].msg) \/ RemovedAfter(i, sub.queue[i].msg)

SeenInv ==
  sub.stage \in {"status", "live"} /\ ~sub.ended =>
    \A m \in Msg : panel.tray[m] # "out" /\ InLog(m) =>
      tray[m] # "out" \/ \E i \in 1..Len(sub.queue) : sub.queue[i] = Removal(m)

\* What leaves the tray is said to leave it, and what is said to be there is there.
Covers(items) ==
  /\ items \in Seq(Item) /\ Said(items)
  /\ \A m \in Msg : Held(m) /\ ~Held(m)' => \E k \in 1..Len(items) : items[k] = Removal(m)
  /\ \A k \in 1..Len(items) : items[k].kind = "upsert" => Held(items[k].msg)'
  /\ \A m \in Msg : InLog(m)' /\ ~InLog(m) => tray'[m] # "out"
  /\ \A m \in Msg : InLog(m)' /\ tray[m] # "out" /\ tray'[m] = "out" => \E k \in 1..Len(items) : items[k] = Removal(m)

LEMMA SaidOne ==
  ASSUME Typed, ChanInv, Resident, NEW x \in Item, Broadcast(channel, <<x>>)
  PROVE  \E items \in Seq(Item) : Said(items) /\ Len(items) = 1 /\ items[1] = x
<1>1. <<x>> \in Seq(Item) /\ Len(<<x>>) = 1 /\ <<x>>[1] = x
  BY OneItem
<1>2. Said(<<x>>)
  BY <1>1, SaidOnChannel
<1>3. QED
  BY <1>1, <1>2

LEMMA CoversNothing ==
  ASSUME Typed, sub' = sub, \A m \in Msg : Held(m) => Held(m)', \A m \in Msg : InLog(m)' /\ ~InLog(m) => tray'[m] # "out",
         \A m \in Msg : InLog(m)' /\ tray[m] # "out" => tray'[m] # "out"
  PROVE  \E items : Covers(items)
<1>1. <<>> \in Seq(Item) /\ Said(<<>>) /\ Len(<<>>) = 0
  BY NothingSaid
<1>2. Covers(<<>>)
  BY <1>1 DEF Covers
<1>3. QED
  BY <1>2

LEMMA SessionCovers ==
  ASSUME Typed, Typed', StoreInv, TrayInv, TrayInv', ChanInv, Session
  PROVE  \E items : Covers(items)
<1>1. ASSUME NEW m \in Msg, Send(m) \/ Resend(m) PROVE \E items : Covers(items)
  <2>1. Resident /\ UNCHANGED <<log, detached>> /\ Broadcast(channel, <<Upsert(m, "queued")>>)
        /\ tray' = [tray EXCEPT ![m] = "queued"]
    BY <1>1 DEF Send, Resend, Register, Resident
  <2>2. Upsert(m, "queued") \in Item /\ Upsert(m, "queued").kind = "upsert" /\ Upsert(m, "queued").msg = m
    BY ItemFacts DEF Upsert
  <2>3. PICK items \in Seq(Item) : Said(items) /\ Len(items) = 1 /\ items[1] = Upsert(m, "queued")
    BY <2>1, <2>2, SaidOne
  <2>4. tray'[m] # "out" /\ \A k \in Msg : tray[k] # "out" => tray'[k] # "out"
    BY <2>1, TypedUse
  <2>5. \A k \in Msg : (Held(k) => Held(k)') /\ (InLog(k)' <=> InLog(k))
    BY <2>1, <2>4 DEF Held, InLog
  <2>6. Held(m)'
    BY <2>4 DEF Held
  <2>7. \A k \in 1..Len(items) : k = 1
    BY <2>3
  <2>8. Covers(items)
    BY <2>2, <2>3, <2>4, <2>5, <2>6, <2>7 DEF Covers
  <2>9. QED
    BY <2>8
<1>2. ASSUME NEW m \in Msg, Settle(m) PROVE \E items : Covers(items)
  <2>1. UNCHANGED <<tray, detached, sub>> /\ tray[m] = "queued" /\ (log' = log \/ log' = Append(log, m))
    BY <1>2 DEF Settle
  <2>2. \A k \in Msg : InLog(k)' => InLog(k) \/ k = m
    <3>1. CASE log' = Append(log, m)
      BY <3>1, InLogGrows
    <3>2. CASE log' = log
      BY <3>2 DEF InLog
    <3>3. QED
      BY <2>1, <3>1, <3>2
  <2>3. QED
    BY <2>1, <2>2, CoversNothing DEF Held
<1>3. CASE Produce
  <2>1. UNCHANGED <<tray, detached, sub>> /\ log' = Append(log, Output)
    BY <1>3 DEF Produce
  <2>2. \A k \in Msg : InLog(k)' => InLog(k)
    BY <2>1, InLogGrows, NoneFacts
  <2>3. QED
    BY <2>1, <2>2, CoversNothing DEF Held
<1>4. CASE AnnounceEntry
  <2>1. /\ writing # None /\ writing.kind = "entry" /\ UNCHANGED <<log, detached>> /\ Resident
        /\ Broadcast(channel, EntryItems)
        /\ tray' = IF writing.msg # None /\ writing.msg \in InTray THEN [tray EXCEPT ![writing.msg] = "out"] ELSE tray
    BY <1>4 DEF AnnounceEntry, EntryItems, StoreInv, Resident
  <2>2. PICK items \in Seq(Item) : items = EntryItems /\ Said(items)
    BY <2>1, EntryItemsFacts, SaidOnChannel
  <2>3. \A k \in 1..Len(items) : items[k].kind # "upsert"
    <3>1. Removal(writing.msg).kind = "remove"
      BY DEF Removal
    <3>2. QED
      BY <2>1, <2>2, <3>1, EntryItemsParts
  <2>4. \A k \in Msg : tray[k] # "out" /\ tray'[k] = "out" => k = writing.msg /\ writing.msg # None /\ writing.msg \in InTray
    BY <2>1, TypedUse, NoneFacts DEF InTray
  <2>5. \A k \in Msg : tray[k] # "out" /\ tray'[k] = "out" => \E i \in 1..Len(items) : items[i] = Removal(k)
    BY <2>1, <2>2, <2>4, EntryItemsParts
  <2>6. \A k \in Msg : InLog(k)' <=> InLog(k)
    BY <2>1 DEF InLog
  <2>7. \A k \in Msg : Held(k) /\ ~Held(k)' => tray[k] # "out" /\ tray'[k] = "out"
    BY <2>1 DEF Held
  <2>8. Covers(items)
    BY <2>2, <2>3, <2>5, <2>6, <2>7 DEF Covers
  <2>9. QED
    BY <2>8
<1>5. ASSUME NEW m \in Msg, Discard(m) PROVE \E items : Covers(items)
  <2>1. Resident /\ UNCHANGED <<log, detached>> /\ Broadcast(channel, <<Removal(m)>>) /\ tray' = [tray EXCEPT ![m] = "out"]
    BY <1>5 DEF Discard, Resident
  <2>2. Removal(m) \in Item /\ Removal(m).kind = "remove"
    BY ItemFacts DEF Removal
  <2>3. PICK items \in Seq(Item) : Said(items) /\ Len(items) = 1 /\ items[1] = Removal(m)
    BY <2>1, <2>2, SaidOne
  <2>4. \A k \in Msg : tray[k] # "out" /\ tray'[k] = "out" => k = m
    BY <2>1, TypedUse
  <2>5. \A k \in Msg : InLog(k)' <=> InLog(k)
    BY <2>1 DEF InLog
  <2>6. \A k \in Msg : Held(k) /\ ~Held(k)' => tray[k] # "out" /\ tray'[k] = "out"
    BY <2>1 DEF Held
  <2>7. 1 \in 1..Len(items) /\ \A k \in 1..Len(items) : k = 1
    BY <2>3
  <2>8. Covers(items)
    BY <2>2, <2>3, <2>4, <2>5, <2>6, <2>7 DEF Covers
  <2>9. QED
    BY <2>8
<1>6. ASSUME NEW items \in Seq(Item), Said(items), \A k \in 1..Len(items) : items[k].kind # "upsert",
             UNCHANGED <<log, tray, detached>>
      PROVE  \E any : Covers(any)
  <2>1. \A k \in Msg : (InLog(k)' <=> InLog(k)) /\ (Held(k)' <=> Held(k))
    BY <1>6 DEF InLog, Held
  <2>2. Covers(items)
    BY <1>6, <2>1 DEF Covers
  <2>3. QED
    BY <2>2
<1>7. ASSUME NEW x \in Item, x.kind # "upsert", Resident, Broadcast(channel, <<x>>), UNCHANGED <<log, tray, detached>>
      PROVE  \E any : Covers(any)
  <2>1. PICK items \in Seq(Item) : Said(items) /\ Len(items) = 1 /\ items[1] = x
    BY <1>7, SaidOne
  <2>2. \A k \in 1..Len(items) : items[k].kind # "upsert"
    BY <1>7, <2>1
  <2>3. QED
    BY <1>6, <1>7, <2>1, <2>2
<1>8. CASE Delta
  <2>1. Resident /\ UNCHANGED <<log, tray, detached>> /\ Broadcast(channel, <<[kind |-> "delta", rev |-> rev']>>)
    BY <1>8 DEF Delta, Resident
  <2>2. rev' \in 1..MaxRev
    BY <1>8, TypedUse, NoneFacts DEF Delta
  <2>3. PICK x \in Item : x = [kind |-> "delta", rev |-> rev'] /\ x.kind # "upsert"
    BY <2>2, ItemFacts
  <2>4. QED
    BY <1>7, <2>1, <2>3
<1>9. CASE AnnounceResumed
  <2>1. Resident /\ UNCHANGED <<log, tray, detached>> /\ Broadcast(channel, <<Status("running")>>)
    BY <1>9 DEF AnnounceResumed, Resident
  <2>2. Status("running") \in Item /\ Status("running").kind # "upsert"
    BY ItemFacts DEF Status
  <2>3. QED
    BY <1>7, <2>1, <2>2
<1>10. CASE AnnounceStatus
  <2>1. writing \in Written /\ Resident /\ UNCHANGED <<log, tray, detached>>
    BY <1>10, TypedUse DEF AnnounceStatus, StoreInv, Resident, Stored
  <2>2. writing.status \in {"idle", "error"}
    BY <2>1 DEF Written
  <2>3. Status(writing.status) \in Item /\ Status(writing.status).kind # "upsert"
    BY <2>2, ItemFacts DEF Status
  <2>4. sub' = sub \/ Broadcast(channel, <<Status(writing.status)>>)
    BY <1>10 DEF AnnounceStatus
  <2>5. CASE sub' = sub
    BY <2>1, <2>5, CoversNothing DEF Held, InLog
  <2>6. QED
    BY <1>7, <2>1, <2>3, <2>4, <2>5
<1>11. CASE CliResumes \/ Idle \/ Connect
  <2>1. UNCHANGED <<log, tray, detached, sub>>
    BY <1>11 DEF CliResumes, Idle, Connect
  <2>2. QED
    BY <2>1, CoversNothing DEF Held, InLog
<1>12. CASE Exit
  <2> DEFINE S == {m \in Msg : tray[m] = "queued"}
  <2>1. S \in SUBSET Msg
    OBVIOUS
  <2>2. PICK items \in Seq(Item) :
          /\ items = Each(S, LAMBDA m : Upsert(m, "unsent"))
          /\ \A i \in 1..Len(items) : items[i] \in {Upsert(m, "unsent") : m \in S}
    BY <2>1, EachFacts
  <2>3. Resident /\ Broadcast(channel, items) /\ UNCHANGED <<log, detached>>
        /\ tray' = [m \in Msg |-> IF tray[m] = "queued" THEN "unsent" ELSE tray[m]]
    BY <1>12, <2>2 DEF Exit, Resident
  <2>4. Said(items)
    BY <2>2, <2>3, SaidOnChannel
  <2>5. \A k \in Msg : tray'[k] # "out" <=> tray[k] # "out"
    BY <2>3
  <2>6. \A k \in Msg : (InLog(k)' <=> InLog(k)) /\ (Held(k)' <=> Held(k))
    BY <2>3, <2>5 DEF InLog, Held
  <2>7. ASSUME NEW i \in 1..Len(items) PROVE Held(items[i].msg)'
    <3>1. PICK m \in S : items[i] = Upsert(m, "unsent")
      BY <2>2
    <3>2. items[i].msg = m
      BY <3>1 DEF Upsert
    <3>3. tray'[m] # "out"
      BY <2>5
    <3>4. QED
      BY <3>2, <3>3 DEF Held
  <2>8. Covers(items)
    BY <2>2, <2>4, <2>5, <2>6, <2>7 DEF Covers
  <2>9. QED
    BY <2>8
<1>13. CASE Leave
  <2>1. UNCHANGED <<log, sub, writing>> /\ writing = None
        /\ \/ tray' = tray /\ detached' = detached
           \/ detached' = tray /\ residence = "exited"
    BY <1>13 DEF Leave
  <2>2. \A k \in Msg : (InLog(k)' <=> InLog(k)) /\ ~Storing(k)
    BY <2>1 DEF InLog, Storing
  <2>3. residence = "exited" => detached = Empty
    BY DEF TrayInv
  <2>4. \A k \in Msg : Held(k) => Held(k)'
    BY <2>1, <2>3, EmptyFacts DEF Held
  <2>5. \A k \in Msg : ~(InLog(k) /\ tray[k] # "out")
    BY <2>2 DEF TrayInv
  <2>6. QED
    BY <2>1, <2>2, <2>4, <2>5, CoversNothing
<1>14. CASE Connected
  <2>1. UNCHANGED <<log, sub>> /\ tray' = detached /\ tray = Empty
    BY <1>14 DEF Connected, TrayInv
  <2>2. \A k \in Msg : tray[k] = "out"
    BY <2>1, EmptyFacts
  <2>3. \A k \in Msg : (Held(k) => Held(k)') /\ (InLog(k)' <=> InLog(k))
    BY <2>1, <2>2 DEF Held, InLog
  <2>4. QED
    BY <2>1, <2>2, <2>3, CoversNothing
<1>15. ASSUME NEW S \in SUBSET Msg, Said(Each(S, Removal)), log' = log,
              \A m \in Msg : Held(m) /\ ~Held(m)' => m \in S, \A m \in Msg : tray[m] # "out" => m \in S
       PROVE  \E any : Covers(any)
  <2>1. PICK items \in Seq(Item) :
          /\ items = Each(S, Removal)
          /\ \A m \in S : \E i \in 1..Len(items) : items[i] = Removal(m)
          /\ \A i \in 1..Len(items) : items[i] \in {Removal(m) : m \in S}
    BY EachFacts
  <2>2. ASSUME NEW i \in 1..Len(items) PROVE items[i].kind # "upsert"
    <3>1. PICK m \in S : items[i] = Removal(m)
      BY <2>1
    <3>2. QED
      BY <3>1 DEF Removal
  <2>3. \A k \in Msg : InLog(k)' <=> InLog(k)
    BY <1>15 DEF InLog
  <2>4. Covers(items)
    BY <1>15, <2>1, <2>2, <2>3 DEF Covers
  <2>5. QED
    BY <2>4
<1>16. CASE Left
  <2>1. InTray \in SUBSET Msg
    BY DEF InTray
  <2>2. PICK items \in Seq(Item) : items = Each(InTray, Removal)
    BY <2>1, EachFacts
  <2>3. Resident /\ Broadcast(channel, items) /\ UNCHANGED <<log, detached>>
    BY <1>16, <2>2 DEF Left, Resident
  <2>4. Said(Each(InTray, Removal))
    BY <2>2, <2>3, SaidOnChannel
  <2>5. \A k \in Msg : (Held(k) /\ ~Held(k)' => k \in InTray) /\ (tray[k] # "out" => k \in InTray)
    BY <2>3 DEF Held, InTray
  <2>6. QED
    BY <1>15, <2>1, <2>3, <2>4, <2>5
<1>17. CASE ConnectFails
  <2>1. PICK S \in SUBSET Msg : S = {m \in Msg : detached[m] # "out"}
    OBVIOUS
  <2>2. Said(Each(S, Removal))
    BY <1>17, <2>1, ConnectFailsSaid
  <2>3. UNCHANGED <<log, tray>> /\ tray = Empty
    BY <1>17 DEF ConnectFails, TrayInv
  <2>4. \A k \in Msg : (Held(k) /\ ~Held(k)' => k \in S) /\ tray[k] = "out"
    BY <2>1, <2>3, EmptyFacts DEF Held
  <2>5. QED
    BY <1>15, <2>2, <2>3, <2>4
<1>18. QED
  BY <1>1, <1>2, <1>3, <1>4, <1>5, <1>8, <1>9, <1>10, <1>11, <1>12, <1>13, <1>14, <1>16, <1>17 DEF Session, Inbox

LEMMA SessionSeen ==
  ASSUME Typed, Typed', StoreInv, TrayInv, TrayInv', ChanInv, UpsertInv, SeenInv, Session
  PROVE  UpsertInv' /\ SeenInv'
<1>1. PICK items : Covers(items)
  BY SessionCovers
<1>2. /\ items \in Seq(Item) /\ Said(items)
      /\ \A m \in Msg : Held(m) /\ ~Held(m)' => \E k \in 1..Len(items) : items[k] = Removal(m)
      /\ \A k \in 1..Len(items) : items[k].kind = "upsert" => Held(items[k].msg)'
      /\ \A m \in Msg : InLog(m)' /\ ~InLog(m) => tray'[m] # "out"
      /\ \A m \in Msg : InLog(m)' /\ tray[m] # "out" /\ tray'[m] = "out" =>
           \E k \in 1..Len(items) : items[k] = Removal(m)
  BY <1>1 DEF Covers
<1>3. sub'.stage = sub.stage /\ panel' = panel /\ (~sub'.ended => ~sub.ended)
  BY SessionHears, HearsKeeps
<1>4. CASE sub'.ended /\ sub'.queue = <<>>
  <2>1. Len(sub'.queue) = 0
    BY <1>4
  <2>2. QED
    BY <1>4, <2>1 DEF UpsertInv, SeenInv
<1>5. CASE sub.stage = "off" /\ sub' = sub
  <2>1. sub'.queue = <<>> /\ sub'.stage = "off"
    BY <1>5, SubUse, NoSubFacts
  <2>2. Len(sub'.queue) = 0
    BY <2>1
  <2>3. QED
    BY <2>1, <2>2 DEF UpsertInv, SeenInv
<1>6. CASE ~sub.ended /\ ~sub'.ended /\ sub'.queue \in Seq(Item) /\ \E g : Carried(g, items)
  <2>1. PICK g : Carried(g, items)
    BY <1>6
  <2>2. Len(sub'.queue) \in Nat /\ Len(sub.queue) \in Nat /\ sub.queue \in Seq(Item) /\ Len(items) \in Nat
    BY <1>2, <1>6, SubUse
  <2>3. /\ \A k \in 1..Len(sub.queue) : Critical(sub.queue[k]) =>
             \E i \in 1..Len(sub'.queue) : g[i] = k /\ sub'.queue[i] = sub.queue[k]
        /\ \A k \in 1..Len(items) : Critical(items[k]) =>
             \E i \in 1..Len(sub'.queue) : g[i] = Len(sub.queue) + k /\ sub'.queue[i] = items[k]
    BY <1>2, <2>1, <2>2, CarriedFacts
  <2>4. /\ g \in [1..Len(sub'.queue) -> 1..(Len(sub.queue) + Len(items))]
        /\ \A i, j \in 1..Len(sub'.queue) : i < j => g[i] < g[j]
        /\ \A i \in 1..Len(sub'.queue) :
             \/ g[i] \in 1..Len(sub.queue) /\ sub'.queue[i] = sub.queue[g[i]]
             \/ \E k \in 1..Len(items) : g[i] = Len(sub.queue) + k /\ sub'.queue[i] = items[k]
    BY <2>1 DEF Carried
  <2>5. \A i, j \in 1..Len(sub'.queue) : g[i] < g[j] => i < j
    <3>1. SUFFICES ASSUME NEW i \in 1..Len(sub'.queue), NEW j \in 1..Len(sub'.queue), g[i] < g[j], ~(i < j) PROVE FALSE
      OBVIOUS
    <3>2. g[i] \in Nat /\ g[j] \in Nat
      BY <2>2, <2>4
    <3>3. i = j \/ j < i
      BY <2>2, <3>1
    <3>4. QED
      BY <2>4, <3>1, <3>2, <3>3
  <2>6. \A m : Critical(Removal(m))
    BY DEF Critical, Removal
  <2>7. ASSUME NEW i \in 1..Len(sub'.queue), NEW m \in Msg, sub'.queue[i].kind = "upsert", sub'.queue[i].msg = m
        PROVE  Held(m)' \/ \E j \in 1..Len(sub'.queue) : i < j /\ sub'.queue[j] = Removal(m)
    <3>1. CASE g[i] \in 1..Len(sub.queue) /\ sub'.queue[i] = sub.queue[g[i]]
      <4>1. PICK k \in 1..Len(sub.queue) : k = g[i]
        BY <3>1
      <4>2. sub.queue[k].kind = "upsert" /\ sub.queue[k].msg = m
        BY <2>7, <3>1, <4>1
      <4>3. Held(m) \/ RemovedAfter(k, m)
        BY <4>2 DEF UpsertInv
      <4>4. CASE RemovedAfter(k, m)
        <5>1. PICK j \in 1..Len(sub.queue) : k < j /\ sub.queue[j] = Removal(m)
          BY <4>4 DEF RemovedAfter
        <5>2. PICK l \in 1..Len(sub'.queue) : g[l] = j /\ sub'.queue[l] = Removal(m)
          BY <2>3, <2>6, <5>1
        <5>3. i < l
          BY <2>5, <4>1, <5>1, <5>2
        <5>4. QED
          BY <5>2, <5>3
      <4>5. CASE Held(m) /\ ~Held(m)'
        <5>1. PICK j \in 1..Len(items) : items[j] = Removal(m)
          BY <1>2, <4>5
        <5>2. PICK l \in 1..Len(sub'.queue) : g[l] = Len(sub.queue) + j /\ sub'.queue[l] = Removal(m)
          BY <2>3, <2>6, <5>1
        <5>3. k \in 1..Len(sub.queue) /\ j \in 1..Len(items) /\ k < Len(sub.queue) + j
          BY <2>2
        <5>4. i < l
          BY <2>5, <4>1, <5>2, <5>3
        <5>5. QED
          BY <5>2, <5>4
      <4>6. QED
        BY <4>3, <4>4, <4>5
    <3>2. CASE \E k \in 1..Len(items) : g[i] = Len(sub.queue) + k /\ sub'.queue[i] = items[k]
      <4>1. PICK k \in 1..Len(items) : sub'.queue[i] = items[k]
        BY <3>2
      <4>2. items[k].kind = "upsert" /\ items[k].msg = m
        BY <2>7, <4>1
      <4>3. Held(items[k].msg)'
        BY <1>2, <4>2
      <4>4. QED
        BY <4>2, <4>3 DEF Held
    <3>3. QED
      BY <2>4, <3>1, <3>2
  <2>8. UpsertInv'
    <3>1. ASSUME NEW i \in 1..Len(sub'.queue), sub'.queue[i].kind = "upsert" PROVE sub'.queue[i].msg \in Msg
      BY <1>6, <3>1, ItemKinds
    <3>2. QED
      BY <2>7, <3>1 DEF UpsertInv, Held, RemovedAfter
  <2>9. ASSUME sub.stage \in {"status", "live"}, NEW m \in Msg, panel.tray[m] # "out", InLog(m)', tray'[m] = "out"
        PROVE  \E i \in 1..Len(sub'.queue) : sub'.queue[i] = Removal(m)
    <3>1. InLog(m)
      BY <1>2, <2>9
    <3>2. CASE tray[m] # "out"
      <4>1. PICK k \in 1..Len(items) : items[k] = Removal(m)
        BY <1>2, <2>9, <3>2
      <4>2. QED
        BY <2>3, <2>6, <4>1
    <3>3. CASE tray[m] = "out"
      <4>1. PICK k \in 1..Len(sub.queue) : sub.queue[k] = Removal(m)
        BY <1>6, <2>9, <3>1, <3>3 DEF SeenInv
      <4>2. QED
        BY <2>3, <2>6, <4>1
    <3>4. QED
      BY <3>2, <3>3
  <2>10. SeenInv'
    BY <1>3, <2>9 DEF SeenInv
  <2>11. QED
    BY <2>8, <2>10
<1>7. QED
  BY <1>2, <1>4, <1>5, <1>6 DEF Said

LEMMA TakeSeen ==
  ASSUME Typed, StoreInv, TrayInv, OrderInv, UpsertInv, SeenInv, Take
  PROVE  UpsertInv' /\ SeenInv'
<1>1. TakesSub /\ UNCHANGED <<log, sessionVars>>
  BY TakeSubFacts DEF Take
<1>2. UNCHANGED <<log, tray, detached>>
  BY <1>1 DEF sessionVars
<1>3. sub.queue # <<>> /\ sub.queue \in Seq(Item) /\ sub.stage = "live"
  BY SubUse DEF Take, Streaming
<1>4. PICK q \in Seq(Item) : q = Tail(sub.queue) /\ Len(q) = Len(sub.queue) - 1 /\ \A i \in 1..Len(q) : q[i] = sub.queue[i + 1]
  BY <1>3, TailFacts
<1>5. sub'.queue = q /\ Len(sub.queue) \in Nat \ {0} /\ Head(sub.queue) = sub.queue[1] /\ Len(q) \in Nat
  BY <1>1, <1>3, <1>4, TailFacts DEF TakesSub
<1>6. \A i \in 1..Len(q) : i + 1 \in 1..Len(sub.queue) /\ q[i] = sub.queue[i + 1]
  BY <1>4, <1>5
<1>7. \A j \in 1..Len(sub.queue) : j # 1 => j - 1 \in 1..Len(q) /\ q[j - 1] = sub.queue[j]
  <2>1. SUFFICES ASSUME NEW j \in 1..Len(sub.queue), j # 1 PROVE j - 1 \in 1..Len(q) /\ q[j - 1] = sub.queue[j]
    OBVIOUS
  <2>2. j - 1 \in 1..Len(q) /\ (j - 1) + 1 = j
    BY <1>4, <1>5, <2>1
  <2>3. QED
    BY <1>6, <2>2
<1>8. UpsertInv'
  <2>1. ASSUME NEW i \in 1..Len(q), q[i].kind = "upsert"
        PROVE  Held(q[i].msg) \/ \E j \in 1..Len(q) : i < j /\ q[j] = Removal(q[i].msg)
    <3>1. Held(q[i].msg) \/ RemovedAfter(i + 1, q[i].msg)
      BY <1>6, <2>1 DEF UpsertInv
    <3>2. ASSUME RemovedAfter(i + 1, q[i].msg) PROVE \E j \in 1..Len(q) : i < j /\ q[j] = Removal(q[i].msg)
      <4>1. PICK j \in 1..Len(sub.queue) : i + 1 < j /\ sub.queue[j] = Removal(q[i].msg)
        BY <3>2 DEF RemovedAfter
      <4>2. j - 1 \in 1..Len(q) /\ q[j - 1] = Removal(q[i].msg) /\ i < j - 1
        BY <1>5, <1>7, <4>1
      <4>3. QED
        BY <4>2
    <3>3. QED
      BY <3>1, <3>2
  <2>2. QED
    BY <1>2, <1>5, <2>1 DEF UpsertInv, Held, RemovedAfter
<1>9. ASSUME ~sub'.ended, NEW m \in Msg, panel'.tray[m] # "out", InLog(m), tray[m] = "out"
      PROVE  \E i \in 1..Len(q) : q[i] = Removal(m)
  <2>1. Takes(Before, Head(sub.queue), sub.last, panel') /\ Before.tray = panel.tray /\ Head(sub.queue) \in Item
    BY LoggedFacts, TakeFacts, BeforeFacts
  <2>2. ~sub.ended
    BY <1>1, <1>9 DEF TakesSub
  <2>3. CASE panel.tray[m] # "out"
    <3>1. PICK j \in 1..Len(sub.queue) : sub.queue[j] = Removal(m)
      BY <1>3, <1>9, <2>2, <2>3 DEF SeenInv
    <3>2. j # 1
      <4>1. ASSUME j = 1 PROVE FALSE
        <5>1. Head(sub.queue).kind = "remove" /\ Head(sub.queue).msg = m
          BY <1>5, <3>1, <4>1 DEF Removal
        <5>2. QED
          BY <1>9, <2>1, <5>1 DEF Takes
      <4>2. QED
        BY <4>1
    <3>3. QED
      BY <1>7, <3>1, <3>2
  <2>4. CASE panel.tray[m] = "out"
    <3>1. Head(sub.queue).kind = "upsert" /\ Head(sub.queue).msg = m
      BY <1>9, <2>1, <2>4 DEF Takes
    <3>2. 1 \in 1..Len(sub.queue)
      BY <1>5
    <3>3. Held(m) \/ RemovedAfter(1, m)
      BY <1>5, <3>1, <3>2 DEF UpsertInv
    <3>4. ~Held(m)
      <4>1. ASSUME detached[m] # "out" PROVE FALSE
        <5>1. Storing(m) /\ detached # Empty
          BY <1>9, <4>1, EmptyFacts DEF TrayInv
        <5>2. QED
          BY <5>1 DEF Storing, StoreInv, TrayInv
      <4>2. QED
        BY <1>9, <4>1 DEF Held
    <3>5. PICK j \in 1..Len(sub.queue) : 1 < j /\ sub.queue[j] = Removal(m)
      BY <3>3, <3>4 DEF RemovedAfter
    <3>6. j # 1
      BY <3>5
    <3>7. QED
      BY <1>7, <3>5, <3>6
  <2>5. QED
    BY <2>3, <2>4
<1>10. SeenInv'
  BY <1>2, <1>5, <1>9 DEF SeenInv, InLog
<1>11. QED
  BY <1>8, <1>10

LEMMA SeenStep ==
  ASSUME Typed, Typed', StoreInv, TrayInv, TrayInv', ChanInv, OrderInv, UpsertInv, SeenInv, Next
  PROVE  UpsertInv' /\ SeenInv'
<1>1. ASSUME UNCHANGED <<log, sessionVars>>, sub'.queue = sub.queue PROVE UpsertInv'
  BY <1>1 DEF sessionVars, UpsertInv, Held, RemovedAfter
<1>2. ASSUME UNCHANGED <<log, sessionVars>>, sub'.queue = sub.queue, sub'.stage = sub.stage \/ sub.stage = "status",
             sub'.ended = sub.ended, \A m \in Msg : panel'.tray[m] \in {panel.tray[m], "out"}
      PROVE  SeenInv'
  BY <1>2 DEF sessionVars, SeenInv, InLog
<1>3. CASE Read \/ SendEntries \/ SendDraft
  <2>1. sub'.queue = sub.queue /\ UNCHANGED <<log, sessionVars>>
    BY <1>3, OpeningKeeps DEF Read, SendEntries, SendDraft
  <2>2. sub'.stage \notin {"status", "live"}
    BY <1>3, OpeningMoves
  <2>3. QED
    BY <1>1, <2>1, <2>2 DEF SeenInv
<1>4. CASE SendQueue
  <2>1. sub'.queue = sub.queue /\ UNCHANGED <<log, sessionVars>>
    BY <1>4, OpeningKeeps DEF SendQueue
  <2>2. panel'.tray = IF Resident THEN tray ELSE Empty
    <3>1. PICK t, b : panel' = [panel EXCEPT !.tray = t, !.blind = b] /\ t = IF Resident THEN tray ELSE Empty
      BY <1>4 DEF SendQueue
    <3>2. QED
      BY <3>1, PanelUse DEF Panels
  <2>3. \A m \in Msg : panel'.tray[m] # "out" => tray'[m] # "out"
    BY <2>1, <2>2, EmptyFacts DEF sessionVars
  <2>4. QED
    BY <1>1, <2>1, <2>3 DEF SeenInv
<1>5. CASE SendStatus
  <2>1. sub'.queue = sub.queue /\ sub'.ended = sub.ended /\ UNCHANGED <<log, sessionVars>>
    BY <1>5, OpeningKeeps DEF SendStatus
  <2>2. panel'.tray = panel.tray
    BY <1>5, PanelUse DEF SendStatus, Panels
  <2>3. sub.stage = "status"
    BY <1>5, OpeningMoves
  <2>4. QED
    BY <1>1, <1>2, <2>1, <2>2, <2>3
<1>6. CASE Heartbeat
  BY <1>1, <1>2, <1>6, HeartbeatFacts DEF Heartbeat
<1>7. CASE End \/ Break \/ Reload
  <2>1. sub' = NoSub
    BY <1>7, StreamOff
  <2>2. Len(sub'.queue) = 0 /\ sub'.stage = "off"
    BY <2>1, NoSubFacts
  <2>3. QED
    BY <2>2 DEF UpsertInv, SeenInv
<1>8. CASE Open
  <2>1. Len(sub'.queue) = 0 /\ sub'.stage = "subscribed"
    BY <1>8, OpenFacts
  <2>2. QED
    BY <2>1 DEF UpsertInv, SeenInv
<1>9. CASE Unsubscribe
  BY <1>1, <1>2, <1>9 DEF Unsubscribe
<1>10. ASSUME NEW n \in DOMAIN log, RetryAnswered(n) PROVE UpsertInv' /\ SeenInv'
  <2>1. \A m \in Msg : panel'.tray[m] \in {panel.tray[m], "out"}
    BY <1>10, RetryFacts
  <2>2. UNCHANGED <<log, sessionVars, sub>>
    BY <1>10 DEF RetryAnswered
  <2>3. QED
    BY <1>1, <1>2, <2>1, <2>2
<1>11. QED
  BY <1>3, <1>4, <1>5, <1>6, <1>7, <1>8, <1>9, <1>10, SessionSeen, TakeSeen DEF Next, Stream, Panel

-----------------------------------------------------------------------------
(* The revisions of an earlier life, or turn, end with a status that is    *)
(* not "running".                                                          *)

\* The session is at rest, and has said so.
AtRest == status # "running" /\ ~(writing # None /\ writing.kind = "status")

StopItem(x) == x.kind = "status" /\ x.status # "running"
StopAfter(i) == \E j \in 1..Len(sub.queue) : i < j /\ StopItem(sub.queue[j])

StaleInv ==
  \A i \in 1..Len(sub.queue) :
    sub.queue[i].kind = "delta" /\ (AtRest \/ sub.queue[i].rev > rev) => StopAfter(i)

GateInv ==
  /\ sub.stage = "live" /\ ~sub.ended /\ ~sub.bare /\ sub.status = "running" /\ (AtRest \/ panel.gate > rev) =>
       \E i \in 1..Len(sub.queue) : StopItem(sub.queue[i])
  /\ sub.stage \in {"queue", "status"} /\ sub.life = lives => panel.gate <= rev

\* The deltas that are said are of now, and a session that comes to rest says that it stopped.
Rests(items) ==
  /\ items \in Seq(Item) /\ Said(items)
  /\ \A k \in 1..Len(items) : items[k].kind = "delta" => items[k].rev <= rev' /\ ~AtRest'
  /\ rev <= rev' \/ AtRest
  /\ AtRest' => AtRest \/ \E k \in 1..Len(items) : StopItem(items[k])
  /\ (rev <= rev' /\ lives' = lives) \/ sub.life # lives'

LEMMA RunningSeen ==
  ASSUME Typed, StoreInv, LiveStatus = "running"
  PROVE  ~AtRest
BY TypedUse DEF StoreInv, LiveStatus, Resident, AtRest

LEMMA DraftSeen ==
  ASSUME Typed
  PROVE  DraftRev <= rev /\ DraftRev \in Nat /\ rev \in Nat
BY TypedUse, NoneFacts DEF DraftRev

LEMMA RestsQuietly ==
  ASSUME Typed, NEW items \in Seq(Item), Said(items), \A k \in 1..Len(items) : items[k].kind # "delta",
         UNCHANGED <<rev, lives>>, AtRest' => AtRest
  PROVE  \E any : Rests(any)
<1>1. rev <= rev'
  BY TypedUse, NoneFacts
<1>2. Rests(items)
  BY <1>1 DEF Rests
<1>3. QED
  BY <1>2

LEMMA SessionRests ==
  ASSUME Typed, Typed', StoreInv, ChanInv, Session
  PROVE  \E items : Rests(items)
<1>1. ASSUME sub' = sub, UNCHANGED <<rev, lives>>, AtRest' => AtRest PROVE \E items : Rests(items)
  <2>1. <<>> \in Seq(Item) /\ Said(<<>>) /\ Len(<<>>) = 0
    BY <1>1, NothingSaid
  <2>2. PICK items \in Seq(Item) : Said(items) /\ Len(items) = 0
    BY <2>1
  <2>3. \A k \in 1..Len(items) : items[k].kind # "delta"
    BY <2>2
  <2>4. QED
    BY <1>1, <2>2, <2>3, RestsQuietly
<1>2. ASSUME NEW x \in Item, x.kind # "delta", Resident, Broadcast(channel, <<x>>), UNCHANGED <<rev, lives>>,
             AtRest' => AtRest
      PROVE  \E items : Rests(items)
  <2>1. PICK items \in Seq(Item) : Said(items) /\ Len(items) = 1 /\ items[1] = x
    BY <1>2, SaidOne
  <2>2. \A k \in 1..Len(items) : items[k].kind # "delta"
    BY <1>2, <2>1
  <2>3. QED
    BY <1>2, <2>1, <2>2, RestsQuietly
<1>3. \A m \in Msg : /\ Removal(m) \in Item /\ Removal(m).kind # "delta"
                     /\ Upsert(m, "queued") \in Item /\ Upsert(m, "queued").kind # "delta"
  BY ItemFacts DEF Removal, Upsert
<1>4. ASSUME NEW m \in Msg, Send(m) \/ Resend(m) PROVE \E items : Rests(items)
  <2>1. /\ Resident /\ UNCHANGED <<rev, lives>> /\ Broadcast(channel, <<Upsert(m, "queued")>>)
        /\ status' = "running"
    BY <1>4 DEF Send, Resend, Register, Resident
  <2>2. ~AtRest'
    BY <2>1 DEF AtRest
  <2>3. QED
    BY <1>2, <1>3, <2>1, <2>2
<1>5. ASSUME NEW m \in Msg, Discard(m) PROVE \E items : Rests(items)
  <2>1. /\ Resident /\ UNCHANGED <<rev, lives, status, writing>> /\ Broadcast(channel, <<Removal(m)>>)
    BY <1>5 DEF Discard, Resident
  <2>2. AtRest' => AtRest
    BY <2>1 DEF AtRest
  <2>3. QED
    BY <1>2, <1>3, <2>1, <2>2
<1>6. ASSUME NEW m \in Msg, Settle(m) PROVE \E items : Rests(items)
  BY <1>1, <1>6 DEF Settle, AtRest
<1>7. CASE Produce \/ CliResumes
  BY <1>1, <1>7 DEF Produce, CliResumes, AtRest
<1>8. CASE AnnounceEntry
  <2>1. /\ writing # None /\ writing.kind = "entry" /\ UNCHANGED <<rev, lives, status>> /\ Resident
        /\ Broadcast(channel, EntryItems)
    BY <1>8 DEF AnnounceEntry, EntryItems, StoreInv, Resident
  <2>2. PICK items \in Seq(Item) : items = EntryItems /\ Said(items)
    BY <2>1, EntryItemsFacts, SaidOnChannel
  <2>3. \A k \in 1..Len(items) : items[k].kind # "delta"
    <3>1. Removal(writing.msg).kind = "remove"
      BY DEF Removal
    <3>2. QED
      BY <2>1, <2>2, <3>1, EntryItemsParts
  <2>4. AtRest' => AtRest
    BY <2>1 DEF AtRest
  <2>5. QED
    BY <2>1, <2>2, <2>3, <2>4, RestsQuietly
<1>9. CASE Delta
  <2>1. /\ Resident /\ UNCHANGED <<lives, status>> /\ Broadcast(channel, <<[kind |-> "delta", rev |-> rev']>>)
        /\ status = "running" /\ rev' = rev + 1
    BY <1>9 DEF Delta, Resident
  <2>2. rev' \in 1..MaxRev /\ rev <= rev'
    BY <1>9, TypedUse, NoneFacts DEF Delta
  <2>3. PICK x \in Item : x = [kind |-> "delta", rev |-> rev']
    BY <2>2, ItemFacts
  <2>4. PICK items \in Seq(Item) : Said(items) /\ Len(items) = 1 /\ items[1] = x
    BY <2>1, <2>3, SaidOne
  <2>5. ~AtRest'
    BY <2>1 DEF AtRest
  <2>6. \A k \in 1..Len(items) : items[k].rev <= rev'
    BY <2>2, <2>3, <2>4, NoneFacts
  <2>7. Rests(items)
    BY <2>1, <2>2, <2>4, <2>5, <2>6 DEF Rests
  <2>8. QED
    BY <2>7
<1>10. CASE AnnounceResumed
  <2>1. Resident /\ UNCHANGED <<rev, lives, status, writing>> /\ Broadcast(channel, <<Status("running")>>)
    BY <1>10 DEF AnnounceResumed, Resident
  <2>2. Status("running") \in Item /\ Status("running").kind # "delta" /\ (AtRest' => AtRest)
    BY <2>1, ItemFacts DEF Status, AtRest
  <2>3. QED
    BY <1>2, <2>1, <2>2
<1>11. CASE AnnounceStatus
  <2>1. writing \in Written /\ Resident /\ UNCHANGED <<rev, lives, status>>
    BY <1>11, TypedUse DEF AnnounceStatus, StoreInv, Resident, Stored
  <2>2. CASE status = "running"
    <3>1. sub' = sub /\ ~AtRest'
      BY <1>11, <2>1, <2>2 DEF AnnounceStatus, AtRest
    <3>2. QED
      BY <1>1, <2>1, <3>1
  <2>3. CASE status # "running"
    <3>1. Broadcast(channel, <<Status(writing.status)>>) /\ writing.status \in {"idle", "error"}
      BY <1>11, <2>1, <2>3 DEF AnnounceStatus, Written
    <3>2. PICK x \in Item : x = Status(writing.status) /\ x.kind # "delta" /\ StopItem(x)
      BY <3>1, ItemFacts DEF Status, StopItem
    <3>3. PICK items \in Seq(Item) : Said(items) /\ Len(items) = 1 /\ items[1] = x
      BY <2>1, <3>1, <3>2, SaidOne
    <3>4. \A k \in 1..Len(items) : items[k].kind # "delta"
      BY <3>2, <3>3
    <3>5. 1 \in 1..Len(items) /\ StopItem(items[1]) /\ rev <= rev'
      BY <2>1, <3>2, <3>3, TypedUse, NoneFacts
    <3>6. Rests(items)
      BY <2>1, <3>3, <3>4, <3>5 DEF Rests
    <3>7. QED
      BY <3>6
  <2>4. QED
    BY <2>2, <2>3
<1>12. CASE Idle
  <2>1. sub' = sub /\ UNCHANGED <<rev, lives>> /\ writing' = [kind |-> "status", status |-> "idle"]
    BY <1>12 DEF Idle
  <2>2. writing' # None
    BY <2>1, NoneFacts DEF Written
  <2>3. ~AtRest'
    BY <2>1, <2>2 DEF AtRest
  <2>4. QED
    BY <1>1, <2>1, <2>3
<1>13. CASE Exit
  <2>1. {m \in Msg : tray[m] = "queued"} \in SUBSET Msg
    OBVIOUS
  <2>2. PICK items \in Seq(Item) :
          /\ items = Each({m \in Msg : tray[m] = "queued"}, LAMBDA m : Upsert(m, "unsent"))
          /\ \A i \in 1..Len(items) : items[i] \in {Upsert(m, "unsent") : m \in {m \in Msg : tray[m] = "queued"}}
    BY <2>1, EachFacts
  <2>3. /\ Resident /\ Broadcast(channel, items) /\ UNCHANGED <<rev, lives>>
        /\ writing' = [kind |-> "status", status |-> "error"]
    BY <1>13, <2>2 DEF Exit, Resident
  <2>4. writing' # None
    BY <2>3, NoneFacts DEF Written
  <2>5. ~AtRest'
    BY <2>3, <2>4 DEF AtRest
  <2>6. \A m : Upsert(m, "unsent").kind = "upsert"
    BY DEF Upsert
  <2>7. \A i \in 1..Len(items) : items[i].kind # "delta"
    BY <2>2, <2>6
  <2>8. QED
    BY <2>2, <2>3, <2>5, <2>7, SaidOnChannel, RestsQuietly
<1>14. CASE Leave \/ Connected
  BY <1>1, <1>14 DEF Leave, Connected, AtRest
<1>15. \A m : Removal(m).kind = "remove"
  BY DEF Removal
<1>16. CASE Left
  <2>1. InTray \in SUBSET Msg
    BY DEF InTray
  <2>2. PICK items \in Seq(Item) :
          items = Each(InTray, Removal) /\ \A i \in 1..Len(items) : items[i] \in {Removal(m) : m \in InTray}
    BY <2>1, EachFacts
  <2>3. Resident /\ Broadcast(channel, items) /\ UNCHANGED <<rev, lives, status, writing>>
    BY <1>16, <2>2 DEF Left, Resident
  <2>4. (AtRest' => AtRest) /\ \A i \in 1..Len(items) : items[i].kind # "delta"
    BY <1>15, <2>2, <2>3 DEF AtRest
  <2>5. QED
    BY <2>2, <2>3, <2>4, SaidOnChannel, RestsQuietly
<1>17. CASE ConnectFails
  <2>1. PICK S \in SUBSET Msg : S = {m \in Msg : detached[m] # "out"}
    OBVIOUS
  <2>2. PICK items \in Seq(Item) :
          items = Each(S, Removal) /\ \A i \in 1..Len(items) : items[i] \in {Removal(m) : m \in S}
    BY EachFacts
  <2>3. Said(items)
    BY <1>17, <2>1, <2>2, ConnectFailsSaid
  <2>4. UNCHANGED <<rev, lives, status, writing>>
    BY <1>17 DEF ConnectFails
  <2>5. (AtRest' => AtRest) /\ \A i \in 1..Len(items) : items[i].kind # "delta"
    BY <1>15, <2>2, <2>4 DEF AtRest
  <2>6. QED
    BY <2>3, <2>4, <2>5, RestsQuietly
<1>18. CASE Connect
  <2>1. sub' = sub /\ lives' = lives + 1 /\ residence = "cold"
    BY <1>18 DEF Connect
  <2>2. AtRest
    BY <2>1 DEF StoreInv, AtRest
  <2>3. sub.life # lives'
    BY <2>1, SubUse, TypedUse
  <2>4. <<>> \in Seq(Item) /\ Said(<<>>) /\ Len(<<>>) = 0
    BY <2>1, NothingSaid
  <2>5. Rests(<<>>)
    BY <2>2, <2>3, <2>4 DEF Rests
  <2>6. QED
    BY <2>5
<1>19. QED
  BY <1>4, <1>5, <1>6, <1>7, <1>8, <1>9, <1>10, <1>11, <1>12, <1>13, <1>14, <1>16, <1>17, <1>18 DEF Session, Inbox

LEMMA SessionStale ==
  ASSUME Typed, Typed', StoreInv, ChanInv, StaleInv, GateInv, Session
  PROVE  StaleInv' /\ GateInv'
<1>1. PICK items : Rests(items)
  BY SessionRests
<1>2. /\ items \in Seq(Item) /\ Said(items)
      /\ \A k \in 1..Len(items) : items[k].kind = "delta" => items[k].rev <= rev' /\ ~AtRest'
      /\ rev <= rev' \/ AtRest
      /\ AtRest' => AtRest \/ \E k \in 1..Len(items) : StopItem(items[k])
      /\ (rev <= rev' /\ lives' = lives) \/ sub.life # lives'
  BY <1>1 DEF Rests
<1>3. /\ sub'.stage = sub.stage /\ sub'.status = sub.status /\ sub'.life = sub.life /\ sub'.bare = sub.bare
      /\ panel' = panel /\ (~sub'.ended => ~sub.ended)
  BY SessionHears, HearsKeeps
<1>4. rev \in Nat /\ rev' \in Nat /\ panel.gate \in Nat
  <2>1. rev' \in 0..MaxRev
    BY DEF Typed, SessionOK
  <2>2. QED
    BY <2>1, TypedUse, PanelUse, NoneFacts
<1>5. sub'.stage \in {"queue", "status"} /\ sub'.life = lives' => panel'.gate <= rev'
  BY <1>2, <1>3, <1>4 DEF GateInv
<1>6. CASE sub'.ended /\ sub'.queue = <<>>
  <2>1. Len(sub'.queue) = 0
    BY <1>6
  <2>2. QED
    BY <1>5, <1>6, <2>1 DEF StaleInv, GateInv
<1>7. CASE sub.stage = "off" /\ sub' = sub
  <2>1. sub'.queue = <<>> /\ sub'.stage = "off"
    BY <1>7, SubUse, NoSubFacts
  <2>2. Len(sub'.queue) = 0
    BY <2>1
  <2>3. QED
    BY <2>1, <2>2 DEF StaleInv, GateInv
<1>8. CASE ~sub.ended /\ ~sub'.ended /\ sub'.queue \in Seq(Item) /\ \E g : Carried(g, items)
  <2>1. PICK g : Carried(g, items)
    BY <1>8
  <2>2. Len(sub'.queue) \in Nat /\ Len(sub.queue) \in Nat /\ sub.queue \in Seq(Item) /\ Len(items) \in Nat
    BY <1>2, <1>8, SubUse
  <2>3. /\ \A k \in 1..Len(sub.queue) : Critical(sub.queue[k]) =>
             \E i \in 1..Len(sub'.queue) : g[i] = k /\ sub'.queue[i] = sub.queue[k]
        /\ \A k \in 1..Len(items) : Critical(items[k]) =>
             \E i \in 1..Len(sub'.queue) : g[i] = Len(sub.queue) + k /\ sub'.queue[i] = items[k]
    BY <1>2, <2>1, <2>2, CarriedFacts
  <2>4. /\ g \in [1..Len(sub'.queue) -> 1..(Len(sub.queue) + Len(items))]
        /\ \A i, j \in 1..Len(sub'.queue) : i < j => g[i] < g[j]
        /\ \A i \in 1..Len(sub'.queue) :
             \/ g[i] \in 1..Len(sub.queue) /\ sub'.queue[i] = sub.queue[g[i]]
             \/ \E k \in 1..Len(items) : g[i] = Len(sub.queue) + k /\ sub'.queue[i] = items[k]
    BY <2>1 DEF Carried
  <2>5. \A i, j \in 1..Len(sub'.queue) : g[i] < g[j] => i < j
    <3>1. SUFFICES ASSUME NEW i \in 1..Len(sub'.queue), NEW j \in 1..Len(sub'.queue), g[i] < g[j], ~(i < j) PROVE FALSE
      OBVIOUS
    <3>2. g[i] \in Nat /\ g[j] \in Nat
      BY <2>2, <2>4
    <3>3. i = j \/ j < i
      BY <2>2, <3>1
    <3>4. QED
      BY <2>4, <3>1, <3>2, <3>3
  <2>6. \A x : StopItem(x) => Critical(x)
    BY DEF Critical, StopItem
  <2>7. ASSUME NEW i \in 1..Len(sub'.queue), sub'.queue[i].kind = "delta", AtRest' \/ sub'.queue[i].rev > rev'
        PROVE  \E j \in 1..Len(sub'.queue) : i < j /\ StopItem(sub'.queue[j])
    <3>1. sub'.queue[i].rev \in Nat
      BY <1>8, <2>7, ItemKinds, NoneFacts
    <3>2. CASE g[i] \in 1..Len(sub.queue) /\ sub'.queue[i] = sub.queue[g[i]]
      <4>1. PICK k \in 1..Len(sub.queue) : k = g[i]
        BY <3>2
      <4>2. CASE StopAfter(k)
        <5>1. PICK j \in 1..Len(sub.queue) : k < j /\ StopItem(sub.queue[j])
          BY <4>2 DEF StopAfter
        <5>2. PICK l \in 1..Len(sub'.queue) : g[l] = j /\ sub'.queue[l] = sub.queue[j]
          BY <2>3, <2>6, <5>1
        <5>3. i < l
          BY <2>5, <4>1, <5>1, <5>2
        <5>4. QED
          BY <5>1, <5>2, <5>3
      <4>3. CASE \E h \in 1..Len(items) : StopItem(items[h])
        <5>1. PICK h \in 1..Len(items) : StopItem(items[h])
          BY <4>3
        <5>2. PICK l \in 1..Len(sub'.queue) : g[l] = Len(sub.queue) + h /\ sub'.queue[l] = items[h]
          BY <2>3, <2>6, <5>1
        <5>3. k < Len(sub.queue) + h
          BY <2>2
        <5>4. i < l
          BY <2>5, <4>1, <5>2, <5>3
        <5>5. QED
          BY <5>1, <5>2, <5>4
      <4>4. ASSUME AtRest \/ sub.queue[k].rev > rev PROVE StopAfter(k)
        <5>1. sub.queue[k].kind = "delta"
          BY <2>7, <3>2, <4>1
        <5>2. QED
          BY <4>4, <5>1 DEF StaleInv
      <4>5. ASSUME ~AtRest, ~AtRest' PROVE sub.queue[k].rev > rev
        BY <1>2, <1>4, <2>7, <3>1, <3>2, <4>1, <4>5
      <4>6. QED
        BY <1>2, <4>2, <4>3, <4>4, <4>5
    <3>3. CASE \E k \in 1..Len(items) : g[i] = Len(sub.queue) + k /\ sub'.queue[i] = items[k]
      <4>1. PICK k \in 1..Len(items) : sub'.queue[i] = items[k]
        BY <3>3
      <4>2. items[k].rev <= rev' /\ ~AtRest'
        BY <1>2, <2>7, <4>1
      <4>3. FALSE
        BY <1>4, <2>7, <3>1, <4>1, <4>2
      <4>4. QED
        BY <4>3
    <3>4. QED
      BY <2>4, <3>2, <3>3
  <2>8. StaleInv'
    BY <2>7 DEF StaleInv, StopAfter
  <2>9. ASSUME sub.stage = "live", ~sub.bare, sub.status = "running", AtRest' \/ panel.gate > rev'
        PROVE  \E i \in 1..Len(sub'.queue) : StopItem(sub'.queue[i])
    <3>1. CASE \E i \in 1..Len(sub.queue) : StopItem(sub.queue[i])
      BY <2>3, <2>6, <3>1
    <3>2. CASE \E k \in 1..Len(items) : StopItem(items[k])
      BY <2>3, <2>6, <3>2
    <3>3. ASSUME AtRest \/ panel.gate > rev PROVE \E i \in 1..Len(sub.queue) : StopItem(sub.queue[i])
      BY <1>8, <2>9, <3>3 DEF GateInv
    <3>4. ASSUME ~AtRest, ~AtRest' PROVE panel.gate > rev
      BY <1>2, <1>4, <2>9, <3>4
    <3>5. QED
      BY <1>2, <3>1, <3>2, <3>3, <3>4
  <2>10. GateInv'
    BY <1>3, <1>5, <2>9 DEF GateInv
  <2>11. QED
    BY <2>8, <2>10
<1>9. QED
  BY <1>2, <1>6, <1>7, <1>8 DEF Said

LEMMA TakeStale ==
  ASSUME Typed, StoreInv, OrderInv, StaleInv, GateInv, Take
  PROVE  StaleInv' /\ GateInv'
<1>1. TakesSub /\ UNCHANGED <<log, sessionVars>>
  BY TakeSubFacts DEF Take
<1>2. UNCHANGED <<rev, status, writing, lives>>
  BY <1>1 DEF sessionVars
<1>3. sub.queue # <<>> /\ sub.queue \in Seq(Item) /\ sub.stage = "live"
  BY SubUse DEF Take, Streaming
<1>4. PICK q \in Seq(Item) :
        q = Tail(sub.queue) /\ Len(q) = Len(sub.queue) - 1 /\ \A i \in 1..Len(q) : q[i] = sub.queue[i + 1]
  BY <1>3, TailFacts
<1>5. PICK x \in Item : x = Head(sub.queue) /\ x = sub.queue[1]
  BY <1>3, TailFacts
<1>6. sub'.queue = q /\ Len(sub.queue) \in Nat \ {0} /\ Len(q) \in Nat
  BY <1>1, <1>3, <1>4, TailFacts DEF TakesSub
<1>7. \A i \in 1..Len(q) : i + 1 \in 1..Len(sub.queue) /\ q[i] = sub.queue[i + 1]
  BY <1>4, <1>6
<1>8. \A j \in 1..Len(sub.queue) : j # 1 => j - 1 \in 1..Len(q) /\ q[j - 1] = sub.queue[j]
  <2>1. SUFFICES ASSUME NEW j \in 1..Len(sub.queue), j # 1 PROVE j - 1 \in 1..Len(q) /\ q[j - 1] = sub.queue[j]
    OBVIOUS
  <2>2. j - 1 \in 1..Len(q) /\ (j - 1) + 1 = j
    BY <1>4, <1>6, <2>1
  <2>3. QED
    BY <1>7, <2>2
<1>9. StaleInv'
  <2>1. ASSUME NEW i \in 1..Len(q), q[i].kind = "delta", AtRest \/ q[i].rev > rev
        PROVE  \E j \in 1..Len(q) : i < j /\ StopItem(q[j])
    <3>1. StopAfter(i + 1)
      BY <1>7, <2>1 DEF StaleInv
    <3>2. PICK j \in 1..Len(sub.queue) : i + 1 < j /\ StopItem(sub.queue[j])
      BY <3>1 DEF StopAfter
    <3>3. j - 1 \in 1..Len(q) /\ q[j - 1] = sub.queue[j] /\ i < j - 1
      BY <1>6, <1>8, <3>2
    <3>4. QED
      BY <3>2, <3>3
  <2>2. QED
    BY <1>2, <1>6, <2>1 DEF StaleInv, StopAfter, AtRest
<1>10. Takes(Before, x, sub.last, panel')
  BY <1>5, LoggedFacts, TakeFacts
<1>11. panel'.gate = (IF x.kind = "delta" /\ x.rev > Before.gate THEN x.rev ELSE Before.gate) /\ Before.gate \in Nat
  BY <1>10, BeforeFacts DEF Takes, Panels
<1>12. Before.gate = IF FirstShown THEN DraftRev ELSE panel.gate
  BY BeforeFacts
<1>13. DraftRev <= rev /\ DraftRev \in Nat /\ rev \in Nat /\ panel.gate \in Nat
  BY DraftSeen, PanelUse
<1>14. FirstShown => ~AtRest
  BY RunningSeen DEF FirstShown
<1>15. ASSUME ~sub.ended, ~sub'.bare, sub'.status = "running", AtRest \/ panel'.gate > rev
       PROVE  \E i \in 1..Len(q) : StopItem(q[i])
  <2>1. ~StopItem(x)
    <3>1. x.kind = "status" => sub'.status = x.status
      BY <1>1, <1>5 DEF TakesSub
    <3>2. QED
      BY <1>15, <3>1 DEF StopItem
  <2>2. CASE x.kind = "delta" /\ (AtRest \/ x.rev > rev)
    <3>1. 1 \in 1..Len(sub.queue)
      BY <1>6
    <3>2. StopAfter(1)
      BY <1>5, <2>2, <3>1 DEF StaleInv
    <3>3. PICK j \in 1..Len(sub.queue) : 1 < j /\ StopItem(sub.queue[j])
      BY <3>2 DEF StopAfter
    <3>4. j # 1
      BY <3>3
    <3>5. QED
      BY <1>8, <3>3, <3>4
  <2>3. CASE ~(x.kind = "delta" /\ (AtRest \/ x.rev > rev))
    <3>1. x.kind = "delta" => x.rev \in Nat
      BY ItemKinds, NoneFacts
    <3>2. AtRest \/ Before.gate > rev
      BY <1>11, <1>13, <1>15, <2>3, <3>1
    <3>3. ~FirstShown
      BY <1>12, <1>13, <1>14, <3>2
    <3>4. AtRest \/ panel.gate > rev
      BY <1>12, <3>2, <3>3
    <3>5. ~sub.bare /\ sub.status = "running"
      BY <1>1, <1>5, <1>15, <3>3 DEF TakesSub
    <3>6. PICK j \in 1..Len(sub.queue) : StopItem(sub.queue[j])
      BY <1>3, <1>15, <3>4, <3>5 DEF GateInv
    <3>7. j # 1
      BY <1>5, <2>1, <3>6
    <3>8. QED
      BY <1>8, <3>6, <3>7
  <2>4. QED
    BY <2>2, <2>3
<1>16. GateInv'
  <2>1. sub'.stage = "live" /\ (sub'.ended <=> sub.ended)
    BY <1>1 DEF TakesSub
  <2>2. QED
    BY <1>2, <1>6, <1>15, <2>1 DEF GateInv, AtRest
<1>17. QED
  BY <1>9, <1>16

LEMMA StaleStep ==
  ASSUME Typed, Typed', StoreInv, ChanInv, OrderInv, StaleInv, GateInv, Next
  PROVE  StaleInv' /\ GateInv'
<1>1. ASSUME UNCHANGED <<log, sessionVars>>, sub'.queue = sub.queue PROVE StaleInv'
  BY <1>1 DEF sessionVars, StaleInv, StopAfter, AtRest
<1>2. CASE Read \/ SendEntries
  <2>1. sub'.queue = sub.queue /\ UNCHANGED <<log, sessionVars>>
    BY <1>2, OpeningKeeps DEF Read, SendEntries
  <2>2. sub'.stage \notin {"queue", "status", "live"}
    BY <1>2, OpeningMoves
  <2>3. QED
    BY <1>1, <2>1, <2>2 DEF GateInv
<1>3. CASE SendDraft
  <2>1. sub'.queue = sub.queue /\ UNCHANGED <<log, sessionVars>>
    BY <1>3, OpeningKeeps DEF SendDraft
  <2>2. sub'.stage = "queue"
    BY <1>3, OpeningMoves
  <2>3. panel'.gate = DraftRev /\ rev' = rev
    BY <1>3, PanelUse DEF SendDraft, Panels, sessionVars
  <2>4. QED
    BY <1>1, <2>1, <2>2, <2>3, DraftSeen DEF GateInv
<1>4. CASE SendQueue
  <2>1. sub'.queue = sub.queue /\ UNCHANGED <<log, sessionVars>>
    BY <1>4, OpeningKeeps DEF SendQueue
  <2>2. sub.stage = "queue" /\ sub'.stage = "status" /\ sub'.life = sub.life
    BY <1>4, OpeningMoves
  <2>3. panel'.gate = panel.gate
    <3>1. PICK t, b : panel' = [panel EXCEPT !.tray = t, !.blind = b]
      BY <1>4 DEF SendQueue
    <3>2. QED
      BY <3>1, PanelUse DEF Panels
  <2>4. QED
    BY <1>1, <2>1, <2>2, <2>3 DEF GateInv, sessionVars
<1>5. CASE SendStatus
  <2>1. sub'.queue = sub.queue /\ UNCHANGED <<log, sessionVars>> /\ sub'.bare = (lives # sub.life)
        /\ sub'.status = LiveStatus
    BY <1>5, OpeningKeeps DEF SendStatus
  <2>2. sub.stage = "status" /\ sub'.stage = "live"
    BY <1>5, OpeningMoves
  <2>3. panel'.gate = panel.gate
    BY <1>5, PanelUse DEF SendStatus, Panels
  <2>4. ASSUME ~sub'.bare, sub'.status = "running" PROVE ~AtRest' /\ ~(panel'.gate > rev')
    <3>1. ~AtRest'
      BY <2>1, <2>4, RunningSeen DEF AtRest, sessionVars
    <3>2. panel.gate <= rev
      BY <2>1, <2>2, <2>4 DEF GateInv
    <3>3. panel.gate \in Nat /\ rev \in Nat /\ rev' = rev
      BY <2>1, DraftSeen, PanelUse DEF sessionVars
    <3>4. QED
      BY <2>3, <3>1, <3>2, <3>3
  <2>5. QED
    BY <1>1, <2>1, <2>2, <2>4 DEF GateInv
<1>6. CASE Heartbeat
  <2>1. sub'.queue = sub.queue /\ sub'.stage = "live" /\ UNCHANGED <<log, sessionVars>> /\ sub'.status = LiveStatus
        /\ panel'.gate = IF LiveStatus = "running" THEN DraftRev ELSE panel.gate
    BY <1>6, HeartbeatFacts DEF Heartbeat, Streaming
  <2>2. ASSUME sub'.status = "running" PROVE ~AtRest' /\ ~(panel'.gate > rev')
    <3>1. ~AtRest'
      BY <2>1, <2>2, RunningSeen DEF AtRest, sessionVars
    <3>2. panel'.gate = DraftRev /\ rev' = rev
      BY <2>1, <2>2 DEF sessionVars
    <3>3. QED
      BY <3>1, <3>2, DraftSeen
  <2>3. QED
    BY <1>1, <2>1, <2>2 DEF GateInv
<1>7. CASE End \/ Break \/ Reload
  <2>1. sub' = NoSub
    BY <1>7, StreamOff
  <2>2. Len(sub'.queue) = 0 /\ sub'.stage = "off"
    BY <2>1, NoSubFacts
  <2>3. QED
    BY <2>2 DEF StaleInv, GateInv
<1>8. CASE Open
  <2>1. Len(sub'.queue) = 0 /\ sub'.stage = "subscribed"
    BY <1>8, OpenFacts
  <2>2. QED
    BY <2>1 DEF StaleInv, GateInv
<1>9. ASSUME UNCHANGED <<log, sessionVars, sub>>, panel'.gate = panel.gate PROVE StaleInv' /\ GateInv'
  BY <1>1, <1>9 DEF GateInv, AtRest, sessionVars
<1>10. CASE Unsubscribe
  BY <1>9, <1>10 DEF Unsubscribe
<1>11. ASSUME NEW n \in DOMAIN log, RetryAnswered(n) PROVE StaleInv' /\ GateInv'
  <2>1. panel'.gate = panel.gate
    BY <1>11, RetryFacts
  <2>2. UNCHANGED <<log, sessionVars, sub>>
    BY <1>11 DEF RetryAnswered
  <2>3. QED
    BY <1>9, <2>1, <2>2
<1>12. QED
  BY <1>2, <1>3, <1>4, <1>5, <1>6, <1>7, <1>8, <1>10, <1>11, SessionStale, TakeStale DEF Next, Stream, Panel

-----------------------------------------------------------------------------
(* The inductive invariant.                                                *)
Inv ==
  /\ Typed /\ StoreInv /\ TrayInv /\ ChanInv
  /\ OrderInv /\ ReachInv /\ UptoInv /\ WholeInv
  /\ UpsertInv /\ SeenInv /\ StaleInv /\ GateInv

LEMMA InitInv == Init => Inv
<1>1. SUFFICES ASSUME Init PROVE Inv
  OBVIOUS
<1>2. Typed /\ StoreInv /\ TrayInv /\ ChanInv
  BY <1>1, InitTypes, InitStore, InitChan
<1>3. log = <<>> /\ Len(log) = 0 /\ writing = None /\ rev = 0
  BY <1>1 DEF Init
<1>4. sub.queue = <<>> /\ sub.stage = "live" /\ sub.status = "idle" /\ sub.last = 0 /\ sub.upto = 0
  <2>1. sub = [NoSub EXCEPT !.stage = "live", !.chan = 1, !.status = "idle"]
    BY <1>1 DEF Init
  <2>2. QED
    BY <2>1 DEF NoSub
<1>5. Len(sub.queue) = 0
  BY <1>4
<1>6. panel.entries = {} /\ panel.cursor = 0 /\ panel.after = 0 /\ panel.tray = Empty
  BY <1>1, NewPanelFacts DEF Init, Panels
<1>7. Announced = 0
  BY <1>3 DEF Announced
<1>8. OrderInv /\ ReachInv /\ UptoInv
  BY <1>4, <1>5, <1>7 DEF OrderInv, ReachInv, UptoInv
<1>9. WholeInv
  <2>1. 0 \in 0..Len(log) /\ panel.entries = 1..0
    BY <1>3, <1>6
  <2>2. QED
    BY <1>4, <1>6, <2>1 DEF WholeInv
<1>10. UpsertInv /\ SeenInv
  BY <1>5, <1>6, EmptyFacts DEF UpsertInv, SeenInv
<1>11. StaleInv /\ GateInv
  BY <1>4, <1>5 DEF StaleInv, GateInv
<1>12. QED
  BY <1>2, <1>8, <1>9, <1>10, <1>11 DEF Inv

LEMMA NextInv == Inv /\ [Next]_vars => Inv'
<1>1. ASSUME Inv, Next PROVE Inv'
  <2>1. /\ Typed /\ StoreInv /\ TrayInv /\ ChanInv
        /\ OrderInv /\ ReachInv /\ UptoInv /\ WholeInv
        /\ UpsertInv /\ SeenInv /\ StaleInv /\ GateInv
    BY <1>1 DEF Inv
  <2>2. Typed'
    BY <1>1, <2>1, LoggedFacts, NextTypes
  <2>3. StoreInv' /\ TrayInv'
    <3>1. CASE Session
      BY <2>1, <3>1, StoreStep, TrayStep
    <3>2. CASE Stream \/ Panel
      BY <2>1, <3>2, QuietSteps, QuietSession
    <3>3. QED
      BY <1>1, <3>1, <3>2 DEF Next
  <2>4. ChanInv'
    BY <1>1, <2>1, ChanStep
  <2>5. OrderInv' /\ ReachInv' /\ UptoInv'
    BY <1>1, <2>1, <2>2, <2>3, OrderStep
  <2>6. WholeInv'
    BY <1>1, <2>1, <2>2, WholeStep
  <2>7. UpsertInv' /\ SeenInv'
    BY <1>1, <2>1, <2>2, <2>3, SeenStep
  <2>8. StaleInv' /\ GateInv'
    BY <1>1, <2>1, <2>2, StaleStep
  <2>9. QED
    BY <2>2, <2>3, <2>4, <2>5, <2>6, <2>7, <2>8 DEF Inv
<1>2. ASSUME Inv, UNCHANGED vars PROVE Inv'
  <2>1. /\ Typed /\ StoreInv /\ TrayInv /\ ChanInv
        /\ OrderInv /\ ReachInv /\ UptoInv /\ WholeInv
        /\ UpsertInv /\ SeenInv /\ StaleInv /\ GateInv
    BY <1>2 DEF Inv
  <2>2. /\ UNCHANGED <<log, sessionVars>> /\ UNCHANGED <<registered, sub, ghost, panel>>
        /\ UNCHANGED <<residence, status, meta, tray, detached, sent, rev, writing, busy, lives, channel>>
    BY <1>2 DEF vars, sessionVars
  <2>3. Typed'
    BY <2>1, <2>2 DEF Typed, LogOK, SessionOK, ChannelOK, SubOK, PanelOK, Resident, Bounded
  <2>4. StoreInv' /\ TrayInv' /\ ChanInv'
    BY <2>1, <2>2, QuietSession DEF ChanInv, Resident
  <2>5. OrderInv' /\ ReachInv' /\ UptoInv' /\ WholeInv'
    BY <2>1, <2>2 DEF OrderInv, ReachInv, UptoInv, WholeInv, IsEntry, Announced
  <2>6. UpsertInv' /\ SeenInv'
    BY <2>1, <2>2 DEF UpsertInv, SeenInv, Held, RemovedAfter, InLog
  <2>7. StaleInv' /\ GateInv'
    BY <2>1, <2>2 DEF StaleInv, GateInv, StopAfter, AtRest
  <2>8. QED
    BY <2>3, <2>4, <2>5, <2>6, <2>7 DEF Inv
<1>3. QED
  BY <1>1, <1>2

(* StreamInvariant: all of the above holds in every behaviour of the       *)
(* session, its stream (stream_events) and the panel.                      *)
THEOREM StreamInvariant == Spec => []Inv
BY InitInv, NextInv, PTL DEF Spec

(* StreamTypeCorrect: every record of the stream and of the panel's store  *)
(* keeps its fields; in particular the subscriber's queue stays within     *)
(* queue_maxsize and a stream that is to end has an empty one, as deliver  *)
(* of the overflow policy promises.                                        *)
THEOREM StreamTypeCorrect == Spec => []TypeOK
<1>1. Inv => TypeOK
  BY TypeParts DEF Inv
<1>2. QED
  BY <1>1, StreamInvariant, PTL

(* EntriesWhole: the panel's timeline has no hole (NoHole), whatever the   *)
(* overflow policy dropped and wherever list_after resumed.                *)
THEOREM EntriesWhole == Spec => []NoHole
<1>1. Inv => NoHole
  <2>1. SUFFICES ASSUME Inv, ~panel.holed PROVE panel.entries = 1..LastSeq(panel)
    BY DEF NoHole
  <2>2. PICK k \in 0..Len(log) : panel.entries = 1..k
    BY <2>1 DEF Inv, WholeInv
  <2>3. Len(log) \in Nat /\ panel.entries \subseteq 1..Len(log) /\ k \in Nat
    BY <2>1, TypedUse, PanelUse DEF Inv
  <2>4. LastSeq(panel) = k
    BY <2>2, <2>3, LastFacts
  <2>5. QED
    BY <2>2, <2>4
<1>2. QED
  BY <1>1, StreamInvariant, PTL

(* ChannelKept: the session, the stream and a stream without a panel are   *)
(* on the one channel the registry holds: _release_channel and             *)
(* _session_channel never part them.                                       *)
THEOREM ChannelKept == Spec => []OneChannel
<1>1. Inv => OneChannel
  BY DEF Inv, ChanInv, OneChannel
<1>2. QED
  BY <1>1, StreamInvariant, PTL

(* TrayFollowsLog: a message is not left in the panel's tray beside its    *)
(* entry; its removal by _settle_queued_message is still to come.          *)
THEOREM TrayFollowsLog == Spec => []SeenOnce
<1>1. Inv => SeenOnce
  <2>1. SUFFICES ASSUME Inv, Following, NEW m \in Msg, panel.tray[m] # "out", m \in Messages(panel), tray[m] = "out"
                 PROVE  Removal(m) \in ToSet(sub.queue)
    BY DEF SeenOnce
  <2>2. Typed /\ SeenInv
    BY <2>1 DEF Inv
  <2>3. InLog(m)
    BY <2>1, <2>2, PanelUse DEF Messages, InLog
  <2>4. PICK i \in 1..Len(sub.queue) : sub.queue[i] = Removal(m)
    BY <2>1, <2>2, <2>3 DEF SeenInv, Following
  <2>5. i \in DOMAIN sub.queue
    BY <2>2, SubUse
  <2>6. QED
    BY <2>4, <2>5 DEF ToSet
<1>2. QED
  BY <1>1, StreamInvariant, PTL

(* GateBelowDraft: a panel that follows a running session is not deaf to   *)
(* its deltas: the draft's revision of an earlier life or turn is never    *)
(* left as the gate, unless "running" reached the panel without a draft.   *)
THEOREM GateBelowDraft == Spec => []DeltasHeard
<1>1. Inv => DeltasHeard
  <2>1. SUFFICES ASSUME Inv, Following, sub.queue = <<>>, sub.status = "running", LiveStatus = "running", ~sub.bare
                 PROVE  panel.gate <= DraftRev
    BY DEF DeltasHeard
  <2>2. Typed /\ StoreInv /\ GateInv
    BY <2>1 DEF Inv
  <2>3. ~AtRest
    BY <2>1, <2>2, RunningSeen
  <2>4. Len(sub.queue) = 0
    BY <2>1
  <2>5. ~(panel.gate > rev)
    BY <2>1, <2>2, <2>4 DEF GateInv, Following
  <2>6. DraftRev = rev
    BY <2>1, <2>2, TypedUse DEF DraftRev, LiveStatus, Resident, StoreInv
  <2>7. QED
    BY <2>2, <2>5, <2>6, DraftSeen, PanelUse
<1>2. QED
  BY <1>1, StreamInvariant, PTL
=============================================================================
