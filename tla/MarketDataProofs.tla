-------------------------- MODULE MarketDataProofs ---------------------------
(***************************************************************************)
(* What holds of the live books for any prices, quantities, depth, number  *)
(* of updates, losses and broken connections: proofs about MarketData.     *)
(***************************************************************************)
EXTENDS MarketData, SequenceLemmas, FiniteSetTheorems, TLAPS

-----------------------------------------------------------------------------
(* The inductive invariant.                                                *)

VisibleTo(k, b) == IF k = "KRAKEN" THEN TrimToDepth(b) ELSE b

Changed == UNION {[D -> 0 .. MaxQuantity] : D \in SUBSET Level}

Message ==
  [type: {"update"}, first: Nat, final: Nat, levels: Changed, checksum: Book]
    \cup [type: {"snapshot"}, final: Nat, levels: Book]

(* An update tells how the venue's book got from before its first update   *)
(* to its final one: the levels it names, and no change at the others.     *)
(* Kraken's update need not name every level, but its checksum covers all. *)
TrueUpdate(m, k, h) ==
  /\ m.type = "update"
  /\ m.first \in 2 .. Len(h) /\ m.final \in m.first .. Len(h)
  /\ k = "KRAKEN" => m.checksum = TrimToDepth(h[m.final])
  /\ k # "KRAKEN" => \A l \in Level :
       IF l \in DOMAIN m.levels THEN m.levels[l] = h[m.final][l]
       ELSE \A i \in (m.first - 1) .. m.final : h[i][l] = h[m.final][l]

TrueSnapshot(m, k, h) ==
  /\ m.type = "snapshot"
  /\ m.final \in 1 .. Len(h) /\ m.levels = VisibleTo(k, h[m.final])

(* The venue's books are books that can be, and the messages tell of them; *)
(* a snapshot comes first and only to a feed that waits for one.           *)
Told ==
  /\ stream \in Seq(Message) /\ streamed <= Now
  /\ \A i \in 1 .. Now : ~Crossed(history[i])
  /\ \A i \in 1 .. Len(stream) :
       \/ TrueUpdate(stream[i], kind, history)
       \/ /\ i = 1 /\ conn = "waiting" /\ kind # "BINANCE"
          /\ TrueSnapshot(stream[i], kind, history)

(* What the feed has made of them: the venue's book, but for the levels    *)
(* that a Binance snapshot was too short for (base s) and that have not    *)
(* changed up to the book's version v.                                     *)
Agrees(b, k, h, s, v) ==
  \A l \in Level :
    \/ b[l] = VisibleTo(k, h[v])[l]
    \/ /\ b[l] = 0 /\ k = "BINANCE" /\ BestLevels(h[s], SnapshotDepth)[l] # h[s][l]
       /\ \A i \in (s + 1) .. v : h[i][l] = h[i - 1][l]

VenueBook(b, k, h, s, v, gone) ==
  b.synchronized /\ ~gone => Agrees(b.levels, k, h, s, v)

(* Numbers are one behind for every silent message that Binance or Kraken  *)
(* has numbered; Coinbase's go on from one connection to the next.         *)
Fed ==
  /\ VenueBook(book, kind, history, base, version, lost)
  /\ book.synchronized => version \in 1 .. Now /\ base \in 1 .. Now
  /\ book.synchronized /\ kind = "COINBASE" => normalized_sequence = book.sequence
  /\ conn = "live" => /\ book.synchronized
                      /\ kind # "COINBASE" =>
                           normalized_sequence = book.sequence + silent
                      /\ kind = "BINANCE" => last_update_id = version
                      /\ kind = "KRAKEN" => local = book.levels
  /\ conn = "waiting" /\ kind # "COINBASE" => silent = 0
  /\ lost => kind = "COINBASE"

(* Coinbase has no numbers to compare: the messages on their way follow    *)
(* each other and the book without a gap until one is skipped.  As long as *)
(* none is, a feed that waits has its snapshot before it.                  *)
Chain(q, from, upto) ==
  IF Len(q) = 0 THEN from = upto
  ELSE /\ q[1].first = from + 1
       /\ \A i \in 1 .. (Len(q) - 1) : q[i + 1].first = q[i].final + 1
       /\ q[Len(q)].final = upto

SnapshotFirst(q) == Len(q) > 0 /\ q[1].type = "snapshot"

Chained ==
  kind = "COINBASE" =>
    /\ conn = "live" /\ ~lost => Chain(stream, version, streamed)
    /\ conn = "waiting" /\ ~lost => SnapshotFirst(stream)
    /\ conn = "waiting" /\ SnapshotFirst(stream) =>
         Chain(Tail(stream), stream[1].final, streamed)

IInv == TypeOK /\ Told /\ Fed /\ Chained

-----------------------------------------------------------------------------
(* Books.                                                                  *)

LEMMA LevelsFinite == IsFiniteSet(Level)
<1>1. IsFiniteSet({"Bid", "Ask"})
  <2>1. IsFiniteSet({"Bid"})
    BY FS_Singleton
  <2>2. {"Bid", "Ask"} = {"Bid"} \cup {"Ask"}
    OBVIOUS
  <2> QED  BY <2>1, <2>2, FS_AddElement
<1> QED  BY <1>1, MarketAssumption, FS_Product DEF Level

(* Taking the best levels removes levels and changes none.                 *)
LEMMA BestFacts ==
  ASSUME NEW b \in Book, NEW n
  PROVE  /\ BestLevels(b, n) \in Book
         /\ \A l \in Level : BestLevels(b, n)[l] \in {0, b[l]}
<1>1. \A l \in Level : b[l] \in 0 .. MaxQuantity /\ 0 \in 0 .. MaxQuantity
  BY MarketAssumption DEF Book
<1>2. \A l \in Level : BestLevels(b, n)[l] \in {0, b[l]}
  BY DEF BestLevels
<1> DEFINE g(l) == IF Cardinality({m \in Level : Better(m, l) /\ b[m] > 0}) < n
                   THEN b[l] ELSE 0
<1>3. \A l \in Level : g(l) \in 0 .. MaxQuantity
  BY <1>1
<1>4. BestLevels(b, n) = [l \in Level |-> g(l)]
  BY DEF BestLevels
<1> HIDE DEF g
<1> QED  BY <1>2, <1>3, <1>4 DEF Book

(* A book with levels missing is crossed only if the whole one is.         *)
LEMMA FewerLevels ==
  ASSUME NEW b \in Book, NEW c \in Book, \A l \in Level : c[l] \in {0, b[l]}, ~Crossed(b)
  PROVE  ~Crossed(c)
<1> SUFFICES ASSUME Crossed(c) PROVE FALSE
  OBVIOUS
<1>1. PICK p \in Price, q \in Price : p >= q /\ c[<<"Bid", p>>] > 0 /\ c[<<"Ask", q>>] > 0
  BY DEF Crossed
<1>2. <<"Bid", p>> \in Level /\ <<"Ask", q>> \in Level
  BY DEF Level
<1>3. b[<<"Bid", p>>] > 0 /\ b[<<"Ask", q>>] > 0
  BY <1>1, <1>2
<1> QED  BY <1>1, <1>3 DEF Crossed

LEMMA TrimFacts ==
  ASSUME NEW b \in Book
  PROVE  /\ TrimToDepth(b) \in Book
         /\ \A l \in Level : TrimToDepth(b)[l] \in {0, b[l]}
         /\ ~Crossed(b) => ~Crossed(TrimToDepth(b))
  BY BestFacts, FewerLevels DEF TrimToDepth

(* Trimming what is trimmed changes nothing: normalize_snapshot may trim   *)
(* what the venue has already trimmed.                                     *)
LEMMA TrimTwice ==
  ASSUME NEW b \in Book
  PROVE  TrimToDepth(TrimToDepth(b)) = TrimToDepth(b)
<1> DEFINE t == TrimToDepth(b)
           Above(c, l) == {m \in Level : Better(m, l) /\ c[m] > 0}
<1>1. /\ t \in Book /\ TrimToDepth(t) \in Book
      /\ \A l \in Level : t[l] \in {0, b[l]}
      /\ \A l \in Level : TrimToDepth(t)[l] \in {0, t[l]}
  BY TrimFacts
<1>2. /\ \A l \in Level : t[l] = IF Cardinality(Above(b, l)) < Depth THEN b[l] ELSE 0
      /\ \A l \in Level : TrimToDepth(t)[l]
           = IF Cardinality(Above(t, l)) < Depth THEN t[l] ELSE 0
  BY DEF TrimToDepth, BestLevels
<1>3. \A l \in Level : \A m \in Level : t[m] > 0 => b[m] > 0
  BY <1>1
<1> HIDE DEF t
<1>4. ASSUME NEW l \in Level, t[l] # 0
      PROVE  TrimToDepth(t)[l] = t[l]
  <2>1. Cardinality(Above(b, l)) < Depth
    BY <1>2, <1>4
  <2>2. Above(t, l) \subseteq Above(b, l) /\ Above(b, l) \subseteq Level
    BY <1>3
  <2> HIDE DEF Above
  <2>3. IsFiniteSet(Above(b, l))
    BY <2>2, LevelsFinite, FS_Subset
  <2>4. /\ Cardinality(Above(t, l)) <= Cardinality(Above(b, l)) /\ IsFiniteSet(Above(t, l))
    BY <2>2, <2>3, FS_Subset
  <2>5. Cardinality(Above(t, l)) \in Nat /\ Cardinality(Above(b, l)) \in Nat
    BY <2>3, <2>4, FS_CardinalityType
  <2>6. Cardinality(Above(t, l)) < Depth
    BY <2>1, <2>4, <2>5, MarketAssumption
  <2> QED  BY <1>2, <2>6
<1>5. \A l \in Level : TrimToDepth(t)[l] = t[l]
  <2> TAKE l \in Level
  <2>1. CASE t[l] # 0
    BY <2>1, <1>4
  <2>2. CASE t[l] = 0
    BY <2>2, <1>1
  <2> QED  BY <2>1, <2>2
<1>6. TrimToDepth(t) = t
  BY <1>1, <1>5 DEF Book
<1> QED  BY <1>6 DEF t

LEMMA VisibleFacts ==
  ASSUME NEW b \in Book, NEW k
  PROVE  /\ VisibleTo(k, b) \in Book
         /\ ~Crossed(b) => ~Crossed(VisibleTo(k, b))
         /\ k = "KRAKEN" => TrimToDepth(VisibleTo(k, b)) = VisibleTo(k, b)
  BY TrimFacts, TrimTwice DEF VisibleTo

LEMMA VisibleIs == \A b : Visible(b) = VisibleTo(kind, b)
  BY DEF Visible, VisibleTo

(* What a normalizer publishes takes a book from the old to the new one.   *)
LEMMA DifferenceApplied ==
  ASSUME NEW old \in Book, NEW new \in Book
  PROVE  /\ ApplyLevels(old, Difference(old, new)) = new
         /\ DOMAIN Difference(old, new) = {} => old = new
<1>1. \A l \in Level : ApplyLevels(old, Difference(old, new))[l] = new[l]
  BY DEF ApplyLevels, Difference
<1>2. ApplyLevels(old, Difference(old, new)) = [l \in Level |-> new[l]]
  BY DEF ApplyLevels, Difference
<1>3. DOMAIN Difference(old, new) = {} => \A l \in Level : new[l] = old[l]
  BY DEF Difference
<1> QED  BY <1>2, <1>3 DEF Book

Within(v, m) == v \in (m.first - 1) .. m.final

(* Where no Binance snapshot cut anything off, a book that agrees with the *)
(* venue's is the venue's.                                                 *)
LEMMA AgreesExactly ==
  ASSUME NEW k, NEW h \in Seq(Book), NEW v \in 1 .. Len(h), NEW b \in Book, NEW s
  PROVE  /\ b = VisibleTo(k, h[v]) => Agrees(b, k, h, s, v)
         /\ k # "BINANCE" /\ Agrees(b, k, h, s, v) => b = VisibleTo(k, h[v])
<1>1. VisibleTo(k, h[v]) \in Book
  BY VisibleFacts
<1> DEFINE c == VisibleTo(k, h[v])
<1>2. ASSUME k # "BINANCE", Agrees(b, k, h, s, v) PROVE b = c
  <2>1. \A l \in Level : b[l] = c[l]
    BY <1>2 DEF Agrees
  <2>2. c \in Book
    BY <1>1
  <2> HIDE DEF c
  <2> QED  BY <2>1, <2>2 DEF Book
<1>3. ASSUME b = c PROVE Agrees(b, k, h, s, v)
  BY <1>3 DEF Agrees
<1> QED  BY <1>2, <1>3

LEMMA AgreesUncrossed ==
  ASSUME NEW k, NEW h \in Seq(Book), NEW v \in 1 .. Len(h), NEW b \in Book, NEW s,
         Agrees(b, k, h, s, v), ~Crossed(h[v])
  PROVE  ~Crossed(b)
<1> DEFINE c == VisibleTo(k, h[v])
<1>1. c \in Book /\ ~Crossed(c)
  BY VisibleFacts
<1>2. \A l \in Level : b[l] \in {0, c[l]}
  BY DEF Agrees
<1> HIDE DEF c
<1> QED  BY <1>1, <1>2, FewerLevels

(* What a book agrees with does not change when the venue's goes on.       *)
LEMMA AgreesStill ==
  ASSUME NEW k, NEW h \in Seq(Book), NEW g \in Seq(Book), Len(h) <= Len(g),
         \A i \in 1 .. Len(h) : g[i] = h[i],
         NEW s \in 1 .. Len(h), NEW v \in 1 .. Len(h), NEW b, Agrees(b, k, h, s, v)
  PROVE  Agrees(b, k, g, s, v)
<1>1. g[v] = h[v] /\ g[s] = h[s]
  OBVIOUS
<1>2. \A i \in (s + 1) .. v : i \in 1 .. Len(h) /\ i - 1 \in 1 .. Len(h)
  OBVIOUS
<1>3. \A i \in (s + 1) .. v : g[i] = h[i] /\ g[i - 1] = h[i - 1]
  BY <1>2
<1> QED  BY <1>1, <1>3 DEF Agrees

(* An update applied to a book of the period it tells of gives the final   *)
(* one: the bridging rule of the synchronizer.                             *)
LEMMA UpdateApplied ==
  ASSUME NEW k, k # "KRAKEN", NEW h \in Seq(Book), NEW m, TrueUpdate(m, k, h),
         NEW v \in Nat, Within(v, m), NEW s \in Nat, NEW b \in Book, Agrees(b, k, h, s, v)
  PROVE  /\ Agrees(ApplyLevels(b, m.levels), k, h, s, m.final)
         /\ DOMAIN m.levels = {} => Agrees(b, k, h, s, m.final)
<1> DEFINE f == m.final
           c == ApplyLevels(b, m.levels)
<1>1. f \in 1 .. Len(h) /\ v \in (m.first - 1) .. f /\ m.first \in 2 .. Len(h)
  BY DEF TrueUpdate, Within
<1>2. \A l \in Level : IF l \in DOMAIN m.levels THEN m.levels[l] = h[f][l]
                       ELSE \A i \in (m.first - 1) .. f : h[i][l] = h[f][l]
  BY DEF TrueUpdate
<1>3. \A l \in Level : c[l] = IF l \in DOMAIN m.levels THEN m.levels[l] ELSE b[l]
  BY DEF ApplyLevels
<1>4. \A x : VisibleTo(k, x) = x
  BY DEF VisibleTo
<1> HIDE DEF f, c
<1>5. ASSUME NEW l \in Level, l \notin DOMAIN m.levels
      PROVE  \/ b[l] = h[f][l]
             \/ /\ b[l] = 0 /\ k = "BINANCE" /\ BestLevels(h[s], SnapshotDepth)[l] # h[s][l]
                /\ \A i \in (s + 1) .. f : h[i][l] = h[i - 1][l]
  <2>1. \A i \in (m.first - 1) .. f : h[i][l] = h[f][l]
    BY <1>2, <1>5
  <2>2. CASE b[l] = h[v][l]
    BY <1>1, <2>1, <2>2
  <2>3. CASE b[l] # h[v][l]
    <3>1. /\ b[l] = 0 /\ k = "BINANCE" /\ BestLevels(h[s], SnapshotDepth)[l] # h[s][l]
          /\ \A i \in (s + 1) .. v : h[i][l] = h[i - 1][l]
      BY <1>4, <2>3 DEF Agrees
    <3>2. ASSUME NEW i \in (s + 1) .. f
          PROVE  h[i][l] = h[i - 1][l]
      <4>1. CASE i <= v
        BY <3>1, <4>1
      <4>2. CASE i > v
        <5>1. i \in (m.first - 1) .. f /\ i - 1 \in (m.first - 1) .. f
          BY <1>1, <4>2
        <5> QED  BY <2>1, <5>1
      <4> QED  BY <4>1, <4>2
    <3> QED  BY <3>1, <3>2
  <2> QED  BY <2>2, <2>3
<1>6. Agrees(c, k, h, s, f)
  BY <1>2, <1>3, <1>4, <1>5 DEF Agrees
<1>7. ASSUME DOMAIN m.levels = {} PROVE Agrees(b, k, h, s, f)
  BY <1>4, <1>5, <1>7 DEF Agrees
<1> QED  BY <1>6, <1>7 DEF f, c

-----------------------------------------------------------------------------
(* What the venue sends is true.                                           *)

(* What no step has changed is what it was.                                *)
LEMMA Unmoved ==
  ASSUME NEW f, NEW a \in Nat, NEW b \in Nat, a <= b,
         \A i \in (a + 1) .. b : f[i] = f[i - 1]
  PROVE  \A i \in a .. b : f[i] = f[b]
<1> DEFINE T == {n \in Nat : n <= b - a => f[b - n] = f[b]}
<1>1. 0 \in T
  OBVIOUS
<1>2. ASSUME NEW n \in Nat, n \in T
      PROVE  n + 1 \in T
  <2>1. CASE n + 1 <= b - a
    <3>1. b - n \in (a + 1) .. b /\ (b - n) - 1 = b - (n + 1) /\ n <= b - a
      BY <2>1
    <3>2. f[b - n] = f[(b - n) - 1]
      BY <3>1
    <3>3. f[b - n] = f[b]
      BY <1>2, <3>1
    <3>4. f[b - (n + 1)] = f[b]
      BY <3>1, <3>2, <3>3
    <3> QED  BY <3>4
  <2>2. CASE ~(n + 1 <= b - a)
    BY <2>2
  <2> QED  BY <2>1, <2>2
<1>3. \A n \in Nat : n \in T
  <2> HIDE DEF T
  <2> QED  BY <1>1, <1>2, SetInduction
<1> TAKE i \in a .. b
<1>4. b - i \in T /\ b - i <= b - a /\ b - (b - i) = i
  BY <1>3
<1>5. f[b - (b - i)] = f[b]
  BY <1>4
<1> QED  BY <1>4, <1>5

LEMMA UpdateIsTrue ==
  ASSUME history \in Seq(Book), NEW a \in 2 .. Now, NEW b \in a .. Now
  PROVE  Update(a, b) \in Message /\ TrueUpdate(Update(a, b), kind, history)
<1> DEFINE u == Update(a, b)
           lv == [l \in Named(a, b) |-> history[b][l]]
<1>1. /\ u = [type |-> "update", first |-> a, final |-> b, levels |-> lv,
              checksum |-> Visible(history[b])]
  BY DEF Update
<1>2. /\ Now \in Nat /\ b \in 1 .. Now /\ a - 1 \in 1 .. Now /\ a \in Nat /\ b \in Nat
      /\ history[b] \in Book
  BY DEF Now
<1>3. Named(a, b) \subseteq Level
  BY DEF Named
<1>4. lv \in [Named(a, b) -> 0 .. MaxQuantity] /\ DOMAIN lv = Named(a, b)
  BY <1>2, <1>3 DEF Book
<1>5. lv \in Changed
  <2> HIDE DEF lv
  <2> QED  BY <1>3, <1>4 DEF Changed
<1>6. Visible(history[b]) = VisibleTo(kind, history[b]) /\ Visible(history[b]) \in Book
  BY <1>2, VisibleIs, VisibleFacts
<1>7. ASSUME kind # "KRAKEN", NEW l \in Level
      PROVE  IF l \in DOMAIN lv THEN lv[l] = history[b][l]
             ELSE \A i \in (a - 1) .. b : history[i][l] = history[b][l]
  <2>1. CASE l \in Named(a, b)
    BY <2>1
  <2>2. CASE l \notin Named(a, b)
    <3> DEFINE c == a - 1
    <3>1. \A i \in a .. b : history[i][l] = history[i - 1][l]
      BY <1>7, <2>2 DEF Named
    <3>2. c \in Nat /\ c <= b /\ b \in Nat /\ c + 1 = a
      BY <1>2
    <3>3. \A i \in c .. b : history[i][l] = history[b][l]
      <4> DEFINE f == [i \in Nat |-> history[i][l]]
      <4>1. \A i \in Nat : f[i] = history[i][l]
        OBVIOUS
      <4> HIDE DEF c, f
      <4>2. \A i \in (c + 1) .. b : f[i] = f[i - 1]
        BY <3>1, <3>2, <4>1
      <4>3. \A i \in c .. b : f[i] = f[b]
        BY <3>2, <4>2, Unmoved
      <4> QED  BY <3>2, <4>1, <4>3
    <3> QED  BY <2>2, <3>3
  <2> QED  BY <2>1, <2>2
<1> HIDE DEF lv, u
<1>8. u \in Message
  BY <1>1, <1>2, <1>5, <1>6 DEF Message
<1>9. u.type = "update" /\ u.first = a /\ u.final = b /\ u.levels = lv
      /\ u.checksum = VisibleTo(kind, history[b])
  BY <1>1, <1>6
<1>10. TrueUpdate(u, kind, history)
  BY <1>7, <1>9 DEF TrueUpdate, VisibleTo, Now
<1> QED  BY <1>8, <1>10 DEF u

LEMMA SnapshotIsTrue ==
  ASSUME history \in Seq(Book), NEW a \in 1 .. Now
  PROVE  Snapshot(a) \in Message /\ TrueSnapshot(Snapshot(a), kind, history)
<1>1. history[a] \in Book /\ a \in Nat
  BY DEF Now
<1>2. Visible(history[a]) = VisibleTo(kind, history[a]) /\ VisibleTo(kind, history[a]) \in Book
  BY <1>1, VisibleIs, VisibleFacts
<1> QED  BY <1>1, <1>2 DEF Snapshot, Message, TrueSnapshot, Now

(* A message stays true when the venue's book goes on.                     *)
LEMMA StaysTrue ==
  ASSUME NEW h \in Seq(Book), NEW g \in Seq(Book), Len(h) <= Len(g),
         \A i \in 1 .. Len(h) : g[i] = h[i], NEW k, NEW m
  PROVE  /\ TrueUpdate(m, k, h) => TrueUpdate(m, k, g)
         /\ TrueSnapshot(m, k, h) => TrueSnapshot(m, k, g)
<1>1. ASSUME TrueUpdate(m, k, h)
      PROVE  TrueUpdate(m, k, g)
  <2>1. /\ m.first \in 2 .. Len(h) /\ m.final \in m.first .. Len(h) /\ m.final \in 1 .. Len(h)
        /\ m.first \in 2 .. Len(g) /\ m.final \in m.first .. Len(g)
    BY <1>1 DEF TrueUpdate
  <2>2. \A i \in (m.first - 1) .. m.final : i \in 1 .. Len(h)
    BY <2>1
  <2> QED  BY <1>1, <2>1, <2>2 DEF TrueUpdate
<1>2. ASSUME TrueSnapshot(m, k, h)
      PROVE  TrueSnapshot(m, k, g)
  BY <1>2 DEF TrueSnapshot
<1> QED  BY <1>1, <1>2

-----------------------------------------------------------------------------
(* The stream.                                                             *)

LEMMA MessageFields ==
  ASSUME NEW m \in Message
  PROVE  /\ m.final \in Nat
         /\ m.type = "update" => m.first \in Nat /\ m.levels \in Changed /\ m.checksum \in Book
         /\ m.type = "snapshot" => m.levels \in Book
         /\ m.type \in {"update", "snapshot"}
  BY DEF Message

LEMMA TailFacts ==
  ASSUME NEW S, NEW q \in Seq(S), q # <<>>
  PROVE  /\ Tail(q) \in Seq(S) /\ Len(Tail(q)) = Len(q) - 1 /\ Len(q) \in Nat \ {0}
         /\ Head(q) = q[1] /\ q[1] \in S
         /\ \A i \in 1 .. (Len(q) - 1) : Tail(q)[i] = q[i + 1]
  OBVIOUS

(* The rest of a chain is a chain from its first message on.               *)
LEMMA ChainTail ==
  ASSUME NEW q \in Seq(Message), q # <<>>, NEW from, NEW upto, Chain(q, from, upto)
  PROVE  Chain(Tail(q), q[1].final, upto)
<1>1. /\ Len(Tail(q)) = Len(q) - 1 /\ Len(q) \in Nat \ {0}
      /\ \A i \in 1 .. (Len(q) - 1) : Tail(q)[i] = q[i + 1]
  BY TailFacts
<1>2. CASE Len(q) = 1
  BY <1>1, <1>2 DEF Chain
<1>3. CASE Len(q) > 1
  <2>1. 1 \in 1 .. (Len(q) - 1) /\ Len(q) - 1 \in 1 .. (Len(q) - 1)
    BY <1>1, <1>3
  <2>2. Tail(q)[1] = q[1 + 1] /\ Tail(q)[Len(q) - 1] = q[(Len(q) - 1) + 1]
    BY <1>1, <2>1
  <2>3. (Len(q) - 1) + 1 = Len(q)
    BY <1>1
  <2>4. \A i \in 1 .. (Len(q) - 1) : q[i + 1].first = q[i].final + 1
    BY <1>1 DEF Chain
  <2>5. q[1 + 1].first = q[1].final + 1 /\ q[Len(q)].final = upto
    BY <1>1, <2>1, <2>4 DEF Chain
  <2>6. Tail(q)[1].first = q[1].final + 1 /\ Tail(q)[Len(q) - 1].final = upto
    BY <2>2, <2>3, <2>5
  <2>7. ASSUME NEW i \in 1 .. (Len(q) - 2)
        PROVE  Tail(q)[i + 1].first = Tail(q)[i].final + 1
    <3>1. i \in 1 .. (Len(q) - 1) /\ i + 1 \in 1 .. (Len(q) - 1)
      BY <1>1
    <3> QED  BY <1>1, <2>4, <3>1
  <2>8. (Len(q) - 1) - 1 = Len(q) - 2 /\ Len(q) - 1 # 0
    BY <1>1, <1>3
  <2> QED  BY <1>1, <2>6, <2>7, <2>8 DEF Chain
<1> QED  BY <1>1, <1>2, <1>3

(* A message for what has happened since goes on with it.                  *)
LEMMA ChainAppend ==
  ASSUME NEW q \in Seq(Message), NEW from, NEW upto, Chain(q, from, upto),
         NEW m \in Message, m.first = upto + 1
  PROVE  Chain(Append(q, m), from, m.final)
<1> DEFINE n == Len(q)
           r == Append(q, m)
<1>1. /\ n \in Nat /\ Len(r) = n + 1 /\ r[n + 1] = m
      /\ \A i \in 1 .. n : r[i] = q[i]
  BY AppendFacts
<1> HIDE DEF n, r
<1>2. CASE n = 0
  <2>1. from = upto /\ r[1] = m
    BY <1>1, <1>2 DEF Chain, n
  <2>2. \A i \in 1 .. ((n + 1) - 1) : FALSE
    BY <1>2
  <2> QED  BY <1>1, <1>2, <2>1, <2>2 DEF Chain, r
<1>3. CASE n # 0
  <2>1. 1 \in 1 .. n /\ n \in 1 .. n
    BY <1>1, <1>3
  <2>2. /\ q[1].first = from + 1 /\ q[n].final = upto
        /\ \A i \in 1 .. (n - 1) : q[i + 1].first = q[i].final + 1
    BY <1>3 DEF Chain, n
  <2>3. r[1].first = from + 1
    BY <1>1, <2>1, <2>2
  <2>4. ASSUME NEW i \in 1 .. n
        PROVE  r[i + 1].first = r[i].final + 1
    <3>1. CASE i = n
      BY <1>1, <2>1, <2>2, <3>1
    <3>2. CASE i # n
      <4>1. i \in 1 .. (n - 1) /\ i + 1 \in 1 .. n
        BY <1>1, <3>2
      <4> QED  BY <1>1, <2>2, <4>1
    <3> QED  BY <3>1, <3>2
  <2>5. (n + 1) - 1 = n /\ n + 1 # 0
    BY <1>1
  <2> QED  BY <1>1, <2>3, <2>4, <2>5 DEF Chain, r
<1> QED  BY <1>2, <1>3

-----------------------------------------------------------------------------
(* Init.                                                                   *)

LEMMA Initially == Init => IInv
<1> SUFFICES ASSUME Init PROVE IInv
  OBVIOUS
<1>1. PICK b \in InitialBooks : history = <<b>>
  BY DEF Init
<1>2. b \in Book /\ ~Crossed(b)
  BY MarketAssumption
<1>3. history \in Seq(Book) /\ Len(history) = 1 /\ history[1] = b
  BY <1>1, <1>2
<1>4. NoLevels \in Book
  BY MarketAssumption DEF NoLevels, Book
<1>5. /\ kind \in Kinds /\ streamed = 1 /\ stream = <<>> /\ conn = "down"
      /\ status = "WaitingForSnapshot" /\ last_update_id = 0 /\ normalized_sequence = 0
      /\ local = NoLevels
      /\ book = [levels |-> NoLevels, sequence |-> 0, synchronized |-> FALSE]
      /\ version = 0 /\ base = 0 /\ silent = 0 /\ lost = FALSE /\ faults = 0
  BY DEF Init
<1>6. TypeOK
  <2>1. book \in [levels : Book, sequence : Nat, synchronized : BOOLEAN] /\ lost \in BOOLEAN
    BY <1>4, <1>5
  <2>2. Now \in 1 .. MaxUpdates /\ streamed \in 1 .. MaxUpdates
        /\ version \in 0 .. MaxUpdates /\ last_update_id \in 0 .. MaxUpdates
        /\ base \in 0 .. MaxUpdates /\ faults \in 0 .. MaxFaults /\ normalized_sequence \in Nat /\ silent \in Nat
    BY <1>3, <1>5, MarketAssumption DEF Now
  <2> QED  BY <1>3, <1>4, <1>5, <2>1, <2>2 DEF TypeOK
<1>7. Told
  <2>1. stream \in Seq(Message) /\ Len(stream) = 0
    BY <1>5
  <2>2. \A i \in 1 .. Len(stream) : FALSE
    BY <2>1
  <2>3. \A i \in 1 .. Now : i = 1
    BY <1>3 DEF Now
  <2> QED  BY <1>2, <1>3, <1>5, <2>1, <2>2, <2>3 DEF Told, Now
<1>8. Fed
  BY <1>5 DEF Fed, VenueBook
<1>9. Chained
  BY <1>5 DEF Chained
<1> QED  BY <1>6, <1>7, <1>8, <1>9 DEF IInv

-----------------------------------------------------------------------------
(* The venue and the network.                                              *)

LEMMA VenueChangesKeeps ==
  ASSUME IInv, VenueChanges
  PROVE  IInv'
<1>1. PICK l \in Level, n \in 0 .. MaxQuantity :
        /\ ~Crossed([Last(history) EXCEPT ![l] = n])
        /\ history' = Append(history, [Last(history) EXCEPT ![l] = n])
  BY DEF VenueChanges
<1> DEFINE b == [Last(history) EXCEPT ![l] = n]
<1>2. /\ Now < MaxUpdates
      /\ UNCHANGED <<kind, streamed, stream, conn, syncVars, normalized_sequence,
                     local, book, version, base, silent, lost, faults>>
  BY DEF VenueChanges
<1>3. history \in Seq(Book) /\ Now \in 1 .. MaxUpdates /\ Now = Len(history)
  BY DEF IInv, TypeOK, Now
<1>4. Last(history) \in Book
  BY <1>3 DEF Last
<1>5. b \in Book /\ ~Crossed(b) /\ history' = Append(history, b)
  BY <1>1, <1>4 DEF Book
<1> HIDE DEF b
<1>6. /\ history' \in Seq(Book) /\ Len(history') = Len(history) + 1
      /\ history'[Len(history) + 1] = b
      /\ \A i \in 1 .. Len(history) : history'[i] = history[i]
  BY <1>3, <1>5, AppendFacts
<1>7. Len(history) \in Nat /\ Len(history) <= Len(history')
  BY <1>3, <1>6
<1>8. Now' = Now + 1
  BY <1>3, <1>6 DEF Now
<1>9. TypeOK'
  BY <1>2, <1>3, <1>6, <1>8, MarketAssumption DEF IInv, TypeOK, syncVars
<1>10. Told'
  <2>1. /\ stream' \in Seq(Message) /\ streamed' <= Now'
    BY <1>2, <1>3, <1>8, MarketAssumption DEF IInv, Told, TypeOK
  <2>2. \A i \in 1 .. Now' : ~Crossed(history'[i])
    <3>1. \A i \in 1 .. Len(history) : ~Crossed(history[i])
      BY DEF IInv, Told, Now
    <3>2. \A i \in 1 .. (Len(history) + 1) : i \in 1 .. Len(history) \/ i = Len(history) + 1
      BY <1>7
    <3> QED  BY <1>3, <1>5, <1>6, <1>8, <3>1, <3>2
  <2>3. ASSUME NEW i \in 1 .. Len(stream)
        PROVE  \/ TrueUpdate(stream[i], kind, history')
               \/ /\ i = 1 /\ conn = "waiting" /\ kind # "BINANCE"
                  /\ TrueSnapshot(stream[i], kind, history')
    <3>1. \/ TrueUpdate(stream[i], kind, history)
          \/ /\ i = 1 /\ conn = "waiting" /\ kind # "BINANCE"
             /\ TrueSnapshot(stream[i], kind, history)
      BY DEF IInv, Told
    <3>2. /\ TrueUpdate(stream[i], kind, history) => TrueUpdate(stream[i], kind, history')
          /\ TrueSnapshot(stream[i], kind, history) => TrueSnapshot(stream[i], kind, history')
      BY <1>3, <1>6, <1>7, StaysTrue
    <3> QED  BY <3>1, <3>2
  <2> QED  BY <1>2, <2>1, <2>2, <2>3 DEF Told
<1>11. Fed'
  <2>1. book.synchronized =>
          /\ version \in 1 .. Now /\ version \in 1 .. Now'
          /\ base \in 1 .. Now /\ base \in 1 .. Now'
    BY <1>3, <1>8, MarketAssumption DEF IInv, Fed
  <2>2. VenueBook(book, kind, history, base, version, lost)
    BY DEF IInv, Fed
  <2>3. VenueBook(book, kind, history', base, version, lost)
    BY <1>3, <1>6, <1>7, <2>1, <2>2, AgreesStill DEF VenueBook
  <2> QED  BY <1>2, <2>1, <2>3 DEF IInv, Fed, syncVars
<1>12. Chained'
  BY <1>2 DEF IInv, Chained
<1> QED  BY <1>9, <1>10, <1>11, <1>12 DEF IInv

LEMMA VenueSendsKeeps ==
  ASSUME IInv, VenueSends
  PROVE  IInv'
<1> DEFINE m == Update(streamed + 1, Now)
<1>1. /\ conn # "down" /\ streamed < Now /\ stream' = Append(stream, m) /\ streamed' = Now
      /\ UNCHANGED <<venueVars, conn, syncVars, normalized_sequence, local, book,
                     version, base, silent, lost, faults>>
  BY DEF VenueSends
<1>2. history \in Seq(Book) /\ Now \in 1 .. MaxUpdates /\ streamed \in 1 .. MaxUpdates
  BY DEF IInv, TypeOK
<1>3. streamed + 1 \in 2 .. Now /\ Now \in (streamed + 1) .. Now
  BY <1>1, <1>2, MarketAssumption
<1>4. m \in Message /\ TrueUpdate(m, kind, history)
  BY <1>2, <1>3, UpdateIsTrue
<1>5. m.first = streamed + 1 /\ m.final = Now
  BY DEF Update
<1> HIDE DEF m
<1>6. stream \in Seq(Message)
  BY DEF IInv, Told
<1>7. /\ stream' \in Seq(Message) /\ Len(stream') = Len(stream) + 1 /\ Len(stream) \in Nat
      /\ stream'[Len(stream) + 1] = m
      /\ \A i \in 1 .. Len(stream) : stream'[i] = stream[i]
  BY <1>1, <1>4, <1>6, AppendFacts
<1>8. Now' = Now /\ history' = history /\ kind' = kind
  BY <1>1 DEF Now, venueVars
<1>9. TypeOK'
  BY <1>1, <1>2, <1>8 DEF IInv, TypeOK, syncVars
<1>10. Told'
  <2>1. ASSUME NEW i \in 1 .. (Len(stream) + 1)
        PROVE  \/ TrueUpdate(stream'[i], kind, history)
               \/ /\ i = 1 /\ conn = "waiting" /\ kind # "BINANCE"
                  /\ TrueSnapshot(stream'[i], kind, history)
    <3>1. CASE i = Len(stream) + 1
      BY <1>4, <1>7, <3>1
    <3>2. CASE i # Len(stream) + 1
      <4>1. i \in 1 .. Len(stream)
        BY <1>7, <3>2
      <4> QED  BY <1>7, <4>1 DEF IInv, Told
    <3> QED  BY <3>1, <3>2
  <2>2. Now <= Now
    BY <1>2
  <2> QED  BY <1>1, <1>7, <1>8, <2>1, <2>2 DEF IInv, Told
<1>11. Fed'
  BY <1>1, <1>8 DEF IInv, Fed, syncVars
<1>12. Chained'
  <2>1. CASE kind # "COINBASE"
    BY <1>8, <2>1 DEF Chained
  <2>2. CASE kind = "COINBASE" /\ conn = "live"
    <3>1. ~lost => Chain(stream, version, streamed)
      BY <2>2 DEF IInv, Chained
    <3>2. ~lost => Chain(stream', version, Now)
      BY <1>1, <1>4, <1>5, <1>6, <3>1, ChainAppend
    <3> QED  BY <1>1, <1>8, <2>2, <3>2 DEF Chained
  <2>3. CASE kind = "COINBASE" /\ conn = "waiting"
    <3>1. SnapshotFirst(stream) => Chain(Tail(stream), stream[1].final, streamed)
      BY <2>3 DEF IInv, Chained
    <3>2. ~lost => SnapshotFirst(stream)
      BY <2>3 DEF IInv, Chained
    <3>3. CASE SnapshotFirst(stream)
      <4>1. Tail(stream) \in Seq(Message) /\ stream # <<>>
        BY <1>6, <3>3 DEF SnapshotFirst
      <4>2. Chain(Append(Tail(stream), m), stream[1].final, Now)
        BY <1>4, <1>5, <3>1, <3>3, <4>1, ChainAppend
      <4>3. Tail(Append(stream, m)) = Append(Tail(stream), m)
        BY <1>4, <1>6, <4>1
      <4>4. stream'[1] = stream[1] /\ SnapshotFirst(stream')
        BY <1>7, <3>3 DEF SnapshotFirst
      <4> QED  BY <1>1, <1>8, <2>3, <4>2, <4>3, <4>4 DEF Chained
    <3>4. CASE ~SnapshotFirst(stream)
      <4>1. ~SnapshotFirst(stream')
        <5>1. CASE Len(stream) = 0
          <6>1. stream'[1] = m /\ m.type = "update"
            BY <1>4, <1>7, <5>1 DEF TrueUpdate
          <6> QED  BY <6>1 DEF SnapshotFirst
        <5>2. CASE Len(stream) # 0
          <6>1. stream'[1] = stream[1] /\ Len(stream) > 0
            BY <1>7, <5>2
          <6> QED  BY <3>4, <6>1 DEF SnapshotFirst
        <5> QED  BY <5>1, <5>2
      <4> QED  BY <1>1, <1>8, <2>3, <3>2, <3>4, <4>1 DEF Chained
    <3> QED  BY <3>3, <3>4
  <2> QED  BY <1>1, <2>1, <2>2, <2>3 DEF IInv, TypeOK
<1> QED  BY <1>9, <1>10, <1>11, <1>12 DEF IInv

(* Only updates are lost: a snapshot stays where it is.                    *)
LEMMA LoseKeeps ==
  ASSUME IInv, Lose
  PROVE  IInv'
<1>1. PICK j \in DOMAIN stream : stream[j].type = "update" /\ stream' = RemoveAt(stream, j)
  BY DEF Lose
<1>2. /\ faults < MaxFaults /\ faults' = faults + 1
      /\ kind # "COINBASE"
      /\ UNCHANGED <<venueVars, streamed, conn, syncVars, normalized_sequence, local,
                     book, version, base, silent, lost>>
  BY DEF Lose
<1>3. Now' = Now /\ history' = history /\ kind' = kind
  BY <1>2 DEF Now, venueVars
<1>4. stream \in Seq(Message) /\ Len(stream) \in Nat /\ j \in 1 .. Len(stream)
  BY <1>1 DEF IInv, Told
<1>5. /\ stream' \in Seq(Message) /\ Len(stream') = Len(stream) - 1
      /\ \A i \in 1 .. (Len(stream) - 1) :
           stream'[i] = IF i < j THEN stream[i] ELSE stream[i + 1]
  BY <1>1, <1>4, RemoveAtFacts
<1>6. TypeOK'
  <2>1. faults + 1 \in 0 .. MaxFaults
    BY <1>2, MarketAssumption DEF IInv, TypeOK
  <2> QED  BY <1>2, <1>3, <2>1 DEF IInv, TypeOK, syncVars
<1>7. Told'
  <2>1. ASSUME NEW i \in 1 .. (Len(stream) - 1)
        PROVE  \/ TrueUpdate(stream'[i], kind, history)
               \/ /\ i = 1 /\ conn = "waiting" /\ kind # "BINANCE"
                  /\ TrueSnapshot(stream'[i], kind, history)
    <3>1. CASE i < j
      <4>1. i \in 1 .. Len(stream) /\ stream'[i] = stream[i]
        BY <1>4, <1>5, <3>1
      <4> QED  BY <4>1 DEF IInv, Told
    <3>2. CASE ~(i < j)
      <4>1. i + 1 \in 1 .. Len(stream) /\ stream'[i] = stream[i + 1] /\ i + 1 # 1
        BY <1>4, <1>5, <3>2
      <4> QED  BY <4>1 DEF IInv, Told
    <3> QED  BY <3>1, <3>2
  <2> QED  BY <1>2, <1>3, <1>5, <2>1 DEF IInv, Told
<1>8. Fed'
  BY <1>2, <1>3 DEF IInv, Fed, syncVars
<1>9. Chained'
  BY <1>2, <1>3 DEF Chained
<1> QED  BY <1>6, <1>7, <1>8, <1>9 DEF IInv

(* Nothing is said of a connection that is down.                           *)
LEMMA DisconnectKeeps ==
  ASSUME IInv, Disconnect
  PROVE  IInv'
<1>1. /\ faults < MaxFaults /\ faults' = faults + 1 /\ conn' = "down" /\ stream' = <<>>
      /\ UNCHANGED <<venueVars, streamed, syncVars, normalized_sequence, local, book,
                     version, base, silent, lost>>
  BY DEF Disconnect, Throw
<1>2. Now' = Now /\ history' = history /\ kind' = kind
  BY <1>1 DEF Now, venueVars
<1>3. TypeOK'
  <2>1. faults + 1 \in 0 .. MaxFaults
    BY <1>1, MarketAssumption DEF IInv, TypeOK
  <2> QED  BY <1>1, <1>2, <2>1 DEF IInv, TypeOK, syncVars
<1>4. Told'
  <2>1. stream' \in Seq(Message) /\ \A i \in 1 .. Len(stream') : FALSE
    BY <1>1
  <2> QED  BY <1>1, <1>2, <2>1 DEF IInv, Told
<1>5. Fed' /\ Chained'
  BY <1>1, <1>2 DEF IInv, Fed, Chained
<1> QED  BY <1>3, <1>4, <1>5 DEF IInv

-----------------------------------------------------------------------------
(* A new connection and its snapshot.                                      *)

LEMMA ReconnectedKeeps ==
  ASSUME IInv, Reconnected,
         \/ stream' = <<>> /\ kind = "BINANCE"
         \/ stream' = <<Snapshot(Now)>> /\ kind # "BINANCE"
  PROVE  IInv'
<1>1. /\ conn' = "waiting" /\ streamed' = Now
      /\ status' = "WaitingForSnapshot" /\ last_update_id' = 0
      /\ normalized_sequence' = IF kind = "COINBASE" THEN normalized_sequence ELSE 0
      /\ local' = NoLevels /\ silent' = 0
      /\ UNCHANGED <<venueVars, book, version, base, lost, faults>>
  BY DEF Reconnected
<1>2. Now' = Now /\ history' = history /\ kind' = kind
  BY <1>1 DEF Now, venueVars
<1>3. history \in Seq(Book) /\ Now \in 1 .. MaxUpdates
  BY DEF IInv, TypeOK
<1>4. TypeOK'
  <2>1. NoLevels \in Book /\ 0 \in 0 .. MaxUpdates /\ 0 \in Nat
    BY MarketAssumption DEF NoLevels, Book
  <2> QED  BY <1>1, <1>2, <1>3, <2>1 DEF IInv, TypeOK
<1>5. /\ Snapshot(Now) \in Message /\ TrueSnapshot(Snapshot(Now), kind, history)
  BY <1>3, MarketAssumption, SnapshotIsTrue
<1>6. stream' \in Seq(Message)
  <2>1. <<>> \in Seq(Message) /\ \A m \in Message : <<m>> \in Seq(Message)
    OBVIOUS
  <2> QED  BY <1>5, <2>1
<1>7. Told'
  <2>1. \A i \in 1 .. Len(stream') :
          i = 1 /\ kind # "BINANCE" /\ TrueSnapshot(stream'[i], kind, history)
    <3>1. CASE stream' = <<>>
      BY <3>1
    <3>2. CASE stream' = <<Snapshot(Now)>> /\ kind # "BINANCE"
      BY <1>5, <3>2
    <3> QED  BY <3>1, <3>2
  <2>2. Now <= Now
    BY <1>3
  <2> QED  BY <1>1, <1>2, <1>6, <2>1, <2>2 DEF IInv, Told
<1>8. Fed'
  BY <1>1, <1>2 DEF IInv, Fed
<1>9. Chained'
  <2>1. ASSUME kind = "COINBASE"
        PROVE  /\ SnapshotFirst(stream')
               /\ Chain(Tail(stream'), stream'[1].final, Now)
    <3>1. stream' = <<Snapshot(Now)>>
      BY <2>1
    <3>2. Len(stream') = 1 /\ stream'[1] = Snapshot(Now) /\ Len(Tail(stream')) = 0
      BY <1>6, <3>1
    <3>3. stream'[1].final = Now /\ stream'[1].type = "snapshot"
      BY <3>2 DEF Snapshot
    <3> QED  BY <3>2, <3>3 DEF Chain, SnapshotFirst
  <2> QED  BY <1>1, <1>2, <2>1 DEF Chained
<1> QED  BY <1>4, <1>7, <1>8, <1>9 DEF IInv

LEMMA FetchSnapshotKeeps ==
  ASSUME IInv, FetchSnapshot
  PROVE  IInv'
<1>1. PICK id \in 1 .. Now : /\ book' = BookFrom(Limited(id))
                             /\ last_update_id' = id /\ version' = id /\ base' = id
  BY DEF FetchSnapshot
<1>2. /\ kind = "BINANCE" /\ conn = "waiting"
      /\ status' = "Synchronizing" /\ normalized_sequence' = 0 /\ conn' = "live"
      /\ UNCHANGED <<venueVars, streamed, stream, local, silent, lost, faults>>
  BY DEF FetchSnapshot
<1>3. Now' = Now /\ history' = history /\ kind' = kind
  BY <1>2 DEF Now, venueVars
<1>4. history \in Seq(Book) /\ Now \in 1 .. MaxUpdates /\ id \in 0 .. MaxUpdates
  BY MarketAssumption DEF IInv, TypeOK
<1>5. Limited(id) \in Book /\ Agrees(Limited(id), kind, history, id, id)
  <2>1. history[id] \in Book
    BY <1>4 DEF Now
  <2>2. /\ Limited(id) \in Book
        /\ \A l \in Level : Limited(id)[l] \in {0, history[id][l]}
        /\ Limited(id) = BestLevels(history[id], SnapshotDepth)
    BY <2>1, BestFacts DEF Limited
  <2>3. \A i \in (id + 1) .. id : FALSE
    BY <1>4
  <2>4. VisibleTo(kind, history[id]) = history[id]
    BY <1>2 DEF VisibleTo
  <2> QED  BY <1>2, <2>2, <2>3, <2>4 DEF Agrees
<1>6. /\ book'.levels = Limited(id) /\ book'.sequence = 0
      /\ book'.synchronized = TRUE
      /\ book' \in [levels : Book, sequence : Nat, synchronized : BOOLEAN]
  BY <1>1, <1>5 DEF BookFrom
<1>7. TypeOK'
  BY <1>1, <1>2, <1>3, <1>4, <1>6 DEF IInv, TypeOK
<1>8. Told'
  BY <1>2, <1>3 DEF IInv, Told
<1>9. Fed'
  <2>1. silent = 0 /\ (lost => kind = "COINBASE")
    BY <1>2 DEF IInv, Fed
  <2>2. VenueBook(book', kind, history, id, id, lost)
    BY <1>5, <1>6 DEF VenueBook
  <2> QED  BY <1>1, <1>2, <1>3, <1>6, <2>1, <2>2 DEF Fed
<1>10. Chained'
  BY <1>2, <1>3 DEF Chained
<1> QED  BY <1>7, <1>8, <1>9, <1>10 DEF IInv

LEMMA ReadSnapshotKeeps ==
  ASSUME IInv, ReadSnapshot
  PROVE  IInv'
<1> DEFINE m == stream[1]
<1>1. /\ kind # "BINANCE" /\ conn = "waiting" /\ stream # <<>>
      /\ Head(stream).type = "snapshot"
      /\ local' = IF kind = "KRAKEN" THEN TrimToDepth(Head(stream).levels) ELSE local
      /\ book' = BookFrom(IF kind = "KRAKEN" THEN local' ELSE Head(stream).levels)
      /\ version' = Head(stream).final /\ base' = Head(stream).final
      /\ normalized_sequence' = 0
      /\ stream' = Tail(stream) /\ conn' = "live" /\ lost' = FALSE
      /\ UNCHANGED <<venueVars, streamed, syncVars, silent, faults>>
  BY DEF ReadSnapshot, NormalizedSnapshot
<1>2. Now' = Now /\ history' = history /\ kind' = kind
  BY <1>1 DEF Now, venueVars
<1>3. /\ stream \in Seq(Message) /\ history \in Seq(Book) /\ Now \in 1 .. MaxUpdates
  BY DEF IInv, Told, TypeOK
<1>4. /\ Tail(stream) \in Seq(Message) /\ Len(Tail(stream)) = Len(stream) - 1
      /\ Len(stream) \in Nat \ {0} /\ Head(stream) = m /\ m \in Message
      /\ \A i \in 1 .. (Len(stream) - 1) : Tail(stream)[i] = stream[i + 1]
  BY <1>1, <1>3, TailFacts
<1>5. TrueSnapshot(m, kind, history)
  <2>1. 1 \in 1 .. Len(stream)
    BY <1>4
  <2>2. TrueUpdate(m, kind, history) \/ TrueSnapshot(m, kind, history)
    BY <2>1 DEF IInv, Told
  <2> QED  BY <1>1, <1>4, <2>2 DEF TrueUpdate
<1>6. m.final \in 1 .. Now /\ m.levels = VisibleTo(kind, history[m.final])
  BY <1>5 DEF TrueSnapshot, Now
<1>7. history[m.final] \in Book
  BY <1>3, <1>6 DEF Now
<1>8. /\ m.levels \in Book
      /\ kind = "KRAKEN" => TrimToDepth(m.levels) = m.levels
  BY <1>6, <1>7, VisibleFacts
<1> HIDE DEF m
<1>9. /\ book'.levels = m.levels /\ book'.sequence = 0 /\ book'.synchronized = TRUE
      /\ book' \in [levels : Book, sequence : Nat, synchronized : BOOLEAN]
      /\ kind = "KRAKEN" => local' = m.levels
      /\ local' \in Book
  <2>1. local \in Book
    BY DEF IInv, TypeOK
  <2>2. book' = BookFrom(m.levels) /\ local' = IF kind = "KRAKEN" THEN m.levels ELSE local
    BY <1>1, <1>4, <1>8
  <2> QED  BY <1>8, <2>1, <2>2 DEF BookFrom
<1>10. TypeOK'
  <2>1. m.final \in 0 .. MaxUpdates
    BY <1>3, <1>6, MarketAssumption
  <2> QED  BY <1>1, <1>2, <1>3, <1>4, <1>9, <2>1 DEF IInv, TypeOK, syncVars
<1>11. Told'
  <2>1. ASSUME NEW i \in 1 .. (Len(stream) - 1)
        PROVE  TrueUpdate(Tail(stream)[i], kind, history)
    <3>1. i + 1 \in 1 .. Len(stream) /\ i + 1 # 1
      BY <1>4
    <3> QED  BY <1>4, <3>1 DEF IInv, Told
  <2> QED  BY <1>1, <1>2, <1>4, <2>1 DEF IInv, Told
<1>12. Fed'
  <2>1. kind # "COINBASE" => silent = 0
    BY <1>1 DEF IInv, Fed
  <2>2. VenueBook(book', kind, history, m.final, m.final, FALSE)
    <3>1. m.final \in 1 .. Len(history)
      BY <1>6 DEF Now
    <3>2. Agrees(m.levels, kind, history, m.final, m.final)
      BY <1>3, <1>6, <1>8, <3>1, AgreesExactly
    <3> QED  BY <1>9, <3>2 DEF VenueBook
  <2>3. /\ VenueBook(book', kind', history', base', version', lost')
        /\ version' \in 1 .. Now' /\ base' \in 1 .. Now'
    BY <1>1, <1>2, <1>4, <1>6, <2>2
  <2>4. /\ book'.synchronized /\ normalized_sequence' = 0 /\ book'.sequence = 0
        /\ (kind' # "COINBASE" => silent' = 0) /\ conn' = "live" /\ ~lost'
    BY <1>1, <1>2, <1>9, <2>1
  <2>5. 0 = 0 + 0
    OBVIOUS
  <2>6. kind' # "BINANCE" /\ (kind' = "KRAKEN" => local' = book'.levels)
    BY <1>1, <1>2, <1>9
  <2> QED  BY <2>3, <2>4, <2>5, <2>6 DEF Fed
<1>13. Chained'
  <2>1. ASSUME kind = "COINBASE"
        PROVE  Chain(Tail(stream), m.final, streamed)
    <3>1. SnapshotFirst(stream)
      BY <1>1, <1>4 DEF SnapshotFirst
    <3> QED  BY <1>1, <2>1, <3>1 DEF IInv, Chained, m
  <2> QED  BY <1>1, <1>2, <1>4, <2>1 DEF Chained
<1> QED  BY <1>10, <1>11, <1>12, <1>13 DEF IInv

-----------------------------------------------------------------------------
(* The updates.                                                            *)

LEMMA AppliedIsBook ==
  ASSUME NEW b \in Book, NEW lv \in Changed
  PROVE  ApplyLevels(b, lv) \in Book
<1>1. PICK D \in SUBSET Level : lv \in [D -> 0 .. MaxQuantity]
  BY DEF Changed
<1>2. \A l \in Level : (IF l \in DOMAIN lv THEN lv[l] ELSE b[l]) \in 0 .. MaxQuantity
  BY <1>1 DEF Book
<1> QED  BY <1>2 DEF ApplyLevels, Book

(* What a hand-over does: the book takes the batch or the feed throws.     *)
LEMMA HandedOver ==
  ASSUME book \in [levels : Book, sequence : Nat, synchronized : BOOLEAN],
         NEW n \in Nat, NEW lv, NEW id, HandOver(n, lv, id)
  PROVE  \/ /\ book.synchronized /\ n = book.sequence + 1
            /\ book'.levels = ApplyLevels(book.levels, lv)
            /\ book'.sequence = n /\ book'.synchronized
            /\ (ApplyLevels(book.levels, lv) \in Book =>
                  book' \in [levels : Book, sequence : Nat, synchronized : BOOLEAN])
            /\ version' = id /\ stream' = Tail(stream) /\ conn' = conn
         \/ /\ ~Accepts(n, lv)
            /\ book'.levels = book.levels /\ book'.synchronized = FALSE
            /\ book' \in [levels : Book, sequence : Nat, synchronized : BOOLEAN]
            /\ version' = version /\ stream' = <<>> /\ conn' = "down"
<1>1. CASE Accepts(n, lv)
  <2>1. /\ book' = [book EXCEPT !.levels = ApplyLevels(@, lv), !.sequence = n]
        /\ version' = id /\ stream' = Tail(stream) /\ conn' = conn
    BY <1>1 DEF HandOver
  <2> DEFINE b == ApplyLevels(book.levels, lv)
  <2>2. book' = [book EXCEPT !.levels = b, !.sequence = n]
    BY <2>1
  <2>3. book.synchronized /\ n = book.sequence + 1
    BY <1>1 DEF Accepts
  <2> HIDE DEF b
  <2>4. book' = [levels |-> b, sequence |-> n, synchronized |-> book.synchronized]
    BY <2>2
  <2>5. /\ book'.levels = b /\ book'.sequence = n /\ book'.synchronized
        /\ (b \in Book => book' \in [levels : Book, sequence : Nat, synchronized : BOOLEAN])
    BY <2>3, <2>4
  <2> QED  BY <2>1, <2>3, <2>5 DEF b
<1>2. CASE ~Accepts(n, lv)
  <2>1. /\ book' = [book EXCEPT !.synchronized = FALSE]
        /\ version' = version /\ stream' = <<>> /\ conn' = "down"
    BY <1>2 DEF HandOver, Throw
  <2> QED  BY <1>2, <2>1
<1> QED  BY <1>1, <1>2

(* The updates a feed reads are true, and a live one reads nothing else.   *)
LEMMA HeadIsTrue ==
  ASSUME IInv, conn = "live" \/ Head(stream).type = "update", stream # <<>>
  PROVE  /\ Head(stream) = stream[1] /\ Head(stream) \in Message
         /\ TrueUpdate(Head(stream), kind, history)
         /\ Head(stream).final \in 1 .. Now /\ Head(stream).first \in 2 .. Now
         /\ Head(stream).levels \in Changed
<1>1. stream \in Seq(Message)
  BY DEF IInv, Told
<1>2. Head(stream) = stream[1] /\ stream[1] \in Message /\ 1 \in 1 .. Len(stream)
  BY <1>1
<1>3. TrueUpdate(stream[1], kind, history)
  BY <1>2 DEF IInv, Told, TrueSnapshot
<1>4. stream[1].final \in 1 .. Now /\ stream[1].first \in 2 .. Now /\ stream[1].type = "update"
  BY <1>3 DEF TrueUpdate, Now
<1> QED  BY <1>2, <1>3, <1>4, MessageFields

LEMMA ToldTail ==
  ASSUME IInv, UNCHANGED <<venueVars, streamed>>, stream # <<>>,
         stream' \in {<<>>, Tail(stream)}
  PROVE  Told' /\ Now' = Now /\ history' = history /\ kind' = kind /\ ~SnapshotFirst(stream')
<1>1. Now' = Now /\ history' = history /\ kind' = kind /\ streamed' = streamed
  BY DEF Now, venueVars
<1>2. stream \in Seq(Message)
  BY DEF IInv, Told
<1>3. /\ Tail(stream) \in Seq(Message) /\ Len(Tail(stream)) = Len(stream) - 1
      /\ Len(stream) \in Nat \ {0}
      /\ \A i \in 1 .. (Len(stream) - 1) : Tail(stream)[i] = stream[i + 1]
  BY <1>2, TailFacts
<1>4. ASSUME NEW i \in 1 .. (Len(stream) - 1)
      PROVE  TrueUpdate(Tail(stream)[i], kind, history)
  <2>1. i + 1 \in 1 .. Len(stream) /\ i + 1 # 1
    BY <1>3
  <2> QED  BY <1>3, <2>1 DEF IInv, Told
<1>5. stream' \in Seq(Message) /\ \A i \in 1 .. Len(stream') : TrueUpdate(stream'[i], kind, history)
  <2>1. CASE stream' = <<>>
    BY <2>1
  <2>2. CASE stream' = Tail(stream)
    BY <1>3, <1>4, <2>2
  <2> QED  BY <2>1, <2>2
<1>6. ~SnapshotFirst(stream')
  <2>1. ASSUME Len(stream') > 0 PROVE stream'[1].type = "update"
    <3>1. 1 \in 1 .. Len(stream')
      BY <1>5, <2>1
    <3> QED  BY <1>5, <3>1 DEF TrueUpdate
  <2> QED  BY <2>1 DEF SnapshotFirst
<1> QED  BY <1>1, <1>5, <1>6 DEF IInv, Told

(* A skipped message leaves the rest true; nothing is said of the book     *)
(* until the next snapshot.                                                *)
LEMMA SkipUnparsedKeeps ==
  ASSUME IInv, SkipUnparsed
  PROVE  IInv'
<1>1. /\ kind = "COINBASE" /\ stream # <<>> /\ faults < MaxFaults
      /\ stream' = Tail(stream) /\ faults' = faults + 1 /\ lost' = TRUE
      /\ UNCHANGED <<venueVars, streamed, conn, syncVars, normalized_sequence, local,
                     book, version, base, silent>>
  BY DEF SkipUnparsed
<1>2. /\ Told' /\ Now' = Now /\ history' = history /\ kind' = kind
      /\ ~SnapshotFirst(stream')
  BY <1>1, ToldTail
<1>3. TypeOK'
  <2>1. faults + 1 \in 0 .. MaxFaults
    BY <1>1, MarketAssumption DEF IInv, TypeOK
  <2> QED  BY <1>1, <1>2, <2>1 DEF IInv, TypeOK, syncVars
<1>4. Fed'
  BY <1>1, <1>2 DEF IInv, Fed, VenueBook, syncVars
<1>5. Chained'
  BY <1>1, <1>2 DEF Chained
<1> QED  BY <1>2, <1>3, <1>4, <1>5 DEF IInv

(* A book is not refused what is a book of the venue and has its number.   *)
Refusal ==
  book.synchronized /\ ~book'.synchronized /\ ~lost => silent > 0 /\ kind # "COINBASE"

LEMMA BinanceSkips ==
  ASSUME IInv, BinanceStale \/ BinanceGap
  PROVE  IInv' /\ Refusal
<1>1. /\ kind = "BINANCE" /\ conn = "live" /\ stream # <<>>
      /\ stream' \in {<<>>, Tail(stream)}
      /\ UNCHANGED <<venueVars, streamed, last_update_id, normalized_sequence, local,
                     book, version, base, silent, lost, faults>>
      /\ \/ status' = status /\ conn' = conn
         \/ status' = "Stale" /\ conn' = "down"
  BY DEF BinanceStale, BinanceGap, Throw, Reads, syncVars
<1>2. Told' /\ Now' = Now /\ history' = history /\ kind' = kind
  BY <1>1, ToldTail
<1>3. TypeOK'
  BY <1>1, <1>2 DEF IInv, TypeOK
<1>4. Fed' /\ Chained'
  BY <1>1, <1>2 DEF IInv, Fed, Chained
<1>5. Refusal
  BY <1>1 DEF Refusal
<1> QED  BY <1>2, <1>3, <1>4, <1>5 DEF IInv

LEMMA BinanceUpdateKeeps ==
  ASSUME IInv, BinanceUpdate
  PROVE  IInv' /\ Refusal
<1> DEFINE m == Head(stream)
<1>1. /\ kind = "BINANCE" /\ conn = "live" /\ stream # <<>>
      /\ m.final > last_update_id /\ m.first <= last_update_id + 1
      /\ status' = "Synchronized" /\ last_update_id' = m.final
      /\ normalized_sequence' = normalized_sequence + 1
      /\ IF m.levels = <<>>
         THEN PassOver(m.final)
         ELSE HandOver(normalized_sequence + 1, m.levels, m.final) /\ silent' = silent
      /\ UNCHANGED <<venueVars, streamed, local, base, lost, faults>>
  BY DEF BinanceUpdate, Reads, Bridges
<1>2. /\ TrueUpdate(m, kind, history) /\ m.levels \in Changed
      /\ m.final \in 1 .. Now /\ m.first \in 2 .. Now
  BY <1>1, HeadIsTrue
<1> HIDE DEF m
<1>3. /\ history \in Seq(Book) /\ Now \in 1 .. MaxUpdates /\ normalized_sequence \in Nat
      /\ book \in [levels : Book, sequence : Nat, synchronized : BOOLEAN] /\ silent \in Nat
      /\ version \in 0 .. MaxUpdates /\ version \in Nat /\ base \in Nat /\ book.levels \in Book
  BY DEF IInv, TypeOK
<1>4. /\ book.synchronized /\ ~lost /\ last_update_id = version /\ version \in 1 .. Now
      /\ Agrees(book.levels, kind, history, base, version) /\ base \in 1 .. Now
      /\ normalized_sequence = book.sequence + silent
  BY <1>1 DEF IInv, Fed, VenueBook
<1>5. Within(version, m)
  <2>1. m.final > version /\ m.first <= version + 1
    BY <1>1, <1>4
  <2>2. m.final \in Int /\ m.first \in Int /\ version \in Int
    BY <1>2, <1>3
  <2> QED  BY <2>1, <2>2 DEF Within
<1>6. /\ Agrees(ApplyLevels(book.levels, m.levels), kind, history, base, m.final)
      /\ DOMAIN m.levels = {} => Agrees(book.levels, kind, history, base, m.final)
  <2>1. kind # "KRAKEN"
    BY <1>1
  <2> QED  BY <1>2, <1>3, <1>4, <1>5, <2>1, UpdateApplied
<1>7. /\ ApplyLevels(book.levels, m.levels) \in Book
      /\ ~Crossed(ApplyLevels(book.levels, m.levels))
  <2>1. m.final \in 1 .. Len(history) /\ ~Crossed(history[m.final])
    BY <1>2 DEF IInv, Told, Now
  <2>2. ApplyLevels(book.levels, m.levels) \in Book
    BY <1>2, <1>3, AppliedIsBook
  <2> QED  BY <1>3, <1>6, <2>1, <2>2, AgreesUncrossed
<1>8. m.final \in 0 .. MaxUpdates /\ normalized_sequence + 1 \in Nat
  BY <1>2, <1>3, MarketAssumption
<1>9. CASE m.levels = <<>>
  <2>1. /\ stream' = Tail(stream) /\ silent' = silent + 1 /\ version' = m.final
        /\ conn' = conn /\ book' = book
    BY <1>1, <1>9 DEF PassOver
  <2>2. Told' /\ Now' = Now /\ history' = history /\ kind' = kind
    BY <1>1, <2>1, ToldTail
  <2>3. Agrees(book.levels, kind, history, base, m.final)
    <3>1. DOMAIN m.levels = {}
      BY <1>9
    <3> QED  BY <1>6, <3>1
  <2>4. TypeOK'
    BY <1>1, <1>3, <1>8, <2>1, <2>2 DEF IInv, TypeOK
  <2>5. VenueBook(book, kind, history, base, m.final, lost)
    BY <2>3 DEF VenueBook
  <2>6. normalized_sequence + 1 = book.sequence + (silent + 1)
    BY <1>3, <1>4
  <2>7. Fed' /\ Chained'
    BY <1>1, <1>2, <1>4, <2>1, <2>2, <2>5, <2>6 DEF Fed, Chained
  <2> QED  BY <2>1, <2>2, <2>4, <2>7 DEF IInv, Refusal
<1>10. CASE m.levels # <<>>
  <2>1. HandOver(normalized_sequence + 1, m.levels, m.final) /\ silent' = silent
    BY <1>1, <1>10
  <2> DEFINE n == normalized_sequence + 1
  <2>2. n \in Nat /\ HandOver(n, m.levels, m.final) /\ normalized_sequence' = n
        /\ n = book.sequence + silent + 1
    BY <1>1, <1>3, <1>4, <1>8, <2>1
  <2> HIDE DEF n
  <2>3. CASE /\ n = book.sequence + 1
             /\ book'.levels = ApplyLevels(book.levels, m.levels)
             /\ book'.sequence = n /\ book'.synchronized
             /\ (ApplyLevels(book.levels, m.levels) \in Book =>
                   book' \in [levels : Book, sequence : Nat, synchronized : BOOLEAN])
             /\ version' = m.final /\ stream' = Tail(stream) /\ conn' = conn
    <3>1. Told' /\ Now' = Now /\ history' = history /\ kind' = kind
      BY <1>1, <2>3, ToldTail
    <3>2. silent = 0 /\ n = n + silent
      BY <1>3, <2>2, <2>3
    <3>3. VenueBook(book', kind, history, base, m.final, lost)
      BY <1>6, <2>3 DEF VenueBook
    <3>4. TypeOK'
      BY <1>1, <1>3, <1>6, <1>7, <1>8, <2>1, <2>2, <2>3, <3>1 DEF IInv, TypeOK
    <3>5. Fed' /\ Chained'
      BY <1>1, <1>2, <1>4, <2>1, <2>2, <2>3, <3>1, <3>2, <3>3 DEF Fed, Chained
    <3> QED  BY <2>3, <3>1, <3>4, <3>5 DEF IInv, Refusal
  <2>4. CASE /\ ~Accepts(n, m.levels)
             /\ book'.levels = book.levels /\ book'.synchronized = FALSE
             /\ book' \in [levels : Book, sequence : Nat, synchronized : BOOLEAN]
             /\ version' = version /\ stream' = <<>> /\ conn' = "down"
    <3>1. Told' /\ Now' = Now /\ history' = history /\ kind' = kind
      BY <1>1, <2>4, ToldTail
    <3>2. n # book.sequence + 1
      BY <1>4, <1>7, <2>4 DEF Accepts
    <3>3. silent > 0
      BY <1>3, <2>2, <3>2
    <3>4. TypeOK'
      BY <1>1, <1>3, <1>8, <2>1, <2>2, <2>4, <3>1 DEF IInv, TypeOK
    <3>5. Fed' /\ Chained'
      BY <1>1, <1>4, <2>4, <3>1 DEF Fed, Chained, VenueBook
    <3>6. Refusal
      BY <1>1, <3>3 DEF Refusal
    <3> QED  BY <3>1, <3>4, <3>5, <3>6 DEF IInv
  <2> QED  BY <1>3, <2>2, <2>3, <2>4, HandedOver
<1> QED  BY <1>9, <1>10

(* Kraken: the checksum makes the local copy the venue's best levels.      *)
LEMMA KrakenUpdateKeeps ==
  ASSUME IInv, KrakenUpdate
  PROVE  IInv' /\ Refusal
<1> DEFINE m == Head(stream)
           next == TrimToDepth(ApplyLevels(local, m.levels))
           updates == Difference(local, next)
<1>1. /\ kind = "KRAKEN" /\ conn = "live" /\ stream # <<>> /\ local' = next
      /\ IF next # m.checksum
         THEN /\ Throw
              /\ UNCHANGED <<normalized_sequence, book, version, silent>>
         ELSE /\ normalized_sequence' = normalized_sequence + 1
              /\ IF updates = <<>>
                 THEN PassOver(m.final)
                 ELSE /\ HandOver(normalized_sequence + 1, updates, m.final)
                      /\ silent' = silent
      /\ UNCHANGED <<venueVars, streamed, syncVars, base, lost, faults>>
  BY DEF KrakenUpdate, Reads
<1>2. /\ TrueUpdate(m, kind, history) /\ m.levels \in Changed
      /\ m.final \in 1 .. Now
  BY <1>1, HeadIsTrue
<1>3. /\ history \in Seq(Book) /\ Now \in 1 .. MaxUpdates /\ normalized_sequence \in Nat
      /\ book \in [levels : Book, sequence : Nat, synchronized : BOOLEAN] /\ silent \in Nat
      /\ version \in 0 .. MaxUpdates /\ local \in Book
  BY DEF IInv, TypeOK
<1>4. next \in Book
  BY <1>2, <1>3, AppliedIsBook, TrimFacts
<1>5. ApplyLevels(local, updates) = next /\ (DOMAIN updates = {} => local = next)
  BY <1>3, <1>4, DifferenceApplied
<1> HIDE DEF m, next, updates
<1>6. /\ book.synchronized /\ ~lost /\ version \in 1 .. Now /\ local = book.levels
      /\ base \in 1 .. Now
      /\ normalized_sequence = book.sequence + silent
  BY <1>1 DEF IInv, Fed
<1>7. history[m.final] \in Book /\ ~Crossed(history[m.final])
  BY <1>2, <1>3 DEF IInv, Told, Now
<1>8. m.checksum = VisibleTo(kind, history[m.final]) /\ ~Crossed(m.checksum)
  <2>1. m.checksum = TrimToDepth(history[m.final])
    BY <1>1, <1>2 DEF TrueUpdate
  <2> QED  BY <1>1, <1>7, <2>1, TrimFacts DEF VisibleTo
<1>9. m.final \in 0 .. MaxUpdates /\ normalized_sequence + 1 \in Nat
  BY <1>2, <1>3, MarketAssumption
<1>13. next = m.checksum => Agrees(next, kind, history, base, m.final)
  <2>1. m.final \in 1 .. Len(history)
    BY <1>2 DEF Now
  <2> QED  BY <1>3, <1>4, <1>8, <2>1, AgreesExactly
<1>10. CASE next # m.checksum
  <2>1. /\ stream' = <<>> /\ conn' = "down"
        /\ UNCHANGED <<normalized_sequence, book, version, silent>>
    BY <1>1, <1>10 DEF Throw
  <2>2. Told' /\ Now' = Now /\ history' = history /\ kind' = kind
    BY <1>1, <2>1, ToldTail
  <2>3. TypeOK'
    BY <1>1, <1>4, <2>1, <2>2 DEF IInv, TypeOK, syncVars
  <2>4. Fed' /\ Chained'
    BY <1>1, <2>1, <2>2 DEF IInv, Fed, Chained
  <2> QED  BY <2>1, <2>2, <2>3, <2>4 DEF IInv, Refusal
<1>11. CASE next = m.checksum /\ updates = <<>>
  <2>1. /\ stream' = Tail(stream) /\ silent' = silent + 1 /\ version' = m.final
        /\ conn' = conn /\ book' = book /\ normalized_sequence' = normalized_sequence + 1
    BY <1>1, <1>11 DEF PassOver
  <2>2. Told' /\ Now' = Now /\ history' = history /\ kind' = kind
    BY <1>1, <2>1, ToldTail
  <2>3. local = next
    <3>1. DOMAIN updates = {}
      BY <1>11
    <3> QED  BY <1>5, <3>1
  <2>4. TypeOK'
    BY <1>1, <1>3, <1>4, <1>9, <2>1, <2>2 DEF IInv, TypeOK, syncVars
  <2>5. VenueBook(book, kind, history, base, m.final, lost)
    BY <1>6, <1>11, <1>13, <2>3 DEF VenueBook
  <2>6. normalized_sequence + 1 = book.sequence + (silent + 1)
    BY <1>3, <1>6
  <2>7. Fed' /\ Chained'
    BY <1>1, <1>2, <1>6, <2>1, <2>2, <2>3, <2>5, <2>6 DEF Fed, Chained
  <2> QED  BY <2>1, <2>2, <2>4, <2>7 DEF IInv, Refusal
<1>12. CASE next = m.checksum /\ updates # <<>>
  <2> DEFINE n == normalized_sequence + 1
  <2>1. n \in Nat /\ HandOver(n, updates, m.final) /\ normalized_sequence' = n
        /\ n = book.sequence + silent + 1 /\ silent' = silent
    BY <1>1, <1>3, <1>6, <1>9, <1>12
  <2> HIDE DEF n
  <2>2. ApplyLevels(book.levels, updates) = next
    BY <1>5, <1>6
  <2>3. CASE /\ n = book.sequence + 1
             /\ book'.levels = ApplyLevels(book.levels, updates)
             /\ book'.sequence = n /\ book'.synchronized
             /\ (ApplyLevels(book.levels, updates) \in Book =>
                   book' \in [levels : Book, sequence : Nat, synchronized : BOOLEAN])
             /\ version' = m.final /\ stream' = Tail(stream) /\ conn' = conn
    <3>1. Told' /\ Now' = Now /\ history' = history /\ kind' = kind
      BY <1>1, <2>3, ToldTail
    <3>2. silent = 0 /\ n = n + silent
      BY <1>3, <2>1, <2>3
    <3>3. VenueBook(book', kind, history, base, m.final, lost)
      BY <1>12, <1>13, <2>2, <2>3 DEF VenueBook
    <3>4. TypeOK'
      BY <1>1, <1>3, <1>4, <1>9, <2>1, <2>2, <2>3, <3>1 DEF IInv, TypeOK, syncVars
    <3>5. Fed' /\ Chained'
      BY <1>1, <1>2, <1>6, <2>1, <2>2, <2>3, <3>1, <3>2, <3>3 DEF Fed, Chained
    <3> QED  BY <2>3, <3>1, <3>4, <3>5 DEF IInv, Refusal
  <2>4. CASE /\ ~Accepts(n, updates)
             /\ book'.levels = book.levels /\ book'.synchronized = FALSE
             /\ book' \in [levels : Book, sequence : Nat, synchronized : BOOLEAN]
             /\ version' = version /\ stream' = <<>> /\ conn' = "down"
    <3>1. Told' /\ Now' = Now /\ history' = history /\ kind' = kind
      BY <1>1, <2>4, ToldTail
    <3>2. n # book.sequence + 1
      BY <1>6, <1>8, <1>12, <2>2, <2>4 DEF Accepts
    <3>3. silent > 0
      BY <1>3, <2>1, <3>2
    <3>4. TypeOK'
      BY <1>1, <1>3, <1>4, <1>9, <2>1, <2>4, <3>1 DEF IInv, TypeOK, syncVars
    <3>5. Fed' /\ Chained'
      BY <1>1, <1>6, <2>4, <3>1 DEF Fed, Chained, VenueBook
    <3>6. Refusal
      BY <1>1, <3>3 DEF Refusal
    <3> QED  BY <3>1, <3>4, <3>5, <3>6 DEF IInv
  <2> QED  BY <1>3, <2>1, <2>3, <2>4, HandedOver
<1> QED  BY <1>10, <1>11, <1>12

(* Coinbase: as long as nothing was skipped, the next message goes on      *)
(* where the book stands.                                                  *)
LEMMA CoinbaseUpdateKeeps ==
  ASSUME IInv, CoinbaseUpdate
  PROVE  IInv' /\ Refusal
<1> DEFINE m == Head(stream)
<1>1. /\ kind = "COINBASE" /\ conn # "down" /\ stream # <<>> /\ m.type = "update"
      /\ ~book.synchronized =>
           /\ stream' = Tail(stream)
           /\ UNCHANGED <<conn, normalized_sequence, book, version, silent>>
      /\ book.synchronized /\ m.levels = <<>> =>
           PassOver(m.final) /\ normalized_sequence' = normalized_sequence
      /\ book.synchronized /\ m.levels # <<>> =>
           /\ normalized_sequence' = normalized_sequence + 1
           /\ HandOver(normalized_sequence + 1, m.levels, m.final)
           /\ silent' = silent
      /\ UNCHANGED <<venueVars, streamed, syncVars, local, base, lost, faults>>
  BY DEF CoinbaseUpdate
<1>2. /\ TrueUpdate(m, kind, history) /\ m.levels \in Changed /\ m = stream[1]
      /\ m.final \in 1 .. Now /\ m.first \in 2 .. Now
  BY <1>1, HeadIsTrue
<1>3. /\ history \in Seq(Book) /\ Now \in 1 .. MaxUpdates /\ normalized_sequence \in Nat
      /\ book \in [levels : Book, sequence : Nat, synchronized : BOOLEAN] /\ silent \in Nat
      /\ version \in 0 .. MaxUpdates /\ stream \in Seq(Message)
      /\ version \in Nat /\ base \in Nat /\ book.levels \in Book
      /\ book.synchronized \in BOOLEAN
  BY DEF IInv, TypeOK, Told
<1>14. m.type = "update"
  BY <1>1
<1> HIDE DEF m
<1>4. /\ conn = "live" => book.synchronized
      /\ book.synchronized =>
           /\ version \in 1 .. Now /\ base \in 1 .. Now
           /\ normalized_sequence = book.sequence
           /\ ~lost => Agrees(book.levels, kind, history, base, version)
  BY <1>1 DEF IInv, Fed, VenueBook
<1>5. ~lost => /\ conn = "live" /\ Chain(Tail(stream), m.final, streamed)
               /\ m.first = version + 1
  <2>0. ~lost => conn = "live"
    <3>1. ~SnapshotFirst(stream)
      BY <1>2, <1>14 DEF SnapshotFirst
    <3>2. conn \in {"waiting", "live"}
      BY <1>1 DEF IInv, TypeOK
    <3> QED  BY <1>1, <3>1, <3>2 DEF IInv, Chained
  <2>1. ~lost => Chain(stream, version, streamed)
    BY <1>1, <2>0 DEF IInv, Chained
  <2>2. Len(stream) # 0
    BY <1>1, <1>3
  <2>3. ~lost => Chain(Tail(stream), stream[1].final, streamed)
    BY <1>1, <1>3, <2>1, ChainTail
  <2>4. ~lost => stream[1].first = version + 1
    BY <2>1, <2>2 DEF Chain
  <2> QED  BY <1>2, <2>0, <2>1, <2>3, <2>4
<1>6. ASSUME ~lost
      PROVE  /\ Agrees(ApplyLevels(book.levels, m.levels), kind, history, base, m.final)
             /\ DOMAIN m.levels = {} => Agrees(book.levels, kind, history, base, m.final)
  <2>1. kind # "KRAKEN" /\ Agrees(book.levels, kind, history, base, version)
    BY <1>1, <1>4, <1>5, <1>6
  <2>2. Within(version, m)
    <3>1. m.first = version + 1 /\ m.first \in Int /\ version \in Int
      BY <1>2, <1>3, <1>5, <1>6
    <3>2. m.final \in Int /\ m.first <= m.final
      BY <1>2 DEF TrueUpdate
    <3> QED  BY <3>1, <3>2 DEF Within
  <2> QED  BY <1>2, <1>3, <2>1, <2>2, UpdateApplied
<1>7. /\ ApplyLevels(book.levels, m.levels) \in Book
      /\ ~lost => ~Crossed(ApplyLevels(book.levels, m.levels))
  <2>1. m.final \in 1 .. Len(history) /\ ~Crossed(history[m.final])
    BY <1>2 DEF IInv, Told, Now
  <2>2. ApplyLevels(book.levels, m.levels) \in Book
    BY <1>2, <1>3, AppliedIsBook
  <2> QED  BY <1>3, <1>6, <2>1, <2>2, AgreesUncrossed
<1>8. m.final \in 0 .. MaxUpdates /\ normalized_sequence + 1 \in Nat
  BY <1>2, <1>3, MarketAssumption
<1>15. stream' \in {<<>>, Tail(stream)} =>
         /\ Told' /\ Now' = Now /\ history' = history /\ kind' = kind
         /\ ~SnapshotFirst(stream')
  BY <1>1, ToldTail
<1>9. CASE ~book.synchronized
  <2>1. /\ stream' = Tail(stream)
        /\ UNCHANGED <<conn, normalized_sequence, book, version, silent>>
    BY <1>1, <1>9
  <2>2. /\ Told' /\ Now' = Now /\ history' = history /\ kind' = kind
        /\ ~SnapshotFirst(stream')
    BY <1>15, <2>1
  <2>3. TypeOK'
    BY <1>1, <2>1, <2>2 DEF IInv, TypeOK, syncVars
  <2>4. Fed'
    BY <1>1, <2>1, <2>2 DEF IInv, Fed, syncVars
  <2>5. Chained'
    BY <1>1, <1>4, <1>5, <1>9, <2>1, <2>2 DEF Chained
  <2> QED  BY <1>9, <2>2, <2>3, <2>4, <2>5 DEF IInv, Refusal
<1>10. CASE book.synchronized /\ m.levels = <<>>
  <2>1. /\ stream' = Tail(stream) /\ silent' = silent + 1 /\ version' = m.final
        /\ conn' = conn /\ book' = book /\ normalized_sequence' = normalized_sequence
    BY <1>1, <1>10 DEF PassOver
  <2>2. /\ Told' /\ Now' = Now /\ history' = history /\ kind' = kind
        /\ ~SnapshotFirst(stream')
    BY <1>15, <2>1
  <2>3. ~lost => Agrees(book.levels, kind, history, base, m.final)
    <3>1. DOMAIN m.levels = {}
      BY <1>10
    <3> QED  BY <1>6, <3>1
  <2>4. TypeOK'
    BY <1>1, <1>3, <1>8, <2>1, <2>2 DEF IInv, TypeOK, syncVars
  <2>5. VenueBook(book, kind, history, base, m.final, lost)
    BY <2>3 DEF VenueBook
  <2>6. Fed'
    BY <1>1, <1>2, <1>4, <1>10, <2>1, <2>2, <2>5 DEF IInv, Fed, syncVars
  <2>7. Chained'
    BY <1>1, <1>5, <2>1, <2>2 DEF Chained
  <2> QED  BY <2>1, <2>2, <2>4, <2>6, <2>7 DEF IInv, Refusal
<1>11. CASE book.synchronized /\ m.levels # <<>>
  <2> DEFINE n == normalized_sequence + 1
  <2>1. n \in Nat /\ HandOver(n, m.levels, m.final) /\ normalized_sequence' = n
        /\ n = book.sequence + 1 /\ silent' = silent
    BY <1>1, <1>3, <1>4, <1>8, <1>11
  <2> HIDE DEF n
  <2>3. CASE /\ n = book.sequence + 1
             /\ book'.levels = ApplyLevels(book.levels, m.levels)
             /\ book'.sequence = n /\ book'.synchronized
             /\ (ApplyLevels(book.levels, m.levels) \in Book =>
                   book' \in [levels : Book, sequence : Nat, synchronized : BOOLEAN])
             /\ version' = m.final /\ stream' = Tail(stream) /\ conn' = conn
    <3>1. /\ Told' /\ Now' = Now /\ history' = history /\ kind' = kind
          /\ ~SnapshotFirst(stream')
      BY <1>15, <2>3
    <3>2. VenueBook(book', kind, history, base, m.final, lost)
      BY <1>6, <2>3 DEF VenueBook
    <3>3. TypeOK'
      BY <1>1, <1>3, <1>7, <1>8, <2>1, <2>3, <3>1 DEF IInv, TypeOK, syncVars
    <3>4. Fed'
      <4>1. /\ kind' = "COINBASE" /\ book'.synchronized
            /\ normalized_sequence' = book'.sequence
        BY <1>1, <2>1, <2>3, <3>1
      <4>2. /\ version' \in 1 .. Now' /\ base' \in 1 .. Now'
            /\ VenueBook(book', kind', history', base', version', lost')
        BY <1>1, <1>2, <1>4, <1>11, <2>3, <3>1, <3>2
      <4> QED  BY <4>1, <4>2 DEF Fed
    <3>5. Chained'
      BY <1>1, <1>5, <2>3, <3>1 DEF Chained
    <3> QED  BY <2>3, <3>1, <3>3, <3>4, <3>5 DEF IInv, Refusal
  <2>4. CASE /\ ~Accepts(n, m.levels)
             /\ book'.levels = book.levels /\ book'.synchronized = FALSE
             /\ book' \in [levels : Book, sequence : Nat, synchronized : BOOLEAN]
             /\ version' = version /\ stream' = <<>> /\ conn' = "down"
    <3>1. Told' /\ Now' = Now /\ history' = history /\ kind' = kind
      BY <1>15, <2>4
    <3>2. lost
      BY <1>4, <1>7, <1>11, <2>1, <2>4 DEF Accepts
    <3>3. TypeOK'
      BY <1>1, <1>3, <1>8, <2>1, <2>4, <3>1 DEF IInv, TypeOK, syncVars
    <3>4. Fed' /\ Chained'
      BY <1>1, <2>4, <3>1 DEF Fed, Chained, VenueBook
    <3>5. Refusal
      BY <3>2 DEF Refusal
    <3> QED  BY <3>1, <3>3, <3>4, <3>5 DEF IInv
  <2> QED  BY <1>3, <2>1, <2>3, <2>4, HandedOver
<1> QED  BY <1>3, <1>9, <1>10, <1>11

-----------------------------------------------------------------------------
(* The theorems.                                                           *)

LEMMA StepKeeps ==
  ASSUME IInv, [Next]_vars
  PROVE  IInv' /\ Refusal
<1>1. CASE VenueChanges
  BY <1>1, VenueChangesKeeps DEF Refusal, VenueChanges
<1>2. CASE VenueSends
  BY <1>2, VenueSendsKeeps DEF Refusal, VenueSends
<1>3. CASE Lose
  BY <1>3, LoseKeeps DEF Refusal, Lose
<1>13. CASE SkipUnparsed
  BY <1>13, SkipUnparsedKeeps DEF Refusal, SkipUnparsed
<1>4. CASE Disconnect
  BY <1>4, DisconnectKeeps DEF Refusal, Disconnect
<1>5. CASE Connect \/ Subscribe
  <2>1. IInv'
    BY <1>5, ReconnectedKeeps DEF Connect, Subscribe
  <2>2. book' = book
    BY <1>5 DEF Connect, Subscribe, Reconnected
  <2> QED  BY <2>1, <2>2 DEF Refusal
<1>6. CASE FetchSnapshot
  <2>1. book'.synchronized
    BY <1>6 DEF FetchSnapshot, BookFrom
  <2> QED  BY <1>6, <2>1, FetchSnapshotKeeps DEF Refusal
<1>7. CASE ReadSnapshot
  <2>1. book'.synchronized
    BY <1>7 DEF ReadSnapshot, BookFrom
  <2> QED  BY <1>7, <2>1, ReadSnapshotKeeps DEF Refusal
<1>8. CASE BinanceStale \/ BinanceGap
  BY <1>8, BinanceSkips
<1>9. CASE BinanceUpdate
  BY <1>9, BinanceUpdateKeeps
<1>10. CASE KrakenUpdate
  BY <1>10, KrakenUpdateKeeps
<1>11. CASE CoinbaseUpdate
  BY <1>11, CoinbaseUpdateKeeps
<1>12. CASE UNCHANGED vars
  <2>1. /\ kind' = kind /\ history' = history /\ streamed' = streamed /\ stream' = stream
        /\ conn' = conn /\ status' = status /\ last_update_id' = last_update_id
        /\ normalized_sequence' = normalized_sequence /\ local' = local /\ book' = book
        /\ version' = version /\ base' = base /\ silent' = silent /\ lost' = lost /\ faults' = faults
    BY <1>12 DEF vars
  <2> QED  BY <2>1 DEF Refusal, IInv, TypeOK, Told, Fed, Chained, Now
<1> QED  BY <1>1, <1>2, <1>3, <1>4, <1>5, <1>6, <1>7, <1>8, <1>9, <1>10, <1>11, <1>12, <1>13
         DEF Next, FeedStep

LEMMA Invariance == Spec => []IInv
<1>1. IInv /\ [Next]_vars => IInv'
  BY StepKeeps
<1> QED  BY <1>1, Initially, PTL DEF Spec

(* The variables of the venue, the feed and its book keep their types, for *)
(* any prices, quantities and number of updates.                           *)
THEOREM TypeCorrect == Spec => []TypeOK
<1>1. IInv => TypeOK
  BY DEF IInv
<1> QED  BY <1>1, Invariance, PTL

(* A book that is marked synchronized is one the venue had, of whatever    *)
(* depth, whatever was lost, fetched late, evicted or skipped: what the    *)
(* bridging rule of Binance, the checksum of Kraken and, until a message   *)
(* is skipped, the order of Coinbase's messages are for.  Of a Binance     *)
(* book it says so but for the levels that the limit of the snapshot has   *)
(* cut off, which are missing until they change.                           *)
THEOREM BooksAreTrue == Spec => []BookIsVenueBook
<1>1. IInv => BookIsVenueBook
  BY VisibleIs DEF IInv, Fed, VenueBook, Agrees, BookIsVenueBook, NeverSeen, Limited
<1> QED  BY <1>1, Invariance, PTL

(* A book refuses what its feed accepted only when a message without       *)
(* changes has used up a number before, and a Coinbase book never does.    *)
THEOREM RefusalsExplained == Spec => RefusedOnlyAfterSilent
<1>1. IInv /\ [Next]_vars =>
        [book.synchronized /\ ~book'.synchronized /\ ~lost
           => silent > 0 /\ kind # "COINBASE"]_vars
  BY StepKeeps DEF Refusal
<1> QED  BY <1>1, Invariance, PTL DEF Spec, RefusedOnlyAfterSilent

=============================================================================
