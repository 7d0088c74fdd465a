----------------------------- MODULE AlgoProofs ------------------------------
(***************************************************************************)
(* What holds of the order tables for any number of jobs, children, legs   *)
(* and crashes, whatever the threads of the server write at the same time: *)
(* proofs about modules Oms and Algo.                                      *)
(***************************************************************************)
EXTENDS Algo, SequenceLemmas, FiniteSetTheorems, TLAPS

-----------------------------------------------------------------------------
(* Ids.                                                                    *)

(* A bounded set of numbers has a greatest element.                        *)
LEMMA MaxFacts ==
  ASSUME NEW n \in Nat, NEW S \in SUBSET (1 .. n), S # {}
  PROVE  Max(S) \in S /\ \A x \in S : Max(S) >= x
<1> DEFINE T == {n - x : x \in S}
<1>1. T \subseteq Nat /\ T # {}
  <2>1. \A x \in S : n - x \in Nat
    OBVIOUS
  <2> QED  BY <2>1
<1>2. PICK d \in T : \A e \in T : d <= e
  <2> HIDE DEF T
  <2> QED  BY <1>1, LeastElement
<1>3. PICK m \in S : d = n - m
  BY <1>2
<1>4. \A x \in S : m >= x
  <2> TAKE x \in S
  <2>1. n - m <= n - x /\ m \in Nat /\ x \in Nat
    BY <1>2, <1>3
  <2> QED  BY <2>1
<1> QED  BY <1>3, <1>4 DEF Max

(* The ids that are given out are fresh.                                   *)
LEMMA NextIdFacts ==
  ASSUME NEW n \in Nat, NEW f, DOMAIN f \subseteq 1 .. n
  PROVE  NextId(f) \in Nat \ {0} /\ NextId(f) \notin DOMAIN f
<1>1. CASE DOMAIN f = {}
  BY <1>1 DEF NextId
<1>2. CASE DOMAIN f # {}
  <2> DEFINE m == Max(DOMAIN f)
  <2>1. m \in DOMAIN f /\ \A x \in DOMAIN f : m >= x
    BY <1>2, MaxFacts
  <2>2. NextId(f) = 1 + m
    BY <1>2 DEF NextId
  <2> HIDE DEF m
  <2>3. m \in Nat /\ 1 + m \notin DOMAIN f
    BY <2>1
  <2> QED  BY <2>2, <2>3
<1> QED  BY <1>1, <1>2

(* The children of a parent can be put in order.                           *)
Rising(s) == \A i, j \in DOMAIN s : i < j => s[i] < s[j]
Sortable(n) ==
  \A S \in SUBSET Nat : IsFiniteSet(S) /\ Cardinality(S) = n =>
    \E s \in [1 .. n -> S] : Rising(s)

LEMMA AllSortable == \A n \in Nat : Sortable(n)
<1> DEFINE T == {n \in Nat : Sortable(n)}
<1>1. 0 \in T
  <2>1. ASSUME NEW S \in SUBSET Nat PROVE \E s \in [1 .. 0 -> S] : Rising(s)
    <3>1. [i \in 1 .. 0 |-> 0] \in [1 .. 0 -> S] /\ Rising([i \in 1 .. 0 |-> 0])
      BY DEF Rising
    <3> QED  BY <3>1
  <2> QED  BY <2>1 DEF Sortable
<1>2. ASSUME NEW n \in Nat, n \in T PROVE n + 1 \in T
  <2> SUFFICES ASSUME NEW S \in SUBSET Nat, IsFiniteSet(S), Cardinality(S) = n + 1
               PROVE  \E s \in [1 .. (n + 1) -> S] : Rising(s)
    BY DEF Sortable
  <2>1. S # {}
    BY FS_EmptySet
  <2>2. PICK m \in S : \A x \in S : m <= x
    BY <2>1, LeastElement
  <2> DEFINE R == S \ {m}
  <2>3. IsFiniteSet(R) /\ Cardinality(R) = n
    <3>1. IsFiniteSet(R) /\ Cardinality(R) = Cardinality(S) - 1
      BY FS_RemoveElement
    <3> QED  BY <3>1
  <2>4. R \in SUBSET Nat /\ \A x \in R : m < x
    BY <2>2
  <2> HIDE DEF R
  <2>5. PICK r \in [1 .. n -> R] : Rising(r)
    BY <1>2, <2>3, <2>4 DEF Sortable
  <2> DEFINE s == [i \in 1 .. (n + 1) |-> IF i = 1 THEN m ELSE r[i - 1]]
  <2>6. \A i \in 1 .. (n + 1) : i # 1 => i - 1 \in 1 .. n
    OBVIOUS
  <2>7. s \in [1 .. (n + 1) -> S]
    BY <2>5, <2>6 DEF R
  <2>8. ASSUME NEW i \in 1 .. (n + 1), NEW j \in 1 .. (n + 1), i < j PROVE s[i] < s[j]
    <3>1. j # 1 /\ j - 1 \in 1 .. n /\ s[j] = r[j - 1]
      BY <2>6, <2>8
    <3>2. CASE i = 1
      <4>1. s[i] = m /\ r[j - 1] \in R
        BY <2>5, <3>1, <3>2
      <4> QED  BY <2>4, <3>1, <4>1
    <3>3. CASE i # 1
      <4>1. i - 1 \in 1 .. n /\ i - 1 < j - 1 /\ s[i] = r[i - 1] /\ DOMAIN r = 1 .. n
        BY <2>5, <2>6, <2>8, <3>3
      <4>2. r[i - 1] < r[j - 1]
        BY <2>5, <3>1, <4>1 DEF Rising
      <4> QED  BY <3>1, <4>1, <4>2
    <3> QED  BY <3>2, <3>3
  <2>9. Rising(s)
    BY <2>8 DEF Rising
  <2> QED  BY <2>7, <2>9
<1>3. \A n \in Nat : n \in T
  <2> HIDE DEF T
  <2> QED  BY <1>1, <1>2, SetInduction
<1> QED  BY <1>3

LEMMA AscendingFacts ==
  ASSUME NEW n \in Nat, NEW S \in SUBSET (1 .. n)
  PROVE  Cardinality(S) \in Nat /\ Ascending(S) \in [1 .. Cardinality(S) -> S]
<1>1. IsFiniteSet(1 .. n)
  BY FS_Interval
<1>2. IsFiniteSet(S) /\ Cardinality(S) \in Nat
  BY <1>1, FS_Subset, FS_CardinalityType
<1>3. S \in SUBSET Nat
  OBVIOUS
<1> DEFINE m == Cardinality(S)
<1>4. \E s \in [1 .. m -> S] : Rising(s)
  BY <1>2, <1>3, AllSortable DEF Sortable
<1>5. Ascending(S) = CHOOSE s \in [1 .. m -> S] : Rising(s)
  BY DEF Ascending, Rising
<1> HIDE DEF m
<1>6. Ascending(S) \in [1 .. m -> S]
  BY <1>4, <1>5
<1> QED  BY <1>2, <1>6 DEF m

-----------------------------------------------------------------------------
(* What the threads still have to write.  A row refers to rows that are in *)
(* the tables or are written before it by the same thread.                 *)

Table == {"parents", "children", "fills", "drops", "jobs", "requests"}

IsParent(r) ==
  r = [quantity |-> r.quantity, filled |-> r.filled, remaining |-> r.remaining,
       status |-> r.status, child_ids |-> r.child_ids]
IsChild(r) ==
  r = [parent |-> r.parent, quantity |-> r.quantity, filled |-> r.filled,
       remaining |-> r.remaining, status |-> r.status]

There(d, list, i, table, id) ==
  \/ id \in DOMAIN d[table]
  \/ \E j \in 1 .. (i - 1) : list[j].table = table /\ list[j].id = id

RowFits(w) ==
  /\ w.table \in Table \cup {"positions"}
  /\ w.table = "parents" => IsParent(w.row) /\ w.id \in 1 .. MaxParents
  /\ w.table = "children" => IsChild(w.row) /\ w.id \in 1 .. MaxChildren

WriteBacked(d, list, i) ==
  LET w == list[i] IN
  /\ w.table = "children" => There(d, list, i, "parents", w.row.parent)
  /\ w.table = "fills" => There(d, list, i, "children", w.row.child)
  /\ w.table = "drops" => There(d, list, i, "fills", w.id)
  /\ w.table = "jobs" => There(d, list, i, "parents", w.id)
  /\ w.table = "requests" => There(d, list, i, "jobs", w.id)

IsList(list) == list \in Seq(ToSet(list))

Backed(d, list) ==
  /\ IsList(list)
  /\ \A i \in 1 .. Len(list) : RowFits(list[i]) /\ WriteBacked(d, list, i)

LEMMA SeqIsList ==
  ASSUME NEW S, NEW list \in Seq(S) PROVE IsList(list)
<1>1. Len(list) \in Nat /\ DOMAIN list = 1 .. Len(list)
      /\ list = [i \in 1 .. Len(list) |-> list[i]]
  OBVIOUS
<1>2. \A i \in 1 .. Len(list) : list[i] \in ToSet(list)
  BY <1>1 DEF ToSet
<1> DEFINE n == Len(list)
           T == ToSet(list)
<1>3. n \in Nat /\ list \in [1 .. n -> T]
  BY <1>1, <1>2
<1> HIDE DEF n, T
<1>4. list \in Seq(T)
  BY <1>3
<1> QED  BY <1>4 DEF IsList, T

LEMMA ConcatLists ==
  ASSUME NEW a, NEW b, IsList(a), IsList(b)
  PROVE  /\ IsList(a \o b) /\ Len(a) \in Nat /\ Len(b) \in Nat
         /\ Len(a \o b) = Len(a) + Len(b)
         /\ \A i \in 1 .. Len(a) : (a \o b)[i] = a[i]
         /\ \A i \in 1 .. Len(b) : (a \o b)[Len(a) + i] = b[i]
<1> DEFINE S == ToSet(a) \cup ToSet(b)
<1>1. a \in Seq(S) /\ b \in Seq(S)
  BY DEF IsList
<1> HIDE DEF S
<1>2. /\ a \o b \in Seq(S) /\ Len(a) \in Nat /\ Len(b) \in Nat
      /\ Len(a \o b) = Len(a) + Len(b)
      /\ \A i \in 1 .. Len(a) : (a \o b)[i] = a[i]
      /\ \A i \in 1 .. Len(b) : (a \o b)[Len(a) + i] = b[i]
  BY <1>1
<1> QED  BY <1>2, SeqIsList

(* A callback's writes go behind those the thread has not done yet.        *)
LEMMA ConcatBacked ==
  ASSUME NEW d, NEW a, NEW b, Backed(d, a), Backed(d, b)
  PROVE  Backed(d, a \o b)
<1> DEFINE c == a \o b
           n == Len(a)
           m == Len(b)
<1>1. /\ IsList(c) /\ n \in Nat /\ m \in Nat /\ Len(c) = n + m
      /\ \A i \in 1 .. n : c[i] = a[i]
      /\ \A i \in 1 .. m : c[n + i] = b[i]
  BY ConcatLists DEF Backed
<1>2. /\ \A i \in 1 .. n : RowFits(a[i]) /\ WriteBacked(d, a, i)
      /\ \A i \in 1 .. m : RowFits(b[i]) /\ WriteBacked(d, b, i)
  BY DEF Backed
<1> HIDE DEF c, n, m
<1>3. ASSUME NEW i \in 1 .. n PROVE RowFits(c[i]) /\ WriteBacked(d, c, i)
  <2>1. c[i] = a[i] /\ \A j \in 1 .. (i - 1) : c[j] = a[j]
    BY <1>1
  <2>2. \A table, id : There(d, a, i, table, id) => There(d, c, i, table, id)
    BY <2>1 DEF There
  <2> QED  BY <1>2, <2>1, <2>2 DEF WriteBacked
<1>4. ASSUME NEW i \in 1 .. m PROVE RowFits(c[n + i]) /\ WriteBacked(d, c, n + i)
  <2>1. c[n + i] = b[i]
    BY <1>1
  <2> DEFINE k == n + i
  <2>2. ASSUME NEW table, NEW id, There(d, b, i, table, id)
        PROVE  There(d, c, k, table, id)
    <3>1. CASE id \in DOMAIN d[table]
      BY <3>1 DEF There
    <3>2. CASE \E j \in 1 .. (i - 1) : b[j].table = table /\ b[j].id = id
      <4>1. PICK j \in 1 .. (i - 1) : b[j].table = table /\ b[j].id = id
        BY <3>2
      <4>2. n + j \in 1 .. (k - 1) /\ c[n + j] = b[j]
        BY <1>1
      <4> HIDE DEF k
      <4>3. \E h \in 1 .. (k - 1) : c[h].table = table /\ c[h].id = id
        BY <4>1, <4>2
      <4> QED  BY <4>3 DEF There
    <3>3. \/ id \in DOMAIN d[table]
          \/ \E j \in 1 .. (i - 1) : b[j].table = table /\ b[j].id = id
      BY <2>2 DEF There
    <3> QED  BY <3>1, <3>2, <3>3
  <2> QED  BY <1>2, <2>1, <2>2 DEF WriteBacked
<1>5. ASSUME NEW i \in 1 .. Len(c) PROVE RowFits(c[i]) /\ WriteBacked(d, c, i)
  <2>1. CASE i <= n
    BY <1>1, <1>3, <2>1
  <2>2. CASE i > n
    <3>1. PICK j \in 1 .. m : i = n + j
      <4>1. i - n \in 1 .. m /\ i = n + (i - n)
        BY <1>1, <2>2
      <4> QED  BY <4>1
    <3> QED  BY <1>4, <3>1
  <2> QED  BY <1>1, <2>1, <2>2
<1> QED  BY <1>1, <1>5 DEF Backed, c

(* Tables that grow go on backing what they backed.                        *)
Larger(d, e) == \A table \in Table : DOMAIN d[table] \subseteq DOMAIN e[table]

LEMMA LargerBacks ==
  ASSUME NEW d, NEW e, Larger(d, e), NEW list, Backed(d, list)
  PROVE  Backed(e, list)
<1>1. ASSUME NEW i, NEW table \in Table, NEW id, There(d, list, i, table, id)
      PROVE  There(e, list, i, table, id)
  BY <1>1 DEF There, Larger
<1>2. {"parents", "children", "fills", "jobs"} \subseteq Table
  BY DEF Table
<1>3. \A i \in 1 .. Len(list) : WriteBacked(d, list, i) => WriteBacked(e, list, i)
  BY <1>1, <1>2 DEF WriteBacked
<1> QED  BY <1>3 DEF Backed

-----------------------------------------------------------------------------
(* The lists the callbacks make.                                           *)

LEMMA OneWrite ==
  ASSUME NEW d, NEW w, RowFits(w), WriteBacked(d, <<w>>, 1)
  PROVE  Backed(d, <<w>>)
<1>1. <<w>> \in Seq({w}) /\ Len(<<w>>) = 1 /\ <<w>>[1] = w
  OBVIOUS
<1>2. IsList(<<w>>)
  BY <1>1, SeqIsList
<1>3. \A i \in 1 .. Len(<<w>>) : i = 1
  BY <1>1
<1> QED  BY <1>1, <1>2, <1>3 DEF Backed

LEMMA EmptyBacked ==
  ASSUME NEW d PROVE Backed(d, <<>>)
<1>1. <<>> \in Seq({})
  OBVIOUS
<1>2. IsList(<<>>)
  BY <1>1, SeqIsList
<1> QED  BY <1>2 DEF Backed

LEMMA ParentBacked ==
  ASSUME NEW d, NEW p \in 1 .. MaxParents, NEW r, IsParent(r)
  PROVE  Backed(d, <<SaveParent(p, r)>>)
<1> DEFINE w == SaveParent(p, r)
<1>1. w.table = "parents" /\ w.row = r /\ w.id = p
  BY DEF SaveParent, Write
<1> HIDE DEF w
<1>2. <<w>>[1] = w
  OBVIOUS
<1>3. RowFits(w) /\ WriteBacked(d, <<w>>, 1)
  BY <1>1, <1>2 DEF RowFits, WriteBacked, Table
<1> QED  BY <1>3, OneWrite DEF w

LEMMA JobBacked ==
  ASSUME NEW d, NEW p, NEW job, p \in DOMAIN d["parents"]
  PROVE  Backed(d, <<SaveJob(p, job)>>)
<1> DEFINE w == SaveJob(p, job)
<1>1. w.table = "jobs" /\ w.id = p
  BY DEF SaveJob, Write
<1> HIDE DEF w
<1>2. <<w>>[1] = w
  OBVIOUS
<1>3. RowFits(w) /\ WriteBacked(d, <<w>>, 1)
  BY <1>1, <1>2 DEF RowFits, WriteBacked, Table, There
<1> QED  BY <1>3, OneWrite DEF w

LEMMA RequestBacked ==
  ASSUME NEW d, NEW p, NEW r, p \in DOMAIN d["jobs"]
  PROVE  Backed(d, <<SaveRequest(p, r)>>)
<1> DEFINE w == SaveRequest(p, r)
<1>1. w.table = "requests" /\ w.id = p
  BY DEF SaveRequest, Write
<1> HIDE DEF w
<1>2. <<w>>[1] = w
  OBVIOUS
<1>3. RowFits(w) /\ WriteBacked(d, <<w>>, 1)
  BY <1>1, <1>2 DEF RowFits, WriteBacked, Table, There
<1> QED  BY <1>3, OneWrite DEF w

LEMMA NotifyBacked ==
  ASSUME NEW d, NEW p \in 1 .. MaxParents, NEW r, NEW c \in 1 .. MaxChildren, NEW child,
         IsParent(r), IsChild(child), child.parent = p
  PROVE  Backed(d, Notify(p, r, c, child))
<1> DEFINE v == SaveParent(p, r)
           w == SaveChild(c, child)
           list == <<v, w>>
<1>1. /\ v.table = "parents" /\ v.row = r /\ v.id = p
      /\ w.table = "children" /\ w.id = c /\ w.row = child
  BY DEF SaveParent, SaveChild, Write
<1>2. Notify(p, r, c, child) = list
  BY DEF Notify
<1> HIDE DEF v, w
<1>3. list \in Seq({v, w}) /\ Len(list) = 2 /\ list[1] = v /\ list[2] = w
  OBVIOUS
<1> HIDE DEF list
<1>4. IsList(list)
  BY <1>3, SeqIsList
<1>5. RowFits(list[1]) /\ WriteBacked(d, list, 1)
  BY <1>1, <1>3 DEF RowFits, WriteBacked, Table
<1>6. RowFits(list[2]) /\ WriteBacked(d, list, 2)
  <2>1. There(d, list, 2, "parents", p)
    <3>1. 1 \in 1 .. (2 - 1)
      OBVIOUS
    <3> QED  BY <3>1, <1>1, <1>3 DEF There
  <2> QED  BY <1>1, <1>3, <2>1 DEF RowFits, WriteBacked, Table
<1>7. \A i \in 1 .. Len(list) : i = 1 \/ i = 2
  BY <1>3
<1>8. Backed(d, list)
  BY <1>4, <1>5, <1>6, <1>7 DEF Backed
<1> QED  BY <1>2, <1>8

LEMMA FillBacked ==
  ASSUME NEW d, NEW p \in 1 .. MaxParents, NEW r, NEW c \in 1 .. MaxChildren,
         NEW child, NEW f, NEW fill,
         IsParent(r), IsChild(child), child.parent = p, fill.child = c
  PROVE  Backed(d, NotifyFill(p, r, c, child, f, fill))
<1> DEFINE u == SaveParent(p, r)
           v == SaveChild(c, child)
           w == SaveFill(f, fill)
           x == PublishFill(f)
           y == CountFill(f)
           list == <<u, v, w, x, y>>
<1>1. /\ u.table = "parents" /\ u.row = r /\ u.id = p
      /\ v.table = "children" /\ v.id = c /\ v.row = child
      /\ w.table = "fills" /\ w.id = f /\ w.row = fill
      /\ x.table = "drops" /\ x.id = f /\ y.table = "positions"
  BY DEF SaveParent, SaveChild, SaveFill, PublishFill, CountFill, Write
<1>2. NotifyFill(p, r, c, child, f, fill) = list
  <2>1. NotifyFill(p, r, c, child, f, fill) = <<u, v>> \o <<w, x, y>>
    BY DEF NotifyFill, Notify
  <2> HIDE DEF u, v, w, x, y
  <2> DEFINE T == {u, v, w, x, y}
             a == <<u, v>>
             b == <<w, x, y>>
  <2>3. /\ a \in Seq(T) /\ Len(a) = 2 /\ a[1] = u /\ a[2] = v
        /\ b \in Seq(T) /\ Len(b) = 3 /\ b[1] = w /\ b[2] = x /\ b[3] = y
        /\ list \in Seq(T) /\ Len(list) = 5
        /\ list[1] = u /\ list[2] = v /\ list[3] = w /\ list[4] = x /\ list[5] = y
    OBVIOUS
  <2> HIDE DEF a, b, list, T
  <2>4. /\ a \o b \in Seq(T) /\ Len(a \o b) = 5
        /\ (a \o b)[1] = u /\ (a \o b)[2] = v
        /\ (a \o b)[3] = w /\ (a \o b)[4] = x /\ (a \o b)[5] = y
    <3>1. /\ a \o b \in Seq(T) /\ Len(a \o b) = Len(a) + Len(b)
          /\ \A i \in 1 .. Len(a) : (a \o b)[i] = a[i]
          /\ \A i \in 1 .. Len(b) : (a \o b)[Len(a) + i] = b[i]
      <4>1. a \in Seq(T) /\ b \in Seq(T)
        BY <2>3
      <4> QED  BY <4>1
    <3>2. (a \o b)[1] = a[1] /\ (a \o b)[2] = a[2]
      BY <2>3, <3>1
    <3>3. (a \o b)[2 + 1] = b[1] /\ (a \o b)[2 + 2] = b[2] /\ (a \o b)[2 + 3] = b[3]
      BY <2>3, <3>1
    <3> QED  BY <2>3, <3>1, <3>2, <3>3
  <2>5. \A i \in 1 .. 5 : i = 1 \/ i = 2 \/ i = 3 \/ i = 4 \/ i = 5
    OBVIOUS
  <2>6. \A i \in 1 .. 5 : (a \o b)[i] = list[i]
    BY <2>3, <2>4, <2>5
  <2>2. a \o b = list
    BY <2>3, <2>4, <2>6, SeqEqual
  <2> QED  BY <2>1, <2>2 DEF a, b
<1> HIDE DEF u, v, w, x, y
<1>3. /\ list \in Seq({u, v, w, x, y}) /\ Len(list) = 5
      /\ list[1] = u /\ list[2] = v /\ list[3] = w /\ list[4] = x /\ list[5] = y
  OBVIOUS
<1> HIDE DEF list
<1>4. IsList(list)
  BY <1>3, SeqIsList
<1>5. 1 \in 1 .. (2 - 1) /\ 2 \in 1 .. (3 - 1) /\ 3 \in 1 .. (4 - 1)
  OBVIOUS
<1>6. /\ There(d, list, 2, "parents", p) /\ There(d, list, 3, "children", c)
      /\ There(d, list, 4, "fills", f)
  BY <1>1, <1>3, <1>5 DEF There
<1>7. /\ RowFits(list[1]) /\ WriteBacked(d, list, 1)
      /\ RowFits(list[2]) /\ WriteBacked(d, list, 2)
      /\ RowFits(list[3]) /\ WriteBacked(d, list, 3)
      /\ RowFits(list[4]) /\ WriteBacked(d, list, 4)
      /\ RowFits(list[5]) /\ WriteBacked(d, list, 5)
  BY <1>1, <1>3, <1>6 DEF RowFits, WriteBacked, Table
<1>8. \A i \in 1 .. Len(list) : i = 1 \/ i = 2 \/ i = 3 \/ i = 4 \/ i = 5
  BY <1>3
<1>9. Backed(d, list)
  BY <1>4, <1>7, <1>8 DEF Backed
<1> QED  BY <1>2, <1>9

(* cancel_parent writes the parent and then all its children.              *)
CancelList(p, r, kids, n, ordered) ==
  <<SaveParent(p, r)>> \o [i \in 1 .. n |-> SaveChild(ordered[i], kids[ordered[i]])]

LEMMA CancelBacked ==
  ASSUME NEW d, NEW p \in 1 .. MaxParents, NEW r, IsParent(r), NEW kids, NEW n \in Nat, NEW S,
         NEW ordered \in [1 .. n -> S], S \subseteq 1 .. MaxChildren,
         \A c \in S : IsChild(kids[c]) /\ kids[c].parent = p
  PROVE  Backed(d, CancelList(p, r, kids, n, ordered))
<1> DEFINE u == SaveParent(p, r)
           Row(i) == SaveChild(ordered[i], kids[ordered[i]])
           tail == [i \in 1 .. n |-> Row(i)]
           list == <<u>> \o tail
           T == {u} \cup {Row(i) : i \in 1 .. n}
<1>1. u.table = "parents" /\ u.row = r /\ u.id = p
  BY DEF SaveParent, Write
<1>2. \A i \in 1 .. n : /\ Row(i).table = "children" /\ Row(i).id \in 1 .. MaxChildren
                        /\ IsChild(Row(i).row) /\ Row(i).row.parent = p
  BY DEF SaveChild, Write
<1>3. CancelList(p, r, kids, n, ordered) = list
  BY DEF CancelList
<1>4. <<u>> \in Seq(T) /\ tail \in Seq(T) /\ Len(tail) = n /\ \A i \in 1 .. n : tail[i] = Row(i)
  OBVIOUS
<1> HIDE DEF u, Row, tail, T
<1>5. /\ list \in Seq(T) /\ Len(list) = n + 1 /\ list[1] = u
      /\ \A i \in 1 .. n : list[i + 1] = Row(i)
  BY <1>4
<1> HIDE DEF list
<1>6. IsList(list)
  BY <1>5, SeqIsList
<1>7. RowFits(list[1]) /\ WriteBacked(d, list, 1)
  BY <1>1, <1>5 DEF RowFits, WriteBacked, Table
<1>8. ASSUME NEW i \in 1 .. n PROVE RowFits(list[i + 1]) /\ WriteBacked(d, list, i + 1)
  <2>1. There(d, list, i + 1, "parents", p)
    <3>1. 1 \in 1 .. (i + 1 - 1)
      OBVIOUS
    <3> QED  BY <3>1, <1>1, <1>5 DEF There
  <2> QED  BY <1>2, <1>5, <2>1 DEF RowFits, WriteBacked, Table
<1>9. ASSUME NEW i \in 1 .. Len(list) PROVE RowFits(list[i]) /\ WriteBacked(d, list, i)
  <2>1. CASE i = 1
    BY <1>7, <2>1
  <2>2. CASE i # 1
    <3>1. PICK j \in 1 .. n : i = j + 1
      <4>1. i - 1 \in 1 .. n /\ i = (i - 1) + 1
        BY <1>5, <2>2
      <4> QED  BY <4>1
    <3> QED  BY <1>8, <3>1
  <2> QED  BY <2>1, <2>2
<1> QED  BY <1>3, <1>6, <1>9 DEF Backed

-----------------------------------------------------------------------------
(* The tables.                                                             *)

Ordered(d) ==
  /\ \A c \in DOMAIN d["children"] : d["children"][c].parent \in DOMAIN d["parents"]
  /\ \A f \in DOMAIN d["fills"] : d["fills"][f].child \in DOMAIN d["children"]
  /\ DOMAIN d["drops"] \subseteq DOMAIN d["fills"]
  /\ DOMAIN d["requests"] \subseteq DOMAIN d["jobs"]
  /\ DOMAIN d["jobs"] \subseteq DOMAIN d["parents"]

Rows(d) ==
  /\ DOMAIN d = Table
  /\ \A p \in DOMAIN d["parents"] : IsParent(d["parents"][p])
  /\ \A c \in DOMAIN d["children"] : IsChild(d["children"][c])
  /\ DOMAIN d["parents"] \subseteq 1 .. MaxParents
  /\ DOMAIN d["children"] \subseteq 1 .. MaxChildren

(* The first write of a list is done.                                      *)
Stored(d, w) == [d EXCEPT ![w.table] = Put(d[w.table], w.id, w.row)]

LEMMA StoredFacts ==
  ASSUME NEW d, Rows(d), NEW w, w.table \in Table
  PROVE  LET e == Stored(d, w) IN
         /\ DOMAIN e = Table /\ Larger(d, e)
         /\ \A table \in Table : table # w.table => e[table] = d[table]
         /\ DOMAIN e[w.table] = DOMAIN d[w.table] \cup {w.id}
         /\ e[w.table][w.id] = w.row
         /\ \A x \in DOMAIN d[w.table] : x # w.id => e[w.table][x] = d[w.table][x]
<1> DEFINE e == Stored(d, w)
           g == Put(d[w.table], w.id, w.row)
<1>1. /\ DOMAIN g = DOMAIN d[w.table] \cup {w.id} /\ g[w.id] = w.row
      /\ \A x \in DOMAIN d[w.table] : x # w.id => g[x] = d[w.table][x]
  <2> DEFINE f == d[w.table]
             i == w.id
             v == w.row
  <2>1. g = Put(f, i, v)
    OBVIOUS
  <2> HIDE DEF f, i, v
  <2>2. /\ DOMAIN Put(f, i, v) = DOMAIN f \cup {i} /\ Put(f, i, v)[i] = v
        /\ \A x \in DOMAIN f : x # i => Put(f, i, v)[x] = f[x]
    BY DEF Put
  <2> QED  BY <2>1, <2>2 DEF f, i, v
<1>2. DOMAIN d = Table
  BY DEF Rows
<1> HIDE DEF g
<1>3. e = [d EXCEPT ![w.table] = g]
  BY DEF Stored, g
<1>4. /\ DOMAIN e = Table /\ e[w.table] = g
      /\ \A table \in Table : table # w.table => e[table] = d[table]
  BY <1>2, <1>3
<1> HIDE DEF e
<1>5. Larger(d, e)
  BY <1>1, <1>4 DEF Larger
<1> QED  BY <1>1, <1>4, <1>5 DEF e

LEMMA StoredOrdered ==
  ASSUME NEW d, Rows(d), Ordered(d), NEW w, w.table \in Table, RowFits(w),
         WriteBacked(d, <<w>>, 1)
  PROVE  Rows(Stored(d, w)) /\ Ordered(Stored(d, w))
<1> DEFINE e == Stored(d, w)
<1>1. /\ DOMAIN e = Table /\ Larger(d, e)
      /\ \A table \in Table : table # w.table => e[table] = d[table]
      /\ DOMAIN e[w.table] = DOMAIN d[w.table] \cup {w.id}
      /\ e[w.table][w.id] = w.row
      /\ \A x \in DOMAIN d[w.table] : x # w.id => e[w.table][x] = d[w.table][x]
  BY StoredFacts
<1>2. <<w>>[1] = w /\ 1 .. (1 - 1) = {}
  OBVIOUS
<1>3. /\ w.table = "children" => w.row.parent \in DOMAIN d["parents"]
      /\ w.table = "fills" => w.row.child \in DOMAIN d["children"]
      /\ w.table = "drops" => w.id \in DOMAIN d["fills"]
      /\ w.table = "jobs" => w.id \in DOMAIN d["parents"]
      /\ w.table = "requests" => w.id \in DOMAIN d["jobs"]
  BY <1>2 DEF WriteBacked, There
<1> HIDE DEF e
<1>4. \A table \in Table : DOMAIN d[table] \subseteq DOMAIN e[table]
  BY <1>1 DEF Larger
<1>5. Rows(e)
  <2>1. CASE w.table = "parents"
    BY <1>1, <2>1 DEF Rows, RowFits, Table
  <2>2. CASE w.table = "children"
    BY <1>1, <2>2 DEF Rows, RowFits, Table
  <2>3. CASE w.table \notin {"parents", "children"}
    BY <1>1, <2>3 DEF Rows, Table
  <2> QED  BY <2>1, <2>2, <2>3
<1>6. ASSUME NEW c \in DOMAIN e["children"] PROVE e["children"][c].parent \in DOMAIN e["parents"]
  <2>1. CASE w.table = "children"
    BY <1>1, <1>3, <1>4, <2>1 DEF Ordered, Table
  <2>2. CASE w.table # "children"
    BY <1>1, <1>4, <2>2 DEF Ordered, Table
  <2> QED  BY <2>1, <2>2
<1>7. ASSUME NEW f \in DOMAIN e["fills"] PROVE e["fills"][f].child \in DOMAIN e["children"]
  <2>1. CASE w.table = "fills"
    BY <1>1, <1>3, <1>4, <2>1 DEF Ordered, Table
  <2>2. CASE w.table # "fills"
    BY <1>1, <1>4, <2>2 DEF Ordered, Table
  <2> QED  BY <2>1, <2>2
<1>8. /\ DOMAIN e["drops"] \subseteq DOMAIN e["fills"]
      /\ DOMAIN e["requests"] \subseteq DOMAIN e["jobs"]
      /\ DOMAIN e["jobs"] \subseteq DOMAIN e["parents"]
  <2>1. CASE w.table \in {"drops", "requests", "jobs"}
    BY <1>1, <1>3, <1>4, <2>1 DEF Ordered, Table
  <2>2. CASE w.table \notin {"drops", "requests", "jobs"}
    BY <1>1, <1>4, <2>2 DEF Ordered, Table
  <2> QED  BY <2>1, <2>2
<1>9. Ordered(e)
  BY <1>6, <1>7, <1>8 DEF Ordered
<1> QED  BY <1>5, <1>9 DEF e

LEMMA TailFacts ==
  ASSUME NEW list, IsList(list), list # <<>>
  PROVE  /\ IsList(Tail(list)) /\ Len(list) \in Nat \ {0} /\ Len(Tail(list)) = Len(list) - 1
         /\ Head(list) = list[1]
         /\ \A i \in 1 .. (Len(list) - 1) : Tail(list)[i] = list[i + 1]
<1> DEFINE S == ToSet(list)
<1>1. list \in Seq(S)
  BY DEF IsList
<1> HIDE DEF S
<1>2. /\ Tail(list) \in Seq(S) /\ Len(list) \in Nat \ {0} /\ Len(Tail(list)) = Len(list) - 1
      /\ Head(list) = list[1]
      /\ \A i \in 1 .. (Len(list) - 1) : Tail(list)[i] = list[i + 1]
  BY <1>1
<1> QED  BY <1>2, SeqIsList

(* The first row is in the tables now: the rest of the list refers to it   *)
(* there.                                                                  *)
LEMMA ThereTail ==
  ASSUME NEW d, NEW e, NEW list, IsList(list), list # <<>>, Larger(d, e),
         Head(list).table \in Table => Head(list).id \in DOMAIN e[Head(list).table],
         NEW i \in 1 .. Len(list), NEW table \in Table, NEW id,
         There(d, list, i + 1, table, id)
  PROVE  There(e, Tail(list), i, table, id)
<1> DEFINE t == Tail(list)
           n == Len(list) - 1
<1>1. /\ n \in Nat /\ Len(list) = n + 1
      /\ Head(list) = list[1] /\ \A k \in 1 .. n : t[k] = list[k + 1]
  BY TailFacts
<1> HIDE DEF t, n
<1>2. CASE id \in DOMAIN d[table]
  BY <1>2 DEF There, Larger, t
<1>3. CASE \E j \in 1 .. (i + 1 - 1) : list[j].table = table /\ list[j].id = id
  <2>1. PICK j \in 1 .. i : list[j].table = table /\ list[j].id = id
    BY <1>3
  <2>2. CASE j = 1
    BY <1>1, <2>1, <2>2 DEF There
  <2>3. CASE j # 1
    <3>1. j - 1 \in 1 .. (i - 1) /\ j - 1 \in 1 .. n /\ (j - 1) + 1 = j
      BY <1>1, <2>3
    <3>2. t[j - 1] = list[j]
      BY <1>1, <3>1
    <3>3. \E k \in 1 .. (i - 1) : t[k].table = table /\ t[k].id = id
      BY <2>1, <3>1, <3>2
    <3> QED  BY <3>3 DEF There, t
  <2> QED  BY <2>2, <2>3
<1>4. \/ id \in DOMAIN d[table]
      \/ \E j \in 1 .. (i + 1 - 1) : list[j].table = table /\ list[j].id = id
  BY DEF There
<1> QED  BY <1>2, <1>3, <1>4

LEMMA TailBacked ==
  ASSUME NEW d, NEW e, NEW list, Backed(d, list), list # <<>>, Larger(d, e),
         Head(list).table \in Table => Head(list).id \in DOMAIN e[Head(list).table]
  PROVE  Backed(e, Tail(list))
<1> DEFINE t == Tail(list)
           n == Len(list) - 1
<1>0. IsList(list)
  BY DEF Backed
<1>1. /\ IsList(t) /\ n \in Nat /\ Len(list) = n + 1 /\ Len(t) = n
      /\ \A i \in 1 .. n : t[i] = list[i + 1]
  BY <1>0, TailFacts
<1>2. \A i \in 1 .. (n + 1) : RowFits(list[i]) /\ WriteBacked(d, list, i)
  BY <1>1 DEF Backed
<1>3. ASSUME NEW i \in 1 .. n, NEW table \in Table, NEW id, There(d, list, i + 1, table, id)
      PROVE  There(e, t, i, table, id)
  <2>1. i \in 1 .. Len(list)
    BY <1>1
  <2> QED  BY <1>0, <1>3, <2>1, ThereTail
<1> HIDE DEF t, n
<1>4. {"parents", "children", "fills", "jobs"} \subseteq Table
  BY DEF Table
<1>5. ASSUME NEW i \in 1 .. n PROVE RowFits(t[i]) /\ WriteBacked(e, t, i)
  <2>1. i + 1 \in 1 .. (n + 1) /\ t[i] = list[i + 1]
    BY <1>1
  <2>2. RowFits(list[i + 1]) /\ WriteBacked(d, list, i + 1)
    BY <1>2, <2>1
  <2> QED  BY <1>3, <1>4, <2>1, <2>2 DEF WriteBacked
<1> QED  BY <1>1, <1>5 DEF Backed, t

LEMMA HeadBacked ==
  ASSUME NEW d, NEW list, Backed(d, list), list # <<>>
  PROVE  RowFits(Head(list)) /\ WriteBacked(d, <<Head(list)>>, 1)
<1> DEFINE w == Head(list)
           one == <<w>>
<1>1. Len(list) \in Nat \ {0} /\ w = list[1]
  BY TailFacts DEF Backed
<1>2. one[1] = w
  OBVIOUS
<1> HIDE DEF w, one
<1>3. 1 \in 1 .. Len(list)
  BY <1>1
<1>4. RowFits(list[1]) /\ WriteBacked(d, list, 1)
  BY <1>3 DEF Backed
<1>5. ASSUME NEW table, NEW id, There(d, list, 1, table, id) PROVE There(d, one, 1, table, id)
  <2>1. 1 .. (1 - 1) = {}
    OBVIOUS
  <2>2. id \in DOMAIN d[table]
    BY <1>5, <2>1 DEF There
  <2> QED  BY <2>2 DEF There
<1>6. WriteBacked(d, one, 1)
  BY <1>1, <1>2, <1>4, <1>5 DEF WriteBacked
<1> QED  BY <1>1, <1>4, <1>6 DEF w, one

-----------------------------------------------------------------------------
(* The inductive invariant.                                                *)

(* The memory state: a parent's children are there and are its own, and a  *)
(* child's parent is there.                                                *)
Family(ps, ks) ==
  /\ DOMAIN ps \subseteq 1 .. MaxParents /\ DOMAIN ks \subseteq 1 .. MaxChildren
  /\ \A p \in DOMAIN ps :
       /\ IsParent(ps[p]) /\ ps[p].child_ids \subseteq DOMAIN ks
       /\ \A c \in ps[p].child_ids : ks[c].parent = p
  /\ \A c \in DOMAIN ks : IsChild(ks[c]) /\ ks[c].parent \in DOMAIN ps

(* What every thread still has to write is backed by the tables.           *)
Queued(d, ws) == DOMAIN ws = Thread /\ \A t \in Thread : Backed(d, ws[t])

(* A job's parent is in memory and on record, and the leg it works is a    *)
(* child that exists.                                                      *)
Working(js, ps, ks, d) ==
  /\ DOMAIN js \subseteq DOMAIN ps /\ DOMAIN js \subseteq DOMAIN d["parents"]
  /\ \A p \in DOMAIN js :
       /\ {"pc", "child"} \subseteq DOMAIN js[p]
       /\ js[p].pc \in {"opened", "working", "filled"} => js[p].child \in DOMAIN ks

(* The row is on record, or the thread with this list will write it.       *)
Coming(d, list, table, id) == There(d, list, Len(list) + 1, table, id)

(* A submission under way has its parent in memory and on the way to the   *)
(* tables, then its job too.                                               *)
Submitting(a, ph, ps, js, d, list) ==
  /\ "step" \in DOMAIN a
  /\ ph # "serving" => a.step = "idle"
  /\ a.step \in {"created", "entered"} =>
       a.parent \in DOMAIN ps /\ Coming(d, list, "parents", a.parent)
  /\ a.step = "entered" =>
       a.parent \in DOMAIN js /\ Coming(d, list, "jobs", a.parent)

IInv ==
  /\ Family(parents, children)
  /\ Queued(db, writes)
  /\ Rows(db) /\ Ordered(db)
  /\ Working(jobs, parents, children, db)
  /\ Submitting(api, phase, parents, jobs, db, writes[Api])
  /\ phase = "serving" => callback_set

-----------------------------------------------------------------------------
(* The operations of the OMS keep the memory and the queues sound.         *)

LEMMA RefreshedFacts ==
  ASSUME NEW r, IsParent(r), NEW kids
  PROVE  IsParent(Refreshed(r, kids)) /\ Refreshed(r, kids).child_ids = r.child_ids
<1>1. CASE r.status = "Cancelled"
  BY <1>1 DEF Refreshed
<1>2. CASE r.status # "Cancelled"
  <2>1. PICK f, m, s : Refreshed(r, kids) = [r EXCEPT !.filled = f, !.remaining = m, !.status = s]
    BY <1>2 DEF Refreshed
  <2> DEFINE q == [quantity |-> r.quantity, filled |-> f, remaining |-> m, status |-> s,
                   child_ids |-> r.child_ids]
  <2>2. Refreshed(r, kids) = q
    BY <2>1 DEF IsParent
  <2> QED  BY <2>2 DEF IsParent
<1> QED  BY <1>1, <1>2

LEMMA FamilyUpdate ==
  ASSUME NEW ps, NEW ks, Family(ps, ks), NEW c \in DOMAIN ks, NEW k, IsChild(k),
         k.parent = ks[c].parent, NEW r, IsParent(r), r.child_ids = ps[k.parent].child_ids
  PROVE  /\ Family([ps EXCEPT ![k.parent] = r], [ks EXCEPT ![c] = k])
         /\ k.parent \in DOMAIN ps /\ k.parent \in 1 .. MaxParents /\ c \in 1 .. MaxChildren
<1> DEFINE p == k.parent
           qs == [ps EXCEPT ![p] = r]
           ls == [ks EXCEPT ![c] = k]
<1>1. p \in DOMAIN ps /\ p \in 1 .. MaxParents /\ c \in 1 .. MaxChildren
  BY DEF Family
<1>2. DOMAIN qs = DOMAIN ps /\ qs[p] = r /\ \A x \in DOMAIN ps : x # p => qs[x] = ps[x]
  BY <1>1
<1>3. DOMAIN ls = DOMAIN ks /\ ls[c] = k /\ \A x \in DOMAIN ks : x # c => ls[x] = ks[x]
  OBVIOUS
<1>4. r.child_ids = ps[p].child_ids /\ k.parent = p /\ ks[c].parent = p
  OBVIOUS
<1> HIDE DEF qs, ls, p
<1>5. \A x \in DOMAIN ls : IsChild(ls[x]) /\ ls[x].parent = ks[x].parent
  BY <1>3, <1>4 DEF Family
<1>6. \A x \in DOMAIN qs : IsParent(qs[x]) /\ qs[x].child_ids = ps[x].child_ids
  BY <1>2, <1>4 DEF Family
<1>7. Family(qs, ls)
  BY <1>2, <1>3, <1>5, <1>6 DEF Family
<1> QED  BY <1>1, <1>7 DEF qs, ls, p

(* What a step of thread t may do to the memory and to the queues.         *)
Keeps(t) ==
  /\ Family(parents', children') /\ Queued(db, writes')
  /\ DOMAIN parents \subseteq DOMAIN parents' /\ DOMAIN children \subseteq DOMAIN children'
  /\ \A u \in Thread \ {t} : writes'[u] = writes[u]

LEMMA CallbackKeeps ==
  ASSUME Queued(db, writes), NEW t \in Thread, NEW list, Backed(db, list), Callback(t, list)
  PROVE  Queued(db, writes') /\ \A u \in Thread \ {t} : writes'[u] = writes[u]
<1>1. CASE callback_set
  <2> DEFINE l == writes[t] \o list
  <2>1. writes' = [writes EXCEPT ![t] = l]
    BY <1>1 DEF Callback
  <2>2. Backed(db, l)
    BY ConcatBacked DEF Queued
  <2> HIDE DEF l
  <2> QED  BY <2>1, <2>2 DEF Queued
<1>2. CASE ~callback_set
  <2>1. writes' = writes
    BY <1>2 DEF Callback
  <2> QED  BY <2>1
<1> QED  BY <1>1, <1>2

LEMMA UpdateChildKeeps ==
  ASSUME Family(parents, children), Queued(db, writes), NEW t \in Thread,
         NEW c \in DOMAIN children, NEW child, IsChild(child),
         child.parent = children[c].parent, UpdateChild(t, c, child)
  PROVE  Keeps(t)
<1> DEFINE kids == [children EXCEPT ![c] = child]
           p == child.parent
           parent == Refreshed(parents[p], kids)
<1>1. /\ children' = kids /\ parents' = [parents EXCEPT ![p] = parent]
      /\ Callback(t, Notify(p, parent, c, child))
  BY DEF UpdateChild
<1>2. p \in DOMAIN parents /\ IsParent(parents[p])
  BY DEF Family
<1>3. IsParent(parent) /\ parent.child_ids = parents[p].child_ids
  BY <1>2, RefreshedFacts
<1> HIDE DEF parent
<1>4. Family(parents', children') /\ p \in 1 .. MaxParents /\ c \in 1 .. MaxChildren
  BY <1>1, <1>3, FamilyUpdate
<1>5. Backed(db, Notify(p, parent, c, child))
  BY <1>3, <1>4, NotifyBacked
<1>6. Queued(db, writes') /\ \A u \in Thread \ {t} : writes'[u] = writes[u]
  BY <1>1, <1>5, CallbackKeeps
<1>7. DOMAIN parents' = DOMAIN parents /\ DOMAIN children' = DOMAIN children
  BY <1>1
<1> QED  BY <1>4, <1>6, <1>7 DEF Keeps

LEMMA QuietKeeps ==
  ASSUME Family(parents, children), Queued(db, writes), NEW t,
         parents' = parents, children' = children, writes' = writes
  PROVE  Keeps(t)
BY DEF Keeps

LEMMA SetChildStatusKeeps ==
  ASSUME Family(parents, children), Queued(db, writes), NEW t \in Thread,
         NEW c \in DOMAIN children, NEW status, SetChildStatus(t, c, status)
  PROVE  Keeps(t)
<1>1. CASE Terminal(children[c].status)
  <2>1. parents' = parents /\ children' = children /\ writes' = writes
    BY <1>1 DEF SetChildStatus, memory
  <2> QED  BY <2>1, QuietKeeps
<1>2. CASE ~Terminal(children[c].status)
  <2> DEFINE k == children[c]
             child == [k EXCEPT !.status = status]
  <2>1. UpdateChild(t, c, child)
    BY <1>2 DEF SetChildStatus
  <2>2. IsChild(k)
    BY DEF Family
  <2> HIDE DEF k
  <2>3. child = [parent |-> k.parent, quantity |-> k.quantity, filled |-> k.filled,
                 remaining |-> k.remaining, status |-> status]
    BY <2>2 DEF IsChild
  <2>4. IsChild(child) /\ child.parent = k.parent
    BY <2>3 DEF IsChild
  <2> HIDE DEF child
  <2> QED  BY <2>1, <2>4, UpdateChildKeeps DEF k
<1> QED  BY <1>1, <1>2

LEMMA CreateParentKeeps ==
  ASSUME Family(parents, children), Queued(db, writes), NEW t \in Thread,
         NEW p \in 1 .. MaxParents, p \notin DOMAIN parents, NEW q, CreateParent(t, p, q)
  PROVE  Keeps(t) /\ p \in DOMAIN parents'
<1> DEFINE parent == [quantity |-> q, filled |-> 0, remaining |-> q, status |-> "New",
                      child_ids |-> {}]
<1>1. /\ parents' = Put(parents, p, parent) /\ children' = children
      /\ Callback(t, <<SaveParent(p, parent)>>)
  BY DEF CreateParent
<1>2. IsParent(parent) /\ parent.child_ids = {}
  BY DEF IsParent
<1> HIDE DEF parent
<1>3. /\ DOMAIN parents' = DOMAIN parents \cup {p} /\ parents'[p] = parent
      /\ \A x \in DOMAIN parents : parents'[x] = parents[x]
  BY <1>1 DEF Put
<1>4. Family(parents', children')
  BY <1>1, <1>2, <1>3 DEF Family
<1>5. Queued(db, writes') /\ \A u \in Thread \ {t} : writes'[u] = writes[u]
  BY <1>1, <1>2, ParentBacked, CallbackKeeps
<1> QED  BY <1>1, <1>3, <1>4, <1>5 DEF Keeps

LEMMA CreateChildKeeps ==
  ASSUME Family(parents, children), Queued(db, writes), NEW t \in Thread,
         NEW p \in DOMAIN parents, NEW c \in 1 .. MaxChildren, c \notin DOMAIN children,
         NEW q, CreateChild(t, p, c, q)
  PROVE  Keeps(t) /\ c \in DOMAIN children'
<1> DEFINE child == [parent |-> p, quantity |-> q, filled |-> 0, remaining |-> q,
                     status |-> "New"]
           r == parents[p]
           parent == [r EXCEPT !.child_ids = @ \cup {c},
                               !.status = IF @ = "New" THEN "Working" ELSE @]
<1>1. /\ children' = Put(children, c, child) /\ parents' = [parents EXCEPT ![p] = parent]
      /\ Callback(t, Notify(p, parent, c, child))
  BY DEF CreateChild
<1>2. IsChild(child) /\ child.parent = p
  BY DEF IsChild
<1>3. IsParent(r) /\ p \in 1 .. MaxParents
  BY DEF Family
<1> HIDE DEF r, child
<1>4. IsParent(parent) /\ parent.child_ids = r.child_ids \cup {c}
  <2> DEFINE s == IF r.status = "New" THEN "Working" ELSE r.status
             ids == r.child_ids \cup {c}
  <2>1. parent = [r EXCEPT !.child_ids = ids, !.status = s]
    OBVIOUS
  <2> HIDE DEF s, ids, parent
  <2>2. parent = [quantity |-> r.quantity, filled |-> r.filled, remaining |-> r.remaining,
                  status |-> s, child_ids |-> ids]
    BY <1>3, <2>1 DEF IsParent
  <2> QED  BY <2>2 DEF IsParent, ids
<1> HIDE DEF parent
<1>5. /\ DOMAIN children' = DOMAIN children \cup {c} /\ children'[c] = child
      /\ \A x \in DOMAIN children : children'[x] = children[x]
  BY <1>1 DEF Put
<1>6. /\ DOMAIN parents' = DOMAIN parents /\ parents'[p] = parent
      /\ \A x \in DOMAIN parents : x # p => parents'[x] = parents[x]
  BY <1>1
<1>7. ASSUME NEW x \in DOMAIN parents
      PROVE  /\ IsParent(parents'[x]) /\ parents'[x].child_ids \subseteq DOMAIN children'
             /\ \A y \in parents'[x].child_ids : children'[y].parent = x
  <2>1. /\ IsParent(parents[x]) /\ parents[x].child_ids \subseteq DOMAIN children
        /\ \A y \in parents[x].child_ids : children[y].parent = x
    BY DEF Family
  <2>2. CASE x = p
    BY <1>2, <1>4, <1>5, <1>6, <2>1, <2>2 DEF r
  <2>3. CASE x # p
    BY <1>5, <1>6, <2>1, <2>3
  <2> QED  BY <2>2, <2>3
<1>8. \A x \in DOMAIN children' : IsChild(children'[x]) /\ children'[x].parent \in DOMAIN parents
  BY <1>2, <1>5 DEF Family
<1>9. Family(parents', children')
  <2>1. DOMAIN parents \subseteq 1 .. MaxParents /\ DOMAIN children \subseteq 1 .. MaxChildren
    BY DEF Family
  <2> QED  BY <1>5, <1>6, <1>7, <1>8, <2>1 DEF Family
<1>10. Queued(db, writes') /\ \A u \in Thread \ {t} : writes'[u] = writes[u]
  BY <1>1, <1>2, <1>3, <1>4, NotifyBacked, CallbackKeeps
<1> QED  BY <1>5, <1>6, <1>9, <1>10 DEF Keeps

LEMMA RecordFillKeeps ==
  ASSUME Family(parents, children), Queued(db, writes), NEW t \in Thread,
         NEW c \in DOMAIN children, NEW q, RecordFill(t, c, q)
  PROVE  Keeps(t)
<1> DEFINE k == children[c]
           p == k.parent
           f == NextId(fills)
           left == k.remaining - q
           child == [k EXCEPT !.filled = @ + q, !.remaining = left,
                              !.status = IF left = 0 THEN "Filled" ELSE "PartiallyFilled"]
           kids == [children EXCEPT ![c] = child]
           parent == Refreshed(parents[p], kids)
           fill == [parent |-> p, child |-> c, quantity |-> q]
<1>1. /\ children' = kids /\ parents' = [parents EXCEPT ![p] = parent]
      /\ Callback(t, NotifyFill(p, parent, c, child, f, fill))
  BY DEF RecordFill
<1>2. IsChild(k)
  BY DEF Family
<1>3. fill.child = c
  OBVIOUS
<1>4. p \in DOMAIN parents /\ IsParent(parents[p])
  BY DEF Family
<1>5. IsParent(parent) /\ parent.child_ids = parents[p].child_ids
  BY <1>4, RefreshedFacts
<1> HIDE DEF k, left, f, fill, parent
<1>7. IsChild(child) /\ child.parent = p
  <2> DEFINE s == IF left = 0 THEN "Filled" ELSE "PartiallyFilled"
             g == k.filled + q
  <2>1. child = [k EXCEPT !.filled = g, !.remaining = left, !.status = s]
    OBVIOUS
  <2> HIDE DEF s, g, child
  <2>2. child = [parent |-> k.parent, quantity |-> k.quantity, filled |-> g,
                 remaining |-> left, status |-> s]
    BY <1>2, <2>1 DEF IsChild
  <2> QED  BY <2>2 DEF IsChild
<1> HIDE DEF child
<1>8. Family(parents', children') /\ p \in 1 .. MaxParents /\ c \in 1 .. MaxChildren
  BY <1>1, <1>5, <1>7, FamilyUpdate DEF k
<1>9. Queued(db, writes') /\ \A u \in Thread \ {t} : writes'[u] = writes[u]
  BY <1>1, <1>3, <1>5, <1>7, <1>8, FillBacked, CallbackKeeps
<1>10. DOMAIN parents' = DOMAIN parents /\ DOMAIN children' = DOMAIN children
  BY <1>1
<1> QED  BY <1>8, <1>9, <1>10 DEF Keeps

LEMMA CancelParentKeeps ==
  ASSUME Family(parents, children), Queued(db, writes), NEW p \in DOMAIN parents,
         p \in Thread, NEW after, Backed(db, after), CancelParent(p, p, after)
  PROVE  Keeps(p)
<1> DEFINE kids == ChildrenCancelled(p)
           r == parents[p]
           parent == [r EXCEPT !.status = "Cancelled"]
           S == r.child_ids
           n == Cardinality(S)
           ordered == Ascending(S)
           rows == [c \in S |-> SaveChild(c, kids[c])]
           list == <<SaveParent(p, parent)>> \o [i \in DOMAIN ordered |-> rows[ordered[i]]]
<1>1. CASE Terminal(parents[p].status)
  <2>1. /\ parents' = parents /\ children' = children
        /\ writes' = [writes EXCEPT ![p] = @ \o after]
    BY <1>1 DEF CancelParent, memory
  <2>2. Queued(db, writes') /\ \A u \in Thread \ {p} : writes'[u] = writes[u]
    <3> DEFINE l == writes[p] \o after
    <3>1. writes' = [writes EXCEPT ![p] = l]
      BY <2>1
    <3>2. Backed(db, l)
      BY ConcatBacked DEF Queued
    <3> HIDE DEF l
    <3> QED  BY <3>1, <3>2 DEF Queued
  <2> QED  BY <2>1, <2>2 DEF Keeps
<1>2. CASE ~Terminal(parents[p].status)
  <2>1. /\ parents' = [parents EXCEPT ![p] = parent] /\ children' = kids
        /\ writes' = [writes EXCEPT ![p] = @ \o (IF callback_set THEN list ELSE <<>>) \o after]
    BY <1>2 DEF CancelParent
  <2>2. /\ DOMAIN kids = DOMAIN children
        /\ \A c \in DOMAIN children : IsChild(kids[c]) /\ kids[c].parent = children[c].parent
    <3> SUFFICES ASSUME NEW c \in DOMAIN children
                 PROVE  IsChild(kids[c]) /\ kids[c].parent = children[c].parent
      BY DEF ChildrenCancelled
    <3> DEFINE k == children[c]
    <3>1. IsChild(k)
      BY DEF Family
    <3>2. kids[c] = k \/ kids[c] = [k EXCEPT !.status = "Cancelled"]
      BY DEF ChildrenCancelled
    <3> HIDE DEF k, kids
    <3>3. CASE kids[c] = k
      BY <3>1, <3>3 DEF k
    <3>4. CASE kids[c] = [k EXCEPT !.status = "Cancelled"]
      <4>1. kids[c] = [parent |-> k.parent, quantity |-> k.quantity, filled |-> k.filled,
                       remaining |-> k.remaining, status |-> "Cancelled"]
        BY <3>1, <3>4 DEF IsChild
      <4> QED  BY <4>1 DEF IsChild, k
    <3> QED  BY <3>2, <3>3, <3>4
  <2> HIDE DEF kids
  <2>3. /\ IsParent(r) /\ p \in 1 .. MaxParents /\ S \subseteq DOMAIN children
        /\ S \subseteq 1 .. MaxChildren /\ \A c \in S : children[c].parent = p
    BY DEF Family
  <2>4. IsParent(parent) /\ parent.child_ids = r.child_ids
    <3> HIDE DEF r
    <3>1. parent = [quantity |-> r.quantity, filled |-> r.filled, remaining |-> r.remaining,
                    status |-> "Cancelled", child_ids |-> r.child_ids]
      BY <2>3 DEF IsParent
    <3> QED  BY <3>1 DEF IsParent
  <2> HIDE DEF parent
  <2>5. n \in Nat /\ ordered \in [1 .. n -> S]
    <3>1. MaxChildren \in Nat
      BY OmsAssumption
    <3> QED  BY <2>3, <3>1, AscendingFacts
  <2> HIDE DEF n, ordered
  <2>6. list = CancelList(p, parent, kids, n, ordered)
    <3>1. DOMAIN ordered = 1 .. n /\ \A i \in 1 .. n : ordered[i] \in S
      BY <2>5
    <3> HIDE DEF S
    <3>2. [i \in DOMAIN ordered |-> rows[ordered[i]]]
            = [i \in 1 .. n |-> SaveChild(ordered[i], kids[ordered[i]])]
      BY <3>1
    <3> QED  BY <3>2 DEF CancelList
  <2> HIDE DEF list
  <2>7. Backed(db, list)
    BY <2>2, <2>3, <2>4, <2>5, <2>6, CancelBacked
  <2> DEFINE some == IF callback_set THEN list ELSE <<>>
  <2>8. Backed(db, some)
    BY <2>7, EmptyBacked
  <2> HIDE DEF some
  <2>9. Queued(db, writes') /\ \A u \in Thread \ {p} : writes'[u] = writes[u]
    <3> DEFINE full == (writes[p] \o some) \o after
    <3>1. Backed(db, writes[p] \o some)
      BY <2>8, ConcatBacked DEF Queued
    <3>2. Backed(db, full)
      BY <3>1, ConcatBacked
    <3>3. writes' = [writes EXCEPT ![p] = full]
      BY <2>1 DEF some
    <3> HIDE DEF full
    <3> QED  BY <3>2, <3>3 DEF Queued
  <2>10. /\ DOMAIN parents' = DOMAIN parents /\ parents'[p] = parent
         /\ \A x \in DOMAIN parents : x # p => parents'[x] = parents[x]
    BY <2>1
  <2>11. \A x \in DOMAIN parents :
           IsParent(parents'[x]) /\ parents'[x].child_ids = parents[x].child_ids
    BY <2>4, <2>10 DEF Family, r
  <2>12. Family(parents', children')
    BY <2>1, <2>2, <2>10, <2>11 DEF Family
  <2> QED  BY <2>1, <2>2, <2>9, <2>10, <2>12 DEF Keeps
<1> QED  BY <1>1, <1>2

-----------------------------------------------------------------------------
(* The steps of a job.                                                     *)

Leg == {"opened", "working", "filled"}

LEMMA GoesKeeps ==
  ASSUME Working(jobs, parents, children, db), NEW p \in DOMAIN jobs, Keeps(p),
         NEW job, Goes(p, job), {"pc", "child"} \subseteq DOMAIN job,
         job.pc \in Leg => job.child \in DOMAIN children'
  PROVE  Working(jobs', parents', children', db)
<1>1. /\ DOMAIN jobs' = DOMAIN jobs /\ jobs'[p] = job
      /\ \A x \in DOMAIN jobs : x # p => jobs'[x] = jobs[x]
  BY DEF Goes
<1>2. DOMAIN parents \subseteq DOMAIN parents' /\ DOMAIN children \subseteq DOMAIN children'
  BY DEF Keeps
<1> QED  BY <1>1, <1>2 DEF Working, Leg

LEMMA EndedFacts ==
  ASSUME NEW j, {"pc", "child"} \subseteq DOMAIN j, NEW status
  PROVE  {"pc", "child"} \subseteq DOMAIN Ended(j, status) /\ Ended(j, status).pc = "done"
BY DEF Ended

(* The thread has nothing to write, then the row of its job.               *)
LEMMA SaveJobKeeps ==
  ASSUME Family(parents, children), Queued(db, writes), NEW p \in Thread,
         p \in DOMAIN db["parents"], NEW job, UNCHANGED memory,
         writes' = [writes EXCEPT ![p] = <<SaveJob(p, job)>>]
  PROVE  Keeps(p)
<1> DEFINE l == <<SaveJob(p, job)>>
<1>1. Backed(db, l)
  BY JobBacked
<1>2. writes' = [writes EXCEPT ![p] = l] /\ parents' = parents /\ children' = children
  BY DEF memory
<1> HIDE DEF l
<1>3. Queued(db, writes') /\ \A u \in Thread \ {p} : writes'[u] = writes[u]
  BY <1>1, <1>2 DEF Queued
<1> QED  BY <1>2, <1>3 DEF Keeps

JobDoes(p) ==
  \/ SeeCancel(p) \/ BecomeCancelled(p)
  \/ BeginSlice(p) \/ SkipSlice(p) \/ RouteSlice(p)
  \/ \E q \in Quantity : OpenLeg(p, q)
  \/ RejectLeg(p) \/ WorkLeg(p)
  \/ \E q \in Quantity : FillLeg(p, q)
  \/ EndLeg(p) \/ EndSlice(p)
  \/ Finish(p) \/ Fail(p) \/ BecomeFailed(p)

LEMMA JobDoesKeeps ==
  ASSUME Family(parents, children), Queued(db, writes),
         Working(jobs, parents, children, db), NEW p \in DOMAIN jobs, JobDoes(p)
  PROVE  Keeps(p) /\ Working(jobs', parents', children', db)
<1> DEFINE j == jobs[p]
<1>1. /\ p \in DOMAIN parents /\ p \in DOMAIN db["parents"] /\ p \in Thread
      /\ {"pc", "child"} \subseteq DOMAIN j
      /\ j.pc \in Leg => j.child \in DOMAIN children
  BY OmsAssumption DEF Working, Family, Thread, Leg
<1>2. ASSUME Quiet PROVE Keeps(p)
  BY <1>2, QuietKeeps DEF Quiet, memory
<1>3. ASSUME NEW job, {"pc", "child"} \subseteq DOMAIN job, job.pc \notin Leg,
             Goes(p, job), Keeps(p)
      PROVE  Working(jobs', parents', children', db)
  BY <1>3, GoesKeeps
<1>4. CASE SeeCancel(p)
  <2> DEFINE job == [j EXCEPT !.pc = "cancelled"]
  <2>1. CancelParent(p, p, <<>>) /\ Goes(p, job)
    BY <1>4 DEF SeeCancel
  <2>2. Keeps(p)
    BY <1>1, <2>1, EmptyBacked, CancelParentKeeps
  <2>3. {"pc", "child"} \subseteq DOMAIN job /\ job.pc \notin Leg
    BY <1>1 DEF Leg
  <2> HIDE DEF job
  <2> QED  BY <1>3, <2>1, <2>2, <2>3
<1>5. CASE BecomeCancelled(p)
  <2> DEFINE job == Ended(j, "Cancelled")
  <2>1. Quiet /\ Goes(p, job)
    BY <1>5 DEF BecomeCancelled
  <2>2. {"pc", "child"} \subseteq DOMAIN job /\ job.pc \notin Leg
    BY <1>1, EndedFacts DEF Leg
  <2> HIDE DEF job
  <2> QED  BY <1>2, <1>3, <2>1, <2>2
<1>6. CASE BeginSlice(p)
  <2> DEFINE job == [j EXCEPT !.pc = "wait"]
  <2>1. Quiet /\ Goes(p, job)
    BY <1>6 DEF BeginSlice
  <2>2. {"pc", "child"} \subseteq DOMAIN job /\ job.pc \notin Leg
    BY <1>1 DEF Leg
  <2> HIDE DEF job
  <2> QED  BY <1>2, <1>3, <2>1, <2>2
<1>7. CASE SkipSlice(p)
  <2> DEFINE job == [j EXCEPT !.pc = "top", !.index = @ + 1]
  <2>1. Quiet /\ Goes(p, job)
    BY <1>7 DEF SkipSlice
  <2>2. {"pc", "child"} \subseteq DOMAIN job /\ job.pc \notin Leg
    BY <1>1 DEF Leg
  <2> HIDE DEF job
  <2> QED  BY <1>2, <1>3, <2>1, <2>2
<1>8. CASE RouteSlice(p)
  <2> DEFINE job == [j EXCEPT !.pc = "route", !.planned = SliceQuantity(j)]
  <2>1. Quiet /\ Goes(p, job)
    BY <1>8 DEF RouteSlice
  <2>2. {"pc", "child"} \subseteq DOMAIN job /\ job.pc \notin Leg
    BY <1>1 DEF Leg
  <2> HIDE DEF job
  <2> QED  BY <1>2, <1>3, <2>1, <2>2
<1>9. CASE \E q \in Quantity : OpenLeg(p, q)
  <2>1. PICK q \in Quantity : OpenLeg(p, q)
    BY <1>9
  <2> DEFINE c == NextId(children)
             job == [j EXCEPT !.pc = "opened", !.child = c, !.planned = @ - q]
  <2>2. c <= MaxChildren /\ CreateChild(p, p, c, q) /\ Goes(p, job)
    BY <2>1 DEF OpenLeg
  <2>3. MaxChildren \in Nat /\ DOMAIN children \subseteq 1 .. MaxChildren
    BY OmsAssumption DEF Family
  <2>4. c \in Nat \ {0} /\ c \notin DOMAIN children
    BY <2>3, NextIdFacts
  <2> HIDE DEF c
  <2>5. c \in 1 .. MaxChildren
    BY <2>2, <2>3, <2>4
  <2>6. Keeps(p) /\ c \in DOMAIN children'
    BY <1>1, <2>2, <2>4, <2>5, CreateChildKeeps
  <2>7. {"pc", "child"} \subseteq DOMAIN job /\ job.child = c
    BY <1>1
  <2> HIDE DEF job
  <2> QED  BY <2>2, <2>6, <2>7, GoesKeeps
<1>10. CASE RejectLeg(p)
  <2> DEFINE job == [j EXCEPT !.pc = "next leg"]
  <2>1. SetChildStatus(p, j.child, "Rejected") /\ Goes(p, job) /\ j.pc = "opened"
    BY <1>10 DEF RejectLeg, RejectChild, At
  <2>2. j.child \in DOMAIN children
    BY <1>1, <2>1 DEF Leg
  <2>3. {"pc", "child"} \subseteq DOMAIN job /\ job.pc \notin Leg
    BY <1>1 DEF Leg
  <2> HIDE DEF job, j
  <2>4. Keeps(p)
    BY <1>1, <2>1, <2>2, SetChildStatusKeeps
  <2> QED  BY <1>3, <2>1, <2>3, <2>4
<1>11. CASE WorkLeg(p)
  <2> DEFINE job == [j EXCEPT !.pc = "working"]
             s == IF children[j.child].filled > 0 THEN "PartiallyFilled" ELSE "Working"
  <2>1. SetChildStatus(p, j.child, s) /\ Goes(p, job) /\ j.pc = "opened"
    BY <1>11 DEF WorkLeg, MarkChildWorking, At
  <2>2. j.child \in DOMAIN children
    BY <1>1, <2>1 DEF Leg
  <2>3. {"pc", "child"} \subseteq DOMAIN job /\ job.child = j.child
    BY <1>1
  <2> HIDE DEF job, j, s
  <2>4. Keeps(p)
    BY <1>1, <2>1, <2>2, SetChildStatusKeeps
  <2>5. job.child \in DOMAIN children'
    BY <2>2, <2>3, <2>4 DEF Keeps
  <2> QED  BY <2>1, <2>3, <2>4, <2>5, GoesKeeps
<1>12. CASE \E q \in Quantity : FillLeg(p, q)
  <2>1. PICK q \in Quantity : FillLeg(p, q)
    BY <1>12
  <2> DEFINE job == [j EXCEPT !.pc = "filled", !.slice_filled = @ + q]
  <2>2. RecordFill(p, j.child, q) /\ Goes(p, job) /\ j.pc = "working"
    BY <2>1 DEF FillLeg, At
  <2>3. j.child \in DOMAIN children
    BY <1>1, <2>2 DEF Leg
  <2>4. {"pc", "child"} \subseteq DOMAIN job /\ job.child = j.child
    BY <1>1
  <2> HIDE DEF job, j
  <2>5. Keeps(p)
    BY <1>1, <2>2, <2>3, RecordFillKeeps
  <2>6. job.child \in DOMAIN children'
    BY <2>3, <2>4, <2>5 DEF Keeps
  <2> QED  BY <2>2, <2>4, <2>5, <2>6, GoesKeeps
<1>13. CASE EndLeg(p)
  <2> DEFINE job == [j EXCEPT !.pc = "next leg"]
  <2>1. SetChildStatus(p, j.child, "Cancelled") /\ Goes(p, job) /\ j.pc = "filled"
    BY <1>13 DEF EndLeg, CancelChild, At
  <2>2. j.child \in DOMAIN children
    BY <1>1, <2>1 DEF Leg
  <2>3. {"pc", "child"} \subseteq DOMAIN job /\ job.pc \notin Leg
    BY <1>1 DEF Leg
  <2> HIDE DEF job, j
  <2>4. Keeps(p)
    BY <1>1, <2>1, <2>2, SetChildStatusKeeps
  <2> QED  BY <1>3, <2>1, <2>3, <2>4
<1>14. CASE EndSlice(p)
  <2> DEFINE job == [j EXCEPT !.filled = @ + j.slice_filled, !.slice = j.index + 1,
                              !.index = @ + 1, !.pc = "top", !.child = 0,
                              !.planned = 0, !.slice_filled = 0]
  <2>1. /\ Goes(p, job) /\ UNCHANGED memory
        /\ writes' = [writes EXCEPT ![p] = <<SaveJob(p, job)>>]
    BY <1>14 DEF EndSlice
  <2>2. {"pc", "child"} \subseteq DOMAIN job /\ job.pc \notin Leg
    BY <1>1 DEF Leg
  <2> HIDE DEF job
  <2>3. Keeps(p)
    BY <1>1, <2>1, SaveJobKeeps
  <2> QED  BY <1>3, <2>1, <2>2, <2>3
<1>15. CASE Finish(p)
  <2> DEFINE job == Ended(j, IF RemainingOf(j) > 0 /\ j.cancel THEN "Cancelled" ELSE "Completed")
  <2>1. /\ Goes(p, job)
        /\ IF RemainingOf(j) = 0
           THEN UNCHANGED memory /\ writes' = [writes EXCEPT ![p] = <<SaveJob(p, job)>>]
           ELSE CancelParent(p, p, <<SaveJob(p, job)>>)
    BY <1>15 DEF Finish
  <2>2. {"pc", "child"} \subseteq DOMAIN job /\ job.pc \notin Leg
    BY <1>1, EndedFacts DEF Leg
  <2> HIDE DEF job
  <2>3. Keeps(p)
    <3>1. CASE RemainingOf(j) = 0
      BY <1>1, <2>1, <3>1, SaveJobKeeps
    <3>2. CASE RemainingOf(j) # 0
      <4> DEFINE l == <<SaveJob(p, job)>>
      <4>1. Backed(db, l) /\ CancelParent(p, p, l)
        BY <1>1, <2>1, <3>2, JobBacked
      <4> HIDE DEF l
      <4> QED  BY <1>1, <4>1, CancelParentKeeps
    <3> QED  BY <3>1, <3>2
  <2> QED  BY <1>3, <2>1, <2>2, <2>3
<1>16. CASE Fail(p)
  <2> DEFINE job == [j EXCEPT !.pc = "failing"]
  <2>1. CancelParent(p, p, <<>>) /\ Goes(p, job)
    BY <1>16 DEF Fail
  <2>2. Keeps(p)
    BY <1>1, <2>1, EmptyBacked, CancelParentKeeps
  <2>3. {"pc", "child"} \subseteq DOMAIN job /\ job.pc \notin Leg
    BY <1>1 DEF Leg
  <2> HIDE DEF job
  <2> QED  BY <1>3, <2>1, <2>2, <2>3
<1>17. CASE BecomeFailed(p)
  <2> DEFINE job == Ended(j, "Failed")
  <2>1. /\ Goes(p, job) /\ UNCHANGED memory
        /\ writes' = [writes EXCEPT ![p] = <<SaveJob(p, job)>>]
    BY <1>17 DEF BecomeFailed
  <2>2. {"pc", "child"} \subseteq DOMAIN job /\ job.pc \notin Leg
    BY <1>1, EndedFacts DEF Leg
  <2> HIDE DEF job
  <2>3. Keeps(p)
    BY <1>1, <2>1, SaveJobKeeps
  <2> QED  BY <1>3, <2>1, <2>2, <2>3
<1> QED
  BY <1>4, <1>5, <1>6, <1>7, <1>8, <1>9, <1>10, <1>11, <1>12, <1>13, <1>14, <1>15,
     <1>16, <1>17 DEF JobDoes

-----------------------------------------------------------------------------
(* The steps of the API thread, of the callbacks and of the process.       *)

LEMMA ComingFacts ==
  ASSUME NEW d, NEW table, NEW id
  PROVE  /\ \A list : id \in DOMAIN d[table] => Coming(d, list, table, id)
         /\ Coming(d, <<>>, table, id) => id \in DOMAIN d[table]
         /\ \A w : w.table = table /\ w.id = id => Coming(d, <<w>>, table, id)
<1>1. \A list : id \in DOMAIN d[table] => Coming(d, list, table, id)
  BY DEF Coming, There
<1>2. ASSUME Coming(d, <<>>, table, id) PROVE id \in DOMAIN d[table]
  <2> DEFINE e == <<>>
             n == Len(e) + 1
  <2>1. 1 .. (n - 1) = {}
    OBVIOUS
  <2>2. There(d, e, n, table, id)
    BY <1>2 DEF Coming
  <2> HIDE DEF e, n
  <2> QED  BY <2>1, <2>2 DEF There
<1>3. ASSUME NEW w, w.table = table, w.id = id PROVE Coming(d, <<w>>, table, id)
  <2> DEFINE one == <<w>>
             n == Len(one) + 1
  <2>1. 1 \in 1 .. (n - 1) /\ one[1] = w
    OBVIOUS
  <2> HIDE DEF one, n
  <2>2. There(d, one, n, table, id)
    BY <1>3, <2>1 DEF There
  <2> QED  BY <2>2 DEF Coming, one, n
<1> QED  BY <1>1, <1>2, <1>3

LEMMA WorkingGrows ==
  ASSUME Working(jobs, parents, children, db), NEW ps, NEW ks, NEW e,
         DOMAIN parents \subseteq DOMAIN ps, DOMAIN children \subseteq DOMAIN ks,
         DOMAIN db["parents"] \subseteq DOMAIN e["parents"]
  PROVE  Working(jobs, ps, ks, e)
BY DEF Working

LEMMA JobStepInvariant ==
  ASSUME IInv, NEW p \in DOMAIN jobs, JobStep(p)
  PROVE  IInv'
<1>1. /\ JobDoes(p) /\ db' = db /\ api' = api /\ phase' = phase
      /\ callback_set' = callback_set
  BY DEF JobStep, JobDoes
<1>2. /\ Family(parents, children) /\ Queued(db, writes) /\ Rows(db) /\ Ordered(db)
      /\ Working(jobs, parents, children, db)
      /\ Submitting(api, phase, parents, jobs, db, writes[Api])
      /\ phase = "serving" => callback_set
  BY DEF IInv
<1>3. Keeps(p) /\ Working(jobs', parents', children', db)
  BY <1>1, <1>2, JobDoesKeeps
<1>4. DOMAIN jobs' = DOMAIN jobs
  BY <1>1 DEF JobDoes, SeeCancel, BecomeCancelled, BeginSlice, SkipSlice, RouteSlice, OpenLeg,
        RejectLeg, WorkLeg, FillLeg, EndLeg, EndSlice, Finish, Fail, BecomeFailed, Goes
<1>5. Api \in Thread \ {p}
  BY <1>2, OmsAssumption DEF Working, Family, Api, Thread
<1>6. writes'[Api] = writes[Api]
  BY <1>3, <1>5 DEF Keeps
<1>7. Submitting(api, phase, parents', jobs', db, writes[Api])
  BY <1>2, <1>3, <1>4 DEF Submitting, Keeps
<1> QED  BY <1>1, <1>2, <1>3, <1>6, <1>7 DEF IInv, Keeps

LEMMA SubmitInvariant ==
  ASSUME IInv, NEW r \in Requests, Submit(r)
  PROVE  IInv'
<1> DEFINE p == NextId(parents)
           a == [step |-> "created", parent |-> p, request |-> r]
           row == [quantity |-> r.quantity, filled |-> 0, remaining |-> r.quantity,
                   status |-> "New", child_ids |-> {}]
<1>1. /\ ApiReady("idle") /\ p <= MaxParents /\ CreateParent(Api, p, r.quantity)
      /\ api' = a /\ db' = db /\ jobs' = jobs /\ phase' = phase /\ callback_set' = callback_set
  BY DEF Submit
<1>2. /\ Family(parents, children) /\ Queued(db, writes) /\ Rows(db) /\ Ordered(db)
      /\ Working(jobs, parents, children, db)
      /\ phase = "serving" /\ callback_set /\ writes[Api] = <<>>
  BY <1>1 DEF IInv, ApiReady, Ready
<1>3. MaxParents \in Nat /\ DOMAIN parents \subseteq 1 .. MaxParents /\ Api \in Thread
  BY <1>2, OmsAssumption DEF Family, Api, Thread
<1>4. p \in Nat \ {0} /\ p \notin DOMAIN parents
  BY <1>3, NextIdFacts
<1>5. writes' = [writes EXCEPT ![Api] = @ \o <<SaveParent(p, row)>>]
  BY <1>1, <1>2 DEF CreateParent, Callback
<1> HIDE DEF p
<1>6. p \in 1 .. MaxParents
  BY <1>1, <1>3, <1>4
<1>7. Keeps(Api) /\ p \in DOMAIN parents'
  <2> DEFINE q == r.quantity
  <2> HIDE DEF q
  <2>1. CreateParent(Api, p, q)
    BY <1>1 DEF q
  <2> QED  BY <1>2, <1>3, <1>4, <1>6, <2>1, CreateParentKeeps
<1>8. Coming(db, writes'[Api], "parents", p)
  <2> DEFINE w == SaveParent(p, row)
             one == <<w>>
  <2>1. w.table = "parents" /\ w.id = p
    BY DEF SaveParent, Write
  <2>2. writes' = [writes EXCEPT ![Api] = writes[Api] \o one]
    BY <1>5
  <2> HIDE DEF w
  <2>3. Coming(db, one, "parents", p)
    BY <2>1, ComingFacts
  <2>4. one \in Seq({w})
    OBVIOUS
  <2> HIDE DEF one
  <2>5. <<>> \o one = one
    BY <2>4
  <2>6. writes'[Api] = one
    BY <1>2, <1>3, <2>2, <2>5 DEF Queued
  <2> QED  BY <2>3, <2>6
<1>9. Submitting(a, phase, parents', jobs, db, writes'[Api])
  <2>1. DOMAIN a = {"step", "parent", "request"} /\ a.step = "created" /\ a.parent = p
    OBVIOUS
  <2> HIDE DEF a
  <2> QED  BY <1>2, <1>7, <1>8, <2>1 DEF Submitting
<1>10. Working(jobs, parents', children', db)
  BY <1>2, <1>7, WorkingGrows DEF Keeps
<1> QED  BY <1>1, <1>2, <1>7, <1>9, <1>10 DEF IInv, Keeps

LEMMA EnterJobInvariant ==
  ASSUME IInv, EnterJob
  PROVE  IInv'
<1> DEFINE p == api.parent
           job == Job(api.request, 0, 0, "starting")
           list == <<SaveJob(p, job)>>
           a == [api EXCEPT !.step = "entered"]
<1>1. /\ ApiReady("created") /\ jobs' = Put(jobs, p, job)
      /\ writes' = [writes EXCEPT ![Api] = list] /\ api' = a
      /\ parents' = parents /\ children' = children
      /\ db' = db /\ phase' = phase /\ callback_set' = callback_set
  BY DEF EnterJob, memory
<1>2. /\ Family(parents, children) /\ Queued(db, writes) /\ Rows(db) /\ Ordered(db)
      /\ Working(jobs, parents, children, db)
      /\ Submitting(api, phase, parents, jobs, db, writes[Api])
      /\ phase = "serving" /\ callback_set /\ api.step = "created" /\ writes[Api] = <<>>
  BY <1>1 DEF IInv, ApiReady, Ready
<1>3. p \in DOMAIN parents /\ Coming(db, <<>>, "parents", p) /\ "step" \in DOMAIN api
  BY <1>2 DEF Submitting
<1>4. p \in DOMAIN db["parents"]
  BY <1>3, ComingFacts
<1>5. Api \in Thread
  BY OmsAssumption DEF Api, Thread
<1>6. a.step = "entered" /\ "step" \in DOMAIN a /\ a.parent = p
  BY <1>3
<1>7. {"pc", "child"} \subseteq DOMAIN job /\ job.pc = "starting"
  BY DEF Job
<1>8. Coming(db, list, "parents", p) /\ Coming(db, list, "jobs", p) /\ Backed(db, list)
  <2> DEFINE w == SaveJob(p, job)
  <2>1. w.table = "jobs" /\ w.id = p
    BY DEF SaveJob, Write
  <2>2. Backed(db, list)
    BY <1>4, JobBacked
  <2> HIDE DEF w
  <2> QED  BY <1>4, <2>1, <2>2, ComingFacts DEF w
<1> HIDE DEF p, job, list, a
<1>9. /\ DOMAIN jobs' = DOMAIN jobs \cup {p} /\ jobs'[p] = job
      /\ \A x \in DOMAIN jobs : x # p => jobs'[x] = jobs[x]
  BY <1>1 DEF Put
<1>10. Working(jobs', parents, children, db)
  BY <1>2, <1>3, <1>4, <1>7, <1>9 DEF Working
<1>11. Queued(db, writes') /\ writes'[Api] = list
  BY <1>1, <1>2, <1>5, <1>8 DEF Queued
<1>12. Submitting(a, phase, parents, jobs', db, list)
  BY <1>2, <1>3, <1>6, <1>8, <1>9 DEF Submitting
<1> QED  BY <1>1, <1>2, <1>10, <1>11, <1>12 DEF IInv

LEMMA StartWorkerInvariant ==
  ASSUME IInv, StartWorker
  PROVE  IInv'
<1> DEFINE p == api.parent
           list == <<SaveRequest(p, api.request)>>
<1>1. /\ ApiReady("entered") /\ jobs' = [jobs EXCEPT ![p].pc = "top"]
      /\ writes' = [writes EXCEPT ![Api] = list] /\ api' = Idle
      /\ parents' = parents /\ children' = children
      /\ db' = db /\ phase' = phase /\ callback_set' = callback_set
  BY DEF StartWorker, memory
<1>2. /\ Family(parents, children) /\ Queued(db, writes) /\ Rows(db) /\ Ordered(db)
      /\ Working(jobs, parents, children, db)
      /\ Submitting(api, phase, parents, jobs, db, writes[Api])
      /\ phase = "serving" /\ callback_set /\ api.step = "entered" /\ writes[Api] = <<>>
  BY <1>1 DEF IInv, ApiReady, Ready
<1>3. p \in DOMAIN jobs /\ Coming(db, <<>>, "jobs", p)
  BY <1>2 DEF Submitting
<1>4. p \in DOMAIN db["jobs"]
  BY <1>3, ComingFacts
<1>5. Api \in Thread
  BY OmsAssumption DEF Api, Thread
<1>6. Backed(db, list)
  BY <1>4, RequestBacked
<1> HIDE DEF p, list
<1> DEFINE job == [jobs[p] EXCEPT !.pc = "top"]
<1>7. {"pc", "child"} \subseteq DOMAIN job /\ job.pc = "top"
  BY <1>2, <1>3 DEF Working
<1>8. jobs' = [jobs EXCEPT ![p] = job]
  BY <1>1
<1> HIDE DEF job
<1>9. /\ DOMAIN jobs' = DOMAIN jobs /\ jobs'[p] = job
      /\ \A x \in DOMAIN jobs : x # p => jobs'[x] = jobs[x]
  BY <1>3, <1>8
<1>10. Working(jobs', parents, children, db)
  BY <1>2, <1>7, <1>9 DEF Working
<1>11. Queued(db, writes')
  BY <1>1, <1>2, <1>5, <1>6 DEF Queued
<1>12. Submitting(Idle, phase, parents, jobs', db, writes'[Api])
  BY DEF Submitting, Idle
<1> QED  BY <1>1, <1>2, <1>10, <1>11, <1>12 DEF IInv

LEMMA CancelAlgoInvariant ==
  ASSUME IInv, NEW p \in DOMAIN jobs, CancelAlgo(p)
  PROVE  IInv'
<1> DEFINE job == [jobs[p] EXCEPT !.cancel = TRUE]
<1>1. /\ jobs' = [jobs EXCEPT ![p] = job] /\ parents' = parents /\ children' = children
      /\ writes' = writes /\ db' = db /\ api' = api /\ phase' = phase
      /\ callback_set' = callback_set
  BY DEF CancelAlgo, omsVars
<1>2. /\ Family(parents, children) /\ Queued(db, writes) /\ Rows(db) /\ Ordered(db)
      /\ Working(jobs, parents, children, db)
      /\ Submitting(api, phase, parents, jobs, db, writes[Api])
      /\ phase = "serving" => callback_set
  BY DEF IInv
<1>3. {"pc", "child"} \subseteq DOMAIN jobs[p]
  BY <1>2 DEF Working
<1>4. DOMAIN job = DOMAIN jobs[p] /\ job.pc = jobs[p].pc /\ job.child = jobs[p].child
  BY <1>3
<1> HIDE DEF job
<1>5. /\ DOMAIN jobs' = DOMAIN jobs /\ jobs'[p] = job
      /\ \A x \in DOMAIN jobs : x # p => jobs'[x] = jobs[x]
  BY <1>1
<1>6. Working(jobs', parents, children, db)
  BY <1>2, <1>4, <1>5 DEF Working
<1>7. Submitting(api, phase, parents, jobs', db, writes[Api])
  BY <1>2, <1>5 DEF Submitting
<1> QED  BY <1>1, <1>2, <1>6, <1>7 DEF IInv

LEMMA CancelChildByRestInvariant ==
  ASSUME IInv, NEW c \in DOMAIN children, CancelChildByRest(c)
  PROVE  IInv'
<1>1. /\ ApiReady("idle") /\ SetChildStatus(Api, c, "Cancelled")
      /\ db' = db /\ jobs' = jobs /\ api' = api /\ phase' = phase
      /\ callback_set' = callback_set
  BY DEF CancelChildByRest, CancelChild
<1>2. /\ Family(parents, children) /\ Queued(db, writes) /\ Rows(db) /\ Ordered(db)
      /\ Working(jobs, parents, children, db)
      /\ Submitting(api, phase, parents, jobs, db, writes[Api])
      /\ phase = "serving" => callback_set
  BY DEF IInv
<1>3. api.step = "idle"
  BY <1>1 DEF ApiReady
<1>4. Api \in Thread
  BY OmsAssumption DEF Api, Thread
<1>5. Keeps(Api)
  BY <1>1, <1>2, <1>4, SetChildStatusKeeps
<1>6. Working(jobs, parents', children', db)
  BY <1>2, <1>5, WorkingGrows DEF Keeps
<1>7. Submitting(api, phase, parents', jobs, db, writes'[Api])
  BY <1>2, <1>3 DEF Submitting
<1> QED  BY <1>1, <1>2, <1>3, <1>5, <1>6, <1>7 DEF IInv, Keeps

(* A callback writes a row: the tables grow, and stay in order.            *)
LEMMA CallbacksInvariant ==
  ASSUME IInv, NEW t \in Thread, Callbacks(t)
  PROVE  IInv'
<1> DEFINE list == writes[t]
           w == Head(list)
<1>1. /\ list # <<>> /\ writes' = [writes EXCEPT ![t] = Tail(list)]
      /\ db' = IF w.table = "positions" THEN db ELSE Stored(db, w)
      /\ parents' = parents /\ children' = children /\ jobs' = jobs
      /\ api' = api /\ phase' = phase /\ callback_set' = callback_set
  BY DEF Callbacks, Persist, memory, Stored
<1>2. /\ Family(parents, children) /\ Queued(db, writes) /\ Rows(db) /\ Ordered(db)
      /\ Working(jobs, parents, children, db)
      /\ Submitting(api, phase, parents, jobs, db, writes[Api])
      /\ phase = "serving" => callback_set
  BY DEF IInv
<1>3. Backed(db, list)
  BY <1>2 DEF Queued
<1>4. RowFits(w) /\ WriteBacked(db, <<w>>, 1)
  BY <1>1, <1>3, HeadBacked
<1>5. /\ Rows(db') /\ Ordered(db') /\ Larger(db, db')
      /\ w.table \in Table => w.id \in DOMAIN db'[w.table]
  <2> HIDE DEF w
  <2>1. CASE w.table = "positions"
    BY <1>1, <1>2, <2>1 DEF Larger, Table
  <2>2. CASE w.table # "positions"
    <3>1. w.table \in Table /\ db' = Stored(db, w)
      BY <1>1, <1>4, <2>2 DEF RowFits
    <3>2. Rows(Stored(db, w)) /\ Ordered(Stored(db, w))
      BY <1>2, <1>4, <3>1, StoredOrdered
    <3>3. Larger(db, Stored(db, w)) /\ w.id \in DOMAIN Stored(db, w)[w.table]
      BY <1>2, <3>1, StoredFacts
    <3> QED  BY <3>1, <3>2, <3>3
  <2> QED  BY <2>1, <2>2
<1>6. Backed(db', Tail(list))
  BY <1>1, <1>3, <1>5, TailBacked
<1>7. \A u \in Thread : Backed(db', writes[u])
  BY <1>2, <1>5, LargerBacks DEF Queued
<1>8. Queued(db', writes')
  <2> DEFINE rest == Tail(list)
  <2> HIDE DEF rest
  <2>1. writes' = [writes EXCEPT ![t] = rest] /\ Backed(db', rest)
    BY <1>1, <1>6 DEF rest
  <2> HIDE DEF list
  <2> QED  BY <1>2, <1>7, <2>1 DEF Queued
<1>9. DOMAIN db["parents"] \subseteq DOMAIN db'["parents"]
  BY <1>5 DEF Larger, Table
<1>10. Working(jobs, parents, children, db')
  BY <1>2, <1>9, WorkingGrows
<1>11. ASSUME NEW table \in Table, NEW id, Coming(db, writes[Api], table, id)
       PROVE  Coming(db', writes'[Api], table, id)
  <2>1. CASE t = Api
    <3> DEFINE rest == Tail(list)
               n == Len(list)
    <3>1. IsList(list) /\ n \in Nat \ {0} /\ Len(rest) = n - 1 /\ n \in 1 .. Len(list)
      <4>1. IsList(list)
        BY <1>3 DEF Backed
      <4> QED  BY <1>1, <4>1, TailFacts
    <3>2. There(db, list, n + 1, table, id)
      BY <1>11, <2>1 DEF Coming
    <3>3. There(db', rest, n, table, id)
      BY <1>1, <1>5, <3>1, <3>2, ThereTail
    <3>4. n = Len(rest) + 1
      BY <3>1
    <3>5. writes'[Api] = rest
      BY <1>1, <1>2, <2>1 DEF Queued
    <3> HIDE DEF n, rest
    <3> QED  BY <3>3, <3>4, <3>5 DEF Coming
  <2>2. CASE t # Api
    <3>1. writes'[Api] = writes[Api]
      BY <1>1, <2>2
    <3>2. DOMAIN db[table] \subseteq DOMAIN db'[table]
      BY <1>5 DEF Larger
    <3> DEFINE l == writes[Api]
               n == Len(l) + 1
    <3>3. There(db, l, n, table, id)
      BY <1>11 DEF Coming
    <3> HIDE DEF l, n
    <3>4. There(db', l, n, table, id)
      BY <3>2, <3>3 DEF There
    <3> QED  BY <3>1, <3>4 DEF Coming, l, n
  <2> QED  BY <2>1, <2>2
<1>12. Submitting(api, phase, parents, jobs, db', writes'[Api])
  <2>1. "parents" \in Table /\ "jobs" \in Table
    BY DEF Table
  <2> QED  BY <1>2, <1>11, <2>1 DEF Submitting
<1> QED  BY <1>1, <1>2, <1>5, <1>8, <1>10, <1>12 DEF IInv

LEMMA NoWritesQueued ==
  ASSUME NEW d PROVE Queued(d, NoWrites)
BY EmptyBacked DEF Queued, NoWrites

LEMMA CrashInvariant ==
  ASSUME IInv, Crash
  PROVE  IInv'
<1>1. /\ parents' = <<>> /\ children' = <<>> /\ writes' = NoWrites /\ jobs' = <<>>
      /\ api' = Idle /\ phase' = "down" /\ db' = db
  BY DEF Crash
<1>2. Rows(db) /\ Ordered(db)
  BY DEF IInv
<1>3. DOMAIN parents' = {} /\ DOMAIN children' = {} /\ DOMAIN jobs' = {}
  BY <1>1
<1>4. Family(parents', children')
  BY <1>3 DEF Family
<1>5. Working(jobs', parents', children', db)
  BY <1>3 DEF Working
<1>6. Queued(db, writes')
  BY <1>1, NoWritesQueued
<1>7. Submitting(api', phase', parents', jobs', db, writes'[Api])
  BY <1>1 DEF Submitting, Idle
<1> QED  BY <1>1, <1>2, <1>4, <1>5, <1>6, <1>7 DEF IInv

(* The server comes up: the memory is what the tables say.                 *)
LEMMA RestartInvariant ==
  ASSUME IInv, Restart
  PROVE  IInv'
<1> DEFINE row == [p \in DOMAIN db["jobs"] |-> RestoredRow(p)]
<1>1. /\ phase = "down" /\ children' = db["children"] /\ parents' = LoadedParents
      /\ jobs' = [p \in DOMAIN db["jobs"] |-> RestoredJob(p)]
      /\ db' = [db EXCEPT !["jobs"] = row]
      /\ phase' = "resumed" /\ writes' = writes /\ api' = api
  BY DEF Restart, Load
<1>2. /\ Queued(db, writes) /\ Rows(db) /\ Ordered(db)
      /\ Submitting(api, phase, parents, jobs, db, writes[Api])
  BY DEF IInv
<1>3. DOMAIN row = DOMAIN db["jobs"]
  OBVIOUS
<1> HIDE DEF row
<1>4. /\ DOMAIN db' = Table /\ \A table \in Table : DOMAIN db'[table] = DOMAIN db[table]
      /\ db'["parents"] = db["parents"] /\ db'["children"] = db["children"]
      /\ db'["fills"] = db["fills"]
  BY <1>1, <1>2, <1>3 DEF Rows, Table
<1>5. Rows(db') /\ Ordered(db') /\ Larger(db, db')
  BY <1>2, <1>4 DEF Rows, Ordered, Larger, Table
<1>6. Queued(db', writes')
  BY <1>1, <1>2, <1>5, LargerBacks DEF Queued
<1>7. /\ DOMAIN parents' = DOMAIN db["parents"]
      /\ \A p \in DOMAIN db["parents"] :
           /\ IsParent(parents'[p])
           /\ parents'[p].child_ids
                = {c \in DOMAIN db["children"] : db["children"][c].parent = p}
  <2>1. DOMAIN parents' = DOMAIN db["parents"]
    BY <1>1 DEF LoadedParents
  <2>2. ASSUME NEW p \in DOMAIN db["parents"]
        PROVE  /\ IsParent(parents'[p])
               /\ parents'[p].child_ids
                    = {c \in DOMAIN db["children"] : db["children"][c].parent = p}
    <3> DEFINE r == db["parents"][p]
               ids == {c \in DOMAIN db["children"] : db["children"][c].parent = p}
    <3>1. parents'[p] = [r EXCEPT !.child_ids = ids]
      BY <1>1 DEF LoadedParents
    <3>2. IsParent(r)
      BY <1>2 DEF Rows
    <3> HIDE DEF r, ids
    <3>3. parents'[p] = [quantity |-> r.quantity, filled |-> r.filled,
                         remaining |-> r.remaining, status |-> r.status, child_ids |-> ids]
      BY <3>1, <3>2 DEF IsParent
    <3>4. IsParent(parents'[p]) /\ parents'[p].child_ids = ids
      BY <3>3 DEF IsParent
    <3> QED  BY <3>4 DEF ids
  <2> QED  BY <2>1, <2>2
<1>8. Family(parents', children')
  BY <1>1, <1>2, <1>7 DEF Family, Rows, Ordered
<1>9. ASSUME NEW p \in DOMAIN db["jobs"]
      PROVE  {"pc", "child"} \subseteq DOMAIN RestoredJob(p) /\ RestoredJob(p).pc \notin Leg
  BY DEF RestoredJob, Job, Leg
<1>10. Working(jobs', parents', children', db')
  <2>1. /\ DOMAIN jobs' = DOMAIN db["jobs"]
        /\ \A p \in DOMAIN jobs' : jobs'[p] = RestoredJob(p)
    BY <1>1
  <2>2. DOMAIN jobs' \subseteq DOMAIN db["parents"]
    BY <1>2, <2>1 DEF Ordered
  <2> QED  BY <1>4, <1>7, <1>9, <2>1, <2>2 DEF Working, Leg
<1>11. Submitting(api', phase', parents', jobs', db', writes'[Api])
  <2>1. "step" \in DOMAIN api /\ api.step = "idle"
    BY <1>1, <1>2 DEF Submitting
  <2> QED  BY <1>1, <2>1 DEF Submitting
<1> QED  BY <1>1, <1>5, <1>6, <1>8, <1>10, <1>11 DEF IInv

LEMMA StartingUpInvariant ==
  ASSUME IInv, RebuildPositions \/ SetMutationCallback
  PROVE  IInv'
<1>1. /\ parents' = parents /\ children' = children /\ jobs' = jobs /\ writes' = writes
      /\ db' = db /\ api' = api /\ phase # "serving"
      /\ phase' = "serving" => callback_set'
  BY DEF RebuildPositions, SetMutationCallback, memory
<1>2. Submitting(api, phase', parents, jobs, db, writes[Api])
  BY <1>1 DEF IInv, Submitting
<1> QED  BY <1>1, <1>2 DEF IInv

LEMMA InitInvariant ==
  ASSUME Init PROVE IInv
<1>1. /\ parents = <<>> /\ children = <<>> /\ writes = NoWrites /\ jobs = <<>> /\ api = Idle
      /\ phase = "serving" /\ callback_set = TRUE
      /\ db = [parents |-> <<>>, children |-> <<>>, fills |-> <<>>, drops |-> <<>>,
               jobs |-> <<>>, requests |-> <<>>]
  BY DEF Init, OmsInit
<1>2. DOMAIN parents = {} /\ DOMAIN children = {} /\ DOMAIN jobs = {}
  BY <1>1
<1>3. DOMAIN db = Table /\ \A table \in Table : DOMAIN db[table] = {}
  BY <1>1 DEF Table
<1>4. Rows(db) /\ Ordered(db)
  BY <1>3 DEF Rows, Ordered, Table
<1>5. Family(parents, children) /\ Working(jobs, parents, children, db)
  BY <1>2 DEF Family, Working
<1>6. Queued(db, writes)
  BY <1>1, NoWritesQueued
<1>7. Submitting(api, phase, parents, jobs, db, writes[Api])
  BY <1>1 DEF Submitting, Idle
<1> QED  BY <1>1, <1>4, <1>5, <1>6, <1>7 DEF IInv

LEMMA Invariance == Spec => []IInv
<1>1. Init => IInv
  BY InitInvariant
<1>2. IInv /\ [Next]_vars => IInv'
  <2> SUFFICES ASSUME IInv, [Next]_vars PROVE IInv'
    OBVIOUS
  <2>1. CASE \E r \in Requests : Submit(r)
    BY <2>1, SubmitInvariant
  <2>2. CASE EnterJob
    BY <2>2, EnterJobInvariant
  <2>3. CASE StartWorker
    BY <2>3, StartWorkerInvariant
  <2>4. CASE \E p \in DOMAIN jobs : CancelAlgo(p)
    BY <2>4, CancelAlgoInvariant
  <2>5. CASE \E c \in DOMAIN children : CancelChildByRest(c)
    BY <2>5, CancelChildByRestInvariant
  <2>6. CASE \E p \in DOMAIN jobs : JobStep(p)
    BY <2>6, JobStepInvariant
  <2>7. CASE \E t \in Thread : Callbacks(t)
    BY <2>7, CallbacksInvariant
  <2>8. CASE Crash
    BY <2>8, CrashInvariant
  <2>9. CASE Restart
    BY <2>9, RestartInvariant
  <2>10. CASE RebuildPositions \/ SetMutationCallback
    BY <2>10, StartingUpInvariant
  <2>11. CASE UNCHANGED vars
    BY <2>11 DEF IInv, vars, omsVars
  <2> QED
    BY <2>1, <2>2, <2>3, <2>4, <2>5, <2>6, <2>7, <2>8, <2>9, <2>10, <2>11 DEF Next
<1> QED  BY <1>1, <1>2, PTL DEF Spec

(* Whatever the job threads and the API write at the same time, and        *)
(* wherever the process dies, for any number of orders, requests and       *)
(* crashes: no child row is without its parent, no fill without its child, *)
(* no published fill without its row, no request without its job and no    *)
(* job without its parent (the order of the writes in the mutation         *)
(* callback, in submit and in run_job).                                    *)
THEOREM TablesOrdered == Spec => []StoreOrdered
<1>1. IInv => StoreOrdered
  BY DEF IInv, Ordered, StoreOrdered
<1> QED  BY <1>1, Invariance, PTL

-----------------------------------------------------------------------------
(* The figures of the orders, as long as the process has not crashed.      *)

SumOver(ks, ids) == SumFunction([c \in ids |-> ks[c].filled])

(* A child's figures.                                                      *)
ChildSound(k) ==
  /\ k.filled \in Nat /\ k.remaining \in Nat /\ k.status \in Status
  /\ k.status = "Filled" <=> k.remaining = 0

(* The fills have their parents and their quantities.                      *)
FillsSound(ps, fs) ==
  /\ \E n \in Nat : DOMAIN fs \subseteq 1 .. n
  /\ \A f \in DOMAIN fs : fs[f].quantity \in Nat /\ fs[f].parent \in DOMAIN ps

(* A parent's figures are those of its children and of its fills, and when *)
(* it is terminal so are its children.                                     *)
ParentSound(p, r, ks, fs) ==
  /\ r.quantity \in Nat \ {0} /\ r.filled \in Nat /\ r.remaining \in Nat
  /\ r.filled = FilledOf(p, fs) /\ r.filled = SumOver(ks, r.child_ids)
  /\ r.filled + r.remaining = r.quantity
  /\ r.status = "Filled" <=> r.remaining = 0
  /\ Terminal(r.status) => \A c \in r.child_ids : Terminal(ks[c].status)

Account(ps, ks, fs) ==
  /\ FillsSound(ps, fs)
  /\ \A c \in DOMAIN ks : ChildSound(ks[c]) /\ c \in ps[ks[c].parent].child_ids
  /\ \A p \in DOMAIN ps : ParentSound(p, ps[p], ks, fs)

(* Only the leg a job works on is live, and the order has room for it.     *)
OneLeg(js, ps, ks) ==
  /\ \A c \in DOMAIN ks : ~Terminal(ks[c].status) =>
       LET p == ks[c].parent
       IN /\ p \in DOMAIN js /\ js[p].pc \in Leg /\ js[p].child = c
          /\ ks[c].remaining <= ps[p].remaining
  /\ \A p \in DOMAIN js : js[p].pc \in Leg => ks[js[p].child].parent = p

(* A job counts what its order was filled, and when it is over, or about   *)
(* to be, its order is terminal.                                           *)
JobField == {"status", "quantity", "filled", "pc", "child", "slice_filled"}
JobSound(j, r) ==
  /\ JobField \subseteq DOMAIN j
  /\ j.quantity = r.quantity /\ j.filled \in Nat /\ j.slice_filled \in Nat
  /\ j.pc # "done" => j.filled + j.slice_filled = r.filled
  /\ j.status # "Running" => j.pc = "done"
  /\ j.pc \in {"cancelled", "failing", "done"} => Terminal(r.status)

(* A submission under way: the order is untouched, then the job waits.     *)
Untouched(a, js, ps) ==
  /\ a.step = "created" => /\ a.parent \notin DOMAIN js
                           /\ ps[a.parent].filled = 0
                           /\ ps[a.parent].quantity = a.request.quantity
  /\ a.step = "entered" => js[a.parent].pc = "starting"

Sound ==
  /\ Account(parents, children, fills)
  /\ OneLeg(jobs, parents, children)
  /\ \A p \in DOMAIN jobs : JobSound(jobs[p], parents[p])
  /\ Untouched(api, jobs, parents)
  /\ phase # "down"

(* What the sums over children and over fills are after a change.          *)
LEMMA SumTotal ==
  ASSUME NEW ks, NEW ids, IsFiniteSet(ids), \A c \in ids : ks[c].filled \in Nat
  PROVE  /\ SumOver(ks, ids) = SumFunctionOnSet([c \in ids |-> ks[c].filled], ids)
         /\ Summable([c \in ids |-> ks[c].filled], ids) /\ SumOver(ks, ids) \in Nat
<1> DEFINE f == [c \in ids |-> ks[c].filled]
<1>1. DOMAIN f = ids /\ \A c \in ids : f[c] \in Nat
  OBVIOUS
<1>2. SumOver(ks, ids) = SumFunctionOnSet(f, ids)
  BY <1>1 DEF SumOver, SumFunction
<1> HIDE DEF f
<1>3. Summable(f, ids) /\ SumFunctionOnSet(f, ids) \in Nat
  BY <1>1, SumNatural
<1> QED  BY <1>2, <1>3 DEF f

LEMMA SumSame ==
  ASSUME NEW ks, NEW ls, NEW ids, IsFiniteSet(ids), \A c \in ids : ks[c].filled \in Nat,
         \A c \in ids : ls[c].filled = ks[c].filled
  PROVE  SumOver(ls, ids) = SumOver(ks, ids)
<1>1. [c \in ids |-> ls[c].filled] = [c \in ids |-> ks[c].filled]
  OBVIOUS
<1> QED  BY <1>1 DEF SumOver

LEMMA SumChild ==
  ASSUME NEW ks, NEW ls, NEW ids, IsFiniteSet(ids), \A c \in ids : ks[c].filled \in Nat,
         NEW x \in ids, NEW q \in Nat, ls[x].filled = ks[x].filled + q,
         \A c \in ids : c # x => ls[c].filled = ks[c].filled
  PROVE  SumOver(ls, ids) = SumOver(ks, ids) + q
<1> DEFINE f == [c \in ids |-> ks[c].filled]
           g == [c \in ids |-> ls[c].filled]
           R == ids \ {x}
<1>1. \A c \in ids : ls[c].filled \in Nat
  OBVIOUS
<1>2. Summable(f, ids) /\ SumOver(ks, ids) = SumFunctionOnSet(f, ids)
  BY SumTotal
<1>3. Summable(g, ids) /\ SumOver(ls, ids) = SumFunctionOnSet(g, ids)
  BY <1>1, SumTotal
<1>4. f[x] \in Nat /\ g[x] = f[x] + q /\ \A c \in R : g[c] = f[c]
  OBVIOUS
<1> HIDE DEF f, g
<1>5. /\ SumFunctionOnSet(f, ids) = f[x] + SumFunctionOnSet(f, R)
      /\ SumFunctionOnSet(f, R) \in Int /\ Summable(f, R)
  BY <1>2, SumRemoves, SubSummable
<1>6. SumFunctionOnSet(g, ids) = g[x] + SumFunctionOnSet(g, R)
  BY <1>3, SumRemoves
<1>7. SumFunctionOnSet(g, R) = SumFunctionOnSet(f, R)
  BY <1>4, <1>5, SumAgrees
<1> HIDE DEF R
<1> QED  BY <1>2, <1>3, <1>4, <1>5, <1>6, <1>7

LEMMA SumNewChild ==
  ASSUME NEW ks, NEW ls, NEW ids, IsFiniteSet(ids), \A c \in ids : ks[c].filled \in Nat,
         NEW x, x \notin ids, ls[x].filled = 0, \A c \in ids : ls[c].filled = ks[c].filled
  PROVE  SumOver(ls, ids \cup {x}) = SumOver(ks, ids)
<1> DEFINE R == ids \cup {x}
           f == [c \in ids |-> ks[c].filled]
           g == [c \in R |-> ls[c].filled]
<1>1. IsFiniteSet(R) /\ \A c \in R : ls[c].filled \in Nat
  BY FS_AddElement
<1>2. Summable(f, ids) /\ SumOver(ks, ids) = SumFunctionOnSet(f, ids) /\ SumOver(ks, ids) \in Nat
  BY SumTotal
<1>3. SumOver(ls, R) = SumFunctionOnSet(g, R)
  BY <1>1, SumTotal
<1>4. g[x] = 0 /\ \A c \in ids : g[c] = f[c]
  OBVIOUS
<1> HIDE DEF f, g
<1>5. Summable(g, ids) /\ SumFunctionOnSet(g, ids) = SumFunctionOnSet(f, ids)
  BY <1>2, <1>4, SumAgrees
<1>6. SumFunctionOnSet(g, R) = g[x] + SumFunctionOnSet(g, ids)
  BY <1>4, <1>5, SumAdds
<1> QED  BY <1>2, <1>3, <1>4, <1>5, <1>6

LEMMA FillAdds ==
  ASSUME NEW ps, NEW fs, FillsSound(ps, fs), NEW f, f = NextId(fs), NEW fill,
         fill.quantity \in Nat, fill.parent \in DOMAIN ps
  PROVE  /\ FillsSound(ps, Put(fs, f, fill))
         /\ \A p \in DOMAIN ps :
              FilledOf(p, Put(fs, f, fill))
                = FilledOf(p, fs) + (IF p = fill.parent THEN fill.quantity ELSE 0)
<1> DEFINE gs == Put(fs, f, fill)
<1>1. PICK n \in Nat : DOMAIN fs \subseteq 1 .. n
  BY DEF FillsSound
<1>2. f \in Nat \ {0} /\ f \notin DOMAIN fs
  BY <1>1, NextIdFacts
<1>3. /\ DOMAIN gs = DOMAIN fs \cup {f} /\ gs[f] = fill
      /\ \A x \in DOMAIN fs : gs[x] = fs[x]
  BY <1>2 DEF Put
<1> HIDE DEF gs
<1>4. FillsSound(ps, gs)
  <2>1. DOMAIN gs \subseteq 1 .. (n + f) /\ n + f \in Nat
    BY <1>1, <1>2, <1>3
  <2>2. \A x \in DOMAIN gs : gs[x].quantity \in Nat /\ gs[x].parent \in DOMAIN ps
    BY <1>3 DEF FillsSound
  <2> QED  BY <2>1, <2>2 DEF FillsSound
<1>5. ASSUME NEW p \in DOMAIN ps
      PROVE  FilledOf(p, gs) = FilledOf(p, fs) + (IF p = fill.parent THEN fill.quantity ELSE 0)
  <2> DEFINE S == {x \in DOMAIN fs : fs[x].parent = p}
             a == Quantities(fs)
             b == Quantities(gs)
  <2>1. IsFiniteSet(S)
    <3>1. S \subseteq 1 .. n /\ IsFiniteSet(1 .. n)
      BY <1>1, FS_Interval
    <3> HIDE DEF S
    <3> QED  BY <3>1, FS_Subset
  <2>2. \A x \in S : a[x] \in Nat /\ b[x] = a[x]
    BY <1>3 DEF FillsSound, Quantities
  <2>3. b[f] = fill.quantity /\ f \notin S
    BY <1>2, <1>3 DEF Quantities
  <2>4. FilledOf(p, fs) = SumFunctionOnSet(a, S)
    BY DEF FilledOf
  <2>5. {x \in DOMAIN gs : gs[x].parent = p} = IF p = fill.parent THEN S \cup {f} ELSE S
    BY <1>2, <1>3
  <2>6. FilledOf(p, gs) = SumFunctionOnSet(b, IF p = fill.parent THEN S \cup {f} ELSE S)
    BY <2>5 DEF FilledOf
  <2> HIDE DEF S, a, b
  <2>7. Summable(a, S) /\ SumFunctionOnSet(a, S) \in Nat
    BY <2>1, <2>2, SumNatural
  <2>8. Summable(b, S) /\ SumFunctionOnSet(b, S) = SumFunctionOnSet(a, S)
    BY <2>2, <2>7, SumAgrees
  <2>9. SumFunctionOnSet(b, S \cup {f}) = b[f] + SumFunctionOnSet(b, S)
    BY <2>3, <2>8, SumAdds
  <2> QED  BY <2>3, <2>4, <2>6, <2>7, <2>8, <2>9
<1> QED  BY <1>4, <1>5 DEF gs

(* The fills of an order that has none add up to nothing.                  *)
LEMMA NoFills ==
  ASSUME NEW ps, NEW fs, FillsSound(ps, fs), NEW p, p \notin DOMAIN ps
  PROVE  FilledOf(p, fs) = 0
<1> DEFINE S == {x \in DOMAIN fs : fs[x].parent = p}
<1>1. S = {}
  BY DEF FillsSound
<1>2. FilledOf(p, fs) = SumFunctionOnSet(Quantities(fs), S)
  BY DEF FilledOf
<1> HIDE DEF S
<1>3. IsFiniteSet(S) /\ Summable(Quantities(fs), S)
  BY <1>1, FS_EmptySet DEF Summable
<1> QED  BY <1>1, <1>2, <1>3, SumPicks

LEMMA ChildrenFinite ==
  ASSUME NEW S \in SUBSET (1 .. MaxChildren)
  PROVE  IsFiniteSet(S)
<1>1. MaxChildren \in Nat
  BY OmsAssumption
<1>2. IsFiniteSet(1 .. MaxChildren)
  BY <1>1, FS_Interval
<1> QED  BY <1>2, FS_Subset

(* refresh_parent on children that add up to no more than the order.       *)
LEMMA RefreshedSound ==
  ASSUME NEW r, IsParent(r), NEW kids, r.status # "Cancelled", r.quantity \in Nat \ {0},
         SumOver(kids, r.child_ids) \in 0 .. r.quantity,
         \A c \in r.child_ids : kids[c].status \in Status
  PROVE  LET s == Refreshed(r, kids)
             total == SumOver(kids, r.child_ids)
         IN /\ s.quantity = r.quantity /\ s.filled = total
            /\ s.remaining = r.quantity - total
            /\ s.status = "Filled" <=> total = r.quantity
            /\ Terminal(s.status) =>
                 total = r.quantity \/ \A c \in r.child_ids : Terminal(kids[c].status)
<1> DEFINE total == SumOver(kids, r.child_ids)
           filled == AtMost(r.quantity, total)
           mine == {kids[c] : c \in r.child_ids}
           has(statuses) == \E k \in mine : k.status \in statuses
           live == has({"New", "Working", "PartiallyFilled"})
           status ==
             IF filled = r.quantity THEN "Filled"
             ELSE IF filled > 0 THEN "PartiallyFilled"
             ELSE IF live THEN "Working"
             ELSE IF has({"Cancelled"}) THEN "Cancelled"
             ELSE IF has({"Rejected"}) THEN "Rejected"
             ELSE "New"
           m == r.quantity - filled
           s == [quantity |-> r.quantity, filled |-> filled, remaining |-> m, status |-> status,
                 child_ids |-> r.child_ids]
<1>1. Refreshed(r, kids) = [r EXCEPT !.filled = filled, !.remaining = m, !.status = status]
  BY DEF Refreshed, SumOver
<1>2. filled = total
  BY DEF AtMost
<1>3. /\ status = "Filled" <=> total = r.quantity
      /\ Terminal(status) => total = r.quantity \/ ~live
  <2> HIDE DEF live, has, filled, total
  <2> QED  BY <1>2 DEF Terminal
<1>4. ~live => \A c \in r.child_ids : Terminal(kids[c].status)
  <2>1. \A c \in r.child_ids : ~live => kids[c].status \notin {"New", "Working", "PartiallyFilled"}
    OBVIOUS
  <2> HIDE DEF live
  <2> QED  BY <2>1 DEF Status, Terminal
<1> HIDE DEF status, filled, m, total, live
<1>5. Refreshed(r, kids) = s
  BY <1>1 DEF IsParent
<1> QED  BY <1>2, <1>3, <1>4, <1>5 DEF m, total

(* An update of one live child, with or without a fill, and the refresh of *)
(* its parent.                                                             *)
LEMMA UpdateSound ==
  ASSUME NEW js, NEW ps, NEW ks, NEW fs, Family(ps, ks), Account(ps, ks, fs),
         OneLeg(js, ps, ks), NEW c \in DOMAIN ks, ~Terminal(ks[c].status), NEW p, p = ks[c].parent,
         NEW k, k.parent = p, ChildSound(k), NEW q \in Nat,
         k.filled = ks[c].filled + q, k.remaining = ks[c].remaining - q,
         NEW gs, FillsSound(ps, gs),
         \A x \in DOMAIN ps : FilledOf(x, gs) = FilledOf(x, fs) + (IF x = p THEN q ELSE 0),
         NEW ls, DOMAIN ls = DOMAIN ks, ls[c] = k, \A y \in DOMAIN ks : y # c => ls[y] = ks[y],
         NEW qs, DOMAIN qs = DOMAIN ps, qs[p] = Refreshed(ps[p], ls),
         \A x \in DOMAIN ps : x # p => qs[x] = ps[x]
  PROVE  /\ Account(qs, ls, gs)
         /\ p \in DOMAIN ps /\ ~Terminal(ps[p].status)
         /\ DOMAIN qs = DOMAIN ps /\ \A x \in DOMAIN ps : x # p => qs[x] = ps[x]
         /\ qs[p].quantity = ps[p].quantity /\ qs[p].filled = ps[p].filled + q
         /\ k.remaining <= qs[p].remaining
         /\ \A y \in DOMAIN ks : y # c /\ ks[y].parent = p => Terminal(ks[y].status)
<1> DEFINE r == ps[p]
           ids == r.child_ids
           s == Refreshed(r, ls)
<1>1. /\ p \in DOMAIN ps /\ IsParent(r) /\ ids \subseteq DOMAIN ks
      /\ ids \subseteq 1 .. MaxChildren /\ \A y \in ids : ks[y].parent = p
      /\ \A y \in DOMAIN ks : ks[y].parent \in DOMAIN ps
  BY DEF Family
<1>2. c \in ids /\ \A y \in DOMAIN ks : ChildSound(ks[y]) /\ y \in ps[ks[y].parent].child_ids
  BY DEF Account
<1>3. ParentSound(p, r, ks, fs)
  BY <1>1 DEF Account
<1>4. ~Terminal(r.status)
  BY <1>2, <1>3 DEF ParentSound
<1>5. /\ ks[c].remaining <= r.remaining
      /\ \A y \in DOMAIN ks : y # c /\ ks[y].parent = p => Terminal(ks[y].status)
  BY DEF OneLeg
<1>6. IsFiniteSet(ids)
  <2> HIDE DEF ids
  <2> QED  BY <1>1, ChildrenFinite
<1>7. DOMAIN ls = DOMAIN ks /\ ls[c] = k /\ \A y \in DOMAIN ks : y # c => ls[y] = ks[y]
  OBVIOUS
<1>8. \A y \in DOMAIN ks : ChildSound(ls[y]) /\ ls[y].parent = ks[y].parent
  BY <1>2, <1>7
<1>9. \A y \in DOMAIN ks : ks[y].filled \in Nat /\ ks[y].remaining \in Nat /\ ls[y].status \in Status
  BY <1>2, <1>8 DEF ChildSound
<1>10. SumOver(ls, ids) = SumOver(ks, ids) + q
  <2>1. \A y \in ids : ks[y].filled \in Nat
    BY <1>1, <1>9
  <2>2. ls[c].filled = ks[c].filled + q
    BY <1>7
  <2>3. \A y \in ids : y # c => ls[y].filled = ks[y].filled
    BY <1>1, <1>7
  <2> HIDE DEF ids
  <2> QED  BY <1>2, <1>6, <2>1, <2>2, <2>3, SumChild
<1>11. /\ r.quantity \in Nat \ {0} /\ r.filled \in Nat /\ r.remaining \in Nat
       /\ r.filled = SumOver(ks, ids) /\ r.filled + r.remaining = r.quantity
       /\ r.filled = FilledOf(p, fs)
  BY <1>3 DEF ParentSound
<1>12. k.remaining \in Nat /\ (k.status = "Filled" <=> k.remaining = 0)
  BY DEF ChildSound
<1>13. SumOver(ls, ids) = r.filled + q /\ SumOver(ls, ids) \in 0 .. r.quantity
  <2>1. ks[c].remaining \in Nat
    BY <1>9
  <2> HIDE DEF ids, r
  <2> QED  BY <1>5, <1>10, <1>11, <1>12, <2>1
<1>14. /\ s.quantity = r.quantity /\ s.filled = r.filled + q
       /\ s.remaining = r.quantity - (r.filled + q)
       /\ s.status = "Filled" <=> r.filled + q = r.quantity
       /\ Terminal(s.status) =>
            r.filled + q = r.quantity \/ \A y \in ids : Terminal(ls[y].status)
       /\ s.child_ids = ids
  <2>1. r.status # "Cancelled"
    BY <1>4 DEF Terminal
  <2>2. \A y \in ids : ls[y].status \in Status
    BY <1>1, <1>9
  <2> HIDE DEF r
  <2> QED  BY <1>1, <1>11, <1>13, <2>1, <2>2, RefreshedSound, RefreshedFacts
<1>15. /\ DOMAIN qs = DOMAIN ps /\ qs[p] = s
       /\ \A x \in DOMAIN ps : x # p => qs[x] = ps[x]
  BY <1>1
<1> HIDE DEF s, r, ids
<1>16. k.remaining <= s.remaining
  <2>1. ks[c].remaining \in Nat
    BY <1>9
  <2> QED  BY <1>5, <1>11, <1>14, <2>1
<1>17. ParentSound(p, s, ls, gs)
  <2>1. FilledOf(p, gs) = r.filled + q
    BY <1>1, <1>11
  <2>2. s.quantity \in Nat \ {0} /\ s.filled \in Nat /\ s.remaining \in Nat
        /\ s.filled + s.remaining = s.quantity /\ (s.status = "Filled" <=> s.remaining = 0)
    BY <1>11, <1>13, <1>14
  <2>3. s.filled = FilledOf(p, gs) /\ s.filled = SumOver(ls, s.child_ids)
    BY <1>13, <1>14, <2>1
  <2>4. ASSUME Terminal(s.status), NEW y \in ids PROVE Terminal(ls[y].status)
    <3>1. CASE y # c
      BY <1>1, <1>5, <1>7, <2>4, <3>1
    <3>2. CASE y = c
      <4>1. CASE r.filled + q = r.quantity
        <5>1. k.remaining = 0
          BY <1>11, <1>12, <1>14, <1>16, <4>1
        <5>2. k.status = "Filled"
          BY <1>12, <5>1
        <5> QED  BY <1>7, <3>2, <5>2 DEF Terminal
      <4>2. CASE \A z \in ids : Terminal(ls[z].status)
        BY <4>2
      <4> QED  BY <1>14, <2>4, <4>1, <4>2
    <3> QED  BY <3>1, <3>2
  <2> QED  BY <1>14, <2>2, <2>3, <2>4 DEF ParentSound
<1>18. ASSUME NEW x \in DOMAIN ps, x # p PROVE ParentSound(x, ps[x], ls, gs)
  <2> DEFINE w == ps[x]
  <2>1. ParentSound(x, w, ks, fs)
    BY DEF Account
  <2>2. w.child_ids \subseteq DOMAIN ks /\ w.child_ids \subseteq 1 .. MaxChildren
        /\ \A y \in w.child_ids : ks[y].parent = x
    BY DEF Family
  <2>3. \A y \in w.child_ids : ls[y] = ks[y] /\ ks[y].filled \in Nat
    BY <1>7, <1>9, <1>18, <2>2
  <2>4. IsFiniteSet(w.child_ids)
    <3> HIDE DEF w
    <3> QED  BY <2>2, ChildrenFinite
  <2> HIDE DEF w
  <2>5. SumOver(ls, w.child_ids) = SumOver(ks, w.child_ids)
    <3>1. \A y \in w.child_ids : ks[y].filled \in Nat
      BY <2>3
    <3>2. \A y \in w.child_ids : ls[y].filled = ks[y].filled
      BY <2>3
    <3> QED  BY <2>4, <3>1, <3>2, SumSame
  <2>6. w.filled \in Nat /\ w.filled = FilledOf(x, fs)
    BY <2>1 DEF ParentSound
  <2>7. FilledOf(x, gs) = FilledOf(x, fs)
    BY <1>18, <2>6
  <2> QED  BY <2>1, <2>3, <2>5, <2>7 DEF ParentSound, w
<1>19. \A x \in DOMAIN qs : ParentSound(x, qs[x], ls, gs)
  BY <1>15, <1>17, <1>18
<1>20. \A y \in DOMAIN ls : ChildSound(ls[y]) /\ y \in qs[ls[y].parent].child_ids
  <2> SUFFICES ASSUME NEW y \in DOMAIN ks
               PROVE  ChildSound(ls[y]) /\ y \in qs[ls[y].parent].child_ids
    BY <1>7
  <2>1. ChildSound(ls[y]) /\ ls[y].parent = ks[y].parent /\ y \in ps[ks[y].parent].child_ids
    BY <1>2, <1>8
  <2>2. ks[y].parent \in DOMAIN ps
    BY <1>1
  <2>3. qs[ks[y].parent].child_ids = ps[ks[y].parent].child_ids
    BY <1>14, <1>15, <2>2 DEF r, ids
  <2> QED  BY <2>1, <2>3
<1>21. FillsSound(qs, gs)
  BY <1>15 DEF FillsSound
<1>22. Account(qs, ls, gs)
  BY <1>19, <1>20, <1>21 DEF Account
<1> QED  BY <1>1, <1>4, <1>5, <1>14, <1>15, <1>16, <1>22 DEF r

(* A step changes only order p and its children.                           *)
Local(p) ==
  /\ DOMAIN parents' = DOMAIN parents
  /\ \A x \in DOMAIN parents : x # p => parents'[x] = parents[x]
  /\ DOMAIN children \subseteq DOMAIN children'
  /\ \A y \in DOMAIN children' : children'[y].parent # p =>
       y \in DOMAIN children /\ children'[y] = children[y]
  /\ \A y \in DOMAIN children : children'[y].parent = children[y].parent

(* No order leaves a terminal status in the step.                          *)
Stable ==
  /\ \A p \in DOMAIN parents :
       Terminal(parents[p].status) => parents'[p].status = parents[p].status
  /\ \A c \in DOMAIN children :
       Terminal(children[c].status) => children'[c] = children[c]

(* The step fills q more of order p, and the figures still agree.          *)
Counts(p, q) ==
  /\ Account(parents', children', fills') /\ Local(p) /\ Stable
  /\ parents'[p].quantity = parents[p].quantity
  /\ parents'[p].filled = parents[p].filled + q

(* After the step child c alone is live, or none is.                       *)
OnlyLive(p, c) ==
  \A y \in DOMAIN children' : children'[y].parent = p /\ ~Terminal(children'[y].status) =>
    y = c /\ children'[y].remaining <= parents'[p].remaining
NoneLive(p) ==
  \A y \in DOMAIN children' : children'[y].parent = p => Terminal(children'[y].status)

LEMMA SameCounts ==
  ASSUME Account(parents, children, fills), NEW p \in DOMAIN parents, UNCHANGED memory
  PROVE  Counts(p, 0)
<1>1. parents' = parents /\ children' = children /\ fills' = fills
  BY DEF memory
<1>2. ParentSound(p, parents[p], children, fills)
  BY DEF Account
<1>3. parents[p].filled \in Nat
  BY <1>2 DEF ParentSound
<1> QED  BY <1>1, <1>3 DEF Counts, Local, Stable

(* A child of a job that is in no leg is terminal, and only the job's own  *)
(* leg can be live.                                                        *)
LEMMA LiveIsLeg ==
  ASSUME OneLeg(jobs, parents, children), NEW p, NEW y \in DOMAIN children,
         children[y].parent = p, ~Terminal(children[y].status)
  PROVE  /\ p \in DOMAIN jobs /\ jobs[p].pc \in Leg /\ y = jobs[p].child
         /\ children[y].remaining <= parents[p].remaining
BY DEF OneLeg

LEMMA UpdateCounts ==
  ASSUME Family(parents, children), Account(parents, children, fills),
         OneLeg(jobs, parents, children), NEW c \in DOMAIN children,
         ~Terminal(children[c].status), NEW p, p = children[c].parent,
         NEW k, k.parent = p, ChildSound(k), NEW q \in Nat,
         k.filled = children[c].filled + q, k.remaining = children[c].remaining - q,
         FillsSound(parents, fills'),
         \A x \in DOMAIN parents :
           FilledOf(x, fills') = FilledOf(x, fills) + (IF x = p THEN q ELSE 0),
         children' = [children EXCEPT ![c] = k],
         parents' = [parents EXCEPT ![p] = Refreshed(parents[p], children')]
  PROVE  /\ Counts(p, q) /\ OnlyLive(p, c) /\ p \in DOMAIN parents
         /\ Terminal(k.status) => NoneLive(p)
<1>1. p \in DOMAIN parents
  BY DEF Family
<1>2. /\ DOMAIN children' = DOMAIN children /\ children'[c] = k
      /\ \A y \in DOMAIN children : y # c => children'[y] = children[y]
  OBVIOUS
<1>3. /\ DOMAIN parents' = DOMAIN parents /\ parents'[p] = Refreshed(parents[p], children')
      /\ \A x \in DOMAIN parents : x # p => parents'[x] = parents[x]
  BY <1>1
<1>4. /\ Account(parents', children', fills') /\ ~Terminal(parents[p].status)
      /\ parents'[p].quantity = parents[p].quantity
      /\ parents'[p].filled = parents[p].filled + q
      /\ k.remaining <= parents'[p].remaining
      /\ \A y \in DOMAIN children :
           y # c /\ children[y].parent = p => Terminal(children[y].status)
  <2> DEFINE ls == children'
             qs == parents'
             gs == fills'
  <2>1. /\ DOMAIN ls = DOMAIN children /\ ls[c] = k
        /\ \A y \in DOMAIN children : y # c => ls[y] = children[y]
        /\ DOMAIN qs = DOMAIN parents /\ qs[p] = Refreshed(parents[p], ls)
        /\ \A x \in DOMAIN parents : x # p => qs[x] = parents[x]
    BY <1>2, <1>3
  <2>2. FillsSound(parents, gs)
        /\ \A x \in DOMAIN parents :
             FilledOf(x, gs) = FilledOf(x, fills) + (IF x = p THEN q ELSE 0)
    OBVIOUS
  <2> SUFFICES /\ Account(qs, ls, gs) /\ ~Terminal(parents[p].status)
               /\ qs[p].quantity = parents[p].quantity
               /\ qs[p].filled = parents[p].filled + q
               /\ k.remaining <= qs[p].remaining
               /\ \A y \in DOMAIN children :
                    y # c /\ children[y].parent = p => Terminal(children[y].status)
    OBVIOUS
  <2> HIDE DEF ls, qs, gs
  <2> QED  BY <2>1, <2>2, UpdateSound
<1>5. Local(p)
  BY <1>2, <1>3 DEF Local
<1>6. Stable
  BY <1>2, <1>3, <1>4 DEF Stable
<1>7. OnlyLive(p, c) /\ (Terminal(k.status) => NoneLive(p))
  BY <1>2, <1>4 DEF OnlyLive, NoneLive
<1> QED  BY <1>1, <1>4, <1>5, <1>6, <1>7 DEF Counts

LEMMA StatusCounts ==
  ASSUME Family(parents, children), Account(parents, children, fills),
         OneLeg(jobs, parents, children), NEW t, NEW c \in DOMAIN children,
         ~Terminal(children[c].status), NEW p, p = children[c].parent,
         NEW status \in Status, status # "Filled",
         UpdateChild(t, c, [children[c] EXCEPT !.status = status])
  PROVE  /\ Counts(p, 0) /\ OnlyLive(p, c) /\ p \in DOMAIN parents
         /\ Terminal(status) => NoneLive(p)
<1> DEFINE k == children[c]
           child == [k EXCEPT !.status = status]
<1>1. IsChild(k) /\ p \in DOMAIN parents
  BY DEF Family
<1>2. ChildSound(k)
  BY DEF Account
<1>3. UpdateChild(t, c, child) /\ k.parent = p /\ ~Terminal(k.status)
  OBVIOUS
<1> HIDE DEF k
<1>4. child = [parent |-> k.parent, quantity |-> k.quantity, filled |-> k.filled,
               remaining |-> k.remaining, status |-> status]
  BY <1>1 DEF IsChild
<1>5. k.filled \in Nat /\ k.remaining \in Nat /\ k.remaining # 0
  BY <1>2, <1>3 DEF ChildSound, Terminal
<1> HIDE DEF child
<1>6. /\ child.parent = p /\ child.filled = k.filled + 0 /\ child.remaining = k.remaining - 0
      /\ child.status = status
  BY <1>3, <1>4, <1>5
<1>7. ChildSound(child)
  BY <1>4, <1>5 DEF ChildSound
<1>8. /\ children' = [children EXCEPT ![c] = child] /\ fills' = fills
      /\ parents' = [parents EXCEPT ![p] = Refreshed(parents[p], children')]
  BY <1>3, <1>6 DEF UpdateChild
<1>9. FillsSound(parents, fills')
  BY <1>8 DEF Account
<1>10. \A x \in DOMAIN parents :
         FilledOf(x, fills') = FilledOf(x, fills) + (IF x = p THEN 0 ELSE 0)
  <2> TAKE x \in DOMAIN parents
  <2>1. ParentSound(x, parents[x], children, fills)
    BY DEF Account
  <2>2. FilledOf(x, fills) \in Nat
    BY <2>1 DEF ParentSound
  <2>3. FilledOf(x, fills') = FilledOf(x, fills)
    BY <1>8
  <2> QED  BY <2>2, <2>3
<1> QED  BY <1>6, <1>7, <1>8, <1>9, <1>10, UpdateCounts DEF k

(* The leg of job p gets a new status, unless it is terminal already.      *)
LEMMA LegStatusCounts ==
  ASSUME Family(parents, children), Account(parents, children, fills),
         OneLeg(jobs, parents, children), NEW t, NEW p \in DOMAIN jobs, p \in DOMAIN parents,
         jobs[p].pc \in Leg, NEW c \in DOMAIN children, c = jobs[p].child,
         NEW status \in Status, status # "Filled", SetChildStatus(t, c, status)
  PROVE  Counts(p, 0) /\ OnlyLive(p, c) /\ (Terminal(status) => NoneLive(p))
<1>1. children[c].parent = p
  BY DEF OneLeg
<1>2. CASE Terminal(children[c].status)
  <2>1. UNCHANGED memory
    BY <1>2 DEF SetChildStatus
  <2>2. children' = children /\ parents' = parents
    BY <2>1 DEF memory
  <2>3. NoneLive(p)
    BY <1>2, <2>2, LiveIsLeg DEF NoneLive
  <2> QED  BY <2>1, <2>3, SameCounts DEF OnlyLive, NoneLive
<1>3. CASE ~Terminal(children[c].status)
  <2>1. UpdateChild(t, c, [children[c] EXCEPT !.status = status])
    BY <1>3 DEF SetChildStatus
  <2> QED  BY <1>1, <1>3, <2>1, StatusCounts
<1> QED  BY <1>2, <1>3

LEMMA FillCounts ==
  ASSUME Family(parents, children), Account(parents, children, fills),
         OneLeg(jobs, parents, children), NEW t, NEW p, NEW c \in DOMAIN children,
         children[c].parent = p, NEW q \in Nat \ {0}, RecordFill(t, c, q)
  PROVE  Counts(p, q) /\ OnlyLive(p, c)
<1> DEFINE k == children[c]
           f == NextId(fills)
           left == k.remaining - q
           status == IF left = 0 THEN "Filled" ELSE "PartiallyFilled"
           child == [k EXCEPT !.filled = @ + q, !.remaining = left, !.status = status]
           fill == [parent |-> p, child |-> c, quantity |-> q]
<1>1. /\ children' = [children EXCEPT ![c] = child]
      /\ parents' = [parents EXCEPT ![p] = Refreshed(parents[p], children')]
      /\ fills' = Put(fills, f, fill) /\ MayFill(c, q)
  BY DEF RecordFill
<1>2. IsChild(k) /\ p \in DOMAIN parents
  BY DEF Family
<1>3. ChildSound(k)
  BY DEF Account
<1>4. ~Terminal(k.status) /\ q <= k.remaining /\ k.parent = p
  BY <1>1 DEF MayFill
<1>5. FillsSound(parents, fills') /\ \A x \in DOMAIN parents :
        FilledOf(x, fills') = FilledOf(x, fills) + (IF x = p THEN q ELSE 0)
  <2>1. fill.quantity = q /\ fill.parent = p /\ FillsSound(parents, fills)
    BY DEF Account
  <2> HIDE DEF fill, f
  <2>2. fill.quantity \in Nat /\ fill.parent \in DOMAIN parents /\ f = NextId(fills)
    BY <1>2, <2>1 DEF f
  <2>3. /\ FillsSound(parents, Put(fills, f, fill))
        /\ \A x \in DOMAIN parents :
             FilledOf(x, Put(fills, f, fill))
               = FilledOf(x, fills) + (IF x = fill.parent THEN fill.quantity ELSE 0)
    BY <2>1, <2>2, FillAdds
  <2> QED  BY <1>1, <2>1, <2>3
<1> HIDE DEF k, left, status
<1>6. child = [parent |-> k.parent, quantity |-> k.quantity, filled |-> k.filled + q,
               remaining |-> left, status |-> status]
  <2> DEFINE g == k.filled + q
  <2>1. child = [k EXCEPT !.filled = g, !.remaining = left, !.status = status]
    OBVIOUS
  <2> HIDE DEF g, child
  <2>2. child = [parent |-> k.parent, quantity |-> k.quantity, filled |-> g,
                 remaining |-> left, status |-> status]
    BY <1>2, <2>1 DEF IsChild
  <2> QED  BY <2>2 DEF g
<1>7. k.filled \in Nat /\ k.remaining \in Nat
  BY <1>3 DEF ChildSound
<1> HIDE DEF child
<1>8. /\ child.parent = p /\ child.filled = k.filled + q /\ child.remaining = k.remaining - q
  BY <1>4, <1>6 DEF left
<1>9. ChildSound(child)
  <2>1. left \in Nat
    BY <1>4, <1>7 DEF left
  <2> QED  BY <1>6, <1>7, <2>1 DEF ChildSound, status, Status
<1> QED  BY <1>1, <1>2, <1>4, <1>5, <1>8, <1>9, UpdateCounts DEF k

LEMMA OpenCounts ==
  ASSUME Family(parents, children), Account(parents, children, fills),
         OneLeg(jobs, parents, children), NEW t, NEW p \in DOMAIN parents,
         p \in DOMAIN jobs, jobs[p].pc \notin Leg, NEW c, c \notin DOMAIN children,
         NEW q \in Nat \ {0}, CreateChild(t, p, c, q)
  PROVE  /\ Counts(p, 0) /\ OnlyLive(p, c)
         /\ c \in DOMAIN children' /\ children'[c].parent = p
<1> DEFINE child == [parent |-> p, quantity |-> q, filled |-> 0, remaining |-> q,
                     status |-> "New"]
           r == parents[p]
           ids == r.child_ids
           status == IF r.status = "New" THEN "Working" ELSE r.status
           s == [r EXCEPT !.child_ids = ids \cup {c}, !.status = status]
<1>1. /\ children' = Put(children, c, child) /\ parents' = [parents EXCEPT ![p] = s]
      /\ fills' = fills /\ MayOpenChild(p, q)
  BY DEF CreateChild
<1>2. IsParent(r) /\ ids \subseteq DOMAIN children /\ ids \subseteq 1 .. MaxChildren
  BY DEF Family
<1>3. ParentSound(p, r, children, fills)
  BY DEF Account
<1>4. ~Terminal(r.status) /\ q <= r.remaining
  BY <1>1 DEF MayOpenChild
<1>5. /\ DOMAIN children' = DOMAIN children \cup {c} /\ children'[c] = child
      /\ \A y \in DOMAIN children : children'[y] = children[y]
  BY <1>1 DEF Put
<1>6. /\ DOMAIN parents' = DOMAIN parents /\ parents'[p] = s
      /\ \A x \in DOMAIN parents : x # p => parents'[x] = parents[x]
  BY <1>1
<1> HIDE DEF r, ids, status
<1>7. s = [quantity |-> r.quantity, filled |-> r.filled, remaining |-> r.remaining,
           status |-> status, child_ids |-> ids \cup {c}]
  <2> DEFINE more == ids \cup {c}
  <2>1. s = [r EXCEPT !.child_ids = more, !.status = status]
    OBVIOUS
  <2> HIDE DEF more, s
  <2>2. s = [quantity |-> r.quantity, filled |-> r.filled, remaining |-> r.remaining,
             status |-> status, child_ids |-> more]
    BY <1>2, <2>1 DEF IsParent
  <2> QED  BY <2>2 DEF more
<1> HIDE DEF s
<1>8. ~Terminal(status) /\ r.remaining # 0 /\ r.remaining \in Nat
  BY <1>3, <1>4 DEF ParentSound, status, Terminal
<1>9. \A y \in DOMAIN children : children[y].filled \in Nat
  BY DEF Account, ChildSound
<1>10. ParentSound(p, s, children', fills')
  <2>1. SumOver(children', ids \cup {c}) = SumOver(children, ids)
    <3> DEFINE ls == children'
    <3>1. IsFiniteSet(ids) /\ c \notin ids
      BY <1>2, ChildrenFinite
    <3>2. \A y \in ids : children[y].filled \in Nat
      BY <1>2, <1>9
    <3>3. ls[c].filled = 0
      BY <1>5
    <3>4. \A y \in ids : ls[y].filled = children[y].filled
      BY <1>2, <1>5
    <3> SUFFICES SumOver(ls, ids \cup {c}) = SumOver(children, ids)
      OBVIOUS
    <3> HIDE DEF ls
    <3> QED  BY <3>1, <3>2, <3>3, <3>4, SumNewChild
  <2>2. /\ r.quantity \in Nat \ {0} /\ r.filled \in Nat /\ r.remaining \in Nat
        /\ r.filled = FilledOf(p, fills) /\ r.filled = SumOver(children, ids)
        /\ r.filled + r.remaining = r.quantity
    BY <1>3 DEF ParentSound, ids
  <2>3. s.status # "Filled" /\ ~Terminal(s.status)
    BY <1>7, <1>8 DEF Terminal
  <2>4. /\ s.quantity = r.quantity /\ s.filled = r.filled /\ s.remaining = r.remaining
        /\ s.child_ids = ids \cup {c}
    BY <1>7
  <2> QED  BY <1>1, <1>8, <2>1, <2>2, <2>3, <2>4 DEF ParentSound
<1>11. ASSUME NEW x \in DOMAIN parents, x # p
       PROVE  ParentSound(x, parents'[x], children', fills')
  <2> DEFINE w == parents[x]
             ls == children'
  <2>1. ParentSound(x, w, children, fills)
    BY DEF Account
  <2>2. w.child_ids \subseteq DOMAIN children /\ w.child_ids \subseteq 1 .. MaxChildren
    BY DEF Family
  <2>3. parents'[x] = w /\ fills' = fills
    BY <1>1, <1>6, <1>11
  <2> HIDE DEF w
  <2>4. \A y \in w.child_ids : ls[y] = children[y]
    BY <1>5, <2>2
  <2>5. \A y \in w.child_ids : children[y].filled \in Nat
    BY <1>9, <2>2
  <2>6. \A y \in w.child_ids : ls[y].filled = children[y].filled
    BY <2>4
  <2> SUFFICES ParentSound(x, w, ls, fills)
    BY <2>3
  <2> HIDE DEF ls
  <2>7. SumOver(ls, w.child_ids) = SumOver(children, w.child_ids)
    BY <2>2, <2>5, <2>6, ChildrenFinite, SumSame
  <2> QED  BY <2>1, <2>4, <2>7 DEF ParentSound
<1>12. \A y \in DOMAIN children' :
         ChildSound(children'[y]) /\ y \in parents'[children'[y].parent].child_ids
  <2>1. ChildSound(child) /\ child.parent = p
    BY DEF ChildSound, Status
  <2> HIDE DEF child
  <2>2. ASSUME NEW y \in DOMAIN children
        PROVE  ChildSound(children'[y]) /\ y \in parents'[children'[y].parent].child_ids
    <3>1. /\ ChildSound(children[y]) /\ y \in parents[children[y].parent].child_ids
          /\ children[y].parent \in DOMAIN parents /\ children'[y] = children[y]
      BY <1>5 DEF Account, Family
    <3>2. parents[children[y].parent].child_ids \subseteq parents'[children[y].parent].child_ids
      BY <1>6, <1>7, <3>1 DEF r, ids
    <3> QED  BY <3>1, <3>2
  <2>3. c \in parents'[p].child_ids
    BY <1>6, <1>7
  <2> QED  BY <1>5, <2>1, <2>2, <2>3
<1>13. FillsSound(parents', fills')
  BY <1>1, <1>6 DEF Account, FillsSound
<1>14. Account(parents', children', fills')
  BY <1>6, <1>10, <1>11, <1>12, <1>13 DEF Account
<1>15. Local(p)
  BY <1>5, <1>6 DEF Local
<1>16. Stable
  BY <1>4, <1>5, <1>6 DEF Stable, r
<1>17. OnlyLive(p, c)
  BY <1>4, <1>5, <1>6, <1>7, LiveIsLeg DEF OnlyLive
<1>18. parents'[p].quantity = parents[p].quantity /\ parents'[p].filled = parents[p].filled + 0
  BY <1>3, <1>6, <1>7 DEF r, ParentSound
<1> QED  BY <1>5, <1>14, <1>15, <1>16, <1>17, <1>18 DEF Counts

(* cancel_parent: the live children and the order itself become Cancelled. *)
LEMMA CancelCounts ==
  ASSUME Family(parents, children), Account(parents, children, fills), NEW t,
         NEW p \in DOMAIN parents, NEW after, CancelParent(t, p, after)
  PROVE  Counts(p, 0) /\ NoneLive(p) /\ Terminal(parents'[p].status)
<1> DEFINE r == parents[p]
           ids == r.child_ids
           s == [r EXCEPT !.status = "Cancelled"]
<1>1. IsParent(r) /\ ids \subseteq DOMAIN children /\ ParentSound(p, r, children, fills)
  BY DEF Family, Account
<1>2. \A y \in DOMAIN children : children[y].parent = p <=> y \in ids
  BY DEF Family, Account
<1>3. CASE Terminal(r.status)
  <2>1. UNCHANGED memory
    BY <1>3 DEF CancelParent
  <2>2. children' = children /\ parents' = parents
    BY <2>1 DEF memory
  <2>3. NoneLive(p)
    BY <1>1, <1>2, <1>3, <2>2 DEF NoneLive, ParentSound
  <2> QED  BY <1>3, <2>1, <2>2, <2>3, SameCounts
<1>4. CASE ~Terminal(r.status)
  <2>1. /\ parents' = [parents EXCEPT ![p] = s] /\ children' = ChildrenCancelled(p)
        /\ fills' = fills
    BY <1>4 DEF CancelParent
  <2>2. /\ DOMAIN parents' = DOMAIN parents /\ parents'[p] = s
        /\ \A x \in DOMAIN parents : x # p => parents'[x] = parents[x]
    BY <2>1
  <2>3. DOMAIN children' = DOMAIN children
    BY <2>1 DEF ChildrenCancelled
  <2>4. ASSUME NEW y \in DOMAIN children
        PROVE  /\ ChildSound(children'[y]) /\ children'[y].parent = children[y].parent
               /\ children'[y].filled = children[y].filled
               /\ y \in ids => Terminal(children'[y].status)
               /\ y \notin ids \/ Terminal(children[y].status) => children'[y] = children[y]
    <3> DEFINE k == children[y]
               l == children'[y]
    <3>1. IsChild(k) /\ ChildSound(k)
      BY DEF Family, Account
    <3>2. l = IF y \in ids /\ ~Terminal(k.status)
              THEN [k EXCEPT !.status = "Cancelled"] ELSE k
      BY <2>1 DEF ChildrenCancelled
    <3> SUFFICES /\ ChildSound(l) /\ l.parent = k.parent /\ l.filled = k.filled
                 /\ y \in ids => Terminal(l.status)
                 /\ y \notin ids \/ Terminal(k.status) => l = k
      OBVIOUS
    <3> HIDE DEF k, l, ids
    <3>3. CASE y \in ids /\ ~Terminal(k.status)
      <4>1. l = [parent |-> k.parent, quantity |-> k.quantity, filled |-> k.filled,
                 remaining |-> k.remaining, status |-> "Cancelled"]
        BY <3>1, <3>2, <3>3 DEF IsChild
      <4> QED  BY <3>1, <3>3, <4>1 DEF ChildSound, Terminal, Status
    <3>4. CASE ~(y \in ids /\ ~Terminal(k.status))
      BY <3>1, <3>2, <3>4
    <3> QED  BY <3>3, <3>4
  <2> HIDE DEF r
  <2>5. s = [quantity |-> r.quantity, filled |-> r.filled, remaining |-> r.remaining,
             status |-> "Cancelled", child_ids |-> ids]
    BY <1>1 DEF IsParent
  <2> HIDE DEF s
  <2>6. \A x \in DOMAIN parents : /\ parents'[x].child_ids = parents[x].child_ids
                                  /\ parents'[x].filled = parents[x].filled
                                  /\ parents'[x].quantity = parents[x].quantity
                                  /\ parents'[x].remaining = parents[x].remaining
    BY <2>2, <2>5 DEF r
  <2>7. ASSUME NEW x \in DOMAIN parents PROVE ParentSound(x, parents'[x], children', fills')
    <3> DEFINE w == parents[x]
               v == parents'[x]
               ls == children'
    <3>1. ParentSound(x, w, children, fills)
      BY DEF Account
    <3>2. w.child_ids \subseteq DOMAIN children /\ w.child_ids \subseteq 1 .. MaxChildren
          /\ \A y \in w.child_ids : children[y].parent = x
      BY DEF Family
    <3>3. \A y \in w.child_ids : children[y].filled \in Nat
      BY <3>2 DEF Account, ChildSound
    <3>4. \A y \in w.child_ids : ls[y].filled = children[y].filled
      BY <2>4, <3>2
    <3>5. /\ v.child_ids = w.child_ids /\ v.filled = w.filled /\ v.quantity = w.quantity
          /\ v.remaining = w.remaining
      BY <2>6
    <3>6. v.status = "Filled" <=> v.remaining = 0
      <4>1. CASE x = p
        <5>1. r.remaining # 0
          BY <1>1, <1>4 DEF ParentSound, Terminal
        <5> QED  BY <2>2, <2>5, <4>1, <5>1
      <4>2. CASE x # p
        BY <2>2, <3>1, <4>2 DEF ParentSound
      <4> QED  BY <4>1, <4>2
    <3>7. ASSUME Terminal(v.status), NEW y \in w.child_ids PROVE Terminal(ls[y].status)
      <4>1. CASE x = p
        BY <1>2, <2>4, <3>2, <4>1
      <4>2. CASE x # p
        <5>1. Terminal(children[y].status)
          BY <2>2, <3>1, <3>7, <4>2 DEF ParentSound
        <5> QED  BY <2>4, <3>2, <5>1
      <4> QED  BY <4>1, <4>2
    <3> SUFFICES ParentSound(x, v, ls, fills)
      BY <2>1
    <3> HIDE DEF w, v, ls
    <3>8. SumOver(ls, w.child_ids) = SumOver(children, w.child_ids)
      BY <3>2, <3>3, <3>4, ChildrenFinite, SumSame
    <3> QED  BY <3>1, <3>5, <3>6, <3>7, <3>8 DEF ParentSound
  <2>8. Account(parents', children', fills')
    <3>1. FillsSound(parents', fills')
      BY <2>1, <2>2 DEF Account, FillsSound
    <3>2. \A y \in DOMAIN children' :
            ChildSound(children'[y]) /\ y \in parents'[children'[y].parent].child_ids
      BY <2>3, <2>4, <2>6 DEF Account, Family
    <3> QED  BY <2>2, <2>7, <3>1, <3>2 DEF Account
  <2>9. Local(p)
    BY <1>2, <2>2, <2>3, <2>4 DEF Local
  <2>10. Stable
    BY <1>4, <2>2, <2>4 DEF Stable, r
  <2>11. NoneLive(p)
    BY <1>2, <2>3, <2>4 DEF NoneLive
  <2>12. parents'[p].quantity = parents[p].quantity /\ parents'[p].filled = parents[p].filled + 0
    BY <1>1, <2>6 DEF r, ParentSound
  <2> QED  BY <2>2, <2>5, <2>8, <2>9, <2>10, <2>11, <2>12 DEF Counts, Terminal
<1> QED  BY <1>3, <1>4

-----------------------------------------------------------------------------
(* The steps of a job keep the figures.                                    *)

(* Job p, and no other, moves on.                                          *)
Moves(p, job) ==
  /\ DOMAIN jobs' = DOMAIN jobs /\ jobs'[p] = job
  /\ \A x \in DOMAIN jobs : x # p => jobs'[x] = jobs[x]

LEMMA GoesMoves ==
  ASSUME NEW p \in DOMAIN jobs, NEW job, Goes(p, job)
  PROVE  Moves(p, job)
BY DEF Goes, Moves

(* Job p moves on with its order.                                          *)
LEMMA JobMoves ==
  ASSUME IInv, Sound, NEW p \in DOMAIN jobs, jobs[p].pc # "starting", NEW job, Moves(p, job),
         NEW q, Counts(p, q), JobSound(job, parents'[p]), api' = api, phase' = phase,
         \/ job.pc \notin Leg /\ NoneLive(p)
         \/ /\ job.pc \in Leg /\ OnlyLive(p, job.child)
            /\ children'[job.child].parent = p
  PROVE  Sound' /\ Stable
<1>1. /\ DOMAIN jobs' = DOMAIN jobs /\ jobs'[p] = job
      /\ \A x \in DOMAIN jobs : x # p => jobs'[x] = jobs[x]
  BY DEF Moves
<1>2. Local(p) /\ Stable /\ Account(parents', children', fills')
  BY DEF Counts
<1>3. DOMAIN jobs \subseteq DOMAIN parents /\ p \in DOMAIN parents
      /\ \A x \in DOMAIN jobs : jobs[x].pc \in Leg => jobs[x].child \in DOMAIN children
  BY DEF IInv, Working, Leg
<1>4. OneLeg(jobs, parents, children)
  BY DEF Sound
<1>5. OneLeg(jobs', parents', children')
  <2>1. ASSUME NEW c \in DOMAIN children', ~Terminal(children'[c].status),
               NEW x, x = children'[c].parent
        PROVE  /\ x \in DOMAIN jobs' /\ jobs'[x].pc \in Leg /\ jobs'[x].child = c
               /\ children'[c].remaining <= parents'[x].remaining
    <3>1. CASE x = p
      BY <1>1, <2>1, <3>1 DEF NoneLive, OnlyLive
    <3>2. CASE x # p
      <4>1. c \in DOMAIN children /\ children'[c] = children[c]
        BY <1>2, <2>1, <3>2 DEF Local
      <4>2. /\ x \in DOMAIN jobs /\ jobs[x].pc \in Leg /\ jobs[x].child = c
            /\ children[c].remaining <= parents[x].remaining
        BY <1>4, <2>1, <4>1 DEF OneLeg
      <4>3. parents'[x] = parents[x]
        BY <1>2, <1>3, <3>2, <4>2 DEF Local
      <4> QED  BY <1>1, <3>2, <4>1, <4>2, <4>3
    <3> QED  BY <3>1, <3>2
  <2>2. ASSUME NEW x \in DOMAIN jobs', jobs'[x].pc \in Leg
        PROVE  children'[jobs'[x].child].parent = x
    <3>1. CASE x = p
      BY <1>1, <2>2, <3>1
    <3>2. CASE x # p
      BY <1>1, <1>2, <1>3, <1>4, <2>2, <3>2 DEF OneLeg, Local
    <3> QED  BY <3>1, <3>2
  <2> QED  BY <2>1, <2>2 DEF OneLeg
<1>6. \A x \in DOMAIN jobs' : JobSound(jobs'[x], parents'[x])
  BY <1>1, <1>2, <1>3 DEF Sound, Local
<1>7. Untouched(api', jobs', parents')
  <2>1. Untouched(api, jobs, parents)
    BY DEF Sound
  <2>2. CASE api.step = "created"
    <3>1. api.parent \notin DOMAIN jobs /\ api.parent # p /\ api.parent \in DOMAIN parents
      BY <2>1, <2>2 DEF Untouched, IInv, Submitting
    <3>2. parents'[api.parent] = parents[api.parent]
      BY <1>2, <3>1 DEF Local
    <3> QED  BY <1>1, <2>1, <2>2, <3>1, <3>2 DEF Untouched
  <2>3. CASE api.step = "entered"
    <3>1. api.parent \in DOMAIN jobs /\ jobs[api.parent].pc = "starting"
      BY <2>1, <2>3 DEF Untouched, IInv, Submitting
    <3> QED  BY <1>1, <2>3, <3>1 DEF Untouched
  <2> QED  BY <2>2, <2>3 DEF Untouched
<1>8. phase' # "down"
  BY DEF Sound
<1> QED  BY <1>2, <1>5, <1>6, <1>7, <1>8 DEF Sound

LEMMA JobDoesSound ==
  ASSUME IInv, Sound, NEW p \in DOMAIN jobs, JobDoes(p), api' = api, phase' = phase
  PROVE  Sound' /\ Stable
<1> DEFINE j == jobs[p]
           c == j.child
<1>1. /\ p \in DOMAIN parents /\ (j.pc \in Leg => c \in DOMAIN children)
      /\ Family(parents, children) /\ Account(parents, children, fills)
      /\ OneLeg(jobs, parents, children)
  BY DEF IInv, Working, Leg, Sound
<1>2. /\ JobSound(j, parents[p]) /\ ParentSound(p, parents[p], children, fills)
      /\ JobField \subseteq DOMAIN j
  BY <1>1 DEF Sound, Account, JobSound
<1>3. ASSUME NEW job, Goes(p, job), UNCHANGED memory, j.pc \notin Leg, j.pc # "starting",
             job.pc \notin Leg, JobSound(job, parents[p])
      PROVE  Sound' /\ Stable
  <2>1. Counts(p, 0)
    BY <1>1, <1>3, SameCounts
  <2>2. children' = children /\ parents' = parents
    BY <1>3 DEF memory
  <2>3. NoneLive(p)
    BY <1>1, <1>3, <2>2, LiveIsLeg DEF NoneLive
  <2>4. JobSound(job, parents'[p])
    BY <1>3, <2>2
  <2> QED  BY <1>3, <2>1, <2>3, <2>4, GoesMoves, JobMoves
<1>4. ASSUME NEW job, Goes(p, job), NEW after, CancelParent(p, p, after), j.pc # "starting",
             job.pc \notin Leg,
             Terminal(parents'[p].status) /\ parents'[p].filled = parents[p].filled
               /\ parents'[p].quantity = parents[p].quantity => JobSound(job, parents'[p])
      PROVE  Sound' /\ Stable
  <2>1. Counts(p, 0) /\ NoneLive(p) /\ Terminal(parents'[p].status)
    BY <1>1, <1>4, CancelCounts
  <2>2. parents'[p].filled = parents[p].filled /\ parents'[p].quantity = parents[p].quantity
    BY <1>2, <2>1 DEF Counts, ParentSound
  <2> QED  BY <1>4, <2>1, <2>2, GoesMoves, JobMoves
<1>5. CASE SeeCancel(p)
  <2> DEFINE job == [j EXCEPT !.pc = "cancelled"]
  <2>1. At(p, "top") /\ CancelParent(p, p, <<>>) /\ Goes(p, job)
    BY <1>5 DEF SeeCancel
  <2>2. j.pc = "top"
    BY <2>1 DEF At
  <2>3. job.pc \notin Leg
    BY <1>2 DEF JobField, Leg
  <2>4. ASSUME Terminal(parents'[p].status) /\ parents'[p].filled = parents[p].filled
               /\ parents'[p].quantity = parents[p].quantity
        PROVE  JobSound(job, parents'[p])
    BY <1>2, <2>2, <2>4 DEF JobSound, JobField
  <2> HIDE DEF job
  <2> QED  BY <1>4, <2>1, <2>2, <2>3, <2>4
<1>6. CASE BecomeCancelled(p)
  <2> DEFINE job == Ended(j, "Cancelled")
  <2>1. At(p, "cancelled") /\ UNCHANGED memory /\ Goes(p, job)
    BY <1>6 DEF BecomeCancelled, Quiet
  <2>2. j.pc = "cancelled"
    BY <2>1 DEF At
  <2>3. JobSound(job, parents[p]) /\ job.pc \notin Leg
    BY <1>2, <2>2 DEF JobSound, JobField, Leg, Ended
  <2> HIDE DEF job
  <2> QED  BY <1>3, <2>1, <2>2, <2>3 DEF Leg
<1>7. CASE BeginSlice(p)
  <2> DEFINE job == [j EXCEPT !.pc = "wait"]
  <2>1. At(p, "top") /\ UNCHANGED memory /\ Goes(p, job)
    BY <1>7 DEF BeginSlice, Quiet
  <2>2. j.pc = "top"
    BY <2>1 DEF At
  <2>3. JobSound(job, parents[p]) /\ job.pc \notin Leg
    BY <1>2, <2>2 DEF JobSound, JobField, Leg
  <2> HIDE DEF job
  <2> QED  BY <1>3, <2>1, <2>2, <2>3 DEF Leg
<1>8. CASE SkipSlice(p)
  <2> DEFINE job == [j EXCEPT !.pc = "top", !.index = @ + 1]
  <2>1. At(p, "wait") /\ UNCHANGED memory /\ Goes(p, job)
    BY <1>8 DEF SkipSlice, Quiet
  <2>2. j.pc = "wait"
    BY <2>1 DEF At
  <2>3. JobSound(job, parents[p]) /\ job.pc \notin Leg
    BY <1>2, <2>2 DEF JobSound, JobField, Leg
  <2> HIDE DEF job
  <2> QED  BY <1>3, <2>1, <2>2, <2>3 DEF Leg
<1>9. CASE RouteSlice(p)
  <2> DEFINE job == [j EXCEPT !.pc = "route", !.planned = SliceQuantity(j)]
  <2>1. At(p, "wait") /\ UNCHANGED memory /\ Goes(p, job)
    BY <1>9 DEF RouteSlice, Quiet
  <2>2. j.pc = "wait"
    BY <2>1 DEF At
  <2>3. JobSound(job, parents[p]) /\ job.pc \notin Leg
    BY <1>2, <2>2 DEF JobSound, JobField, Leg
  <2> HIDE DEF job
  <2> QED  BY <1>3, <2>1, <2>2, <2>3 DEF Leg
<1>10. CASE \E q \in Quantity : OpenLeg(p, q)
  <2>1. PICK q \in Quantity : OpenLeg(p, q)
    BY <1>10
  <2> DEFINE d == NextId(children)
             job == [j EXCEPT !.pc = "opened", !.child = d, !.planned = @ - q]
  <2>2. (At(p, "route") \/ At(p, "next leg")) /\ CreateChild(p, p, d, q) /\ Goes(p, job)
    BY <2>1 DEF OpenLeg
  <2>3. j.pc \in {"route", "next leg"}
    BY <2>2 DEF At
  <2>4. MaxChildren \in Nat /\ DOMAIN children \subseteq 1 .. MaxChildren
    BY <1>1, OmsAssumption DEF Family
  <2>5. d \notin DOMAIN children
    BY <2>4, NextIdFacts
  <2>6. q \in Nat \ {0}
    BY OmsAssumption DEF Quantity
  <2> HIDE DEF d
  <2>7. /\ Counts(p, 0) /\ OnlyLive(p, d) /\ children'[d].parent = p
    BY <1>1, <2>2, <2>3, <2>5, <2>6, OpenCounts DEF Leg
  <2>8. parents'[p].filled = parents[p].filled /\ parents'[p].quantity = parents[p].quantity
    BY <1>2, <2>7 DEF Counts, ParentSound
  <2>9. JobSound(job, parents'[p]) /\ job.pc \in Leg /\ job.child = d
    BY <1>2, <2>3, <2>8 DEF JobSound, JobField, Leg
  <2> HIDE DEF job
  <2> QED  BY <2>2, <2>3, <2>7, <2>9, GoesMoves, JobMoves
<1>11. CASE RejectLeg(p)
  <2> DEFINE job == [j EXCEPT !.pc = "next leg"]
  <2>1. At(p, "opened") /\ SetChildStatus(p, c, "Rejected") /\ Goes(p, job)
    BY <1>11 DEF RejectLeg, RejectChild
  <2>2. j.pc = "opened" /\ j.pc \in Leg
    BY <2>1 DEF At, Leg
  <2>3. "Rejected" \in Status /\ "Rejected" # "Filled" /\ Terminal("Rejected")
    BY DEF Status, Terminal
  <2>4. Counts(p, 0) /\ NoneLive(p)
    BY <1>1, <2>1, <2>2, <2>3, LegStatusCounts
  <2>5. parents'[p].filled = parents[p].filled /\ parents'[p].quantity = parents[p].quantity
    BY <1>2, <2>4 DEF Counts, ParentSound
  <2>6. JobSound(job, parents'[p]) /\ job.pc \notin Leg
    BY <1>2, <2>2, <2>5 DEF JobSound, JobField, Leg
  <2> HIDE DEF job
  <2> QED  BY <2>1, <2>2, <2>4, <2>6, GoesMoves, JobMoves
<1>12. CASE WorkLeg(p)
  <2> DEFINE job == [j EXCEPT !.pc = "working"]
             status == IF children[c].filled > 0 THEN "PartiallyFilled" ELSE "Working"
  <2>1. At(p, "opened") /\ SetChildStatus(p, c, status) /\ Goes(p, job)
    BY <1>12 DEF WorkLeg, MarkChildWorking
  <2>2. j.pc = "opened" /\ j.pc \in Leg
    BY <2>1 DEF At, Leg
  <2>3. status \in Status /\ status # "Filled"
    BY DEF Status, Terminal
  <2> HIDE DEF status
  <2>4. Counts(p, 0) /\ OnlyLive(p, c)
    BY <1>1, <2>1, <2>2, <2>3, LegStatusCounts
  <2>5. parents'[p].filled = parents[p].filled /\ parents'[p].quantity = parents[p].quantity
    BY <1>2, <2>4 DEF Counts, ParentSound
  <2>6. JobSound(job, parents'[p]) /\ job.pc \in Leg /\ job.child = c
    BY <1>2, <2>2, <2>5 DEF JobSound, JobField, Leg
  <2>7. children'[c].parent = p
    BY <1>1, <2>2, <2>4 DEF Counts, Local, OneLeg
  <2> HIDE DEF job
  <2> QED  BY <2>1, <2>2, <2>4, <2>6, <2>7, GoesMoves, JobMoves
<1>13. CASE \E q \in Quantity : FillLeg(p, q)
  <2>1. PICK q \in Quantity : FillLeg(p, q)
    BY <1>13
  <2> DEFINE job == [j EXCEPT !.pc = "filled", !.slice_filled = @ + q]
  <2>2. At(p, "working") /\ RecordFill(p, c, q) /\ Goes(p, job)
    BY <2>1 DEF FillLeg
  <2>3. j.pc = "working" /\ j.pc \in Leg
    BY <2>2 DEF At, Leg
  <2>4. children[c].parent = p /\ q \in Nat \ {0}
    BY <1>1, <2>3, OmsAssumption DEF OneLeg, Quantity
  <2>5. Counts(p, q) /\ OnlyLive(p, c)
    BY <1>1, <2>2, <2>3, <2>4, FillCounts
  <2>6. parents'[p].filled = parents[p].filled + q /\ parents'[p].quantity = parents[p].quantity
    BY <2>5 DEF Counts
  <2>7. JobSound(job, parents'[p]) /\ job.pc \in Leg /\ job.child = c
    BY <1>2, <2>3, <2>4, <2>6 DEF JobSound, JobField, Leg
  <2>8. children'[c].parent = p
    BY <1>1, <2>3, <2>5 DEF Counts, Local, OneLeg
  <2> HIDE DEF job
  <2> QED  BY <2>2, <2>3, <2>5, <2>7, <2>8, GoesMoves, JobMoves
<1>14. CASE EndLeg(p)
  <2> DEFINE job == [j EXCEPT !.pc = "next leg"]
  <2>1. At(p, "filled") /\ SetChildStatus(p, c, "Cancelled") /\ Goes(p, job)
    BY <1>14 DEF EndLeg, CancelChild
  <2>2. j.pc = "filled" /\ j.pc \in Leg
    BY <2>1 DEF At, Leg
  <2>3. "Cancelled" \in Status /\ "Cancelled" # "Filled" /\ Terminal("Cancelled")
    BY DEF Status, Terminal
  <2>4. Counts(p, 0) /\ NoneLive(p)
    BY <1>1, <2>1, <2>2, <2>3, LegStatusCounts
  <2>5. parents'[p].filled = parents[p].filled /\ parents'[p].quantity = parents[p].quantity
    BY <1>2, <2>4 DEF Counts, ParentSound
  <2>6. JobSound(job, parents'[p]) /\ job.pc \notin Leg
    BY <1>2, <2>2, <2>5 DEF JobSound, JobField, Leg
  <2> HIDE DEF job
  <2> QED  BY <2>1, <2>2, <2>4, <2>6, GoesMoves, JobMoves
<1>15. CASE EndSlice(p)
  <2> DEFINE job == [j EXCEPT !.filled = @ + j.slice_filled, !.slice = j.index + 1,
                              !.index = @ + 1, !.pc = "top", !.child = 0,
                              !.planned = 0, !.slice_filled = 0]
  <2>1. At(p, "next leg") /\ UNCHANGED memory /\ Goes(p, job)
    BY <1>15 DEF EndSlice
  <2>2. j.pc = "next leg"
    BY <2>1 DEF At
  <2>3. /\ JobField \subseteq DOMAIN job /\ job.status = j.status /\ job.quantity = j.quantity
        /\ job.filled = j.filled + j.slice_filled /\ job.slice_filled = 0 /\ job.pc = "top"
    BY <1>2 DEF JobField
  <2> HIDE DEF job
  <2>4. /\ j.filled \in Nat /\ j.slice_filled \in Nat /\ j.quantity = parents[p].quantity
        /\ j.filled + j.slice_filled = parents[p].filled /\ j.status = "Running"
    BY <1>2, <2>2 DEF JobSound
  <2> HIDE DEF j
  <2>5. JobSound(job, parents[p]) /\ job.pc \notin Leg
    BY <2>3, <2>4 DEF JobSound, Leg
  <2> QED  BY <1>3, <2>1, <2>2, <2>5 DEF Leg, j
<1>16. CASE Finish(p)
  <2> DEFINE status == IF RemainingOf(j) > 0 /\ j.cancel THEN "Cancelled" ELSE "Completed"
             job == Ended(j, status)
  <2>1. /\ At(p, "top") \/ At(p, "wait")
        /\ Goes(p, job)
        /\ IF RemainingOf(j) = 0 THEN UNCHANGED memory
           ELSE CancelParent(p, p, <<SaveJob(p, job)>>)
    BY <1>16 DEF Finish
  <2>2. j.pc \in {"top", "wait"}
    BY <2>1 DEF At
  <2>0. status # "Running"
    OBVIOUS
  <2> HIDE DEF status
  <2>3. ASSUME NEW r, Terminal(r.status), r.filled = parents[p].filled,
               r.quantity = parents[p].quantity
        PROVE  JobSound(job, r) /\ job.pc \notin Leg
    BY <1>2, <2>2, <2>3 DEF JobSound, JobField, Leg, Ended
  <2>4. CASE RemainingOf(j) = 0
    <3>1. Terminal(parents[p].status)
      <4> DEFINE r == parents[p]
      <4>1. /\ j.quantity = r.quantity /\ j.filled \in Nat /\ j.slice_filled \in Nat
            /\ j.filled + j.slice_filled = r.filled
        BY <1>2, <2>2 DEF JobSound
      <4>2. /\ r.quantity \in Nat /\ r.filled \in Nat /\ r.remaining \in Nat
            /\ r.filled + r.remaining = r.quantity /\ (r.status = "Filled" <=> r.remaining = 0)
        BY <1>2 DEF ParentSound
      <4>3. j.filled >= j.quantity
        BY <2>4, <4>1, <4>2 DEF RemainingOf, AtMost
      <4> HIDE DEF r, j
      <4>4. r.remaining = 0
        BY <4>1, <4>2, <4>3
      <4> QED  BY <4>2, <4>4 DEF Terminal, r
    <3>2. JobSound(job, parents[p]) /\ job.pc \notin Leg
      BY <2>3, <3>1
    <3> HIDE DEF job
    <3> QED  BY <1>3, <2>1, <2>2, <2>4, <3>2 DEF Leg
  <2>5. CASE RemainingOf(j) # 0
    <3>1. job.pc \notin Leg
      BY <1>2 DEF JobField, Leg, Ended
    <3>2. ASSUME Terminal(parents'[p].status) /\ parents'[p].filled = parents[p].filled
                 /\ parents'[p].quantity = parents[p].quantity
          PROVE  JobSound(job, parents'[p])
      BY <2>3, <3>2
    <3> HIDE DEF job
    <3> QED  BY <1>4, <2>1, <2>2, <2>5, <3>1, <3>2
  <2> QED  BY <2>4, <2>5
<1>17. CASE Fail(p)
  <2> DEFINE job == [j EXCEPT !.pc = "failing"]
  <2>1. Threw(p) /\ CancelParent(p, p, <<>>) /\ Goes(p, job)
    BY <1>17 DEF Fail
  <2>2. j.pc \in {"route", "next leg", "working"}
    BY <2>1 DEF Threw, At
  <2>3. job.pc \notin Leg
    BY <1>2 DEF JobField, Leg
  <2>4. ASSUME Terminal(parents'[p].status) /\ parents'[p].filled = parents[p].filled
               /\ parents'[p].quantity = parents[p].quantity
        PROVE  JobSound(job, parents'[p])
    BY <1>2, <2>2, <2>4 DEF JobSound, JobField
  <2> HIDE DEF job
  <2> QED  BY <1>4, <2>1, <2>2, <2>3, <2>4
<1>18. CASE BecomeFailed(p)
  <2> DEFINE job == Ended(j, "Failed")
  <2>1. At(p, "failing") /\ UNCHANGED memory /\ Goes(p, job)
    BY <1>18 DEF BecomeFailed, Quiet
  <2>2. j.pc = "failing"
    BY <2>1 DEF At
  <2>3. JobSound(job, parents[p]) /\ job.pc \notin Leg
    BY <1>2, <2>2 DEF JobSound, JobField, Leg, Ended
  <2> HIDE DEF job
  <2> QED  BY <1>3, <2>1, <2>2, <2>3 DEF Leg
<1> QED
  BY <1>5, <1>6, <1>7, <1>8, <1>9, <1>10, <1>11, <1>12, <1>13, <1>14, <1>15, <1>16, <1>17, <1>18
  DEF JobDoes

(* The other actions.                                                      *)

LEMMA SubmitSound ==
  ASSUME IInv, Sound, NEW r \in Requests, Submit(r)
  PROVE  Sound' /\ Stable
<1> DEFINE p == NextId(parents)
           q == r.quantity
           parent == [quantity |-> q, filled |-> 0, remaining |-> q, status |-> "New",
                      child_ids |-> {}]
<1>1. /\ p <= MaxParents /\ parents' = Put(parents, p, parent)
      /\ children' = children /\ fills' = fills /\ jobs' = jobs /\ phase' = phase
      /\ api' = [step |-> "created", parent |-> p, request |-> r]
  BY DEF Submit, CreateParent
<1>2. /\ Family(parents, children) /\ Account(parents, children, fills)
      /\ OneLeg(jobs, parents, children) /\ DOMAIN jobs \subseteq DOMAIN parents
  BY DEF IInv, Sound, Working
<1>3. p \notin DOMAIN parents
  <2>1. MaxParents \in Nat /\ DOMAIN parents \subseteq 1 .. MaxParents
    BY <1>2, OmsAssumption DEF Family
  <2> QED  BY <2>1, NextIdFacts
<1>4. q \in Nat \ {0}
  BY OmsAssumption, AlgoAssumption DEF Quantity
<1> HIDE DEF p, q
<1>5. /\ DOMAIN parents' = DOMAIN parents \cup {p} /\ parents'[p] = parent
      /\ \A x \in DOMAIN parents : parents'[x] = parents[x]
  BY <1>1, <1>3 DEF Put
<1>6. ParentSound(p, parent, children, fills)
  <2>1. FilledOf(p, fills) = 0
    BY <1>2, <1>3, NoFills DEF Account
  <2>2. SumOver(children, {}) = 0
    <3> DEFINE f == [c \in {} |-> children[c].filled]
    <3>1. SumOver(children, {}) = SumFunctionOnSet(f, {}) /\ Summable(f, {})
      BY FS_EmptySet, SumTotal
    <3> HIDE DEF f
    <3> QED  BY <3>1, SumPicks
  <2>3. /\ parent.quantity = q /\ parent.filled = 0 /\ parent.remaining = q
        /\ parent.status = "New" /\ parent.child_ids = {}
    OBVIOUS
  <2> HIDE DEF parent
  <2> QED  BY <1>4, <2>1, <2>2, <2>3 DEF ParentSound, Terminal
<1>7. Account(parents', children', fills')
  <2>1. FillsSound(parents', fills')
    BY <1>1, <1>2, <1>5 DEF Account, FillsSound
  <2>2. \A c \in DOMAIN children' :
          ChildSound(children'[c]) /\ c \in parents'[children'[c].parent].child_ids
    BY <1>1, <1>2, <1>5 DEF Account, Family
  <2>3. \A x \in DOMAIN parents' : ParentSound(x, parents'[x], children', fills')
    <3> HIDE DEF parent
    <3> QED  BY <1>1, <1>2, <1>5, <1>6 DEF Account
  <2> QED  BY <2>1, <2>2, <2>3 DEF Account
<1>8. OneLeg(jobs', parents', children')
  BY <1>1, <1>2, <1>5 DEF OneLeg, Family
<1>9. \A x \in DOMAIN jobs' : JobSound(jobs'[x], parents'[x])
  BY <1>1, <1>2, <1>5 DEF Sound
<1>10. Untouched(api', jobs', parents')
  BY <1>1, <1>2, <1>3, <1>5 DEF Untouched, q
<1>11. Stable
  BY <1>1, <1>5 DEF Stable
<1>12. phase' # "down"
  BY <1>1 DEF Sound
<1> QED  BY <1>7, <1>8, <1>9, <1>10, <1>11, <1>12 DEF Sound

LEMMA SameStable ==
  ASSUME UNCHANGED memory
  PROVE  Stable
BY DEF memory, Stable

LEMMA EnterJobSound ==
  ASSUME IInv, Sound, EnterJob
  PROVE  Sound' /\ Stable
<1> DEFINE p == api.parent
           job == Job(api.request, 0, 0, "starting")
<1>1. /\ api.step = "created" /\ jobs' = Put(jobs, p, job)
      /\ api' = [api EXCEPT !.step = "entered"] /\ UNCHANGED memory /\ phase' = phase
  BY DEF EnterJob, ApiReady
<1>2. parents' = parents /\ children' = children /\ fills' = fills
  BY <1>1 DEF memory
<1>3. /\ p \notin DOMAIN jobs /\ p \in DOMAIN parents /\ parents[p].filled = 0
      /\ parents[p].quantity = api.request.quantity /\ "step" \in DOMAIN api
  BY <1>1 DEF Sound, Untouched, IInv, Submitting
<1>4. /\ JobField \subseteq DOMAIN job /\ job.pc = "starting" /\ job.filled = 0
      /\ job.slice_filled = 0 /\ job.status = "Running" /\ job.quantity = api.request.quantity
  BY DEF Job, JobField
<1> HIDE DEF job
<1>5. JobSound(job, parents[p])
  BY <1>3, <1>4 DEF JobSound
<1>6. /\ DOMAIN jobs' = DOMAIN jobs \cup {p} /\ jobs'[p] = job
      /\ \A x \in DOMAIN jobs : jobs'[x] = jobs[x]
  BY <1>1, <1>3 DEF Put
<1>7. OneLeg(jobs', parents', children')
  BY <1>2, <1>3, <1>4, <1>6 DEF Sound, OneLeg, Leg
<1>8. \A x \in DOMAIN jobs' : JobSound(jobs'[x], parents'[x])
  BY <1>2, <1>5, <1>6 DEF Sound
<1>9. api'.step = "entered" /\ jobs'[api'.parent].pc = "starting"
  <2>1. api'.step = "entered"
    BY <1>1, <1>3
  <2>2. api'.parent = p
    BY <1>1
  <2> QED  BY <1>4, <1>6, <2>1, <2>2
<1>10. Untouched(api', jobs', parents')
  BY <1>9 DEF Untouched
<1> QED  BY <1>1, <1>2, <1>7, <1>8, <1>10, SameStable DEF Sound

(* The thread of a new job starts, or a job is told to end.                *)
LEMMA StartWorkerSound ==
  ASSUME IInv, Sound, StartWorker
  PROVE  Sound' /\ Stable
<1> DEFINE p == api.parent
           j == jobs[p]
           job == [j EXCEPT !.pc = "top"]
<1>1. /\ api.step = "entered" /\ jobs' = [jobs EXCEPT ![p] = job]
      /\ api' = Idle /\ UNCHANGED memory /\ phase' = phase
  BY DEF StartWorker, ApiReady
<1>2. parents' = parents /\ children' = children /\ fills' = fills
  BY <1>1 DEF memory
<1>3. p \in DOMAIN jobs /\ j.pc = "starting" /\ JobSound(j, parents[p])
  BY <1>1 DEF Sound, Untouched, IInv, Submitting
<1>4. JobSound(job, parents[p]) /\ job.pc = "top"
  BY <1>3 DEF JobSound, JobField
<1> HIDE DEF job
<1>5. /\ DOMAIN jobs' = DOMAIN jobs /\ jobs'[p] = job
      /\ \A x \in DOMAIN jobs : x # p => jobs'[x] = jobs[x]
  BY <1>1, <1>3
<1>6. OneLeg(jobs', parents', children')
  BY <1>2, <1>3, <1>4, <1>5 DEF Sound, OneLeg, Leg
<1>7. \A x \in DOMAIN jobs' : JobSound(jobs'[x], parents'[x])
  BY <1>2, <1>4, <1>5 DEF Sound
<1>8. Untouched(api', jobs', parents')
  BY <1>1 DEF Untouched, Idle
<1> QED  BY <1>1, <1>2, <1>6, <1>7, <1>8, SameStable DEF Sound

LEMMA CancelAlgoSound ==
  ASSUME IInv, Sound, NEW p \in DOMAIN jobs, CancelAlgo(p)
  PROVE  Sound' /\ Stable
<1> DEFINE j == jobs[p]
           job == [j EXCEPT !.cancel = TRUE]
<1>1. /\ jobs' = [jobs EXCEPT ![p] = job] /\ UNCHANGED memory /\ phase' = phase /\ api' = api
      /\ api.step = "idle"
  BY DEF CancelAlgo, ApiReady, omsVars, memory
<1>2. parents' = parents /\ children' = children /\ fills' = fills
  BY <1>1 DEF memory
<1>3. JobSound(j, parents[p])
  BY DEF Sound
<1>4. JobSound(job, parents[p]) /\ job.pc = j.pc /\ job.child = j.child
  BY <1>3 DEF JobSound, JobField
<1> HIDE DEF job
<1>5. /\ DOMAIN jobs' = DOMAIN jobs /\ jobs'[p] = job
      /\ \A x \in DOMAIN jobs : x # p => jobs'[x] = jobs[x]
  BY <1>1
<1>6. OneLeg(jobs', parents', children')
  BY <1>2, <1>4, <1>5 DEF Sound, OneLeg
<1>7. \A x \in DOMAIN jobs' : JobSound(jobs'[x], parents'[x])
  BY <1>2, <1>4, <1>5 DEF Sound
<1>8. Untouched(api', jobs', parents')
  BY <1>1 DEF Untouched
<1> QED  BY <1>1, <1>2, <1>6, <1>7, <1>8, SameStable DEF Sound

(* A child that the API cancels is the leg of a job, which stays where it  *)
(* is.                                                                     *)
LEMMA CancelChildByRestSound ==
  ASSUME IInv, Sound, NEW c \in DOMAIN children, CancelChildByRest(c)
  PROVE  Sound' /\ Stable
<1> DEFINE p == children[c].parent
<1>1. /\ ~Terminal(children[c].status) /\ CancelChild(Api, c) /\ jobs' = jobs
      /\ api' = api /\ phase' = phase
  BY DEF CancelChildByRest
<1>2. UpdateChild(Api, c, [children[c] EXCEPT !.status = "Cancelled"])
  BY <1>1 DEF CancelChild, SetChildStatus
<1>3. /\ Family(parents, children) /\ Account(parents, children, fills)
      /\ OneLeg(jobs, parents, children)
  BY DEF IInv, Sound
<1>4. p \in DOMAIN jobs /\ jobs[p].pc \in Leg /\ jobs[p].child = c
  BY <1>1, <1>3, LiveIsLeg
<1>5. Counts(p, 0) /\ OnlyLive(p, c) /\ p \in DOMAIN parents
  BY <1>1, <1>2, <1>3, StatusCounts DEF Status, Terminal
<1>6. /\ jobs[p].pc # "starting" /\ jobs[p].pc \notin {"cancelled", "failing", "done"}
      /\ Moves(p, jobs[p])
  BY <1>1, <1>4 DEF Leg, Moves
<1>7. JobSound(jobs[p], parents[p]) /\ ParentSound(p, parents[p], children, fills)
  BY <1>3, <1>4, <1>5 DEF Sound, Account
<1>8. parents'[p].filled = parents[p].filled /\ parents'[p].quantity = parents[p].quantity
  BY <1>5, <1>7 DEF Counts, ParentSound
<1>9. JobSound(jobs[p], parents'[p])
  BY <1>6, <1>7, <1>8 DEF JobSound
<1>10. children'[c].parent = p
  BY <1>5 DEF Counts, Local
<1> QED  BY <1>1, <1>4, <1>5, <1>6, <1>9, <1>10, JobMoves

(* As long as the process has not crashed.                                 *)
SInv == crashes \in Nat /\ (crashes = 0 => Sound)

LEMMA SoundSteps ==
  ASSUME IInv, SInv, [Next]_vars
  PROVE  SInv' /\ (crashes' = 0 => Stable)
<1>1. CASE \E r \in Requests : Submit(r)
  <2>1. PICK r \in Requests : Submit(r)
    BY <1>1
  <2>2. crashes' = crashes
    BY <2>1 DEF Submit
  <2> QED  BY <2>1, <2>2, SubmitSound DEF SInv
<1>2. CASE EnterJob
  BY <1>2, EnterJobSound DEF SInv, EnterJob
<1>3. CASE StartWorker
  BY <1>3, StartWorkerSound DEF SInv, StartWorker
<1>4. CASE \E p \in DOMAIN jobs : CancelAlgo(p)
  <2>1. PICK p \in DOMAIN jobs : CancelAlgo(p)
    BY <1>4
  <2>2. crashes' = crashes
    BY <2>1 DEF CancelAlgo
  <2> QED  BY <2>1, <2>2, CancelAlgoSound DEF SInv
<1>5. CASE \E c \in DOMAIN children : CancelChildByRest(c)
  <2>1. PICK c \in DOMAIN children : CancelChildByRest(c)
    BY <1>5
  <2>2. crashes' = crashes
    BY <2>1 DEF CancelChildByRest
  <2> QED  BY <2>1, <2>2, CancelChildByRestSound DEF SInv
<1>6. CASE \E p \in DOMAIN jobs : JobStep(p)
  <2>1. PICK p \in DOMAIN jobs : JobStep(p)
    BY <1>6
  <2>2. JobDoes(p) /\ crashes' = crashes /\ api' = api /\ phase' = phase
    BY <2>1 DEF JobStep, JobDoes
  <2> QED  BY <2>2, JobDoesSound DEF SInv
<1>7. CASE \E t \in Thread : Callbacks(t)
  <2>1. /\ UNCHANGED memory /\ jobs' = jobs /\ api' = api /\ phase' = phase
        /\ crashes' = crashes
    BY <1>7 DEF Callbacks, Persist
  <2> QED  BY <2>1, SameStable DEF SInv, Sound, memory
<1>8. CASE Crash
  BY <1>8 DEF Crash, SInv
<1>9. CASE Restart
  BY <1>9 DEF Restart, SInv, Sound
<1>10. CASE RebuildPositions \/ SetMutationCallback
  <2>1. /\ UNCHANGED memory /\ jobs' = jobs /\ api' = api /\ phase' # "down"
        /\ crashes' = crashes
    BY <1>10 DEF RebuildPositions, SetMutationCallback
  <2> QED  BY <2>1, SameStable DEF SInv, Sound, memory
<1>11. CASE UNCHANGED vars
  <2>1. /\ UNCHANGED memory /\ jobs' = jobs /\ api' = api /\ phase' = phase
        /\ crashes' = crashes
    BY <1>11 DEF vars, omsVars, memory
  <2> QED  BY <2>1, SameStable DEF SInv, Sound, memory
<1> QED
  BY <1>1, <1>2, <1>3, <1>4, <1>5, <1>6, <1>7, <1>8, <1>9, <1>10, <1>11 DEF Next

LEMMA InitSound ==
  ASSUME Init
  PROVE  SInv
<1>1. /\ parents = <<>> /\ children = <<>> /\ fills = <<>> /\ jobs = <<>>
      /\ api = Idle /\ phase = "serving" /\ crashes = 0
  BY DEF Init, OmsInit
<1>2. DOMAIN parents = {} /\ DOMAIN children = {} /\ DOMAIN fills = {} /\ DOMAIN jobs = {}
  BY <1>1
<1>3. FillsSound(parents, fills)
  BY <1>2 DEF FillsSound
<1>4. Account(parents, children, fills) /\ OneLeg(jobs, parents, children)
  BY <1>2, <1>3 DEF Account, OneLeg
<1>5. Untouched(api, jobs, parents)
  BY <1>1 DEF Untouched, Idle
<1> QED  BY <1>1, <1>2, <1>4, <1>5 DEF SInv, Sound

LEMMA Soundness == Spec => []SInv
<1>1. Init => SInv
  BY InitSound
<1>2. IInv /\ SInv /\ [Next]_vars => SInv'
  BY SoundSteps
<1> QED  BY <1>1, <1>2, Invariance, PTL DEF Spec

(* In a process that has not crashed, for any number of orders, jobs and   *)
(* children and whatever the API cancels in the middle of a leg, the       *)
(* figures of every parent are those of its fills and no order is filled   *)
(* beyond its quantity (record_fill, refresh_parent and the remainder      *)
(* check of create_child).                                                 *)
THEOREM OrdersAddUp == Spec => []FillsAddUp
<1>1. SInv => FillsAddUp
  BY DEF SInv, Sound, Account, ParentSound, FillsAddUp
<1> QED  BY <1>1, Soundness, PTL

(* In a process that has not crashed, a job that is over, however it came  *)
(* to its end, has left its parent and all the parent's children terminal  *)
(* (the cancellations in run_job).                                         *)
THEOREM EndedJobsClosed == Spec => []EndedJobIsClosed
<1>1. IInv /\ SInv => EndedJobIsClosed
  BY DEF IInv, Working, SInv, Sound, JobSound, Account, ParentSound, EndedJobIsClosed
<1> QED  BY <1>1, Invariance, Soundness, PTL

(* In a process that has not crashed, no parent and no child leaves a      *)
(* terminal status, although refresh_parent computes the parent's anew at  *)
(* every update of a child.                                                *)
THEOREM TerminalStays == Spec => TerminalIsFinal
<1>1. IInv /\ SInv /\ [Next]_vars =>
        [crashes' = 0 =>
           /\ \A p \in DOMAIN parents :
                Terminal(parents[p].status) => parents'[p].status = parents[p].status
           /\ \A c \in DOMAIN children :
                Terminal(children[c].status) => children'[c] = children[c]]_memory
  BY SoundSteps DEF Stable
<1> QED  BY <1>1, Invariance, Soundness, PTL DEF Spec, TerminalIsFinal


-----------------------------------------------------------------------------
(* The rows of the orders, crashes or not.                                 *)

IsTable(f) == f = [x \in DOMAIN f |-> f[x]]

ParentTyped(r) ==
  /\ r.quantity \in Nat /\ r.filled \in Nat /\ r.remaining \in Nat
  /\ r.filled + r.remaining = r.quantity
ChildTyped(k) == k.filled \in Nat /\ k.remaining \in Nat /\ k.status \in Status
FillTable(fs) ==
  /\ \E n \in Nat : DOMAIN fs \subseteq 1 .. n
  /\ \A f \in DOMAIN fs : fs[f].quantity \in Nat \ {0}

Typed(ps, ks, fs) ==
  /\ \A p \in DOMAIN ps : ParentTyped(ps[p])
  /\ \A c \in DOMAIN ks : ChildTyped(ks[c])
  /\ FillTable(fs) /\ \A f \in DOMAIN fs : fs[f].parent \in DOMAIN ps
  /\ IsTable(ks) /\ IsTable(fs)

(* A parent knows all its children.                                        *)
Complete(ps, ks) == \A c \in DOMAIN ks : c \in ps[ks[c].parent].child_ids

-----------------------------------------------------------------------------
(* What a step of thread t does to order p and puts into its own queue,    *)
(* crashes or not.                                                         *)

Pends(list, table, id) == \E i \in 1 .. Len(list) : list[i].table = table /\ list[i].id = id

(* The new queue carries order p as it is after the step: the parent       *)
(* first, then its children, then at most one new fill.                    *)
Carried(p, new, i) ==
  LET w == new[i] IN
  /\ w.table = "parents" => i = 1 /\ w.id = p /\ w.row = parents'[p]
  /\ w.table = "children" =>
       /\ w.id \in DOMAIN children' /\ children'[w.id].parent = p /\ w.row = children'[w.id]
       /\ \A j \in 1 .. (i - 1) : new[j].table \in {"parents", "children"}
  /\ w.table = "fills" =>
       w.id \in DOMAIN fills' \ DOMAIN fills /\ w.row = fills'[w.id] /\ w.row.parent = p
  /\ w.table = "positions" => w.id \in DOMAIN fills'
  /\ w.table = "jobs" =>
       /\ w.id = p /\ p \in DOMAIN jobs' /\ w.row.filled = jobs'[p].filled
       /\ "filled" \in DOMAIN w.row /\ fills' = fills

Carries(p, new) == IsList(new) /\ \A i \in 1 .. Len(new) : Carried(p, new, i)

(* Nothing of what the step did is left out.                               *)
Covers(p, new) ==
  /\ Pends(new, "parents", p)
  /\ \A c \in DOMAIN children' :
       (c \in DOMAIN children /\ children'[c] = children[c]) \/ Pends(new, "children", c)
  /\ \A f \in DOMAIN fills' \ DOMAIN fills : Pends(new, "fills", f) /\ Pends(new, "positions", f)

(* Only order p, its children and its fills change, and fills are kept.    *)
OrderOnly(p) ==
  /\ DOMAIN parents' = DOMAIN parents \cup {p}
  /\ \A x \in DOMAIN parents : x # p => parents'[x] = parents[x]
  /\ DOMAIN children \subseteq DOMAIN children'
  /\ \A c \in DOMAIN children' : children'[c].parent # p =>
       c \in DOMAIN children /\ children'[c] = children[c]
  /\ \A c \in DOMAIN children : children'[c].parent = children[c].parent
  /\ DOMAIN fills \subseteq DOMAIN fills' /\ \A f \in DOMAIN fills : fills'[f] = fills[f]

(* Only the thread of the order fills it.  What is cancelled, or a child   *)
(* that is terminal, stays so, and an order is only cancelled with all its *)
(* children; by another thread, when nothing of it is filled.              *)
Stays(t, p) ==
  /\ \A x \in DOMAIN parents :
       parents[x].status = "Cancelled" => parents'[x].status = "Cancelled"
  /\ \A c \in DOMAIN children :
       /\ children'[c].filled >= children[c].filled
       /\ Terminal(children[c].status) => children'[c] = children[c]
  /\ p \in DOMAIN parents /\ parents'[p].status = "Cancelled" =>
       \/ parents[p].status = "Cancelled"
       \/ /\ \A c \in DOMAIN children' :
                children'[c].parent = p => Terminal(children'[c].status)
          /\ t = p \/ \A c \in DOMAIN children : children[c].parent = p => children[c].filled = 0
  /\ \A f \in DOMAIN fills' \ DOMAIN fills :
       LET c == fills'[f].child
       IN /\ t = p /\ c \in DOMAIN children /\ children[c].parent = p
          /\ ~Terminal(children[c].status) /\ children'[c].filled > 0
          /\ parents[p].status # "Cancelled" => parents'[p].status # "Cancelled"

Changes(t, p) ==
  /\ Typed(parents', children', fills') /\ Complete(parents', children')
  /\ OrderOnly(p) /\ Stays(t, p)
  /\ writes[t] = <<>> /\ DOMAIN writes' = Thread
  /\ \A u \in Thread \ {t} : writes'[u] = writes[u]
  /\ Carries(p, writes'[t])
  /\ callback_set => Covers(p, writes'[t]) \/ UNCHANGED memory

(* Behind the rows of the order a queue may have the row of the job.       *)
LEMMA JobBehind ==
  ASSUME NEW p, NEW list, IsList(list), \A i \in 1 .. Len(list) : Carried(p, list, i),
         NEW job, p \in DOMAIN jobs', job.filled = jobs'[p].filled, fills' = fills,
         NEW after \in {<<>>, <<SaveJob(p, job)>>}
  PROVE  /\ Carries(p, list \o after)
         /\ \A table, id : Pends(list, table, id) => Pends(list \o after, table, id)
<1> DEFINE w == SaveJob(p, job)
           new == list \o after
           n == Len(list)
<1>1. /\ w.table = "jobs" /\ w.id = p /\ w.row.filled = jobs'[p].filled
      /\ "filled" \in DOMAIN w.row
  BY DEF SaveJob, Write
<1>0. after = <<>> \/ after = <<w>>
  OBVIOUS
<1> HIDE DEF w
<1>2. IsList(after) /\ Len(after) \in {0, 1} /\ (Len(after) = 1 => after[1] = w)
  <2>1. CASE after = <<>>
    <3>1. after \in Seq({w}) /\ Len(after) = 0
      BY <2>1
    <3>2. IsList(after)
      BY <2>1, EmptyBacked DEF Backed
    <3> QED  BY <3>1, <3>2
  <2>2. CASE after = <<w>>
    <3>1. <<w>> \in Seq({w}) /\ Len(<<w>>) = 1 /\ <<w>>[1] = w
      OBVIOUS
    <3> QED  BY <2>2, <3>1, SeqIsList
  <2> QED  BY <1>0, <2>1, <2>2
<1>3. /\ IsList(new) /\ n \in Nat /\ Len(new) = n + Len(after)
      /\ \A i \in 1 .. n : new[i] = list[i]
      /\ \A i \in 1 .. Len(after) : new[n + i] = after[i]
  BY <1>2, ConcatLists
<1> HIDE DEF new, n
<1>4. \A i \in 1 .. Len(new) : i \in 1 .. n \/ new[i] = w
  <2> TAKE i \in 1 .. Len(new)
  <2>1. CASE i <= n
    BY <1>3, <2>1
  <2>2. CASE i > n
    <3>1. i = n + 1 /\ Len(after) = 1 /\ 1 \in 1 .. Len(after)
      BY <1>2, <1>3, <2>2
    <3> QED  BY <1>2, <1>3, <3>1
  <2> QED  BY <1>3, <2>1, <2>2
<1>5. ASSUME NEW i \in 1 .. Len(new) PROVE Carried(p, new, i)
  <2>1. CASE i \in 1 .. n
    <3>1. Carried(p, list, i) /\ new[i] = list[i] /\ \A j \in 1 .. (i - 1) : new[j] = list[j]
      BY <1>3, <2>1 DEF n
    <3> QED  BY <3>1 DEF Carried
  <2>2. CASE new[i] = w
    BY <1>1, <2>2 DEF Carried
  <2> QED  BY <1>4, <2>1, <2>2
<1>6. ASSUME NEW table, NEW id, Pends(list, table, id) PROVE Pends(new, table, id)
  <2>1. PICK i \in 1 .. n : list[i].table = table /\ list[i].id = id
    BY <1>6 DEF Pends, n
  <2>2. i \in 1 .. Len(new) /\ new[i] = list[i]
    BY <1>2, <1>3, <2>1
  <2> QED  BY <2>1, <2>2 DEF Pends
<1> QED  BY <1>3, <1>5, <1>6 DEF Carries, new

LEMMA NothingCarried ==
  ASSUME NEW p
  PROVE  Carries(p, <<>>)
<1> DEFINE e == <<>>
<1>1. e \in Seq({}) /\ Len(e) = 0
  OBVIOUS
<1> HIDE DEF e
<1>2. IsList(e)
  BY <1>1, SeqIsList
<1>3. \A i \in 1 .. Len(e) : Carried(p, e, i)
  BY <1>1
<1>4. Carries(p, e)
  BY <1>2, <1>3 DEF Carries
<1> QED  BY <1>4 DEF e

LEMMA JobCarried ==
  ASSUME NEW p, NEW job, p \in DOMAIN jobs', job.filled = jobs'[p].filled, fills' = fills
  PROVE  Carries(p, <<SaveJob(p, job)>>)
<1> DEFINE w == SaveJob(p, job)
<1>1. /\ w.table = "jobs" /\ w.id = p /\ w.row.filled = jobs'[p].filled
      /\ "filled" \in DOMAIN w.row
  BY DEF SaveJob, Write
<1> HIDE DEF w
<1>2. <<w>> \in Seq({w}) /\ Len(<<w>>) = 1 /\ <<w>>[1] = w
  OBVIOUS
<1>3. \A i \in 1 .. Len(<<w>>) : i = 1
  BY <1>2
<1>4. Carried(p, <<w>>, 1)
  BY <1>1, <1>2 DEF Carried
<1> QED  BY <1>2, <1>3, <1>4, SeqIsList DEF Carries, w

LEMMA RequestCarried ==
  ASSUME NEW p, NEW r
  PROVE  Carries(p, <<SaveRequest(p, r)>>)
<1> DEFINE w == SaveRequest(p, r)
<1>1. w.table = "requests"
  BY DEF SaveRequest, Write
<1> HIDE DEF w
<1>2. <<w>> \in Seq({w}) /\ Len(<<w>>) = 1 /\ <<w>>[1] = w
  OBVIOUS
<1>3. \A i \in 1 .. Len(<<w>>) : i = 1
  BY <1>2
<1>4. Carried(p, <<w>>, 1)
  BY <1>1, <1>2 DEF Carried
<1> QED  BY <1>2, <1>3, <1>4, SeqIsList DEF Carries, w

LEMMA ParentCarried ==
  ASSUME NEW p, NEW list, list = <<SaveParent(p, parents'[p])>>
  PROVE  Carries(p, list) /\ Pends(list, "parents", p)
<1> DEFINE w == SaveParent(p, parents'[p])
<1>1. w.table = "parents" /\ w.id = p /\ w.row = parents'[p]
  BY DEF SaveParent, Write
<1>0. list = <<w>>
  OBVIOUS
<1> HIDE DEF w
<1>2. list \in Seq({w}) /\ Len(list) = 1 /\ list[1] = w
  BY <1>0
<1>3. \A i \in 1 .. Len(list) : i = 1
  BY <1>2
<1>4. Carried(p, list, 1)
  BY <1>1, <1>2 DEF Carried
<1>5. 1 \in 1 .. Len(list)
  BY <1>2
<1>6. Carries(p, list)
  BY <1>2, <1>3, <1>4, SeqIsList DEF Carries
<1> QED  BY <1>1, <1>2, <1>5, <1>6 DEF Pends

LEMMA NotifyCarried ==
  ASSUME NEW p, NEW c \in DOMAIN children', children'[c].parent = p,
         NEW list, list = Notify(p, parents'[p], c, children'[c])
  PROVE  /\ Carries(p, list)
         /\ Pends(list, "parents", p) /\ Pends(list, "children", c)
<1> DEFINE u == SaveParent(p, parents'[p])
           v == SaveChild(c, children'[c])
<1>1. /\ u.table = "parents" /\ u.id = p /\ u.row = parents'[p]
      /\ v.table = "children" /\ v.id = c /\ v.row = children'[c]
  BY DEF SaveParent, SaveChild, Write
<1>0. list = <<u, v>>
  BY DEF Notify
<1> HIDE DEF u, v
<1>2. list \in Seq({u, v}) /\ Len(list) = 2 /\ list[1] = u /\ list[2] = v
  BY <1>0
<1>3. \A i \in 1 .. Len(list) : i = 1 \/ i = 2
  BY <1>2
<1>4. Carried(p, list, 1)
  BY <1>1, <1>2 DEF Carried
<1>5. Carried(p, list, 2)
  <2>1. \A j \in 1 .. (2 - 1) : j = 1
    OBVIOUS
  <2> QED  BY <1>1, <1>2, <2>1 DEF Carried
<1>6. Carries(p, list)
  BY <1>2, <1>3, <1>4, <1>5, SeqIsList DEF Carries
<1>7. 1 \in 1 .. Len(list) /\ 2 \in 1 .. Len(list)
  BY <1>2
<1> QED  BY <1>1, <1>2, <1>6, <1>7 DEF Pends

LEMMA FillCarried ==
  ASSUME NEW p, NEW c \in DOMAIN children', children'[c].parent = p,
         NEW f \in DOMAIN fills' \ DOMAIN fills, fills'[f].parent = p,
         NEW list, list = NotifyFill(p, parents'[p], c, children'[c], f, fills'[f])
  PROVE  /\ Carries(p, list)
         /\ Pends(list, "parents", p) /\ Pends(list, "children", c)
         /\ Pends(list, "fills", f) /\ Pends(list, "positions", f)
<1> DEFINE u == SaveParent(p, parents'[p])
           v == SaveChild(c, children'[c])
           w == SaveFill(f, fills'[f])
           x == PublishFill(f)
           y == CountFill(f)
<1>1. /\ u.table = "parents" /\ u.id = p /\ u.row = parents'[p]
      /\ v.table = "children" /\ v.id = c /\ v.row = children'[c]
      /\ w.table = "fills" /\ w.id = f /\ w.row = fills'[f]
      /\ x.table = "drops" /\ y.table = "positions" /\ y.id = f
  BY DEF SaveParent, SaveChild, SaveFill, PublishFill, CountFill, Write
<1>0. list = <<u, v>> \o <<w, x, y>>
  BY DEF NotifyFill, Notify
<1> HIDE DEF u, v, w, x, y
<1>2. /\ list \in Seq({u, v, w, x, y}) /\ Len(list) = 5 /\ list[1] = u /\ list[2] = v
      /\ list[3] = w /\ list[4] = x /\ list[5] = y
  BY <1>0
<1>3. \A i \in 1 .. Len(list) : i = 1 \/ i = 2 \/ i = 3 \/ i = 4 \/ i = 5
  BY <1>2
<1>4. Carried(p, list, 1) /\ Carried(p, list, 3) /\ Carried(p, list, 4) /\ Carried(p, list, 5)
  BY <1>1, <1>2 DEF Carried
<1>5. Carried(p, list, 2)
  <2>1. \A j \in 1 .. (2 - 1) : j = 1
    OBVIOUS
  <2> QED  BY <1>1, <1>2, <2>1 DEF Carried
<1>7. Carries(p, list)
  BY <1>2, <1>3, <1>4, <1>5, SeqIsList DEF Carries
<1>8. 1 \in 1 .. Len(list) /\ 2 \in 1 .. Len(list) /\ 3 \in 1 .. Len(list) /\ 5 \in 1 .. Len(list)
  BY <1>2
<1> QED  BY <1>1, <1>2, <1>7, <1>8 DEF Pends

LEMMA CancelCarried ==
  ASSUME NEW p, NEW n \in Nat, NEW S, NEW ordered \in [1 .. n -> S], S \subseteq DOMAIN children',
         \A c \in S : children'[c].parent = p,
         NEW list, list = CancelList(p, parents'[p], children', n, ordered)
  PROVE  /\ Carries(p, list)
         /\ Pends(list, "parents", p) /\ \A i \in 1 .. n : Pends(list, "children", ordered[i])
<1> DEFINE u == SaveParent(p, parents'[p])
           Row(i) == SaveChild(ordered[i], children'[ordered[i]])
           rest == [i \in 1 .. n |-> Row(i)]
           T == {u} \cup {Row(i) : i \in 1 .. n}
<1>1. u.table = "parents" /\ u.id = p /\ u.row = parents'[p]
  BY DEF SaveParent, Write
<1>2. \A i \in 1 .. n : /\ Row(i).table = "children" /\ Row(i).id = ordered[i]
                        /\ Row(i).row = children'[ordered[i]]
  BY DEF SaveChild, Write
<1>3. list = <<u>> \o rest
  BY DEF CancelList
<1>4. <<u>> \in Seq(T) /\ rest \in Seq(T) /\ Len(rest) = n /\ \A i \in 1 .. n : rest[i] = Row(i)
  OBVIOUS
<1> HIDE DEF u, Row, rest, T
<1>5. /\ list \in Seq(T) /\ Len(list) = n + 1 /\ list[1] = u
      /\ \A i \in 1 .. n : list[i + 1] = Row(i)
  BY <1>3, <1>4
<1>6. ASSUME NEW i \in 1 .. Len(list)
      PROVE  i = 1 \/ (list[i].table = "children" /\ i - 1 \in 1 .. n
                         /\ list[i].id = ordered[i - 1] /\ list[i].row = children'[ordered[i - 1]])
  <2>1. CASE i # 1
    <3>1. i - 1 \in 1 .. n /\ list[(i - 1) + 1] = list[i]
      BY <1>5, <2>1
    <3> QED  BY <1>2, <1>5, <3>1
  <2> QED  BY <2>1
<1>7. ASSUME NEW i \in 1 .. Len(list) PROVE Carried(p, list, i)
  <2>1. CASE i = 1
    BY <1>1, <1>5, <2>1 DEF Carried
  <2>2. CASE i # 1
    <3>1. /\ list[i].table = "children" /\ i - 1 \in 1 .. n
          /\ list[i].id = ordered[i - 1] /\ list[i].row = children'[ordered[i - 1]]
      BY <1>6, <2>2
    <3>2. ordered[i - 1] \in S
      BY <3>1
    <3>3. \A j \in 1 .. (i - 1) : list[j].table \in {"parents", "children"}
      <4> TAKE j \in 1 .. (i - 1)
      <4>1. j \in 1 .. Len(list)
        BY <1>5
      <4> QED  BY <1>1, <1>5, <1>6, <4>1
    <3> QED  BY <3>1, <3>2, <3>3 DEF Carried
  <2> QED  BY <2>1, <2>2
<1>8. Carries(p, list)
  BY <1>5, <1>7, SeqIsList DEF Carries
<1>9. Pends(list, "parents", p)
  <2>1. 1 \in 1 .. Len(list)
    BY <1>5
  <2> QED  BY <1>1, <1>5, <2>1 DEF Pends
<1>10. ASSUME NEW i \in 1 .. n PROVE Pends(list, "children", ordered[i])
  <2>1. i + 1 \in 1 .. Len(list) /\ list[i + 1] = Row(i)
    BY <1>5
  <2> QED  BY <1>2, <2>1 DEF Pends
<1> QED  BY <1>8, <1>9, <1>10


-----------------------------------------------------------------------------
(* The operations of the OMS, called by a thread that is in no callback.   *)

Queues(t, new) ==
  /\ DOMAIN writes' = Thread /\ writes'[t] = new
  /\ \A u \in Thread \ {t} : writes'[u] = writes[u]

LEMMA CallbackQueues ==
  ASSUME DOMAIN writes = Thread, NEW t \in Thread, Ready(t), NEW list, IsList(list),
         Callback(t, list)
  PROVE  Queues(t, IF callback_set THEN list ELSE <<>>)
<1>1. <<>> \o list = list
  BY DEF IsList
<1>2. writes[t] = <<>>
  BY DEF Ready
<1>3. CASE callback_set
  <2>1. writes' = [writes EXCEPT ![t] = writes[t] \o list]
    BY <1>3 DEF Callback
  <2>2. writes' = [writes EXCEPT ![t] = list]
    BY <1>1, <1>2, <2>1
  <2> QED  BY <1>3, <2>2 DEF Queues
<1>4. CASE ~callback_set
  <2>1. writes' = writes
    BY <1>4 DEF Callback
  <2> QED  BY <1>2, <1>4, <2>1 DEF Queues
<1> QED  BY <1>3, <1>4

LEMMA QueueCarries ==
  ASSUME NEW t, NEW p, NEW list, Carries(p, list), Queues(t, IF callback_set THEN list ELSE <<>>)
  PROVE  /\ DOMAIN writes' = Thread /\ \A u \in Thread \ {t} : writes'[u] = writes[u]
         /\ Carries(p, writes'[t]) /\ (callback_set => writes'[t] = list)
BY NothingCarried DEF Queues

(* A sum that is nothing has only nothings.                                *)
LEMMA SumZero ==
  ASSUME NEW ks, NEW ids, IsFiniteSet(ids), \A c \in ids : ks[c].filled \in Nat,
         SumOver(ks, ids) = 0, NEW x \in ids
  PROVE  ks[x].filled = 0
<1> DEFINE f == [c \in ids |-> ks[c].filled]
           R == ids \ {x}
<1>1. SumOver(ks, ids) = SumFunctionOnSet(f, ids) /\ Summable(f, ids)
  BY SumTotal
<1>2. f[x] = ks[x].filled /\ f[x] \in Nat /\ \A c \in R : f[c] \in Nat
  OBVIOUS
<1> HIDE DEF f
<1>3. SumFunctionOnSet(f, ids) = f[x] + SumFunctionOnSet(f, R)
  BY <1>1, SumRemoves
<1>4. IsFiniteSet(R)
  BY FS_Subset
<1> HIDE DEF R
<1>5. SumFunctionOnSet(f, R) \in Nat
  BY <1>2, <1>4, SumNatural
<1> QED  BY <1>1, <1>2, <1>3, <1>5

(* refresh_parent whatever the children add up to.                         *)
LEMMA RefreshedTyped ==
  ASSUME NEW r, IsParent(r), ParentTyped(r), NEW kids, r.status # "Cancelled",
         SumOver(kids, r.child_ids) \in Nat, \A c \in r.child_ids : kids[c].status \in Status
  PROVE  LET s == Refreshed(r, kids)
             total == SumOver(kids, r.child_ids)
         IN /\ IsParent(s) /\ ParentTyped(s) /\ s.child_ids = r.child_ids
            /\ s.quantity = r.quantity /\ s.filled = AtMost(r.quantity, total)
            /\ s.status = "Cancelled" =>
                 total = 0 /\ \A c \in r.child_ids : Terminal(kids[c].status)
<1> DEFINE total == SumOver(kids, r.child_ids)
           filled == AtMost(r.quantity, total)
           mine == {kids[c] : c \in r.child_ids}
           has(statuses) == \E k \in mine : k.status \in statuses
           live == has({"New", "Working", "PartiallyFilled"})
           status ==
             IF filled = r.quantity THEN "Filled"
             ELSE IF filled > 0 THEN "PartiallyFilled"
             ELSE IF live THEN "Working"
             ELSE IF has({"Cancelled"}) THEN "Cancelled"
             ELSE IF has({"Rejected"}) THEN "Rejected"
             ELSE "New"
           m == r.quantity - filled
           s == [quantity |-> r.quantity, filled |-> filled, remaining |-> m, status |-> status,
                 child_ids |-> r.child_ids]
<1>1. Refreshed(r, kids) = [r EXCEPT !.filled = filled, !.remaining = m, !.status = status]
  BY DEF Refreshed, SumOver
<1>2. /\ filled \in Nat /\ m \in Nat /\ filled + m = r.quantity
      /\ filled # r.quantity /\ ~(filled > 0) => total = 0
  <2>1. r.quantity \in Nat /\ total \in Nat
    BY DEF ParentTyped
  <2> HIDE DEF total
  <2> QED  BY <2>1 DEF AtMost
<1>3. status = "Cancelled" => filled # r.quantity /\ ~(filled > 0) /\ ~live
  <2> HIDE DEF live, has, filled, total
  <2> QED  OBVIOUS
<1>4. ~live => \A c \in r.child_ids : Terminal(kids[c].status)
  <2>1. \A c \in r.child_ids : ~live => kids[c].status \notin {"New", "Working", "PartiallyFilled"}
    OBVIOUS
  <2> HIDE DEF live
  <2> QED  BY <2>1 DEF Status, Terminal
<1> HIDE DEF status, filled, m, total, live
<1>5. Refreshed(r, kids) = s
  BY <1>1 DEF IsParent
<1>6. IsParent(s) /\ ParentTyped(s)
  BY <1>2 DEF IsParent, ParentTyped
<1> QED  BY <1>2, <1>3, <1>4, <1>5, <1>6 DEF total, filled

(* One live child is updated and its parent refreshed.                     *)
Updated(p, c, k) ==
  /\ DOMAIN children' = DOMAIN children /\ children'[c] = k
  /\ \A y \in DOMAIN children : y # c => children'[y] = children[y]
  /\ DOMAIN parents' = DOMAIN parents /\ parents'[p] = Refreshed(parents[p], children')
  /\ \A x \in DOMAIN parents : x # p => parents'[x] = parents[x]
  /\ IsTable(children')

Refreshes(p) ==
  /\ p \in DOMAIN parents /\ DOMAIN parents' = DOMAIN parents /\ DOMAIN children' = DOMAIN children
  /\ \A x \in DOMAIN parents :
       /\ ParentTyped(parents'[x]) /\ (x # p => parents'[x] = parents[x])
       /\ parents[x].status = "Cancelled" => parents'[x].status = "Cancelled"
  /\ \A y \in DOMAIN children :
       /\ ChildTyped(children'[y]) /\ children'[y].parent = children[y].parent
       /\ children'[y].filled >= children[y].filled
       /\ Terminal(children[y].status) \/ children[y].parent # p => children'[y] = children[y]
  /\ IsTable(children') /\ Complete(parents', children')
  /\ parents[p].status # "Cancelled" /\ parents'[p].status = "Cancelled" =>
       \A y \in DOMAIN children : children[y].parent = p =>
         Terminal(children'[y].status) /\ children'[y].filled = 0

LEMMA UpdateRefreshes ==
  ASSUME Family(parents, children), Typed(parents, children, fills), Complete(parents, children),
         NEW c \in DOMAIN children, ~Terminal(children[c].status), NEW p, p = children[c].parent,
         NEW k, k.parent = p, ChildTyped(k), k.filled >= children[c].filled, Updated(p, c, k)
  PROVE  Refreshes(p)
<1> DEFINE r == parents[p]
           ids == r.child_ids
           s == parents'[p]
<1>1. /\ p \in DOMAIN parents /\ IsParent(r) /\ ids \subseteq DOMAIN children
      /\ ids \subseteq 1 .. MaxChildren /\ \A y \in ids : children[y].parent = p
  BY DEF Family
<1>2. /\ DOMAIN children' = DOMAIN children /\ children'[c] = k
      /\ \A y \in DOMAIN children : y # c => children'[y] = children[y]
      /\ DOMAIN parents' = DOMAIN parents /\ s = Refreshed(r, children')
      /\ \A x \in DOMAIN parents : x # p => parents'[x] = parents[x]
      /\ IsTable(children')
  BY DEF Updated
<1>3. /\ \A x \in DOMAIN parents : ParentTyped(parents[x])
      /\ \A y \in DOMAIN children : ChildTyped(children[y])
  BY DEF Typed
<1>4. \A y \in DOMAIN children : children[y].filled \in Nat
  BY <1>3 DEF ChildTyped
<1>5. \A y \in DOMAIN children :
        /\ ChildTyped(children'[y]) /\ children'[y].parent = children[y].parent
        /\ children'[y].filled >= children[y].filled
        /\ Terminal(children[y].status) \/ children[y].parent # p => children'[y] = children[y]
  <2> TAKE y \in DOMAIN children
  <2>1. CASE y = c
    BY <1>2, <2>1
  <2>2. CASE y # c
    BY <1>2, <1>3, <1>4, <2>2
  <2> QED  BY <2>1, <2>2
<1>6. IsFiniteSet(ids)
  <2> HIDE DEF ids
  <2> QED  BY <1>1, ChildrenFinite
<1>7. \A y \in ids : children'[y].filled \in Nat
  BY <1>1, <1>5 DEF ChildTyped
<1>8. \A y \in ids : children'[y].status \in Status
  BY <1>1, <1>5 DEF ChildTyped
<1>9. SumOver(children', ids) \in Nat
  <2> DEFINE ks == children'
  <2>1. \A y \in ids : ks[y].filled \in Nat
    BY <1>7
  <2> HIDE DEF ks, ids
  <2>2. SumOver(ks, ids) \in Nat
    BY <1>6, <2>1, SumTotal
  <2> QED  BY <2>2 DEF ks
<1>10. /\ ParentTyped(s) /\ s.child_ids = ids
       /\ r.status = "Cancelled" => s.status = "Cancelled"
       /\ r.status # "Cancelled" /\ s.status = "Cancelled" =>
            SumOver(children', ids) = 0 /\ \A y \in ids : Terminal(children'[y].status)
  <2>1. CASE r.status = "Cancelled"
    <3>1. s = r
      BY <1>2, <2>1 DEF Refreshed
    <3> QED  BY <1>1, <1>3, <2>1, <3>1
  <2>2. CASE r.status # "Cancelled"
    <3> DEFINE ks == children'
    <3>1. SumOver(ks, r.child_ids) \in Nat /\ ParentTyped(r) /\ s = Refreshed(r, ks)
      BY <1>1, <1>2, <1>3, <1>9
    <3>2. \A y \in r.child_ids : ks[y].status \in Status
      BY <1>8
    <3> HIDE DEF ks, s
    <3>3. /\ ParentTyped(s) /\ s.child_ids = r.child_ids
          /\ s.status = "Cancelled" =>
               SumOver(ks, r.child_ids) = 0 /\ \A y \in r.child_ids : Terminal(ks[y].status)
      <4> HIDE DEF r
      <4> QED  BY <1>1, <2>2, <3>1, <3>2, RefreshedTyped
    <3> QED  BY <2>2, <3>3 DEF ks
  <2> QED  BY <2>1, <2>2
<1>11. r.status # "Cancelled" /\ s.status = "Cancelled" =>
         \A y \in ids : Terminal(children'[y].status) /\ children'[y].filled = 0
  <2> DEFINE ks == children'
  <2>1. \A y \in ids : ks[y].filled \in Nat
    BY <1>7
  <2>2. r.status # "Cancelled" /\ s.status = "Cancelled" =>
          SumOver(ks, ids) = 0 /\ \A y \in ids : Terminal(ks[y].status)
    BY <1>10
  <2> HIDE DEF ks, ids, r, s
  <2>3. SumOver(ks, ids) = 0 => \A y \in ids : ks[y].filled = 0
    BY <1>6, <2>1, SumZero
  <2>4. r.status # "Cancelled" /\ s.status = "Cancelled" =>
          \A y \in ids : Terminal(ks[y].status) /\ ks[y].filled = 0
    BY <2>2, <2>3
  <2> QED  BY <2>4 DEF ks
<1>12. \A y \in DOMAIN children : children[y].parent = p => y \in ids
  BY DEF Complete
<1>13. Complete(parents', children')
  <2> SUFFICES ASSUME NEW y \in DOMAIN children PROVE y \in parents'[children'[y].parent].child_ids
    BY <1>2 DEF Complete
  <2>1. children'[y].parent = children[y].parent /\ children[y].parent \in DOMAIN parents
    BY <1>5 DEF Family
  <2>2. y \in parents[children[y].parent].child_ids
    BY DEF Complete
  <2> QED  BY <1>2, <1>10, <2>1, <2>2
<1>14. \A x \in DOMAIN parents :
         /\ ParentTyped(parents'[x]) /\ (x # p => parents'[x] = parents[x])
         /\ parents[x].status = "Cancelled" => parents'[x].status = "Cancelled"
  BY <1>2, <1>3, <1>10
<1>15. r.status # "Cancelled" /\ s.status = "Cancelled" =>
         \A y \in DOMAIN children : children[y].parent = p =>
           Terminal(children'[y].status) /\ children'[y].filled = 0
  BY <1>11, <1>12
<1> QED  BY <1>1, <1>2, <1>5, <1>13, <1>14, <1>15 DEF Refreshes

(* The memory does not change; the thread may have a row of its own to     *)
(* write.                                                                  *)
LEMMA SameChanges ==
  ASSUME Family(parents, children), Typed(parents, children, fills), Complete(parents, children),
         NEW t, Ready(t), NEW p \in DOMAIN parents, UNCHANGED memory,
         NEW new, Carries(p, new), Queues(t, new)
  PROVE  Changes(t, p)
<1>1. parents' = parents /\ children' = children /\ fills' = fills
  BY DEF memory
<1>2. OrderOnly(p)
  BY <1>1 DEF OrderOnly
<1>3. \A c \in DOMAIN children : children[c].filled >= children[c].filled
  <2>1. \A c \in DOMAIN children : children[c].filled \in Nat
    BY DEF Typed, ChildTyped
  <2> QED  BY <2>1
<1>4. Stays(t, p)
  BY <1>1, <1>3 DEF Stays
<1>5. Typed(parents', children', fills') /\ Complete(parents', children')
  BY <1>1
<1>6. UNCHANGED memory
  OBVIOUS
<1> QED  BY <1>2, <1>4, <1>5, <1>6 DEF Changes, Queues, Ready

LEMMA QuietQueues ==
  ASSUME DOMAIN writes = Thread, NEW t \in Thread, Ready(t), writes' = writes
  PROVE  Queues(t, <<>>)
BY DEF Queues, Ready

(* reject_child, mark_child_working and cancel_child.                      *)
StatusUpdated(t, p, c, status) ==
  /\ ~Terminal(children[c].status) /\ fills' = fills
  /\ \E k : /\ Updated(p, c, k) /\ IsChild(k) /\ k.parent = p /\ k.status = status
            /\ k.quantity = children[c].quantity
            /\ k.filled = children[c].filled /\ k.remaining = children[c].remaining
            /\ Callback(t, Notify(p, parents'[p], c, k))

LEMMA StatusUpdates ==
  ASSUME Family(parents, children), NEW t, NEW c \in DOMAIN children, NEW status,
         SetChildStatus(t, c, status), NEW p, p = children[c].parent
  PROVE  UNCHANGED <<memory, writes>> \/ StatusUpdated(t, p, c, status)
<1>1. CASE Terminal(children[c].status)
  BY <1>1 DEF SetChildStatus
<1>2. CASE ~Terminal(children[c].status)
  <2> DEFINE k == children[c]
             child == [k EXCEPT !.status = status]
             kids == [children EXCEPT ![c] = child]
  <2>1. UpdateChild(t, c, child)
    BY <1>2 DEF SetChildStatus
  <2>2. IsChild(k) /\ p \in DOMAIN parents /\ p = k.parent
    BY DEF Family
  <2>3. child = [parent |-> p, quantity |-> k.quantity, filled |-> k.filled,
                 remaining |-> k.remaining, status |-> status]
    <3> HIDE DEF k
    <3> QED  BY <2>2 DEF IsChild
  <2> HIDE DEF child
  <2>4. /\ IsChild(child) /\ child.parent = p /\ child.status = status
        /\ child.quantity = k.quantity /\ child.filled = k.filled /\ child.remaining = k.remaining
    BY <2>3 DEF IsChild
  <2>5. /\ children' = kids /\ parents' = [parents EXCEPT ![p] = Refreshed(parents[p], kids)]
        /\ Callback(t, Notify(p, Refreshed(parents[p], kids), c, child)) /\ fills' = fills
    BY <2>1, <2>4 DEF UpdateChild
  <2>6. IsTable(kids) /\ DOMAIN kids = DOMAIN children /\ kids[c] = child
        /\ \A y \in DOMAIN children : y # c => kids[y] = children[y]
    BY DEF IsTable
  <2> HIDE DEF kids
  <2>7. /\ DOMAIN parents' = DOMAIN parents /\ parents'[p] = Refreshed(parents[p], kids)
        /\ \A x \in DOMAIN parents : x # p => parents'[x] = parents[x]
    BY <2>2, <2>5
  <2>8. Updated(p, c, child)
    BY <2>5, <2>6, <2>7 DEF Updated
  <2>9. Callback(t, Notify(p, parents'[p], c, child))
    BY <2>5, <2>7
  <2> QED  BY <1>2, <2>4, <2>5, <2>8, <2>9 DEF StatusUpdated
<1> QED  BY <1>1, <1>2

LEMMA StatusChanges ==
  ASSUME Family(parents, children), Typed(parents, children, fills), Complete(parents, children),
         DOMAIN writes = Thread, NEW t \in Thread, Ready(t), NEW c \in DOMAIN children,
         NEW status \in Status, SetChildStatus(t, c, status), NEW p, p = children[c].parent
  PROVE  Changes(t, p)
<1>1. CASE UNCHANGED <<memory, writes>>
  <2>1. p \in DOMAIN parents
    BY DEF Family
  <2>2. Queues(t, <<>>) /\ Carries(p, <<>>) /\ UNCHANGED memory
    BY <1>1, QuietQueues, NothingCarried
  <2> QED  BY <2>1, <2>2, SameChanges
<1>2. CASE StatusUpdated(t, p, c, status)
  <2>1. PICK k : /\ Updated(p, c, k) /\ IsChild(k) /\ k.parent = p /\ k.status = status
                 /\ k.filled = children[c].filled /\ k.remaining = children[c].remaining
                 /\ Callback(t, Notify(p, parents'[p], c, k))
    BY <1>2 DEF StatusUpdated
  <2>2. ~Terminal(children[c].status) /\ fills' = fills
    BY <1>2 DEF StatusUpdated
  <2>3. ChildTyped(children[c])
    BY DEF Typed
  <2>4. ChildTyped(k) /\ k.filled >= children[c].filled
    BY <2>1, <2>3 DEF ChildTyped
  <2>5. Refreshes(p)
    BY <2>1, <2>2, <2>4, UpdateRefreshes
  <2>6. children'[c] = k /\ c \in DOMAIN children' /\ children'[c].parent = p
    BY <2>1 DEF Updated
  <2> DEFINE list == Notify(p, parents'[p], c, children'[c])
  <2>7. Carries(p, list) /\ Pends(list, "parents", p) /\ Pends(list, "children", c)
    BY <2>6, NotifyCarried
  <2>8. Callback(t, list)
    BY <2>1, <2>6
  <2> HIDE DEF list
  <2>9. Queues(t, IF callback_set THEN list ELSE <<>>)
    BY <2>7, <2>8, CallbackQueues DEF Carries
  <2>10. /\ DOMAIN writes' = Thread /\ \A u \in Thread \ {t} : writes'[u] = writes[u]
         /\ Carries(p, writes'[t]) /\ (callback_set => writes'[t] = list)
    BY <2>7, <2>9, QueueCarries
  <2>11. callback_set => Covers(p, writes'[t])
    <3>1. \A y \in DOMAIN children' :
            (y \in DOMAIN children /\ children'[y] = children[y]) \/ Pends(list, "children", y)
      BY <2>1, <2>7 DEF Updated
    <3> QED  BY <2>2, <2>7, <2>10, <3>1 DEF Covers
  <2>12. Typed(parents', children', fills') /\ Complete(parents', children')
    BY <2>2, <2>5 DEF Typed, Refreshes
  <2>13. OrderOnly(p)
    BY <2>2, <2>5 DEF OrderOnly, Refreshes
  <2>14. \A y \in DOMAIN children : children'[y].filled = 0 => children[y].filled = 0
    <3>1. \A y \in DOMAIN children : children[y].filled \in Nat
      BY DEF Typed, ChildTyped
    <3>2. \A y \in DOMAIN children : children'[y].filled = children[y].filled
      BY <2>1 DEF Updated
    <3> QED  BY <3>1, <3>2
  <2>15. Stays(t, p)
    BY <2>2, <2>5, <2>14 DEF Stays, Refreshes
  <2> QED  BY <2>10, <2>11, <2>12, <2>13, <2>15 DEF Changes, Ready
<1> QED  BY <1>1, <1>2, StatusUpdates

(* record_fill.                                                            *)
FillUpdated(t, p, c, q, f) ==
  /\ ~Terminal(children[c].status) /\ q <= children[c].remaining
  /\ f \in Nat \ {0} /\ f \notin DOMAIN fills
  /\ \E fill : /\ fill = [parent |-> p, child |-> c, quantity |-> q]
               /\ fills' = Put(fills, f, fill)
               /\ DOMAIN fills' = DOMAIN fills \cup {f} /\ fills'[f] = fill
               /\ \A x \in DOMAIN fills : fills'[x] = fills[x]
  /\ IsTable(fills')
  /\ \E k : /\ Updated(p, c, k) /\ IsChild(k) /\ k.parent = p
            /\ k.status \in {"Filled", "PartiallyFilled"}
            /\ k.filled = children[c].filled + q /\ k.remaining = children[c].remaining - q
            /\ Callback(t, NotifyFill(p, parents'[p], c, k, f, fills'[f]))

LEMMA FillUpdates ==
  ASSUME Family(parents, children), FillTable(fills), NEW t, NEW c \in DOMAIN children, NEW q,
         RecordFill(t, c, q), NEW p, p = children[c].parent
  PROVE  \E f : FillUpdated(t, p, c, q, f)
<1> DEFINE k == children[c]
           f == NextId(fills)
           left == k.remaining - q
           more == k.filled + q
           status == IF left = 0 THEN "Filled" ELSE "PartiallyFilled"
           child == [k EXCEPT !.filled = more, !.remaining = left, !.status = status]
           kids == [children EXCEPT ![c] = child]
           parent == Refreshed(parents[p], kids)
           fill == [parent |-> p, child |-> c, quantity |-> q]
<1>1. /\ ~Terminal(k.status) /\ q <= k.remaining /\ children' = kids
      /\ parents' = [parents EXCEPT ![p] = parent] /\ fills' = Put(fills, f, fill)
      /\ Callback(t, NotifyFill(p, parent, c, child, f, fill))
  BY DEF RecordFill, MayFill
<1>2. IsChild(k) /\ p \in DOMAIN parents /\ p = k.parent
  BY DEF Family
<1>3. f \in Nat \ {0} /\ f \notin DOMAIN fills
  <2>1. PICK n \in Nat : DOMAIN fills \subseteq 1 .. n
    BY DEF FillTable
  <2> QED  BY <2>1, NextIdFacts
<1> HIDE DEF f
<1>4. child = [parent |-> p, quantity |-> k.quantity, filled |-> more,
               remaining |-> left, status |-> status]
  <2>1. child = [k EXCEPT !.filled = more, !.remaining = left, !.status = status]
    OBVIOUS
  <2> HIDE DEF k, more, left, status, child
  <2> QED  BY <1>2, <2>1 DEF IsChild
<1>5. status \in {"Filled", "PartiallyFilled"}
  OBVIOUS
<1> HIDE DEF child, status
<1>6. /\ IsChild(child) /\ child.parent = p /\ child.status \in {"Filled", "PartiallyFilled"}
      /\ child.filled = more /\ child.remaining = left
  BY <1>4, <1>5 DEF IsChild
<1>7. IsTable(kids) /\ DOMAIN kids = DOMAIN children /\ kids[c] = child
      /\ \A y \in DOMAIN children : y # c => kids[y] = children[y]
  BY DEF IsTable
<1> HIDE DEF kids
<1>8. /\ DOMAIN parents' = DOMAIN parents /\ parents'[p] = Refreshed(parents[p], kids)
      /\ \A x \in DOMAIN parents : x # p => parents'[x] = parents[x]
  BY <1>1, <1>2
<1>9. Updated(p, c, child)
  BY <1>1, <1>7, <1>8 DEF Updated
<1> HIDE DEF fill
<1>10. /\ DOMAIN fills' = DOMAIN fills \cup {f} /\ fills'[f] = fill
       /\ \A x \in DOMAIN fills : fills'[x] = fills[x]
       /\ IsTable(fills')
  BY <1>1, <1>3 DEF Put, IsTable
<1>11. Callback(t, NotifyFill(p, parents'[p], c, child, f, fills'[f]))
  BY <1>1, <1>8, <1>10
<1>12. fill = [parent |-> p, child |-> c, quantity |-> q]
  BY DEF fill
<1>13. FillUpdated(t, p, c, q, f)
  BY <1>1, <1>3, <1>6, <1>9, <1>10, <1>11, <1>12 DEF FillUpdated
<1> QED  BY <1>13

LEMMA FillTableGrows ==
  ASSUME NEW fs, FillTable(fs), NEW gs, NEW f \in Nat \ {0}, DOMAIN gs = DOMAIN fs \cup {f},
         \A x \in DOMAIN fs : gs[x] = fs[x], gs[f].quantity \in Nat \ {0}
  PROVE  FillTable(gs)
<1>1. PICK n \in Nat : DOMAIN fs \subseteq 1 .. n
  BY DEF FillTable
<1>2. DOMAIN gs \subseteq 1 .. (n + f) /\ n + f \in Nat
  BY <1>1
<1>3. \A x \in DOMAIN gs : gs[x].quantity \in Nat \ {0}
  BY DEF FillTable
<1> QED  BY <1>2, <1>3 DEF FillTable

LEMMA FillChanges ==
  ASSUME Family(parents, children), Typed(parents, children, fills), Complete(parents, children),
         DOMAIN writes = Thread, NEW p \in Thread, Ready(p), NEW c \in DOMAIN children,
         NEW q \in Nat \ {0}, NEW f, FillUpdated(p, p, c, q, f), p = children[c].parent
  PROVE  Changes(p, p)
<1>1. PICK fill : /\ fill = [parent |-> p, child |-> c, quantity |-> q]
                  /\ DOMAIN fills' = DOMAIN fills \cup {f} /\ fills'[f] = fill
                  /\ \A x \in DOMAIN fills : fills'[x] = fills[x]
  BY DEF FillUpdated
<1>2. /\ ~Terminal(children[c].status) /\ q <= children[c].remaining
      /\ f \in Nat \ {0} /\ f \notin DOMAIN fills /\ IsTable(fills')
  BY DEF FillUpdated
<1>3. PICK k : /\ Updated(p, c, k) /\ IsChild(k) /\ k.parent = p
               /\ k.status \in {"Filled", "PartiallyFilled"}
               /\ k.filled = children[c].filled + q /\ k.remaining = children[c].remaining - q
               /\ Callback(p, NotifyFill(p, parents'[p], c, k, f, fills'[f]))
  BY DEF FillUpdated
<1>4. ChildTyped(children[c])
  BY DEF Typed
<1>5. ChildTyped(k) /\ k.filled >= children[c].filled /\ k.filled > 0
  BY <1>2, <1>3, <1>4 DEF ChildTyped, Status
<1>6. Refreshes(p)
  BY <1>2, <1>3, <1>5, UpdateRefreshes
<1>7. children'[c] = k /\ c \in DOMAIN children' /\ children'[c].parent = p
  BY <1>3 DEF Updated
<1>8. /\ fills'[f].parent = p /\ fills'[f].child = c /\ fills'[f].quantity = q
      /\ DOMAIN fills' \ DOMAIN fills = {f}
  BY <1>1, <1>2
<1> DEFINE list == NotifyFill(p, parents'[p], c, children'[c], f, fills'[f])
<1>9. /\ Carries(p, list) /\ Pends(list, "parents", p) /\ Pends(list, "children", c)
      /\ Pends(list, "fills", f) /\ Pends(list, "positions", f)
  BY <1>7, <1>8, FillCarried
<1>10. Callback(p, list)
  BY <1>3, <1>7
<1> HIDE DEF list
<1>11. Queues(p, IF callback_set THEN list ELSE <<>>)
  BY <1>9, <1>10, CallbackQueues DEF Carries
<1>12. /\ DOMAIN writes' = Thread /\ \A u \in Thread \ {p} : writes'[u] = writes[u]
       /\ Carries(p, writes'[p]) /\ (callback_set => writes'[p] = list)
  BY <1>9, <1>11, NothingCarried DEF Queues
<1>13. callback_set => Covers(p, writes'[p])
  <2>1. \A y \in DOMAIN children' :
          (y \in DOMAIN children /\ children'[y] = children[y]) \/ Pends(list, "children", y)
    BY <1>3, <1>9 DEF Updated
  <2> QED  BY <1>8, <1>9, <1>12, <2>1 DEF Covers
<1>14. Typed(parents', children', fills') /\ Complete(parents', children')
  <2>1. FillTable(fills')
    BY <1>1, <1>2, <1>8, FillTableGrows DEF Typed
  <2>2. \A x \in DOMAIN fills' : fills'[x].parent \in DOMAIN parents'
    BY <1>1, <1>6, <1>8 DEF Typed, Refreshes
  <2> QED  BY <1>2, <1>6, <2>1, <2>2 DEF Typed, Refreshes
<1>15. OrderOnly(p)
  BY <1>1, <1>6 DEF OrderOnly, Refreshes
<1>16. parents'[p].status = "Cancelled" => parents[p].status = "Cancelled"
  BY <1>5, <1>6, <1>7 DEF Refreshes
<1>17. Stays(p, p)
  BY <1>2, <1>5, <1>6, <1>7, <1>8, <1>16 DEF Stays, Refreshes
<1> QED  BY <1>12, <1>13, <1>14, <1>15, <1>17 DEF Changes, Ready

(* Nothing is missing when the children of a parent are put in order.      *)
LEMMA AscendingOnto ==
  ASSUME NEW n \in Nat, NEW S \in SUBSET (1 .. n), NEW c \in S
  PROVE  \E i \in 1 .. Cardinality(S) : Ascending(S)[i] = c
<1> DEFINE m == Cardinality(S)
           R == S \ {c}
           s == Ascending(S)
<1>1. IsFiniteSet(S) /\ m \in Nat
  <2>1. IsFiniteSet(1 .. n)
    BY FS_Interval
  <2> QED  BY <2>1, FS_Subset, FS_CardinalityType
<1>2. s \in [1 .. m -> S] /\ Rising(s)
  <2>1. \E u \in [1 .. m -> S] : Rising(u)
    BY <1>1, AllSortable DEF Sortable
  <2>2. s = CHOOSE u \in [1 .. m -> S] : Rising(u)
    BY DEF Ascending, Rising
  <2> HIDE DEF m, s
  <2> QED  BY <2>1, <2>2
<1>3. IsFiniteSet(R) /\ Cardinality(R) = m - 1
  BY <1>1, FS_RemoveElement
<1>4. IsFiniteSet(1 .. m) /\ Cardinality(1 .. m) = m
  <2> HIDE DEF m
  <2>1. m \in Int /\ 1 \in Int
    BY <1>1
  <2>2. IsFiniteSet(1 .. m) /\ Cardinality(1 .. m) = IF 1 > m THEN 0 ELSE m - 1 + 1
    BY <2>1, FS_Interval
  <2> QED  BY <1>1, <2>2
<1>5. ASSUME \A i \in 1 .. m : s[i] # c PROVE FALSE
  <2>1. s \in [1 .. m -> R]
    BY <1>2, <1>5
  <2>2. Cardinality(R) < Cardinality(1 .. m)
    BY <1>1, <1>3, <1>4
  <2> HIDE DEF m, R, s
  <2>3. PICK x \in 1 .. m, y \in 1 .. m : x # y /\ s[x] = s[y]
    BY <1>3, <1>4, <2>1, <2>2, FS_PigeonHole
  <2>4. DOMAIN s = 1 .. m /\ s[x] \in S /\ s[y] \in S
    BY <1>2
  <2>5. s[x] \in Nat /\ s[y] \in Nat
    <3>1. \A z \in S : z \in Nat
      OBVIOUS
    <3> QED  BY <2>4, <3>1
  <2>6. (x < y => s[x] < s[y]) /\ (y < x => s[y] < s[x])
    BY <1>2, <2>4 DEF Rising
  <2> QED  BY <1>1, <2>3, <2>5, <2>6
<1> QED  BY <1>5

(* create_child.                                                           *)
Opened(t, p, c, q) ==
  /\ c \notin DOMAIN children /\ ~Terminal(parents[p].status) /\ q <= parents[p].remaining
  /\ DOMAIN children' = DOMAIN children \cup {c} /\ IsTable(children')
  /\ IsChild(children'[c]) /\ children'[c].parent = p
  /\ children'[c].filled = 0 /\ children'[c].remaining = q /\ children'[c].status = "New"
  /\ \A y \in DOMAIN children : children'[y] = children[y]
  /\ DOMAIN parents' = DOMAIN parents
  /\ \A x \in DOMAIN parents : x # p => parents'[x] = parents[x]
  /\ parents'[p].child_ids = parents[p].child_ids \cup {c}
  /\ parents'[p].status # "Cancelled" /\ parents'[p].quantity = parents[p].quantity
  /\ parents'[p].filled = parents[p].filled /\ parents'[p].remaining = parents[p].remaining
  /\ fills' = fills /\ Callback(t, Notify(p, parents'[p], c, children'[c]))

LEMMA Opens ==
  ASSUME Family(parents, children), NEW t, NEW p \in DOMAIN parents, NEW c,
         c \notin DOMAIN children, NEW q, CreateChild(t, p, c, q)
  PROVE  Opened(t, p, c, q)
<1> DEFINE child == [parent |-> p, quantity |-> q, filled |-> 0, remaining |-> q,
                     status |-> "New"]
           r == parents[p]
           status == IF r.status = "New" THEN "Working" ELSE r.status
           ids == r.child_ids \cup {c}
           parent == [r EXCEPT !.child_ids = ids, !.status = status]
<1>1. /\ ~Terminal(r.status) /\ q <= r.remaining
      /\ children' = Put(children, c, child) /\ parents' = [parents EXCEPT ![p] = parent]
      /\ Callback(t, Notify(p, parent, c, child)) /\ fills' = fills
  BY DEF CreateChild, MayOpenChild
<1>2. /\ IsChild(child) /\ child.parent = p /\ child.filled = 0 /\ child.remaining = q
      /\ child.status = "New"
  BY DEF IsChild
<1>3. IsParent(r)
  BY DEF Family
<1>4. status # "Cancelled"
  BY <1>1 DEF Terminal
<1> HIDE DEF child, status
<1>5. parent = [quantity |-> r.quantity, filled |-> r.filled, remaining |-> r.remaining,
                status |-> status, child_ids |-> ids]
  <2>1. parent = [r EXCEPT !.child_ids = ids, !.status = status]
    OBVIOUS
  <2> HIDE DEF r, ids, parent
  <2> QED  BY <1>3, <2>1 DEF IsParent
<1> HIDE DEF parent
<1>6. /\ DOMAIN children' = DOMAIN children \cup {c} /\ children'[c] = child
      /\ \A y \in DOMAIN children : children'[y] = children[y]
      /\ IsTable(children')
  BY <1>1 DEF Put, IsTable
<1>7. /\ DOMAIN parents' = DOMAIN parents /\ parents'[p] = parent
      /\ \A x \in DOMAIN parents : x # p => parents'[x] = parents[x]
  BY <1>1
<1>8. Callback(t, Notify(p, parents'[p], c, children'[c]))
  BY <1>1, <1>6, <1>7
<1> QED  BY <1>1, <1>2, <1>4, <1>5, <1>6, <1>7, <1>8 DEF Opened

LEMMA OpenChanges ==
  ASSUME Family(parents, children), Typed(parents, children, fills), Complete(parents, children),
         DOMAIN writes = Thread, NEW t \in Thread, Ready(t), NEW p \in DOMAIN parents, NEW c,
         NEW q \in Nat, Opened(t, p, c, q)
  PROVE  Changes(t, p)
<1>1. /\ c \notin DOMAIN children /\ ~Terminal(parents[p].status)
      /\ DOMAIN children' = DOMAIN children \cup {c} /\ IsTable(children')
      /\ children'[c].parent = p
      /\ children'[c].filled = 0 /\ children'[c].remaining = q /\ children'[c].status = "New"
      /\ \A y \in DOMAIN children : children'[y] = children[y]
      /\ DOMAIN parents' = DOMAIN parents
      /\ \A x \in DOMAIN parents : x # p => parents'[x] = parents[x]
      /\ parents'[p].child_ids = parents[p].child_ids \cup {c}
      /\ parents'[p].status # "Cancelled" /\ parents'[p].quantity = parents[p].quantity
      /\ parents'[p].filled = parents[p].filled /\ parents'[p].remaining = parents[p].remaining
      /\ fills' = fills /\ Callback(t, Notify(p, parents'[p], c, children'[c]))
  BY DEF Opened
<1>2. \A y \in DOMAIN children : children[y].filled \in Nat /\ children[y].parent \in DOMAIN parents
  BY DEF Typed, ChildTyped, Family
<1> DEFINE list == Notify(p, parents'[p], c, children'[c])
<1>3. c \in DOMAIN children'
  BY <1>1
<1>4. Carries(p, list) /\ Pends(list, "parents", p) /\ Pends(list, "children", c)
  BY <1>1, <1>3, NotifyCarried
<1>5. Callback(t, list)
  BY <1>1
<1> HIDE DEF list
<1>6. Queues(t, IF callback_set THEN list ELSE <<>>)
  BY <1>4, <1>5, CallbackQueues DEF Carries
<1>7. /\ DOMAIN writes' = Thread /\ \A u \in Thread \ {t} : writes'[u] = writes[u]
      /\ Carries(p, writes'[t]) /\ (callback_set => writes'[t] = list)
  BY <1>4, <1>6, NothingCarried DEF Queues
<1>8. callback_set => Covers(p, writes'[t])
  BY <1>1, <1>4, <1>7 DEF Covers
<1>9. Typed(parents', children', fills')
  <2>1. ParentTyped(parents'[p])
    BY <1>1 DEF Typed, ParentTyped
  <2>2. ChildTyped(children'[c])
    BY <1>1 DEF ChildTyped, Status
  <2> QED  BY <1>1, <2>1, <2>2 DEF Typed
<1>10. Complete(parents', children')
  BY <1>1, <1>2 DEF Complete
<1>11. OrderOnly(p)
  BY <1>1 DEF OrderOnly
<1>12. \A y \in DOMAIN children : children'[y].filled >= children[y].filled
  BY <1>1, <1>2
<1>13. \A x \in DOMAIN parents : parents[x].status = "Cancelled" => parents'[x].status = "Cancelled"
  BY <1>1 DEF Terminal
<1>14. Stays(t, p)
  BY <1>1, <1>12, <1>13 DEF Stays
<1> QED  BY <1>7, <1>8, <1>9, <1>10, <1>11, <1>14 DEF Changes, Ready

(* create_parent.                                                          *)
LEMMA ParentChanges ==
  ASSUME Family(parents, children), Typed(parents, children, fills), Complete(parents, children),
         DOMAIN writes = Thread, NEW t \in Thread, Ready(t), NEW p, p \notin DOMAIN parents,
         NEW q \in Nat, CreateParent(t, p, q)
  PROVE  /\ Changes(t, p) /\ children' = children /\ fills' = fills
         /\ DOMAIN parents' = DOMAIN parents \cup {p}
         /\ \A x \in DOMAIN parents : parents'[x] = parents[x]
         /\ parents'[p].filled = 0 /\ parents'[p].quantity = q /\ parents'[p].status = "New"
<1> DEFINE parent == [quantity |-> q, filled |-> 0, remaining |-> q, status |-> "New",
                      child_ids |-> {}]
<1>1. /\ parents' = Put(parents, p, parent) /\ children' = children /\ fills' = fills
      /\ Callback(t, <<SaveParent(p, parent)>>)
  BY DEF CreateParent
<1>2. ParentTyped(parent) /\ parent.status = "New" /\ parent.filled = 0 /\ parent.quantity = q
  BY DEF ParentTyped
<1> HIDE DEF parent
<1>3. /\ DOMAIN parents' = DOMAIN parents \cup {p} /\ parents'[p] = parent
      /\ \A x \in DOMAIN parents : parents'[x] = parents[x]
  BY <1>1 DEF Put
<1> DEFINE list == <<SaveParent(p, parents'[p])>>
<1>4. Carries(p, list) /\ Pends(list, "parents", p)
  BY ParentCarried
<1>5. Callback(t, list)
  BY <1>1, <1>3
<1> HIDE DEF list
<1>6. Queues(t, IF callback_set THEN list ELSE <<>>)
  BY <1>4, <1>5, CallbackQueues DEF Carries
<1>7. /\ DOMAIN writes' = Thread /\ \A u \in Thread \ {t} : writes'[u] = writes[u]
      /\ Carries(p, writes'[t]) /\ (callback_set => writes'[t] = list)
  BY <1>4, <1>6, NothingCarried DEF Queues
<1>8. callback_set => Covers(p, writes'[t])
  BY <1>1, <1>4, <1>7 DEF Covers
<1>9. Typed(parents', children', fills')
  BY <1>1, <1>2, <1>3 DEF Typed
<1>10. \A y \in DOMAIN children : children[y].filled \in Nat /\ children[y].parent \in DOMAIN parents
  BY DEF Typed, ChildTyped, Family
<1>11. Complete(parents', children')
  BY <1>1, <1>3, <1>10 DEF Complete
<1>12. OrderOnly(p)
  BY <1>1, <1>3 DEF OrderOnly
<1>13. \A y \in DOMAIN children : children[y].filled >= children[y].filled
  BY <1>10
<1>14. Stays(t, p)
  BY <1>1, <1>3, <1>13 DEF Stays
<1> QED  BY <1>1, <1>2, <1>3, <1>7, <1>8, <1>9, <1>11, <1>12, <1>14 DEF Changes, Ready

(* cancel_parent, with the row of the job behind it.                       *)
Cancels(p) ==
  /\ ~Terminal(parents[p].status) /\ fills' = fills
  /\ DOMAIN children' = DOMAIN children /\ IsTable(children')
  /\ \A y \in DOMAIN children :
       /\ children'[y].parent = children[y].parent /\ children'[y].filled = children[y].filled
       /\ children'[y].remaining = children[y].remaining
       /\ children'[y].status \in {children[y].status, "Cancelled"}
       /\ Terminal(children[y].status) \/ y \notin parents[p].child_ids => children'[y] = children[y]
       /\ y \in parents[p].child_ids => Terminal(children'[y].status)
  /\ DOMAIN parents' = DOMAIN parents
  /\ \A x \in DOMAIN parents : x # p => parents'[x] = parents[x]
  /\ parents'[p].child_ids = parents[p].child_ids /\ parents'[p].status = "Cancelled"
  /\ parents'[p].quantity = parents[p].quantity /\ parents'[p].filled = parents[p].filled
  /\ parents'[p].remaining = parents[p].remaining

LEMMA CancelledChildren ==
  ASSUME Family(parents, children), NEW p \in DOMAIN parents
  PROVE  LET kids == ChildrenCancelled(p) IN
         /\ DOMAIN kids = DOMAIN children /\ IsTable(kids)
         /\ \A y \in DOMAIN children :
              /\ kids[y].parent = children[y].parent /\ kids[y].filled = children[y].filled
              /\ kids[y].remaining = children[y].remaining
              /\ kids[y].status \in {children[y].status, "Cancelled"}
              /\ Terminal(children[y].status) \/ y \notin parents[p].child_ids =>
                   kids[y] = children[y]
              /\ y \in parents[p].child_ids => Terminal(kids[y].status)
<1> DEFINE kids == ChildrenCancelled(p)
<1>1. DOMAIN kids = DOMAIN children /\ IsTable(kids)
  BY DEF ChildrenCancelled, IsTable
<1>2. ASSUME NEW y \in DOMAIN children
      PROVE  /\ kids[y].parent = children[y].parent /\ kids[y].filled = children[y].filled
             /\ kids[y].remaining = children[y].remaining
             /\ kids[y].status \in {children[y].status, "Cancelled"}
             /\ Terminal(children[y].status) \/ y \notin parents[p].child_ids =>
                  kids[y] = children[y]
             /\ y \in parents[p].child_ids => Terminal(kids[y].status)
  <2> DEFINE k == children[y]
             l == [k EXCEPT !.status = "Cancelled"]
  <2>1. kids[y] = IF y \in parents[p].child_ids /\ ~Terminal(k.status) THEN l ELSE k
    BY DEF ChildrenCancelled
  <2>2. IsChild(k)
    BY DEF Family
  <2> HIDE DEF k
  <2>3. l = [parent |-> k.parent, quantity |-> k.quantity, filled |-> k.filled,
             remaining |-> k.remaining, status |-> "Cancelled"]
    BY <2>2 DEF IsChild
  <2> HIDE DEF l, kids
  <2> QED  BY <2>1, <2>3 DEF Terminal, k
<1> HIDE DEF kids
<1> QED  BY <1>1, <1>2 DEF kids

LEMMA CancelMemory ==
  ASSUME Family(parents, children), Typed(parents, children, fills), Complete(parents, children),
         NEW p \in DOMAIN parents, Cancels(p)
  PROVE  /\ Typed(parents', children', fills') /\ Complete(parents', children')
         /\ OrderOnly(p) /\ Stays(p, p)
<1>1. /\ ~Terminal(parents[p].status) /\ fills' = fills
      /\ DOMAIN children' = DOMAIN children /\ IsTable(children')
      /\ DOMAIN parents' = DOMAIN parents
      /\ \A x \in DOMAIN parents : x # p => parents'[x] = parents[x]
      /\ parents'[p].child_ids = parents[p].child_ids /\ parents'[p].status = "Cancelled"
      /\ parents'[p].quantity = parents[p].quantity /\ parents'[p].filled = parents[p].filled
      /\ parents'[p].remaining = parents[p].remaining
  BY DEF Cancels
<1>2. \A y \in DOMAIN children :
       /\ children'[y].parent = children[y].parent /\ children'[y].filled = children[y].filled
       /\ children'[y].remaining = children[y].remaining
       /\ children'[y].status \in {children[y].status, "Cancelled"}
       /\ Terminal(children[y].status) \/ y \notin parents[p].child_ids => children'[y] = children[y]
       /\ y \in parents[p].child_ids => Terminal(children'[y].status)
  BY DEF Cancels
<1>3. \A y \in DOMAIN children : /\ ChildTyped(children[y]) /\ children[y].filled \in Nat
                                 /\ children[y].parent \in DOMAIN parents
  BY DEF Typed, ChildTyped, Family
<1>4. Typed(parents', children', fills')
  <2>1. ParentTyped(parents'[p])
    BY <1>1 DEF Typed, ParentTyped
  <2>2. \A y \in DOMAIN children : ChildTyped(children'[y])
    BY <1>2, <1>3 DEF ChildTyped, Status
  <2> QED  BY <1>1, <2>1, <2>2 DEF Typed
<1>5. \A x \in DOMAIN parents : parents'[x].child_ids = parents[x].child_ids
  BY <1>1
<1>6. Complete(parents', children')
  BY <1>1, <1>2, <1>3, <1>5 DEF Complete
<1>7. \A y \in DOMAIN children : y \in parents[p].child_ids <=> children[y].parent = p
  BY DEF Complete, Family
<1>8. OrderOnly(p)
  BY <1>1, <1>2, <1>7 DEF OrderOnly
<1>9. \A y \in DOMAIN children : children'[y].filled >= children[y].filled
  BY <1>2, <1>3
<1>10. \A y \in DOMAIN children' : children'[y].parent = p => Terminal(children'[y].status)
  BY <1>1, <1>2, <1>7
<1>11. Stays(p, p)
  <2>1. \A x \in DOMAIN parents :
          parents[x].status = "Cancelled" => parents'[x].status = "Cancelled"
    BY <1>1
  <2>2. \A y \in DOMAIN children :
          Terminal(children[y].status) => children'[y] = children[y]
    BY <1>2
  <2> QED  BY <1>1, <1>9, <1>10, <2>1, <2>2 DEF Stays
<1> QED  BY <1>4, <1>6, <1>8, <1>11

LEMMA CancelChanges ==
  ASSUME Family(parents, children), Typed(parents, children, fills), Complete(parents, children),
         DOMAIN writes = Thread, NEW p \in DOMAIN parents, p \in Thread, Ready(p),
         NEW job, p \in DOMAIN jobs', job.filled = jobs'[p].filled,
         NEW after \in {<<>>, <<SaveJob(p, job)>>}, CancelParent(p, p, after)
  PROVE  Changes(p, p) /\ (UNCHANGED memory \/ Cancels(p))
<1> DEFINE kids == ChildrenCancelled(p)
           r == parents[p]
           parent == [r EXCEPT !.status = "Cancelled"]
           S == r.child_ids
           n == Cardinality(S)
           ordered == Ascending(S)
           rows == [c \in S |-> SaveChild(c, kids[c])]
           list == <<SaveParent(p, parent)>> \o [i \in DOMAIN ordered |-> rows[ordered[i]]]
<1>0. writes[p] = <<>>
  BY DEF Ready
<1>1. CASE Terminal(r.status)
  <2>1. UNCHANGED memory /\ writes' = [writes EXCEPT ![p] = <<>> \o after]
    BY <1>0, <1>1 DEF CancelParent
  <2> DEFINE new == <<>> \o after
  <2>2. Carries(p, new)
    <3>1. Carries(p, <<>>)
      BY NothingCarried
    <3>2. fills' = fills
      BY <2>1 DEF memory
    <3> QED  BY <3>1, <3>2, JobBehind DEF Carries
  <2> HIDE DEF new
  <2>3. Queues(p, new)
    BY <2>1 DEF Queues, new
  <2> QED  BY <2>1, <2>2, <2>3, SameChanges
<1>2. CASE ~Terminal(r.status)
  <2>1. /\ parents' = [parents EXCEPT ![p] = parent] /\ children' = kids /\ fills' = fills
        /\ writes' = [writes EXCEPT ![p] = @ \o (IF callback_set THEN list ELSE <<>>) \o after]
    BY <1>2 DEF CancelParent
  <2>2. IsParent(r) /\ S \subseteq DOMAIN children /\ S \subseteq 1 .. MaxChildren
    BY DEF Family
  <2>3. parent = [quantity |-> r.quantity, filled |-> r.filled, remaining |-> r.remaining,
                  status |-> "Cancelled", child_ids |-> S]
    <3> HIDE DEF r
    <3> QED  BY <2>2 DEF IsParent
  <2> HIDE DEF parent
  <2>4. /\ DOMAIN parents' = DOMAIN parents /\ parents'[p] = parent
        /\ \A x \in DOMAIN parents : x # p => parents'[x] = parents[x]
    BY <2>1
  <2>5. /\ DOMAIN kids = DOMAIN children /\ IsTable(kids)
        /\ \A y \in DOMAIN children :
             /\ kids[y].parent = children[y].parent /\ kids[y].filled = children[y].filled
             /\ kids[y].remaining = children[y].remaining
             /\ kids[y].status \in {children[y].status, "Cancelled"}
             /\ Terminal(children[y].status) \/ y \notin parents[p].child_ids =>
                  kids[y] = children[y]
             /\ y \in parents[p].child_ids => Terminal(kids[y].status)
    BY CancelledChildren
  <2> HIDE DEF kids
  <2>6. Cancels(p)
    BY <1>2, <2>1, <2>3, <2>4, <2>5 DEF Cancels
  <2>7. /\ Typed(parents', children', fills') /\ Complete(parents', children')
        /\ OrderOnly(p) /\ Stays(p, p)
    BY <2>6, CancelMemory
  <2>8. n \in Nat /\ ordered \in [1 .. n -> S] /\ \A c \in S : \E i \in 1 .. n : ordered[i] = c
    <3>1. MaxChildren \in Nat
      BY OmsAssumption
    <3> HIDE DEF S
    <3>2. S \in SUBSET (1 .. MaxChildren)
      BY <2>2
    <3> QED  BY <3>1, <3>2, AscendingFacts, AscendingOnto
  <2> HIDE DEF n, ordered
  <2>9. list = CancelList(p, parents'[p], children', n, ordered)
    <3>1. DOMAIN ordered = 1 .. n /\ \A i \in 1 .. n : ordered[i] \in S
      BY <2>8
    <3> HIDE DEF S
    <3>2. [i \in DOMAIN ordered |-> rows[ordered[i]]]
            = [i \in 1 .. n |-> SaveChild(ordered[i], kids[ordered[i]])]
      BY <3>1
    <3> QED  BY <2>1, <2>4, <3>2 DEF CancelList
  <2> HIDE DEF list
  <2>10. S \subseteq DOMAIN children' /\ \A c \in S : children'[c].parent = p
    BY <2>1, <2>2, <2>5 DEF Family
  <2>11. /\ Carries(p, list) /\ Pends(list, "parents", p)
         /\ \A i \in 1 .. n : Pends(list, "children", ordered[i])
    <3> HIDE DEF S
    <3> QED  BY <2>8, <2>9, <2>10, CancelCarried
  <2> DEFINE some == IF callback_set THEN list ELSE <<>>
             new == some \o after
  <2>12. Carries(p, some)
    BY <2>11, NothingCarried
  <2>13. IsList(some) /\ \A i \in 1 .. Len(some) : Carried(p, some, i)
    BY <2>12 DEF Carries
  <2>14. callback_set => some = list
    OBVIOUS
  <2> HIDE DEF some
  <2>15. /\ Carries(p, new)
         /\ \A table, id : Pends(some, table, id) => Pends(new, table, id)
    BY <2>1, <2>13, JobBehind
  <2>16. Queues(p, new)
    <3>1. <<>> \o some = some
      BY <2>13 DEF IsList
    <3>2. writes' = [writes EXCEPT ![p] = (<<>> \o some) \o after]
      BY <1>0, <2>1 DEF some
    <3>3. writes' = [writes EXCEPT ![p] = new]
      BY <3>1, <3>2
    <3> HIDE DEF new
    <3> QED  BY <3>3 DEF Queues
  <2> HIDE DEF new
  <2>17. callback_set => Covers(p, new)
    <3> SUFFICES ASSUME callback_set PROVE Covers(p, new)
      OBVIOUS
    <3>1. \A y \in DOMAIN children' :
            (y \in DOMAIN children /\ children'[y] = children[y]) \/ Pends(new, "children", y)
      <4> TAKE y \in DOMAIN children'
      <4>1. CASE y \notin S
        BY <2>1, <2>5, <4>1
      <4>2. CASE y \in S
        BY <2>8, <2>11, <2>14, <2>15, <4>2
      <4> QED  BY <4>1, <4>2
    <3> QED  BY <2>1, <2>11, <2>14, <2>15, <3>1 DEF Covers
  <2>18. Changes(p, p)
    BY <1>0, <2>7, <2>15, <2>16, <2>17 DEF Changes, Queues
  <2> QED  BY <2>6, <2>18
<1> QED  BY <1>1, <1>2

-----------------------------------------------------------------------------
(* The steps of a job.                                                     *)

JobTyped(j) ==
  /\ {"pc", "child", "filled", "slice_filled"} \subseteq DOMAIN j
  /\ j.filled \in Nat /\ j.slice_filled \in Nat

(* The leg a job works on is a child of its order.                         *)
LegsOwn(js, ks) == \A p \in DOMAIN js : js[p].pc \in Leg => ks[js[p].child].parent = p

(* What a job has counted as filled.                                       *)
Counted(j) == j.filled + j.slice_filled

(* What the job has done, and where it is then.                            *)
Worked(p, job) ==
  \/ /\ UNCHANGED memory \/ Cancels(p)
     /\ Counted(job) <= Counted(jobs[p])
     /\ job.pc \in Leg => UNCHANGED memory /\ jobs[p].pc \in Leg /\ job.child = jobs[p].child
  \/ \E q \in Quantity :
       Opened(p, p, job.child, q) /\ job.child \in 1 .. MaxChildren /\ Counted(job) = Counted(jobs[p])
  \/ /\ jobs[p].pc \in Leg /\ job.child = jobs[p].child /\ Counted(job) = Counted(jobs[p])
     /\ \E status \in Status : StatusUpdated(p, p, job.child, status)
  \/ /\ jobs[p].pc \in Leg /\ job.child = jobs[p].child
     /\ \E q \in Quantity : \E f :
          FillUpdated(p, p, job.child, q, f) /\ Counted(job) = Counted(jobs[p]) + q

Steps(p, job) ==
  /\ Moves(p, job) /\ JobTyped(job) /\ jobs[p].pc # "starting"
  /\ Worked(p, job) /\ Changes(p, p)
  /\ job.pc \in Leg => children'[job.child].parent = p

LEMMA EndedTyped ==
  ASSUME NEW j, JobTyped(j), NEW status
  PROVE  LET job == Ended(j, status) IN
         JobTyped(job) /\ job.pc \notin Leg /\ Counted(job) <= Counted(j) /\ job.filled = j.filled
<1> DEFINE job == Ended(j, status)
<1>1. {"pc", "child", "filled", "slice_filled"} \subseteq DOMAIN j
  BY DEF JobTyped
<1>2. /\ DOMAIN job = DOMAIN j /\ job.pc = "done" /\ job.filled = j.filled
      /\ job.slice_filled = 0
  BY <1>1 DEF Ended
<1> HIDE DEF job
<1>3. JobTyped(job) /\ job.pc \notin Leg
  BY <1>2 DEF JobTyped, Leg
<1>4. Counted(job) <= Counted(j)
  BY <1>2 DEF JobTyped, Counted
<1> QED  BY <1>2, <1>3, <1>4 DEF job

LEMMA JobDoesSteps ==
  ASSUME IInv, Typed(parents, children, fills), Complete(parents, children),
         LegsOwn(jobs, children), NEW p \in DOMAIN jobs, JobTyped(jobs[p]), JobDoes(p)
  PROVE  \E job : Steps(p, job)
<1> DEFINE j == jobs[p]
<1>1. /\ Family(parents, children) /\ DOMAIN writes = Thread
      /\ p \in DOMAIN parents /\ p \in Thread
      /\ j.pc \in Leg => j.child \in DOMAIN children /\ children[j.child].parent = p
      /\ {"pc", "child", "filled", "slice_filled"} \subseteq DOMAIN j
      /\ j.filled \in Nat /\ j.slice_filled \in Nat
  BY OmsAssumption DEF IInv, Working, Family, Thread, Leg, Queued, LegsOwn, JobTyped
<1>2. Ready(p) /\ j.pc # "starting"
  BY DEF JobDoes, SeeCancel, BecomeCancelled, BeginSlice, SkipSlice, RouteSlice, OpenLeg,
         RejectLeg, WorkLeg, FillLeg, EndLeg, EndSlice, Finish, Fail, Threw, BecomeFailed, At
<1>3. ASSUME NEW job, Goes(p, job), UNCHANGED memory,
             writes' = writes \/ writes' = [writes EXCEPT ![p] = <<SaveJob(p, job)>>],
             JobTyped(job), Counted(job) <= Counted(j),
             job.pc \in Leg => j.pc \in Leg /\ job.child = j.child
      PROVE  Steps(p, job)
  <2>1. Moves(p, job)
    BY <1>3, GoesMoves
  <2>2. Worked(p, job)
    BY <1>3 DEF Worked
  <2>3. p \in DOMAIN jobs' /\ job.filled = jobs'[p].filled
    BY <2>1 DEF Moves
  <2>4. PICK new : Queues(p, new) /\ Carries(p, new)
    <3>1. CASE writes' = writes
      <4>1. Queues(p, <<>>) /\ Carries(p, <<>>)
        BY <1>1, <1>2, <3>1, QuietQueues, NothingCarried
      <4> QED  BY <4>1
    <3>2. CASE writes' = [writes EXCEPT ![p] = <<SaveJob(p, job)>>]
      <4> DEFINE l == <<SaveJob(p, job)>>
      <4>1. Carries(p, l)
        BY <1>3, <2>3, JobCarried DEF memory
      <4>2. writes' = [writes EXCEPT ![p] = l]
        BY <3>2
      <4> HIDE DEF l
      <4>3. Queues(p, l)
        BY <1>1, <4>2 DEF Queues
      <4> QED  BY <4>1, <4>3
    <3> QED  BY <1>3, <3>1, <3>2
  <2>5. Changes(p, p)
    BY <1>1, <1>2, <1>3, <2>4, SameChanges
  <2>6. job.pc \in Leg => children'[job.child].parent = p
    BY <1>1, <1>3 DEF memory
  <2> QED  BY <1>2, <1>3, <2>1, <2>2, <2>5, <2>6 DEF Steps
<1>4. ASSUME NEW job, Goes(p, job), NEW after \in {<<>>, <<SaveJob(p, job)>>},
             CancelParent(p, p, after), JobTyped(job), Counted(job) <= Counted(j),
             job.pc \notin Leg
      PROVE  Steps(p, job)
  <2>1. Moves(p, job)
    BY <1>4, GoesMoves
  <2>2. p \in DOMAIN jobs' /\ job.filled = jobs'[p].filled
    BY <2>1 DEF Moves
  <2>3. Changes(p, p) /\ (UNCHANGED memory \/ Cancels(p))
    BY <1>1, <1>2, <1>4, <2>2, CancelChanges
  <2>4. Worked(p, job)
    BY <1>4, <2>3 DEF Worked
  <2> QED  BY <1>2, <1>4, <2>1, <2>3, <2>4 DEF Steps
<1>5. ASSUME NEW job, Goes(p, job), NEW status \in Status, SetChildStatus(p, j.child, status),
             j.pc \in Leg, job.child = j.child, JobTyped(job), Counted(job) = Counted(j)
      PROVE  Steps(p, job)
  <2>1. Moves(p, job)
    BY <1>5, GoesMoves
  <2>2. j.child \in DOMAIN children /\ p = children[j.child].parent
    BY <1>1, <1>5
  <2>3. Changes(p, p)
    <3> HIDE DEF j
    <3> QED  BY <1>1, <1>2, <1>5, <2>2, StatusChanges
  <2>4. UNCHANGED <<memory, writes>> \/ StatusUpdated(p, p, j.child, status)
    <3> HIDE DEF j
    <3> QED  BY <1>1, <1>5, <2>2, StatusUpdates
  <2>5. Counted(job) <= Counted(j)
    BY <1>1, <1>5 DEF Counted
  <2>6. Worked(p, job)
    <3>1. CASE UNCHANGED <<memory, writes>>
      BY <1>5, <2>5, <3>1 DEF Worked
    <3>2. CASE StatusUpdated(p, p, j.child, status)
      BY <1>5, <3>2 DEF Worked
    <3> QED  BY <2>4, <3>1, <3>2
  <2>7. children'[job.child].parent = p
    BY <1>5, <2>2, <2>3 DEF Changes, OrderOnly
  <2> QED  BY <1>2, <1>5, <2>1, <2>3, <2>6, <2>7 DEF Steps
<1>6. \A job : job.filled = j.filled /\ job.slice_filled = j.slice_filled =>
        Counted(job) = Counted(j) /\ Counted(job) <= Counted(j)
  BY <1>1 DEF Counted
<1>7. CASE SeeCancel(p)
  <2> DEFINE job == [j EXCEPT !.pc = "cancelled"]
             none == <<>>
  <2>1. CancelParent(p, p, none) /\ Goes(p, job)
    BY <1>7 DEF SeeCancel
  <2>2. JobTyped(job) /\ job.pc \notin Leg /\ job.filled = j.filled /\ job.slice_filled = j.slice_filled
    BY <1>1 DEF Leg, JobTyped
  <2>3. none \in {<<>>, <<SaveJob(p, job)>>}
    OBVIOUS
  <2> HIDE DEF job, none
  <2> QED  BY <1>4, <1>6, <2>1, <2>2, <2>3
<1>8. CASE BecomeCancelled(p)
  <2> DEFINE job == Ended(j, "Cancelled")
  <2>1. UNCHANGED memory /\ writes' = writes /\ Goes(p, job)
    BY <1>8 DEF BecomeCancelled, Quiet
  <2>2. JobTyped(job) /\ job.pc \notin Leg /\ Counted(job) <= Counted(j)
    BY EndedTyped
  <2> HIDE DEF job
  <2> QED  BY <1>3, <2>1, <2>2
<1>9. CASE BeginSlice(p)
  <2> DEFINE job == [j EXCEPT !.pc = "wait"]
  <2>1. UNCHANGED memory /\ writes' = writes /\ Goes(p, job)
    BY <1>9 DEF BeginSlice, Quiet
  <2>2. JobTyped(job) /\ job.pc \notin Leg /\ job.filled = j.filled /\ job.slice_filled = j.slice_filled
    BY <1>1 DEF Leg, JobTyped
  <2> HIDE DEF job
  <2> QED  BY <1>3, <1>6, <2>1, <2>2
<1>10. CASE SkipSlice(p)
  <2> DEFINE job == [j EXCEPT !.pc = "top", !.index = @ + 1]
  <2>1. UNCHANGED memory /\ writes' = writes /\ Goes(p, job)
    BY <1>10 DEF SkipSlice, Quiet
  <2>2. JobTyped(job) /\ job.pc \notin Leg /\ job.filled = j.filled /\ job.slice_filled = j.slice_filled
    BY <1>1 DEF Leg, JobTyped
  <2> HIDE DEF job
  <2> QED  BY <1>3, <1>6, <2>1, <2>2
<1>11. CASE RouteSlice(p)
  <2> DEFINE job == [j EXCEPT !.pc = "route", !.planned = SliceQuantity(j)]
  <2>1. UNCHANGED memory /\ writes' = writes /\ Goes(p, job)
    BY <1>11 DEF RouteSlice, Quiet
  <2>2. JobTyped(job) /\ job.pc \notin Leg /\ job.filled = j.filled /\ job.slice_filled = j.slice_filled
    BY <1>1 DEF Leg, JobTyped
  <2> HIDE DEF job
  <2> QED  BY <1>3, <1>6, <2>1, <2>2
<1>12. CASE \E q \in Quantity : OpenLeg(p, q)
  <2>1. PICK q \in Quantity : OpenLeg(p, q)
    BY <1>12
  <2> DEFINE c == NextId(children)
             job == [j EXCEPT !.pc = "opened", !.child = c, !.planned = @ - q]
  <2>2. c <= MaxChildren /\ CreateChild(p, p, c, q) /\ Goes(p, job)
    BY <2>1 DEF OpenLeg
  <2>3. MaxChildren \in Nat /\ DOMAIN children \subseteq 1 .. MaxChildren /\ q \in Nat
    BY <1>1, OmsAssumption DEF Family, Quantity
  <2>4. c \in Nat \ {0} /\ c \notin DOMAIN children
    BY <2>3, NextIdFacts
  <2> HIDE DEF c
  <2>5. c \in 1 .. MaxChildren
    BY <2>2, <2>3, <2>4
  <2>6. Opened(p, p, c, q)
    BY <1>1, <2>2, <2>4, Opens
  <2>7. Changes(p, p)
    BY <1>1, <1>2, <2>3, <2>6, OpenChanges
  <2>8. JobTyped(job) /\ job.child = c /\ job.filled = j.filled /\ job.slice_filled = j.slice_filled
    BY <1>1 DEF JobTyped
  <2> HIDE DEF job
  <2>9. Moves(p, job)
    BY <2>2, GoesMoves
  <2>10. Worked(p, job)
    BY <1>6, <2>5, <2>6, <2>8 DEF Worked
  <2>11. children'[job.child].parent = p
    BY <2>6, <2>8 DEF Opened
  <2> QED  BY <1>2, <2>7, <2>8, <2>9, <2>10, <2>11 DEF Steps
<1>13. CASE RejectLeg(p)
  <2> DEFINE job == [j EXCEPT !.pc = "next leg"]
  <2>1. SetChildStatus(p, j.child, "Rejected") /\ Goes(p, job) /\ j.pc \in Leg
    BY <1>13 DEF RejectLeg, RejectChild, At, Leg
  <2>2. JobTyped(job) /\ job.child = j.child /\ job.filled = j.filled /\ job.slice_filled = j.slice_filled
    BY <1>1 DEF JobTyped
  <2>3. "Rejected" \in Status
    BY DEF Status
  <2> HIDE DEF job, j
  <2> QED  BY <1>5, <1>6, <2>1, <2>2, <2>3
<1>14. CASE WorkLeg(p)
  <2> DEFINE job == [j EXCEPT !.pc = "working"]
             s == IF children[j.child].filled > 0 THEN "PartiallyFilled" ELSE "Working"
  <2>1. SetChildStatus(p, j.child, s) /\ Goes(p, job) /\ j.pc \in Leg
    BY <1>14 DEF WorkLeg, MarkChildWorking, At, Leg
  <2>2. JobTyped(job) /\ job.child = j.child /\ job.filled = j.filled /\ job.slice_filled = j.slice_filled
    BY <1>1 DEF JobTyped
  <2>3. s \in Status
    BY DEF Status
  <2> HIDE DEF job, j, s
  <2> QED  BY <1>5, <1>6, <2>1, <2>2, <2>3
<1>15. CASE \E q \in Quantity : FillLeg(p, q)
  <2>1. PICK q \in Quantity : FillLeg(p, q)
    BY <1>15
  <2> DEFINE job == [j EXCEPT !.pc = "filled", !.slice_filled = @ + q]
             c == j.child
  <2>2. RecordFill(p, c, q) /\ Goes(p, job) /\ j.pc \in Leg
    BY <2>1 DEF FillLeg, At, Leg
  <2>3. q \in Nat \ {0}
    BY OmsAssumption DEF Quantity
  <2>4. c \in DOMAIN children /\ p = children[c].parent
    BY <1>1, <2>2
  <2>5. /\ JobTyped(job) /\ job.child = c /\ job.filled = j.filled
        /\ job.slice_filled = j.slice_filled + q
    BY <1>1, <2>3 DEF JobTyped
  <2>6. Counted(job) = Counted(j) + q
    BY <1>1, <2>3, <2>5 DEF Counted
  <2> HIDE DEF job, c
  <2>7. PICK f : FillUpdated(p, p, c, q, f)
    <3>1. FillTable(fills)
      BY DEF Typed
    <3> QED  BY <1>1, <2>2, <2>4, <3>1, FillUpdates
  <2>8. Changes(p, p)
    BY <1>1, <1>2, <2>3, <2>4, <2>7, FillChanges
  <2>9. Moves(p, job)
    BY <2>2, GoesMoves
  <2>10. Worked(p, job)
    <3>1. job.child = j.child /\ FillUpdated(p, p, job.child, q, f)
      BY <2>5, <2>7 DEF c
    <3> QED  BY <2>2, <2>6, <3>1 DEF Worked
  <2>11. children'[job.child].parent = p
    BY <2>4, <2>5, <2>8 DEF Changes, OrderOnly
  <2> QED  BY <1>2, <2>5, <2>8, <2>9, <2>10, <2>11 DEF Steps
<1>16. CASE EndLeg(p)
  <2> DEFINE job == [j EXCEPT !.pc = "next leg"]
  <2>1. SetChildStatus(p, j.child, "Cancelled") /\ Goes(p, job) /\ j.pc \in Leg
    BY <1>16 DEF EndLeg, CancelChild, At, Leg
  <2>2. JobTyped(job) /\ job.child = j.child /\ job.filled = j.filled /\ job.slice_filled = j.slice_filled
    BY <1>1 DEF JobTyped
  <2>3. "Cancelled" \in Status
    BY DEF Status
  <2> HIDE DEF job, j
  <2> QED  BY <1>5, <1>6, <2>1, <2>2, <2>3
<1>17. CASE EndSlice(p)
  <2> DEFINE job == [j EXCEPT !.filled = @ + j.slice_filled, !.slice = j.index + 1,
                              !.index = @ + 1, !.pc = "top", !.child = 0,
                              !.planned = 0, !.slice_filled = 0]
  <2>1. /\ Goes(p, job) /\ UNCHANGED memory
        /\ writes' = [writes EXCEPT ![p] = <<SaveJob(p, job)>>]
    BY <1>17 DEF EndSlice
  <2>2. /\ DOMAIN job = DOMAIN j /\ job.pc = "top" /\ job.filled = j.filled + j.slice_filled
        /\ job.slice_filled = 0
    BY <1>1
  <2> HIDE DEF job
  <2>3. JobTyped(job) /\ job.pc \notin Leg
    BY <1>1, <2>2 DEF Leg, JobTyped
  <2>4. Counted(job) <= Counted(j)
    BY <1>1, <2>2 DEF Counted
  <2> QED  BY <1>3, <2>1, <2>3, <2>4
<1>18. CASE Finish(p)
  <2> DEFINE status == IF RemainingOf(j) > 0 /\ j.cancel THEN "Cancelled" ELSE "Completed"
             job == Ended(j, status)
  <2>1. /\ Goes(p, job)
        /\ IF RemainingOf(j) = 0
           THEN UNCHANGED memory /\ writes' = [writes EXCEPT ![p] = <<SaveJob(p, job)>>]
           ELSE CancelParent(p, p, <<SaveJob(p, job)>>)
    BY <1>18 DEF Finish
  <2> HIDE DEF status
  <2>2. JobTyped(job) /\ job.pc \notin Leg /\ Counted(job) <= Counted(j)
    BY EndedTyped
  <2> HIDE DEF job
  <2>3. CASE RemainingOf(j) = 0
    BY <1>3, <2>1, <2>2, <2>3
  <2>4. CASE RemainingOf(j) # 0
    <3> DEFINE l == <<SaveJob(p, job)>>
    <3>1. l \in {<<>>, <<SaveJob(p, job)>>} /\ CancelParent(p, p, l)
      BY <2>1, <2>4
    <3> HIDE DEF l
    <3> QED  BY <1>4, <2>1, <2>2, <3>1
  <2> QED  BY <2>3, <2>4
<1>19. CASE Fail(p)
  <2> DEFINE job == [j EXCEPT !.pc = "failing"]
             none == <<>>
  <2>1. CancelParent(p, p, none) /\ Goes(p, job)
    BY <1>19 DEF Fail
  <2>2. JobTyped(job) /\ job.pc \notin Leg /\ job.filled = j.filled /\ job.slice_filled = j.slice_filled
    BY <1>1 DEF Leg, JobTyped
  <2>3. none \in {<<>>, <<SaveJob(p, job)>>}
    OBVIOUS
  <2> HIDE DEF job, none
  <2> QED  BY <1>4, <1>6, <2>1, <2>2, <2>3
<1>20. CASE BecomeFailed(p)
  <2> DEFINE job == Ended(j, "Failed")
  <2>1. /\ Goes(p, job) /\ UNCHANGED memory
        /\ writes' = [writes EXCEPT ![p] = <<SaveJob(p, job)>>]
    BY <1>20 DEF BecomeFailed
  <2>2. JobTyped(job) /\ job.pc \notin Leg /\ Counted(job) <= Counted(j)
    BY EndedTyped
  <2> HIDE DEF job
  <2> QED  BY <1>3, <2>1, <2>2
<1> QED
  BY <1>7, <1>8, <1>9, <1>10, <1>11, <1>12, <1>13, <1>14, <1>15, <1>16, <1>17, <1>18,
     <1>19, <1>20 DEF JobDoes


-----------------------------------------------------------------------------
(* The rows in memory, in the tables and on the way to them, crashes or    *)
(* not.                                                                    *)

PendTyped(t, w, fs, js) ==
  /\ w.table = "parents" => ParentTyped(w.row)
  /\ w.table = "children" => ChildTyped(w.row)
  /\ w.table = "jobs" => "filled" \in DOMAIN w.row /\ w.row.filled \in Nat
  /\ w.table = "fills" =>
       w.id \in DOMAIN fs /\ w.row = fs[w.id] /\ w.row.parent = t /\ t \in DOMAIN js
  /\ w.table = "positions" => w.id \in DOMAIN fs

Pending(ws, fs, js) ==
  \A t \in Thread : \A i \in 1 .. Len(ws[t]) : PendTyped(t, ws[t][i], fs, js)

JobRows(rows) == \A p \in DOMAIN rows : "filled" \in DOMAIN rows[p] /\ rows[p].filled \in Nat

(* A fill on record is in memory.                                          *)
FillsKept(rows, fs) == \A f \in DOMAIN rows : f \in DOMAIN fs /\ fs[f] = rows[f]

TInv ==
  /\ Typed(parents, children, fills) /\ Complete(parents, children)
  /\ Typed(db["parents"], db["children"], db["fills"]) /\ JobRows(db["jobs"])
  /\ Pending(writes, fills, jobs)
  /\ (\A p \in DOMAIN jobs : JobTyped(jobs[p])) /\ LegsOwn(jobs, children)
  /\ phase = "down" => DOMAIN jobs = {} /\ \A t \in Thread : writes[t] = <<>>
  /\ phase # "down" => FillsKept(db["fills"], fills)

-----------------------------------------------------------------------------
(* The kinds of steps.                                                     *)

SameJobs ==
  /\ DOMAIN jobs \subseteq DOMAIN jobs'
  /\ \A x \in DOMAIN jobs' :
       /\ JobTyped(jobs'[x])
       /\ \/ /\ x \in DOMAIN jobs /\ Counted(jobs'[x]) = Counted(jobs[x])
             /\ jobs'[x].pc \in Leg => jobs[x].pc \in Leg /\ jobs'[x].child = jobs[x].child
          \/ Counted(jobs'[x]) = 0 /\ jobs'[x].pc \notin Leg

Frame == db' = db /\ positions' = positions /\ callback_set' = callback_set /\ phase' = phase

(* A step of the thread of job p.                                          *)
JobActs(p, job) ==
  /\ p \in DOMAIN jobs /\ Steps(p, job) /\ Frame /\ phase # "down"
  /\ ~early' => ~early /\ (callback_set \/ UNCHANGED memory)
  /\ api_cancelled' = api_cancelled

(* The list has no row of an order.                                        *)
NoOrder(list) ==
  \A i \in 1 .. Len(list) : list[i].table \notin {"parents", "children", "fills", "positions"}

(* A step of the API, about order p.                                       *)
ApiActs(p) ==
  /\ Changes(Api, p) /\ SameJobs /\ Frame /\ phase = "serving" /\ callback_set
  /\ early' = early
  /\ \A i \in 1 .. Len(writes'[Api]) : writes'[Api][i].table = "jobs" => Counted(jobs'[p]) = 0
  /\ ~api_cancelled' =>
       /\ ~api_cancelled
       /\ \/ UNCHANGED memory /\ NoOrder(writes'[Api])
          \/ /\ p \notin DOMAIN parents /\ jobs' = jobs /\ children' = children /\ fills' = fills
             /\ \A x \in DOMAIN parents : parents'[x] = parents[x]

LEMMA JobStepActs ==
  ASSUME IInv, TInv, NEW p \in DOMAIN jobs, JobStep(p)
  PROVE  \E job : JobActs(p, job)
<1>1. /\ JobDoes(p) /\ Frame /\ api_cancelled' = api_cancelled
      /\ early' = (early \/ (~callback_set /\ memory' # memory))
  BY DEF JobStep, JobDoes, Frame
<1>2. PICK job : Steps(p, job)
  <2>1. /\ Typed(parents, children, fills) /\ Complete(parents, children)
        /\ LegsOwn(jobs, children) /\ JobTyped(jobs[p])
    BY DEF TInv
  <2> QED  BY <1>1, <2>1, JobDoesSteps
<1>3. phase # "down"
  BY DEF TInv
<1>4. ~early' => ~early /\ (callback_set \/ memory' = memory)
  BY <1>1
<1> QED  BY <1>1, <1>2, <1>3, <1>4 DEF JobActs

LEMMA SameJobsKept ==
  ASSUME TInv, jobs' = jobs
  PROVE  SameJobs
BY DEF TInv, SameJobs

LEMMA SubmitActs ==
  ASSUME IInv, TInv, NEW r \in Requests, Submit(r)
  PROVE  ApiActs(NextId(parents))
<1> DEFINE p == NextId(parents)
           q == r.quantity
<1>1. /\ ApiReady("idle") /\ CreateParent(Api, p, q) /\ Frame
      /\ jobs' = jobs /\ early' = early /\ api_cancelled' = api_cancelled
  BY DEF Submit, Frame
<1>2. /\ Family(parents, children) /\ DOMAIN writes = Thread
      /\ phase = "serving" /\ callback_set /\ Ready(Api)
      /\ Typed(parents, children, fills) /\ Complete(parents, children)
  BY <1>1 DEF IInv, TInv, ApiReady, Queued
<1>3. MaxParents \in Nat /\ DOMAIN parents \subseteq 1 .. MaxParents /\ Api \in Thread
  BY <1>2, OmsAssumption DEF Family, Api, Thread
<1>4. p \notin DOMAIN parents
  BY <1>3, NextIdFacts
<1>5. q \in Nat
  BY AlgoAssumption, OmsAssumption DEF Quantity
<1> HIDE DEF p, q
<1>6. /\ Changes(Api, p) /\ children' = children /\ fills' = fills
      /\ \A x \in DOMAIN parents : parents'[x] = parents[x]
  BY <1>1, <1>2, <1>3, <1>4, <1>5, ParentChanges
<1>7. SameJobs
  BY <1>1, SameJobsKept
<1>8. \A i \in 1 .. Len(writes'[Api]) : writes'[Api][i].table # "jobs"
  <2>1. p \notin DOMAIN jobs'
    BY <1>1, <1>4 DEF IInv, Working
  <2> QED  BY <1>6, <2>1 DEF Changes, Carries, Carried
<1>9. ApiActs(p)
  BY <1>1, <1>2, <1>4, <1>6, <1>7, <1>8 DEF ApiActs
<1> QED  BY <1>9 DEF p

LEMMA OneRow ==
  ASSUME NEW w, w.table \notin {"parents", "children", "fills", "positions"}
  PROVE  NoOrder(<<w>>)
<1>1. Len(<<w>>) = 1 /\ <<w>>[1] = w
  OBVIOUS
<1>2. \A i \in 1 .. 1 : i = 1
  OBVIOUS
<1> QED  BY <1>1, <1>2 DEF NoOrder

LEMMA EnterJobActs ==
  ASSUME IInv, TInv, EnterJob
  PROVE  ApiActs(api.parent)
<1> DEFINE p == api.parent
           job == Job(api.request, 0, 0, "starting")
           w == SaveJob(p, job)
           list == <<w>>
<1>1. /\ ApiReady("created") /\ jobs' = Put(jobs, p, job)
      /\ writes' = [writes EXCEPT ![Api] = list] /\ UNCHANGED memory /\ Frame
      /\ early' = early /\ api_cancelled' = api_cancelled
  BY DEF EnterJob, Frame
<1>2. /\ Family(parents, children) /\ DOMAIN writes = Thread
      /\ phase = "serving" /\ callback_set /\ Ready(Api) /\ p \in DOMAIN parents
      /\ Typed(parents, children, fills) /\ Complete(parents, children)
  BY <1>1 DEF IInv, TInv, ApiReady, Queued, Submitting
<1>3. Api \in Thread
  BY OmsAssumption DEF Api, Thread
<1>4. JobTyped(job) /\ Counted(job) = 0 /\ job.pc \notin Leg /\ job.filled = 0
  BY DEF JobTyped, Counted, Job, Leg
<1>5. w.table = "jobs"
  BY DEF SaveJob, Write
<1> HIDE DEF p, job
<1>6. /\ DOMAIN jobs' = DOMAIN jobs \cup {p} /\ jobs'[p] = job
      /\ \A x \in DOMAIN jobs : x # p => jobs'[x] = jobs[x]
  BY <1>1 DEF Put
<1>7. SameJobs
  BY <1>4, <1>6 DEF SameJobs, TInv
<1>8. Carries(p, list)
  BY <1>1, <1>6, JobCarried DEF memory
<1>9. NoOrder(list)
  <2> HIDE DEF w
  <2> QED  BY <1>5, OneRow
<1> HIDE DEF list, w
<1>10. Queues(Api, list)
  BY <1>1, <1>2, <1>3 DEF Queues
<1>11. Changes(Api, p)
  BY <1>1, <1>2, <1>8, <1>10, SameChanges
<1>12. UNCHANGED memory /\ NoOrder(writes'[Api])
  BY <1>1, <1>9, <1>10 DEF Queues
<1>13. ApiActs(p)
  BY <1>1, <1>2, <1>4, <1>6, <1>7, <1>11, <1>12 DEF ApiActs
<1> QED  BY <1>13 DEF p

LEMMA StartWorkerActs ==
  ASSUME IInv, TInv, StartWorker
  PROVE  ApiActs(api.parent)
<1> DEFINE p == api.parent
           w == SaveRequest(p, api.request)
           list == <<w>>
           job == [jobs[p] EXCEPT !.pc = "top"]
<1>1. /\ ApiReady("entered") /\ jobs' = [jobs EXCEPT ![p] = job]
      /\ writes' = [writes EXCEPT ![Api] = list] /\ UNCHANGED memory /\ Frame
      /\ early' = early /\ api_cancelled' = api_cancelled
  BY DEF StartWorker, Frame
<1>2. /\ Family(parents, children) /\ DOMAIN writes = Thread
      /\ phase = "serving" /\ callback_set /\ Ready(Api)
      /\ p \in DOMAIN parents /\ p \in DOMAIN jobs
      /\ Typed(parents, children, fills) /\ Complete(parents, children)
  BY <1>1 DEF IInv, TInv, ApiReady, Queued, Submitting
<1>3. Api \in Thread
  BY OmsAssumption DEF Api, Thread
<1>4. JobTyped(jobs[p])
  BY <1>2 DEF TInv
<1>5. JobTyped(job) /\ job.filled = jobs[p].filled /\ job.slice_filled = jobs[p].slice_filled
      /\ job.pc \notin Leg
  BY <1>4 DEF JobTyped, Leg
<1>6. w.table = "requests"
  BY DEF SaveRequest, Write
<1>7. Carries(p, list)
  BY RequestCarried
<1>8. NoOrder(list)
  <2> HIDE DEF w
  <2> QED  BY <1>6, OneRow
<1> HIDE DEF p, job, list, w
<1>9. /\ DOMAIN jobs' = DOMAIN jobs /\ jobs'[p] = job
      /\ \A x \in DOMAIN jobs : x # p => jobs'[x] = jobs[x]
  BY <1>1, <1>2
<1>10. SameJobs
  BY <1>2, <1>5, <1>9 DEF SameJobs, TInv, Counted
<1>11. Queues(Api, list)
  BY <1>1, <1>2, <1>3 DEF Queues
<1>12. Changes(Api, p)
  BY <1>1, <1>2, <1>7, <1>11, SameChanges
<1>13. UNCHANGED memory /\ NoOrder(writes'[Api])
  BY <1>1, <1>8, <1>11 DEF Queues
<1>14. \A i \in 1 .. Len(writes'[Api]) : writes'[Api][i].table # "jobs"
  <2>1. Len(<<w>>) = 1 /\ <<w>>[1] = w /\ \A i \in 1 .. 1 : i = 1
    OBVIOUS
  <2> QED  BY <1>6, <1>11, <2>1 DEF Queues, list
<1>15. ApiActs(p)
  BY <1>1, <1>2, <1>10, <1>12, <1>13, <1>14 DEF ApiActs
<1> QED  BY <1>15 DEF p

LEMMA CancelAlgoActs ==
  ASSUME IInv, TInv, NEW p \in DOMAIN jobs, CancelAlgo(p)
  PROVE  ApiActs(p)
<1> DEFINE job == [jobs[p] EXCEPT !.cancel = TRUE]
<1>1. /\ ApiReady("idle") /\ jobs' = [jobs EXCEPT ![p] = job]
      /\ writes' = writes /\ UNCHANGED memory /\ Frame
      /\ early' = early /\ api_cancelled' = api_cancelled
  BY DEF CancelAlgo, Frame, omsVars, memory
<1>2. /\ Family(parents, children) /\ DOMAIN writes = Thread
      /\ phase = "serving" /\ callback_set /\ Ready(Api) /\ p \in DOMAIN parents
      /\ Typed(parents, children, fills) /\ Complete(parents, children)
  BY <1>1 DEF IInv, TInv, ApiReady, Queued, Working
<1>3. Api \in Thread
  BY OmsAssumption DEF Api, Thread
<1>4. JobTyped(jobs[p])
  BY DEF TInv
<1>5. JobTyped(job) /\ job.filled = jobs[p].filled /\ job.slice_filled = jobs[p].slice_filled
      /\ job.pc = jobs[p].pc /\ job.child = jobs[p].child
  BY <1>4 DEF JobTyped
<1> HIDE DEF job
<1>6. /\ DOMAIN jobs' = DOMAIN jobs /\ jobs'[p] = job
      /\ \A x \in DOMAIN jobs : x # p => jobs'[x] = jobs[x]
  BY <1>1
<1>7. SameJobs
  BY <1>5, <1>6 DEF SameJobs, TInv, Counted
<1>8. Queues(Api, <<>>) /\ Carries(p, <<>>)
  BY <1>1, <1>2, <1>3, QuietQueues, NothingCarried
<1>9. Changes(Api, p)
  BY <1>1, <1>2, <1>8, SameChanges
<1>10. 1 .. Len(writes'[Api]) = {}
  <2>1. Len(<<>>) = 0
    OBVIOUS
  <2> QED  BY <1>8, <2>1 DEF Queues
<1>11. NoOrder(writes'[Api])
  BY <1>10 DEF NoOrder
<1> QED  BY <1>1, <1>2, <1>7, <1>9, <1>10, <1>11 DEF ApiActs

(* The update of a child has no row of a job behind it.                    *)
LEMMA StatusQueues ==
  ASSUME Family(parents, children), DOMAIN writes = Thread, NEW t \in Thread, Ready(t),
         NEW c \in DOMAIN children, NEW status, SetChildStatus(t, c, status)
  PROVE  \A i \in 1 .. Len(writes'[t]) : writes'[t][i].table # "jobs"
<1> DEFINE p == children[c].parent
<1>0. Len(<<>>) = 0
  OBVIOUS
<1>1. CASE UNCHANGED <<memory, writes>>
  BY <1>0, <1>1 DEF Ready
<1>2. CASE StatusUpdated(t, p, c, status)
  <2>1. PICK k : Callback(t, Notify(p, parents'[p], c, k))
    BY <1>2 DEF StatusUpdated
  <2> DEFINE a == SaveParent(p, parents'[p])
             b == SaveChild(c, k)
             list == <<a, b>>
  <2>2. a.table = "parents" /\ b.table = "children"
    BY DEF SaveParent, SaveChild, Write
  <2>3. Callback(t, list)
    BY <2>1 DEF Notify
  <2> HIDE DEF a, b
  <2>4. list \in Seq({a, b}) /\ Len(list) = 2 /\ list[1] = a /\ list[2] = b
    OBVIOUS
  <2> HIDE DEF list
  <2>5. \A i \in 1 .. Len(list) : list[i].table # "jobs"
    <3>1. \A i \in 1 .. 2 : i = 1 \/ i = 2
      OBVIOUS
    <3> QED  BY <2>2, <2>4, <3>1
  <2>6. IsList(list)
    BY <2>4, SeqIsList
  <2>7. Queues(t, IF callback_set THEN list ELSE <<>>)
    BY <2>3, <2>6, CallbackQueues
  <2> QED  BY <1>0, <2>5, <2>7 DEF Queues
<1> QED  BY <1>1, <1>2, StatusUpdates

LEMMA CancelChildActs ==
  ASSUME IInv, TInv, NEW c \in DOMAIN children, CancelChildByRest(c)
  PROVE  ApiActs(children[c].parent)
<1> DEFINE p == children[c].parent
<1>1. /\ ApiReady("idle") /\ SetChildStatus(Api, c, "Cancelled") /\ Frame
      /\ jobs' = jobs /\ early' = early /\ api_cancelled'
  BY DEF CancelChildByRest, CancelChild, Frame
<1>2. /\ Family(parents, children) /\ DOMAIN writes = Thread
      /\ phase = "serving" /\ callback_set /\ Ready(Api)
      /\ Typed(parents, children, fills) /\ Complete(parents, children)
  BY <1>1 DEF IInv, TInv, ApiReady, Queued
<1>3. Api \in Thread /\ "Cancelled" \in Status
  BY OmsAssumption DEF Api, Thread, Status
<1> HIDE DEF p
<1>4. Changes(Api, p)
  BY <1>1, <1>2, <1>3, StatusChanges DEF p
<1>5. SameJobs
  BY <1>1, SameJobsKept
<1>6. \A i \in 1 .. Len(writes'[Api]) : writes'[Api][i].table # "jobs"
  BY <1>1, <1>2, <1>3, StatusQueues
<1>7. ApiActs(p)
  BY <1>1, <1>2, <1>4, <1>5, <1>6 DEF ApiActs
<1> QED  BY <1>7 DEF p

(* A callback writes the first row of its queue, or counts it.             *)
StoredIn(w) ==
  /\ w.table \in Table /\ DOMAIN db' = Table
  /\ \A table \in Table : table # w.table => db'[table] = db[table]
  /\ DOMAIN db'[w.table] = DOMAIN db[w.table] \cup {w.id} /\ db'[w.table][w.id] = w.row
  /\ \A x \in DOMAIN db[w.table] : x # w.id => db'[w.table][x] = db[w.table][x]
  /\ IsTable(db'[w.table])

(* The queues lose nothing else.                                           *)
Shifts(t, w) ==
  /\ Len(writes[t]) \in Nat \ {0} /\ w = writes[t][1]
  /\ IsList(writes'[t]) /\ Len(writes'[t]) = Len(writes[t]) - 1
  /\ \A i \in 1 .. (Len(writes[t]) - 1) : writes'[t][i] = writes[t][i + 1]
  /\ DOMAIN writes' = Thread /\ \A u \in Thread \ {t} : writes'[u] = writes[u]

Stores(t, w) ==
  /\ Shifts(t, w) /\ phase # "down"
  /\ UNCHANGED memory /\ jobs' = jobs /\ phase' = phase /\ callback_set' = callback_set
  /\ early' = early /\ api_cancelled' = api_cancelled
  /\ \/ w.table = "positions" /\ db' = db /\ positions' = positions \cup {w.id}
     \/ w.table # "positions" /\ StoredIn(w) /\ positions' = positions

LEMMA CallbacksStore ==
  ASSUME IInv, TInv, NEW t \in Thread, Callbacks(t)
  PROVE  Stores(t, writes[t][1])
<1> DEFINE list == writes[t]
           w == Head(list)
<1>1. /\ list # <<>> /\ writes' = [writes EXCEPT ![t] = Tail(list)]
      /\ UNCHANGED memory /\ jobs' = jobs /\ phase' = phase /\ callback_set' = callback_set
      /\ early' = early /\ api_cancelled' = api_cancelled
  BY DEF Callbacks, Persist
<1>2. IF w.table = "positions" THEN db' = db /\ positions' = positions \cup {w.id}
                               ELSE db' = Stored(db, w) /\ positions' = positions
  BY DEF Callbacks, Persist, Stored
<1>3. Backed(db, list) /\ Rows(db) /\ DOMAIN writes = Thread
  BY DEF IInv, Queued
<1>4. IsList(list) /\ RowFits(w)
  BY <1>1, <1>3, HeadBacked DEF Backed
<1>5. phase # "down"
  BY <1>1 DEF TInv
<1>6. /\ IsList(Tail(list)) /\ Len(list) \in Nat \ {0} /\ Len(Tail(list)) = Len(list) - 1
      /\ w = list[1]
      /\ \A i \in 1 .. (Len(list) - 1) : Tail(list)[i] = list[i + 1]
  BY <1>1, <1>4, TailFacts
<1>7. Shifts(t, w)
  <2> DEFINE rest == Tail(list)
  <2>1. writes'[t] = rest /\ DOMAIN writes' = Thread /\ \A u \in Thread \ {t} : writes'[u] = writes[u]
    <3>1. writes' = [writes EXCEPT ![t] = rest]
      BY <1>1
    <3> HIDE DEF rest
    <3> QED  BY <1>3, <3>1
  <2> HIDE DEF w
  <2> QED  BY <1>6, <2>1 DEF Shifts
<1> HIDE DEF w, list
<1>8. CASE w.table = "positions"
  BY <1>1, <1>2, <1>5, <1>6, <1>7, <1>8 DEF Stores, list
<1>9. CASE w.table # "positions"
  <2>1. w.table \in Table /\ db' = Stored(db, w)
    BY <1>2, <1>4, <1>9 DEF RowFits
  <2>2. /\ DOMAIN db' = Table
        /\ \A table \in Table : table # w.table => db'[table] = db[table]
        /\ DOMAIN db'[w.table] = DOMAIN db[w.table] \cup {w.id}
        /\ db'[w.table][w.id] = w.row
        /\ \A x \in DOMAIN db[w.table] : x # w.id => db'[w.table][x] = db[w.table][x]
    BY <1>3, <2>1, StoredFacts
  <2>3. IsTable(db'[w.table])
    <3> DEFINE g == Put(db[w.table], w.id, w.row)
    <3>1. IsTable(g)
      BY DEF IsTable, Put
    <3> HIDE DEF g
    <3>2. db' = [db EXCEPT ![w.table] = g] /\ w.table \in DOMAIN db
      BY <1>3, <2>1 DEF Stored, g, Rows
    <3> QED  BY <3>1, <3>2
  <2>4. StoredIn(w)
    BY <2>1, <2>2, <2>3 DEF StoredIn
  <2> QED  BY <1>1, <1>2, <1>5, <1>6, <1>7, <1>9, <2>4 DEF Stores, list
<1> QED  BY <1>8, <1>9

(* What is in a queue after the step was there before it.                  *)
LEMMA ShiftRows ==
  ASSUME NEW t \in Thread, NEW w, Shifts(t, w), NEW u \in Thread, NEW i \in 1 .. Len(writes'[u])
  PROVE  \E j \in 1 .. Len(writes[u]) : writes'[u][i] = writes[u][j]
<1>1. CASE u = t
  <2>1. i \in 1 .. (Len(writes[t]) - 1) /\ i + 1 \in 1 .. Len(writes[t])
    BY <1>1 DEF Shifts
  <2>2. writes'[t][i] = writes[t][i + 1]
    BY <2>1 DEF Shifts
  <2> QED  BY <1>1, <2>1, <2>2
<1>2. CASE u # t
  BY <1>2 DEF Shifts
<1> QED  BY <1>1, <1>2

(* And what was there before it is there, or was written.                  *)
LEMMA ShiftPends ==
  ASSUME NEW t \in Thread, NEW w, Shifts(t, w), NEW u \in Thread, NEW table, NEW id,
         Pends(writes[u], table, id)
  PROVE  Pends(writes'[u], table, id) \/ (u = t /\ w.table = table /\ w.id = id)
<1>1. CASE u = t
  <2> DEFINE n == Len(writes[t])
  <2>1. n \in Nat \ {0} /\ Len(writes'[t]) = n - 1 /\ w = writes[t][1]
        /\ \A i \in 1 .. (n - 1) : writes'[t][i] = writes[t][i + 1]
    BY DEF Shifts
  <2>2. PICK i \in 1 .. n : writes[t][i].table = table /\ writes[t][i].id = id
    BY <1>1 DEF Pends
  <2> HIDE DEF n
  <2>3. CASE i = 1
    BY <1>1, <2>1, <2>2, <2>3
  <2>4. CASE i # 1
    <3>1. i - 1 \in 1 .. (n - 1) /\ (i - 1) + 1 = i
      BY <2>1, <2>4
    <3>2. writes'[t][i - 1] = writes[t][i]
      BY <2>1, <3>1
    <3> QED  BY <1>1, <2>1, <2>2, <3>1, <3>2 DEF Pends
  <2> QED  BY <2>3, <2>4
<1>2. CASE u # t
  BY <1>2 DEF Shifts
<1> QED  BY <1>1, <1>2

(* The memory after a restart is what the tables say.                      *)
Loaded(r, s) ==
  /\ s.quantity = r.quantity /\ s.filled = r.filled /\ s.remaining = r.remaining
  /\ s.status = r.status

Restarts ==
  /\ phase = "down" /\ phase' = "resumed"
  /\ children' = db["children"] /\ fills' = db["fills"]
  /\ DOMAIN parents' = DOMAIN db["parents"]
  /\ \A p \in DOMAIN db["parents"] :
       /\ Loaded(db["parents"][p], parents'[p])
       /\ parents'[p].child_ids = {c \in DOMAIN db["children"] : db["children"][c].parent = p}
  /\ DOMAIN jobs' = DOMAIN db["jobs"]
  /\ \A p \in DOMAIN db["jobs"] :
       /\ JobTyped(jobs'[p]) /\ Counted(jobs'[p]) = db["jobs"][p].filled /\ jobs'[p].pc \notin Leg
  /\ \A table \in Table \ {"jobs"} : db'[table] = db[table]
  /\ DOMAIN db'["jobs"] = DOMAIN db["jobs"]
  /\ \A p \in DOMAIN db["jobs"] :
       "filled" \in DOMAIN db'["jobs"][p] /\ db'["jobs"][p].filled = db["jobs"][p].filled
  /\ writes' = writes /\ positions' = {} /\ callback_set' = FALSE
  /\ early' = early /\ api_cancelled' = api_cancelled

LEMMA RestartLoads ==
  ASSUME IInv, TInv, Restart
  PROVE  Restarts
<1> DEFINE row == [p \in DOMAIN db["jobs"] |-> RestoredRow(p)]
<1>1. /\ phase = "down" /\ children' = db["children"] /\ fills' = db["fills"]
      /\ parents' = LoadedParents
      /\ jobs' = [p \in DOMAIN db["jobs"] |-> RestoredJob(p)]
      /\ db' = [db EXCEPT !["jobs"] = row]
      /\ phase' = "resumed" /\ writes' = writes /\ positions' = {} /\ callback_set' = FALSE
      /\ early' = early /\ api_cancelled' = api_cancelled
  BY DEF Restart, Load
<1>2. Rows(db) /\ JobRows(db["jobs"])
  BY DEF IInv, TInv
<1>3. DOMAIN row = DOMAIN db["jobs"] /\ \A p \in DOMAIN db["jobs"] : row[p] = RestoredRow(p)
  OBVIOUS
<1> HIDE DEF row
<1>4. /\ \A table \in Table \ {"jobs"} : db'[table] = db[table]
      /\ db'["jobs"] = row
  BY <1>1, <1>2 DEF Rows, Table
<1>5. DOMAIN parents' = DOMAIN db["parents"]
  BY <1>1 DEF LoadedParents
<1>6. ASSUME NEW p \in DOMAIN db["parents"]
      PROVE  /\ Loaded(db["parents"][p], parents'[p])
             /\ parents'[p].child_ids
                  = {c \in DOMAIN db["children"] : db["children"][c].parent = p}
  <2> DEFINE r == db["parents"][p]
             ids == {c \in DOMAIN db["children"] : db["children"][c].parent = p}
  <2>1. parents'[p] = [r EXCEPT !.child_ids = ids]
    BY <1>1 DEF LoadedParents
  <2>2. IsParent(r)
    BY <1>2 DEF Rows
  <2> HIDE DEF r, ids
  <2>3. parents'[p] = [quantity |-> r.quantity, filled |-> r.filled,
                       remaining |-> r.remaining, status |-> r.status, child_ids |-> ids]
    BY <2>1, <2>2 DEF IsParent
  <2>4. Loaded(r, parents'[p]) /\ parents'[p].child_ids = ids
    BY <2>3 DEF Loaded
  <2> QED  BY <2>4 DEF r, ids
<1>7. ASSUME NEW p \in DOMAIN db["jobs"]
      PROVE  /\ JobTyped(RestoredJob(p)) /\ Counted(RestoredJob(p)) = db["jobs"][p].filled
             /\ RestoredJob(p).pc \notin Leg
  <2>1. db["jobs"][p].filled \in Nat
    BY <1>2 DEF JobRows
  <2>2. /\ {"pc", "child", "filled", "slice_filled"} \subseteq DOMAIN RestoredJob(p)
        /\ RestoredJob(p).filled = db["jobs"][p].filled /\ RestoredJob(p).slice_filled = 0
        /\ RestoredJob(p).pc \in {"top", "done"}
    BY DEF RestoredJob, Job
  <2> QED  BY <2>1, <2>2 DEF JobTyped, Counted, Leg
<1>8. ASSUME NEW p \in DOMAIN db["jobs"]
      PROVE  "filled" \in DOMAIN RestoredRow(p) /\ RestoredRow(p).filled = db["jobs"][p].filled
  <2> DEFINE r == db["jobs"][p]
  <2>1. "filled" \in DOMAIN r
    BY <1>2 DEF JobRows
  <2>2. RestoredRow(p) = r \/ RestoredRow(p) = [r EXCEPT !.status = "Failed"]
    BY DEF RestoredRow
  <2> HIDE DEF r
  <2>3. "filled" \in DOMAIN RestoredRow(p) /\ RestoredRow(p).filled = r.filled
    BY <2>1, <2>2
  <2> QED  BY <2>3 DEF r
<1>9. DOMAIN jobs' = DOMAIN db["jobs"] /\ \A p \in DOMAIN db["jobs"] : jobs'[p] = RestoredJob(p)
  BY <1>1
<1> QED  BY <1>1, <1>3, <1>4, <1>5, <1>6, <1>7, <1>8, <1>9 DEF Restarts

(* The server goes on coming up, or nothing happens.                       *)
Rests ==
  /\ UNCHANGED memory /\ jobs' = jobs /\ writes' = writes /\ db' = db
  /\ early' = early /\ api_cancelled' = api_cancelled
  /\ \/ phase' = phase /\ positions' = positions /\ callback_set' = callback_set
     \/ /\ phase = "resumed" /\ phase' = "positions" /\ positions' = DOMAIN db["fills"]
        /\ callback_set' = callback_set
     \/ phase = "positions" /\ phase' = "serving" /\ positions' = positions

Acts ==
  \/ \E p, job : JobActs(p, job)
  \/ \E p : ApiActs(p)
  \/ \E t \in Thread : \E w : Stores(t, w)
  \/ Crash \/ Restarts \/ Rests

LEMMA NextActs ==
  ASSUME IInv, TInv, [Next]_vars
  PROVE  Acts
<1>1. CASE \E r \in Requests : Submit(r)
  BY <1>1, SubmitActs DEF Acts
<1>2. CASE EnterJob
  BY <1>2, EnterJobActs DEF Acts
<1>3. CASE StartWorker
  BY <1>3, StartWorkerActs DEF Acts
<1>4. CASE \E p \in DOMAIN jobs : CancelAlgo(p)
  BY <1>4, CancelAlgoActs DEF Acts
<1>5. CASE \E c \in DOMAIN children : CancelChildByRest(c)
  BY <1>5, CancelChildActs DEF Acts
<1>6. CASE \E p \in DOMAIN jobs : JobStep(p)
  BY <1>6, JobStepActs DEF Acts
<1>7. CASE \E t \in Thread : Callbacks(t)
  BY <1>7, CallbacksStore DEF Acts
<1>8. CASE Crash
  BY <1>8 DEF Acts
<1>9. CASE Restart
  BY <1>9, RestartLoads DEF Acts
<1>10. CASE RebuildPositions
  <2>1. Rests
    BY <1>10 DEF RebuildPositions, Rests
  <2> QED  BY <2>1 DEF Acts
<1>11. CASE SetMutationCallback
  <2>1. Rests
    BY <1>11 DEF SetMutationCallback, Rests
  <2> QED  BY <2>1 DEF Acts
<1>12. CASE UNCHANGED vars
  <2>1. Rests
    BY <1>12 DEF vars, omsVars, memory, Rests
  <2> QED  BY <2>1 DEF Acts
<1> QED
  BY <1>1, <1>2, <1>3, <1>4, <1>5, <1>6, <1>7, <1>8, <1>9, <1>10, <1>11, <1>12 DEF Next

-----------------------------------------------------------------------------
(* The rows keep their types.                                              *)

(* The step of a thread puts only rows of its order into its queue.        *)
LEMMA ChangesTyped ==
  ASSUME Pending(writes, fills, jobs), NEW t \in Thread, NEW p, Changes(t, p),
         DOMAIN jobs \subseteq DOMAIN jobs', t = p => p \in DOMAIN jobs,
         p \in DOMAIN parents',
         p \in DOMAIN jobs' => jobs'[p].filled \in Nat
  PROVE  Pending(writes', fills', jobs')
<1>1. Typed(parents', children', fills') /\ OrderOnly(p) /\ Stays(t, p)
  BY DEF Changes
<1>2. Carries(p, writes'[t]) /\ \A u \in Thread \ {t} : writes'[u] = writes[u]
  BY DEF Changes
<1>3. ASSUME NEW u \in Thread, NEW i \in 1 .. Len(writes'[u])
      PROVE  PendTyped(u, writes'[u][i], fills', jobs')
  <2> DEFINE w == writes'[u][i]
  <2>1. CASE u # t
    <3>1. writes'[u] = writes[u]
      BY <1>2, <2>1
    <3>2. PendTyped(u, w, fills, jobs)
      BY <3>1 DEF Pending
    <3>3. DOMAIN fills \subseteq DOMAIN fills' /\ \A f \in DOMAIN fills : fills'[f] = fills[f]
      BY <1>1 DEF OrderOnly
    <3> HIDE DEF w
    <3>4. PendTyped(u, w, fills', jobs')
      BY <3>2, <3>3 DEF PendTyped
    <3> QED  BY <3>4 DEF w
  <2>2. CASE u = t
    <3>1. Carried(p, writes'[t], i) /\ w = writes'[t][i]
      BY <1>2, <2>2 DEF Carries
    <3> HIDE DEF w
    <3>2. /\ w.table = "parents" => w.row = parents'[p]
          /\ w.table = "children" => w.id \in DOMAIN children' /\ w.row = children'[w.id]
          /\ w.table = "fills" =>
               w.id \in DOMAIN fills' \ DOMAIN fills /\ w.row = fills'[w.id] /\ w.row.parent = p
          /\ w.table = "positions" => w.id \in DOMAIN fills'
          /\ w.table = "jobs" =>
               p \in DOMAIN jobs' /\ w.row.filled = jobs'[p].filled /\ "filled" \in DOMAIN w.row
      BY <3>1 DEF Carried
    <3>3. w.table = "parents" => ParentTyped(w.row)
      BY <1>1, <3>2 DEF Typed
    <3>4. w.table = "children" => ChildTyped(w.row)
      BY <1>1, <3>2 DEF Typed
    <3>5. w.table = "fills" => t = p
      BY <1>1, <3>2 DEF Stays
    <3>6. PendTyped(t, w, fills', jobs')
      BY <3>2, <3>3, <3>4, <3>5 DEF PendTyped
    <3> QED  BY <2>2, <3>6 DEF w
  <2> QED  BY <2>1, <2>2
<1> QED  BY <1>3 DEF Pending

LEMMA JobActsTyped ==
  ASSUME IInv, IInv', TInv, NEW p, NEW job, JobActs(p, job)
  PROVE  TInv'
<1>1. /\ p \in DOMAIN jobs /\ Moves(p, job) /\ JobTyped(job) /\ Changes(p, p)
      /\ job.pc \in Leg => children'[job.child].parent = p
      /\ db' = db /\ phase' = phase /\ phase # "down"
  BY DEF JobActs, Steps, Frame
<1>2. p \in Thread /\ p \in DOMAIN parents'
  BY <1>1, OmsAssumption DEF IInv, Working, Family, Thread, Changes, OrderOnly
<1>3. Typed(parents', children', fills') /\ Complete(parents', children') /\ OrderOnly(p)
  BY <1>1 DEF Changes
<1>4. \A x \in DOMAIN jobs' : JobTyped(jobs'[x])
  BY <1>1 DEF Moves, TInv
<1>5. Pending(writes', fills', jobs')
  <2>1. DOMAIN jobs' = DOMAIN jobs
    BY <1>1 DEF Moves
  <2>2. jobs'[p].filled \in Nat
    BY <1>1, <1>4, <2>1 DEF JobTyped
  <2>3. Pending(writes, fills, jobs)
    BY DEF TInv
  <2> QED  BY <1>1, <1>2, <2>1, <2>2, <2>3, ChangesTyped
<1>6. LegsOwn(jobs', children')
  <2>1. \A x \in DOMAIN jobs : jobs[x].pc \in Leg =>
          jobs[x].child \in DOMAIN children /\ children[jobs[x].child].parent = x
    BY DEF TInv, LegsOwn, IInv, Working, Leg
  <2>2. \A c \in DOMAIN children : children'[c].parent = children[c].parent
    BY <1>3 DEF OrderOnly
  <2> QED  BY <1>1, <2>1, <2>2 DEF Moves, LegsOwn
<1>7. FillsKept(db["fills"], fills')
  BY <1>1, <1>3 DEF TInv, FillsKept, OrderOnly
<1>8. Typed(db["parents"], db["children"], db["fills"]) /\ JobRows(db["jobs"])
  BY DEF TInv
<1> QED  BY <1>1, <1>3, <1>4, <1>5, <1>6, <1>7, <1>8 DEF TInv

LEMMA ApiActsTyped ==
  ASSUME IInv, IInv', TInv, NEW p, ApiActs(p)
  PROVE  TInv'
<1>1. /\ SameJobs /\ Changes(Api, p) /\ db' = db /\ phase' = phase /\ phase # "down"
  BY DEF ApiActs, Frame
<1>2. /\ Typed(parents', children', fills') /\ Complete(parents', children') /\ OrderOnly(p)
  BY <1>1 DEF Changes
<1>3. Api \in Thread /\ p \in DOMAIN parents' /\ Api # p
  <2>1. p \in DOMAIN parents' /\ DOMAIN parents' \subseteq 1 .. MaxParents
    BY <1>2 DEF OrderOnly, IInv, Family
  <2> QED  BY <2>1, OmsAssumption DEF Api, Thread
<1>4. \A x \in DOMAIN jobs' : JobTyped(jobs'[x])
  BY <1>1 DEF SameJobs
<1>5. Pending(writes', fills', jobs')
  <2>1. DOMAIN jobs \subseteq DOMAIN jobs'
    BY <1>1 DEF SameJobs
  <2>2. p \in DOMAIN jobs' => jobs'[p].filled \in Nat
    BY <1>4 DEF JobTyped
  <2>3. Pending(writes, fills, jobs)
    BY DEF TInv
  <2> QED  BY <1>1, <1>3, <2>1, <2>2, <2>3, ChangesTyped
<1>6. LegsOwn(jobs', children')
  <2>1. \A x \in DOMAIN jobs : jobs[x].pc \in Leg =>
          jobs[x].child \in DOMAIN children /\ children[jobs[x].child].parent = x
    BY DEF TInv, LegsOwn, IInv, Working, Leg
  <2>2. \A c \in DOMAIN children : children'[c].parent = children[c].parent
    BY <1>2 DEF OrderOnly
  <2> QED  BY <1>1, <2>1, <2>2 DEF SameJobs, LegsOwn
<1>7. FillsKept(db["fills"], fills')
  BY <1>1, <1>2 DEF TInv, FillsKept, OrderOnly
<1>8. Typed(db["parents"], db["children"], db["fills"]) /\ JobRows(db["jobs"])
  BY DEF TInv
<1> QED  BY <1>1, <1>2, <1>4, <1>5, <1>6, <1>7, <1>8 DEF TInv

LEMMA StoresTyped ==
  ASSUME IInv, IInv', TInv, NEW t \in Thread, NEW w, Stores(t, w)
  PROVE  TInv'
<1>1. /\ Shifts(t, w) /\ parents' = parents /\ children' = children /\ fills' = fills
      /\ jobs' = jobs /\ phase' = phase /\ phase # "down"
  BY DEF Stores, memory
<1>2. Pending(writes', fills', jobs')
  <2>1. \A u \in Thread : \A i \in 1 .. Len(writes'[u]) :
          \E j \in 1 .. Len(writes[u]) : writes'[u][i] = writes[u][j]
    BY <1>1, ShiftRows
  <2> QED  BY <1>1, <2>1 DEF Pending, TInv
<1>3. PendTyped(t, w, fills, jobs)
  BY <1>1 DEF Shifts, TInv, Pending
<1>4. Typed(db["parents"], db["children"], db["fills"]) /\ JobRows(db["jobs"])
      /\ FillsKept(db["fills"], fills) /\ Typed(parents, children, fills)
  BY <1>1 DEF TInv
<1>5. /\ Typed(db'["parents"], db'["children"], db'["fills"]) /\ JobRows(db'["jobs"])
      /\ FillsKept(db'["fills"], fills)
  <2>1. CASE db' = db
    BY <1>4, <2>1
  <2>2. CASE StoredIn(w)
    <3>1. /\ \A table \in Table : table # w.table => db'[table] = db[table]
          /\ DOMAIN db'[w.table] = DOMAIN db[w.table] \cup {w.id} /\ db'[w.table][w.id] = w.row
          /\ \A x \in DOMAIN db[w.table] : x # w.id => db'[w.table][x] = db[w.table][x]
          /\ IsTable(db'[w.table])
      BY <2>2 DEF StoredIn
    <3>2. {"parents", "children", "fills", "jobs"} \subseteq Table
      BY DEF Table
    <3>3. CASE w.table = "parents"
      <4>1. ParentTyped(w.row)
        BY <1>3, <3>3 DEF PendTyped
      <4>2. /\ db'["children"] = db["children"] /\ db'["fills"] = db["fills"]
            /\ db'["jobs"] = db["jobs"]
        BY <3>1, <3>2, <3>3
      <4>3. \A p \in DOMAIN db'["parents"] : ParentTyped(db'["parents"][p])
        BY <1>4, <3>1, <3>3, <4>1 DEF Typed
      <4> QED  BY <1>4, <3>1, <3>3, <4>2, <4>3 DEF Typed
    <3>4. CASE w.table = "children"
      <4>1. ChildTyped(w.row)
        BY <1>3, <3>4 DEF PendTyped
      <4>2. /\ db'["parents"] = db["parents"] /\ db'["fills"] = db["fills"]
            /\ db'["jobs"] = db["jobs"]
        BY <3>1, <3>2, <3>4
      <4>3. \A p \in DOMAIN db'["children"] : ChildTyped(db'["children"][p])
        BY <1>4, <3>1, <3>4, <4>1 DEF Typed
      <4>4. IsTable(db'["children"])
        BY <3>1, <3>4
      <4> QED  BY <1>4, <4>2, <4>3, <4>4 DEF Typed
    <3>5. CASE w.table = "fills"
      <4>1. w.id \in DOMAIN fills /\ w.row = fills[w.id] /\ w.row.parent = t /\ t \in DOMAIN jobs
        BY <1>3, <3>5 DEF PendTyped
      <4>2. /\ db'["parents"] = db["parents"] /\ db'["children"] = db["children"]
            /\ db'["jobs"] = db["jobs"]
        BY <3>1, <3>2, <3>5
      <4>3. t \in DOMAIN db["parents"]
        BY <4>1 DEF IInv, Working
      <4>4. FillsKept(db'["fills"], fills)
        BY <1>4, <3>1, <3>5, <4>1 DEF FillsKept
      <4>5. FillTable(db'["fills"])
        BY <1>4, <4>4 DEF FillTable, FillsKept, Typed
      <4>6. \A f \in DOMAIN db'["fills"] : db'["fills"][f].parent \in DOMAIN db["parents"]
        BY <1>4, <3>1, <3>5, <4>1, <4>3 DEF Typed
      <4>7. IsTable(db'["fills"])
        BY <3>1, <3>5
      <4> QED  BY <1>4, <4>2, <4>4, <4>5, <4>6, <4>7 DEF Typed
    <3>6. CASE w.table = "jobs"
      <4>1. "filled" \in DOMAIN w.row /\ w.row.filled \in Nat
        BY <1>3, <3>6 DEF PendTyped
      <4>2. /\ db'["parents"] = db["parents"] /\ db'["children"] = db["children"]
            /\ db'["fills"] = db["fills"]
        BY <3>1, <3>2, <3>6
      <4>3. JobRows(db'["jobs"])
        BY <1>4, <3>1, <3>6, <4>1 DEF JobRows
      <4> QED  BY <1>4, <4>2, <4>3
    <3>7. CASE w.table \notin {"parents", "children", "fills", "jobs"}
      <4>1. /\ db'["parents"] = db["parents"] /\ db'["children"] = db["children"]
            /\ db'["fills"] = db["fills"] /\ db'["jobs"] = db["jobs"]
        BY <3>1, <3>2, <3>7
      <4> QED  BY <1>4, <4>1
    <3> QED  BY <3>3, <3>4, <3>5, <3>6, <3>7
  <2> QED  BY <2>1, <2>2 DEF Stores
<1> QED  BY <1>1, <1>2, <1>5 DEF TInv

LEMMA EmptyTyped ==
  ASSUME NEW e, e = <<>>
  PROVE  DOMAIN e = {} /\ IsTable(e) /\ Typed(e, e, e) /\ Complete(e, e) /\ JobRows(e)
<1>1. DOMAIN e = {} /\ IsTable(e)
  BY DEF IsTable
<1>2. FillTable(e)
  <2>1. DOMAIN e \subseteq 1 .. 0 /\ 0 \in Nat
    BY <1>1
  <2> QED  BY <1>1, <2>1 DEF FillTable
<1> QED  BY <1>1, <1>2 DEF Typed, Complete, JobRows

LEMMA NothingPending ==
  ASSUME NEW ws, \A t \in Thread : ws[t] = <<>>, NEW fs, NEW js
  PROVE  Pending(ws, fs, js)
<1>1. Len(<<>>) = 0
  OBVIOUS
<1>2. \A t \in Thread : 1 .. Len(ws[t]) = {}
  BY <1>1
<1> QED  BY <1>2 DEF Pending

LEMMA CrashTyped ==
  ASSUME TInv, Crash
  PROVE  TInv'
<1>1. /\ parents' = <<>> /\ children' = <<>> /\ fills' = <<>> /\ writes' = NoWrites /\ jobs' = <<>>
      /\ phase' = "down" /\ db' = db
  BY DEF Crash
<1>2. Typed(parents', children', fills') /\ Complete(parents', children')
  BY <1>1, EmptyTyped
<1>3. DOMAIN jobs' = {}
  BY <1>1
<1>4. \A t \in Thread : writes'[t] = <<>>
  BY <1>1 DEF NoWrites
<1>5. Pending(writes', fills', jobs')
  BY <1>4, NothingPending
<1>6. LegsOwn(jobs', children')
  BY <1>3 DEF LegsOwn
<1>7. Typed(db["parents"], db["children"], db["fills"]) /\ JobRows(db["jobs"])
  BY DEF TInv
<1> QED  BY <1>1, <1>2, <1>3, <1>4, <1>5, <1>6, <1>7 DEF TInv

LEMMA RestartTyped ==
  ASSUME IInv, IInv', TInv, Restarts
  PROVE  TInv'
<1>1. /\ phase = "down" /\ phase' = "resumed" /\ writes' = writes
      /\ children' = db["children"] /\ fills' = db["fills"]
      /\ DOMAIN parents' = DOMAIN db["parents"]
  BY DEF Restarts
<1>2. /\ db'["parents"] = db["parents"] /\ db'["children"] = db["children"]
      /\ db'["fills"] = db["fills"]
  BY DEF Restarts, Table
<1>3. Typed(db["parents"], db["children"], db["fills"]) /\ JobRows(db["jobs"])
  BY DEF TInv
<1>4. \A p \in DOMAIN parents' : ParentTyped(parents'[p])
  <2>1. \A p \in DOMAIN parents' : Loaded(db["parents"][p], parents'[p]) /\ ParentTyped(db["parents"][p])
    BY <1>1, <1>3 DEF Restarts, Typed
  <2> QED  BY <2>1 DEF Loaded, ParentTyped
<1>5. Typed(parents', children', fills')
  BY <1>1, <1>3, <1>4 DEF Typed
<1>6. Complete(parents', children')
  <2>1. \A c \in DOMAIN db["children"] : db["children"][c].parent \in DOMAIN db["parents"]
    BY DEF IInv, Ordered
  <2>2. \A p \in DOMAIN db["parents"] :
          parents'[p].child_ids = {c \in DOMAIN db["children"] : db["children"][c].parent = p}
    BY DEF Restarts
  <2> QED  BY <1>1, <2>1, <2>2 DEF Complete
<1>7. JobRows(db'["jobs"])
  <2>1. /\ DOMAIN db'["jobs"] = DOMAIN db["jobs"]
        /\ \A p \in DOMAIN db["jobs"] :
             "filled" \in DOMAIN db'["jobs"][p] /\ db'["jobs"][p].filled = db["jobs"][p].filled
    BY DEF Restarts
  <2> QED  BY <1>3, <2>1 DEF JobRows
<1>8. Pending(writes', fills', jobs')
  BY <1>1, NothingPending DEF TInv
<1>9. (\A p \in DOMAIN jobs' : JobTyped(jobs'[p])) /\ LegsOwn(jobs', children')
  BY DEF Restarts, LegsOwn
<1>10. FillsKept(db'["fills"], fills')
  BY <1>1, <1>2 DEF FillsKept
<1>11. Typed(db'["parents"], db'["children"], db'["fills"])
  BY <1>2, <1>3
<1> QED  BY <1>1, <1>5, <1>6, <1>7, <1>8, <1>9, <1>10, <1>11 DEF TInv

LEMMA RestsTyped ==
  ASSUME TInv, Rests
  PROVE  TInv'
<1>1. /\ parents' = parents /\ children' = children /\ fills' = fills /\ jobs' = jobs
      /\ writes' = writes /\ db' = db
      /\ phase' = phase \/ (phase # "down" /\ phase' # "down")
  BY DEF Rests, memory
<1> QED  BY <1>1 DEF TInv

LEMMA InitTyped ==
  ASSUME Init PROVE TInv
<1>1. /\ parents = <<>> /\ children = <<>> /\ fills = <<>> /\ writes = NoWrites /\ jobs = <<>>
      /\ phase = "serving"
      /\ db = [parents |-> <<>>, children |-> <<>>, fills |-> <<>>, drops |-> <<>>,
               jobs |-> <<>>, requests |-> <<>>]
  BY DEF Init, OmsInit
<1>2. Typed(parents, children, fills) /\ Complete(parents, children)
  BY <1>1, EmptyTyped
<1>3. db["parents"] = <<>> /\ db["children"] = <<>> /\ db["fills"] = <<>> /\ db["jobs"] = <<>>
  BY <1>1
<1>4. Typed(db["parents"], db["children"], db["fills"]) /\ JobRows(db["jobs"])
  BY <1>3, EmptyTyped
<1>5. DOMAIN jobs = {} /\ DOMAIN db["fills"] = {}
  BY <1>1, <1>3
<1>6. Pending(writes, fills, jobs)
  BY <1>1, NothingPending DEF NoWrites
<1> QED  BY <1>1, <1>2, <1>4, <1>5, <1>6 DEF TInv, LegsOwn, FillsKept

LEMMA Typing == Spec => []TInv
<1>1. Init => TInv
  BY InitTyped
<1>2. IInv /\ IInv' /\ TInv /\ [Next]_vars => TInv'
  BY NextActs, JobActsTyped, ApiActsTyped, StoresTyped, CrashTyped, RestartTyped, RestsTyped
     DEF Acts
<1> QED  BY <1>1, <1>2, Invariance, PTL DEF Spec


-----------------------------------------------------------------------------
(* The sums of the fills of two tables.                                    *)

LEMMA FillSums ==
  ASSUME NEW fs, NEW gs, FillTable(fs), FillTable(gs), NEW S, NEW U,
         S \subseteq DOMAIN fs, U \subseteq DOMAIN gs, S \subseteq U,
         \A f \in S : gs[f] = fs[f]
  PROVE  LET a == SumFunctionOnSet(Quantities(fs), S)
             b == SumFunctionOnSet(Quantities(gs), U)
         IN /\ a \in Nat /\ b \in Nat /\ a <= b /\ (U = S => b = a)
            /\ \A f : f \notin S /\ U = S \cup {f} => b = a + gs[f].quantity
<1> DEFINE qf == Quantities(fs)
           qg == Quantities(gs)
<1>1. IsFiniteSet(S) /\ IsFiniteSet(U)
  <2>1. PICK n \in Nat : DOMAIN gs \subseteq 1 .. n
    BY DEF FillTable
  <2>2. S \subseteq 1 .. n /\ U \subseteq 1 .. n /\ IsFiniteSet(1 .. n)
    BY <2>1, FS_Interval
  <2> QED  BY <2>2, FS_Subset
<1>2. /\ \A f \in S : qf[f] \in Nat /\ qg[f] = qf[f]
      /\ \A f \in U : qg[f] \in Nat /\ qg[f] = gs[f].quantity
  BY DEF Quantities, FillTable
<1> HIDE DEF qf, qg
<1>3. \A f \in S : qf[f] \in Nat /\ qf[f] <= qg[f]
  BY <1>2
<1>4. SumFunctionOnSet(qf, S) <= SumFunctionOnSet(qg, U)
  BY <1>1, <1>2, <1>3, SumMonotone
<1>5. /\ Summable(qf, S) /\ SumFunctionOnSet(qf, S) \in Nat /\ SumFunctionOnSet(qg, U) \in Nat
  BY <1>1, <1>2, SumNatural
<1>6. Summable(qg, S) /\ SumFunctionOnSet(qg, S) = SumFunctionOnSet(qf, S)
  BY <1>2, <1>5, SumAgrees
<1>7. ASSUME NEW f, f \notin S, U = S \cup {f}
      PROVE  SumFunctionOnSet(qg, U) = SumFunctionOnSet(qf, S) + gs[f].quantity
  <2>1. qg[f] \in Nat /\ qg[f] = gs[f].quantity
    BY <1>2, <1>7
  <2>2. SumFunctionOnSet(qg, S \cup {f}) = qg[f] + SumFunctionOnSet(qg, S)
    BY <1>6, <1>7, <2>1, SumAdds
  <2> QED  BY <1>5, <1>6, <1>7, <2>1, <2>2
<1> QED  BY <1>4, <1>5, <1>6, <1>7 DEF qf, qg

(* A table that keeps the fills of another one.                            *)
LEMMA FilledGrows ==
  ASSUME NEW fs, NEW gs, FillTable(fs), FillTable(gs), FillsKept(fs, gs), NEW p
  PROVE  /\ FilledOf(p, fs) \in Nat /\ FilledOf(p, gs) \in Nat /\ FilledOf(p, fs) <= FilledOf(p, gs)
         /\ (\A f \in DOMAIN gs \ DOMAIN fs : gs[f].parent # p) => FilledOf(p, gs) = FilledOf(p, fs)
<1> DEFINE S == {f \in DOMAIN fs : fs[f].parent = p}
           U == {f \in DOMAIN gs : gs[f].parent = p}
<1>1. /\ S \subseteq DOMAIN fs /\ U \subseteq DOMAIN gs /\ S \subseteq U /\ \A f \in S : gs[f] = fs[f]
      /\ (\A f \in DOMAIN gs \ DOMAIN fs : gs[f].parent # p) => U = S
  BY DEF FillsKept
<1>2. /\ FilledOf(p, fs) = SumFunctionOnSet(Quantities(fs), S)
      /\ FilledOf(p, gs) = SumFunctionOnSet(Quantities(gs), U)
  BY DEF FilledOf
<1> HIDE DEF S, U
<1> QED  BY <1>1, <1>2, FillSums

LEMMA FilledChildGrows ==
  ASSUME NEW fs, NEW gs, FillTable(fs), FillTable(gs), FillsKept(fs, gs), NEW c
  PROVE  /\ FilledOfChild(c, fs) \in Nat /\ FilledOfChild(c, gs) \in Nat
         /\ FilledOfChild(c, fs) <= FilledOfChild(c, gs)
         /\ (\A f \in DOMAIN gs \ DOMAIN fs : gs[f].child # c) =>
              FilledOfChild(c, gs) = FilledOfChild(c, fs)
<1> DEFINE S == {f \in DOMAIN fs : fs[f].child = c}
           U == {f \in DOMAIN gs : gs[f].child = c}
<1>1. /\ S \subseteq DOMAIN fs /\ U \subseteq DOMAIN gs /\ S \subseteq U /\ \A f \in S : gs[f] = fs[f]
      /\ (\A f \in DOMAIN gs \ DOMAIN fs : gs[f].child # c) => U = S
  BY DEF FillsKept
<1>2. /\ FilledOfChild(c, fs) = SumFunctionOnSet(Quantities(fs), S)
      /\ FilledOfChild(c, gs) = SumFunctionOnSet(Quantities(gs), U)
  BY DEF FilledOfChild
<1> HIDE DEF S, U
<1> QED  BY <1>1, <1>2, FillSums

(* One fill more.                                                          *)
LEMMA FilledAdds ==
  ASSUME NEW fs, NEW gs, FillTable(fs), FillTable(gs), FillsKept(fs, gs),
         NEW f, f \notin DOMAIN fs, DOMAIN gs = DOMAIN fs \cup {f}
  PROVE  /\ FilledOf(gs[f].parent, gs) = FilledOf(gs[f].parent, fs) + gs[f].quantity
         /\ FilledOfChild(gs[f].child, gs) = FilledOfChild(gs[f].child, fs) + gs[f].quantity
<1>1. FilledOf(gs[f].parent, gs) = FilledOf(gs[f].parent, fs) + gs[f].quantity
  <2> DEFINE p == gs[f].parent
             S == {x \in DOMAIN fs : fs[x].parent = p}
             U == {x \in DOMAIN gs : gs[x].parent = p}
  <2>1. /\ S \subseteq DOMAIN fs /\ U \subseteq DOMAIN gs /\ S \subseteq U
        /\ \A x \in S : gs[x] = fs[x]
    BY DEF FillsKept
  <2>2. U = S \cup {f} /\ f \notin S
    BY DEF FillsKept
  <2>3. /\ FilledOf(p, fs) = SumFunctionOnSet(Quantities(fs), S)
        /\ FilledOf(p, gs) = SumFunctionOnSet(Quantities(gs), U)
    BY DEF FilledOf
  <2> HIDE DEF S, U
  <2> QED  BY <2>1, <2>2, <2>3, FillSums
<1>2. FilledOfChild(gs[f].child, gs) = FilledOfChild(gs[f].child, fs) + gs[f].quantity
  <2> DEFINE c == gs[f].child
             S == {x \in DOMAIN fs : fs[x].child = c}
             U == {x \in DOMAIN gs : gs[x].child = c}
  <2>1. /\ S \subseteq DOMAIN fs /\ U \subseteq DOMAIN gs /\ S \subseteq U
        /\ \A x \in S : gs[x] = fs[x]
    BY DEF FillsKept
  <2>2. U = S \cup {f} /\ f \notin S
    BY DEF FillsKept
  <2>3. /\ FilledOfChild(c, fs) = SumFunctionOnSet(Quantities(fs), S)
        /\ FilledOfChild(c, gs) = SumFunctionOnSet(Quantities(gs), U)
    BY DEF FilledOfChild
  <2> HIDE DEF S, U
  <2> QED  BY <2>1, <2>2, <2>3, FillSums
<1> QED  BY <1>1, <1>2

-----------------------------------------------------------------------------
(* Cancelled orders.                                                       *)

(* An order on record, or about to be recorded, as cancelled is cancelled  *)
(* in memory.  A fill about to be recorded is of an order that is not, and *)
(* its child shows it.                                                     *)
CancelKept(rows, ps) ==
  \A p \in DOMAIN rows :
    rows[p].status = "Cancelled" => p \in DOMAIN ps /\ ps[p].status = "Cancelled"

PendLive(w, ps, ks) ==
  /\ w.table = "parents" /\ w.row.status = "Cancelled" =>
       w.id \in DOMAIN ps /\ ps[w.id].status = "Cancelled"
  /\ w.table = "fills" =>
       /\ w.row.parent \in DOMAIN ps /\ ps[w.row.parent].status # "Cancelled"
       /\ w.row.child \in DOMAIN ks /\ ks[w.row.child].parent = w.row.parent
       /\ ks[w.row.child].filled > 0

(* The leg of a cancelled order can take no fill.                          *)
LegsClosed(js, ps, ks) ==
  \A p \in DOMAIN js :
    js[p].pc \in Leg /\ ps[p].status = "Cancelled" => Terminal(ks[js[p].child].status)

CInv ==
  phase # "down" =>
    /\ CancelKept(db["parents"], parents)
    /\ \A t \in Thread : \A i \in 1 .. Len(writes[t]) : PendLive(writes[t][i], parents, children)
    /\ LegsClosed(jobs, parents, children)

(* A new fill is one of the leg.                                           *)
LEMMA NewFillOfLeg ==
  ASSUME NEW p, NEW job, Worked(p, job), NEW f \in DOMAIN fills' \ DOMAIN fills
  PROVE  jobs[p].pc \in Leg /\ fills'[f].child = jobs[p].child
<1>1. CASE UNCHANGED memory
  BY <1>1 DEF memory
<1>2. CASE Cancels(p)
  BY <1>2 DEF Cancels
<1>3. CASE \E q \in Quantity : Opened(p, p, job.child, q)
  BY <1>3 DEF Opened
<1>4. CASE \E status \in Status : StatusUpdated(p, p, job.child, status)
  BY <1>4 DEF StatusUpdated
<1>5. CASE /\ jobs[p].pc \in Leg /\ job.child = jobs[p].child
           /\ \E q \in Quantity : \E g : FillUpdated(p, p, job.child, q, g)
  <2>0. PICK q \in Quantity : \E g : FillUpdated(p, p, job.child, q, g)
    BY <1>5
  <2>1. PICK g : FillUpdated(p, p, job.child, q, g)
    BY <2>0
  <2>2. PICK fill : /\ fill = [parent |-> p, child |-> job.child, quantity |-> q]
                    /\ DOMAIN fills' = DOMAIN fills \cup {g} /\ fills'[g] = fill
    BY <2>1 DEF FillUpdated
  <2>3. f = g /\ fills'[f].child = job.child
    BY <2>2
  <2> QED  BY <1>5, <2>3
<1> QED  BY <1>1, <1>2, <1>3, <1>4, <1>5 DEF Worked

(* The legs of the other orders stay as they are.                          *)
LEMMA OtherLegs ==
  ASSUME IInv, TInv, NEW t, NEW p, Changes(t, p), NEW x \in DOMAIN jobs, x # p, jobs[x].pc \in Leg
  PROVE  /\ jobs[x].child \in DOMAIN children /\ children[jobs[x].child].parent = x
         /\ children'[jobs[x].child] = children[jobs[x].child] /\ parents'[x] = parents[x]
<1>1. jobs[x].child \in DOMAIN children /\ children[jobs[x].child].parent = x /\ x \in DOMAIN parents
  BY DEF TInv, LegsOwn, IInv, Working, Leg
<1>2. OrderOnly(p)
  BY DEF Changes
<1>3. children'[jobs[x].child] = children[jobs[x].child]
  BY <1>1, <1>2 DEF OrderOnly
<1> QED  BY <1>1, <1>2, <1>3 DEF OrderOnly

(* The rows and queues of a step that gives a cancelled order no fill.     *)
LEMMA ChangesCancelled ==
  ASSUME IInv, IInv', TInv, CInv, phase # "down", NEW t \in Thread, NEW p, Changes(t, p),
         \A f \in DOMAIN fills' \ DOMAIN fills : parents[p].status # "Cancelled"
  PROVE  /\ CancelKept(db["parents"], parents')
         /\ \A u \in Thread : \A i \in 1 .. Len(writes'[u]) : PendLive(writes'[u][i], parents', children')
<1>1. OrderOnly(p) /\ Stays(t, p) /\ Carries(p, writes'[t]) /\ writes[t] = <<>>
  BY DEF Changes
<1>2. \A u \in Thread \ {t} : writes'[u] = writes[u]
  BY DEF Changes
<1>3. /\ DOMAIN parents' = DOMAIN parents \cup {p}
      /\ \A x \in DOMAIN parents : x # p => parents'[x] = parents[x]
      /\ \A x \in DOMAIN parents : parents[x].status = "Cancelled" => parents'[x].status = "Cancelled"
      /\ DOMAIN children \subseteq DOMAIN children'
      /\ \A c \in DOMAIN children : children'[c].parent = children[c].parent
      /\ \A c \in DOMAIN children : children'[c].filled >= children[c].filled
  BY <1>1 DEF OrderOnly, Stays
<1>4. CancelKept(db["parents"], parents')
  BY <1>3 DEF CInv, CancelKept
<1>5. ASSUME NEW u \in Thread, NEW i \in 1 .. Len(writes'[u])
      PROVE  PendLive(writes'[u][i], parents', children')
  <2> DEFINE w == writes'[u][i]
  <2>1. CASE u # t
    <3>1. writes'[u] = writes[u]
      BY <1>2, <2>1
    <3>2. PendLive(w, parents, children) /\ PendTyped(u, w, fills, jobs)
      BY <3>1 DEF CInv, TInv, Pending
    <3> HIDE DEF w
    <3>3. w.table = "parents" /\ w.row.status = "Cancelled" =>
            w.id \in DOMAIN parents' /\ parents'[w.id].status = "Cancelled"
      BY <1>3, <3>2 DEF PendLive
    <3>4. ASSUME w.table = "fills"
          PROVE  /\ w.row.parent \in DOMAIN parents' /\ parents'[w.row.parent].status # "Cancelled"
                 /\ w.row.child \in DOMAIN children' /\ children'[w.row.child].parent = w.row.parent
                 /\ children'[w.row.child].filled > 0
      <4> DEFINE x == w.row.parent
                 c == w.row.child
      <4>1. /\ x \in DOMAIN parents /\ parents[x].status # "Cancelled" /\ u = x
            /\ c \in DOMAIN children /\ children[c].parent = x /\ children[c].filled > 0
        BY <3>2, <3>4 DEF PendLive, PendTyped
      <4>2. children[c].filled \in Nat /\ children'[c].filled \in Nat
        <5>1. c \in DOMAIN children' /\ Typed(parents', children', fills')
          BY <1>3, <4>1 DEF Changes
        <5> QED  BY <4>1, <5>1 DEF TInv, Typed, ChildTyped
      <4> HIDE DEF x, c
      <4>3. c \in DOMAIN children' /\ children'[c].parent = x /\ children'[c].filled > 0
        <5>1. children'[c].filled >= children[c].filled
          BY <1>3, <4>1
        <5>2. children'[c].filled > 0
          BY <4>1, <4>2, <5>1
        <5> QED  BY <1>3, <4>1, <5>2
      <4>4. parents'[x].status # "Cancelled"
        <5>1. CASE x # p
          BY <1>3, <4>1, <5>1
        <5>2. CASE x = p
          <6>1. ~(t = p) /\ ~(children[c].filled = 0)
            BY <2>1, <4>1, <4>2, <5>2
          <6> QED  BY <1>1, <4>1, <5>2, <6>1 DEF Stays
        <5> QED  BY <5>1, <5>2
      <4> QED  BY <1>3, <4>1, <4>3, <4>4 DEF x, c
    <3>5. PendLive(w, parents', children')
      BY <3>3, <3>4 DEF PendLive
    <3> QED  BY <3>5 DEF w
  <2>2. CASE u = t
    <3>1. Carried(p, writes'[t], i) /\ w = writes'[t][i]
      BY <1>1, <2>2 DEF Carries
    <3> HIDE DEF w
    <3>2. /\ w.table = "parents" => w.id = p /\ w.row = parents'[p]
          /\ w.table = "fills" =>
               w.id \in DOMAIN fills' \ DOMAIN fills /\ w.row = fills'[w.id] /\ w.row.parent = p
      BY <3>1 DEF Carried
    <3>3. ASSUME w.table = "fills"
          PROVE  /\ w.row.parent \in DOMAIN parents' /\ parents'[w.row.parent].status # "Cancelled"
                 /\ w.row.child \in DOMAIN children' /\ children'[w.row.child].parent = w.row.parent
                 /\ children'[w.row.child].filled > 0
      <4> DEFINE c == fills'[w.id].child
      <4>1. /\ c \in DOMAIN children /\ children[c].parent = p /\ children'[c].filled > 0
            /\ parents[p].status # "Cancelled" => parents'[p].status # "Cancelled"
        BY <1>1, <3>2, <3>3 DEF Stays
      <4>2. parents[p].status # "Cancelled"
        BY <3>2, <3>3
      <4> QED  BY <1>3, <3>2, <3>3, <4>1, <4>2
    <3>4. PendLive(w, parents', children')
      BY <1>3, <3>2, <3>3 DEF PendLive
    <3> QED  BY <3>4 DEF w
  <2> QED  BY <2>1, <2>2
<1> QED  BY <1>4, <1>5

LEMMA JobActsCancelled ==
  ASSUME IInv, IInv', TInv, CInv, NEW p, NEW job, JobActs(p, job)
  PROVE  CInv'
<1>1. /\ p \in DOMAIN jobs /\ Moves(p, job) /\ Worked(p, job) /\ Changes(p, p)
      /\ job.pc \in Leg => children'[job.child].parent = p
      /\ db' = db /\ phase' = phase /\ phase # "down"
  BY DEF JobActs, Steps, Frame
<1>2. p \in Thread /\ p \in DOMAIN parents
  BY <1>1, OmsAssumption DEF IInv, Working, Family, Thread
<1>3. Stays(p, p) /\ OrderOnly(p)
  BY <1>1 DEF Changes
<1>4. jobs[p].pc \in Leg /\ parents[p].status = "Cancelled" => Terminal(children[jobs[p].child].status)
  BY <1>1 DEF CInv, LegsClosed
<1>5. \A f \in DOMAIN fills' \ DOMAIN fills : parents[p].status # "Cancelled"
  <2> SUFFICES ASSUME NEW f \in DOMAIN fills' \ DOMAIN fills
               PROVE  parents[p].status # "Cancelled"
    OBVIOUS
  <2>1. jobs[p].pc \in Leg /\ fills'[f].child = jobs[p].child
    BY <1>1, NewFillOfLeg
  <2>2. ~Terminal(children[fills'[f].child].status)
    BY <1>3 DEF Stays
  <2> QED  BY <1>4, <2>1, <2>2
<1>6. /\ CancelKept(db["parents"], parents')
      /\ \A u \in Thread : \A i \in 1 .. Len(writes'[u]) : PendLive(writes'[u][i], parents', children')
  BY <1>1, <1>2, <1>5, ChangesCancelled
<1>7. ASSUME job.pc \in Leg, parents'[p].status = "Cancelled"
      PROVE  Terminal(children'[job.child].status)
  <2>1. job.child \in DOMAIN children' /\ children'[job.child].parent = p
    BY <1>1, <1>7 DEF IInv, Working, Moves, Leg
  <2>2. CASE parents[p].status # "Cancelled"
    BY <1>2, <1>3, <1>7, <2>1, <2>2 DEF Stays
  <2>3. CASE parents[p].status = "Cancelled"
    <3>1. CASE UNCHANGED memory /\ jobs[p].pc \in Leg /\ job.child = jobs[p].child
      BY <1>4, <2>3, <3>1 DEF memory
    <3>2. CASE \E q \in Quantity : Opened(p, p, job.child, q)
      BY <2>3, <3>2 DEF Opened, Terminal
    <3>3. CASE /\ jobs[p].pc \in Leg /\ job.child = jobs[p].child
               /\ \E status \in Status : StatusUpdated(p, p, job.child, status)
      BY <1>4, <2>3, <3>3 DEF StatusUpdated
    <3>4. CASE /\ jobs[p].pc \in Leg /\ job.child = jobs[p].child
               /\ \E q \in Quantity : \E f : FillUpdated(p, p, job.child, q, f)
      BY <1>4, <2>3, <3>4 DEF FillUpdated
    <3> QED  BY <1>1, <1>7, <3>1, <3>2, <3>3, <3>4 DEF Worked
  <2> QED  BY <2>2, <2>3
<1>8. LegsClosed(jobs', parents', children')
  <2> SUFFICES ASSUME NEW x \in DOMAIN jobs', jobs'[x].pc \in Leg, parents'[x].status = "Cancelled"
               PROVE  Terminal(children'[jobs'[x].child].status)
    BY DEF LegsClosed
  <2>1. CASE x = p
    BY <1>1, <1>7, <2>1 DEF Moves
  <2>2. CASE x # p
    <3>1. x \in DOMAIN jobs /\ jobs'[x] = jobs[x]
      BY <1>1, <2>2 DEF Moves
    <3>2. children'[jobs[x].child] = children[jobs[x].child] /\ parents'[x] = parents[x]
      BY <1>1, <2>2, <3>1, OtherLegs
    <3> QED  BY <1>1, <3>1, <3>2 DEF CInv, LegsClosed
  <2> QED  BY <2>1, <2>2
<1> QED  BY <1>1, <1>6, <1>8 DEF CInv

LEMMA ApiActsCancelled ==
  ASSUME IInv, IInv', TInv, CInv, NEW p, ApiActs(p)
  PROVE  CInv'
<1>1. /\ SameJobs /\ Changes(Api, p) /\ db' = db /\ phase' = phase /\ phase # "down"
  BY DEF ApiActs, Frame
<1>2. Stays(Api, p) /\ OrderOnly(p)
  BY <1>1 DEF Changes
<1>3. Api \in Thread /\ p \in DOMAIN parents' /\ Api # p
  <2>1. p \in DOMAIN parents' /\ DOMAIN parents' \subseteq 1 .. MaxParents
    BY <1>2 DEF OrderOnly, IInv, Family
  <2> QED  BY <2>1, OmsAssumption DEF Api, Thread
<1>4. \A f \in DOMAIN fills' \ DOMAIN fills : parents[p].status # "Cancelled"
  BY <1>2, <1>3 DEF Stays
<1>5. /\ CancelKept(db["parents"], parents')
      /\ \A u \in Thread : \A i \in 1 .. Len(writes'[u]) : PendLive(writes'[u][i], parents', children')
  BY <1>1, <1>3, <1>4, ChangesCancelled
<1>6. LegsClosed(jobs', parents', children')
  <2> SUFFICES ASSUME NEW x \in DOMAIN jobs', jobs'[x].pc \in Leg, parents'[x].status = "Cancelled"
               PROVE  Terminal(children'[jobs'[x].child].status)
    BY DEF LegsClosed
  <2> DEFINE c == jobs[x].child
  <2>1. x \in DOMAIN jobs /\ jobs[x].pc \in Leg /\ jobs'[x].child = c
    BY <1>1 DEF SameJobs
  <2>2. parents[x].status = "Cancelled" => Terminal(children[c].status)
    BY <1>1, <2>1 DEF CInv, LegsClosed
  <2>3. CASE x # p
    <3>1. children'[c] = children[c] /\ parents'[x] = parents[x]
      BY <1>1, <2>1, <2>3, OtherLegs
    <3> QED  BY <2>1, <2>2, <3>1
  <2>4. CASE x = p
    <3>1. c \in DOMAIN children /\ children[c].parent = p /\ p \in DOMAIN parents
      BY <2>1, <2>4 DEF TInv, LegsOwn, IInv, Working, Leg
    <3>2. c \in DOMAIN children' /\ children'[c].parent = p
      BY <1>2, <3>1 DEF OrderOnly
    <3> HIDE DEF c
    <3>3. CASE parents[p].status = "Cancelled"
      BY <1>2, <2>1, <2>2, <2>4, <3>1, <3>3 DEF Stays
    <3>4. CASE parents[p].status # "Cancelled"
      BY <1>2, <2>1, <2>4, <3>1, <3>2, <3>4 DEF Stays
    <3> QED  BY <3>3, <3>4
  <2> QED  BY <2>3, <2>4
<1> QED  BY <1>1, <1>5, <1>6 DEF CInv

LEMMA StoresCancelled ==
  ASSUME TInv, CInv, NEW t \in Thread, NEW w, Stores(t, w)
  PROVE  CInv'
<1>1. /\ Shifts(t, w) /\ parents' = parents /\ children' = children /\ fills' = fills
      /\ jobs' = jobs /\ phase' = phase /\ phase # "down"
  BY DEF Stores, memory
<1>2. \A u \in Thread : \A i \in 1 .. Len(writes'[u]) : PendLive(writes'[u][i], parents, children)
  <2>1. \A u \in Thread : \A i \in 1 .. Len(writes'[u]) :
          \E j \in 1 .. Len(writes[u]) : writes'[u][i] = writes[u][j]
    BY <1>1, ShiftRows
  <2> QED  BY <1>1, <2>1 DEF CInv
<1>3. PendLive(w, parents, children)
  BY <1>1 DEF Shifts, CInv
<1>4. CancelKept(db'["parents"], parents)
  <2>1. CASE db' = db
    BY <1>1, <2>1 DEF CInv
  <2>2. CASE StoredIn(w)
    <3>1. CASE w.table = "parents"
      BY <1>1, <1>3, <2>2, <3>1 DEF CInv, CancelKept, StoredIn, PendLive
    <3>2. CASE w.table # "parents"
      <4>1. db'["parents"] = db["parents"]
        BY <2>2, <3>2 DEF StoredIn, Table
      <4> QED  BY <1>1, <4>1 DEF CInv
    <3> QED  BY <3>1, <3>2
  <2> QED  BY <2>1, <2>2 DEF Stores
<1> QED  BY <1>1, <1>2, <1>4 DEF CInv

LEMMA RestartCancelled ==
  ASSUME TInv, Restarts
  PROVE  CInv'
<1>1. \A t \in Thread : writes'[t] = <<>>
  BY DEF Restarts, TInv
<1>2. \A t \in Thread : 1 .. Len(writes'[t]) = {}
  <2>1. Len(<<>>) = 0
    OBVIOUS
  <2> QED  BY <1>1, <2>1
<1>3. CancelKept(db'["parents"], parents')
  BY DEF Restarts, CancelKept, Loaded, Table
<1>4. LegsClosed(jobs', parents', children')
  BY DEF Restarts, LegsClosed
<1> QED  BY <1>2, <1>3, <1>4 DEF CInv

LEMMA RestsCancelled ==
  ASSUME CInv, Rests
  PROVE  CInv'
<1>1. /\ parents' = parents /\ children' = children /\ fills' = fills /\ jobs' = jobs
      /\ writes' = writes /\ db' = db
      /\ phase' = phase \/ (phase # "down" /\ phase' # "down")
  BY DEF Rests, memory
<1> QED  BY <1>1 DEF CInv

LEMMA Cancellation == Spec => []CInv
<1>1. Init => CInv
  <2> SUFFICES ASSUME Init PROVE CInv
    OBVIOUS
  <2>1. /\ jobs = <<>> /\ writes = NoWrites
        /\ db = [parents |-> <<>>, children |-> <<>>, fills |-> <<>>, drops |-> <<>>,
                 jobs |-> <<>>, requests |-> <<>>]
    BY DEF Init, OmsInit
  <2>2. DOMAIN jobs = {} /\ DOMAIN db["parents"] = {}
    BY <2>1
  <2>3. \A t \in Thread : 1 .. Len(writes[t]) = {}
    <3>1. Len(<<>>) = 0
      OBVIOUS
    <3> QED  BY <2>1, <3>1 DEF NoWrites
  <2> QED  BY <2>2, <2>3 DEF CInv, CancelKept, LegsClosed
<1>2. ASSUME Crash PROVE CInv'
  BY <1>2 DEF Crash, CInv
<1>3. IInv /\ IInv' /\ TInv /\ CInv /\ [Next]_vars => CInv'
  BY <1>2, NextActs, JobActsCancelled, ApiActsCancelled, StoresCancelled, RestartCancelled,
     RestsCancelled DEF Acts
<1> QED  BY <1>1, <1>3, Invariance, Typing, PTL DEF Spec

LEMMA CancelledStep ==
  ASSUME IInv, TInv, TInv', CInv, [Next]_vars, NEW p \in DOMAIN db["parents"],
         db["parents"][p].status = "Cancelled"
  PROVE  FilledOf(p, db'["fills"]) = FilledOf(p, db["fills"])
<1>1. Acts
  BY NextActs
<1>2. CASE db'["fills"] = db["fills"]
  BY <1>2
<1>3. ASSUME NEW t \in Thread, NEW w, Stores(t, w), w.table = "fills"
      PROVE  FilledOf(p, db'["fills"]) = FilledOf(p, db["fills"])
  <2>1. /\ Shifts(t, w) /\ StoredIn(w) /\ phase # "down" /\ phase' # "down" /\ fills' = fills
    BY <1>3 DEF Stores, memory
  <2>2. PendLive(w, parents, children) /\ PendTyped(t, w, fills, jobs)
    BY <2>1 DEF Shifts, CInv, TInv, Pending
  <2>3. w.row.parent # p
    BY <1>3, <2>1, <2>2 DEF CInv, CancelKept, PendLive
  <2>4. /\ DOMAIN db'["fills"] = DOMAIN db["fills"] \cup {w.id} /\ db'["fills"][w.id] = w.row
        /\ \A x \in DOMAIN db["fills"] : x # w.id => db'["fills"][x] = db["fills"][x]
    BY <1>3, <2>1 DEF StoredIn
  <2>5. FillTable(db["fills"]) /\ FillTable(db'["fills"])
    BY DEF TInv, Typed
  <2>6. FillsKept(db["fills"], fills)
    BY <2>1 DEF TInv
  <2>7. FillsKept(db["fills"], db'["fills"])
    BY <1>3, <2>2, <2>4, <2>6 DEF FillsKept, PendTyped
  <2>8. \A f \in DOMAIN db'["fills"] \ DOMAIN db["fills"] : db'["fills"][f].parent # p
    BY <2>3, <2>4
  <2> QED  BY <2>5, <2>7, <2>8, FilledGrows
<1>4. ASSUME NEW t \in Thread, NEW w, Stores(t, w), w.table # "fills"
      PROVE  db'["fills"] = db["fills"]
  BY <1>4 DEF Stores, StoredIn, Table
<1>5. CASE Crash \/ Restarts \/ Rests
  BY <1>2, <1>5 DEF Crash, Restarts, Rests, Table
<1>6. CASE (\E x, job : JobActs(x, job)) \/ (\E x : ApiActs(x))
  BY <1>2, <1>6 DEF JobActs, ApiActs, Frame
<1> QED  BY <1>1, <1>2, <1>3, <1>4, <1>5, <1>6 DEF Acts

(* An order that is on record as cancelled gets no fill on record any      *)
(* more, for any number of orders, requests and crashes, whatever the      *)
(* API cancels child by child, and also by a job that a restart resumes    *)
(* before the mutation callback is there: run_job leaves a cancelled job   *)
(* on record as running, but create_child refuses its order.               *)
THEOREM NoFillAfterCancel == Spec => CancelledForGood
<1>1. IInv /\ TInv /\ TInv' /\ CInv /\ [Next]_vars =>
        [\A p \in DOMAIN db.parents : db.parents[p].status = "Cancelled" =>
           FilledOf(p, db'.fills) = FilledOf(p, db.fills)]_db
  BY CancelledStep
<1> QED  BY <1>1, Invariance, Typing, Cancellation, PTL DEF Spec, CancelledForGood


-----------------------------------------------------------------------------
(* What a job counts is in the fills.                                      *)

Covered(n, p, fs) == n <= FilledOf(p, fs)

(* A fill in memory is on record or on its way.                            *)
FillsSaved(fs, rows, ws) ==
  \A f \in DOMAIN fs : f \in DOMAIN rows \/ Pends(ws[fs[f].parent], "fills", f)

PendCovered(w, rows) == w.table = "jobs" => Covered(w.row.filled, w.id, rows)

JInv ==
  ~early =>
    /\ \A p \in DOMAIN db["jobs"] : Covered(db["jobs"][p].filled, p, db["fills"])
    /\ phase # "down" =>
         /\ FillsSaved(fills, db["fills"], writes)
         /\ \A p \in DOMAIN jobs : Covered(Counted(jobs[p]), p, fills)
         /\ \A t \in Thread : \A i \in 1 .. Len(writes[t]) : PendCovered(writes[t][i], db["fills"])

LEMMA StoresFills ==
  ASSUME TInv, TInv', NEW t \in Thread, NEW w, Stores(t, w)
  PROVE  /\ FillTable(db["fills"]) /\ FillTable(db'["fills"]) /\ FillsKept(db["fills"], db'["fills"])
         /\ \A table \in Table : DOMAIN db[table] \subseteq DOMAIN db'[table]
<1>1. FillTable(db["fills"]) /\ FillTable(db'["fills"])
  BY DEF TInv, Typed
<1>2. /\ FillsKept(db["fills"], fills) /\ FillsKept(db'["fills"], fills)
  BY DEF TInv, Stores, memory
<1>3. \A table \in Table : DOMAIN db[table] \subseteq DOMAIN db'[table]
  <2>1. CASE db' = db
    BY <2>1
  <2>2. CASE StoredIn(w)
    BY <2>2 DEF StoredIn
  <2> QED  BY <2>1, <2>2 DEF Stores
<1>4. FillsKept(db["fills"], db'["fills"])
  <2>1. DOMAIN db["fills"] \subseteq DOMAIN db'["fills"]
    BY <1>3 DEF Table
  <2> QED  BY <1>2, <2>1 DEF FillsKept
<1> QED  BY <1>1, <1>3, <1>4

LEMMA NoPends ==
  ASSUME NEW table, NEW id
  PROVE  ~Pends(<<>>, table, id)
<1>1. Len(<<>>) = 0
  OBVIOUS
<1> QED  BY <1>1 DEF Pends

(* The fills of an order whose thread is in no callback are on record.     *)
LEMMA QuietFilled ==
  ASSUME TInv, phase # "down", FillsSaved(fills, db["fills"], writes), NEW p, writes[p] = <<>>
  PROVE  FilledOf(p, fills) = FilledOf(p, db["fills"])
<1>1. FillTable(db["fills"]) /\ FillTable(fills) /\ FillsKept(db["fills"], fills)
  BY DEF TInv, Typed
<1>2. \A f \in DOMAIN fills \ DOMAIN db["fills"] : fills[f].parent # p
  BY NoPends DEF FillsSaved
<1> QED  BY <1>1, <1>2, FilledGrows

(* A step that tells the callback keeps the fills saved.                   *)
LEMMA ChangesSaved ==
  ASSUME IInv, TInv, FillsSaved(fills, db["fills"], writes), NEW t \in Thread, NEW p,
         Changes(t, p), callback_set \/ UNCHANGED memory, db' = db
  PROVE  FillsSaved(fills', db["fills"], writes')
<1>1. OrderOnly(p) /\ Stays(t, p) /\ Carries(p, writes'[t]) /\ writes[t] = <<>>
  BY DEF Changes
<1>2. \A u \in Thread \ {t} : writes'[u] = writes[u]
  BY DEF Changes
<1>3. Covers(p, writes'[t]) \/ UNCHANGED memory
  BY DEF Changes
<1>4. ASSUME NEW f \in DOMAIN fills', f \notin DOMAIN db["fills"]
      PROVE  Pends(writes'[fills'[f].parent], "fills", f)
  <2>1. CASE f \in DOMAIN fills
    <3>1. fills'[f] = fills[f]
      BY <1>1, <2>1 DEF OrderOnly
    <3> DEFINE x == fills[f].parent
    <3>2. x \in Thread
      BY <2>1, OmsAssumption DEF TInv, Typed, IInv, Family, Thread
    <3>3. Pends(writes[x], "fills", f)
      BY <1>4, <2>1 DEF FillsSaved
    <3> HIDE DEF x
    <3>4. x # t
      BY <1>1, <3>3, NoPends
    <3>5. writes'[x] = writes[x]
      BY <1>2, <3>2, <3>4
    <3> QED  BY <3>1, <3>3, <3>5 DEF x
  <2>2. CASE f \notin DOMAIN fills
    <3>1. Covers(p, writes'[t])
      BY <1>3, <2>2 DEF memory
    <3>2. Pends(writes'[t], "fills", f)
      BY <2>2, <3>1 DEF Covers
    <3>3. t = p
      BY <1>1, <2>2 DEF Stays
    <3>4. PICK i \in 1 .. Len(writes'[t]) : writes'[t][i].table = "fills" /\ writes'[t][i].id = f
      BY <3>2 DEF Pends
    <3>5. fills'[f].parent = p
      BY <1>1, <3>4 DEF Carries, Carried
    <3> QED  BY <3>2, <3>3, <3>5
  <2> QED  BY <2>1, <2>2
<1> QED  BY <1>4 DEF FillsSaved

LEMMA FillsGrow ==
  ASSUME TInv, NEW t, NEW p, Changes(t, p)
  PROVE  /\ FillTable(fills) /\ FillTable(fills') /\ FillsKept(fills, fills')
         /\ \A x : FilledOf(x, fills) \in Nat /\ FilledOf(x, fills') \in Nat
                   /\ FilledOf(x, fills) <= FilledOf(x, fills')
<1>1. FillTable(fills) /\ FillTable(fills') /\ FillsKept(fills, fills')
  BY DEF TInv, Typed, Changes, OrderOnly, FillsKept
<1> QED  BY <1>1, FilledGrows

LEMMA CountedNat ==
  ASSUME NEW j, JobTyped(j)
  PROVE  Counted(j) \in Nat /\ j.filled \in Nat /\ j.filled <= Counted(j)
BY DEF JobTyped, Counted

(* What the thread of a job counts it has filled.                          *)
LEMMA WorkedCovered ==
  ASSUME TInv, TInv', NEW p \in DOMAIN jobs, NEW job, JobTyped(job), Worked(p, job), Changes(p, p),
         Covered(Counted(jobs[p]), p, fills)
  PROVE  Covered(Counted(job), p, fills')
<1>1. /\ FillTable(fills) /\ FillTable(fills') /\ FillsKept(fills, fills')
      /\ FilledOf(p, fills) \in Nat /\ FilledOf(p, fills') \in Nat
      /\ FilledOf(p, fills) <= FilledOf(p, fills')
  BY FillsGrow
<1>2. JobTyped(jobs[p])
  BY DEF TInv
<1>3. Counted(jobs[p]) \in Nat /\ Counted(job) \in Nat
  BY <1>2, CountedNat
<1>4. Counted(jobs[p]) <= FilledOf(p, fills)
  BY DEF Covered
<1>5. CASE Counted(job) <= Counted(jobs[p])
  BY <1>1, <1>3, <1>4, <1>5 DEF Covered
<1>6. CASE \E q \in Quantity : \E f :
             FillUpdated(p, p, job.child, q, f) /\ Counted(job) = Counted(jobs[p]) + q
  <2>0. PICK q \in Quantity : \E f :
             FillUpdated(p, p, job.child, q, f) /\ Counted(job) = Counted(jobs[p]) + q
    BY <1>6
  <2>1. PICK f : FillUpdated(p, p, job.child, q, f) /\ Counted(job) = Counted(jobs[p]) + q
    BY <2>0
  <2>2. PICK fill : /\ fill = [parent |-> p, child |-> job.child, quantity |-> q]
                    /\ DOMAIN fills' = DOMAIN fills \cup {f} /\ fills'[f] = fill
    BY <2>1 DEF FillUpdated
  <2>3. f \notin DOMAIN fills
    BY <2>1 DEF FillUpdated
  <2>4. fills'[f].parent = p /\ fills'[f].quantity = q
    BY <2>2
  <2>5. FilledOf(p, fills') = FilledOf(p, fills) + q
    BY <1>1, <2>2, <2>3, <2>4, FilledAdds
  <2>6. q \in Nat
    BY OmsAssumption DEF Quantity
  <2> QED  BY <1>1, <1>3, <1>4, <2>1, <2>5, <2>6 DEF Covered
<1>7. Counted(job) = Counted(jobs[p]) => Counted(job) <= Counted(jobs[p])
  BY <1>3
<1> QED  BY <1>5, <1>6, <1>7 DEF Worked

LEMMA CoveredLater ==
  ASSUME NEW n \in Nat, NEW p, NEW fs, NEW gs, FillTable(fs), FillTable(gs), FillsKept(fs, gs),
         Covered(n, p, fs)
  PROVE  Covered(n, p, gs)
<1>1. FilledOf(p, fs) \in Nat /\ FilledOf(p, gs) \in Nat /\ FilledOf(p, fs) <= FilledOf(p, gs)
  BY FilledGrows
<1> QED  BY <1>1 DEF Covered

LEMMA JobActsCovered ==
  ASSUME IInv, IInv', TInv, TInv', JInv, NEW p, NEW job, JobActs(p, job)
  PROVE  JInv'
<1> SUFFICES ASSUME ~early' PROVE JInv'
  BY DEF JInv
<1>1. /\ p \in DOMAIN jobs /\ Moves(p, job) /\ JobTyped(job) /\ Worked(p, job) /\ Changes(p, p)
      /\ db' = db /\ phase' = phase /\ phase # "down" /\ ~early
      /\ callback_set \/ UNCHANGED memory
  BY DEF JobActs, Steps, Frame
<1>2. p \in Thread
  BY <1>1, OmsAssumption DEF IInv, Working, Family, Thread
<1>3. /\ \A x \in DOMAIN db["jobs"] : Covered(db["jobs"][x].filled, x, db["fills"])
      /\ FillsSaved(fills, db["fills"], writes)
      /\ \A x \in DOMAIN jobs : Covered(Counted(jobs[x]), x, fills)
      /\ \A t \in Thread : \A i \in 1 .. Len(writes[t]) : PendCovered(writes[t][i], db["fills"])
  BY <1>1 DEF JInv
<1>4. FillsSaved(fills', db["fills"], writes')
  BY <1>1, <1>2, <1>3, ChangesSaved
<1>5. Covered(Counted(job), p, fills')
  BY <1>1, <1>3, WorkedCovered
<1>6. \A x \in DOMAIN jobs' : Covered(Counted(jobs'[x]), x, fills')
  <2> SUFFICES ASSUME NEW x \in DOMAIN jobs' PROVE Covered(Counted(jobs'[x]), x, fills')
    OBVIOUS
  <2>1. CASE x = p
    BY <1>1, <1>5, <2>1 DEF Moves
  <2>2. CASE x # p
    <3>1. x \in DOMAIN jobs /\ jobs'[x] = jobs[x]
      BY <1>1, <2>2 DEF Moves
    <3>2. Counted(jobs[x]) \in Nat
      BY <3>1, CountedNat DEF TInv
    <3>3. FillTable(fills) /\ FillTable(fills') /\ FillsKept(fills, fills')
      BY <1>1, FillsGrow
    <3> QED  BY <1>3, <3>1, <3>2, <3>3, CoveredLater
  <2> QED  BY <2>1, <2>2
<1>7. ASSUME NEW t \in Thread, NEW i \in 1 .. Len(writes'[t])
      PROVE  PendCovered(writes'[t][i], db["fills"])
  <2>1. CASE t # p
    <3>1. writes'[t] = writes[t]
      BY <1>1, <2>1 DEF Changes
    <3> QED  BY <1>3, <3>1
  <2>2. CASE t = p
    <3> DEFINE w == writes'[p][i]
    <3>1. Carried(p, writes'[p], i) /\ writes[p] = <<>>
      BY <1>1, <2>2 DEF Changes, Carries
    <3>2. w.table = "jobs" => w.id = p /\ w.row.filled = jobs'[p].filled /\ fills' = fills
      BY <3>1 DEF Carried
    <3> HIDE DEF w
    <3>3. ASSUME w.table = "jobs" PROVE Covered(w.row.filled, w.id, db["fills"])
      <4>1. w.id = p /\ w.row.filled = job.filled /\ fills' = fills
        BY <1>1, <3>2, <3>3 DEF Moves
      <4>2. FilledOf(p, fills') = FilledOf(p, db["fills"])
        BY <1>1, <1>3, <3>1, <4>1, QuietFilled
      <4>3. Counted(job) \in Nat /\ job.filled \in Nat /\ job.filled <= Counted(job)
        BY <1>1, CountedNat
      <4>4. Counted(job) <= FilledOf(p, db["fills"])
        BY <1>5, <4>2 DEF Covered
      <4>5. FilledOf(p, fills') \in Nat
        BY <1>1, FillsGrow
      <4>6. job.filled <= FilledOf(p, db["fills"])
        BY <4>2, <4>3, <4>4, <4>5
      <4> QED  BY <4>1, <4>6 DEF Covered
    <3> QED  BY <2>2, <3>3 DEF PendCovered, w
  <2> QED  BY <2>1, <2>2
<1> QED  BY <1>1, <1>3, <1>4, <1>6, <1>7 DEF JInv

LEMMA ApiActsCovered ==
  ASSUME IInv, IInv', TInv, TInv', JInv, NEW p, ApiActs(p)
  PROVE  JInv'
<1> SUFFICES ASSUME ~early' PROVE JInv'
  BY DEF JInv
<1>1. /\ SameJobs /\ Changes(Api, p) /\ db' = db /\ phase' = phase /\ phase # "down" /\ ~early
      /\ callback_set
      /\ \A i \in 1 .. Len(writes'[Api]) : writes'[Api][i].table = "jobs" => Counted(jobs'[p]) = 0
  BY DEF ApiActs, Frame
<1>2. Api \in Thread
  BY OmsAssumption DEF Api, Thread
<1>3. /\ \A x \in DOMAIN db["jobs"] : Covered(db["jobs"][x].filled, x, db["fills"])
      /\ FillsSaved(fills, db["fills"], writes)
      /\ \A x \in DOMAIN jobs : Covered(Counted(jobs[x]), x, fills)
      /\ \A t \in Thread : \A i \in 1 .. Len(writes[t]) : PendCovered(writes[t][i], db["fills"])
  BY <1>1 DEF JInv
<1>4. FillsSaved(fills', db["fills"], writes')
  BY <1>1, <1>2, <1>3, ChangesSaved
<1>5. \A x \in DOMAIN jobs' : Covered(Counted(jobs'[x]), x, fills')
  <2> SUFFICES ASSUME NEW x \in DOMAIN jobs' PROVE Covered(Counted(jobs'[x]), x, fills')
    OBVIOUS
  <2>1. /\ FillTable(fills) /\ FillTable(fills') /\ FillsKept(fills, fills')
        /\ FilledOf(x, fills') \in Nat
    BY <1>1, FillsGrow
  <2>2. CASE Counted(jobs'[x]) = 0
    BY <2>1, <2>2 DEF Covered
  <2>3. CASE x \in DOMAIN jobs /\ Counted(jobs'[x]) = Counted(jobs[x])
    <3>1. Counted(jobs[x]) \in Nat
      BY <2>3, CountedNat DEF TInv
    <3>2. Covered(Counted(jobs[x]), x, fills')
      BY <1>3, <2>1, <2>3, <3>1, CoveredLater
    <3> QED  BY <2>3, <3>2
  <2> QED  BY <1>1, <2>2, <2>3 DEF SameJobs
<1>6. ASSUME NEW t \in Thread, NEW i \in 1 .. Len(writes'[t])
      PROVE  PendCovered(writes'[t][i], db["fills"])
  <2>1. CASE t # Api
    <3>1. writes'[t] = writes[t]
      BY <1>1, <2>1 DEF Changes
    <3> QED  BY <1>3, <3>1
  <2>2. CASE t = Api
    <3> DEFINE w == writes'[Api][i]
    <3>1. Carried(p, writes'[Api], i) /\ (w.table = "jobs" => Counted(jobs'[p]) = 0)
      BY <1>1, <2>2 DEF Changes, Carries
    <3>2. w.table = "jobs" => w.id = p /\ p \in DOMAIN jobs' /\ w.row.filled = jobs'[p].filled
      BY <3>1 DEF Carried
    <3> HIDE DEF w
    <3>3. ASSUME w.table = "jobs" PROVE Covered(w.row.filled, w.id, db["fills"])
      <4>1. JobTyped(jobs'[p])
        BY <1>1, <3>2, <3>3 DEF SameJobs
      <4>2. /\ Counted(jobs'[p]) = 0 /\ jobs'[p].filled \in Nat
            /\ jobs'[p].filled <= Counted(jobs'[p])
        BY <3>1, <3>3, <4>1, CountedNat
      <4>3. jobs'[p].filled = 0
        BY <4>2
      <4>4. FilledOf(p, db["fills"]) \in Nat
        <5>1. FillTable(db["fills"]) /\ FillsKept(db["fills"], db["fills"])
          BY DEF TInv, Typed, FillsKept
        <5> QED  BY <5>1, FilledGrows
      <4> QED  BY <3>2, <3>3, <4>3, <4>4 DEF Covered
    <3> QED  BY <2>2, <3>3 DEF PendCovered, w
  <2> QED  BY <2>1, <2>2
<1> QED  BY <1>1, <1>3, <1>4, <1>5, <1>6 DEF JInv

LEMMA StoresCovered ==
  ASSUME IInv, TInv, TInv', JInv, NEW t \in Thread, NEW w, Stores(t, w)
  PROVE  JInv'
<1> SUFFICES ASSUME ~early' PROVE JInv'
  BY DEF JInv
<1>1. /\ Shifts(t, w) /\ parents' = parents /\ children' = children /\ fills' = fills
      /\ jobs' = jobs /\ phase' = phase /\ phase # "down" /\ ~early
      /\ (db' = db /\ w.table = "positions") \/ StoredIn(w)
  BY DEF Stores, memory
<1>2. /\ \A x \in DOMAIN db["jobs"] : Covered(db["jobs"][x].filled, x, db["fills"])
      /\ FillsSaved(fills, db["fills"], writes)
      /\ \A x \in DOMAIN jobs : Covered(Counted(jobs[x]), x, fills)
      /\ \A u \in Thread : \A i \in 1 .. Len(writes[u]) : PendCovered(writes[u][i], db["fills"])
  BY <1>1 DEF JInv
<1>3. /\ FillTable(db["fills"]) /\ FillTable(db'["fills"]) /\ FillsKept(db["fills"], db'["fills"])
      /\ DOMAIN db["fills"] \subseteq DOMAIN db'["fills"]
  BY StoresFills DEF Table
<1>4. FillsSaved(fills, db'["fills"], writes')
  <2> SUFFICES ASSUME NEW f \in DOMAIN fills, f \notin DOMAIN db'["fills"]
               PROVE  Pends(writes'[fills[f].parent], "fills", f)
    BY DEF FillsSaved
  <2> DEFINE x == fills[f].parent
  <2>1. x \in Thread
    BY OmsAssumption DEF TInv, Typed, IInv, Family, Thread
  <2>2. Pends(writes[x], "fills", f)
    BY <1>2, <1>3 DEF FillsSaved
  <2> HIDE DEF x
  <2>3. Pends(writes'[x], "fills", f) \/ (x = t /\ w.table = "fills" /\ w.id = f)
    BY <1>1, <2>1, <2>2, ShiftPends
  <2>4. ~(w.table = "fills" /\ w.id = f)
    BY <1>1 DEF StoredIn
  <2> QED  BY <2>3, <2>4 DEF x
<1>5. \A u \in Thread : \A i \in 1 .. Len(writes[u]) :
        PendTyped(u, writes[u][i], fills, jobs) /\ PendCovered(writes[u][i], db["fills"])
  BY <1>2 DEF TInv, Pending
<1>6. \A u \in Thread : \A i \in 1 .. Len(writes[u]) : PendCovered(writes[u][i], db'["fills"])
  <2> SUFFICES ASSUME NEW u \in Thread, NEW i \in 1 .. Len(writes[u]), writes[u][i].table = "jobs"
               PROVE  Covered(writes[u][i].row.filled, writes[u][i].id, db'["fills"])
    BY DEF PendCovered
  <2>1. writes[u][i].row.filled \in Nat /\ Covered(writes[u][i].row.filled, writes[u][i].id, db["fills"])
    BY <1>5 DEF PendTyped, PendCovered
  <2> QED  BY <1>3, <2>1, CoveredLater
<1>7. \A u \in Thread : \A i \in 1 .. Len(writes'[u]) : PendCovered(writes'[u][i], db'["fills"])
  <2>1. \A u \in Thread : \A i \in 1 .. Len(writes'[u]) :
          \E j \in 1 .. Len(writes[u]) : writes'[u][i] = writes[u][j]
    BY <1>1, ShiftRows
  <2> QED  BY <1>6, <2>1
<1>8. \A x \in DOMAIN db'["jobs"] : Covered(db'["jobs"][x].filled, x, db'["fills"])
  <2>1. PendCovered(w, db'["fills"])
    BY <1>1, <1>6 DEF Shifts
  <2>2. \A x \in DOMAIN db["jobs"] : Covered(db["jobs"][x].filled, x, db'["fills"])
    <3> TAKE x \in DOMAIN db["jobs"]
    <3>1. db["jobs"][x].filled \in Nat /\ Covered(db["jobs"][x].filled, x, db["fills"])
      BY <1>2 DEF TInv, JobRows
    <3> QED  BY <1>3, <3>1, CoveredLater
  <2>3. CASE db' = db
    BY <2>2, <2>3
  <2>4. CASE StoredIn(w)
    <3>1. CASE w.table = "jobs"
      BY <2>1, <2>2, <2>4, <3>1 DEF StoredIn, PendCovered
    <3>2. CASE w.table # "jobs"
      <4>1. db'["jobs"] = db["jobs"]
        BY <2>4, <3>2 DEF StoredIn, Table
      <4> QED  BY <2>2, <4>1
    <3> QED  BY <3>1, <3>2
  <2> QED  BY <1>1, <2>3, <2>4
<1> QED  BY <1>1, <1>2, <1>4, <1>7, <1>8 DEF JInv

LEMMA RestartCovered ==
  ASSUME TInv, JInv, Restarts
  PROVE  JInv'
<1> SUFFICES ASSUME ~early' PROVE JInv'
  BY DEF JInv
<1>1. ~early /\ \A x \in DOMAIN db["jobs"] : Covered(db["jobs"][x].filled, x, db["fills"])
  BY DEF JInv, Restarts
<1>2. /\ db'["fills"] = db["fills"] /\ fills' = db["fills"]
      /\ DOMAIN db'["jobs"] = DOMAIN db["jobs"] /\ DOMAIN jobs' = DOMAIN db["jobs"]
  BY DEF Restarts, Table
<1>3. \A x \in DOMAIN db["jobs"] :
        db'["jobs"][x].filled = db["jobs"][x].filled /\ Counted(jobs'[x]) = db["jobs"][x].filled
  BY DEF Restarts
<1>4. FillsSaved(fills', db'["fills"], writes')
  BY <1>2 DEF FillsSaved
<1>5. \A t \in Thread : 1 .. Len(writes'[t]) = {}
  <2>1. \A t \in Thread : writes'[t] = <<>>
    BY DEF Restarts, TInv
  <2>2. Len(<<>>) = 0
    OBVIOUS
  <2> QED  BY <2>1, <2>2
<1> QED  BY <1>1, <1>2, <1>3, <1>4, <1>5 DEF JInv

LEMMA RestsCovered ==
  ASSUME JInv, Rests
  PROVE  JInv'
<1>1. /\ parents' = parents /\ children' = children /\ fills' = fills /\ jobs' = jobs
      /\ writes' = writes /\ db' = db /\ early' = early
      /\ phase' = phase \/ (phase # "down" /\ phase' # "down")
  BY DEF Rests, memory
<1> QED  BY <1>1 DEF JInv

LEMMA Coverage == Spec => []JInv
<1>1. Init => JInv
  <2> SUFFICES ASSUME Init PROVE JInv
    OBVIOUS
  <2>1. /\ jobs = <<>> /\ writes = NoWrites /\ fills = <<>>
        /\ db = [parents |-> <<>>, children |-> <<>>, fills |-> <<>>, drops |-> <<>>,
                 jobs |-> <<>>, requests |-> <<>>]
    BY DEF Init, OmsInit
  <2>2. DOMAIN jobs = {} /\ DOMAIN db["jobs"] = {} /\ DOMAIN fills = {}
    BY <2>1
  <2>3. \A t \in Thread : 1 .. Len(writes[t]) = {}
    <3>1. Len(<<>>) = 0
      OBVIOUS
    <3> QED  BY <2>1, <3>1 DEF NoWrites
  <2> QED  BY <2>2, <2>3 DEF JInv, FillsSaved
<1>2. ASSUME JInv, Crash PROVE JInv'
  <2>1. db' = db /\ phase' = "down" /\ early' = early
    BY <1>2 DEF Crash
  <2> QED  BY <1>2, <2>1 DEF JInv
<1>3. IInv /\ IInv' /\ TInv /\ TInv' /\ JInv /\ [Next]_vars => JInv'
  BY <1>2, NextActs, JobActsCovered, ApiActsCovered, StoresCovered, RestartCovered,
     RestsCovered DEF Acts
<1> QED  BY <1>1, <1>3, Invariance, Typing, PTL DEF Spec

(* For any number of orders, requests and crashes, and whatever the API    *)
(* cancels: what run_job has put on record as filled is covered by fills   *)
(* on record, so a resumed job may repeat a slice but never skips one      *)
(* that was not executed, unless a recovered job was faster than the       *)
(* constructor of the API's state.                                         *)
THEOREM JobsCovered == Spec => []JobRowCovered
<1>1. JInv => JobRowCovered
  BY DEF JInv, JobRowCovered, Covered
<1> QED  BY <1>1, Coverage, PTL

-----------------------------------------------------------------------------
(* The fills the positions count.                                          *)

Counting(fs, ns, ws) ==
  /\ ns \subseteq DOMAIN fs
  /\ \A f \in DOMAIN fs : f \in ns \/ \E t \in Thread : Pends(ws[t], "positions", f)

NInv ==
  /\ phase = "down" => DOMAIN parents = {}
  /\ phase \in {"resumed", "positions"} => ~callback_set
  /\ ~early /\ phase = "resumed" => DOMAIN fills \subseteq DOMAIN db["fills"]
  /\ ~early /\ phase \notin {"down", "resumed"} => Counting(fills, positions, writes)

LEMMA ChangesCounted ==
  ASSUME Counting(fills, positions, writes), NEW t \in Thread, NEW p, Changes(t, p),
         callback_set \/ UNCHANGED memory
  PROVE  Counting(fills', positions, writes')
<1>1. OrderOnly(p) /\ writes[t] = <<>> /\ (Covers(p, writes'[t]) \/ UNCHANGED memory)
  BY DEF Changes
<1>2. \A u \in Thread \ {t} : writes'[u] = writes[u]
  BY DEF Changes
<1>3. ASSUME NEW f \in DOMAIN fills', f \notin positions
      PROVE  \E u \in Thread : Pends(writes'[u], "positions", f)
  <2>1. CASE f \in DOMAIN fills
    <3>1. PICK u \in Thread : Pends(writes[u], "positions", f)
      BY <1>3, <2>1 DEF Counting
    <3>2. u # t
      BY <1>1, <3>1, NoPends
    <3> QED  BY <1>2, <3>1, <3>2
  <2>2. CASE f \notin DOMAIN fills
    BY <1>1, <2>2 DEF Covers, memory
  <2> QED  BY <2>1, <2>2
<1> QED  BY <1>1, <1>3 DEF Counting, OrderOnly

LEMMA JobActsCounted ==
  ASSUME IInv, NInv, NEW p, NEW job, JobActs(p, job)
  PROVE  NInv'
<1>1. /\ p \in DOMAIN jobs /\ Changes(p, p) /\ phase # "down"
      /\ db' = db /\ positions' = positions /\ callback_set' = callback_set /\ phase' = phase
      /\ ~early' => ~early /\ (callback_set \/ UNCHANGED memory)
  BY DEF JobActs, Steps, Frame
<1>2. p \in Thread
  BY <1>1, OmsAssumption DEF IInv, Working, Family, Thread
<1>3. ASSUME ~early', phase = "resumed" PROVE fills' = fills
  BY <1>1, <1>3 DEF NInv, memory
<1>4. ASSUME ~early', phase # "resumed" PROVE Counting(fills', positions', writes')
  BY <1>1, <1>2, <1>4, ChangesCounted DEF NInv
<1> QED  BY <1>1, <1>3, <1>4 DEF NInv

LEMMA ApiActsCounted ==
  ASSUME NInv, NEW p, ApiActs(p)
  PROVE  NInv'
<1>1. /\ Changes(Api, p) /\ phase = "serving" /\ callback_set /\ early' = early
      /\ positions' = positions /\ phase' = phase
  BY DEF ApiActs, Frame
<1>2. Api \in Thread
  BY OmsAssumption DEF Api, Thread
<1>3. ASSUME ~early PROVE Counting(fills', positions', writes')
  BY <1>1, <1>2, <1>3, ChangesCounted DEF NInv
<1> QED  BY <1>1, <1>3 DEF NInv

LEMMA StoresCounted ==
  ASSUME TInv, NInv, NEW t \in Thread, NEW w, Stores(t, w)
  PROVE  NInv'
<1>1. /\ Shifts(t, w) /\ parents' = parents /\ fills' = fills /\ phase' = phase
      /\ callback_set' = callback_set /\ early' = early
      /\ \/ w.table = "positions" /\ db' = db /\ positions' = positions \cup {w.id}
         \/ w.table # "positions" /\ StoredIn(w) /\ positions' = positions
  BY DEF Stores, memory
<1>2. DOMAIN db["fills"] \subseteq DOMAIN db'["fills"]
  <2>1. CASE db' = db
    BY <2>1
  <2>2. CASE StoredIn(w)
    BY <2>2 DEF StoredIn, Table
  <2> QED  BY <1>1, <2>1, <2>2
<1>3. ASSUME Counting(fills, positions, writes) PROVE Counting(fills, positions', writes')
  <2>1. positions' \subseteq DOMAIN fills
    <3>1. PendTyped(t, w, fills, jobs)
      BY <1>1 DEF TInv, Pending, Shifts
    <3>2. w.table = "positions" => w.id \in DOMAIN fills
      BY <3>1 DEF PendTyped
    <3> QED  BY <1>1, <1>3, <3>2 DEF Counting
  <2>2. ASSUME NEW f \in DOMAIN fills, f \notin positions'
        PROVE  \E u \in Thread : Pends(writes'[u], "positions", f)
    <3>1. PICK u \in Thread : Pends(writes[u], "positions", f)
      BY <1>1, <1>3, <2>2 DEF Counting
    <3>2. Pends(writes'[u], "positions", f) \/ (w.table = "positions" /\ w.id = f)
      BY <1>1, <3>1, ShiftPends
    <3> QED  BY <1>1, <2>2, <3>2
  <2> QED  BY <2>1, <2>2 DEF Counting
<1> QED  BY <1>1, <1>2, <1>3 DEF NInv

LEMMA RestsCounted ==
  ASSUME TInv, NInv, Rests
  PROVE  NInv'
<1>1. /\ parents' = parents /\ fills' = fills /\ writes' = writes /\ db' = db /\ early' = early
  BY DEF Rests, memory
<1>2. CASE phase' = phase /\ positions' = positions /\ callback_set' = callback_set
  BY <1>1, <1>2 DEF NInv
<1>3. CASE /\ phase = "resumed" /\ phase' = "positions" /\ positions' = DOMAIN db["fills"]
           /\ callback_set' = callback_set
  <2>1. ASSUME ~early PROVE Counting(fills', positions', writes')
    <3>1. DOMAIN fills \subseteq DOMAIN db["fills"] /\ DOMAIN db["fills"] \subseteq DOMAIN fills
      BY <1>3, <2>1 DEF NInv, TInv, FillsKept
    <3> QED  BY <1>1, <1>3, <3>1 DEF Counting
  <2> QED  BY <1>1, <1>3, <2>1 DEF NInv
<1>4. CASE phase = "positions" /\ phase' = "serving" /\ positions' = positions
  BY <1>1, <1>4 DEF NInv
<1> QED  BY <1>2, <1>3, <1>4 DEF Rests

LEMMA FillsCounted == Spec => []NInv
<1>1. Init => NInv
  <2> SUFFICES ASSUME Init PROVE NInv
    OBVIOUS
  <2>1. DOMAIN fills = {} /\ positions = {} /\ phase = "serving"
    BY DEF Init, OmsInit
  <2> QED  BY <2>1 DEF NInv, Counting
<1>2. ASSUME Crash PROVE NInv'
  <2>1. phase' = "down" /\ parents' = <<>>
    BY <1>2 DEF Crash
  <2> QED  BY <2>1 DEF NInv
<1>3. ASSUME Restarts PROVE NInv'
  <2>1. phase' = "resumed" /\ ~callback_set' /\ fills' = db["fills"] /\ db'["fills"] = db["fills"]
    BY <1>3 DEF Restarts, Table
  <2> QED  BY <2>1 DEF NInv
<1>4. IInv /\ TInv /\ NInv /\ [Next]_vars => NInv'
  BY <1>2, <1>3, NextActs, JobActsCounted, ApiActsCounted, StoresCounted, RestsCounted DEF Acts
<1> QED  BY <1>1, <1>4, Invariance, Typing, PTL DEF Spec

-----------------------------------------------------------------------------
(* The figures of the orders, through crashes.                             *)

KidsOf(p, ks) == {c \in DOMAIN ks : ks[c].parent = p}
KidsFilled(p, ks) == SumOver(ks, KidsOf(p, ks))

(* The children show at least the fills, the parents at least what the     *)
(* children show.                                                          *)
Executed(p, ks, fs) == FilledOf(p, fs) <= KidsFilled(p, ks)
Shown(p, ps, ks) == KidsFilled(p, ks) <= ps[p].filled
ChildShows(c, ks, fs) == FilledOfChild(c, fs) <= ks[c].filled

Chain(ps, ks, fs) ==
  /\ \A p \in 1 .. MaxParents : Executed(p, ks, fs)
  /\ \A p \in DOMAIN ps : Shown(p, ps, ks)
  /\ \A c \in DOMAIN ks : ChildShows(c, ks, fs)

(* A leg that is open fits into what remains of its order.                 *)
LegFits(k, r) == ~Terminal(k.status) => k.remaining <= r.remaining
Room(js, ps, ks) == \A p \in DOMAIN js : js[p].pc \in Leg => LegFits(ks[js[p].child], ps[p])

Kids(ks) == DOMAIN ks \subseteq 1 .. MaxChildren /\ \A c \in DOMAIN ks : ks[c].filled \in Nat
Rises(c, ks, ls) == ks[c].filled <= ls[c].filled

LEMMA KidsFinite ==
  ASSUME NEW ks, Kids(ks), NEW p
  PROVE  /\ IsFiniteSet(KidsOf(p, ks)) /\ (\A c \in KidsOf(p, ks) : ks[c].filled \in Nat)
         /\ KidsFilled(p, ks) \in Nat
<1>1. KidsOf(p, ks) \subseteq 1 .. MaxChildren /\ \A c \in KidsOf(p, ks) : ks[c].filled \in Nat
  BY DEF Kids, KidsOf
<1>2. IsFiniteSet(1 .. MaxChildren)
  BY OmsAssumption, FS_Interval
<1>3. IsFiniteSet(KidsOf(p, ks))
  BY <1>1, <1>2, FS_Subset
<1> QED  BY <1>1, <1>3, SumTotal DEF KidsFilled

LEMMA KidsGrow ==
  ASSUME NEW ks, NEW ls, Kids(ks), Kids(ls), NEW p, KidsOf(p, ks) \subseteq KidsOf(p, ls),
         \A c \in KidsOf(p, ks) : Rises(c, ks, ls)
  PROVE  KidsFilled(p, ks) <= KidsFilled(p, ls)
<1> DEFINE S == KidsOf(p, ks)
           U == KidsOf(p, ls)
           f == [c \in S |-> ks[c].filled]
           g == [c \in U |-> ls[c].filled]
<1>1. /\ IsFiniteSet(S) /\ IsFiniteSet(U)
      /\ \A c \in S : ks[c].filled \in Nat
      /\ \A c \in U : ls[c].filled \in Nat
  BY KidsFinite
<1>2. S \subseteq U /\ \A c \in S : ks[c].filled <= ls[c].filled
  BY DEF Rises
<1>3. KidsFilled(p, ks) = SumFunctionOnSet(f, S) /\ KidsFilled(p, ls) = SumFunctionOnSet(g, U)
  <2> HIDE DEF S, U
  <2>1. SumOver(ks, S) = SumFunctionOnSet(f, S)
    BY <1>1, SumTotal
  <2>2. SumOver(ls, U) = SumFunctionOnSet(g, U)
    BY <1>1, SumTotal
  <2> QED  BY <2>1, <2>2 DEF KidsFilled, S, U
<1> HIDE DEF S, U
<1>4. \A c \in U : g[c] \in Nat
  BY <1>1
<1>5. \A c \in S : f[c] \in Nat /\ f[c] <= g[c]
  BY <1>1, <1>2
<1> HIDE DEF f, g
<1> QED  BY <1>1, <1>2, <1>3, <1>4, <1>5, SumMonotone

LEMMA KidsSame ==
  ASSUME NEW ks, NEW ls, Kids(ks), NEW p, KidsOf(p, ks) = KidsOf(p, ls),
         \A c \in KidsOf(p, ks) : ls[c].filled = ks[c].filled
  PROVE  KidsFilled(p, ls) = KidsFilled(p, ks)
BY KidsFinite, SumSame DEF KidsFilled

(* The children of a parent, in memory.                                    *)
LEMMA KidsAre ==
  ASSUME NEW ps, NEW ks, Family(ps, ks), Complete(ps, ks), NEW p \in DOMAIN ps
  PROVE  ps[p].child_ids = KidsOf(p, ks)
BY DEF Family, Complete, KidsOf

LEMMA MemoryKids ==
  ASSUME IInv, TInv
  PROVE  Kids(children) /\ Kids(db["children"])
BY DEF IInv, TInv, Typed, ChildTyped, Family, Rows, Kids

(* The fills have their children in memory.                                *)
FillsOwned(fs, ks) == \A f \in DOMAIN fs : fs[f].child \in DOMAIN ks

LEMMA ChildUnfilled ==
  ASSUME NEW fs, FillTable(fs), NEW c, \A f \in DOMAIN fs : fs[f].child # c
  PROVE  FilledOfChild(c, fs) = 0
<1> DEFINE S == {f \in DOMAIN fs : fs[f].child = c}
           q == Quantities(fs)
<1>1. S = {} /\ Summable(q, {})
  BY FS_EmptySet DEF Summable
<1>2. FilledOfChild(c, fs) = SumFunctionOnSet(q, S)
  BY DEF FilledOfChild
<1> HIDE DEF S, q
<1> QED  BY <1>1, <1>2, SumPicks

(* The other orders and their children show what they did.                 *)
LEMMA OthersShown ==
  ASSUME IInv, TInv, NEW t, NEW p, Changes(t, p), Chain(parents, children, fills),
         NEW x \in DOMAIN parents, x # p
  PROVE  Shown(x, parents', children')
<1>1. OrderOnly(p) /\ Kids(children)
  BY MemoryKids DEF Changes
<1>2. KidsOf(x, children) = KidsOf(x, children')
  BY <1>1 DEF OrderOnly, KidsOf
<1>3. \A c \in KidsOf(x, children) : children'[c].filled = children[c].filled
  BY <1>1, <1>2 DEF OrderOnly, KidsOf
<1>4. KidsFilled(x, children') = KidsFilled(x, children)
  BY <1>1, <1>2, <1>3, KidsSame
<1>5. parents'[x] = parents[x] /\ Shown(x, parents, children)
  BY <1>1 DEF OrderOnly, Chain
<1> QED  BY <1>4, <1>5 DEF Shown

(* The children never show less.                                           *)
LEMMA ChildrenRise ==
  ASSUME IInv, IInv', TInv, TInv', NEW t, NEW p, Changes(t, p), NEW x
  PROVE  /\ KidsFilled(x, children) \in Nat /\ KidsFilled(x, children') \in Nat
         /\ KidsFilled(x, children) <= KidsFilled(x, children')
         /\ \A c \in DOMAIN children :
              /\ children[c].filled \in Nat /\ children'[c].filled \in Nat
              /\ children'[c].filled >= children[c].filled
<1>1. OrderOnly(p) /\ Stays(t, p) /\ Kids(children)
  BY MemoryKids DEF Changes
<1>2. Kids(children')
  BY DEF IInv, TInv, Typed, ChildTyped, Family, Rows, Kids
<1>3. \A c \in DOMAIN children :
        /\ children[c].filled \in Nat /\ children'[c].filled \in Nat
        /\ children'[c].filled >= children[c].filled
  BY <1>1, <1>2 DEF Kids, OrderOnly, Stays
<1>4. \A c \in DOMAIN children : Rises(c, children, children')
  BY <1>3 DEF Rises
<1>5. KidsOf(x, children) \subseteq KidsOf(x, children')
  BY <1>1 DEF OrderOnly, KidsOf
<1>6. \A c \in KidsOf(x, children) : Rises(c, children, children')
  BY <1>4 DEF KidsOf
<1>7. KidsFilled(x, children) <= KidsFilled(x, children')
  BY <1>1, <1>2, <1>5, <1>6, KidsGrow
<1> QED  BY <1>1, <1>2, <1>3, <1>7, KidsFinite

(* A step that fills nothing.                                              *)
LEMMA UnfilledChain ==
  ASSUME IInv, IInv', TInv, TInv', NEW t, NEW p, Changes(t, p), fills' = fills,
         FillsOwned(fills, children), Chain(parents, children, fills),
         p \in DOMAIN parents' => Shown(p, parents', children')
  PROVE  Chain(parents', children', fills')
<1>1. OrderOnly(p) /\ FillTable(fills) /\ FillsKept(fills, fills)
  BY DEF Changes, TInv, Typed, FillsKept
<1>2. ASSUME NEW x \in 1 .. MaxParents PROVE Executed(x, children', fills')
  <2>1. /\ KidsFilled(x, children) \in Nat /\ KidsFilled(x, children') \in Nat
        /\ KidsFilled(x, children) <= KidsFilled(x, children')
    BY ChildrenRise
  <2>2. FilledOf(x, fills) \in Nat
    BY <1>1, FilledGrows
  <2>3. FilledOf(x, fills) <= KidsFilled(x, children)
    BY DEF Chain, Executed
  <2>4. FilledOf(x, fills) <= KidsFilled(x, children')
    BY <2>1, <2>2, <2>3
  <2> QED  BY <2>4 DEF Executed
<1>3. ASSUME NEW x \in DOMAIN parents' PROVE Shown(x, parents', children')
  <2>1. CASE x = p
    BY <2>1
  <2>2. CASE x # p
    <3>1. x \in DOMAIN parents
      BY <1>1, <2>2 DEF OrderOnly
    <3> QED  BY <2>2, <3>1, OthersShown
  <2> QED  BY <2>1, <2>2
<1>4. ASSUME NEW c \in DOMAIN children' PROVE ChildShows(c, children', fills')
  <2>1. CASE c \in DOMAIN children
    <3>1. /\ children[c].filled \in Nat /\ children'[c].filled \in Nat
          /\ children'[c].filled >= children[c].filled
      BY <2>1, ChildrenRise
    <3>2. FilledOfChild(c, fills) \in Nat
      BY <1>1, FilledChildGrows
    <3>3. FilledOfChild(c, fills) <= children[c].filled
      BY <2>1 DEF Chain, ChildShows
    <3>4. FilledOfChild(c, fills) <= children'[c].filled
      BY <3>1, <3>2, <3>3
    <3> QED  BY <3>4 DEF ChildShows
  <2>2. CASE c \notin DOMAIN children
    <3>1. FilledOfChild(c, fills) = 0
      BY <1>1, <2>2, ChildUnfilled DEF FillsOwned
    <3>2. children'[c].filled \in Nat
      BY DEF TInv, Typed, ChildTyped
    <3> QED  BY <3>1, <3>2 DEF ChildShows
  <2> QED  BY <2>1, <2>2
<1> QED  BY <1>2, <1>3, <1>4 DEF Chain

(* refresh_parent after one child has changed.                             *)
LEMMA RefreshFits ==
  ASSUME IInv, TInv, TInv', NEW c \in DOMAIN children, NEW p, p = children[c].parent,
         parents[p].status # "Cancelled", NEW k, k.parent = p, Updated(p, c, k),
         NEW q \in Nat, k.filled = children[c].filled + q,
         KidsFilled(p, children) + q <= parents[p].quantity
  PROVE  /\ KidsFilled(p, children') = KidsFilled(p, children) + q
         /\ parents'[p].filled = KidsFilled(p, children) + q
         /\ parents'[p].quantity = parents[p].quantity
<1> DEFINE r == parents[p]
           S == KidsOf(p, children)
           ls == children'
<1>1. /\ p \in DOMAIN parents /\ IsParent(r) /\ ParentTyped(r) /\ r.child_ids = S /\ Kids(children)
  <2>1. p \in DOMAIN parents /\ Family(parents, children) /\ Complete(parents, children)
    BY DEF IInv, TInv, Family
  <2>2. IsParent(r) /\ ParentTyped(r)
    BY <2>1 DEF Family, TInv, Typed
  <2>3. r.child_ids = S
    BY <2>1, KidsAre
  <2> QED  BY <2>1, <2>2, <2>3, MemoryKids
<1>2. /\ DOMAIN ls = DOMAIN children /\ ls[c] = k
      /\ \A y \in DOMAIN children : y # c => ls[y] = children[y]
      /\ parents'[p] = Refreshed(r, ls)
  BY DEF Updated
<1>3. \A y \in DOMAIN ls : ls[y].status \in Status
  BY DEF TInv, Typed, ChildTyped
<1> HIDE DEF ls
<1>4. KidsOf(p, ls) = S /\ c \in S
  BY <1>2 DEF KidsOf
<1>5. IsFiniteSet(S) /\ (\A y \in S : children[y].filled \in Nat) /\ KidsFilled(p, children) \in Nat
  BY <1>1, KidsFinite
<1>6. ls[c].filled = children[c].filled + q /\ \A y \in S : y # c => ls[y].filled = children[y].filled
  BY <1>2 DEF KidsOf
<1>7. \A y \in S : ls[y].status \in Status
  BY <1>2, <1>3 DEF KidsOf
<1> HIDE DEF S
<1>8. SumOver(ls, S) = SumOver(children, S) + q
  BY <1>4, <1>5, <1>6, SumChild
<1>9. KidsFilled(p, children) = SumOver(children, S) /\ KidsFilled(p, ls) = SumOver(ls, S)
  BY <1>4 DEF KidsFilled, S
<1>10. KidsFilled(p, ls) = KidsFilled(p, children) + q /\ KidsFilled(p, ls) \in Nat
  BY <1>5, <1>8, <1>9
<1> HIDE DEF r
<1>11. LET s == Refreshed(r, ls)
       IN s.quantity = r.quantity /\ s.filled = AtMost(r.quantity, SumOver(ls, S))
  <2>1. r.status # "Cancelled"
    BY DEF r
  <2>2. SumOver(ls, r.child_ids) \in Nat /\ \A y \in r.child_ids : ls[y].status \in Status
    BY <1>1, <1>7, <1>9, <1>10
  <2> QED  BY <1>1, <2>1, <2>2, RefreshedTyped
<1>12. KidsFilled(p, ls) <= r.quantity /\ r.quantity \in Nat
  BY <1>1, <1>10 DEF ParentTyped, r
<1>13. AtMost(r.quantity, KidsFilled(p, ls)) = KidsFilled(p, ls)
  BY <1>10, <1>12 DEF AtMost
<1> QED  BY <1>2, <1>9, <1>10, <1>11, <1>13 DEF r, ls

(* create_child adds nothing to what is filled.                            *)
LEMMA OpenedShows ==
  ASSUME IInv, TInv, Chain(parents, children, fills), NEW p \in DOMAIN parents, NEW c, NEW q,
         Opened(p, p, c, q)
  PROVE  Shown(p, parents', children')
<1> DEFINE S == KidsOf(p, children)
           ls == children'
<1>1. /\ c \notin DOMAIN children /\ DOMAIN ls = DOMAIN children \cup {c}
      /\ ls[c].parent = p /\ ls[c].filled = 0 /\ \A y \in DOMAIN children : ls[y] = children[y]
      /\ parents'[p].filled = parents[p].filled
  BY DEF Opened
<1> HIDE DEF ls
<1>2. KidsOf(p, ls) = S \cup {c} /\ c \notin S /\ \A y \in S : ls[y].filled = children[y].filled
  BY <1>1 DEF KidsOf
<1>3. IsFiniteSet(S) /\ (\A y \in S : children[y].filled \in Nat)
  BY KidsFinite, MemoryKids
<1> HIDE DEF S
<1>4. SumOver(ls, S \cup {c}) = SumOver(children, S)
  BY <1>1, <1>2, <1>3, SumNewChild
<1>5. KidsFilled(p, ls) = KidsFilled(p, children)
  BY <1>2, <1>4 DEF KidsFilled, S
<1>6. Shown(p, parents, children)
  BY DEF Chain
<1> QED  BY <1>1, <1>5, <1>6 DEF Shown, ls

LEMMA CancelShows ==
  ASSUME IInv, TInv, Chain(parents, children, fills), NEW p \in DOMAIN parents, Cancels(p)
  PROVE  Shown(p, parents', children')
<1> DEFINE ls == children'
<1>1. /\ DOMAIN ls = DOMAIN children
      /\ \A y \in DOMAIN children : ls[y].parent = children[y].parent /\ ls[y].filled = children[y].filled
      /\ parents'[p].filled = parents[p].filled
  BY DEF Cancels
<1> HIDE DEF ls
<1>2. KidsOf(p, children) = KidsOf(p, ls)
  BY <1>1 DEF KidsOf
<1>3. \A c \in KidsOf(p, children) : ls[c].filled = children[c].filled
  BY <1>1 DEF KidsOf
<1>4. KidsFilled(p, ls) = KidsFilled(p, children)
  BY <1>2, <1>3, KidsSame, MemoryKids
<1>5. Shown(p, parents, children)
  BY DEF Chain
<1> QED  BY <1>1, <1>4, <1>5 DEF Shown, ls

(* An open leg, its order and its room.                                    *)
LEMMA LegFacts ==
  ASSUME IInv, TInv, CInv, phase # "down", Chain(parents, children, fills),
         Room(jobs, parents, children), NEW p \in DOMAIN jobs, jobs[p].pc \in Leg,
         NEW c, c = jobs[p].child, ~Terminal(children[c].status)
  PROVE  /\ c \in DOMAIN children /\ children[c].parent = p /\ p \in DOMAIN parents
         /\ parents[p].status # "Cancelled" /\ ParentTyped(parents[p]) /\ ChildTyped(children[c])
         /\ KidsFilled(p, children) \in Nat /\ KidsFilled(p, children) <= parents[p].filled
         /\ children[c].remaining <= parents[p].remaining
<1>1. c \in DOMAIN children /\ p \in DOMAIN parents
  BY DEF IInv, Working, Leg
<1>2. children[c].parent = p
  BY DEF TInv, LegsOwn
<1>3. parents[p].status # "Cancelled"
  BY DEF CInv, LegsClosed
<1>4. ParentTyped(parents[p]) /\ ChildTyped(children[c])
  BY <1>1 DEF TInv, Typed
<1>5. KidsFilled(p, children) \in Nat
  BY KidsFinite, MemoryKids
<1>6. Shown(p, parents, children) /\ LegFits(children[c], parents[p])
  BY <1>1 DEF Chain, Room
<1> QED  BY <1>1, <1>2, <1>3, <1>4, <1>5, <1>6 DEF Shown, LegFits

LEMMA StatusFits ==
  ASSUME IInv, IInv', TInv, TInv', CInv, phase # "down", Chain(parents, children, fills),
         Room(jobs, parents, children), NEW p \in DOMAIN jobs, jobs[p].pc \in Leg,
         NEW c, c = jobs[p].child, NEW status, StatusUpdated(p, p, c, status)
  PROVE  Shown(p, parents', children') /\ LegFits(children'[c], parents'[p])
<1> DEFINE r == parents[p]
           s == parents'[p]
           total == KidsFilled(p, children)
<1>1. ~Terminal(children[c].status)
  BY DEF StatusUpdated
<1>2. /\ c \in DOMAIN children /\ children[c].parent = p /\ p \in DOMAIN parents
      /\ r.status # "Cancelled" /\ ParentTyped(r) /\ ChildTyped(children[c])
      /\ total \in Nat /\ total <= r.filled /\ children[c].remaining <= r.remaining
  BY <1>1, LegFacts
<1>3. PICK k : /\ Updated(p, c, k) /\ k.parent = p /\ k.filled = children[c].filled
               /\ k.remaining = children[c].remaining
  BY DEF StatusUpdated
<1>4. children'[c] = k /\ DOMAIN parents' = DOMAIN parents
  BY <1>3 DEF Updated
<1>5. k.filled = children[c].filled + 0
  BY <1>2, <1>3 DEF ChildTyped
<1>6. total + 0 <= r.quantity
  BY <1>2 DEF ParentTyped
<1>7. KidsFilled(p, children') = total + 0 /\ s.filled = total + 0 /\ s.quantity = r.quantity
  BY <1>2, <1>3, <1>5, <1>6, RefreshFits
<1>8. ParentTyped(s)
  BY <1>2, <1>4 DEF TInv, Typed
<1> HIDE DEF r, s, total
<1>9. s.filled <= r.filled /\ s.filled + s.remaining = r.filled + r.remaining
  BY <1>2, <1>7, <1>8 DEF ParentTyped
<1>10. r.remaining <= s.remaining /\ r.remaining \in Nat /\ s.remaining \in Nat
  BY <1>2, <1>8, <1>9 DEF ParentTyped
<1>11. children[c].remaining \in Nat /\ children[c].remaining <= s.remaining
  BY <1>2, <1>10 DEF ChildTyped
<1>12. LegFits(children'[c], s)
  BY <1>3, <1>4, <1>11 DEF LegFits
<1>13. KidsFilled(p, children') <= s.filled
  BY <1>2, <1>7
<1> QED  BY <1>12, <1>13 DEF Shown, s

LEMMA FillFits ==
  ASSUME IInv, IInv', TInv, TInv', CInv, phase # "down", Chain(parents, children, fills),
         Room(jobs, parents, children), NEW p \in DOMAIN jobs, jobs[p].pc \in Leg,
         NEW c, c = jobs[p].child, NEW q \in Quantity, NEW f, FillUpdated(p, p, c, q, f)
  PROVE  /\ Shown(p, parents', children') /\ LegFits(children'[c], parents'[p])
         /\ KidsFilled(p, children') = KidsFilled(p, children) + q
         /\ c \in DOMAIN children /\ children[c].parent = p
         /\ DOMAIN children' = DOMAIN children /\ children'[c].filled = children[c].filled + q
<1> DEFINE r == parents[p]
           s == parents'[p]
           total == KidsFilled(p, children)
<1>0. q \in Nat
  BY OmsAssumption DEF Quantity
<1>1. ~Terminal(children[c].status) /\ q <= children[c].remaining
  BY DEF FillUpdated
<1>2. /\ c \in DOMAIN children /\ children[c].parent = p /\ p \in DOMAIN parents
      /\ r.status # "Cancelled" /\ ParentTyped(r) /\ ChildTyped(children[c])
      /\ total \in Nat /\ total <= r.filled /\ children[c].remaining <= r.remaining
  BY <1>1, LegFacts
<1>3. PICK k : /\ Updated(p, c, k) /\ k.parent = p /\ k.filled = children[c].filled + q
               /\ k.remaining = children[c].remaining - q
  BY DEF FillUpdated
<1>4. children'[c] = k /\ DOMAIN parents' = DOMAIN parents /\ DOMAIN children' = DOMAIN children
  BY <1>3 DEF Updated
<1>5. q <= r.remaining
  BY <1>0, <1>1, <1>2 DEF ChildTyped, ParentTyped
<1>6. total + q <= r.quantity
  <2> HIDE DEF r, total
  <2> QED  BY <1>0, <1>2, <1>5 DEF ParentTyped
<1>7. KidsFilled(p, children') = total + q /\ s.filled = total + q /\ s.quantity = r.quantity
  BY <1>0, <1>2, <1>3, <1>6, RefreshFits
<1>8. ParentTyped(s)
  BY <1>2, <1>4 DEF TInv, Typed
<1> HIDE DEF r, s, total
<1>9. s.filled <= r.filled + q /\ s.filled + s.remaining = r.filled + r.remaining
  BY <1>0, <1>2, <1>7, <1>8 DEF ParentTyped
<1>10. r.remaining - q <= s.remaining /\ r.remaining \in Nat /\ s.remaining \in Nat
  BY <1>0, <1>2, <1>8, <1>9 DEF ParentTyped
<1>11. children[c].remaining \in Nat /\ children[c].remaining - q <= s.remaining
  BY <1>0, <1>2, <1>10 DEF ChildTyped
<1>12. LegFits(children'[c], s)
  BY <1>3, <1>4, <1>11 DEF LegFits
<1>13. KidsFilled(p, children') <= s.filled
  BY <1>0, <1>2, <1>7
<1> QED  BY <1>2, <1>3, <1>4, <1>7, <1>12, <1>13 DEF Shown, s, total

(* record_fill counts the fill in the child and in the parent.             *)
LEMMA FilledChain ==
  ASSUME IInv, IInv', TInv, TInv', CInv, phase # "down", Chain(parents, children, fills),
         Room(jobs, parents, children), NEW p \in DOMAIN jobs, jobs[p].pc \in Leg,
         NEW c, c = jobs[p].child, NEW q \in Quantity, NEW f, FillUpdated(p, p, c, q, f),
         Changes(p, p)
  PROVE  Chain(parents', children', fills')
<1>1. /\ Shown(p, parents', children') /\ KidsFilled(p, children') = KidsFilled(p, children) + q
      /\ c \in DOMAIN children /\ children[c].parent = p
      /\ DOMAIN children' = DOMAIN children /\ children'[c].filled = children[c].filled + q
  BY FillFits
<1>2. q \in Nat
  BY OmsAssumption DEF Quantity
<1>3. FillTable(fills) /\ FillTable(fills') /\ FillsKept(fills, fills')
  BY FillsGrow
<1>4. /\ f \notin DOMAIN fills /\ DOMAIN fills' = DOMAIN fills \cup {f}
      /\ fills'[f].parent = p /\ fills'[f].child = c /\ fills'[f].quantity = q
  <2>1. PICK fill : /\ fill = [parent |-> p, child |-> c, quantity |-> q]
                    /\ DOMAIN fills' = DOMAIN fills \cup {f} /\ fills'[f] = fill
    BY DEF FillUpdated
  <2>2. f \notin DOMAIN fills
    BY DEF FillUpdated
  <2> QED  BY <2>1, <2>2
<1>5. OrderOnly(p)
  BY DEF Changes
<1>6. ASSUME NEW x \in 1 .. MaxParents PROVE Executed(x, children', fills')
  <2>1. /\ KidsFilled(x, children) \in Nat /\ KidsFilled(x, children') \in Nat
        /\ KidsFilled(x, children) <= KidsFilled(x, children')
    BY ChildrenRise
  <2>2. FilledOf(x, fills) \in Nat /\ FilledOf(x, fills) <= KidsFilled(x, children)
    BY <1>3, FilledGrows DEF Chain, Executed
  <2>3. CASE x = p
    <3>1. FilledOf(p, fills') = FilledOf(p, fills) + q
      BY <1>3, <1>4, FilledAdds
    <3>2. FilledOf(x, fills') <= KidsFilled(x, children')
      BY <1>1, <1>2, <2>1, <2>2, <2>3, <3>1
    <3> QED  BY <3>2 DEF Executed
  <2>4. CASE x # p
    <3>1. FilledOf(x, fills') = FilledOf(x, fills)
      BY <1>3, <1>4, <2>4, FilledGrows
    <3>2. FilledOf(x, fills') <= KidsFilled(x, children')
      BY <2>1, <2>2, <3>1
    <3> QED  BY <3>2 DEF Executed
  <2> QED  BY <2>3, <2>4
<1>7. ASSUME NEW x \in DOMAIN parents' PROVE Shown(x, parents', children')
  <2>1. CASE x = p
    BY <1>1, <2>1
  <2>2. CASE x # p
    <3>1. x \in DOMAIN parents
      BY <1>5, <2>2 DEF OrderOnly
    <3> QED  BY <2>2, <3>1, OthersShown
  <2> QED  BY <2>1, <2>2
<1>8. ASSUME NEW y \in DOMAIN children' PROVE ChildShows(y, children', fills')
  <2>1. y \in DOMAIN children
    BY <1>1
  <2>2. /\ children[y].filled \in Nat /\ children'[y].filled \in Nat
        /\ children'[y].filled >= children[y].filled
    BY <2>1, ChildrenRise
  <2>3. FilledOfChild(y, fills) \in Nat /\ FilledOfChild(y, fills) <= children[y].filled
    BY <1>3, <2>1, FilledChildGrows DEF Chain, ChildShows
  <2>4. CASE y = c
    <3>1. FilledOfChild(c, fills') = FilledOfChild(c, fills) + q
      BY <1>3, <1>4, FilledAdds
    <3>2. FilledOfChild(y, fills') <= children'[y].filled
      BY <1>1, <1>2, <2>2, <2>3, <2>4, <3>1
    <3> QED  BY <3>2 DEF ChildShows
  <2>5. CASE y # c
    <3>1. FilledOfChild(y, fills') = FilledOfChild(y, fills)
      BY <1>3, <1>4, <2>5, FilledChildGrows
    <3>2. FilledOfChild(y, fills') <= children'[y].filled
      BY <2>2, <2>3, <3>1
    <3> QED  BY <3>2 DEF ChildShows
  <2> QED  BY <2>4, <2>5
<1> QED  BY <1>6, <1>7, <1>8 DEF Chain

(* Every step of a job.                                                    *)
LEMMA WorkedFits ==
  ASSUME IInv, IInv', TInv, TInv', CInv, phase # "down", FillsOwned(fills, children),
         Chain(parents, children, fills), Room(jobs, parents, children), NEW p \in DOMAIN jobs,
         NEW job, Worked(p, job), Changes(p, p)
  PROVE  /\ Chain(parents', children', fills')
         /\ job.pc \in Leg => LegFits(children'[job.child], parents'[p])
<1>1. p \in DOMAIN parents
  BY DEF IInv, Working
<1>2. jobs[p].pc \in Leg => LegFits(children[jobs[p].child], parents[p])
  BY DEF Room
<1>3. CASE UNCHANGED memory /\ (job.pc \in Leg => jobs[p].pc \in Leg /\ job.child = jobs[p].child)
  BY <1>2, <1>3 DEF memory
<1>4. CASE Cancels(p) /\ (job.pc \in Leg => UNCHANGED memory)
  <2>1. fills' = fills /\ Shown(p, parents', children')
    BY <1>1, <1>4, CancelShows DEF Cancels
  <2>2. ~UNCHANGED memory
    BY <1>1, <1>4 DEF Cancels, Terminal, memory
  <2> QED  BY <1>4, <2>1, <2>2, UnfilledChain
<1>5. CASE \E q \in Quantity : Opened(p, p, job.child, q)
  <2>1. PICK q \in Quantity : Opened(p, p, job.child, q)
    BY <1>5
  <2>2. /\ fills' = fills /\ q <= parents[p].remaining /\ children'[job.child].remaining = q
        /\ parents'[p].remaining = parents[p].remaining
    BY <2>1 DEF Opened
  <2>3. Shown(p, parents', children')
    BY <1>1, <2>1, OpenedShows
  <2>4. LegFits(children'[job.child], parents'[p])
    BY <2>2 DEF LegFits
  <2> QED  BY <2>2, <2>3, <2>4, UnfilledChain
<1>6. CASE /\ jobs[p].pc \in Leg /\ job.child = jobs[p].child
           /\ \E status \in Status : StatusUpdated(p, p, job.child, status)
  <2>1. PICK status \in Status : StatusUpdated(p, p, job.child, status)
    BY <1>6
  <2>2. fills' = fills
    BY <2>1 DEF StatusUpdated
  <2>3. Shown(p, parents', children') /\ LegFits(children'[job.child], parents'[p])
    BY <1>6, <2>1, StatusFits
  <2> QED  BY <2>2, <2>3, UnfilledChain
<1>7. CASE /\ jobs[p].pc \in Leg /\ job.child = jobs[p].child
           /\ \E q \in Quantity : \E f : FillUpdated(p, p, job.child, q, f)
  <2>0. PICK q \in Quantity : \E f : FillUpdated(p, p, job.child, q, f)
    BY <1>7
  <2>1. PICK f : FillUpdated(p, p, job.child, q, f)
    BY <2>0
  <2>2. LegFits(children'[job.child], parents'[p])
    BY <1>7, <2>1, FillFits
  <2>3. Chain(parents', children', fills')
    BY <1>7, <2>1, FilledChain
  <2> QED  BY <2>2, <2>3
<1> QED  BY <1>3, <1>4, <1>5, <1>6, <1>7 DEF Worked

-----------------------------------------------------------------------------
(* The rows of the orders follow the memory, as long as only the thread of *)
(* an order writes them.                                                   *)

Behind(k, l) == k.parent = l.parent /\ k.filled <= l.filled

RowsBehind(d, ps, ks) ==
  /\ DOMAIN d["parents"] \subseteq DOMAIN ps
  /\ \A c \in DOMAIN d["children"] : c \in DOMAIN ks /\ Behind(d["children"][c], ks[c])

(* A row on its way is the latest copy; the row of a parent is the first   *)
(* of its queue, and rows of children have only rows of orders before them.*)
PendFresh(t, list, i, ps, ks, js) ==
  LET w == list[i] IN
  /\ w.table = "parents" =>
       /\ i = 1 /\ w.id \in DOMAIN ps /\ w.row = ps[w.id]
       /\ t = w.id \/ (t = Api /\ w.id \notin DOMAIN js)
  /\ w.table = "children" =>
       /\ w.id \in DOMAIN ks /\ w.row = ks[w.id] /\ t = ks[w.id].parent /\ t \in DOMAIN js
       /\ \A j \in 1 .. (i - 1) : list[j].table \in {"parents", "children"}

QueuesFresh(ws, ps, ks, js) ==
  \A t \in Thread : \A i \in 1 .. Len(ws[t]) : PendFresh(t, ws[t], i, ps, ks, js)

(* An order in memory is on record or on its way.                          *)
ParentSaved(p, d, ws, ps) ==
  \/ p \in DOMAIN d["parents"] /\ Loaded(d["parents"][p], ps[p])
  \/ Pends(ws[Api], "parents", p) \/ Pends(ws[p], "parents", p)
ChildSaved(c, d, ws, ks) ==
  \/ c \in DOMAIN d["children"] /\ d["children"][c] = ks[c]
  \/ Pends(ws[ks[c].parent], "children", c)
OrdersSaved(d, ws, ps, ks) ==
  /\ \A p \in DOMAIN ps : ParentSaved(p, d, ws, ps)
  /\ \A c \in DOMAIN ks : ChildSaved(c, d, ws, ks)

PInv ==
  ~early /\ ~api_cancelled =>
    /\ Chain(db["parents"], db["children"], db["fills"])
    /\ phase # "down" =>
         /\ Chain(parents, children, fills) /\ FillsOwned(fills, children)
         /\ Room(jobs, parents, children)
         /\ RowsBehind(db, parents, children)
         /\ QueuesFresh(writes, parents, children, jobs)
         /\ OrdersSaved(db, writes, parents, children)

LEMMA ChangesBehind ==
  ASSUME IInv, IInv', TInv, TInv', NEW t, NEW p, Changes(t, p), RowsBehind(db, parents, children)
  PROVE  RowsBehind(db, parents', children')
<1>1. OrderOnly(p)
  BY DEF Changes
<1>2. DOMAIN db["parents"] \subseteq DOMAIN parents'
  BY <1>1 DEF OrderOnly, RowsBehind
<1>3. ASSUME NEW c \in DOMAIN db["children"]
      PROVE  c \in DOMAIN children' /\ Behind(db["children"][c], children'[c])
  <2>1. c \in DOMAIN children /\ Behind(db["children"][c], children[c])
    BY DEF RowsBehind
  <2>2. /\ children[c].filled \in Nat /\ children'[c].filled \in Nat
        /\ children'[c].filled >= children[c].filled
    BY <2>1, ChildrenRise
  <2>3. db["children"][c].filled \in Nat
    BY DEF TInv, Typed, ChildTyped
  <2>4. c \in DOMAIN children' /\ children'[c].parent = children[c].parent
    BY <1>1, <2>1 DEF OrderOnly
  <2> QED  BY <2>1, <2>2, <2>3, <2>4 DEF Behind
<1> QED  BY <1>2, <1>3 DEF RowsBehind

LEMMA ChangesOwned ==
  ASSUME NEW t, NEW p, Changes(t, p), FillsOwned(fills, children)
  PROVE  FillsOwned(fills', children')
<1>1. OrderOnly(p) /\ Stays(t, p)
  BY DEF Changes
<1>2. DOMAIN children \subseteq DOMAIN children' /\ \A f \in DOMAIN fills : fills'[f] = fills[f]
  BY <1>1 DEF OrderOnly
<1>3. \A f \in DOMAIN fills' \ DOMAIN fills : fills'[f].child \in DOMAIN children
  BY <1>1 DEF Stays
<1> QED  BY <1>2, <1>3 DEF FillsOwned

(* The queues after a step of a job.                                       *)
LEMMA JobFresh ==
  ASSUME IInv, TInv, NEW p \in DOMAIN jobs, Changes(p, p), DOMAIN jobs' = DOMAIN jobs,
         QueuesFresh(writes, parents, children, jobs)
  PROVE  QueuesFresh(writes', parents', children', jobs')
<1>1. p \in Thread /\ p \in DOMAIN parents /\ p # Api
  BY OmsAssumption DEF IInv, Working, Family, Thread, Api
<1>2. OrderOnly(p) /\ Carries(p, writes'[p]) /\ \A u \in Thread \ {p} : writes'[u] = writes[u]
  BY DEF Changes
<1>3. /\ DOMAIN parents \subseteq DOMAIN parents' /\ DOMAIN children \subseteq DOMAIN children'
      /\ \A x \in DOMAIN parents : x # p => parents'[x] = parents[x]
      /\ \A c \in DOMAIN children : children[c].parent # p => children'[c] = children[c]
  BY <1>2 DEF OrderOnly
<1>4. ASSUME NEW u \in Thread, NEW i \in 1 .. Len(writes'[u])
      PROVE  PendFresh(u, writes'[u], i, parents', children', jobs')
  <2>1. CASE u = p
    <3>1. Carried(p, writes'[p], i)
      BY <1>2, <1>4, <2>1 DEF Carries
    <3> QED  BY <1>1, <1>3, <2>1, <3>1 DEF Carried, PendFresh
  <2>2. CASE u # p
    <3> DEFINE list == writes[u]
               w == list[i]
    <3>1. writes'[u] = list
      BY <1>2, <2>2
    <3>2. PendFresh(u, list, i, parents, children, jobs)
      BY <1>4, <3>1 DEF QueuesFresh
    <3> HIDE DEF list
    <3>3. ASSUME w.table = "parents"
          PROVE  /\ i = 1 /\ w.id \in DOMAIN parents' /\ w.row = parents'[w.id]
                 /\ u = w.id \/ (u = Api /\ w.id \notin DOMAIN jobs')
      <4>1. /\ i = 1 /\ w.id \in DOMAIN parents /\ w.row = parents[w.id]
            /\ u = w.id \/ (u = Api /\ w.id \notin DOMAIN jobs)
        BY <3>2, <3>3 DEF PendFresh
      <4>2. w.id # p
        BY <2>2, <4>1
      <4> QED  BY <1>3, <4>1, <4>2
    <3>4. ASSUME w.table = "children"
          PROVE  /\ w.id \in DOMAIN children' /\ w.row = children'[w.id]
                 /\ u = children'[w.id].parent /\ u \in DOMAIN jobs'
                 /\ \A j \in 1 .. (i - 1) : list[j].table \in {"parents", "children"}
      <4>1. /\ w.id \in DOMAIN children /\ w.row = children[w.id] /\ u = children[w.id].parent
            /\ u \in DOMAIN jobs
            /\ \A j \in 1 .. (i - 1) : list[j].table \in {"parents", "children"}
        BY <3>2, <3>4 DEF PendFresh
      <4>2. children'[w.id] = children[w.id]
        BY <1>3, <2>2, <4>1
      <4> QED  BY <1>3, <4>1, <4>2
    <3>5. PendFresh(u, list, i, parents', children', jobs')
      BY <3>3, <3>4 DEF PendFresh
    <3> QED  BY <3>1, <3>5
  <2> QED  BY <2>1, <2>2
<1> QED  BY <1>4 DEF QueuesFresh

LEMMA JobSaved ==
  ASSUME IInv, TInv, NEW p \in DOMAIN jobs, Changes(p, p), callback_set \/ UNCHANGED memory,
         OrdersSaved(db, writes, parents, children)
  PROVE  OrdersSaved(db, writes', parents', children')
<1>1. p \in Thread /\ p \in DOMAIN parents /\ p # Api /\ Api \in Thread
  BY OmsAssumption DEF IInv, Working, Family, Thread, Api
<1>2. /\ OrderOnly(p) /\ \A u \in Thread \ {p} : writes'[u] = writes[u]
      /\ writes[p] = <<>> /\ (Covers(p, writes'[p]) \/ UNCHANGED memory)
  BY DEF Changes
<1>3. ASSUME NEW x \in DOMAIN parents' PROVE ParentSaved(x, db, writes', parents')
  <2>1. x \in DOMAIN parents /\ x \in Thread /\ ParentSaved(x, db, writes, parents)
    BY <1>1, <1>2, OmsAssumption DEF OrderOnly, OrdersSaved, IInv, Family, Thread
  <2>2. writes'[Api] = writes[Api]
    BY <1>1, <1>2
  <2>3. CASE x # p
    <3>1. parents'[x] = parents[x] /\ writes'[x] = writes[x]
      BY <1>2, <2>1, <2>3 DEF OrderOnly
    <3> QED  BY <2>1, <2>2, <3>1 DEF ParentSaved
  <2>4. CASE x = p /\ Covers(p, writes'[p])
    BY <2>4 DEF ParentSaved, Covers
  <2>5. CASE x = p /\ UNCHANGED memory
    <3>1. parents' = parents /\ ~Pends(writes[p], "parents", p)
      BY <1>2, <2>5, NoPends DEF memory
    <3> QED  BY <2>1, <2>2, <2>5, <3>1 DEF ParentSaved
  <2> QED  BY <1>2, <2>3, <2>4, <2>5
<1>4. ASSUME NEW c \in DOMAIN children' PROVE ChildSaved(c, db, writes', children')
  <2> DEFINE x == children'[c].parent
  <2>1. CASE x # p
    <3>1. c \in DOMAIN children /\ children'[c] = children[c]
      BY <1>2, <2>1 DEF OrderOnly
    <3>2. ChildSaved(c, db, writes, children) /\ x \in Thread
      BY <3>1, OmsAssumption DEF OrdersSaved, IInv, Family, Thread
    <3>3. writes'[x] = writes[x]
      BY <1>2, <2>1, <3>2
    <3> QED  BY <3>1, <3>2, <3>3 DEF ChildSaved
  <2>2. CASE x = p
    <3>1. (c \in DOMAIN children /\ children'[c] = children[c]) \/ Pends(writes'[p], "children", c)
      BY <1>2 DEF Covers, memory
    <3>2. CASE Pends(writes'[p], "children", c)
      BY <2>2, <3>2 DEF ChildSaved
    <3>3. CASE c \in DOMAIN children /\ children'[c] = children[c]
      <4>1. ChildSaved(c, db, writes, children) /\ children[c].parent = p
        BY <2>2, <3>3 DEF OrdersSaved
      <4>2. ~Pends(writes[p], "children", c)
        BY <1>2, NoPends
      <4> QED  BY <3>3, <4>1, <4>2 DEF ChildSaved
    <3> QED  BY <3>1, <3>2, <3>3
  <2> QED  BY <2>1, <2>2
<1> QED  BY <1>3, <1>4 DEF OrdersSaved

LEMMA JobActsFollowed ==
  ASSUME IInv, IInv', TInv, TInv', CInv, PInv, NEW p, NEW job, JobActs(p, job)
  PROVE  PInv'
<1> SUFFICES ASSUME ~early', ~api_cancelled' PROVE PInv'
  BY DEF PInv
<1>1. /\ p \in DOMAIN jobs /\ Moves(p, job) /\ JobTyped(job) /\ Worked(p, job) /\ Changes(p, p)
      /\ db' = db /\ phase' = phase /\ phase # "down" /\ ~early /\ ~api_cancelled
      /\ callback_set \/ UNCHANGED memory
  BY DEF JobActs, Steps, Frame
<1>2. /\ Chain(db["parents"], db["children"], db["fills"])
      /\ Chain(parents, children, fills) /\ FillsOwned(fills, children)
      /\ Room(jobs, parents, children) /\ RowsBehind(db, parents, children)
      /\ QueuesFresh(writes, parents, children, jobs)
      /\ OrdersSaved(db, writes, parents, children)
  BY <1>1 DEF PInv
<1>3. /\ Chain(parents', children', fills')
      /\ job.pc \in Leg => LegFits(children'[job.child], parents'[p])
  BY <1>1, <1>2, WorkedFits
<1>4. Room(jobs', parents', children')
  <2> SUFFICES ASSUME NEW x \in DOMAIN jobs', jobs'[x].pc \in Leg
               PROVE  LegFits(children'[jobs'[x].child], parents'[x])
    BY DEF Room
  <2>1. CASE x = p
    BY <1>1, <1>3, <2>1 DEF Moves
  <2>2. CASE x # p
    <3>1. x \in DOMAIN jobs /\ jobs'[x] = jobs[x]
      BY <1>1, <2>2 DEF Moves
    <3>2. children'[jobs[x].child] = children[jobs[x].child] /\ parents'[x] = parents[x]
      BY <1>1, <2>2, <3>1, OtherLegs
    <3> QED  BY <1>2, <3>1, <3>2 DEF Room
  <2> QED  BY <2>1, <2>2
<1>5. FillsOwned(fills', children') /\ RowsBehind(db, parents', children')
  BY <1>1, <1>2, ChangesOwned, ChangesBehind
<1>6. QueuesFresh(writes', parents', children', jobs')
  BY <1>1, <1>2, JobFresh DEF Moves
<1>7. OrdersSaved(db, writes', parents', children')
  BY <1>1, <1>2, JobSaved
<1> QED  BY <1>1, <1>2, <1>3, <1>4, <1>5, <1>6, <1>7 DEF PInv

(* The API creates a parent.                                               *)
LEMMA ParentFollowed ==
  ASSUME IInv, IInv', TInv, TInv', NEW p, Changes(Api, p), callback_set, p \notin DOMAIN parents,
         jobs' = jobs, children' = children, fills' = fills,
         \A x \in DOMAIN parents : parents'[x] = parents[x],
         Chain(parents, children, fills), FillsOwned(fills, children),
         Room(jobs, parents, children), QueuesFresh(writes, parents, children, jobs),
         OrdersSaved(db, writes, parents, children)
  PROVE  /\ Chain(parents', children', fills') /\ Room(jobs', parents', children')
         /\ QueuesFresh(writes', parents', children', jobs')
         /\ OrdersSaved(db, writes', parents', children')
<1>1. /\ OrderOnly(p) /\ Carries(p, writes'[Api]) /\ writes[Api] = <<>>
      /\ Covers(p, writes'[Api]) \/ UNCHANGED memory
  BY DEF Changes
<1>2. \A u \in Thread \ {Api} : writes'[u] = writes[u]
  BY DEF Changes
<1>3. DOMAIN parents' = DOMAIN parents \cup {p} /\ Covers(p, writes'[Api])
  BY <1>1 DEF OrderOnly, memory
<1>4. p \notin DOMAIN jobs /\ DOMAIN jobs \subseteq DOMAIN parents /\ Api \in Thread
      /\ Api \notin DOMAIN parents
  BY OmsAssumption DEF IInv, Working, Family, Thread, Api
<1>5. \A c \in DOMAIN children : children[c].parent \in DOMAIN parents
  BY DEF IInv, Family
<1>6. Shown(p, parents', children')
  <2>1. KidsOf(p, children) = {}
    BY <1>5 DEF KidsOf
  <2>2. KidsFilled(p, children) = 0
    <3> DEFINE f == [c \in {} |-> children[c].filled]
    <3>1. SumOver(children, {}) = SumFunctionOnSet(f, {}) /\ Summable(f, {})
      BY FS_EmptySet, SumTotal
    <3> HIDE DEF f
    <3> QED  BY <2>1, <3>1, SumPicks DEF KidsFilled
  <2>3. parents'[p].filled \in Nat
    BY <1>3 DEF TInv, Typed, ParentTyped
  <2> QED  BY <2>2, <2>3 DEF Shown
<1>7. Chain(parents', children', fills')
  BY <1>6, UnfilledChain
<1>8. Room(jobs', parents', children')
  BY <1>4 DEF Room
<1>9. ASSUME NEW u \in Thread, NEW i \in 1 .. Len(writes'[u])
      PROVE  PendFresh(u, writes'[u], i, parents', children', jobs')
  <2>1. CASE u = Api
    <3>1. Carried(p, writes'[Api], i)
      BY <1>1, <1>9, <2>1 DEF Carries
    <3>2. writes'[Api][i].table # "children"
      BY <1>5, <3>1 DEF Carried
    <3> QED  BY <1>3, <1>4, <2>1, <3>1, <3>2 DEF Carried, PendFresh
  <2>2. CASE u # Api
    <3> DEFINE list == writes[u]
    <3>1. writes'[u] = list
      BY <1>2, <2>2
    <3>2. PendFresh(u, list, i, parents, children, jobs)
      BY <1>9, <3>1 DEF QueuesFresh
    <3> HIDE DEF list
    <3>3. PendFresh(u, list, i, parents', children', jobs')
      BY <1>3, <3>2 DEF PendFresh
    <3> QED  BY <3>1, <3>3
  <2> QED  BY <2>1, <2>2
<1>10. ASSUME NEW x \in DOMAIN parents' PROVE ParentSaved(x, db, writes', parents')
  <2>1. CASE x = p
    BY <1>3, <2>1 DEF Covers, ParentSaved
  <2>2. CASE x # p
    <3>1. x \in DOMAIN parents /\ x \in Thread /\ ParentSaved(x, db, writes, parents)
      BY <1>3, <2>2, OmsAssumption DEF OrdersSaved, IInv, Family, Thread
    <3>2. writes'[x] = writes[x] /\ ~Pends(writes[Api], "parents", x)
      BY <1>1, <1>2, <1>4, <3>1, NoPends
    <3> QED  BY <3>1, <3>2 DEF ParentSaved
  <2> QED  BY <2>1, <2>2
<1>11. ASSUME NEW c \in DOMAIN children' PROVE ChildSaved(c, db, writes', children')
  <2> DEFINE x == children[c].parent
  <2>1. ChildSaved(c, db, writes, children) /\ x \in DOMAIN parents /\ x \in Thread
    BY <1>5, OmsAssumption DEF OrdersSaved, IInv, Family, Thread
  <2>2. writes'[x] = writes[x]
    BY <1>2, <1>4, <2>1
  <2> QED  BY <2>1, <2>2 DEF ChildSaved
<1> QED  BY <1>7, <1>8, <1>9, <1>10, <1>11 DEF QueuesFresh, OrdersSaved

(* The API does something about a job.                                     *)
LEMMA ControlFollowed ==
  ASSUME IInv, NEW p, Changes(Api, p), SameJobs, UNCHANGED memory, NoOrder(writes'[Api]),
         Room(jobs, parents, children), QueuesFresh(writes, parents, children, jobs),
         OrdersSaved(db, writes, parents, children)
  PROVE  /\ Room(jobs', parents', children')
         /\ QueuesFresh(writes', parents', children', jobs')
         /\ OrdersSaved(db, writes', parents', children')
<1>1. parents' = parents /\ children' = children /\ fills' = fills
  BY DEF memory
<1>2. writes[Api] = <<>> /\ \A u \in Thread \ {Api} : writes'[u] = writes[u]
  BY DEF Changes
<1>3. Api \in Thread /\ Api \notin DOMAIN parents
  BY OmsAssumption DEF IInv, Family, Thread, Api
<1>4. Room(jobs', parents', children')
  <2>1. \A x \in DOMAIN jobs' : jobs'[x].pc \in Leg =>
          x \in DOMAIN jobs /\ jobs[x].pc \in Leg /\ jobs'[x].child = jobs[x].child
    BY DEF SameJobs
  <2> QED  BY <1>1, <2>1 DEF Room
<1>5. ASSUME NEW u \in Thread, NEW i \in 1 .. Len(writes'[u])
      PROVE  PendFresh(u, writes'[u], i, parents', children', jobs')
  <2>1. CASE u = Api
    BY <1>5, <2>1 DEF NoOrder, PendFresh
  <2>2. CASE u # Api
    <3> DEFINE list == writes[u]
    <3>1. writes'[u] = list
      BY <1>2, <2>2
    <3>2. PendFresh(u, list, i, parents, children, jobs)
      BY <1>5, <3>1 DEF QueuesFresh
    <3>3. DOMAIN jobs \subseteq DOMAIN jobs'
      BY DEF SameJobs
    <3> HIDE DEF list
    <3>4. PendFresh(u, list, i, parents', children', jobs')
      BY <1>1, <2>2, <3>2, <3>3 DEF PendFresh
    <3> QED  BY <3>1, <3>4
  <2> QED  BY <2>1, <2>2
<1>6. ASSUME NEW x \in DOMAIN parents PROVE ParentSaved(x, db, writes', parents)
  <2>1. x \in Thread /\ ParentSaved(x, db, writes, parents)
    BY OmsAssumption DEF OrdersSaved, IInv, Family, Thread
  <2>2. writes'[x] = writes[x] /\ ~Pends(writes[Api], "parents", x)
    BY <1>2, <1>3, <2>1, NoPends
  <2> QED  BY <2>1, <2>2 DEF ParentSaved
<1>7. ASSUME NEW c \in DOMAIN children PROVE ChildSaved(c, db, writes', children)
  <2> DEFINE x == children[c].parent
  <2>1. ChildSaved(c, db, writes, children) /\ x \in DOMAIN parents /\ x \in Thread
    BY OmsAssumption DEF OrdersSaved, IInv, Family, Thread
  <2>2. writes'[x] = writes[x]
    BY <1>2, <1>3, <2>1
  <2> QED  BY <2>1, <2>2 DEF ChildSaved
<1> QED  BY <1>1, <1>4, <1>5, <1>6, <1>7 DEF QueuesFresh, OrdersSaved

LEMMA ApiActsFollowed ==
  ASSUME IInv, IInv', TInv, TInv', PInv, NEW p, ApiActs(p)
  PROVE  PInv'
<1> SUFFICES ASSUME ~early', ~api_cancelled' PROVE PInv'
  BY DEF PInv
<1>1. /\ SameJobs /\ Changes(Api, p) /\ db' = db /\ phase' = phase /\ phase # "down" /\ ~early
      /\ callback_set /\ ~api_cancelled
      /\ \/ UNCHANGED memory /\ NoOrder(writes'[Api])
         \/ /\ p \notin DOMAIN parents /\ jobs' = jobs /\ children' = children /\ fills' = fills
            /\ \A x \in DOMAIN parents : parents'[x] = parents[x]
  BY DEF ApiActs, Frame
<1>2. /\ Chain(db["parents"], db["children"], db["fills"])
      /\ Chain(parents, children, fills) /\ FillsOwned(fills, children)
      /\ Room(jobs, parents, children) /\ RowsBehind(db, parents, children)
      /\ QueuesFresh(writes, parents, children, jobs)
      /\ OrdersSaved(db, writes, parents, children)
  BY <1>1 DEF PInv
<1>3. FillsOwned(fills', children') /\ RowsBehind(db, parents', children')
  BY <1>1, <1>2, ChangesOwned, ChangesBehind
<1>4. /\ Chain(parents', children', fills') /\ Room(jobs', parents', children')
      /\ QueuesFresh(writes', parents', children', jobs')
      /\ OrdersSaved(db, writes', parents', children')
  <2>1. CASE UNCHANGED memory /\ NoOrder(writes'[Api])
    <3>1. Chain(parents', children', fills')
      BY <1>2, <2>1 DEF memory
    <3> QED  BY <1>1, <1>2, <2>1, <3>1, ControlFollowed
  <2>2. CASE /\ p \notin DOMAIN parents /\ jobs' = jobs /\ children' = children /\ fills' = fills
             /\ \A x \in DOMAIN parents : parents'[x] = parents[x]
    BY <1>1, <1>2, <2>2, ParentFollowed
  <2> QED  BY <1>1, <2>1, <2>2
<1> QED  BY <1>1, <1>2, <1>3, <1>4 DEF PInv

-----------------------------------------------------------------------------
(* A callback writes a row.                                                *)

LEMMA KidsBehind ==
  ASSUME NEW d, NEW ps, NEW ks, Kids(d["children"]), Kids(ks), RowsBehind(d, ps, ks), NEW x
  PROVE  /\ KidsOf(x, d["children"]) \subseteq KidsOf(x, ks)
         /\ KidsFilled(x, d["children"]) \in Nat /\ KidsFilled(x, ks) \in Nat
         /\ KidsFilled(x, d["children"]) <= KidsFilled(x, ks)
<1> DEFINE ls == d["children"]
<1>1. \A c \in DOMAIN ls : c \in DOMAIN ks /\ ls[c].parent = ks[c].parent /\ ls[c].filled <= ks[c].filled
  BY DEF RowsBehind, Behind
<1> HIDE DEF ls
<1>2. KidsOf(x, ls) \subseteq KidsOf(x, ks)
  BY <1>1 DEF KidsOf
<1>3. \A c \in KidsOf(x, ls) : Rises(c, ls, ks)
  BY <1>1 DEF KidsOf, Rises
<1>4. Kids(ls) /\ Kids(ks)
  BY DEF ls
<1>5. KidsFilled(x, ls) \in Nat /\ KidsFilled(x, ks) \in Nat
  BY <1>4, KidsFinite
<1>6. KidsFilled(x, ls) <= KidsFilled(x, ks)
  BY <1>2, <1>3, <1>4, KidsGrow
<1> QED  BY <1>2, <1>5, <1>6 DEF ls

(* What the first row of a queue is.                                       *)
LEMMA HeadFresh ==
  ASSUME NEW t \in Thread, NEW w, Shifts(t, w), QueuesFresh(writes, parents, children, jobs)
  PROVE  /\ PendFresh(t, writes[t], 1, parents, children, jobs)
         /\ w.table = "parents" => w.id \in DOMAIN parents /\ w.row = parents[w.id]
         /\ w.table = "children" =>
              /\ w.id \in DOMAIN children /\ w.row = children[w.id] /\ t = children[w.id].parent
              /\ t \in DOMAIN jobs
<1>1. 1 \in 1 .. Len(writes[t]) /\ w = writes[t][1]
  BY DEF Shifts
<1>2. PendFresh(t, writes[t], 1, parents, children, jobs)
  BY <1>1 DEF QueuesFresh
<1> QED  BY <1>1, <1>2 DEF PendFresh

LEMMA StoresFresh ==
  ASSUME NEW t \in Thread, NEW w, Shifts(t, w), parents' = parents, children' = children,
         jobs' = jobs, QueuesFresh(writes, parents, children, jobs)
  PROVE  QueuesFresh(writes', parents', children', jobs')
<1> SUFFICES ASSUME NEW u \in Thread, NEW i \in 1 .. Len(writes'[u])
             PROVE  PendFresh(u, writes'[u], i, parents, children, jobs)
  BY DEF QueuesFresh
<1>1. CASE u # t
  <2>1. writes'[u] = writes[u]
    BY <1>1 DEF Shifts
  <2> QED  BY <2>1 DEF QueuesFresh
<1>2. CASE u = t
  <2> DEFINE n == Len(writes[t])
             list == writes[t]
             rest == writes'[t]
  <2>1. n \in Nat \ {0} /\ Len(rest) = n - 1 /\ \A j \in 1 .. (n - 1) : rest[j] = list[j + 1]
    BY DEF Shifts
  <2>2. i \in 1 .. (n - 1)
    BY <1>2, <2>1
  <2>3. i + 1 \in 1 .. n /\ i + 1 # 1 /\ rest[i] = list[i + 1]
    BY <2>1, <2>2
  <2>4. PendFresh(t, list, i + 1, parents, children, jobs)
    BY <2>3 DEF QueuesFresh
  <2>5. \A j \in 1 .. (i - 1) : j + 1 \in 1 .. ((i + 1) - 1) /\ j \in 1 .. (n - 1)
    BY <2>1, <2>2
  <2>6. \A j \in 1 .. (i - 1) : j + 1 \in 1 .. ((i + 1) - 1) /\ rest[j] = list[j + 1]
    BY <2>1, <2>5
  <2> HIDE DEF n, list, rest
  <2>7. PendFresh(t, rest, i, parents, children, jobs)
    <3>1. rest[i].table # "parents"
      BY <2>3, <2>4 DEF PendFresh
    <3>2. ASSUME rest[i].table = "children"
          PROVE  /\ rest[i].id \in DOMAIN children /\ rest[i].row = children[rest[i].id]
                 /\ t = children[rest[i].id].parent /\ t \in DOMAIN jobs
                 /\ \A j \in 1 .. (i - 1) : rest[j].table \in {"parents", "children"}
      <4>1. /\ rest[i].id \in DOMAIN children /\ rest[i].row = children[rest[i].id]
            /\ t = children[rest[i].id].parent /\ t \in DOMAIN jobs
        BY <2>3, <2>4, <3>2 DEF PendFresh
      <4>2. \A j \in 1 .. ((i + 1) - 1) : list[j].table \in {"parents", "children"}
        BY <2>3, <2>4, <3>2 DEF PendFresh
      <4>3. \A j \in 1 .. (i - 1) : rest[j].table \in {"parents", "children"}
        BY <2>6, <4>2
      <4> QED  BY <4>1, <4>3
    <3> QED  BY <3>1, <3>2 DEF PendFresh
  <2> QED  BY <1>2, <2>7 DEF rest
<1> QED  BY <1>1, <1>2

(* The tables a row is not for stay as they are.                           *)
LEMMA OtherTables ==
  ASSUME NEW t, NEW w, Stores(t, w), NEW table \in Table, w.table # table
  PROVE  db'[table] = db[table]
BY DEF Stores, StoredIn

LEMMA OwnTable ==
  ASSUME NEW t, NEW w, Stores(t, w), NEW table \in Table, w.table = table, table # "positions"
  PROVE  /\ DOMAIN db'[table] = DOMAIN db[table] \cup {w.id} /\ db'[table][w.id] = w.row
         /\ \A x \in DOMAIN db[table] : x # w.id => db'[table][x] = db[table][x]
BY DEF Stores, StoredIn

LEMMA StoresBehind ==
  ASSUME TInv, NEW t \in Thread, NEW w, Stores(t, w), Shifts(t, w),
         QueuesFresh(writes, parents, children, jobs), RowsBehind(db, parents, children)
  PROVE  RowsBehind(db', parents, children)
<1>0. "parents" \in Table /\ "children" \in Table
  BY DEF Table
<1>1. DOMAIN db'["parents"] \subseteq DOMAIN parents
  <2>1. CASE w.table = "parents"
    BY <1>0, <2>1, OwnTable, HeadFresh DEF RowsBehind
  <2>2. CASE w.table # "parents"
    BY <1>0, <2>2, OtherTables DEF RowsBehind
  <2> QED  BY <2>1, <2>2
<1>2. ASSUME NEW c \in DOMAIN db'["children"]
      PROVE  c \in DOMAIN children /\ Behind(db'["children"][c], children[c])
  <2>1. CASE w.table = "children" /\ c = w.id
    <3>1. c \in DOMAIN children /\ db'["children"][c] = children[c]
      BY <1>0, <2>1, OwnTable, HeadFresh
    <3>2. children[c].filled \in Nat
      BY <3>1 DEF TInv, Typed, ChildTyped
    <3> QED  BY <3>1, <3>2 DEF Behind
  <2>2. CASE w.table = "children" /\ c # w.id
    <3>1. c \in DOMAIN db["children"] /\ db'["children"][c] = db["children"][c]
      BY <1>0, <1>2, <2>2, OwnTable
    <3> QED  BY <3>1 DEF RowsBehind
  <2>3. CASE w.table # "children"
    <3>1. db'["children"] = db["children"]
      BY <1>0, <2>3, OtherTables
    <3> QED  BY <1>2, <3>1 DEF RowsBehind
  <2> QED  BY <2>1, <2>2, <2>3
<1> QED  BY <1>1, <1>2 DEF RowsBehind

LEMMA StoresSaved ==
  ASSUME IInv, NEW t \in Thread, NEW w, Stores(t, w), Shifts(t, w),
         QueuesFresh(writes, parents, children, jobs), OrdersSaved(db, writes, parents, children)
  PROVE  OrdersSaved(db', writes', parents, children)
<1>0. "parents" \in Table /\ "children" \in Table
  BY DEF Table
<1>1. ASSUME NEW x \in DOMAIN parents PROVE ParentSaved(x, db', writes', parents)
  <2>1. x \in Thread /\ Api \in Thread /\ ParentSaved(x, db, writes, parents)
    BY OmsAssumption DEF IInv, Family, Thread, Api, OrdersSaved
  <2>2. CASE w.table = "parents" /\ w.id = x
    <3>1. x \in DOMAIN db'["parents"] /\ db'["parents"][x] = parents[x]
      BY <1>0, <2>2, OwnTable, HeadFresh
    <3> QED  BY <3>1 DEF ParentSaved, Loaded
  <2>3. CASE ~(w.table = "parents" /\ w.id = x)
    <3>1. x \in DOMAIN db["parents"] =>
            x \in DOMAIN db'["parents"] /\ db'["parents"][x] = db["parents"][x]
      BY <1>0, <2>3, OwnTable, OtherTables
    <3>2. \A u \in Thread : Pends(writes[u], "parents", x) => Pends(writes'[u], "parents", x)
      BY <2>3, ShiftPends
    <3> QED  BY <2>1, <3>1, <3>2 DEF ParentSaved
  <2> QED  BY <2>2, <2>3
<1>2. ASSUME NEW c \in DOMAIN children PROVE ChildSaved(c, db', writes', children)
  <2>1. children[c].parent \in Thread /\ ChildSaved(c, db, writes, children)
    BY OmsAssumption DEF IInv, Family, Thread, OrdersSaved
  <2>2. CASE w.table = "children" /\ w.id = c
    <3>1. c \in DOMAIN db'["children"] /\ db'["children"][c] = children[c]
      BY <1>0, <2>2, OwnTable, HeadFresh
    <3> QED  BY <3>1 DEF ChildSaved
  <2>3. CASE ~(w.table = "children" /\ w.id = c)
    <3>1. c \in DOMAIN db["children"] =>
            c \in DOMAIN db'["children"] /\ db'["children"][c] = db["children"][c]
      BY <1>0, <2>3, OwnTable, OtherTables
    <3>2. \A u \in Thread : Pends(writes[u], "children", c) => Pends(writes'[u], "children", c)
      BY <2>3, ShiftPends
    <3> QED  BY <2>1, <3>1, <3>2 DEF ChildSaved
  <2> QED  BY <2>2, <2>3
<1> QED  BY <1>1, <1>2 DEF OrdersSaved

(* The row of a parent: its children on record are behind those in memory. *)
LEMMA StoreParentChain ==
  ASSUME IInv, TInv, NEW t \in Thread, NEW w, Stores(t, w), Shifts(t, w), w.table = "parents",
         Chain(db["parents"], db["children"], db["fills"]), Chain(parents, children, fills),
         QueuesFresh(writes, parents, children, jobs), RowsBehind(db, parents, children)
  PROVE  Chain(db'["parents"], db'["children"], db'["fills"])
<1>1. db'["children"] = db["children"] /\ db'["fills"] = db["fills"]
  BY OtherTables DEF Table
<1>2. /\ DOMAIN db'["parents"] = DOMAIN db["parents"] \cup {w.id} /\ db'["parents"][w.id] = w.row
      /\ \A x \in DOMAIN db["parents"] : x # w.id => db'["parents"][x] = db["parents"][x]
  BY OwnTable DEF Table
<1>3. w.id \in DOMAIN parents /\ w.row = parents[w.id]
  BY HeadFresh
<1>4. ASSUME NEW x \in DOMAIN db'["parents"] PROVE Shown(x, db'["parents"], db["children"])
  <2>1. CASE x = w.id
    <3>1. /\ KidsFilled(x, db["children"]) \in Nat /\ KidsFilled(x, children) \in Nat
          /\ KidsFilled(x, db["children"]) <= KidsFilled(x, children)
      BY KidsBehind, MemoryKids
    <3>2. KidsFilled(x, children) <= parents[x].filled /\ parents[x].filled \in Nat
      BY <1>3, <2>1 DEF Chain, Shown, TInv, Typed, ParentTyped
    <3>3. db'["parents"][x] = parents[x]
      BY <1>2, <1>3, <2>1
    <3>4. KidsFilled(x, db["children"]) <= parents[x].filled
      BY <3>1, <3>2
    <3> QED  BY <3>3, <3>4 DEF Shown
  <2>2. CASE x # w.id
    <3>1. x \in DOMAIN db["parents"] /\ db'["parents"][x] = db["parents"][x]
      BY <1>2, <1>4, <2>2
    <3>2. Shown(x, db["parents"], db["children"])
      BY <3>1 DEF Chain
    <3> QED  BY <3>1, <3>2 DEF Shown
  <2> QED  BY <2>1, <2>2
<1> QED  BY <1>1, <1>4 DEF Chain

(* When the row of a child is written, that of its parent has been.        *)
LEMMA ParentWritten ==
  ASSUME IInv, NEW t \in Thread, NEW w, Shifts(t, w), w.table = "children",
         QueuesFresh(writes, parents, children, jobs), OrdersSaved(db, writes, parents, children)
  PROVE  t \in DOMAIN parents /\ t \in DOMAIN db["parents"] /\ Loaded(db["parents"][t], parents[t])
<1>1. t \in DOMAIN jobs
  BY HeadFresh
<1>2. t \in DOMAIN parents /\ Api \in Thread /\ t # Api
  BY <1>1, OmsAssumption DEF IInv, Working, Family, Api, Thread
<1>3. ~Pends(writes[Api], "parents", t)
  <2> SUFFICES ASSUME NEW i \in 1 .. Len(writes[Api]), writes[Api][i].table = "parents",
                      writes[Api][i].id = t
               PROVE  FALSE
    BY DEF Pends
  <2>1. PendFresh(Api, writes[Api], i, parents, children, jobs)
    BY <1>2 DEF QueuesFresh
  <2> QED  BY <1>1, <1>2, <2>1 DEF PendFresh
<1>4. ~Pends(writes[t], "parents", t)
  <2> SUFFICES ASSUME NEW i \in 1 .. Len(writes[t]), writes[t][i].table = "parents"
               PROVE  FALSE
    BY DEF Pends
  <2>1. PendFresh(t, writes[t], i, parents, children, jobs)
    BY DEF QueuesFresh
  <2>2. i = 1 /\ w = writes[t][1]
    BY <2>1 DEF PendFresh, Shifts
  <2> QED  BY <2>2
<1>5. ParentSaved(t, db, writes, parents)
  BY <1>2 DEF OrdersSaved
<1> QED  BY <1>2, <1>3, <1>4, <1>5 DEF ParentSaved

LEMMA StoreChildChain ==
  ASSUME IInv, IInv', TInv, TInv', NEW t \in Thread, NEW w, Stores(t, w), Shifts(t, w),
         w.table = "children", phase # "down",
         Chain(db["parents"], db["children"], db["fills"]), Chain(parents, children, fills),
         QueuesFresh(writes, parents, children, jobs), RowsBehind(db, parents, children),
         OrdersSaved(db, writes, parents, children)
  PROVE  Chain(db'["parents"], db'["children"], db'["fills"])
<1> DEFINE ks == db["children"]
           ls == db'["children"]
           c == w.id
           fs == db["fills"]
<1>1. db'["parents"] = db["parents"] /\ db'["fills"] = fs
  BY OtherTables DEF Table
<1>2. c \in DOMAIN children /\ w.row = children[c] /\ t = children[c].parent
  BY HeadFresh
<1>3. /\ DOMAIN ls = DOMAIN ks \cup {c} /\ ls[c] = children[c]
      /\ \A y \in DOMAIN ks : y # c => ls[y] = ks[y]
  BY <1>2, OwnTable DEF Table
<1>4. Kids(ks) /\ Kids(ls) /\ Kids(children)
  BY MemoryKids DEF IInv, TInv, Typed, ChildTyped, Rows, Kids
<1>5. \A y \in DOMAIN ks : ks[y].parent = children[y].parent /\ ks[y].filled <= children[y].filled
  BY DEF RowsBehind, Behind
<1>6. FillTable(fs) /\ FillTable(fills) /\ FillsKept(fs, fills) /\ FillsKept(fs, fs)
  BY DEF TInv, Typed, FillsKept
<1>7. RowsBehind(db', parents, children)
  BY StoresBehind
<1>8. ASSUME NEW x
      PROVE  KidsFilled(x, ls) \in Nat /\ KidsFilled(x, children) \in Nat
             /\ KidsFilled(x, ls) <= KidsFilled(x, children)
  BY <1>4, <1>7, KidsBehind
<1> HIDE DEF ks, ls, fs, c
<1>9. ASSUME NEW x \in 1 .. MaxParents PROVE Executed(x, ls, fs)
  <2>1. KidsOf(x, ks) \subseteq KidsOf(x, ls)
    BY <1>3, <1>5 DEF KidsOf
  <2>2. \A y \in KidsOf(x, ks) : Rises(y, ks, ls)
    <3> TAKE y \in KidsOf(x, ks)
    <3>1. y \in DOMAIN ks /\ ks[y].filled \in Nat
      BY <1>4 DEF KidsOf, Kids
    <3>2. ls[y] = ks[y] \/ ls[y] = children[y]
      BY <1>3, <3>1
    <3> QED  BY <1>5, <3>1, <3>2 DEF Rises
  <2>3. KidsFilled(x, ks) <= KidsFilled(x, ls) /\ KidsFilled(x, ks) \in Nat
    BY <1>4, <2>1, <2>2, KidsGrow, KidsFinite
  <2>4. FilledOf(x, fs) \in Nat /\ FilledOf(x, fs) <= KidsFilled(x, ks)
    BY <1>6, FilledGrows DEF Chain, Executed, ks, fs
  <2>5. FilledOf(x, fs) <= KidsFilled(x, ls)
    BY <1>8, <2>3, <2>4
  <2> QED  BY <2>5 DEF Executed
<1>10. ASSUME NEW x \in DOMAIN db["parents"] PROVE Shown(x, db["parents"], ls)
  <2>1. CASE x = t
    <3>1. t \in DOMAIN parents /\ Loaded(db["parents"][t], parents[t])
      BY ParentWritten
    <3>2. KidsFilled(t, children) <= parents[t].filled /\ parents[t].filled \in Nat
      BY <3>1 DEF Chain, Shown, TInv, Typed, ParentTyped
    <3>3. db["parents"][t].filled = parents[t].filled
      BY <3>1 DEF Loaded
    <3>4. KidsFilled(t, ls) <= parents[t].filled
      BY <1>8, <3>2
    <3> QED  BY <2>1, <3>3, <3>4 DEF Shown
  <2>2. CASE x # t
    <3>1. KidsOf(x, ks) = KidsOf(x, ls)
      BY <1>2, <1>3, <1>5, <2>2 DEF KidsOf
    <3>2. \A y \in KidsOf(x, ks) : ls[y].filled = ks[y].filled
      <4> TAKE y \in KidsOf(x, ks)
      <4>1. y \in DOMAIN ks /\ y # c
        BY <1>2, <1>5, <2>2 DEF KidsOf
      <4> QED  BY <1>3, <4>1
    <3>3. KidsFilled(x, ls) = KidsFilled(x, ks)
      BY <1>4, <3>1, <3>2, KidsSame
    <3>4. Shown(x, db["parents"], ks)
      BY DEF Chain, ks
    <3> QED  BY <3>3, <3>4 DEF Shown
  <2> QED  BY <2>1, <2>2
<1>11. ASSUME NEW y \in DOMAIN ls PROVE ChildShows(y, ls, fs)
  <2>1. CASE y = c
    <3>1. /\ FilledOfChild(y, fs) \in Nat /\ FilledOfChild(y, fills) \in Nat
          /\ FilledOfChild(y, fs) <= FilledOfChild(y, fills)
      BY <1>6, FilledChildGrows
    <3>2. FilledOfChild(y, fills) <= children[y].filled /\ children[y].filled \in Nat
      BY <1>2, <2>1 DEF Chain, ChildShows, TInv, Typed, ChildTyped
    <3>3. FilledOfChild(y, fs) <= children[y].filled
      BY <3>1, <3>2
    <3> QED  BY <1>3, <2>1, <3>3 DEF ChildShows
  <2>2. CASE y # c
    <3>1. y \in DOMAIN ks /\ ls[y] = ks[y]
      BY <1>3, <1>11, <2>2
    <3>2. ChildShows(y, ks, fs)
      BY <3>1 DEF Chain, ks, fs
    <3> QED  BY <3>1, <3>2 DEF ChildShows
  <2> QED  BY <2>1, <2>2
<1>12. Chain(db["parents"], ls, fs)
  BY <1>9, <1>10, <1>11 DEF Chain
<1> QED  BY <1>1, <1>12 DEF ls, fs

(* When the row of a fill is written, those of the children have been.     *)
LEMMA KidsWritten ==
  ASSUME NEW t \in Thread, NEW w, Shifts(t, w), w.table = "fills",
         QueuesFresh(writes, parents, children, jobs), OrdersSaved(db, writes, parents, children),
         NEW c \in KidsOf(t, children)
  PROVE  c \in DOMAIN db["children"] /\ db["children"][c] = children[c]
<1>1. c \in DOMAIN children /\ children[c].parent = t /\ ChildSaved(c, db, writes, children)
  BY DEF KidsOf, OrdersSaved
<1>2. ~Pends(writes[t], "children", c)
  <2> SUFFICES ASSUME NEW i \in 1 .. Len(writes[t]), writes[t][i].table = "children"
               PROVE  FALSE
    BY DEF Pends
  <2>1. PendFresh(t, writes[t], i, parents, children, jobs)
    BY DEF QueuesFresh
  <2>2. writes[t][1].table = "fills"
    BY DEF Shifts
  <2>3. i # 1
    BY <2>2
  <2>4. Len(writes[t]) \in Nat
    BY DEF Shifts
  <2>5. 1 \in 1 .. (i - 1)
    BY <2>3, <2>4
  <2>6. writes[t][1].table \in {"parents", "children"}
    BY <2>1, <2>5 DEF PendFresh
  <2> QED  BY <2>2, <2>6
<1> QED  BY <1>1, <1>2 DEF ChildSaved

LEMMA StoreFillChain ==
  ASSUME IInv, IInv', TInv, TInv', CInv, NEW t \in Thread, NEW w, Stores(t, w), Shifts(t, w),
         w.table = "fills", phase # "down",
         Chain(db["parents"], db["children"], db["fills"]), Chain(parents, children, fills),
         QueuesFresh(writes, parents, children, jobs), RowsBehind(db, parents, children),
         OrdersSaved(db, writes, parents, children)
  PROVE  Chain(db'["parents"], db'["children"], db'["fills"])
<1> DEFINE ks == db["children"]
           fs == db["fills"]
           gs == db'["fills"]
<1>1. db'["parents"] = db["parents"] /\ db'["children"] = ks
  BY OtherTables DEF Table
<1>2. /\ w.row.parent = t
      /\ w.row.child \in DOMAIN children /\ children[w.row.child].parent = t
  <2>1. PendTyped(t, w, fills, jobs) /\ PendLive(w, parents, children)
    BY DEF TInv, Pending, CInv, Shifts
  <2> QED  BY <2>1 DEF PendTyped, PendLive
<1>3. DOMAIN gs = DOMAIN fs \cup {w.id} /\ gs[w.id] = w.row
  BY OwnTable DEF Table
<1>4. /\ FillTable(fs) /\ FillTable(gs) /\ FillTable(fills)
      /\ FillsKept(fs, gs) /\ FillsKept(gs, fills)
  <2>1. FillTable(fills) /\ FillsKept(gs, fills)
    BY DEF TInv, Typed, Stores, memory
  <2> QED  BY <2>1, StoresFills
<1>5. Kids(ks) /\ Kids(children)
  BY MemoryKids
<1>6. \A y \in KidsOf(t, children) : y \in DOMAIN ks /\ ks[y] = children[y]
  BY KidsWritten
<1>7. \A y \in DOMAIN ks : y \in DOMAIN children /\ ks[y].parent = children[y].parent
  BY DEF RowsBehind, Behind
<1> HIDE DEF ks, fs, gs
<1>8. KidsFilled(t, ks) = KidsFilled(t, children)
  <2>1. KidsOf(t, children) = KidsOf(t, ks)
    BY <1>6, <1>7 DEF KidsOf
  <2>2. \A y \in KidsOf(t, children) : ks[y].filled = children[y].filled
    BY <1>6
  <2> QED  BY <1>5, <2>1, <2>2, KidsSame
<1>9. ASSUME NEW x \in 1 .. MaxParents PROVE Executed(x, ks, gs)
  <2>1. CASE x = t
    <3>1. /\ FilledOf(x, gs) \in Nat /\ FilledOf(x, fills) \in Nat
          /\ FilledOf(x, gs) <= FilledOf(x, fills)
      BY <1>4, FilledGrows
    <3>2. FilledOf(x, fills) <= KidsFilled(x, children) /\ KidsFilled(x, children) \in Nat
      BY <1>5, KidsFinite DEF Chain, Executed
    <3>3. FilledOf(x, gs) <= KidsFilled(x, children)
      BY <3>1, <3>2
    <3> QED  BY <1>8, <2>1, <3>3 DEF Executed
  <2>2. CASE x # t
    <3>1. \A f \in DOMAIN gs \ DOMAIN fs : gs[f].parent # x
      BY <1>2, <1>3, <2>2
    <3>2. FilledOf(x, gs) = FilledOf(x, fs)
      BY <1>4, <3>1, FilledGrows
    <3>3. Executed(x, ks, fs)
      BY DEF Chain, ks, fs
    <3> QED  BY <3>2, <3>3 DEF Executed
  <2> QED  BY <2>1, <2>2
<1>10. ASSUME NEW y \in DOMAIN ks PROVE ChildShows(y, ks, gs)
  <2>1. CASE children[y].parent = t
    <3>1. y \in DOMAIN children /\ ks[y] = children[y]
      BY <1>6, <1>7, <2>1 DEF KidsOf
    <3>2. /\ FilledOfChild(y, gs) \in Nat /\ FilledOfChild(y, fills) \in Nat
          /\ FilledOfChild(y, gs) <= FilledOfChild(y, fills)
      BY <1>4, FilledChildGrows
    <3>3. FilledOfChild(y, fills) <= children[y].filled /\ children[y].filled \in Nat
      BY <1>5, <3>1 DEF Chain, ChildShows, Kids
    <3>4. FilledOfChild(y, gs) <= children[y].filled
      BY <3>2, <3>3
    <3> QED  BY <3>1, <3>4 DEF ChildShows
  <2>2. CASE children[y].parent # t
    <3>1. \A f \in DOMAIN gs \ DOMAIN fs : gs[f].child # y
      BY <1>2, <1>3, <2>2
    <3>2. FilledOfChild(y, gs) = FilledOfChild(y, fs)
      BY <1>4, <3>1, FilledChildGrows
    <3>3. ChildShows(y, ks, fs)
      BY DEF Chain, ks, fs
    <3> QED  BY <3>2, <3>3 DEF ChildShows
  <2> QED  BY <2>1, <2>2
<1>11. \A x \in DOMAIN db["parents"] : Shown(x, db["parents"], ks)
  BY DEF Chain, ks
<1>12. Chain(db["parents"], ks, gs)
  BY <1>9, <1>10, <1>11 DEF Chain
<1> QED  BY <1>1, <1>12 DEF ks, gs

LEMMA StoresFollowed ==
  ASSUME IInv, IInv', TInv, TInv', CInv, PInv, NEW t \in Thread, NEW w, Stores(t, w)
  PROVE  PInv'
<1> SUFFICES ASSUME ~early', ~api_cancelled' PROVE PInv'
  BY DEF PInv
<1>1. /\ Shifts(t, w) /\ parents' = parents /\ children' = children /\ fills' = fills
      /\ jobs' = jobs /\ phase' = phase /\ phase # "down" /\ ~early /\ ~api_cancelled
  BY DEF Stores, memory
<1>2. /\ Chain(db["parents"], db["children"], db["fills"])
      /\ Chain(parents, children, fills) /\ FillsOwned(fills, children)
      /\ Room(jobs, parents, children) /\ RowsBehind(db, parents, children)
      /\ QueuesFresh(writes, parents, children, jobs)
      /\ OrdersSaved(db, writes, parents, children)
  BY <1>1 DEF PInv
<1>3. Chain(db'["parents"], db'["children"], db'["fills"])
  <2>1. CASE w.table \notin {"parents", "children", "fills"}
    <3>1. /\ db'["parents"] = db["parents"] /\ db'["children"] = db["children"]
          /\ db'["fills"] = db["fills"]
      BY <2>1, OtherTables DEF Table
    <3> QED  BY <1>2, <3>1
  <2>2. CASE w.table = "parents"
    BY <1>1, <1>2, <2>2, StoreParentChain
  <2>3. CASE w.table = "children"
    BY <1>1, <1>2, <2>3, StoreChildChain
  <2>4. CASE w.table = "fills"
    BY <1>1, <1>2, <2>4, StoreFillChain
  <2> QED  BY <2>1, <2>2, <2>3, <2>4
<1>4. RowsBehind(db', parents, children)
  BY <1>1, <1>2, StoresBehind
<1>5. OrdersSaved(db', writes', parents, children)
  BY <1>1, <1>2, StoresSaved
<1>6. QueuesFresh(writes', parents', children', jobs')
  BY <1>1, <1>2, StoresFresh
<1> QED  BY <1>1, <1>2, <1>3, <1>4, <1>5, <1>6 DEF PInv

LEMMA RestartFollowed ==
  ASSUME IInv, TInv, PInv, Restarts
  PROVE  PInv'
<1> SUFFICES ASSUME ~early', ~api_cancelled' PROVE PInv'
  BY DEF PInv
<1>1. /\ ~early /\ ~api_cancelled
      /\ children' = db["children"] /\ fills' = db["fills"] /\ DOMAIN parents' = DOMAIN db["parents"]
      /\ \A p \in DOMAIN db["parents"] : Loaded(db["parents"][p], parents'[p])
  BY DEF Restarts
<1>2. db'["parents"] = db["parents"] /\ db'["children"] = db["children"] /\ db'["fills"] = db["fills"]
  BY DEF Restarts, Table
<1>3. Chain(db["parents"], db["children"], db["fills"])
  BY <1>1 DEF PInv
<1>4. Chain(parents', children', fills')
  <2>1. \A p \in DOMAIN db["parents"] : parents'[p].filled = db["parents"][p].filled
    BY <1>1 DEF Loaded
  <2>2. \A p \in DOMAIN db["parents"] : Shown(p, parents', children')
    <3> TAKE p \in DOMAIN db["parents"]
    <3>1. Shown(p, db["parents"], db["children"])
      BY <1>3 DEF Chain
    <3> QED  BY <1>1, <2>1, <3>1 DEF Shown
  <2> QED  BY <1>1, <1>3, <2>2 DEF Chain
<1>5. FillsOwned(fills', children')
  BY <1>1 DEF IInv, Ordered, FillsOwned
<1>6. Room(jobs', parents', children')
  <2>1. \A p \in DOMAIN jobs' : jobs'[p].pc \notin Leg
    BY DEF Restarts
  <2> QED  BY <2>1 DEF Room
<1>7. RowsBehind(db', parents', children')
  <2>1. \A c \in DOMAIN db["children"] : Behind(db["children"][c], db["children"][c])
    <3> TAKE c \in DOMAIN db["children"]
    <3>1. db["children"][c].filled \in Nat
      BY DEF TInv, Typed, ChildTyped
    <3> QED  BY <3>1 DEF Behind
  <2> QED  BY <1>1, <1>2, <2>1 DEF RowsBehind
<1>8. QueuesFresh(writes', parents', children', jobs')
  <2>1. \A t \in Thread : writes'[t] = <<>>
    BY DEF Restarts, TInv
  <2>2. Len(<<>>) = 0
    OBVIOUS
  <2>3. \A t \in Thread : 1 .. Len(writes'[t]) = {}
    BY <2>1, <2>2
  <2> QED  BY <2>3 DEF QueuesFresh
<1>9. OrdersSaved(db', writes', parents', children')
  BY <1>1, <1>2 DEF OrdersSaved, ParentSaved, ChildSaved
<1> QED  BY <1>2, <1>3, <1>4, <1>5, <1>6, <1>7, <1>8, <1>9 DEF PInv

LEMMA RestsFollowed ==
  ASSUME PInv, Rests
  PROVE  PInv'
<1>1. /\ parents' = parents /\ children' = children /\ fills' = fills /\ jobs' = jobs
      /\ writes' = writes /\ db' = db /\ early' = early /\ api_cancelled' = api_cancelled
      /\ phase' = phase \/ (phase # "down" /\ phase' # "down")
  BY DEF Rests, memory
<1> QED  BY <1>1 DEF PInv

(* Nothing is filled by nobody.                                            *)
LEMMA EmptyChain ==
  ASSUME NEW e, e = <<>>
  PROVE  Chain(e, e, e)
<1>1. DOMAIN e = {} /\ FillTable(e)
  BY EmptyTyped DEF Typed
<1>2. ASSUME NEW p PROVE Executed(p, e, e)
  <2>1. KidsOf(p, e) = {} /\ {f \in DOMAIN e : e[f].parent = p} = {}
    BY <1>1 DEF KidsOf
  <2>2. KidsFilled(p, e) = 0
    <3> DEFINE f == [c \in {} |-> e[c].filled]
    <3>1. SumOver(e, {}) = SumFunctionOnSet(f, {}) /\ Summable(f, {})
      BY FS_EmptySet, SumTotal
    <3> HIDE DEF f
    <3> QED  BY <2>1, <3>1, SumPicks DEF KidsFilled
  <2>3. FilledOf(p, e) = 0
    <3> DEFINE q == Quantities(e)
    <3>1. FilledOf(p, e) = SumFunctionOnSet(q, {})
      BY <2>1 DEF FilledOf
    <3>2. Summable(q, {})
      BY FS_EmptySet DEF Summable
    <3> HIDE DEF q
    <3> QED  BY <3>1, <3>2, SumPicks
  <2> QED  BY <2>2, <2>3 DEF Executed
<1> QED  BY <1>1, <1>2 DEF Chain

LEMMA InitFollowed ==
  ASSUME Init PROVE PInv
<1> DEFINE e == <<>>
<1>1. /\ parents = e /\ children = e /\ fills = e /\ writes = NoWrites /\ jobs = e
      /\ db = [parents |-> <<>>, children |-> <<>>, fills |-> <<>>, drops |-> <<>>,
               jobs |-> <<>>, requests |-> <<>>]
  BY DEF Init, OmsInit
<1>2. db["parents"] = e /\ db["children"] = e /\ db["fills"] = e
  BY <1>1
<1>3. Chain(e, e, e) /\ DOMAIN e = {}
  BY EmptyChain
<1>4. \A t \in Thread : 1 .. Len(writes[t]) = {}
  <2>1. Len(<<>>) = 0
    OBVIOUS
  <2> QED  BY <1>1, <2>1 DEF NoWrites
<1> HIDE DEF e
<1>5. FillsOwned(fills, children) /\ Room(jobs, parents, children)
  BY <1>1, <1>3 DEF FillsOwned, Room
<1>6. RowsBehind(db, parents, children) /\ OrdersSaved(db, writes, parents, children)
  BY <1>1, <1>2, <1>3 DEF RowsBehind, OrdersSaved
<1>7. QueuesFresh(writes, parents, children, jobs)
  BY <1>4 DEF QueuesFresh
<1> QED  BY <1>1, <1>2, <1>3, <1>5, <1>6, <1>7 DEF PInv

LEMMA Following == Spec => []PInv
<1>1. Init => PInv
  BY InitFollowed
<1>2. ASSUME PInv, Crash PROVE PInv'
  <2>1. db' = db /\ phase' = "down" /\ early' = early /\ api_cancelled' = api_cancelled
    BY <1>2 DEF Crash
  <2> QED  BY <1>2, <2>1 DEF PInv
<1>3. IInv /\ IInv' /\ TInv /\ TInv' /\ CInv /\ PInv /\ [Next]_vars => PInv'
  BY <1>2, NextActs, JobActsFollowed, ApiActsFollowed, StoresFollowed, RestartFollowed,
     RestsFollowed DEF Acts
<1> QED  BY <1>1, <1>3, Invariance, Typing, Cancellation, PTL DEF Spec

(* For any number of orders, requests and crashes: as long as no client    *)
(* cancels a child by REST and no recovered job is faster than the         *)
(* constructor of the API's state, the fills never exceed the order, in    *)
(* memory or on record, and no row on record shows less than its fills add *)
(* up to, although a resumed job may repeat a slice (create_child holds it *)
(* back) and a crash may fall between any two rows of a callback.          *)
THEOREM OrdersNeverOverExecuted == Spec => []NeverOverExecuted
<1>1. ASSUME IInv, TInv, NInv, PInv PROVE NeverOverExecuted
  <2> SUFFICES ASSUME ~api_cancelled, ~early PROVE NeverOverExecuted
    BY DEF NeverOverExecuted
  <2>1. Chain(db["parents"], db["children"], db["fills"])
    BY <1>1 DEF PInv
  <2>2. ASSUME NEW ps, NEW ks, NEW fs, Chain(ps, ks, fs), Kids(ks), FillTable(fs),
               NEW p \in DOMAIN ps, p \in 1 .. MaxParents, ps[p].filled \in Nat
        PROVE  FilledOf(p, fs) \in Nat /\ FilledOf(p, fs) <= ps[p].filled
    <3>1. KidsFilled(p, ks) \in Nat /\ KidsFilled(p, ks) <= ps[p].filled
      BY <2>2, KidsFinite DEF Chain, Shown
    <3>2. FilledOf(p, fs) \in Nat /\ FilledOf(p, fs) <= KidsFilled(p, ks)
      <4>1. FillsKept(fs, fs)
        BY DEF FillsKept
      <4> QED  BY <2>2, <4>1, FilledGrows DEF Chain, Executed
    <3> QED  BY <2>2, <3>1, <3>2
  <2>3. Kids(children) /\ Kids(db["children"]) /\ FillTable(fills) /\ FillTable(db["fills"])
    BY <1>1, MemoryKids DEF TInv, Typed
  <2>4. ASSUME NEW p \in DOMAIN db["parents"]
        PROVE  FilledOf(p, db["fills"]) <= db["parents"][p].filled
    <3>1. p \in 1 .. MaxParents /\ db["parents"][p].filled \in Nat
      BY <1>1 DEF IInv, Rows, TInv, Typed, ParentTyped
    <3> QED  BY <2>1, <2>2, <2>3, <3>1
  <2>5. ASSUME NEW p \in DOMAIN parents PROVE FilledOf(p, fills) <= parents[p].quantity
    <3>1. p \in 1 .. MaxParents /\ ParentTyped(parents[p])
      BY <1>1 DEF IInv, Family, TInv, Typed
    <3>2. Chain(parents, children, fills)
      BY <1>1 DEF NInv, PInv
    <3>3. FilledOf(p, fills) \in Nat /\ FilledOf(p, fills) <= parents[p].filled
      BY <2>2, <2>3, <3>1, <3>2 DEF ParentTyped
    <3> QED  BY <3>1, <3>3 DEF ParentTyped
  <2>6. ASSUME NEW c \in DOMAIN db["children"]
        PROVE  FilledOfChild(c, db["fills"]) <= db["children"][c].filled
    BY <2>1 DEF Chain, ChildShows
  <2> QED  BY <2>4, <2>5, <2>6 DEF NeverOverExecuted
<1> QED  BY <1>1, Invariance, Typing, FillsCounted, Following, PTL

(* For any number of orders, requests and crashes, under the same          *)
(* conditions: whenever the callbacks have returned the tables hold what   *)
(* the memory holds and the positions count exactly the fills, also in a   *)
(* process that was recovered.                                             *)
THEOREM StoreFollows == Spec => []StoreCaughtUp
<1>1. ASSUME IInv, TInv, JInv, NInv, PInv PROVE StoreCaughtUp
  <2> SUFFICES ASSUME phase = "serving", ~early, ~api_cancelled, \A t \in Thread : Ready(t)
               PROVE  /\ db["children"] = children /\ db["fills"] = fills
                      /\ positions = DOMAIN fills
                      /\ DOMAIN db["parents"] = DOMAIN parents
                      /\ \A p \in DOMAIN parents :
                           [db["parents"][p] EXCEPT !.child_ids = {}]
                             = [parents[p] EXCEPT !.child_ids = {}]
    BY DEF StoreCaughtUp
  <2>1. \A t \in Thread : \A table, id : ~Pends(writes[t], table, id)
    BY NoPends DEF Ready
  <2>2. /\ RowsBehind(db, parents, children) /\ OrdersSaved(db, writes, parents, children)
        /\ FillsSaved(fills, db["fills"], writes) /\ FillsKept(db["fills"], fills)
        /\ Counting(fills, positions, writes)
    BY <1>1 DEF PInv, JInv, TInv, NInv
  <2>3. /\ IsTable(children) /\ IsTable(fills) /\ IsTable(db["children"]) /\ IsTable(db["fills"])
        /\ \A f \in DOMAIN fills : fills[f].parent \in DOMAIN parents
    BY <1>1 DEF TInv, Typed
  <2>4. \A p \in DOMAIN parents : p \in Thread /\ Api \in Thread
    BY <1>1, OmsAssumption DEF IInv, Family, Thread, Api
  <2>5. \A c \in DOMAIN children : children[c].parent \in DOMAIN parents
    BY <1>1 DEF IInv, Family
  <2>6. db["children"] = children
    <3>1. \A c \in DOMAIN children : c \in DOMAIN db["children"] /\ db["children"][c] = children[c]
      BY <2>1, <2>2, <2>4, <2>5 DEF OrdersSaved, ChildSaved
    <3>2. DOMAIN db["children"] = DOMAIN children
      BY <2>2, <3>1 DEF RowsBehind
    <3> QED  BY <2>3, <3>1, <3>2 DEF IsTable
  <2>7. db["fills"] = fills
    <3>1. \A f \in DOMAIN fills : f \in DOMAIN db["fills"]
      BY <2>1, <2>2, <2>3, <2>4 DEF FillsSaved
    <3>2. DOMAIN db["fills"] = DOMAIN fills /\ \A f \in DOMAIN fills : db["fills"][f] = fills[f]
      BY <2>2, <3>1 DEF FillsKept
    <3> QED  BY <2>3, <3>2 DEF IsTable
  <2>8. positions = DOMAIN fills
    BY <2>1, <2>2 DEF Counting
  <2>9. \A p \in DOMAIN parents :
          p \in DOMAIN db["parents"] /\ Loaded(db["parents"][p], parents[p])
    BY <2>1, <2>2, <2>4 DEF OrdersSaved, ParentSaved
  <2>10. DOMAIN db["parents"] = DOMAIN parents
    BY <2>2, <2>9 DEF RowsBehind
  <2>11. ASSUME NEW p \in DOMAIN parents
         PROVE  [db["parents"][p] EXCEPT !.child_ids = {}] = [parents[p] EXCEPT !.child_ids = {}]
    <3> DEFINE r == db["parents"][p]
               s == parents[p]
    <3>1. IsParent(r) /\ IsParent(s) /\ Loaded(r, s)
      BY <1>1, <2>9, <2>10 DEF IInv, Rows, Family
    <3> HIDE DEF r, s
    <3>2. [r EXCEPT !.child_ids = {}]
            = [quantity |-> r.quantity, filled |-> r.filled, remaining |-> r.remaining,
               status |-> r.status, child_ids |-> {}]
      BY <3>1 DEF IsParent
    <3>3. [s EXCEPT !.child_ids = {}]
            = [quantity |-> s.quantity, filled |-> s.filled, remaining |-> s.remaining,
               status |-> s.status, child_ids |-> {}]
      BY <3>1 DEF IsParent
    <3>4. [r EXCEPT !.child_ids = {}] = [s EXCEPT !.child_ids = {}]
      BY <3>1, <3>2, <3>3 DEF Loaded
    <3> QED  BY <3>4 DEF r, s
  <2> QED  BY <2>6, <2>7, <2>8, <2>10, <2>11
<1> QED  BY <1>1, Invariance, Typing, Coverage, FillsCounted, Following, PTL

=============================================================================
