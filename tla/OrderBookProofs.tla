--------------------------- MODULE OrderBookProofs ---------------------------
(***************************************************************************)
(* What holds of an order book of any capacity, with any ids, clients,     *)
(* prices and requests: proofs of the invariants and action properties of  *)
(* module OrderBook.                                                       *)
(***************************************************************************)
EXTENDS OrderBook, SequenceLemmas, FiniteSetTheorems, TLAPS

-----------------------------------------------------------------------------
(* The inductive invariant.  The type of the book and the agreement of its *)
(* two indexes hold together: unlink finds a position to remove only in a  *)
(* level that does hold the order, and the position it removes must be the *)
(* only one.  MirrorExact adds that an order being matched is not in the   *)
(* book, so that rest never overwrites one.                                *)

BookTyped ==
  /\ DOMAIN orders \subseteq OrderId
  /\ \A id \in DOMAIN orders : orders[id] \in RestingOrder
  /\ DOMAIN levels = Side
  /\ \A s \in Side : \A p \in DOMAIN levels[s] :
       p \in Int /\ levels[s][p] \in [queue : Seq(OrderId), total : Quantity]

CallTyped ==
  /\ stp_policy \in StpPolicy
  /\ taker \in OrderRequest \cup {NoTaker}
  /\ remaining \in Quantity

Book == BookTyped /\ IndexConsistent

IInv == Book /\ CallTyped /\ MirrorExact

(* A level total computed in Quantity's width is a Quantity.                 *)
LEMMA WrapType == \A n \in Int : Wrap(n) \in Quantity
BY BookAssumption DEF Wrap, Quantity

(* Where an order stands in its level.                                     *)
LEMMA PositionFacts ==
  ASSUME Book, NEW id \in DOMAIN orders
  PROVE  LET o == orders[id]
             q == levels[o.side][o.price].queue
         IN /\ o \in RestingOrder
            /\ o.price \in DOMAIN levels[o.side]
            /\ q \in Seq(OrderId)
            /\ PositionOf(id, q) \in DOMAIN q
            /\ q[PositionOf(id, q)] = id
            /\ \A j \in DOMAIN q : q[j] = id => j = PositionOf(id, q)
<1> DEFINE o == orders[id]
           q == levels[o.side][o.price].queue
<1>1. o \in RestingOrder /\ o.side \in Side
  BY DEF Book, BookTyped, RestingOrder
<1>2. o.price \in DOMAIN levels[o.side]
  BY DEF Book, IndexConsistent
<1>3. q \in Seq(OrderId)
  BY <1>1, <1>2 DEF Book, BookTyped
<1>4. \E i \in DOMAIN q : q[i] = id
  BY DEF Book, IndexConsistent
<1>5. PositionOf(id, q) \in DOMAIN q /\ q[PositionOf(id, q)] = id
  BY <1>4 DEF PositionOf
<1>6. \A i, j \in DOMAIN q : q[i] = q[j] => i = j
  BY <1>1, <1>2 DEF Book, IndexConsistent
<1>7. \A j \in DOMAIN q : q[j] = id => j = PositionOf(id, q)
  BY <1>5, <1>6
<1> QED  BY <1>1, <1>2, <1>3, <1>5, <1>7

(* The levels after unlink: only the order's own level changes, and it is  *)
(* erased when nothing is left of it.                                      *)
LEMMA UnlinkFacts ==
  ASSUME Book, NEW id \in DOMAIN orders
  PROVE  LET o == orders[id]
             level == levels[o.side][o.price]
             rest == RemoveAt(level.queue, PositionOf(id, level.queue))
             L == Unlink(id)
         IN /\ DOMAIN L = Side
            /\ \A s \in Side : s # o.side => L[s] = levels[s]
            /\ DOMAIN L[o.side] = IF rest = <<>> THEN DOMAIN levels[o.side] \ {o.price}
                                  ELSE DOMAIN levels[o.side]
            /\ \A p \in DOMAIN L[o.side] : p # o.price => L[o.side][p] = levels[o.side][p]
            /\ rest # <<>> => L[o.side][o.price]
                 = [queue |-> rest, total |-> Wrap(level.total - o.remaining)]
<1> DEFINE o == orders[id]
           level == levels[o.side][o.price]
           rest == RemoveAt(level.queue, PositionOf(id, level.queue))
           L == Unlink(id)
<1>1. o.side \in Side /\ DOMAIN levels = Side /\ o.price \in DOMAIN levels[o.side]
  BY PositionFacts DEF RestingOrder, Book, BookTyped
<1>2. L = [levels EXCEPT ![o.side] =
             IF rest = <<>>
             THEN [p \in DOMAIN levels[o.side] \ {o.price} |-> levels[o.side][p]]
             ELSE [levels[o.side] EXCEPT ![o.price] =
                     [queue |-> rest, total |-> Wrap(level.total - o.remaining)]]]
  BY DEF Unlink
<1> HIDE DEF L, rest
<1>3. DOMAIN L = Side /\ \A s \in Side : s # o.side => L[s] = levels[s]
  BY <1>1, <1>2
<1>4. L[o.side] = IF rest = <<>>
                  THEN [p \in DOMAIN levels[o.side] \ {o.price} |-> levels[o.side][p]]
                  ELSE [levels[o.side] EXCEPT ![o.price] =
                          [queue |-> rest, total |-> Wrap(level.total - o.remaining)]]
  BY <1>1, <1>2
<1>5. CASE rest = <<>>
  BY <1>1, <1>3, <1>4, <1>5 DEF rest, L
<1>6. CASE rest # <<>>
  BY <1>1, <1>3, <1>4, <1>6 DEF rest, L
<1> QED  BY <1>5, <1>6

(* Taking an order out (cancel, replace, a fill, a self-trade cancellation)  *)
(* keeps the book's type and the agreement of its indexes.                   *)
LEMMA RemoveKeepsBook ==
  ASSUME Book, NEW id \in DOMAIN orders, RemoveWithoutReport(id)
  PROVE  /\ Book'
         /\ DOMAIN orders' = DOMAIN orders \ {id}
         /\ \A x \in DOMAIN orders' : orders'[x] = orders[x]
<1> DEFINE o == orders[id]
           level == levels[o.side][o.price]
           q == level.queue
           i == PositionOf(id, q)
           rest == RemoveAt(q, i)
<1>1. /\ o \in RestingOrder /\ o.side \in Side /\ o.price \in Int
      /\ o.remaining \in Int
      /\ o.price \in DOMAIN levels[o.side]
      /\ q \in Seq(OrderId) /\ level.total \in Int
      /\ i \in DOMAIN q /\ q[i] = id
      /\ \A j \in DOMAIN q : q[j] = id => j = i
  <2>1. o.side \in Side /\ o.price \in Int /\ o.remaining \in Int
    BY PositionFacts, BookAssumption DEF RestingOrder, Quantity
  <2>2. level.total \in Int
    BY <2>1, PositionFacts, BookAssumption DEF Book, BookTyped, Quantity
  <2> QED  BY <2>1, <2>2, PositionFacts
<1>2. /\ DOMAIN orders' = DOMAIN orders \ {id}
      /\ \A x \in DOMAIN orders' : orders'[x] = orders[x]
  BY DEF RemoveWithoutReport, Without
<1>3. /\ DOMAIN levels' = Side
      /\ \A s \in Side : s # o.side => levels'[s] = levels[s]
      /\ DOMAIN levels'[o.side] = IF rest = <<>> THEN DOMAIN levels[o.side] \ {o.price}
                                  ELSE DOMAIN levels[o.side]
      /\ \A p \in DOMAIN levels'[o.side] :
           p # o.price => levels'[o.side][p] = levels[o.side][p]
      /\ rest # <<>> => levels'[o.side][o.price]
           = [queue |-> rest, total |-> Wrap(level.total - o.remaining)]
  BY UnlinkFacts DEF RemoveWithoutReport
<1>4. /\ rest \in Seq(OrderId) /\ Len(rest) = Len(q) - 1
      /\ \A j \in 1 .. (Len(q) - 1) : rest[j] = IF j < i THEN q[j] ELSE q[j + 1]
  BY <1>1, RemoveAtFacts
<1>5. Len(q) \in Nat /\ DOMAIN q = 1 .. Len(q) /\ DOMAIN rest = 1 .. (Len(q) - 1)
  BY <1>1, <1>4
<1>6. Wrap(level.total - o.remaining) \in Quantity
  BY <1>1, WrapType
<1> HIDE DEF i, rest
<1>7. /\ \A j \in DOMAIN rest : \E k \in DOMAIN q : k # i /\ rest[j] = q[k]
      /\ \A k \in DOMAIN q : k # i => \E j \in DOMAIN rest : rest[j] = q[k]
  <2>1. q \in Seq(OrderId) /\ i \in DOMAIN q
    BY <1>1
  <2>2. \A j \in DOMAIN rest : \E k \in DOMAIN q : k # i /\ rest[j] = q[k]
    BY <2>1, RemoveAtElements DEF rest
  <2>3. \A k \in DOMAIN q : k # i => \E j \in DOMAIN rest : rest[j] = q[k]
    BY <2>1, RemoveAtElements, Zenon DEF rest
  <2> QED  BY <2>2, <2>3
<1>8. \A j, k \in DOMAIN rest : rest[j] = rest[k] => j = k
  <2>1. \A j, k \in DOMAIN q : q[j] = q[k] => j = k
    BY <1>1 DEF Book, IndexConsistent
  <2> QED  BY <2>1, <1>1, RemoveAtElements DEF rest
<1>9. BookTyped'
  <2>1. DOMAIN orders' \subseteq OrderId /\ \A x \in DOMAIN orders' : orders'[x] \in RestingOrder
    BY <1>2 DEF Book, BookTyped
  <2>2. ASSUME NEW s \in Side, NEW p \in DOMAIN levels'[s]
        PROVE  p \in Int /\ levels'[s][p] \in [queue : Seq(OrderId), total : Quantity]
    <3>1. CASE s # o.side
      BY <1>3, <2>2, <3>1 DEF Book, BookTyped
    <3>2. CASE s = o.side /\ p # o.price
      BY <1>1, <1>3, <2>2, <3>2 DEF Book, BookTyped
    <3>3. CASE s = o.side /\ p = o.price
      BY <1>1, <1>3, <1>4, <1>6, <2>2, <3>3
    <3> QED  BY <3>1, <3>2, <3>3
  <2> QED  BY <2>1, <2>2, <1>3 DEF BookTyped
<1>10. IndexConsistent'
  <2>1. ASSUME NEW s \in Side, NEW p \in DOMAIN levels'[s]
        PROVE  LET n == levels'[s][p].queue IN
               /\ n # <<>>
               /\ \A j \in DOMAIN n :
                    n[j] \in DOMAIN orders' /\ orders'[n[j]].side = s /\ orders'[n[j]].price = p
               /\ \A j, k \in DOMAIN n : n[j] = n[k] => j = k
    <3>1. CASE s # o.side \/ p # o.price
      <4>1. p \in DOMAIN levels[s] /\ levels'[s][p] = levels[s][p]
        BY <1>1, <1>3, <2>1, <3>1
      <4>2. \A j \in DOMAIN levels[s][p].queue : levels[s][p].queue[j] # id
        BY <4>1, <3>1 DEF Book, IndexConsistent
      <4> QED  BY <4>1, <4>2, <1>2 DEF Book, IndexConsistent
    <3>2. CASE s = o.side /\ p = o.price
      <4>1. rest # <<>> /\ levels'[s][p].queue = rest
        BY <1>3, <2>1, <3>2
      <4>2. \A k \in DOMAIN q : /\ q[k] \in DOMAIN orders
                                /\ orders[q[k]].side = s /\ orders[q[k]].price = p
        BY <1>1, <3>2 DEF Book, IndexConsistent
      <4>3. \A k \in DOMAIN q : k # i => q[k] # id
        BY <1>1
      <4>4. \A j \in DOMAIN rest : /\ rest[j] \in DOMAIN orders'
                                   /\ orders'[rest[j]].side = s
                                   /\ orders'[rest[j]].price = p
        BY <4>2, <4>3, <1>2, <1>7
      <4> QED  BY <4>1, <4>4, <1>8
    <3> QED  BY <3>1, <3>2
  <2>2. ASSUME NEW x \in DOMAIN orders'
        PROVE  LET r == orders'[x] IN
               /\ r.price \in DOMAIN levels'[r.side]
               /\ \E j \in DOMAIN levels'[r.side][r.price].queue :
                    levels'[r.side][r.price].queue[j] = x
    <3> DEFINE r == orders[x]
    <3>1. x \in DOMAIN orders /\ x # id /\ orders'[x] = r /\ r.side \in Side
      BY <1>2 DEF Book, BookTyped, RestingOrder
    <3>2. /\ r.price \in DOMAIN levels[r.side]
          /\ \E j \in DOMAIN levels[r.side][r.price].queue :
               levels[r.side][r.price].queue[j] = x
      BY <3>1 DEF Book, IndexConsistent
    <3>3. CASE r.side # o.side \/ r.price # o.price
      <4>1. r.price \in DOMAIN levels'[r.side]
            /\ levels'[r.side][r.price] = levels[r.side][r.price]
        BY <1>3, <3>1, <3>2, <3>3
      <4> QED  BY <3>1, <3>2, <4>1
    <3>4. CASE r.side = o.side /\ r.price = o.price
      <4>1. PICK k \in DOMAIN q : q[k] = x
        BY <3>2, <3>4
      <4>2. k # i
        BY <4>1, <3>1, <1>1
      <4>3. PICK j \in DOMAIN rest : rest[j] = x
        BY <4>1, <4>2, <1>7
      <4>4. rest # <<>>
        BY <4>3
      <4>5. o.price \in DOMAIN levels'[o.side] /\ levels'[o.side][o.price].queue = rest
        BY <4>4, <1>1, <1>3
      <4> QED  BY <4>3, <4>5, <3>1, <3>4
    <3> QED  BY <3>3, <3>4
  <2> QED  BY <2>1, <2>2 DEF IndexConsistent
<1> QED  BY <1>2, <1>9, <1>10 DEF Book


(* Resting an order whose id is not in the book keeps both.                  *)
LEMMA RestKeepsBook ==
  ASSUME Book, NEW t \in OrderRequest, t.order_id \notin DOMAIN orders,
         NEW left \in Quantity \ {0}, Rest(t, left)
  PROVE  /\ Book'
         /\ DOMAIN orders' = DOMAIN orders \cup {t.order_id}
         /\ orders'[t.order_id] = [client_id |-> t.client_id, side |-> t.side,
                                   price |-> t.price, remaining |-> left]
         /\ \A x \in DOMAIN orders : orders'[x] = orders[x]
<1> DEFINE id == t.order_id
           side == levels[t.side]
           level == IF t.price \in DOMAIN side THEN side[t.price]
                    ELSE [queue |-> <<>>, total |-> 0]
           q == level.queue
           n == LinkAtTail(level, id, left)
<1>1. id \in OrderId /\ t.side \in Side /\ t.price \in Int /\ t.client_id \in ClientId
  BY DEF OrderRequest
<1>2. /\ DOMAIN orders' = DOMAIN orders \cup {id}
      /\ orders'[id] = [client_id |-> t.client_id, side |-> t.side,
                        price |-> t.price, remaining |-> left]
      /\ \A x \in DOMAIN orders : orders'[x] = orders[x]
  BY DEF Rest
<1>3. levels' = [levels EXCEPT ![t.side] =
                   [p \in DOMAIN side \cup {t.price} |-> IF p = t.price THEN n ELSE side[p]]]
  BY DEF Rest
<1>4. q \in Seq(OrderId) /\ level.total \in Int
  <2>1. CASE t.price \in DOMAIN side
    BY <1>1, <2>1, BookAssumption DEF Book, BookTyped, Quantity
  <2>2. CASE t.price \notin DOMAIN side
    BY <2>2
  <2> QED  BY <2>1, <2>2
<1>5. /\ \A j \in DOMAIN q : /\ q[j] \in DOMAIN orders
                             /\ orders[q[j]].side = t.side /\ orders[q[j]].price = t.price
      /\ \A j, k \in DOMAIN q : q[j] = q[k] => j = k
  <2>1. CASE t.price \in DOMAIN side
    BY <1>1, <2>1 DEF Book, IndexConsistent
  <2>2. CASE t.price \notin DOMAIN side
    BY <2>2
  <2> QED  BY <2>1, <2>2
<1>6. n \in [queue : Seq(OrderId), total : Quantity] /\ n.queue = Append(q, id)
  <2>1. Wrap(level.total + left) \in Quantity
    <3>1. left \in Int
      BY BookAssumption DEF Quantity
    <3>2. level.total + left \in Int
      BY <1>4, <3>1
    <3> QED  BY <3>2, WrapType
  <2>2. Append(q, id) \in Seq(OrderId)
    BY <1>1, <1>4
  <2> QED  BY <2>1, <2>2 DEF LinkAtTail
<1> HIDE DEF n, level
<1>7. /\ DOMAIN levels' = Side
      /\ \A s \in Side : s # t.side => levels'[s] = levels[s]
      /\ DOMAIN levels'[t.side] = DOMAIN side \cup {t.price}
      /\ levels'[t.side][t.price] = n
      /\ \A p \in DOMAIN side : p # t.price => levels'[t.side][p] = side[p]
  BY <1>1, <1>3 DEF Book, BookTyped
<1>8. /\ Append(q, id) # <<>>
      /\ DOMAIN Append(q, id) = 1 .. (Len(q) + 1) /\ DOMAIN q = 1 .. Len(q) /\ Len(q) \in Nat
      /\ Append(q, id)[Len(q) + 1] = id
      /\ \A j \in 1 .. Len(q) : Append(q, id)[j] = q[j]
  BY <1>1, <1>4
<1>9. BookTyped'
  <2>1. DOMAIN orders' \subseteq OrderId /\ \A x \in DOMAIN orders' : orders'[x] \in RestingOrder
    BY <1>1, <1>2 DEF Book, BookTyped, RestingOrder
  <2>2. ASSUME NEW s \in Side, NEW p \in DOMAIN levels'[s]
        PROVE  p \in Int /\ levels'[s][p] \in [queue : Seq(OrderId), total : Quantity]
    <3>1. CASE s = t.side /\ p = t.price
      BY <1>1, <1>6, <1>7, <3>1
    <3>2. CASE s # t.side \/ p # t.price
      BY <1>7, <2>2, <3>2 DEF Book, BookTyped
    <3> QED  BY <3>1, <3>2
  <2> QED  BY <2>1, <2>2, <1>7 DEF BookTyped
<1>10. IndexConsistent'
  <2>1. ASSUME NEW s \in Side, NEW p \in DOMAIN levels'[s]
        PROVE  LET m == levels'[s][p].queue IN
               /\ m # <<>>
               /\ \A j \in DOMAIN m :
                    m[j] \in DOMAIN orders' /\ orders'[m[j]].side = s /\ orders'[m[j]].price = p
               /\ \A j, k \in DOMAIN m : m[j] = m[k] => j = k
    <3>1. CASE s = t.side /\ p = t.price
      <4>1. levels'[s][p].queue = Append(q, id)
        BY <1>6, <1>7, <3>1
      <4>2. \A j \in 1 .. (Len(q) + 1) :
              /\ Append(q, id)[j] \in DOMAIN orders'
              /\ orders'[Append(q, id)[j]].side = s /\ orders'[Append(q, id)[j]].price = p
        BY <1>2, <1>5, <1>8, <3>1
      <4>3. \A j, k \in 1 .. (Len(q) + 1) : Append(q, id)[j] = Append(q, id)[k] => j = k
        <5>1. \A j \in 1 .. Len(q) : Append(q, id)[j] # id
          BY <1>5, <1>8
        <5> QED  BY <5>1, <1>5, <1>8
      <4> QED  BY <4>1, <4>2, <4>3, <1>8
    <3>2. CASE s # t.side \/ p # t.price
      <4>1. p \in DOMAIN levels[s] /\ levels'[s][p] = levels[s][p]
        BY <1>7, <2>1, <3>2
      <4> QED  BY <4>1, <1>2 DEF Book, IndexConsistent
    <3> QED  BY <3>1, <3>2
  <2>2. ASSUME NEW x \in DOMAIN orders'
        PROVE  LET r == orders'[x] IN
               /\ r.price \in DOMAIN levels'[r.side]
               /\ \E j \in DOMAIN levels'[r.side][r.price].queue :
                    levels'[r.side][r.price].queue[j] = x
    <3>1. CASE x = id
      <4>1. orders'[x].side = t.side /\ orders'[x].price = t.price
        BY <1>2, <3>1
      <4>2. t.price \in DOMAIN levels'[t.side]
            /\ levels'[t.side][t.price].queue = Append(q, id)
        BY <1>6, <1>7
      <4> QED  BY <4>1, <4>2, <1>8, <3>1
    <3>2. CASE x # id
      <4> DEFINE r == orders[x]
      <4>1. x \in DOMAIN orders /\ orders'[x] = r /\ r.side \in Side
        BY <1>2, <3>2, <2>2 DEF Book, BookTyped, RestingOrder
      <4>2. /\ r.price \in DOMAIN levels[r.side]
            /\ \E j \in DOMAIN levels[r.side][r.price].queue :
                 levels[r.side][r.price].queue[j] = x
        BY <4>1 DEF Book, IndexConsistent
      <4>3. CASE r.side = t.side /\ r.price = t.price
        <5>1. q = levels[r.side][r.price].queue
          BY <4>2, <4>3 DEF level
        <5>2. PICK j \in DOMAIN q : q[j] = x
          BY <4>2, <5>1
        <5>3. j \in DOMAIN Append(q, id) /\ Append(q, id)[j] = x
          BY <5>2, <1>8
        <5>4. t.price \in DOMAIN levels'[t.side]
              /\ levels'[t.side][t.price].queue = Append(q, id)
          BY <1>6, <1>7
        <5> QED  BY <4>1, <4>3, <5>3, <5>4
      <4>4. CASE r.side # t.side \/ r.price # t.price
        <5>1. r.price \in DOMAIN levels'[r.side]
              /\ levels'[r.side][r.price] = levels[r.side][r.price]
          BY <1>7, <4>1, <4>2, <4>4
        <5> QED  BY <4>1, <4>2, <5>1
      <4> QED  BY <4>3, <4>4
    <3> QED  BY <3>1, <3>2
  <2> QED  BY <2>1, <2>2 DEF IndexConsistent
<1> QED  BY <1>2, <1>9, <1>10 DEF Book

(* Lowering the quantity of an order where it stands (a partial fill, an     *)
(* in-place replace) keeps both.                                             *)
LEMMA ReduceKeepsBook ==
  ASSUME Book, NEW id \in DOMAIN orders, NEW left \in Quantity \ {0}, NEW delta \in Int,
         orders' = [orders EXCEPT ![id].remaining = left],
         levels' = Shrink(id, delta)
  PROVE  /\ Book'
         /\ DOMAIN orders' = DOMAIN orders
         /\ orders'[id].remaining = left
         /\ \A x \in DOMAIN orders :
              /\ orders'[x].side = orders[x].side /\ orders'[x].price = orders[x].price
              /\ orders'[x].client_id = orders[x].client_id
              /\ x # id => orders'[x] = orders[x]
<1> DEFINE o == orders[id]
<1>1. /\ o.side \in Side /\ o.price \in DOMAIN levels[o.side]
      /\ levels[o.side][o.price] \in [queue : Seq(OrderId), total : Quantity]
      /\ levels[o.side][o.price].total \in Int
  <2>1. o.side \in Side /\ o.price \in DOMAIN levels[o.side]
    BY PositionFacts DEF RestingOrder
  <2> QED  BY <2>1, BookAssumption DEF Book, BookTyped, Quantity
<1>2. levels' = [levels EXCEPT ![o.side][o.price].total =
                   Wrap(levels[o.side][o.price].total - delta)]
  BY DEF Shrink
<1>3. Wrap(levels[o.side][o.price].total - delta) \in Quantity
  BY <1>1, WrapType
<1>4. /\ DOMAIN levels' = Side
      /\ \A s \in Side : DOMAIN levels'[s] = DOMAIN levels[s]
      /\ \A s \in Side : \A p \in DOMAIN levels[s] :
           /\ levels'[s][p].queue = levels[s][p].queue
           /\ levels'[s][p] \in [queue : Seq(OrderId), total : Quantity]
  <2> DEFINE total == Wrap(levels[o.side][o.price].total - delta)
             n == [levels[o.side][o.price] EXCEPT !.total = total]
  <2>1. DOMAIN levels = Side
    BY DEF Book, BookTyped
  <2>2. levels' = [levels EXCEPT ![o.side] = [levels[o.side] EXCEPT ![o.price] = n]]
    BY <1>2
  <2>3. n \in [queue : Seq(OrderId), total : Quantity]
        /\ n.queue = levels[o.side][o.price].queue
    BY <1>1, <1>3
  <2> HIDE DEF n
  <2>4. /\ DOMAIN levels' = Side
        /\ \A s \in Side : s # o.side => levels'[s] = levels[s]
        /\ levels'[o.side] = [levels[o.side] EXCEPT ![o.price] = n]
    BY <1>1, <2>1, <2>2
  <2>5. \A p \in DOMAIN levels[o.side] :
          levels'[o.side][p] = IF p = o.price THEN n ELSE levels[o.side][p]
    BY <2>4
  <2>6. ASSUME NEW s \in Side
        PROVE  /\ DOMAIN levels'[s] = DOMAIN levels[s]
               /\ \A p \in DOMAIN levels[s] :
                    /\ levels'[s][p].queue = levels[s][p].queue
                    /\ levels'[s][p] \in [queue : Seq(OrderId), total : Quantity]
    <3>1. CASE s # o.side
      BY <2>4, <3>1 DEF Book, BookTyped
    <3>2. CASE s = o.side
      BY <2>3, <2>4, <2>5, <3>2 DEF Book, BookTyped
    <3> QED  BY <3>1, <3>2
  <2> QED  BY <2>4, <2>6
<1>5. /\ DOMAIN orders' = DOMAIN orders
      /\ \A x \in DOMAIN orders : orders[x] \in RestingOrder
      /\ \A x \in DOMAIN orders : x # id => orders'[x] = orders[x]
      /\ orders'[id] = [orders[id] EXCEPT !.remaining = left]
  BY DEF Book, BookTyped
<1>6. /\ orders'[id].remaining = left
      /\ \A x \in DOMAIN orders :
           /\ orders'[x] \in RestingOrder
           /\ orders'[x].side = orders[x].side /\ orders'[x].price = orders[x].price
           /\ orders'[x].client_id = orders[x].client_id
  BY <1>5 DEF RestingOrder
<1>7. BookTyped'
  BY <1>4, <1>5, <1>6 DEF Book, BookTyped
<1>8. IndexConsistent'
  <2>1. \A x \in DOMAIN orders : orders[x].side \in Side
    BY <1>5 DEF RestingOrder
  <2>2. ASSUME NEW s \in Side, NEW p \in DOMAIN levels'[s]
        PROVE  LET q == levels'[s][p].queue IN
               /\ q # <<>>
               /\ \A j \in DOMAIN q :
                    q[j] \in DOMAIN orders' /\ orders'[q[j]].side = s /\ orders'[q[j]].price = p
               /\ \A j, k \in DOMAIN q : q[j] = q[k] => j = k
    <3>1. p \in DOMAIN levels[s] /\ levels'[s][p].queue = levels[s][p].queue
      BY <1>4, <2>2
    <3> QED  BY <3>1, <1>5, <1>6 DEF Book, IndexConsistent
  <2>3. ASSUME NEW x \in DOMAIN orders'
        PROVE  LET r == orders'[x] IN
               /\ r.price \in DOMAIN levels'[r.side]
               /\ \E j \in DOMAIN levels'[r.side][r.price].queue :
                    levels'[r.side][r.price].queue[j] = x
    <3> DEFINE r == orders[x]
    <3>1. /\ x \in DOMAIN orders /\ r.side \in Side
          /\ orders'[x].side = r.side /\ orders'[x].price = r.price
      BY <1>5, <1>6, <2>1
    <3>2. /\ r.price \in DOMAIN levels[r.side]
          /\ \E j \in DOMAIN levels[r.side][r.price].queue :
               levels[r.side][r.price].queue[j] = x
      BY <3>1 DEF Book, IndexConsistent
    <3>3. /\ r.price \in DOMAIN levels'[r.side]
          /\ levels'[r.side][r.price].queue = levels[r.side][r.price].queue
      BY <1>4, <3>1, <3>2
    <3> QED  BY <3>1, <3>2, <3>3
  <2> QED  BY <2>2, <2>3 DEF IndexConsistent
<1> QED  BY <1>5, <1>6, <1>7, <1>8 DEF Book


-----------------------------------------------------------------------------
(* The steps.                                                                *)

(* The orders that are in the book after a step were there before it, with   *)
(* the same owner, side and price.                                           *)
OnlyOldOrders ==
  \A x \in DOMAIN orders' :
    /\ x \in DOMAIN orders
    /\ orders'[x].client_id = orders[x].client_id
    /\ orders'[x].side = orders[x].side
    /\ orders'[x].price = orders[x].price

(* A step that leaves both indexes alone leaves the book sound.              *)
LEMMA SameBook ==
  ASSUME Book, UNCHANGED <<orders, levels>>
  PROVE  Book' /\ OnlyOldOrders
BY DEF Book, BookTyped, IndexConsistent, OnlyOldOrders

(* remove_without_report adds no order and moves none.                       *)
LEMMA RemoveIsOld ==
  ASSUME Book, NEW id \in DOMAIN orders, RemoveWithoutReport(id)
  PROVE  Book' /\ OnlyOldOrders
BY RemoveKeepsBook DEF OnlyOldOrders

(* A partial fill or an in-place replace changes a quantity only.            *)
LEMMA ReduceIsOld ==
  ASSUME Book, NEW id \in DOMAIN orders, NEW left \in Quantity \ {0}, NEW delta \in Int,
         orders' = [orders EXCEPT ![id].remaining = left],
         levels' = Shrink(id, delta)
  PROVE  Book' /\ OnlyOldOrders
BY ReduceKeepsBook DEF OnlyOldOrders

(* reset leaves an empty book.                                               *)
LEMMA ResetIsOld ==
  ASSUME Reset
  PROVE  Book' /\ OnlyOldOrders
<1>1. /\ orders' = <<>> /\ DOMAIN orders' = {}
      /\ levels' = [s \in Side |-> <<>>]
      /\ \A s \in Side : DOMAIN levels'[s] = {}
  BY DEF Reset
<1> QED  BY <1>1 DEF Book, BookTyped, IndexConsistent, OnlyOldOrders

(* What SubmitRejection lets through.                                        *)
LEMMA AcceptedRequest ==
  ASSUME NEW r, SubmitRejection(r) = "None"
  PROVE  /\ r.order_id \notin DOMAIN orders /\ ~Full
         /\ r.symbol = Symbol /\ r.quantity # 0
         /\ r.type = "PostOnly" => CrossingLevels(r) = {}
BY DEF SubmitRejection

(* Every step keeps the book sound, and only FinishRest adds an order.       *)
LEMMA BookSteps ==
  ASSUME IInv, Next
  PROVE  Book' /\ (OnlyOldOrders \/ FinishRest)
<1> USE DEF IInv
<1>1. ASSUME NEW r \in Requests, RejectSubmit(r) \/ AcceptSubmit(r)
      PROVE  Book' /\ OnlyOldOrders
  BY <1>1, SameBook DEF RejectSubmit, Reject, AcceptSubmit
<1>2. ASSUME NEW r \in Cancels, Cancel(r)
      PROVE  Book' /\ OnlyOldOrders
  <2>1. CASE RejectUnknown(r) \/ RejectForeign(r)
    BY <2>1, SameBook DEF RejectUnknown, RejectForeign, Reject
  <2>2. CASE Owns(r) /\ RemoveWithoutReport(r.order_id)
    BY <2>2, RemoveIsOld DEF Owns
  <2> QED  BY <1>2, <2>1, <2>2 DEF Cancel
<1>3. ASSUME NEW r \in Replaces, Replace(r)
      PROVE  Book' /\ OnlyOldOrders
  <2>1. CASE RejectUnknown(r) \/ RejectForeign(r)
    BY <2>1, SameBook DEF RejectUnknown, RejectForeign, Reject
  <2>2. CASE Reject(r.order_id, orders[r.order_id].remaining, "InvalidReplacement")
    BY <2>2, SameBook DEF Reject
  <2>3. CASE Owns(r) /\ r.new_quantity # 0 /\ ReduceInPlace(r)
    <3>1. r.new_quantity \in Quantity \ {0}
      BY <2>3, BookAssumption DEF ReplaceRequest
    <3>2. orders[r.order_id].remaining - r.new_quantity \in Int
      BY <2>3, <3>1, BookAssumption DEF Book, BookTyped, RestingOrder, Owns, Quantity
    <3> QED  BY <2>3, <3>1, <3>2, ReduceIsOld DEF ReduceInPlace, Owns
  <2>4. CASE Owns(r) /\ Resubmit(r)
    BY <2>4, RemoveIsOld DEF Resubmit, Owns
  <2> QED  BY <1>3, <2>1, <2>2, <2>3, <2>4 DEF Replace
<1>4. ASSUME NEW p \in Policies, SetStpPolicy(p)
      PROVE  Book' /\ OnlyOldOrders
  BY <1>4, SameBook DEF SetStpPolicy
<1>5. CASE Reset
  BY <1>5, ResetIsOld
<1>6. ASSUME NEW id \in DOMAIN orders, PreventNewest(id)
      PROVE  Book' /\ OnlyOldOrders
  BY <1>6, SameBook DEF PreventNewest
<1>7. ASSUME NEW id \in DOMAIN orders, PreventOldest(id) \/ PreventBoth(id) \/ FillMaker(id)
      PROVE  Book' /\ OnlyOldOrders
  BY <1>7, RemoveIsOld DEF PreventOldest, PreventBoth, FillMaker
<1>8. ASSUME NEW id \in DOMAIN orders, ReduceMaker(id)
      PROVE  Book' /\ OnlyOldOrders
  <2> DEFINE left == orders[id].remaining - remaining
  <2>1. left > 0 /\ orders[id].remaining \in Quantity /\ remaining \in Quantity
    BY <1>8 DEF ReduceMaker, Book, BookTyped, RestingOrder, CallTyped
  <2>2. left \in Quantity \ {0} /\ remaining \in Int
    BY <2>1, BookAssumption DEF Quantity
  <2> QED  BY <1>8, <2>2, ReduceIsOld DEF ReduceMaker
<1>9. CASE FinishFilled \/ FinishExpire
  BY <1>9, SameBook DEF FinishFilled, FinishExpire
<1>10. CASE FinishRest
  <2>1. taker \in OrderRequest /\ taker.order_id \notin DOMAIN orders
    BY <1>10 DEF FinishRest, LoopEnds, CallTyped, MirrorExact, Idle
  <2>2. remaining \in Quantity \ {0}
    BY <1>10, BookAssumption DEF FinishRest, CallTyped, Quantity
  <2> QED  BY <1>10, <2>1, <2>2, RestKeepsBook DEF FinishRest
<1> QED  BY <1>1, <1>2, <1>3, <1>4, <1>5, <1>6, <1>7, <1>8, <1>9, <1>10
         DEF Next, Call, MatchStep


(* The order being matched is a well-typed request.                          *)
LEMMA TakerTyped ==
  ASSUME CallTyped, ~Idle
  PROVE  taker \in OrderRequest
BY DEF CallTyped, Idle

(* The record that replace submits again is a request like any other.        *)
Resubmitted(r) ==
  [order_id |-> r.order_id, client_id |-> r.client_id,
   side |-> orders[r.order_id].side, type |-> "Limit", price |-> r.new_price,
   quantity |-> r.new_quantity, symbol |-> Symbol]

(* The limit order that replace submits is a well-formed request.            *)
LEMMA ResubmittedTyped ==
  ASSUME Book, NEW r \in Replaces, Owns(r)
  PROVE  Resubmitted(r) \in OrderRequest
<1>1. r \in ReplaceRequest /\ Symbol \in SymbolId
  BY BookAssumption
<1>2. orders[r.order_id].side \in Side
  BY DEF Book, BookTyped, RestingOrder, Owns
<1> QED  BY <1>1, <1>2 DEF Resubmitted, ReplaceRequest, OrderRequest, OrderType

(* The call in progress keeps its type: a fill is never larger than what     *)
(* is left of the taker.                                                     *)
LEMMA CallSteps ==
  ASSUME IInv, Next
  PROVE  CallTyped'
<1> USE DEF IInv
<1>1. ASSUME taker' = taker, remaining' = remaining, stp_policy' = stp_policy
      PROVE  CallTyped'
  BY <1>1 DEF CallTyped
<1>2. ASSUME EndCall, stp_policy' = stp_policy
      PROVE  CallTyped'
  BY <1>2, BookAssumption DEF EndCall, CallTyped, Quantity
<1>3. ASSUME NEW t \in OrderRequest, StartMatch(t), stp_policy' = stp_policy
      PROVE  CallTyped'
  BY <1>3 DEF StartMatch, CallTyped, OrderRequest
<1>4. ASSUME NEW r \in Requests, RejectSubmit(r) \/ AcceptSubmit(r)
      PROVE  CallTyped'
  BY <1>1, <1>3, <1>4, BookAssumption DEF RejectSubmit, Reject, AcceptSubmit
<1>5. ASSUME NEW r \in Cancels, Cancel(r)
      PROVE  CallTyped'
  BY <1>1, <1>5 DEF Cancel, RejectUnknown, RejectForeign, Reject
<1>6. ASSUME NEW r \in Replaces, Replace(r)
      PROVE  CallTyped'
  <2>1. CASE Owns(r) /\ Resubmit(r)
    <3>1. StartMatch(Resubmitted(r)) /\ stp_policy' = stp_policy
      BY <2>1 DEF Resubmit, Resubmitted
    <3> QED  BY <2>1, <3>1, <1>3, ResubmittedTyped
  <2>2. CASE ~(Owns(r) /\ Resubmit(r))
    BY <1>1, <1>6, <2>2 DEF Replace, RejectUnknown, RejectForeign, Reject, ReduceInPlace
  <2> QED  BY <2>1, <2>2
<1>7. ASSUME NEW p \in Policies, SetStpPolicy(p)
      PROVE  CallTyped'
  BY <1>7, BookAssumption DEF SetStpPolicy, CallTyped
<1>8. CASE Reset
  BY <1>1, <1>8 DEF Reset
<1>9. ASSUME NEW id \in DOMAIN orders, PreventNewest(id) \/ PreventBoth(id)
      PROVE  CallTyped'
  BY <1>2, <1>9 DEF PreventNewest, PreventBoth
<1>10. ASSUME NEW id \in DOMAIN orders, PreventOldest(id)
      PROVE  CallTyped'
  BY <1>1, <1>10 DEF PreventOldest
<1>11. ASSUME NEW id \in DOMAIN orders, FillMaker(id)
       PROVE  CallTyped'
  <2>1. orders[id].remaining \in Quantity /\ orders[id].remaining <= remaining
        /\ remaining' = remaining - orders[id].remaining
    BY <1>11 DEF FillMaker, Book, BookTyped, RestingOrder
  <2>2. remaining' \in Quantity
    BY <2>1, BookAssumption DEF CallTyped, Quantity
  <2> QED  BY <1>11, <2>2 DEF FillMaker, CallTyped
<1>12. ASSUME NEW id \in DOMAIN orders, ReduceMaker(id)
       PROVE  CallTyped'
  BY <1>12, BookAssumption DEF ReduceMaker, CallTyped, Quantity
<1>13. CASE FinishFilled \/ FinishRest \/ FinishExpire
  BY <1>2, <1>13 DEF FinishFilled, FinishRest, FinishExpire
<1> QED  BY <1>4, <1>5, <1>6, <1>7, <1>8, <1>9, <1>10, <1>11, <1>12, <1>13
         DEF Next, Call, MatchStep

(* What a subscriber makes of each kind of event: n is m after it.           *)
Opened(m, n, id, left) ==
  /\ DOMAIN n = DOMAIN m \cup {id}
  /\ n[id] = left
  /\ \A x \in DOMAIN m : x # id => n[x] = m[x]

Closed(m, n, id) ==
  /\ DOMAIN n = DOMAIN m \ {id}
  /\ \A x \in DOMAIN n : n[x] = m[x]

Traded(m, n, maker, newcomer, quantity) ==
  /\ DOMAIN n = DOMAIN m
  /\ \A x \in DOMAIN m :
       n[x] = IF x \in {maker, newcomer} THEN m[x] - quantity ELSE m[x]

(* What one report or trade does to the subscriber's view: Accepted and      *)
(* Replaced open the order at the reported quantity;                         *)
LEMMA ObserveOpening ==
  ASSUME NEW m, NEW id, NEW status \in {"Accepted", "Replaced"}, NEW left, NEW reason
  PROVE  Opened(m, Observe(m, Report(id, status, left, reason)), id, left)
BY DEF Observe, Report, Opened

(* Filled, Cancelled and Expired close it;                                   *)
LEMMA ObserveFinal ==
  ASSUME NEW m, NEW id, NEW status \in {"Filled", "Cancelled", "Expired"},
         NEW left, NEW reason
  PROVE  Closed(m, Observe(m, Report(id, status, left, reason)), id)
BY DEF Observe, Report, Closed

(* PartiallyFilled and Rejected change nothing;                              *)
LEMMA ObserveOther ==
  ASSUME NEW m, NEW id, NEW status \in {"PartiallyFilled", "Rejected"}, NEW left, NEW reason
  PROVE  Observe(m, Report(id, status, left, reason)) = m
BY DEF Observe, Report

(* a trade comes off both of its orders.                                     *)
LEMMA ObserveTrade ==
  ASSUME NEW m, NEW maker, NEW price, NEW quantity
  PROVE  Traded(m, Observe(m, Trade(maker, price, quantity)), maker, taker.order_id,
                quantity)
BY DEF Observe, Trade, Traded


(* The subscriber stays exact at every step.                                 *)
LEMMA MirrorSteps ==
  ASSUME IInv, Next
  PROVE  MirrorExact'
<1> USE DEF IInv
<1>typ. /\ \A x \in DOMAIN orders : orders[x].remaining \in Int
        /\ remaining \in Int
  BY BookAssumption DEF Book, BookTyped, RestingOrder, CallTyped, Quantity
<1>idle. Idle => DOMAIN mirror = DOMAIN orders
  BY DEF MirrorExact
<1>busy. ~Idle => /\ taker \in OrderRequest
                  /\ taker.order_id \notin DOMAIN orders
                  /\ DOMAIN mirror = DOMAIN orders \cup {taker.order_id}
                  /\ mirror[taker.order_id] = remaining
  BY TakerTyped DEF MirrorExact
<1>old. \A x \in DOMAIN orders : mirror[x] = orders[x].remaining
  BY DEF MirrorExact
<1>same. ASSUME UNCHANGED <<orders, taker, remaining, mirror>>
         PROVE  MirrorExact'
  BY <1>same DEF MirrorExact, Idle
<1>reject. ASSUME NEW id, NEW left, NEW reason, Reject(id, left, reason)
           PROVE  MirrorExact'
  BY <1>reject, <1>same, ObserveOther DEF Reject, Emit
<1>1. ASSUME NEW r \in Requests, RejectSubmit(r)
      PROVE  MirrorExact'
  BY <1>1, <1>reject DEF RejectSubmit
<1>2. ASSUME NEW r \in Requests, AcceptSubmit(r)
      PROVE  MirrorExact'
  <2>1. r \in OrderRequest /\ r # NoTaker
    BY BookAssumption
  <2>2. r.order_id \notin DOMAIN orders
    BY <1>2, AcceptedRequest DEF AcceptSubmit
  <2>3. Opened(mirror, mirror', r.order_id, r.quantity)
    BY <1>2, ObserveOpening DEF AcceptSubmit, Emit
  <2>4. /\ taker' = r /\ remaining' = r.quantity /\ orders' = orders
        /\ DOMAIN mirror = DOMAIN orders
    BY <1>2, <1>idle DEF AcceptSubmit, StartMatch
  <2> QED  BY <1>old, <2>1, <2>2, <2>3, <2>4 DEF MirrorExact, Idle, Opened
<1>3. ASSUME NEW r \in Cancels, Cancel(r)
      PROVE  MirrorExact'
  <2>1. CASE RejectUnknown(r) \/ RejectForeign(r)
    BY <2>1, <1>reject DEF RejectUnknown, RejectForeign
  <2>2. CASE ~(RejectUnknown(r) \/ RejectForeign(r))
    <3> DEFINE id == r.order_id
    <3>1. /\ Idle /\ taker' = taker /\ id \in DOMAIN orders
          /\ RemoveWithoutReport(id) /\ Emit(MakerCancelled(id))
      BY <1>3, <2>2 DEF Cancel, Owns
    <3>2. Closed(mirror, mirror', id)
      BY <3>1, ObserveFinal DEF Emit, MakerCancelled
    <3>3. /\ DOMAIN orders' = DOMAIN orders \ {id}
          /\ \A x \in DOMAIN orders' : orders'[x] = orders[x]
      BY <3>1, RemoveKeepsBook
    <3> QED  BY <1>idle, <1>old, <3>1, <3>2, <3>3 DEF MirrorExact, Idle, Closed
  <2> QED  BY <2>1, <2>2
<1>4. ASSUME NEW r \in Replaces, Replace(r)
      PROVE  MirrorExact'
  <2> DEFINE id == r.order_id
  <2>1. CASE RejectUnknown(r) \/ RejectForeign(r)
    BY <2>1, <1>reject DEF RejectUnknown, RejectForeign
  <2>2. CASE Reject(r.order_id, orders[r.order_id].remaining, "InvalidReplacement")
    BY <2>2, <1>reject
  <2>3. CASE Owns(r) /\ r.new_quantity # 0 /\ ReduceInPlace(r)
    <3>1. /\ Idle /\ taker' = taker /\ id \in DOMAIN orders
          /\ orders' = [orders EXCEPT ![id].remaining = r.new_quantity]
      BY <1>4, <2>3 DEF Replace, ReduceInPlace, Owns
    <3>2. Opened(mirror, mirror', id, r.new_quantity)
      BY <2>3, ObserveOpening DEF ReduceInPlace, Emit
    <3>3. /\ DOMAIN orders' = DOMAIN orders
          /\ orders'[id].remaining = r.new_quantity
          /\ \A x \in DOMAIN orders : x # id => orders'[x] = orders[x]
      <4>1. orders[id] \in RestingOrder
        BY <3>1 DEF Book, BookTyped
      <4> QED  BY <3>1, <4>1 DEF RestingOrder
    <3> QED  BY <1>idle, <1>old, <3>1, <3>2, <3>3 DEF MirrorExact, Idle, Opened
  <2>4. CASE Owns(r) /\ Resubmit(r)
    <3>1. /\ Idle /\ id \in DOMAIN orders /\ RemoveWithoutReport(id)
          /\ taker' = Resubmitted(r) /\ remaining' = r.new_quantity
      BY <1>4, <2>4 DEF Replace, Resubmit, Resubmitted, StartMatch, Owns
    <3>2. taker' # NoTaker /\ taker'.order_id = id
      BY <2>4, <3>1, ResubmittedTyped, BookAssumption DEF Resubmitted
    <3>3. /\ DOMAIN orders' = DOMAIN orders \ {id}
          /\ \A x \in DOMAIN orders' : orders'[x] = orders[x]
      BY <3>1, RemoveKeepsBook
    <3> DEFINE m == Observe(mirror, Report(id, "Replaced", r.new_quantity, "None"))
    <3>m. Opened(mirror, m, id, r.new_quantity)
      BY ObserveOpening
    <3>4. mirror' = Observe(m, Report(id, "Accepted", r.new_quantity, "None"))
      BY <2>4 DEF Resubmit, EmitBoth
    <3> HIDE DEF m
    <3>n. Opened(m, mirror', id, r.new_quantity)
      BY <3>4, ObserveOpening
    <3>5. DOMAIN mirror' = DOMAIN orders
          /\ mirror'[id] = r.new_quantity
          /\ \A x \in DOMAIN orders : x # id => mirror'[x] = mirror[x]
      BY <1>idle, <3>1, <3>m, <3>n DEF Opened
    <3> QED  BY <1>old, <3>1, <3>2, <3>3, <3>5 DEF MirrorExact, Idle
  <2> QED  BY <1>4, <2>1, <2>2, <2>3, <2>4 DEF Replace
<1>5. ASSUME NEW p \in Policies, SetStpPolicy(p)
      PROVE  MirrorExact'
  BY <1>5, <1>same DEF SetStpPolicy, EmitNone
<1>6. CASE Reset
  BY <1>6 DEF Reset, MirrorExact, Idle
<1>7. ASSUME NEW id \in DOMAIN orders, PreventNewest(id)
      PROVE  MirrorExact'
  <2>1. /\ ~Idle /\ taker' = NoTaker /\ orders' = orders
        /\ Closed(mirror, mirror', taker.order_id)
    BY <1>7, ObserveFinal DEF PreventNewest, Meets, EndCall, Emit, TakerCancelled
  <2> QED  BY <1>busy, <1>old, <2>1 DEF MirrorExact, Idle, Closed
<1>8. ASSUME NEW id \in DOMAIN orders, PreventOldest(id)
      PROVE  MirrorExact'
  <2>1. /\ ~Idle /\ taker' = taker /\ remaining' = remaining
        /\ RemoveWithoutReport(id)
        /\ Closed(mirror, mirror', id)
    BY <1>8, ObserveFinal DEF PreventOldest, Meets, Emit, MakerCancelled
  <2>2. /\ DOMAIN orders' = DOMAIN orders \ {id}
        /\ \A x \in DOMAIN orders' : orders'[x] = orders[x]
    BY <2>1, RemoveKeepsBook
  <2> QED  BY <1>busy, <1>old, <2>1, <2>2 DEF MirrorExact, Idle, Closed
<1>9. ASSUME NEW id \in DOMAIN orders, PreventBoth(id)
      PROVE  MirrorExact'
  <2> DEFINE m == Observe(mirror, MakerCancelled(id))
  <2>1. /\ ~Idle /\ taker' = NoTaker /\ RemoveWithoutReport(id)
        /\ mirror' = Observe(m, TakerCancelled)
    BY <1>9 DEF PreventBoth, Meets, EndCall, EmitBoth
  <2>m. Closed(mirror, m, id)
    BY ObserveFinal DEF MakerCancelled
  <2> HIDE DEF m
  <2>n. Closed(m, mirror', taker.order_id)
    BY <2>1, ObserveFinal DEF TakerCancelled
  <2>2. /\ DOMAIN orders' = DOMAIN orders \ {id}
        /\ \A x \in DOMAIN orders' : orders'[x] = orders[x]
    BY <2>1, RemoveKeepsBook
  <2> QED  BY <1>busy, <1>old, <2>1, <2>2, <2>m, <2>n
           DEF MirrorExact, Idle, Closed, Traded
<1>10. ASSUME NEW id \in DOMAIN orders, FillMaker(id)
       PROVE  MirrorExact'
  <2> DEFINE fill == orders[id].remaining
             m == Observe(mirror, Trade(id, orders[id].price, fill))
  <2>1. /\ ~Idle /\ taker' = taker /\ remaining' = remaining - fill
        /\ RemoveWithoutReport(id)
        /\ mirror' = Observe(m, Report(id, "Filled", 0, "None"))
    BY <1>10 DEF FillMaker, Meets, EmitBoth
  <2>m. Traded(mirror, m, id, taker.order_id, fill)
    BY ObserveTrade
  <2> HIDE DEF m
  <2>n. Closed(m, mirror', id)
    BY <2>1, ObserveFinal
  <2>2. /\ DOMAIN orders' = DOMAIN orders \ {id}
        /\ \A x \in DOMAIN orders' : orders'[x] = orders[x]
    BY <2>1, RemoveKeepsBook
  <2> QED  BY <1>busy, <1>old, <2>1, <2>2, <2>m, <2>n
           DEF MirrorExact, Idle, Closed, Traded
<1>11. ASSUME NEW id \in DOMAIN orders, ReduceMaker(id)
       PROVE  MirrorExact'
  <2> DEFINE left == orders[id].remaining - remaining
             m == Observe(mirror, Trade(id, orders[id].price, remaining))
  <2>1. /\ ~Idle /\ taker' = taker /\ remaining' = 0
        /\ orders' = [orders EXCEPT ![id].remaining = left]
        /\ mirror' = Observe(m, Report(id, "PartiallyFilled", left, "None"))
    BY <1>11 DEF ReduceMaker, Meets, EmitBoth
  <2>m. Traded(mirror, m, id, taker.order_id, remaining)
    BY ObserveTrade
  <2> HIDE DEF m
  <2>n. mirror' = m
    BY <2>1, ObserveOther
  <2>2. /\ DOMAIN orders' = DOMAIN orders
        /\ orders'[id].remaining = left
        /\ \A x \in DOMAIN orders : x # id => orders'[x] = orders[x]
    <3>1. orders[id] \in RestingOrder
      BY DEF Book, BookTyped
    <3> QED  BY <2>1, <3>1 DEF RestingOrder
  <2> QED  BY <1>typ, <1>busy, <1>old, <2>1, <2>2, <2>m, <2>n DEF MirrorExact, Idle, Traded
<1>12. CASE FinishFilled \/ FinishExpire
  <2>1. /\ ~Idle /\ taker' = NoTaker /\ orders' = orders
    BY <1>12 DEF FinishFilled, FinishExpire, LoopEnds, EndCall
  <2>2. Closed(mirror, mirror', taker.order_id)
    BY <1>12, ObserveFinal, ObserveOther
       DEF FinishFilled, FinishExpire, Emit, EmitBoth, TakerPartlyFilled, TakerExpired
  <2> QED  BY <1>busy, <1>old, <2>1, <2>2 DEF MirrorExact, Idle, Closed
<1>13. CASE FinishRest
  <2>1. ~Idle /\ taker' = NoTaker /\ Rest(taker, remaining) /\ remaining > 0
    BY <1>13 DEF FinishRest, LoopEnds, EndCall
  <2>2. mirror' = mirror
    BY <1>13, ObserveOther DEF FinishRest, Emit, EmitNone, TakerPartlyFilled
  <2>3. remaining \in Quantity \ {0}
    BY <2>1, BookAssumption DEF CallTyped, Quantity
  <2>4. /\ DOMAIN orders' = DOMAIN orders \cup {taker.order_id}
        /\ orders'[taker.order_id].remaining = remaining
        /\ \A x \in DOMAIN orders : orders'[x] = orders[x]
    <3>1. taker \in OrderRequest /\ taker.order_id \notin DOMAIN orders
      BY <1>busy, <2>1
    <3>2. /\ DOMAIN orders' = DOMAIN orders \cup {taker.order_id}
          /\ \A x \in DOMAIN orders : orders'[x] = orders[x]
      BY <3>1, <2>1, <2>3, RestKeepsBook
    <3>3. orders'[taker.order_id]
            = [client_id |-> taker.client_id, side |-> taker.side,
               price |-> taker.price, remaining |-> remaining]
      BY <3>1, <2>1, <2>3, RestKeepsBook
    <3> QED  BY <3>2, <3>3
  <2> QED  BY <1>busy, <1>old, <2>1, <2>2, <2>4 DEF MirrorExact, Idle
<1> QED  BY <1>1, <1>2, <1>3, <1>4, <1>5, <1>6, <1>7, <1>8, <1>9, <1>10, <1>11,
            <1>12, <1>13
         DEF Next, Call, MatchStep


-----------------------------------------------------------------------------
(* The invariants.                                                           *)

(* The inductive invariant holds of an empty book,                           *)
LEMMA InitIInv == Init => IInv
<1> SUFFICES ASSUME Init PROVE IInv
  OBVIOUS
<1>1. /\ DOMAIN orders = {} /\ DOMAIN mirror = {} /\ Idle
      /\ levels = [s \in Side |-> <<>>]
      /\ \A s \in Side : DOMAIN levels[s] = {}
  BY DEF Init, Idle
<1>2. Book
  BY <1>1 DEF Book, BookTyped, IndexConsistent
<1>3. CallTyped
  BY BookAssumption DEF Init, CallTyped, StpPolicy, Quantity
<1>4. MirrorExact
  BY <1>1 DEF MirrorExact
<1> QED  BY <1>2, <1>3, <1>4 DEF IInv

(* every call and every iteration of the match loop keeps it,                *)
LEMMA NextIInv == IInv /\ [Next]_vars => IInv'
<1> SUFFICES ASSUME IInv, [Next]_vars PROVE IInv'
  OBVIOUS
<1>1. CASE Next
  BY <1>1, BookSteps, CallSteps, MirrorSteps DEF IInv
<1>2. CASE UNCHANGED vars
  BY <1>2 DEF vars, IInv, Book, BookTyped, IndexConsistent, CallTyped, MirrorExact, Idle
<1> QED  BY <1>1, <1>2

(* so it holds for ever.                                                     *)
LEMMA Invariance == Spec => []IInv
BY InitIInv, NextIInv, PTL DEF Spec

(* Every variable of the book keeps its type, for any capacity, ids, prices  *)
(* and requests: unlink never computes with a position it did not find, and  *)
(* a fill never takes a Quantity below zero.                                 *)
THEOREM TypeCorrect == Spec => []TypeOK
<1>1. IInv => TypeOK
  <2> SUFFICES ASSUME IInv PROVE TypeOK
    OBVIOUS
  <2>1. DOMAIN mirror \subseteq OrderId
    BY TakerTyped DEF IInv, MirrorExact, Book, BookTyped, OrderRequest
  <2> QED  BY <2>1 DEF IInv, Book, BookTyped, CallTyped, TypeOK
<1> QED  BY <1>1, Invariance, PTL

(* The id index and the price levels always agree (by_id_, bids_, asks_).    *)
THEOREM IndexesAgree == Spec => []IndexConsistent
<1>1. IInv => IndexConsistent
  BY DEF IInv, Book
<1> QED  BY <1>1, Invariance, PTL

(* A subscriber to reports and trades always knows the open quantity of      *)
(* every order (emit_report and emit_trade in submit, cancel and replace).   *)
THEOREM MirrorCorrect == Spec => []MirrorExact
<1>1. IInv => MirrorExact
  BY DEF IInv
<1> QED  BY <1>1, Invariance, PTL


(* Only FinishRest adds an order, and it does so when nothing crosses it;    *)
(* every other step leaves old orders at their prices.                       *)
LEMMA NotCrossedStep ==
  ASSUME IInv, NotCrossed, [Next]_vars
  PROVE  NotCrossed'
<1>1. CASE UNCHANGED vars
  BY <1>1 DEF vars, NotCrossed
<1>2. CASE OnlyOldOrders
  BY <1>2 DEF OnlyOldOrders, NotCrossed
<1>3. CASE FinishRest
  <2> DEFINE t == taker
  <2>1. /\ t \in OrderRequest /\ t.order_id \notin DOMAIN orders
        /\ t.type \in {"Limit", "PostOnly"} /\ CrossingLevels(t) = {}
        /\ remaining \in Quantity \ {0} /\ Rest(t, remaining)
    BY <1>3, BookAssumption
       DEF FinishRest, LoopEnds, IInv, CallTyped, MirrorExact, Idle, Quantity
  <2>2. /\ DOMAIN orders' = DOMAIN orders \cup {t.order_id}
        /\ \A x \in DOMAIN orders : orders'[x] = orders[x]
    BY <2>1, RestKeepsBook DEF IInv
  <2>3. orders'[t.order_id] = [client_id |-> t.client_id, side |-> t.side,
                               price |-> t.price, remaining |-> remaining]
    BY <2>1, RestKeepsBook DEF IInv
  <2>4. orders'[t.order_id].side = t.side /\ orders'[t.order_id].price = t.price
    BY <2>3
  <2>5. \A x \in DOMAIN orders : /\ orders[x].side \in Side /\ orders[x].price \in Int
                                 /\ orders[x].price \in DOMAIN levels[orders[x].side]
    BY DEF IInv, Book, BookTyped, IndexConsistent, RestingOrder
  <2>6. t.side \in Side /\ t.price \in Int
    BY <2>1 DEF OrderRequest
  <2>7. ASSUME NEW x \in DOMAIN orders, orders[x].side = Opposite(t.side)
        PROVE  ~Crosses(t, orders[x].price)
    BY <2>1, <2>5, <2>7 DEF CrossingLevels
  <2>8. ASSUME NEW x \in DOMAIN orders, orders[x].side = Opposite(t.side)
        PROVE  IF t.side = "Buy" THEN t.price < orders[x].price
               ELSE orders[x].price < t.price
    BY <2>5, <2>6, <2>7, <2>8 DEF Crosses
  <2> SUFFICES ASSUME NEW a \in DOMAIN orders', NEW b \in DOMAIN orders',
                      orders'[a].side = "Buy", orders'[b].side = "Sell"
               PROVE  orders'[a].price < orders'[b].price
    BY DEF NotCrossed
  <2>9. CASE a \in DOMAIN orders /\ b \in DOMAIN orders
    BY <2>2, <2>9 DEF NotCrossed
  <2>10. CASE a = t.order_id /\ b \in DOMAIN orders
    BY <2>2, <2>4, <2>8, <2>10 DEF Opposite
  <2>11. CASE a \in DOMAIN orders /\ b = t.order_id
    BY <2>2, <2>4, <2>8, <2>11 DEF Opposite
  <2>12. a # b
    OBVIOUS
  <2> QED  BY <2>2, <2>9, <2>10, <2>11, <2>12
<1> QED  BY <1>1, <1>2, <1>3, BookSteps

(* The book is never crossed: no resting buy could trade with a resting      *)
(* sell, whatever submits, replaces and self-trade cancellations came before *)
(* (rest is reached only when match_against has left nothing that crosses).  *)
THEOREM NeverCrossed == Spec => []NotCrossed
<1>1. Init => NotCrossed
  BY DEF Init, NotCrossed
<1>2. IInv /\ NotCrossed /\ [Next]_vars => NotCrossed'
  BY NotCrossedStep
<1> QED  BY <1>1, <1>2, Invariance, PTL DEF Spec

(* Only submit and replace begin to match, and both have a slot to spare:    *)
(* submit has just looked, replace has just given one back.                  *)
SlotInv ==
  /\ IsFiniteSet(DOMAIN orders)
  /\ Cardinality(DOMAIN orders) <= Capacity
  /\ SlotForTaker

(* validate and remove_without_report leave a slot for the taker, and no     *)
(* iteration of the match loop takes one.                                    *)
LEMMA SlotStep ==
  ASSUME IInv, SlotInv, [Next]_vars
  PROVE  SlotInv'
<1> DEFINE D == DOMAIN orders
<1>0. Cardinality(D) \in Nat /\ Capacity \in Nat /\ IsFiniteSet(D)
  BY FS_CardinalityType, BookAssumption DEF SlotInv
<1>1. CASE UNCHANGED vars
  BY <1>1 DEF vars, SlotInv, SlotForTaker, Idle
<1>2. CASE Next /\ OnlyOldOrders
  <2>1. DOMAIN orders' \subseteq D
    BY <1>2 DEF OnlyOldOrders
  <2>2. /\ IsFiniteSet(DOMAIN orders') /\ Cardinality(DOMAIN orders') \in Nat
        /\ Cardinality(DOMAIN orders') <= Cardinality(D)
    BY <1>0, <2>1, FS_Subset, FS_CardinalityType
  <2>3. CASE ~Idle
    BY <1>0, <2>2, <2>3 DEF SlotInv, SlotForTaker
  <2>4. CASE Idle
    <3>1. CASE \E r \in Requests : AcceptSubmit(r)
      <4>1. ~Full
        BY <3>1, AcceptedRequest DEF AcceptSubmit
      <4> QED  BY <1>0, <2>2, <4>1 DEF SlotInv, SlotForTaker, Full
    <3>2. CASE \E r \in Replaces : Owns(r) /\ Resubmit(r)
      <4>1. PICK r \in Replaces : Owns(r) /\ Resubmit(r)
        BY <3>2
      <4>2. r.order_id \in D /\ DOMAIN orders' = D \ {r.order_id}
        BY <4>1, RemoveKeepsBook DEF Resubmit, Owns, IInv
      <4>3. Cardinality(DOMAIN orders') = Cardinality(D) - 1
        BY <1>0, <4>2, FS_RemoveElement
      <4> QED  BY <1>0, <2>2, <4>3 DEF SlotInv, SlotForTaker
    <3>3. CASE taker' = taker
      BY <1>0, <2>2, <2>4, <3>3 DEF SlotInv, SlotForTaker, Idle
    <3>4. \/ \E r \in Requests : AcceptSubmit(r)
          \/ \E r \in Replaces : Owns(r) /\ Resubmit(r)
          \/ taker' = taker
      BY <1>2, <2>4
         DEF Next, Call, MatchStep, RejectSubmit, Reject, Cancel, Replace, RejectUnknown,
             RejectForeign, ReduceInPlace, SetStpPolicy, Reset, PreventNewest,
             PreventOldest, PreventBoth, FillMaker, ReduceMaker, Meets, FinishFilled,
             FinishRest, FinishExpire, LoopEnds
    <3> QED  BY <3>1, <3>2, <3>3, <3>4
  <2> QED  BY <2>3, <2>4
<1>3. CASE FinishRest
  <2>1. ~Idle /\ taker' = NoTaker /\ DOMAIN orders' = D \cup {taker.order_id}
    BY <1>3 DEF FinishRest, LoopEnds, EndCall, Rest
  <2>2. /\ IsFiniteSet(DOMAIN orders')
        /\ Cardinality(DOMAIN orders') \in Nat
        /\ Cardinality(DOMAIN orders') <= Cardinality(D) + 1
    <3>1. IsFiniteSet(D \cup {taker.order_id})
      BY <1>0, FS_AddElement
    <3>2. Cardinality(D \cup {taker.order_id})
            = IF taker.order_id \in D THEN Cardinality(D) ELSE Cardinality(D) + 1
      BY <1>0, FS_AddElement
    <3> HIDE DEF D
    <3> QED  BY <1>0, <2>1, <3>1, <3>2
  <2> QED  BY <1>0, <2>1, <2>2 DEF SlotInv, SlotForTaker, Idle
<1> QED  BY <1>1, <1>2, <1>3, BookSteps

(* allocate_node never throws after trades have been reported: a submit that *)
(* was accepted, and a replace, have a free node until they end.             *)
THEOREM SlotReserved == Spec => []SlotForTaker
<1>1. Init => SlotInv
  BY FS_EmptySet, BookAssumption DEF Init, SlotInv, SlotForTaker, Idle
<1>2. IInv /\ SlotInv /\ [Next]_vars => SlotInv'
  BY SlotStep
<1>3. SlotInv => SlotForTaker
  BY DEF SlotInv
<1> QED  BY <1>1, <1>2, <1>3, Invariance, PTL DEF Spec


-----------------------------------------------------------------------------
(* The action properties.                                                    *)

(* Reports are not trades.                                                   *)
LEMMA NoTrades ==
  /\ TradesIn(<<>>) = {}
  /\ \A e : e.kind = "report" => TradesIn(<<e>>) = {}
  /\ \A e, f : e.kind = "report" /\ f.kind = "report" => TradesIn(<<e, f>>) = {}
BY DEF TradesIn

(* A trade followed by a report is one trade.                                *)
LEMMA OneTrade ==
  ASSUME NEW e, NEW f, f.kind = "report", NEW x \in TradesIn(<<e, f>>)
  PROVE  x = e
BY DEF TradesIn

(* Only the two fills of match_against emit a trade: one, with the order met *)
(* as its maker and at its price.                                            *)
LEMMA TradingSteps ==
  ASSUME Next, NEW e \in TradesIn(out')
  PROVE  \E id \in DOMAIN orders :
           /\ Meets(id) /\ ~SelfTrade(id)
           /\ FillMaker(id) \/ ReduceMaker(id)
           /\ e.maker = id /\ e.price = orders[id].price
<1>rep. \A id, status, left, reason : Report(id, status, left, reason).kind = "report"
  BY DEF Report
<1>none. ASSUME \/ EmitNone
                \/ \E id, status, left, reason : Emit(Report(id, status, left, reason))
                \/ \E id1, s1, l1, r1, id2, s2, l2, r2 :
                     EmitBoth(Report(id1, s1, l1, r1), Report(id2, s2, l2, r2))
         PROVE  FALSE
  BY <1>none, <1>rep, NoTrades DEF EmitNone, Emit, EmitBoth
<1>1. ASSUME NEW id, NEW left, NEW reason, Reject(id, left, reason)
      PROVE  FALSE
  BY <1>1, <1>none DEF Reject
<1>2. ASSUME NEW r \in Requests, RejectSubmit(r) \/ AcceptSubmit(r)
      PROVE  FALSE
  BY <1>1, <1>2, <1>none DEF RejectSubmit, AcceptSubmit
<1>3. ASSUME NEW r \in Cancels, Cancel(r)
      PROVE  FALSE
  BY <1>1, <1>3, <1>none DEF Cancel, RejectUnknown, RejectForeign, MakerCancelled
<1>4. ASSUME NEW r \in Replaces, Replace(r)
      PROVE  FALSE
  BY <1>1, <1>4, <1>none DEF Replace, RejectUnknown, RejectForeign, ReduceInPlace, Resubmit
<1>5. ASSUME NEW p \in Policies, SetStpPolicy(p)
      PROVE  FALSE
  BY <1>5, <1>none DEF SetStpPolicy
<1>6. ASSUME Reset
      PROVE  FALSE
  BY <1>6, NoTrades DEF Reset
<1>7. ASSUME NEW id \in DOMAIN orders, PreventNewest(id) \/ PreventOldest(id) \/ PreventBoth(id)
      PROVE  FALSE
  BY <1>7, <1>none DEF PreventNewest, PreventOldest, PreventBoth, MakerCancelled, TakerCancelled
<1>8. ASSUME FinishFilled \/ FinishRest \/ FinishExpire
      PROVE  FALSE
  BY <1>8, <1>none
     DEF FinishFilled, FinishRest, FinishExpire, TakerPartlyFilled, TakerExpired
<1>9. ASSUME NEW id \in DOMAIN orders, FillMaker(id) \/ ReduceMaker(id)
      PROVE  Meets(id) /\ ~SelfTrade(id) /\ e.maker = id /\ e.price = orders[id].price
  <2>1. \E q, s, l : out' = <<Trade(id, orders[id].price, q), Report(id, s, l, "None")>>
    BY <1>9 DEF FillMaker, ReduceMaker, EmitBoth
  <2>2. \E q : e = Trade(id, orders[id].price, q)
    BY <2>1, <1>rep, OneTrade
  <2>3. e.maker = id /\ e.price = orders[id].price
    BY <2>2 DEF Trade
  <2> QED  BY <1>9, <2>3 DEF FillMaker, ReduceMaker
<1> QED  BY <1>2, <1>3, <1>4, <1>5, <1>6, <1>7, <1>8, <1>9 DEF Next, Call, MatchStep

(* The order that a taker meets is first on price and first in its level.    *)
LEMMA MakerIsFirst ==
  ASSUME IInv, NEW id \in DOMAIN orders, Meets(id), NEW x \in DOMAIN orders,
         orders[x].side = orders[id].side
  PROVE  /\ ~Better(orders[id].side, orders[x].price, orders[id].price)
         /\ ~Before(x, id, levels[orders[id].side][orders[id].price].queue)
<1> DEFINE s == Opposite(taker.side)
<1>1. PICK p \in CrossingLevels(taker) : IsBest(s, p) /\ id = Head(levels[s][p].queue)
  BY DEF Meets, IsMaker
<1>2. s \in Side /\ p \in DOMAIN levels[s] /\ p \in Int
      /\ levels[s][p].queue \in Seq(OrderId) /\ levels[s][p].queue # <<>>
  BY <1>1 DEF Opposite, Side, CrossingLevels, IInv, Book, BookTyped, IndexConsistent
<1> DEFINE q == levels[s][p].queue
<1>3. 1 \in DOMAIN q /\ q[1] = id /\ DOMAIN q = 1 .. Len(q) /\ Len(q) \in Nat
  BY <1>1, <1>2
<1>4. orders[id].side = s /\ orders[id].price = p
  BY <1>2, <1>3 DEF IInv, Book, IndexConsistent
<1>5. orders[x].price \in DOMAIN levels[s] /\ orders[x].price \in Int
  BY <1>4 DEF IInv, Book, BookTyped, IndexConsistent, RestingOrder
<1>6. ~Better(s, orders[x].price, p)
  BY <1>1, <1>2, <1>5 DEF IsBest, Better
<1>7. \A i, j \in DOMAIN q : q[i] = q[j] => i = j
  BY <1>2 DEF IInv, Book, IndexConsistent
<1> HIDE DEF q, s
<1>8. \A i, j \in DOMAIN q : i < j => q[j] # id
  BY <1>3, <1>7
<1>9. ~Before(x, id, q)
  BY <1>8 DEF Before
<1> QED  BY <1>4, <1>6, <1>9 DEF q

(* Price-time priority of match_against, for every book: a trade is with an  *)
(* order nobody on its side comes before, at that order's price.             *)
THEOREM PriorityKept == Spec => PriceTimePriority
<1>1. ASSUME IInv, Next, NEW e \in TradesIn(out')
      PROVE  LET m == orders[e.maker] IN
             /\ e.price = m.price
             /\ \A id \in DOMAIN orders :
                  orders[id].side = m.side =>
                    /\ ~Better(m.side, orders[id].price, m.price)
                    /\ ~Before(id, e.maker, levels[m.side][m.price].queue)
  BY <1>1, TradingSteps, MakerIsFirst
<1>2. IInv /\ [Next]_vars =>
        [\A e \in TradesIn(out') :
           LET m == orders[e.maker] IN
           /\ e.price = m.price
           /\ \A id \in DOMAIN orders :
                orders[id].side = m.side =>
                  /\ ~Better(m.side, orders[id].price, m.price)
                  /\ ~Before(id, e.maker, levels[m.side][m.price].queue)]_vars
  BY <1>1
<1> QED  BY <1>2, Invariance, PTL DEF Spec, PriceTimePriority


(* Self-trade prevention, for every book: no trade pairs a client with       *)
(* itself under a policy, and an order that leaves the book during a match   *)
(* was traded or is the taker's own under a policy that cancels the oldest.  *)
THEOREM NoSelfTrade == Spec => SelfTradePrevented
<1>1. ASSUME Next, ~Idle, NEW e \in TradesIn(out'), stp_policy # "None"
      PROVE  orders[e.maker].client_id # taker.client_id
  BY <1>1, TradingSteps DEF SelfTrade
<1>2. ASSUME IInv, Next, ~Idle, NEW id \in DOMAIN orders \ DOMAIN orders'
      PROVE  \/ \E e \in TradesIn(out') : e.maker = id
             \/ /\ stp_policy \in {"CancelOldest", "CancelBoth"}
                /\ orders[id].client_id = taker.client_id
  <2>1. MatchStep
    BY <1>2 DEF Next, Call, RejectSubmit, AcceptSubmit, Cancel, Replace, SetStpPolicy, Reset
  <2>2. CASE FinishFilled \/ FinishExpire \/ \E x \in DOMAIN orders : PreventNewest(x)
    BY <1>2, <2>2 DEF FinishFilled, FinishExpire, PreventNewest
  <2>3. CASE FinishRest
    BY <1>2, <2>3 DEF FinishRest, Rest
  <2>4. CASE \E x \in DOMAIN orders : ReduceMaker(x)
    BY <1>2, <2>4 DEF ReduceMaker
  <2>5. ASSUME NEW x \in DOMAIN orders, PreventOldest(x) \/ PreventBoth(x)
        PROVE  /\ stp_policy \in {"CancelOldest", "CancelBoth"}
               /\ orders[id].client_id = taker.client_id
    BY <1>2, <2>5 DEF PreventOldest, PreventBoth, RemoveWithoutReport, Without, SelfTrade
  <2>6. ASSUME NEW x \in DOMAIN orders, FillMaker(x)
        PROVE  \E e \in TradesIn(out') : e.maker = id
    <3> DEFINE e == Trade(x, orders[x].price, orders[x].remaining)
               f == Report(x, "Filled", 0, "None")
    <3>1. x = id
      BY <1>2, <2>6 DEF FillMaker, RemoveWithoutReport, Without
    <3>2. out' = <<e, f>> /\ e.kind = "trade" /\ e.maker = x
      BY <2>6 DEF FillMaker, EmitBoth, Trade
    <3> HIDE DEF e, f
    <3>3. 1 \in DOMAIN <<e, f>> /\ <<e, f>>[1] = e
      OBVIOUS
    <3>4. e \in TradesIn(out')
      BY <3>2, <3>3 DEF TradesIn
    <3> QED  BY <3>1, <3>2, <3>4
  <2> QED  BY <2>1, <2>2, <2>3, <2>4, <2>5, <2>6 DEF MatchStep
<1>3. IInv /\ [Next]_vars =>
        [~Idle =>
           /\ \A e \in TradesIn(out') :
                stp_policy # "None"
                  => orders[e.maker].client_id # taker.client_id
           /\ \A id \in DOMAIN orders \ DOMAIN orders' :
                \/ \E e \in TradesIn(out') : e.maker = id
                \/ /\ stp_policy \in {"CancelOldest", "CancelBoth"}
                   /\ orders[id].client_id = taker.client_id]_vars
  BY <1>1, <1>2
<1> QED  BY <1>3, Invariance, PTL DEF Spec, SelfTradePrevented


-----------------------------------------------------------------------------
(* What a step does to the levels.                                           *)

(* An order whose quantity is lowered where it stands takes the difference   *)
(* off its level (a partial fill, an in-place replace).                      *)
Reduced(id, left) ==
  /\ orders' = [orders EXCEPT ![id].remaining = left]
  /\ levels' = Shrink(id, orders[id].remaining - left)

(* The order being matched rests with what is left of it.                    *)
TakerRests ==
  /\ taker \in OrderRequest /\ taker.order_id \notin DOMAIN orders
  /\ remaining \in Quantity \ {0}
  /\ Rest(taker, remaining)

(* Every step leaves the book alone, takes one order out, lowers one where   *)
(* it stands, empties the book or rests the taker.                           *)
LEMMA LevelSteps ==
  ASSUME IInv, Next
  PROVE  \/ UNCHANGED <<orders, levels>>
         \/ \E id \in DOMAIN orders : RemoveWithoutReport(id)
         \/ \E id \in DOMAIN orders : \E left \in Quantity \ {0} : Reduced(id, left)
         \/ Reset
         \/ TakerRests
<1> DEFINE Goal == \/ UNCHANGED <<orders, levels>>
                   \/ \E id \in DOMAIN orders : RemoveWithoutReport(id)
                   \/ \E id \in DOMAIN orders : \E left \in Quantity \ {0} : Reduced(id, left)
                   \/ Reset
                   \/ TakerRests
<1> USE DEF IInv
<1>1. ASSUME NEW r \in Requests, RejectSubmit(r) \/ AcceptSubmit(r)
      PROVE  UNCHANGED <<orders, levels>>
  BY <1>1 DEF RejectSubmit, Reject, AcceptSubmit
<1>2. ASSUME NEW r \in Cancels, Cancel(r)
      PROVE  Goal
  BY <1>2 DEF Cancel, RejectUnknown, RejectForeign, Reject, Owns
<1>3. ASSUME NEW r \in Replaces, Replace(r)
      PROVE  Goal
  <2>1. CASE RejectUnknown(r) \/ RejectForeign(r)
             \/ Reject(r.order_id, orders[r.order_id].remaining, "InvalidReplacement")
    BY <2>1 DEF RejectUnknown, RejectForeign, Reject
  <2>2. CASE Owns(r) /\ r.new_quantity # 0 /\ ReduceInPlace(r)
    <3>1. r.new_quantity \in Quantity \ {0} /\ r.order_id \in DOMAIN orders
      BY <2>2, BookAssumption DEF ReplaceRequest, Owns
    <3>2. Reduced(r.order_id, r.new_quantity)
      BY <2>2 DEF ReduceInPlace, Reduced
    <3> QED  BY <3>1, <3>2
  <2>3. CASE Owns(r) /\ Resubmit(r)
    BY <2>3 DEF Resubmit, Owns
  <2> QED  BY <1>3, <2>1, <2>2, <2>3 DEF Replace
<1>4. ASSUME NEW p \in Policies, SetStpPolicy(p)
      PROVE  UNCHANGED <<orders, levels>>
  BY <1>4 DEF SetStpPolicy
<1>5. ASSUME NEW id \in DOMAIN orders, PreventNewest(id)
      PROVE  UNCHANGED <<orders, levels>>
  BY <1>5 DEF PreventNewest
<1>6. ASSUME NEW id \in DOMAIN orders, PreventOldest(id) \/ PreventBoth(id) \/ FillMaker(id)
      PROVE  RemoveWithoutReport(id)
  BY <1>6 DEF PreventOldest, PreventBoth, FillMaker
<1>7. ASSUME NEW id \in DOMAIN orders, ReduceMaker(id)
      PROVE  \E left \in Quantity \ {0} : Reduced(id, left)
  <2> DEFINE left == orders[id].remaining - remaining
  <2>1. left > 0 /\ orders[id].remaining \in Quantity /\ remaining \in Quantity
    BY <1>7 DEF ReduceMaker, Book, BookTyped, RestingOrder, CallTyped
  <2>2. left \in Quantity \ {0} /\ orders[id].remaining - left = remaining
    BY <2>1, BookAssumption DEF Quantity
  <2>3. Reduced(id, left)
    BY <1>7, <2>2 DEF ReduceMaker, Reduced
  <2> QED  BY <2>2, <2>3
<1>8. CASE FinishFilled \/ FinishExpire
  BY <1>8 DEF FinishFilled, FinishExpire
<1>9. ASSUME FinishRest
      PROVE  TakerRests
  BY <1>9, BookAssumption
     DEF FinishRest, LoopEnds, CallTyped, MirrorExact, Idle, Quantity, TakerRests
<1> QED  BY <1>1, <1>2, <1>3, <1>4, <1>5, <1>6, <1>7, <1>8, <1>9 DEF Next, Call, MatchStep

(* The levels after remove_without_report.                                   *)
LEMMA RemovedLevels ==
  ASSUME Book, NEW id \in DOMAIN orders, RemoveWithoutReport(id)
  PROVE  LET o == orders[id]
             level == levels[o.side][o.price]
             rest == RemoveAt(level.queue, PositionOf(id, level.queue))
         IN /\ \A s \in Side : s # o.side => levels'[s] = levels[s]
            /\ DOMAIN levels'[o.side]
                 = IF rest = <<>> THEN DOMAIN levels[o.side] \ {o.price}
                   ELSE DOMAIN levels[o.side]
            /\ \A p \in DOMAIN levels'[o.side] :
                 p # o.price => levels'[o.side][p] = levels[o.side][p]
            /\ rest # <<>> => /\ levels'[o.side][o.price].queue = rest
                              /\ levels'[o.side][o.price].total
                                   = Wrap(level.total - o.remaining)
<1> DEFINE o == orders[id]
           level == levels[o.side][o.price]
           rest == RemoveAt(level.queue, PositionOf(id, level.queue))
<1>1. rest # <<>> => levels'[o.side][o.price]
                       = [queue |-> rest, total |-> Wrap(level.total - o.remaining)]
  BY UnlinkFacts DEF RemoveWithoutReport
<1>2. /\ \A s \in Side : s # o.side => levels'[s] = levels[s]
      /\ DOMAIN levels'[o.side]
           = IF rest = <<>> THEN DOMAIN levels[o.side] \ {o.price} ELSE DOMAIN levels[o.side]
      /\ \A p \in DOMAIN levels'[o.side] :
           p # o.price => levels'[o.side][p] = levels[o.side][p]
  BY UnlinkFacts DEF RemoveWithoutReport
<1> HIDE DEF rest
<1> QED  BY <1>1, <1>2 DEF rest

(* The levels after rest: only the order's own level changes, and it is      *)
(* created when it was missing.                                              *)
LEMMA RestLevels ==
  ASSUME Book, NEW t \in OrderRequest, NEW left, Rest(t, left)
  PROVE  LET side == levels[t.side]
             level == IF t.price \in DOMAIN side THEN side[t.price]
                      ELSE [queue |-> <<>>, total |-> 0]
         IN /\ t.side \in Side
            /\ \A s \in Side : s # t.side => levels'[s] = levels[s]
            /\ DOMAIN levels'[t.side] = DOMAIN side \cup {t.price}
            /\ levels'[t.side][t.price].queue = Append(level.queue, t.order_id)
            /\ levels'[t.side][t.price].total = Wrap(level.total + left)
            /\ \A p \in DOMAIN side : p # t.price => levels'[t.side][p] = side[p]
<1> DEFINE side == levels[t.side]
           level == IF t.price \in DOMAIN side THEN side[t.price]
                    ELSE [queue |-> <<>>, total |-> 0]
           n == LinkAtTail(level, t.order_id, left)
<1>1. t.side \in Side /\ DOMAIN levels = Side
  BY DEF OrderRequest, Book, BookTyped
<1>2. levels' = [levels EXCEPT ![t.side] =
                   [p \in DOMAIN side \cup {t.price} |-> IF p = t.price THEN n ELSE side[p]]]
  BY DEF Rest
<1>3. n.queue = Append(level.queue, t.order_id) /\ n.total = Wrap(level.total + left)
  BY DEF LinkAtTail
<1> HIDE DEF n, level
<1>4. /\ \A s \in Side : s # t.side => levels'[s] = levels[s]
      /\ levels'[t.side]
           = [p \in DOMAIN side \cup {t.price} |-> IF p = t.price THEN n ELSE side[p]]
  BY <1>1, <1>2
<1> QED  BY <1>1, <1>3, <1>4 DEF level

(* The levels after Shrink: the queues stay, and one total is lowered.       *)
LEMMA ShrinkLevels ==
  ASSUME Book, NEW id \in DOMAIN orders, NEW delta, levels' = Shrink(id, delta)
  PROVE  LET o == orders[id] IN
         /\ \A s \in Side : DOMAIN levels'[s] = DOMAIN levels[s]
         /\ \A s \in Side : \A p \in DOMAIN levels[s] :
              /\ levels'[s][p].queue = levels[s][p].queue
              /\ levels'[s][p].total = IF s = o.side /\ p = o.price
                                       THEN Wrap(levels[s][p].total - delta)
                                       ELSE levels[s][p].total
<1> DEFINE o == orders[id]
           total == Wrap(levels[o.side][o.price].total - delta)
           n == [levels[o.side][o.price] EXCEPT !.total = total]
<1>1. /\ DOMAIN levels = Side /\ o.side \in Side /\ o.price \in DOMAIN levels[o.side]
      /\ levels[o.side][o.price] \in [queue : Seq(OrderId), total : Quantity]
  BY PositionFacts DEF RestingOrder, Book, BookTyped
<1>2. levels' = [levels EXCEPT ![o.side] = [levels[o.side] EXCEPT ![o.price] = n]]
  BY DEF Shrink
<1>3. n.total = total /\ n.queue = levels[o.side][o.price].queue
  BY <1>1
<1> HIDE DEF n, total
<1>4. /\ \A s \in Side : s # o.side => levels'[s] = levels[s]
      /\ levels'[o.side] = [levels[o.side] EXCEPT ![o.price] = n]
  BY <1>1, <1>2
<1>5. ASSUME NEW s \in Side
      PROVE  /\ DOMAIN levels'[s] = DOMAIN levels[s]
             /\ \A p \in DOMAIN levels[s] :
                  /\ levels'[s][p].queue = levels[s][p].queue
                  /\ levels'[s][p].total = IF s = o.side /\ p = o.price
                                           THEN total ELSE levels[s][p].total
  <2>1. CASE s # o.side
    BY <1>4, <2>1
  <2>2. CASE s = o.side
    BY <1>1, <1>3, <1>4, <2>2
  <2> QED  BY <2>1, <2>2
<1> QED  BY <1>5 DEF total

-----------------------------------------------------------------------------
(* Time priority.                                                            *)

(* Closing the gap an order leaves keeps the order of the others.            *)
LEMMA RemovalKeepsOrder ==
  ASSUME NEW S, NEW q \in Seq(S), NEW i \in DOMAIN q,
         \A j, k \in DOMAIN q : q[j] = q[k] => j = k,
         NEW a \in ToSet(RemoveAt(q, i)), NEW b \in ToSet(RemoveAt(q, i))
  PROVE  b \in ToSet(q) /\ (Before(a, b, q) => Before(a, b, RemoveAt(q, i)))
<1> DEFINE r == RemoveAt(q, i)
           n == Len(q)
           new(x) == IF x < i THEN x ELSE x - 1
<1>1. n \in Nat /\ DOMAIN q = 1 .. n /\ i \in 1 .. n
  OBVIOUS
<1>2. /\ r \in Seq(S) /\ Len(r) = n - 1
      /\ \A j \in 1 .. (n - 1) : r[j] = IF j < i THEN q[j] ELSE q[j + 1]
  BY RemoveAtFacts
<1>3. \A j \in DOMAIN r : \E k \in DOMAIN q : k # i /\ r[j] = q[k]
  BY RemoveAtElements
<1>4. \A x \in ToSet(r) : \E k \in DOMAIN q : k # i /\ x = q[k]
  BY <1>3 DEF ToSet
<1>5. ASSUME Before(a, b, q) PROVE Before(a, b, r)
  <2>1. PICK j, k \in DOMAIN q : j < k /\ q[j] = a /\ q[k] = b
    BY <1>5 DEF Before
  <2>2. j # i /\ k # i
    BY <1>4, <2>1
  <2> HIDE DEF r, n
  <2>3. new(j) \in 1 .. (n - 1) /\ r[new(j)] = a
    BY <1>1, <1>2, <2>1, <2>2
  <2>4. new(k) \in 1 .. (n - 1) /\ r[new(k)] = b
    BY <1>1, <1>2, <2>1, <2>2
  <2>5. new(j) < new(k)
    BY <1>1, <2>1, <2>2
  <2>6. DOMAIN r = 1 .. (n - 1)
    BY <1>2
  <2> HIDE DEF new
  <2> QED  BY <2>3, <2>4, <2>5, <2>6 DEF Before
<1>6. b \in ToSet(q)
  BY <1>4 DEF ToSet
<1> QED  BY <1>5, <1>6

(* What joins at the tail stands behind all that were there.                 *)
LEMMA JoiningKeepsOrder ==
  ASSUME NEW S, NEW q \in Seq(S), NEW e \in S, NEW a \in ToSet(Append(q, e)),
         NEW b \in ToSet(Append(q, e))
  PROVE  /\ Before(a, b, q) => Before(a, b, Append(q, e))
         /\ a \in ToSet(q) /\ b \notin ToSet(q) => Before(a, b, Append(q, e))
<1> DEFINE r == Append(q, e)
           n == Len(q)
<1>1. /\ n \in Nat /\ DOMAIN q = 1 .. n /\ DOMAIN r = 1 .. (n + 1)
      /\ r[n + 1] = e /\ \A j \in 1 .. n : r[j] = q[j]
  BY AppendFacts
<1> HIDE DEF r, n
<1>2. ASSUME Before(a, b, q) PROVE Before(a, b, r)
  BY <1>1, <1>2 DEF Before
<1>3. ASSUME a \in ToSet(q), b \notin ToSet(q) PROVE Before(a, b, r)
  <2>1. PICK j \in 1 .. n : q[j] = a
    BY <1>1, <1>3 DEF ToSet
  <2>2. PICK k \in 1 .. (n + 1) : r[k] = b
    BY <1>1 DEF ToSet, r
  <2>3. k = n + 1
    BY <1>1, <1>3, <2>2 DEF ToSet
  <2> QED  BY <1>1, <2>1, <2>2, <2>3 DEF Before
<1> QED  BY <1>2, <1>3 DEF r

(* What PlaceKept says of one level in one step.                             *)
KeepsPlaces(q, n) ==
  n # q => \A a, b \in ToSet(n) :
    /\ Before(a, b, q) => Before(a, b, n)
    /\ a \in ToSet(q) /\ b \notin ToSet(q) => Before(a, b, n)

(* Every step keeps the places on every level that is there before and after *)
LEMMA PlaceSteps ==
  ASSUME IInv, Next, NEW s \in Side, NEW p \in DOMAIN levels[s] \cap DOMAIN levels'[s]
  PROVE  KeepsPlaces(levels[s][p].queue, levels'[s][p].queue)
<1> DEFINE q == levels[s][p].queue
           n == levels'[s][p].queue
<1> SUFFICES KeepsPlaces(q, n)
  OBVIOUS
<1>1. q \in Seq(OrderId) /\ \A j, k \in DOMAIN q : q[j] = q[k] => j = k
  BY DEF IInv, Book, BookTyped, IndexConsistent
<1>2. ASSUME n = q PROVE KeepsPlaces(q, n)
  BY <1>2 DEF KeepsPlaces
<1>3. CASE UNCHANGED <<orders, levels>>
  BY <1>2, <1>3
<1>4. ASSUME NEW id \in DOMAIN orders, RemoveWithoutReport(id)
      PROVE  KeepsPlaces(q, n)
  <2> DEFINE o == orders[id]
             i == PositionOf(id, q)
             rest == RemoveAt(levels[o.side][o.price].queue,
                              PositionOf(id, levels[o.side][o.price].queue))
  <2>l. /\ \A z \in Side : z # o.side => levels'[z] = levels[z]
        /\ DOMAIN levels'[o.side] = IF rest = <<>> THEN DOMAIN levels[o.side] \ {o.price}
                                    ELSE DOMAIN levels[o.side]
        /\ \A x \in DOMAIN levels'[o.side] :
             x # o.price => levels'[o.side][x] = levels[o.side][x]
        /\ rest # <<>> => levels'[o.side][o.price].queue = rest
    BY <1>4, RemovedLevels DEF IInv
  <2> HIDE DEF rest
  <2>1. CASE s # o.side \/ p # o.price
    <3>1. levels'[s][p] = levels[s][p]
      BY <2>1, <2>l
    <3> QED  BY <1>2, <3>1
  <2>2. CASE s = o.side /\ p = o.price
    <3>1. i \in DOMAIN q
      BY <2>2, PositionFacts DEF IInv
    <3>2. n = RemoveAt(q, i)
      BY <2>2, <2>l DEF rest
    <3> HIDE DEF q, n, i
    <3> QED  BY <1>1, <3>1, <3>2, RemovalKeepsOrder DEF KeepsPlaces
  <2> QED  BY <2>1, <2>2
<1>5. ASSUME NEW id \in DOMAIN orders, NEW left, Reduced(id, left)
      PROVE  KeepsPlaces(q, n)
  <2>1. n = q
    BY <1>5, ShrinkLevels DEF Reduced, IInv
  <2> QED  BY <1>2, <2>1
<1>6. CASE Reset
  BY <1>6 DEF Reset
<1>7. CASE TakerRests
  <2> DEFINE t == taker
  <2>l. /\ \A z \in Side : z # t.side => levels'[z] = levels[z]
        /\ \A x \in DOMAIN levels[t.side] :
             x # t.price => levels'[t.side][x] = levels[t.side][x]
    BY <1>7, RestLevels DEF TakerRests, IInv
  <2>1. CASE s # taker.side \/ p # taker.price
    <3>1. n = q
      BY <2>1, <2>l
    <3> QED  BY <1>2, <3>1
  <2>2. CASE s = taker.side /\ p = taker.price
    <3>1. n = Append(q, taker.order_id) /\ taker.order_id \in OrderId
      BY <1>7, <2>2, RestLevels DEF TakerRests, IInv, OrderRequest
    <3> HIDE DEF q, n
    <3> QED  BY <1>1, <3>1, JoiningKeepsOrder DEF KeepsPlaces
  <2> QED  BY <2>1, <2>2
<1> HIDE DEF q, n
<1> QED  BY <1>3, <1>4, <1>5, <1>6, <1>7, LevelSteps

(* Time priority is never lost or gained silently, for every book: unlink    *)
(* keeps the order of those that stay, an in-place reduction or a partial    *)
(* fill keeps the place, and rest joins behind all that stay.                *)
THEOREM PlacesKept == Spec => PlaceKept
<1>1. IInv /\ [Next]_vars =>
        [\A s \in Side : \A p \in DOMAIN levels[s] \cap DOMAIN levels'[s] :
           LET q == levels[s][p].queue
               n == levels'[s][p].queue
           IN n # q => \A a, b \in ToSet(n) :
                /\ Before(a, b, q) => Before(a, b, n)
                /\ a \in ToSet(q) /\ b \notin ToSet(q) => Before(a, b, n)]_vars
  BY PlaceSteps DEF KeepsPlaces
<1> QED  BY <1>1, Invariance, PTL DEF Spec, PlaceKept

-----------------------------------------------------------------------------
(* The running totals.                                                       *)

(* Quantities add and subtract modulo 2^32, in whatever order.               *)
LEMMA WrapAdds ==
  ASSUME NEW a \in Int, NEW b \in Int
  PROVE  Wrap(Wrap(a) + b) = Wrap(a + b) /\ Wrap(Wrap(a) - b) = Wrap(a - b)
<1> DEFINE c == 0 - b
<1>1. QuantityModulus \in Nat \ {0} /\ c \in Int
  BY BookAssumption
<1>2. Wrap(Wrap(a) + b) = Wrap(a + b) /\ Wrap(Wrap(a) + c) = Wrap(a + c)
  <2> HIDE DEF c
  <2> QED  BY <1>1, RemainderAdds DEF Wrap
<1>3. Wrap(a) \in Int
  BY <1>1 DEF Wrap
<1>4. Wrap(a) + c = Wrap(a) - b /\ a + c = a - b
  BY <1>3
<1> QED  BY <1>2, <1>4

(* What a level sums up.                                                     *)
LEMMA LevelSummable ==
  ASSUME Book, NEW s \in Side, NEW p \in DOMAIN levels[s]
  PROVE  LET ids == ToSet(levels[s][p].queue) IN
         /\ Summable(OpenQuantity, ids)
         /\ SumFunctionOnSet(OpenQuantity, ids) \in Int
         /\ \A x \in ids : /\ x \in DOMAIN orders
                           /\ OpenQuantity[x] = orders[x].remaining
                           /\ orders[x].side = s /\ orders[x].price = p
<1> DEFINE q == levels[s][p].queue
<1>1. q \in Seq(OrderId)
  BY DEF Book, BookTyped
<1>2. \A x \in ToSet(q) : x \in DOMAIN orders /\ orders[x].side = s /\ orders[x].price = p
  BY DEF Book, IndexConsistent, ToSet
<1>3. \A x \in DOMAIN orders : /\ OpenQuantity[x] = orders[x].remaining
                               /\ OpenQuantity[x] \in Int
  BY BookAssumption DEF Book, BookTyped, RestingOrder, Quantity, OpenQuantity
<1>4. IsFiniteSet(ToSet(q))
  BY <1>1, ElementsFinite
<1> HIDE DEF q
<1>5. Summable(OpenQuantity, ToSet(q))
  BY <1>2, <1>3, <1>4 DEF Summable
<1>6. SumFunctionOnSet(OpenQuantity, ToSet(q)) \in Int
  BY <1>5, SumPicks
<1> QED  BY <1>2, <1>3, <1>5, <1>6 DEF q

(* A level's total is right.                                                 *)
TotalRight(s, p) ==
  levels[s][p].total = Wrap(SumFunctionOnSet(OpenQuantity, ToSet(levels[s][p].queue)))

(* A level that keeps its queue, its total and the quantities on it stays    *)
(* right.                                                                    *)
LEMMA TotalUntouched ==
  ASSUME Book, NEW s \in Side, NEW p \in DOMAIN levels[s], TotalRight(s, p),
         levels'[s][p].queue = levels[s][p].queue, levels'[s][p].total = levels[s][p].total,
         \A x \in DOMAIN orders : orders[x].side = s /\ orders[x].price = p =>
           x \in DOMAIN orders' /\ orders'[x].remaining = orders[x].remaining
  PROVE  TotalRight(s, p)'
<1> DEFINE ids == ToSet(levels[s][p].queue)
<1>1. /\ Summable(OpenQuantity, ids)
      /\ \A x \in ids : /\ x \in DOMAIN orders
                        /\ OpenQuantity[x] = orders[x].remaining
                        /\ orders[x].side = s /\ orders[x].price = p
  BY LevelSummable
<1> HIDE DEF ids
<1> DEFINE g == OpenQuantity'
<1>2. \A x \in ids : g[x] = OpenQuantity[x]
  BY <1>1 DEF OpenQuantity
<1> HIDE DEF g
<1>3. SumFunctionOnSet(g, ids) = SumFunctionOnSet(OpenQuantity, ids)
  BY <1>1, <1>2, SumAgrees
<1> QED  BY <1>3 DEF TotalRight, g, ids

(* Taking an order out takes its quantity off.                               *)
LEMMA TotalAfterRemoval ==
  ASSUME IInv, LevelTotals, NEW id \in DOMAIN orders, RemoveWithoutReport(id),
         NEW s \in Side, NEW p \in DOMAIN levels'[s]
  PROVE  TotalRight(s, p)'
<1> DEFINE o == orders[id]
           level == levels[o.side][o.price]
           i == PositionOf(id, level.queue)
           rest == RemoveAt(level.queue, i)
<1>1. /\ \A z \in Side : z # o.side => levels'[z] = levels[z]
      /\ DOMAIN levels'[o.side]
           = IF rest = <<>> THEN DOMAIN levels[o.side] \ {o.price} ELSE DOMAIN levels[o.side]
      /\ \A x \in DOMAIN levels'[o.side] :
           x # o.price => levels'[o.side][x] = levels[o.side][x]
      /\ rest # <<>> => /\ levels'[o.side][o.price].queue = rest
                        /\ levels'[o.side][o.price].total = Wrap(level.total - o.remaining)
  BY RemovedLevels DEF IInv
<1>2. /\ DOMAIN orders' = DOMAIN orders \ {id}
      /\ \A x \in DOMAIN orders' : orders'[x] = orders[x]
  BY RemoveKeepsBook DEF IInv
<1>3. /\ o.side \in Side /\ o.price \in DOMAIN levels[o.side]
      /\ level.queue \in Seq(OrderId) /\ i \in DOMAIN level.queue /\ level.queue[i] = id
      /\ \A j \in DOMAIN level.queue : level.queue[j] = id => j = i
      /\ o.remaining \in Int
  <2>1. o.side \in Side /\ o.remaining \in Int
    BY PositionFacts, BookAssumption DEF IInv, RestingOrder, Quantity
  <2> QED  BY <2>1, PositionFacts DEF IInv
<1>4. CASE s # o.side \/ p # o.price
  <2> HIDE DEF rest
  <2>1. p \in DOMAIN levels[s] /\ levels'[s][p] = levels[s][p]
    BY <1>1, <1>3, <1>4
  <2>2. TotalRight(s, p)
    BY <2>1 DEF LevelTotals, TotalRight
  <2>3. \A x \in DOMAIN orders : orders[x].side = s /\ orders[x].price = p =>
          x \in DOMAIN orders' /\ orders'[x].remaining = orders[x].remaining
    BY <1>2, <1>4
  <2> QED  BY <2>1, <2>2, <2>3, TotalUntouched DEF IInv
<1>5. CASE s = o.side /\ p = o.price
  <2> DEFINE f == OpenQuantity
             g == OpenQuantity'
             ids == ToSet(level.queue)
             left == ToSet(rest)
  <2>1. left = ids \ {id}
    <3>1. /\ \A j \in DOMAIN rest : \E k \in DOMAIN level.queue :
                k # i /\ rest[j] = level.queue[k]
          /\ \A k \in DOMAIN level.queue : k # i =>
                \E j \in DOMAIN rest : rest[j] = level.queue[k]
      <4>0. level.queue \in Seq(OrderId) /\ i \in DOMAIN level.queue
        BY <1>3
      <4> HIDE DEF level, i
      <4>1. \A j \in DOMAIN rest : \E k \in DOMAIN level.queue :
              k # i /\ rest[j] = level.queue[k]
        BY <4>0, RemoveAtElements
      <4>2. \A k \in DOMAIN level.queue : k # i =>
              \E j \in DOMAIN rest : rest[j] = level.queue[k]
        BY <4>0, RemoveAtElements, Zenon
      <4> QED  BY <4>1, <4>2
    <3> HIDE DEF rest, i, level
    <3>2. left \subseteq ids \ {id}
      BY <1>3, <3>1 DEF ToSet
    <3>3. ids \ {id} \subseteq left
      BY <1>3, <3>1 DEF ToSet
    <3> QED  BY <3>2, <3>3
  <2>2. Summable(f, ids) /\ id \in ids /\ SumFunctionOnSet(f, ids) \in Int
        /\ \A x \in ids : x \in DOMAIN orders /\ f[x] = orders[x].remaining
    <3>1. id \in ids
      BY <1>3 DEF ToSet
    <3> QED  BY <1>3, <3>1, LevelSummable DEF IInv
  <2>3. rest # <<>>
    BY <1>1, <1>5
  <2>4. levels'[s][p].queue = rest /\ levels'[s][p].total = Wrap(level.total - o.remaining)
    BY <1>1, <1>5, <2>3
  <2>5. level.total = Wrap(SumFunctionOnSet(f, ids))
    BY <1>3 DEF LevelTotals
  <2> HIDE DEF rest, level, ids, i
  <2>6. \A x \in left : g[x] = f[x]
    BY <1>2, <2>1, <2>2 DEF OpenQuantity
  <2> HIDE DEF f, g, left
  <2>7. /\ SumFunctionOnSet(f, ids) = o.remaining + SumFunctionOnSet(f, left)
        /\ SumFunctionOnSet(f, left) \in Int
    BY <2>1, <2>2, SumRemoves
  <2>8. SumFunctionOnSet(g, left) = SumFunctionOnSet(f, left)
    <3>1. Summable(f, left)
      BY <2>1, <2>2, SubSummable
    <3> QED  BY <2>6, <3>1, SumAgrees
  <2>9. Wrap(level.total - o.remaining) = Wrap(SumFunctionOnSet(f, left))
    <3>1. Wrap(level.total - o.remaining) = Wrap(SumFunctionOnSet(f, ids) - o.remaining)
      BY <1>3, <2>2, <2>5, WrapAdds
    <3>2. SumFunctionOnSet(f, ids) - o.remaining = SumFunctionOnSet(f, left)
      BY <1>3, <2>7
    <3> QED  BY <3>1, <3>2
  <2>10. levels'[s][p].total = Wrap(SumFunctionOnSet(g, ToSet(levels'[s][p].queue)))
    BY <2>4, <2>8, <2>9 DEF left
  <2> QED  BY <2>10 DEF TotalRight, g
<1> QED  BY <1>4, <1>5

(* Lowering an order where it stands takes the difference off.               *)
LEMMA TotalAfterReduction ==
  ASSUME IInv, LevelTotals, NEW id \in DOMAIN orders, NEW less \in Quantity \ {0},
         Reduced(id, less), NEW s \in Side, NEW p \in DOMAIN levels'[s]
  PROVE  TotalRight(s, p)'
<1> DEFINE o == orders[id]
           delta == o.remaining - less
<1>1. /\ o.side \in Side /\ o.price \in DOMAIN levels[o.side]
      /\ o.remaining \in Int /\ less \in Int /\ delta \in Int
  BY PositionFacts, BookAssumption DEF IInv, RestingOrder, Quantity
<1>2. /\ DOMAIN levels'[s] = DOMAIN levels[s]
      /\ levels'[s][p].queue = levels[s][p].queue
      /\ levels'[s][p].total = IF s = o.side /\ p = o.price
                               THEN Wrap(levels[s][p].total - delta)
                               ELSE levels[s][p].total
  <2>1. levels' = Shrink(id, delta)
    BY DEF Reduced
  <2> HIDE DEF delta
  <2>2. DOMAIN levels'[s] = DOMAIN levels[s]
    BY <2>1, ShrinkLevels DEF IInv
  <2>3. p \in DOMAIN levels[s]
    BY <2>2
  <2> QED  BY <2>1, <2>2, <2>3, ShrinkLevels DEF IInv
<1>3. /\ DOMAIN orders' = DOMAIN orders /\ orders'[id].remaining = less
      /\ \A x \in DOMAIN orders : x # id => orders'[x] = orders[x]
  <2>1. orders[id] \in RestingOrder
    BY DEF IInv, Book, BookTyped
  <2> QED  BY <2>1 DEF Reduced, RestingOrder
<1>4. p \in DOMAIN levels[s] /\ TotalRight(s, p)
  BY <1>2 DEF LevelTotals, TotalRight
<1>5. CASE s # o.side \/ p # o.price
  <2>1. levels'[s][p].total = levels[s][p].total
    BY <1>2, <1>5
  <2>2. \A x \in DOMAIN orders : orders[x].side = s /\ orders[x].price = p =>
          x \in DOMAIN orders' /\ orders'[x].remaining = orders[x].remaining
    BY <1>3, <1>5
  <2> QED  BY <1>2, <1>4, <2>1, <2>2, TotalUntouched DEF IInv
<1>6. CASE s = o.side /\ p = o.price
  <2> DEFINE f == OpenQuantity
             g == OpenQuantity'
             ids == ToSet(levels[s][p].queue)
             others == ids \ {id}
             sum == SumFunctionOnSet(f, others)
  <2>1. /\ Summable(f, ids) /\ SumFunctionOnSet(f, ids) \in Int
        /\ \A x \in ids : x \in DOMAIN orders /\ f[x] = orders[x].remaining
    BY <1>4, LevelSummable DEF IInv
  <2>2. id \in ids
    BY <1>6, PositionFacts DEF IInv, ToSet
  <2>3. levels[s][p].total = Wrap(SumFunctionOnSet(f, ids))
    BY <1>4 DEF TotalRight
  <2> HIDE DEF ids
  <2>4. (\A x \in others : g[x] = f[x]) /\ g[id] = less
    BY <1>3, <2>1 DEF OpenQuantity
  <2> HIDE DEF f, g, others
  <2>5. SumFunctionOnSet(f, ids) = o.remaining + sum /\ sum \in Int
    BY <2>1, <2>2, SumRemoves DEF others
  <2>6. Summable(f, others)
    BY <2>1, SubSummable DEF others
  <2>7. Summable(g, others) /\ SumFunctionOnSet(g, others) = sum
    BY <2>4, <2>6, SumAgrees
  <2>8. SumFunctionOnSet(g, ids) = less + sum
    <3>1. ids = others \cup {id} /\ id \notin others
      BY <2>2 DEF others
    <3>2. SumFunctionOnSet(g, others \cup {id}) = g[id] + SumFunctionOnSet(g, others)
      BY <1>1, <2>4, <2>7, <3>1, SumAdds
    <3> QED  BY <2>4, <2>7, <3>1, <3>2
  <2> HIDE DEF sum
  <2>9. Wrap(levels[s][p].total - delta) = Wrap(SumFunctionOnSet(g, ids))
    <3>1. Wrap(levels[s][p].total - delta) = Wrap(SumFunctionOnSet(f, ids) - delta)
      BY <1>1, <2>1, <2>3, WrapAdds
    <3>2. SumFunctionOnSet(f, ids) - delta = SumFunctionOnSet(g, ids)
      BY <1>1, <2>5, <2>8
    <3> QED  BY <3>1, <3>2
  <2> QED  BY <1>2, <1>6, <2>9 DEF TotalRight, g, ids
<1> QED  BY <1>5, <1>6

(* Resting an order adds what is left of it.                                 *)
LEMMA TotalAfterRest ==
  ASSUME IInv, LevelTotals, TakerRests, NEW s \in Side, NEW p \in DOMAIN levels'[s]
  PROVE  TotalRight(s, p)'
<1> DEFINE t == taker
           id == t.order_id
           side == levels[t.side]
           level == IF t.price \in DOMAIN side THEN side[t.price]
                    ELSE [queue |-> <<>>, total |-> 0]
<1>1. /\ t \in OrderRequest /\ id \notin DOMAIN orders /\ Rest(t, remaining)
      /\ remaining \in Quantity \ {0} /\ remaining \in Int /\ id \in OrderId
  BY BookAssumption DEF TakerRests, Quantity, OrderRequest
<1>2. /\ \A z \in Side : z # t.side => levels'[z] = levels[z]
      /\ DOMAIN levels'[t.side] = DOMAIN side \cup {t.price}
      /\ levels'[t.side][t.price].queue = Append(level.queue, id)
      /\ levels'[t.side][t.price].total = Wrap(level.total + remaining)
      /\ \A x \in DOMAIN side : x # t.price => levels'[t.side][x] = side[x]
  BY <1>1, RestLevels DEF IInv
<1>3. /\ DOMAIN orders' = DOMAIN orders \cup {id}
      /\ \A x \in DOMAIN orders : orders'[x] = orders[x]
  BY <1>1, RestKeepsBook DEF IInv
<1>4. orders'[id].remaining = remaining
  <2>1. orders'[id] = [client_id |-> t.client_id, side |-> t.side,
                       price |-> t.price, remaining |-> remaining]
    BY <1>1, RestKeepsBook DEF IInv
  <2> QED  BY <2>1
<1>5. CASE s # t.side \/ p # t.price
  <2> HIDE DEF level
  <2>1. p \in DOMAIN levels[s] /\ levels'[s][p] = levels[s][p]
    BY <1>2, <1>5
  <2>2. TotalRight(s, p)
    BY <2>1 DEF LevelTotals, TotalRight
  <2>3. \A x \in DOMAIN orders : x \in DOMAIN orders' /\ orders'[x] = orders[x]
    BY <1>3
  <2> QED  BY <2>1, <2>2, <2>3, TotalUntouched DEF IInv
<1>6. CASE s = t.side /\ p = t.price
  <2> DEFINE f == OpenQuantity
             g == OpenQuantity'
             q == level.queue
             ids == ToSet(q)
             sum == SumFunctionOnSet(f, ids)
  <2>1. /\ q \in Seq(OrderId) /\ level.total = Wrap(sum)
        /\ Summable(f, ids) /\ sum \in Int
        /\ \A x \in ids : x \in DOMAIN orders
    <3>1. CASE p \in DOMAIN levels[s]
      <4>1. level = levels[s][p]
        BY <1>6, <3>1
      <4>2. /\ Summable(f, ids) /\ sum \in Int /\ \A x \in ids : x \in DOMAIN orders
        BY <3>1, <4>1, LevelSummable DEF IInv
      <4>3. level.total = Wrap(sum)
        BY <3>1, <4>1 DEF LevelTotals
      <4>4. q \in Seq(OrderId)
        BY <3>1, <4>1 DEF IInv, Book, BookTyped
      <4> QED  BY <4>2, <4>3, <4>4
    <3>2. CASE p \notin DOMAIN levels[s]
      <4>1. q = <<>> /\ level.total = 0
        BY <1>6, <3>2
      <4> HIDE DEF level
      <4>2. ids = {}
        BY <4>1 DEF ToSet
      <4>3. Summable(f, ids)
        BY <4>2, FS_EmptySet DEF Summable
      <4>4. sum = 0
        BY <4>2, <4>3, SumPicks
      <4>5. Wrap(0) = 0
        BY BookAssumption DEF Wrap
      <4> QED  BY <4>1, <4>2, <4>3, <4>4, <4>5
    <3> QED  BY <3>1, <3>2
  <2> HIDE DEF level
  <2>2. ToSet(Append(q, id)) = ids \cup {id}
    <3>1. /\ DOMAIN Append(q, id) = 1 .. (Len(q) + 1) /\ DOMAIN q = 1 .. Len(q)
          /\ Append(q, id)[Len(q) + 1] = id /\ Len(q) \in Nat
          /\ \A j \in 1 .. Len(q) : Append(q, id)[j] = q[j]
      BY <1>1, <2>1, AppendFacts
    <3>2. ToSet(Append(q, id)) \subseteq ids \cup {id}
      BY <3>1 DEF ToSet
    <3>3. ids \cup {id} \subseteq ToSet(Append(q, id))
      BY <3>1 DEF ToSet
    <3> QED  BY <3>2, <3>3
  <2>3. id \notin ids
    BY <1>1, <2>1
  <2> HIDE DEF q, ids
  <2>4. (\A x \in ids : g[x] = f[x]) /\ g[id] = remaining
    BY <1>3, <1>4, <2>1 DEF OpenQuantity
  <2> HIDE DEF f, g
  <2>5. Summable(g, ids) /\ SumFunctionOnSet(g, ids) = sum
    BY <2>1, <2>4, SumAgrees
  <2>6. SumFunctionOnSet(g, ids \cup {id}) = remaining + sum
    BY <1>1, <2>3, <2>4, <2>5, SumAdds
  <2> HIDE DEF sum
  <2>7. Wrap(level.total + remaining) = Wrap(SumFunctionOnSet(g, ids \cup {id}))
    <3>1. Wrap(level.total + remaining) = Wrap(sum + remaining)
      BY <1>1, <2>1, WrapAdds
    <3>2. sum + remaining = remaining + sum
      BY <1>1, <2>1
    <3> QED  BY <2>6, <3>1, <3>2
  <2> QED  BY <1>2, <1>6, <2>2, <2>7 DEF TotalRight, g, q
<1> QED  BY <1>5, <1>6

(* Every step leaves every total right.                                      *)
LEMMA TotalSteps ==
  ASSUME IInv, LevelTotals, [Next]_vars
  PROVE  LevelTotals'
<1>1. CASE UNCHANGED <<orders, levels>>
  BY <1>1 DEF LevelTotals, OpenQuantity
<1>2. CASE UNCHANGED vars
  BY <1>1, <1>2 DEF vars
<1>3. CASE Reset
  BY <1>3 DEF Reset, LevelTotals
<1>4. ASSUME \A s \in Side : \A p \in DOMAIN levels'[s] : TotalRight(s, p)'
      PROVE  LevelTotals'
  BY <1>4 DEF LevelTotals, TotalRight
<1>5. CASE \E id \in DOMAIN orders : RemoveWithoutReport(id)
  BY <1>4, <1>5, TotalAfterRemoval
<1>6. CASE \E id \in DOMAIN orders : \E left \in Quantity \ {0} : Reduced(id, left)
  BY <1>4, <1>6, TotalAfterReduction
<1>7. CASE TakerRests
  BY <1>4, <1>7, TotalAfterRest
<1> QED  BY <1>1, <1>2, <1>3, <1>5, <1>6, <1>7, LevelSteps

(* A level's total is always the sum of what its orders are open for, modulo *)
(* 2^32, for any number of orders and levels: fills, cancels, replaces and   *)
(* self-trade cancellations take off exactly what left, rest adds exactly    *)
(* what came.                                                                *)
THEOREM TotalsExact == Spec => []LevelTotals
<1>1. Init => LevelTotals
  BY DEF Init, LevelTotals
<1>2. IInv /\ LevelTotals /\ [Next]_vars => LevelTotals'
  BY TotalSteps
<1> QED  BY <1>1, <1>2, Invariance, PTL DEF Spec

-----------------------------------------------------------------------------
(* Fill or kill.                                                             *)

(* There are finitely many levels, and an accepted FOK order that no policy  *)
(* interferes with still finds on them all it wants.                         *)
LevelsFinite == \A s \in Side : IsFiniteSet(DOMAIN levels[s])

FokCovered ==
  ~Idle /\ taker.type = "FOK" /\ stp_policy = "None" => AvailableToMatch(taker) >= remaining

(* No step makes infinitely many levels.                                     *)
LEMMA LevelsStayFinite ==
  ASSUME IInv, LevelsFinite, [Next]_vars
  PROVE  LevelsFinite'
<1>1. CASE UNCHANGED levels
  BY <1>1 DEF LevelsFinite
<1>2. CASE UNCHANGED vars
  BY <1>1, <1>2 DEF vars
<1>3. CASE Reset
  BY <1>3, FS_EmptySet DEF Reset, LevelsFinite
<1>4. ASSUME NEW id \in DOMAIN orders, RemoveWithoutReport(id)
      PROVE  LevelsFinite'
  <2> DEFINE o == orders[id]
  <2>1. ASSUME NEW s \in Side PROVE DOMAIN levels'[s] \subseteq DOMAIN levels[s]
    <3>1. s # o.side => levels'[s] = levels[s]
      BY <1>4, RemovedLevels DEF IInv
    <3>2. DOMAIN levels'[o.side] \subseteq DOMAIN levels[o.side]
      BY <1>4, RemovedLevels DEF IInv
    <3> QED  BY <3>1, <3>2
  <2> QED  BY <2>1, FS_Subset DEF LevelsFinite
<1>5. ASSUME NEW id \in DOMAIN orders, NEW left, Reduced(id, left)
      PROVE  LevelsFinite'
  BY <1>5, ShrinkLevels DEF IInv, Reduced, LevelsFinite
<1>6. CASE TakerRests
  <2> DEFINE t == taker
  <2>1. /\ \A s \in Side : s # t.side => levels'[s] = levels[s]
        /\ DOMAIN levels'[t.side] = DOMAIN levels[t.side] \cup {t.price}
    BY <1>6, RestLevels DEF IInv, TakerRests
  <2> QED  BY <2>1, FS_AddElement DEF LevelsFinite
<1> QED  BY <1>1, <1>2, <1>3, <1>4, <1>5, <1>6, LevelSteps

(* What available_to_match sums up.                                          *)
LEMMA DepthFacts ==
  ASSUME Book, LevelsFinite, NEW t \in OrderRequest
  PROVE  LET s == Opposite(t.side) IN
         /\ s \in Side
         /\ \A p \in DOMAIN levels[s] : /\ Totals(s)[p] = levels[s][p].total
                                        /\ Totals(s)[p] \in Quantity
         /\ Summable(Totals(s), CrossingLevels(t))
         /\ AvailableToMatch(t) \in Int
         /\ CrossingLevels(t) = {} => AvailableToMatch(t) = 0
<1> DEFINE s == Opposite(t.side)
<1>1. s \in Side
  BY DEF Opposite, Side
<1>2. \A p \in DOMAIN levels[s] : /\ Totals(s)[p] = levels[s][p].total
                                  /\ Totals(s)[p] \in Quantity
  BY <1>1 DEF Totals, Book, BookTyped
<1>3. CrossingLevels(t) \subseteq DOMAIN levels[s] /\ IsFiniteSet(CrossingLevels(t))
  BY <1>1, FS_Subset DEF CrossingLevels, LevelsFinite
<1>4. Summable(Totals(s), CrossingLevels(t))
  BY <1>2, <1>3, BookAssumption DEF Summable, Quantity
<1>5. AvailableToMatch(t) = SumFunctionOnSet(Totals(s), CrossingLevels(t))
  BY DEF AvailableToMatch
<1> HIDE DEF s
<1>6. /\ AvailableToMatch(t) \in Int
      /\ CrossingLevels(t) = {} => AvailableToMatch(t) = 0
  BY <1>4, <1>5, SumPicks
<1> QED  BY <1>1, <1>2, <1>4, <1>6 DEF s

(* A total that wraps below zero only grows.                                 *)
LEMMA WrapNoLess ==
  ASSUME NEW n \in Int, n < QuantityModulus
  PROVE  Wrap(n) >= n /\ (n >= 0 => Wrap(n) = n)
<1>1. QuantityModulus \in Nat \ {0}
  BY BookAssumption
<1>2. CASE n >= 0
  <2>1. n = QuantityModulus * 0 + n
    BY <1>1
  <2>2. n % QuantityModulus = n
    BY <1>1, <1>2, <2>1, RemainderUnique
  <2> QED  BY <2>2 DEF Wrap
<1>3. CASE ~(n >= 0)
  <2>1. Wrap(n) \in Quantity
    BY WrapType
  <2> QED  BY <1>1, <1>3, <2>1 DEF Quantity
<1> QED  BY <1>2, <1>3

(* The order met stands on a level that crosses.                             *)
LEMMA MakerCrosses ==
  ASSUME IInv, NEW id \in DOMAIN orders, Meets(id)
  PROVE  /\ taker \in OrderRequest
         /\ orders[id].side = Opposite(taker.side)
         /\ orders[id].price \in CrossingLevels(taker)
<1> DEFINE s == Opposite(taker.side)
<1>1. PICK p \in CrossingLevels(taker) : id = Head(levels[s][p].queue)
  BY DEF Meets, IsMaker
<1>2. s \in Side /\ p \in DOMAIN levels[s]
      /\ levels[s][p].queue \in Seq(OrderId) /\ levels[s][p].queue # <<>>
  BY <1>1 DEF Opposite, Side, CrossingLevels, IInv, Book, BookTyped, IndexConsistent
<1> DEFINE q == levels[s][p].queue
<1>3. 1 \in DOMAIN q /\ q[1] = id
  BY <1>1, <1>2
<1>4. orders[id].side = s /\ orders[id].price = p
  BY <1>2, <1>3 DEF IInv, Book, IndexConsistent
<1> QED  BY <1>1, <1>4, TakerTyped DEF Meets, IInv

(* An order alone on its level is the level's total.                         *)
LEMMA LastOnLevel ==
  ASSUME IInv, LevelTotals, NEW id \in DOMAIN orders
  PROVE  LET o == orders[id]
             level == levels[o.side][o.price]
         IN RemoveAt(level.queue, PositionOf(id, level.queue)) = <<>>
              => level.total = o.remaining
<1> DEFINE o == orders[id]
           level == levels[o.side][o.price]
           q == level.queue
           i == PositionOf(id, q)
<1> SUFFICES ASSUME RemoveAt(q, i) = <<>> PROVE level.total = o.remaining
  OBVIOUS
<1>1. /\ o \in RestingOrder /\ o.price \in DOMAIN levels[o.side] /\ q \in Seq(OrderId)
      /\ i \in DOMAIN q /\ q[i] = id
  BY PositionFacts DEF IInv
<1>2. o.side \in Side /\ o.remaining \in Quantity
  BY <1>1 DEF RestingOrder
<1>3. level.total = Wrap(SumFunctionOnSet(OpenQuantity, ToSet(q)))
  BY <1>1, <1>2 DEF LevelTotals
<1>4. /\ Summable(OpenQuantity, ToSet(q))
      /\ \A x \in ToSet(q) : OpenQuantity[x] = orders[x].remaining
  BY <1>1, <1>2, LevelSummable DEF IInv
<1> HIDE DEF q, i
<1>5. Len(q) = 1
  <2>1. Len(RemoveAt(q, i)) = Len(q) - 1
    BY <1>1, RemoveAtFacts
  <2>2. Len(RemoveAt(q, i)) = 0 /\ Len(q) \in Nat
    BY <1>1
  <2> QED  BY <2>1, <2>2
<1>6. ToSet(q) = {id}
  BY <1>1, <1>5 DEF ToSet
<1> DEFINE f == OpenQuantity
<1>7. SumFunctionOnSet(f, {id}) = o.remaining
  <2>1. Summable(f, {id}) /\ f[id] = o.remaining /\ Summable(f, {})
    BY <1>4, <1>6, FS_EmptySet DEF Summable
  <2> HIDE DEF f
  <2>2. SumFunctionOnSet(f, {id}) = f[id] + SumFunctionOnSet(f, {id} \ {id})
    BY <2>1, SumRemoves
  <2>3. {id} \ {id} = {} /\ SumFunctionOnSet(f, {}) = 0
    BY <2>1, SumPicks
  <2>4. o.remaining \in Int
    BY <1>2, BookAssumption DEF Quantity
  <2>5. SumFunctionOnSet(f, {id} \ {id}) = 0
    BY <2>3
  <2> QED  BY <2>1, <2>2, <2>4, <2>5
<1>8. Wrap(o.remaining) = o.remaining
  BY <1>2, WrapNoLess, BookAssumption DEF Quantity
<1> QED  BY <1>3, <1>6, <1>7, <1>8

(* A fill takes off the depth no more than it takes off the order.           *)
LEMMA DepthAfterFill ==
  ASSUME IInv, LevelTotals, LevelsFinite, LevelsFinite', Book',
         NEW id \in DOMAIN orders, FillMaker(id), AvailableToMatch(taker) >= remaining
  PROVE  AvailableToMatch(taker)' >= remaining'
<1> DEFINE o == orders[id]
           s == Opposite(taker.side)
           p == o.price
           level == levels[o.side][o.price]
           rest == RemoveAt(level.queue, PositionOf(id, level.queue))
           f == Totals(s)
           g == Totals(s)'
           C == CrossingLevels(taker)
           D == CrossingLevels(taker)'
           others == C \ {p}
<1>1. /\ Meets(id) /\ RemoveWithoutReport(id) /\ taker' = taker
      /\ remaining' = remaining - o.remaining
  BY DEF FillMaker
<1>2. taker \in OrderRequest /\ o.side = s /\ p \in C
  BY <1>1, MakerCrosses
<1>3. /\ s \in Side /\ Summable(f, C)
      /\ \A x \in DOMAIN levels[s] : f[x] = levels[s][x].total /\ f[x] \in Quantity
      /\ AvailableToMatch(taker) = SumFunctionOnSet(f, C)
      /\ C \subseteq DOMAIN levels[s]
  BY <1>2, DepthFacts DEF IInv, AvailableToMatch, CrossingLevels
<1>4. /\ DOMAIN levels'[s] = IF rest = <<>> THEN DOMAIN levels[s] \ {p} ELSE DOMAIN levels[s]
      /\ \A x \in DOMAIN levels'[s] : x # p => levels'[s][x] = levels[s][x]
      /\ rest # <<>> => levels'[s][p].total = Wrap(level.total - o.remaining)
  BY <1>1, <1>2, RemovedLevels DEF IInv
<1>5. o.remaining \in Quantity /\ remaining \in Quantity
  BY DEF IInv, Book, BookTyped, RestingOrder, CallTyped
<1>6. rest = <<>> => f[p] = o.remaining
  BY <1>2, <1>3, LastOnLevel
<1>7. f[p] = level.total /\ f[p] \in Quantity
  BY <1>2, <1>3
<1>8. D = {x \in DOMAIN levels'[s] : Crosses(taker, x)}
      /\ C = {x \in DOMAIN levels[s] : Crosses(taker, x)}
  BY <1>1 DEF CrossingLevels, Crosses
<1>9. AvailableToMatch(taker)' = SumFunctionOnSet(g, D)
  BY <1>1 DEF AvailableToMatch, Totals
<1>10. \A x \in DOMAIN levels'[s] : g[x] = levels'[s][x].total
  BY <1>1 DEF Totals
<1> HIDE DEF rest, level, f, g, C, D, s
<1>11. \A x \in others : g[x] = f[x]
  BY <1>3, <1>4, <1>10
<1> HIDE DEF others
<1>12. /\ SumFunctionOnSet(f, C) = f[p] + SumFunctionOnSet(f, others)
       /\ SumFunctionOnSet(f, others) \in Int
  BY <1>2, <1>3, SumRemoves DEF others
<1>13. Summable(g, others) /\ SumFunctionOnSet(g, others) = SumFunctionOnSet(f, others)
  <2>1. Summable(f, others)
    BY <1>3, SubSummable DEF others
  <2> QED  BY <1>11, <2>1, SumAgrees
<1>14. /\ f[p] \in Int /\ f[p] < QuantityModulus /\ o.remaining \in Nat /\ remaining \in Int
  BY <1>5, <1>7, BookAssumption DEF Quantity
<1>15. CASE rest = <<>>
  <2>1. D = others
    BY <1>4, <1>8, <1>15 DEF others
  <2> QED  BY <1>1, <1>3, <1>6, <1>9, <1>12, <1>13, <1>14, <1>15, <2>1
<1>16. CASE rest # <<>>
  <2>1. D = others \cup {p} /\ p \notin others
    BY <1>2, <1>4, <1>8, <1>16 DEF others
  <2>2. g[p] = Wrap(f[p] - o.remaining)
    BY <1>2, <1>3, <1>4, <1>7, <1>10, <1>16
  <2>3. f[p] - o.remaining \in Int /\ f[p] - o.remaining < QuantityModulus
    BY <1>14, BookAssumption
  <2>4. g[p] \in Int /\ g[p] >= f[p] - o.remaining
    BY <2>2, <2>3, WrapNoLess, WrapType, BookAssumption DEF Quantity
  <2>5. SumFunctionOnSet(g, D) = g[p] + SumFunctionOnSet(g, others)
    BY <1>13, <2>1, <2>4, SumAdds
  <2> QED  BY <1>1, <1>3, <1>9, <1>12, <1>13, <1>14, <2>4, <2>5
<1> QED  BY <1>15, <1>16

(* A partial fill ends the taker, so any depth will do.                      *)
LEMMA DepthAfterReduction ==
  ASSUME IInv, LevelsFinite', Book', NEW id \in DOMAIN orders, ReduceMaker(id)
  PROVE  AvailableToMatch(taker)' >= remaining'
<1> DEFINE s == Opposite(taker.side)
           g == Totals(s)'
           D == CrossingLevels(taker)'
<1>1. taker' = taker /\ remaining' = 0 /\ s \in Side
  BY DEF ReduceMaker, Opposite, Side
<1>2. AvailableToMatch(taker)' = SumFunctionOnSet(g, D) /\ D \subseteq DOMAIN levels'[s]
  BY <1>1 DEF AvailableToMatch, Totals, CrossingLevels
<1>3. \A x \in DOMAIN levels'[s] : g[x] \in Nat
  BY <1>1, BookAssumption DEF Totals, Book, BookTyped, Quantity
<1>4. IsFiniteSet(D)
  BY <1>1, <1>2, FS_Subset DEF LevelsFinite
<1> HIDE DEF g, D, s
<1>5. SumFunctionOnSet(g, D) \in Nat
  BY <1>2, <1>3, <1>4, SumNatural
<1> QED  BY <1>1, <1>2, <1>5

(* The loop keeps enough depth for an accepted FOK order.                    *)
LEMMA FokSteps ==
  ASSUME IInv, LevelTotals, LevelsFinite, FokCovered, Next
  PROVE  FokCovered'
<1>1. Book' /\ LevelsFinite'
  BY BookSteps, LevelsStayFinite
<1>2. ASSUME Idle, UNCHANGED taker PROVE FokCovered'
  BY <1>2 DEF FokCovered, Idle
<1>3. ASSUME EndCall PROVE FokCovered'
  BY <1>3 DEF FokCovered, EndCall, Idle
<1>4. ASSUME NEW r \in Requests, RejectSubmit(r) PROVE FokCovered'
  BY <1>2, <1>4 DEF RejectSubmit, Reject
<1>5. ASSUME NEW r \in Requests, AcceptSubmit(r) PROVE FokCovered'
  <2>1. taker' = r /\ remaining' = r.quantity /\ levels' = levels
    BY <1>5 DEF AcceptSubmit, StartMatch
  <2>2. AvailableToMatch(taker)' = AvailableToMatch(r)
    BY <2>1 DEF AvailableToMatch, CrossingLevels, Crosses, Totals
  <2>3. r.type = "FOK" => ~(AvailableToMatch(r) < r.quantity)
    BY <1>5 DEF AcceptSubmit, SubmitRejection
  <2>4. r \in OrderRequest
    BY BookAssumption
  <2>5. AvailableToMatch(r) \in Int /\ r.quantity \in Int
    BY <2>4, DepthFacts, BookAssumption DEF IInv, OrderRequest, Quantity
  <2> HIDE DEF FokCovered
  <2>6. r.type = "FOK" => AvailableToMatch(r) >= r.quantity
    BY <2>3, <2>5
  <2> QED  BY <2>1, <2>2, <2>6 DEF FokCovered
<1>6. ASSUME NEW r \in Cancels, Cancel(r) PROVE FokCovered'
  BY <1>2, <1>6 DEF Cancel, RejectUnknown, RejectForeign, Reject
<1>7. ASSUME NEW r \in Replaces, Replace(r) PROVE FokCovered'
  <2>1. CASE Owns(r) /\ Resubmit(r)
    BY <2>1 DEF Resubmit, StartMatch, FokCovered
  <2>2. CASE ~(Owns(r) /\ Resubmit(r))
    BY <1>2, <1>7, <2>2 DEF Replace, RejectUnknown, RejectForeign, Reject, ReduceInPlace
  <2> QED  BY <2>1, <2>2
<1>8. ASSUME NEW p \in Policies, SetStpPolicy(p) PROVE FokCovered'
  BY <1>2, <1>8 DEF SetStpPolicy
<1>9. CASE Reset
  BY <1>2, <1>9 DEF Reset
<1>10. ASSUME NEW id \in DOMAIN orders, PreventNewest(id) \/ PreventBoth(id)
       PROVE  FokCovered'
  BY <1>3, <1>10 DEF PreventNewest, PreventBoth
<1>11. ASSUME NEW id \in DOMAIN orders, PreventOldest(id) PROVE FokCovered'
  BY <1>11 DEF PreventOldest, SelfTrade, FokCovered
<1>12. ASSUME NEW id \in DOMAIN orders, FillMaker(id) PROVE FokCovered'
  <2>1. ~Idle /\ taker' = taker /\ stp_policy' = stp_policy
    BY <1>12 DEF FillMaker, Meets
  <2>2. AvailableToMatch(taker) >= remaining => AvailableToMatch(taker)' >= remaining'
    BY <1>1, <1>12, DepthAfterFill
  <2> QED  BY <2>1, <2>2 DEF FokCovered
<1>13. ASSUME NEW id \in DOMAIN orders, ReduceMaker(id) PROVE FokCovered'
  BY <1>1, <1>13, DepthAfterReduction DEF FokCovered
<1>14. CASE FinishFilled \/ FinishRest \/ FinishExpire
  BY <1>3, <1>14 DEF FinishFilled, FinishRest, FinishExpire
<1> QED  BY <1>4, <1>5, <1>6, <1>7, <1>8, <1>9, <1>10, <1>11, <1>12, <1>13, <1>14
         DEF Next, Call, MatchStep

(* A FOK order that is covered does not end before it is filled.             *)
LEMMA FokEnds ==
  ASSUME IInv, LevelsFinite, FokCovered, Next, ~Idle, taker' = NoTaker,
         taker.type = "FOK", stp_policy = "None"
  PROVE  EndsFilled(out')
<1>1. MatchStep
  BY DEF Next, Call, RejectSubmit, AcceptSubmit, Cancel, Replace, SetStpPolicy, Reset
<1>2. taker \in OrderRequest /\ taker # NoTaker
  BY TakerTyped DEF IInv, Idle
<1>3. ~FinishExpire
  <2> SUFFICES ASSUME FinishExpire PROVE FALSE
    OBVIOUS
  <2>1. remaining > 0 /\ CrossingLevels(taker) = {} /\ remaining \in Int
    BY BookAssumption DEF FinishExpire, LoopEnds, IInv, CallTyped, Quantity
  <2>2. AvailableToMatch(taker) = 0
    BY <1>2, <2>1, DepthFacts DEF IInv
  <2> QED  BY <2>1, <2>2 DEF FokCovered
<1>4. ~FinishRest
  BY DEF FinishRest
<1>5. \A id \in DOMAIN orders : /\ ~PreventNewest(id) /\ ~PreventOldest(id) /\ ~PreventBoth(id)
                                /\ ~FillMaker(id) /\ ~ReduceMaker(id)
  BY <1>2 DEF PreventNewest, PreventOldest, PreventBoth, FillMaker, ReduceMaker
<1>6. FinishFilled
  BY <1>1, <1>3, <1>4, <1>5 DEF MatchStep
<1>7. out' = <<Report(taker.order_id, "Filled", 0, "None")>>
  BY <1>6 DEF FinishFilled, Emit
<1> QED  BY <1>7 DEF EndsFilled, Report

(* Fill or kill, for every book without self-trade prevention: what          *)
(* available_to_match promised before the first trade is still there at      *)
(* every iteration, totals that wrapped around included, so the call ends    *)
(* with the order filled.                                                    *)
THEOREM FokFills == Spec => FillOrKill
<1> DEFINE J == IInv /\ LevelTotals /\ LevelsFinite /\ FokCovered
<1>1. Init => J
  <2>1. Init => LevelTotals /\ LevelsFinite /\ FokCovered
    BY FS_EmptySet DEF Init, LevelTotals, LevelsFinite, FokCovered, Idle
  <2> QED  BY <2>1, InitIInv
<1>2. J /\ [Next]_vars => J'
  <2> SUFFICES ASSUME J, [Next]_vars PROVE J'
    OBVIOUS
  <2>1. FokCovered'
    <3>1. CASE Next
      BY <3>1, FokSteps
    <3>2. CASE UNCHANGED vars
      BY <3>2 DEF vars, FokCovered, Idle, AvailableToMatch, CrossingLevels, Crosses, Totals
    <3> QED  BY <3>1, <3>2
  <2> QED  BY <2>1, NextIInv, TotalSteps, LevelsStayFinite
<1>3. J /\ [Next]_vars =>
        [~Idle /\ taker'= NoTaker /\ taker.type = "FOK" /\ stp_policy = "None"
           => EndsFilled(out')]_vars
  BY FokEnds
<1> QED  BY <1>1, <1>2, <1>3, PTL DEF Spec, FillOrKill

=============================================================================
