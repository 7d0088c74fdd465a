-------------------------- MODULE OrderNodesProofs ---------------------------
(***************************************************************************)
(* A pool of any capacity keeps its lists and its free list intact, and    *)
(* implements the queues of module LevelQueues: proofs of the invariants   *)
(* and of the refinement of module OrderNodes.                             *)
(***************************************************************************)
EXTENDS OrderNodes, SequenceLemmas, FiniteSetTheorems, TLAPS

-----------------------------------------------------------------------------
(* The inductive invariant: the lists stand for the queues and the slots   *)
(* are shared out, and besides no id is twice in a queue and every indexed *)
(* id is in one.                                                           *)

(* What Represents says of one level.                                      *)
Stands(k, q, ns, ids, level) ==
  /\ Len(q) > 0
  /\ \A i \in 1 .. Len(q) :
       /\ q[i] \in DOMAIN ids
       /\ ns[ids[q[i]]].id = q[i]
       /\ ns[ids[q[i]]].level = k
       /\ ns[ids[q[i]]].prev = IF i = 1 THEN Nil ELSE ids[q[i - 1]]
       /\ ns[ids[q[i]]].next = IF i = Len(q) THEN Nil ELSE ids[q[i + 1]]
  /\ level.head = ids[q[1]]
  /\ level.tail = ids[q[Len(q)]]
  /\ level.order_count = Len(q)

Once(q) == \A i, j \in DOMAIN q : q[i] = q[j] => i = j

Covered == \A id \in DOMAIN by_id : \E k \in DOMAIN queue : \E i \in DOMAIN queue[k] :
             queue[k][i] = id

Queued ==
  /\ queue = [k \in DOMAIN queue |-> queue[k]]
  /\ \A k \in DOMAIN queue : Once(queue[k])
  /\ Covered

IInv == TypeOK /\ Represents /\ PoolPartitioned /\ Queued

LEMMA RepresentsStands ==
  Represents <=> /\ DOMAIN levels = DOMAIN queue
                 /\ \A k \in DOMAIN queue : Stands(k, queue[k], nodes, by_id, levels[k])
  BY DEF Represents, Stands

(* A level stays what it was when its nodes and index entries do.          *)
LEMMA StandsKept ==
  ASSUME NEW k, NEW q \in Seq(OrderId), NEW ns, NEW ms, NEW ids, NEW jds, NEW level,
         Stands(k, q, ns, ids, level),
         \A i \in 1 .. Len(q) : /\ q[i] \in DOMAIN jds /\ jds[q[i]] = ids[q[i]]
                                /\ ms[ids[q[i]]] = ns[ids[q[i]]]
  PROVE  Stands(k, q, ms, jds, level)
<1> DEFINE n == Len(q)
<1>1. n \in Nat /\ n > 0
  BY DEF Stands
<1>2. \A i \in 1 .. n : (i # 1 => i - 1 \in 1 .. n) /\ (i # n => i + 1 \in 1 .. n)
  BY <1>1
<1>3. 1 \in 1 .. n /\ n \in 1 .. n
  BY <1>1
<1>4. ASSUME NEW i \in 1 .. n
      PROVE  /\ q[i] \in DOMAIN jds
             /\ ms[jds[q[i]]].id = q[i]
             /\ ms[jds[q[i]]].level = k
             /\ ms[jds[q[i]]].prev = IF i = 1 THEN Nil ELSE jds[q[i - 1]]
             /\ ms[jds[q[i]]].next = IF i = n THEN Nil ELSE jds[q[i + 1]]
  <2>1. jds[q[i]] = ids[q[i]] /\ ms[ids[q[i]]] = ns[ids[q[i]]] /\ q[i] \in DOMAIN jds
    OBVIOUS
  <2>2. i # 1 => jds[q[i - 1]] = ids[q[i - 1]]
    BY <1>2
  <2>3. i # n => jds[q[i + 1]] = ids[q[i + 1]]
    BY <1>2
  <2> QED  BY <2>1, <2>2, <2>3 DEF Stands
<1>5. level.head = jds[q[1]] /\ level.tail = jds[q[n]] /\ level.order_count = n
  BY <1>3 DEF Stands
<1> QED  BY <1>1, <1>4, <1>5 DEF Stands

-----------------------------------------------------------------------------
(* Links.                                                                  *)

NextLinked(ns, slot, target, ms) ==
  /\ ms \in [Slot -> Node]
  /\ \A s \in Slot :
       /\ ms[s].id = ns[s].id /\ ms[s].level = ns[s].level
       /\ ms[s].prev = ns[s].prev
       /\ ms[s].next = IF s = slot THEN target ELSE ns[s].next
       /\ s # slot => ms[s] = ns[s]

LEMMA LinkNextFacts ==
  ASSUME NEW ns \in [Slot -> Node], NEW slot \in Slot \cup {Nil},
         NEW target \in Slot \cup {Nil}
  PROVE  NextLinked(ns, slot, target, LinkNext(ns, slot, target))
<1>1. CASE slot = Nil
  BY <1>1, NodesAssumption DEF LinkNext, NextLinked
<1>2. CASE slot # Nil
  <2> DEFINE new == [ns[slot] EXCEPT !.next = target]
  <2>1. /\ new \in Node /\ new.id = ns[slot].id /\ new.level = ns[slot].level
        /\ new.prev = ns[slot].prev /\ new.next = target
    BY <1>2 DEF Node
  <2>2. LinkNext(ns, slot, target) = [ns EXCEPT ![slot] = new]
    BY <1>2 DEF LinkNext
  <2> HIDE DEF new
  <2> QED  BY <1>2, <2>1, <2>2 DEF NextLinked
<1> QED  BY <1>1, <1>2

PrevLinked(ns, slot, target, ms) ==
  /\ ms \in [Slot -> Node]
  /\ \A s \in Slot :
       /\ ms[s].id = ns[s].id /\ ms[s].level = ns[s].level
       /\ ms[s].next = ns[s].next
       /\ ms[s].prev = IF s = slot THEN target ELSE ns[s].prev
       /\ s # slot => ms[s] = ns[s]

LEMMA LinkPrevFacts ==
  ASSUME NEW ns \in [Slot -> Node], NEW slot \in Slot \cup {Nil},
         NEW target \in Slot \cup {Nil}
  PROVE  PrevLinked(ns, slot, target, LinkPrev(ns, slot, target))
<1>1. CASE slot = Nil
  BY <1>1, NodesAssumption DEF LinkPrev, PrevLinked
<1>2. CASE slot # Nil
  <2> DEFINE new == [ns[slot] EXCEPT !.prev = target]
  <2>1. /\ new \in Node /\ new.id = ns[slot].id /\ new.level = ns[slot].level
        /\ new.next = ns[slot].next /\ new.prev = target
    BY <1>2 DEF Node
  <2>2. LinkPrev(ns, slot, target) = [ns EXCEPT ![slot] = new]
    BY <1>2 DEF LinkPrev
  <2> HIDE DEF new
  <2> QED  BY <1>2, <2>1, <2>2 DEF PrevLinked
<1> QED  BY <1>1, <1>2

-----------------------------------------------------------------------------
(* The pool.                                                               *)

(* The slots of the free list and of the index.                            *)
LEMMA PoolFacts ==
  ASSUME TypeOK, PoolPartitioned
  PROVE  /\ \A i, j \in DOMAIN free_list : free_list[i] = free_list[j] => i = j
         /\ \A a, b \in DOMAIN by_id : by_id[a] = by_id[b] => a = b
         /\ \A i \in DOMAIN free_list : \A a \in DOMAIN by_id : free_list[i] # by_id[a]
         /\ \A s \in Slot : \/ \E i \in DOMAIN free_list : free_list[i] = s
                            \/ \E a \in DOMAIN by_id : by_id[a] = s
         /\ IsFiniteSet(DOMAIN by_id) /\ Cardinality(DOMAIN by_id) \in Nat
         /\ active_count = Cardinality(DOMAIN by_id)
<1>1. IsFiniteSet(Slot)
  BY FS_Interval, NodesAssumption DEF Slot
<1> DEFINE f == [x \in DOMAIN by_id |-> by_id[x]]
<1>2. f \in Injection(DOMAIN by_id, Slot)
  <2>1. f \in [DOMAIN by_id -> Slot]
    BY DEF TypeOK
  <2>2. \A a, b \in DOMAIN by_id : f[a] = f[b] => a = b
    BY DEF PoolPartitioned
  <2> HIDE DEF f
  <2> QED  BY <2>1, <2>2, Zenon DEF Injection, IsInjective
<1>3. IsFiniteSet(DOMAIN by_id)
  BY <1>1, <1>2, FS_Injection
<1>4. Cardinality(DOMAIN by_id) \in Nat
  BY <1>3, FS_CardinalityType
<1> QED  BY <1>3, <1>4 DEF PoolPartitioned, ToSet

LEMMA PoolIs ==
  ASSUME TypeOK',
         /\ \A i, j \in DOMAIN free_list' : free_list'[i] = free_list'[j] => i = j
         /\ \A a, b \in DOMAIN by_id' : by_id'[a] = by_id'[b] => a = b
         /\ \A i \in DOMAIN free_list' : \A a \in DOMAIN by_id' : free_list'[i] # by_id'[a]
         /\ \A s \in Slot : \/ \E i \in DOMAIN free_list' : free_list'[i] = s
                            \/ \E a \in DOMAIN by_id' : by_id'[a] = s
         /\ active_count' = Cardinality(DOMAIN by_id')
  PROVE  PoolPartitioned'
<1>1. \A i \in DOMAIN free_list' : free_list'[i] \in Slot
  BY DEF TypeOK
<1>2. \A a \in DOMAIN by_id' : by_id'[a] \in Slot
  BY DEF TypeOK
<1>3. Slot = ToSet(free_list') \cup {by_id'[id] : id \in DOMAIN by_id'}
  BY <1>1, <1>2 DEF ToSet
<1>4. ToSet(free_list') \cap {by_id'[id] : id \in DOMAIN by_id'} = {}
  BY DEF ToSet
<1> QED  BY <1>3, <1>4 DEF PoolPartitioned

(* What is known of the place of an order in its level.                    *)
LEMMA PlaceFacts ==
  ASSUME IInv, NEW k \in DOMAIN queue
  PROVE  /\ k \in LevelKey /\ k \in DOMAIN levels
         /\ queue[k] \in Seq(OrderId) /\ Len(queue[k]) \in Nat \ {0}
         /\ DOMAIN queue[k] = 1 .. Len(queue[k])
         /\ Stands(k, queue[k], nodes, by_id, levels[k]) /\ Once(queue[k])
         /\ \A i \in 1 .. Len(queue[k]) :
              /\ queue[k][i] \in DOMAIN by_id /\ by_id[queue[k][i]] \in Slot
              /\ nodes[by_id[queue[k][i]]].level = k
         /\ \A i, j \in 1 .. Len(queue[k]) :
              by_id[queue[k][i]] = by_id[queue[k][j]] => i = j
<1>1. k \in LevelKey /\ queue[k] \in Seq(OrderId)
  BY DEF IInv, TypeOK
<1>2. Stands(k, queue[k], nodes, by_id, levels[k]) /\ k \in DOMAIN levels
  BY RepresentsStands DEF IInv
<1>3. Once(queue[k])
  BY DEF IInv, Queued
<1>4. Len(queue[k]) \in Nat \ {0} /\ DOMAIN queue[k] = 1 .. Len(queue[k])
  BY <1>1, <1>2 DEF Stands
<1>5. \A i \in 1 .. Len(queue[k]) : /\ queue[k][i] \in DOMAIN by_id
                                    /\ nodes[by_id[queue[k][i]]].level = k
  BY <1>2 DEF Stands
<1>6. \A id \in DOMAIN by_id : by_id[id] \in Slot
  BY DEF IInv, TypeOK
<1>7. \A i, j \in 1 .. Len(queue[k]) : by_id[queue[k][i]] = by_id[queue[k][j]] => i = j
  BY <1>3, <1>4, <1>5, PoolFacts DEF IInv, Once
<1> QED  BY <1>1, <1>2, <1>3, <1>4, <1>5, <1>6, <1>7

LEMMA RestStep ==
  ASSUME IInv, NEW id \in OrderId, NEW k \in LevelKey, Rest(id, k)
  PROVE  IInv'
<1> DEFINE idx == Last(free_list)
           level == IF k \in DOMAIN levels THEN levels[k] ELSE EmptyLevel
           tail == level.tail
           q == QueueOf(k)
           n == Len(q)
           node == [id |-> id, level |-> k, prev |-> tail, next |-> Nil]
           placed == [nodes EXCEPT ![idx] = node]
           longer == [head |-> IF tail = Nil THEN idx ELSE level.head,
                      tail |-> idx, order_count |-> level.order_count + 1]
<1>1. /\ id \notin DOMAIN by_id /\ free_list # <<>>
      /\ free_list' = Front(free_list) /\ nodes' = LinkNext(placed, tail, idx)
      /\ levels' = Put(levels, k, longer) /\ by_id' = Put(by_id, id, idx)
      /\ active_count' = active_count + 1 /\ queue' = Put(queue, k, Append(q, id))
  BY DEF Rest
<1>2. /\ idx \in Slot /\ Len(free_list) \in Nat \ {0} /\ idx = free_list[Len(free_list)]
      /\ Front(free_list) \in Seq(Slot) /\ Len(Front(free_list)) = Len(free_list) - 1
      /\ \A i \in 1 .. (Len(free_list) - 1) : Front(free_list)[i] = free_list[i]
      /\ DOMAIN free_list = 1 .. Len(free_list)
      /\ DOMAIN Front(free_list) = 1 .. (Len(free_list) - 1)
  <2>1. free_list \in Seq(Slot)
    BY DEF IInv, TypeOK
  <2>2. Front(free_list) \in Seq(Slot) /\ Len(Front(free_list)) = Len(free_list) - 1
    BY <1>1, <2>1, FrontFacts
  <2> QED  BY <1>1, <2>1, <2>2, FrontFacts
<1> HIDE DEF idx
<1>3. \A a \in DOMAIN by_id : by_id[a] # idx
  BY <1>2, PoolFacts DEF IInv
<1>4. /\ q \in Seq(OrderId) /\ n \in Nat /\ DOMAIN q = 1 .. n /\ Once(q)
      /\ n = 0 => tail = Nil /\ level.order_count = 0
      /\ n # 0 => /\ k \in DOMAIN queue /\ q = queue[k] /\ level = levels[k]
                  /\ tail = by_id[q[n]] /\ tail \in Slot
                  /\ level.head = by_id[q[1]] /\ level.order_count = n
                  /\ Stands(k, q, nodes, by_id, level)
      /\ tail \in Slot \cup {Nil}
      /\ \A i \in 1 .. n : q[i] \in DOMAIN by_id /\ by_id[q[i]] \in Slot
      /\ \A i, j \in 1 .. n : by_id[q[i]] = by_id[q[j]] => i = j
  <2>1. DOMAIN levels = DOMAIN queue
    BY DEF IInv, Represents
  <2>2. CASE k \notin DOMAIN queue
    <3>1. q = <<>> /\ level = EmptyLevel
      BY <2>1, <2>2 DEF QueueOf
    <3> QED  BY <3>1 DEF EmptyLevel, Once
  <2>3. CASE k \in DOMAIN queue
    <3>1. q = queue[k] /\ level = levels[k]
      BY <2>1, <2>3 DEF QueueOf
    <3> HIDE DEF q, level
    <3>2. /\ q \in Seq(OrderId) /\ n \in Nat \ {0} /\ DOMAIN q = 1 .. n /\ Once(q)
          /\ Stands(k, q, nodes, by_id, level)
      BY <2>3, <3>1, PlaceFacts
    <3>3. /\ \A i \in 1 .. n : q[i] \in DOMAIN by_id /\ by_id[q[i]] \in Slot
          /\ \A i, j \in 1 .. n : by_id[q[i]] = by_id[q[j]] => i = j
      BY <2>3, <3>1, PlaceFacts
    <3>4. level.tail = by_id[q[n]] /\ level.head = by_id[q[1]] /\ level.order_count = n
      BY <3>2 DEF Stands
    <3>5. by_id[q[n]] \in Slot
      BY <3>2, <3>3
    <3> QED  BY <2>3, <3>1, <3>2, <3>3, <3>4, <3>5
  <2> QED  BY <2>2, <2>3
<1> HIDE DEF q, level, n, tail
<1>5. placed \in [Slot -> Node] /\ \A s \in Slot : placed[s] = IF s = idx THEN node ELSE nodes[s]
  <2>1. node \in Node /\ nodes \in [Slot -> Node]
    BY <1>4 DEF Node, IInv, TypeOK
  <2> HIDE DEF node
  <2> QED  BY <1>2, <2>1
<1> HIDE DEF placed
<1>6. /\ nodes' \in [Slot -> Node]
      /\ \A s \in Slot :
           /\ nodes'[s].id = placed[s].id /\ nodes'[s].level = placed[s].level
           /\ nodes'[s].prev = placed[s].prev
           /\ nodes'[s].next = IF s = tail THEN idx ELSE placed[s].next
           /\ s # tail => nodes'[s] = placed[s]
  <2>1. placed \in [Slot -> Node] /\ tail \in Slot \cup {Nil} /\ idx \in Slot \cup {Nil}
    BY <1>2, <1>4, <1>5
  <2>2. NextLinked(placed, tail, idx, nodes')
    BY <1>1, <2>1, LinkNextFacts
  <2> QED  BY <2>2 DEF NextLinked
<1>7. tail # idx
  BY <1>2, <1>3, <1>4, NodesAssumption
<1>8. /\ DOMAIN by_id' = DOMAIN by_id \cup {id} /\ by_id'[id] = idx
      /\ \A a \in DOMAIN by_id : a # id /\ by_id'[a] = by_id[a]
  BY <1>1, Zenon DEF Put
<1>9. /\ DOMAIN queue' = DOMAIN queue \cup {k} /\ queue'[k] = Append(q, id)
      /\ \A l \in DOMAIN queue : l # k => queue'[l] = queue[l]
      /\ queue' = [l \in DOMAIN queue' |-> queue'[l]]
  BY <1>1 DEF Put
<1>10. /\ DOMAIN levels' = DOMAIN levels \cup {k} /\ levels'[k] = longer
       /\ \A l \in DOMAIN levels : l # k => levels'[l] = levels[l]
  <2> HIDE DEF longer
  <2> QED  BY <1>1 DEF Put
<1> DEFINE r == Append(q, id)
<1>11. /\ r \in Seq(OrderId) /\ Len(r) = n + 1 /\ DOMAIN r = 1 .. (n + 1) /\ r[n + 1] = id
       /\ \A i \in 1 .. n : r[i] = q[i]
  BY <1>4, AppendFacts DEF n
<1> HIDE DEF r
<1>12. Stands(k, r, nodes', by_id', longer)
  <2>1. \A i \in 1 .. n : r[i] = q[i] /\ by_id'[r[i]] = by_id[q[i]] /\ r[i] \in DOMAIN by_id'
                         /\ by_id[q[i]] \in Slot /\ by_id[q[i]] # idx
    BY <1>3, <1>4, <1>8, <1>11
  <2>2. by_id'[r[n + 1]] = idx /\ r[n + 1] \in DOMAIN by_id'
    BY <1>8, <1>11
  <2>3. ASSUME NEW i \in 1 .. (n + 1)
        PROVE  /\ r[i] \in DOMAIN by_id'
               /\ nodes'[by_id'[r[i]]].id = r[i]
               /\ nodes'[by_id'[r[i]]].level = k
               /\ nodes'[by_id'[r[i]]].prev = IF i = 1 THEN Nil ELSE by_id'[r[i - 1]]
               /\ nodes'[by_id'[r[i]]].next = IF i = n + 1 THEN Nil ELSE by_id'[r[i + 1]]
    <3>1. CASE i = n + 1
      <4>1. /\ nodes'[idx].id = id /\ nodes'[idx].level = k /\ nodes'[idx].prev = tail
            /\ nodes'[idx].next = Nil
        BY <1>2, <1>5, <1>6, <1>7
      <4>2. tail = IF i = 1 THEN Nil ELSE by_id'[r[i - 1]]
        <5>1. CASE n = 0
          BY <1>4, <3>1, <5>1
        <5>2. CASE n # 0
          <6>1. i # 1 /\ i - 1 = n /\ n \in 1 .. n
            BY <1>4, <3>1, <5>2
          <6> QED  BY <1>4, <2>1, <5>2, <6>1
        <5> QED  BY <5>1, <5>2
      <4> QED  BY <1>11, <2>2, <3>1, <4>1, <4>2
    <3>2. CASE i # n + 1
      <4>1. i \in 1 .. n /\ n # 0 /\ n \in 1 .. n
        BY <1>4, <3>2
      <4> DEFINE s == by_id[q[i]]
      <4>2. s \in Slot /\ by_id'[r[i]] = s /\ r[i] = q[i] /\ s # idx /\ r[i] \in DOMAIN by_id'
        BY <2>1, <4>1
      <4>3. /\ nodes[s].id = q[i] /\ nodes[s].level = k
            /\ nodes[s].prev = IF i = 1 THEN Nil ELSE by_id[q[i - 1]]
            /\ nodes[s].next = IF i = n THEN Nil ELSE by_id[q[i + 1]]
        BY <1>4, <4>1 DEF Stands, n
      <4>4. s = tail <=> i = n
        BY <1>4, <4>1
      <4> HIDE DEF s
      <4>5. placed[s] = nodes[s]
        BY <1>5, <4>2
      <4>6. nodes'[s].id = r[i] /\ nodes'[s].level = k
        BY <1>6, <4>2, <4>3, <4>5
      <4>7. nodes'[s].prev = IF i = 1 THEN Nil ELSE by_id'[r[i - 1]]
        <5>1. i # 1 => i - 1 \in 1 .. n
          BY <1>4, <4>1
        <5> QED  BY <1>6, <2>1, <4>2, <4>3, <4>5, <5>1
      <4>8. nodes'[s].next = by_id'[r[i + 1]]
        <5>1. CASE i = n
          BY <1>6, <2>2, <4>2, <4>4, <5>1
        <5>2. CASE i # n
          <6>1. i + 1 \in 1 .. n
            BY <1>4, <4>1, <5>2
          <6> QED  BY <1>6, <2>1, <4>2, <4>3, <4>4, <4>5, <5>2, <6>1
        <5> QED  BY <5>1, <5>2
      <4> QED  BY <3>2, <4>2, <4>6, <4>7, <4>8
    <3> QED  BY <3>1, <3>2
  <2>4. /\ longer.head = by_id'[r[1]] /\ longer.tail = by_id'[r[n + 1]]
        /\ longer.order_count = n + 1
    <3>1. CASE n = 0
      BY <1>4, <2>2, <3>1
    <3>2. CASE n # 0
      <4>1. tail # Nil /\ 1 \in 1 .. n
        BY <1>4, <3>2, NodesAssumption
      <4> QED  BY <1>4, <2>1, <2>2, <3>2, <4>1
    <3> QED  BY <3>1, <3>2
  <2>5. n + 1 > 0
    BY <1>4
  <2> HIDE DEF longer
  <2> QED  BY <1>11, <2>3, <2>4, <2>5 DEF Stands
<1>13. ASSUME NEW l \in DOMAIN queue, l # k
       PROVE  Stands(l, queue[l], nodes', by_id', levels[l])
  <2> DEFINE p == queue[l]
  <2>1. /\ p \in Seq(OrderId) /\ Stands(l, p, nodes, by_id, levels[l])
        /\ \A i \in 1 .. Len(p) : /\ p[i] \in DOMAIN by_id /\ by_id[p[i]] \in Slot
                                  /\ nodes[by_id[p[i]]].level = l
    BY PlaceFacts
  <2> HIDE DEF p
  <2>2. tail # Nil => nodes[tail].level = k
    <3> SUFFICES ASSUME tail # Nil PROVE nodes[tail].level = k
      OBVIOUS
    <3>1. n # 0 /\ n \in 1 .. n
      BY <1>4
    <3> QED  BY <1>4, <3>1 DEF Stands, n
  <2>3. \A i \in 1 .. Len(p) : /\ p[i] \in DOMAIN by_id' /\ by_id'[p[i]] = by_id[p[i]]
                              /\ nodes'[by_id[p[i]]] = nodes[by_id[p[i]]]
    BY <1>3, <1>5, <1>6, <1>8, <1>13, <2>1, <2>2, NodesAssumption
  <2>4. Stands(l, p, nodes', by_id', levels[l])
    BY <2>1, <2>3, StandsKept
  <2> QED  BY <2>4 DEF p
<1>14. DOMAIN levels = DOMAIN queue
  BY DEF IInv, Represents
<1>15. Represents'
  <2>1. DOMAIN levels' = DOMAIN queue'
    BY <1>9, <1>10, <1>14
  <2>2. \A l \in DOMAIN queue' : Stands(l, queue'[l], nodes', by_id', levels'[l])
    BY <1>9, <1>10, <1>12, <1>13, <1>14 DEF r
  <2> QED  BY <2>1, <2>2 DEF Represents, Stands
<1>16. TypeOK'
  <2>1. free_list' \in Seq(Slot) /\ active_count' \in Int
    BY <1>1, <1>2 DEF IInv, TypeOK
  <2>2. DOMAIN by_id' \subseteq OrderId /\ \A a \in DOMAIN by_id' : by_id'[a] \in Slot
    BY <1>2, <1>8 DEF IInv, TypeOK
  <2>3. DOMAIN queue' \subseteq LevelKey /\ \A l \in DOMAIN queue' : queue'[l] \in Seq(OrderId)
    BY <1>9, <1>11 DEF IInv, TypeOK, r
  <2>4. longer \in [head : Slot, tail : Slot, order_count : Nat]
    <3>1. n # 0 => by_id[q[1]] \in Slot
      BY <1>4
    <3> QED  BY <1>2, <1>4, <3>1, NodesAssumption
  <2> HIDE DEF longer
  <2>5. /\ DOMAIN levels' \subseteq LevelKey
        /\ \A l \in DOMAIN levels' :
             levels'[l] \in [head : Slot, tail : Slot, order_count : Nat]
    BY <1>10, <2>4 DEF IInv, TypeOK
  <2> QED  BY <1>6, <2>1, <2>2, <2>3, <2>5 DEF TypeOK
<1>17. PoolPartitioned'
  <2>1. DOMAIN free_list' = 1 .. (Len(free_list) - 1)
        /\ \A i \in DOMAIN free_list' : /\ i \in DOMAIN free_list /\ i # Len(free_list)
                                        /\ free_list'[i] = free_list[i]
    BY <1>1, <1>2
  <2>2. \A i, j \in DOMAIN free_list' : free_list'[i] = free_list'[j] => i = j
    BY <2>1, PoolFacts DEF IInv
  <2>3. \A a, b \in DOMAIN by_id' : by_id'[a] = by_id'[b] => a = b
    BY <1>3, <1>8, PoolFacts DEF IInv
  <2>4. \A i \in DOMAIN free_list' : free_list'[i] # idx
    BY <1>2, <2>1, PoolFacts DEF IInv
  <2>5. \A i \in DOMAIN free_list' : \A a \in DOMAIN by_id' : free_list'[i] # by_id'[a]
    BY <1>8, <2>1, <2>4, PoolFacts DEF IInv
  <2>6. \A i \in DOMAIN free_list : i = Len(free_list) \/ i \in DOMAIN free_list'
    BY <1>2, <2>1
  <2>7. \A s \in Slot : \/ \E i \in DOMAIN free_list' : free_list'[i] = s
                       \/ \E a \in DOMAIN by_id' : by_id'[a] = s
    BY <1>2, <1>8, <2>1, <2>6, PoolFacts DEF IInv
  <2>8. active_count' = Cardinality(DOMAIN by_id')
    BY <1>1, <1>8, PoolFacts, FS_AddElement DEF IInv
  <2> QED  BY <1>16, <2>2, <2>3, <2>5, <2>7, <2>8, PoolIs
<1>18. Queued'
  <2>1. Once(r)
    <3>1. \A i \in 1 .. n : r[i] # id
      BY <1>1, <1>4, <1>11
    <3>2. \A i \in 1 .. (n + 1) : i = n + 1 \/ i \in 1 .. n
      BY <1>4
    <3> QED  BY <1>4, <1>11, <3>1, <3>2 DEF Once
  <2>2. \A l \in DOMAIN queue' : Once(queue'[l])
    BY <1>9, <2>1 DEF IInv, Queued, r
  <2>3. Covered'
    <3>1. ASSUME NEW a \in DOMAIN by_id
          PROVE  \E l \in DOMAIN queue' : \E i \in DOMAIN queue'[l] : queue'[l][i] = a
      <4>1. PICK l \in DOMAIN queue : \E i \in DOMAIN queue[l] : queue[l][i] = a
        BY <3>1 DEF IInv, Queued, Covered
      <4>2. CASE l # k
        BY <1>9, <4>1, <4>2
      <4>3. CASE l = k
        <5>1. PICK i \in DOMAIN q : q[i] = a
          BY <4>1, <4>3 DEF q, QueueOf
        <5>2. i \in DOMAIN r /\ r[i] = a
          BY <1>4, <1>11, <5>1
        <5> QED  BY <1>9, <5>2 DEF r
      <4> QED  BY <4>2, <4>3
    <3>2. n + 1 \in DOMAIN r /\ r[n + 1] = id
      BY <1>4, <1>11
    <3>3. \E l \in DOMAIN queue' : \E i \in DOMAIN queue'[l] : queue'[l][i] = id
      BY <1>9, <3>2 DEF r
    <3> QED  BY <1>8, <3>1, <3>3 DEF Covered
  <2> QED  BY <1>9, <2>2, <2>3 DEF Queued
<1> QED  BY <1>15, <1>16, <1>17, <1>18 DEF IInv

(* The order to be removed is in one place of one queue.                   *)
LEMMA RemovedPlace ==
  ASSUME IInv, NEW id \in DOMAIN by_id
  PROVE  LET k == nodes[by_id[id]].level IN
         /\ k \in DOMAIN queue
         /\ \E p \in 1 .. Len(queue[k]) :
              /\ queue[k][p] = id
              /\ Dequeue(k, id) = IF Len(queue[k]) = 1 THEN Drop(queue, k)
                                  ELSE Put(queue, k, RemoveAt(queue[k], p))
<1>1. PICK l \in DOMAIN queue : \E i \in DOMAIN queue[l] : queue[l][i] = id
  BY DEF IInv, Queued, Covered
<1>2. PICK p \in DOMAIN queue[l] : queue[l][p] = id
  BY <1>1
<1> DEFINE q == queue[l]
           n == Len(q)
<1>3. q \in Seq(OrderId) /\ n \in Nat \ {0} /\ DOMAIN q = 1 .. n /\ Once(q)
  BY PlaceFacts
<1>4. nodes[by_id[id]].level = l
  BY <1>2, PlaceFacts
<1>5. (CHOOSE i \in DOMAIN queue[l] : queue[l][i] = id) = p
  <2>1. (CHOOSE i \in DOMAIN queue[l] : queue[l][i] = id) \in DOMAIN queue[l]
        /\ queue[l][CHOOSE i \in DOMAIN queue[l] : queue[l][i] = id] = id
    BY <1>2
  <2> QED  BY <1>2, <1>3, <2>1 DEF Once
<1>6. RemoveAt(q, p) \in Seq(OrderId) /\ Len(RemoveAt(q, p)) = n - 1
  BY <1>2, <1>3, RemoveAtFacts
<1>7. RemoveAt(q, p) = <<>> <=> n = 1
  BY <1>3, <1>6
<1>8. Dequeue(l, id) = IF n = 1 THEN Drop(queue, l) ELSE Put(queue, l, RemoveAt(q, p))
  <2>1. Dequeue(l, id) = IF RemoveAt(q, p) = <<>> THEN Drop(queue, l)
                         ELSE Put(queue, l, RemoveAt(q, p))
    <3> DEFINE i == CHOOSE i \in DOMAIN queue[l] : queue[l][i] = id
    <3>1. Dequeue(l, id) = IF RemoveAt(queue[l], i) = <<>> THEN Drop(queue, l)
                           ELSE Put(queue, l, RemoveAt(queue[l], i))
      BY DEF Dequeue
    <3>2. i = p
      BY <1>5
    <3> HIDE DEF i
    <3> QED  BY <3>1, <3>2
  <2> QED  BY <1>7, <2>1
<1> QED  BY <1>2, <1>3, <1>4, <1>8

(* The nodes once an order is out of its list.                             *)
Bridged(ns, slot, prev, next, ms) ==
  /\ ms \in [Slot -> Node]
  /\ \A s \in Slot \ {slot} :
       /\ ms[s].id = ns[s].id /\ ms[s].level = ns[s].level
       /\ ms[s].next = IF s = prev THEN next ELSE ns[s].next
       /\ ms[s].prev = IF s = next THEN prev ELSE ns[s].prev
       /\ s # prev /\ s # next => ms[s] = ns[s]

LEMMA BridgedNodes ==
  ASSUME NEW ns \in [Slot -> Node], NEW slot \in Slot, NEW prev \in Slot \cup {Nil},
         NEW next \in Slot \cup {Nil}
  PROVE  Bridged(ns, slot, prev, next,
           [LinkPrev(LinkNext(ns, prev, next), next, prev) EXCEPT ![slot] = EmptyNode])
<1> DEFINE a == LinkNext(ns, prev, next)
           b == LinkPrev(a, next, prev)
           ms == [b EXCEPT ![slot] = EmptyNode]
<1>1. NextLinked(ns, prev, next, a)
  BY LinkNextFacts
<1> HIDE DEF a
<1>2. PrevLinked(a, next, prev, b)
  BY <1>1, LinkPrevFacts DEF NextLinked
<1> HIDE DEF b
<1>3. EmptyNode \in Node
  BY DEF EmptyNode, Node
<1>4. ms \in [Slot -> Node] /\ \A s \in Slot \ {slot} : ms[s] = b[s]
  BY <1>2, <1>3 DEF PrevLinked
<1> HIDE DEF ms
<1>5. ASSUME NEW s \in Slot \ {slot}
      PROVE  /\ ms[s].id = ns[s].id /\ ms[s].level = ns[s].level
             /\ ms[s].next = IF s = prev THEN next ELSE ns[s].next
             /\ ms[s].prev = IF s = next THEN prev ELSE ns[s].prev
             /\ s # prev /\ s # next => ms[s] = ns[s]
  BY <1>1, <1>2, <1>4 DEF NextLinked, PrevLinked
<1> QED  BY <1>4, <1>5 DEF Bridged, ms, b, a

(* The nodes of a queue are different ones.                                *)
Apart(q, ids) ==
  /\ \A i \in 1 .. Len(q) : ids[q[i]] \in Slot
  /\ \A i, j \in 1 .. Len(q) : ids[q[i]] = ids[q[j]] => i = j

(* The others keep their nodes, but for the links to the order at place p. *)
Loses(q, p, ns, ids, ms, jds) ==
  LET node == ns[ids[q[p]]] IN
  \A i \in 1 .. Len(q) : i # p =>
     LET s == ids[q[i]] IN
     /\ q[i] \in DOMAIN jds /\ jds[q[i]] = s
     /\ ms[s].id = ns[s].id /\ ms[s].level = ns[s].level
     /\ ms[s].next = IF s = node.prev THEN node.next ELSE ns[s].next
     /\ ms[s].prev = IF s = node.next THEN node.prev ELSE ns[s].prev

Shortened(level, node) ==
  [head |-> IF node.prev = Nil THEN node.next ELSE level.head,
   tail |-> IF node.next = Nil THEN node.prev ELSE level.tail,
   order_count |-> level.order_count - 1]

(* The list of the level once the order at place p is out of it.           *)
LEMMA StandsRemoved ==
  ASSUME NEW k, NEW q \in Seq(OrderId), NEW p \in 1 .. Len(q), Len(q) > 1,
         NEW ns, NEW ms, NEW ids, NEW jds, NEW level,
         Stands(k, q, ns, ids, level), Apart(q, ids), Loses(q, p, ns, ids, ms, jds)
  PROVE  Stands(k, RemoveAt(q, p), ms, jds, Shortened(level, ns[ids[q[p]]]))
<1> DEFINE shorter == Shortened(level, ns[ids[q[p]]])
           n == Len(q)
           at(i) == ids[q[i]]
           node == ns[at(p)]
           r == RemoveAt(q, p)
           old(i) == IF i < p THEN i ELSE i + 1
<1>1. n \in Nat /\ n > 1 /\ p \in 1 .. n
  OBVIOUS
<1>2. /\ r \in Seq(OrderId) /\ Len(r) = n - 1
      /\ \A i \in 1 .. (n - 1) : r[i] = q[old(i)]
  <2>1. p \in DOMAIN q
    OBVIOUS
  <2>2. /\ r \in Seq(OrderId) /\ Len(r) = n - 1
        /\ \A i \in 1 .. (n - 1) : r[i] = IF i < p THEN q[i] ELSE q[i + 1]
    BY <2>1, RemoveAtFacts
  <2> QED  BY <2>2
<1>3. \A i \in 1 .. n :
        /\ ns[at(i)].id = q[i] /\ ns[at(i)].level = k
        /\ ns[at(i)].prev = IF i = 1 THEN Nil ELSE at(i - 1)
        /\ ns[at(i)].next = IF i = n THEN Nil ELSE at(i + 1)
  BY DEF Stands
<1>4. /\ \A i \in 1 .. n : at(i) # Nil
      /\ \A i, j \in 1 .. n : at(i) = at(j) => i = j
  BY NodesAssumption DEF Apart
<1> HIDE DEF n
<1>5. \A i \in 1 .. n : (at(i) = node.prev <=> i = p - 1) /\ (at(i) = node.next <=> i = p + 1)
  <2>1. p # 1 => p - 1 \in 1 .. n
    BY <1>1
  <2>2. p # n => p + 1 \in 1 .. n
    BY <1>1
  <2>3. node.prev = (IF p = 1 THEN Nil ELSE at(p - 1))
        /\ node.next = (IF p = n THEN Nil ELSE at(p + 1))
    BY <1>1, <1>3
  <2> SUFFICES ASSUME NEW i \in 1 .. n
               PROVE  (at(i) = node.prev <=> i = p - 1) /\ (at(i) = node.next <=> i = p + 1)
    OBVIOUS
  <2>4. at(i) = node.prev <=> i = p - 1
    BY <1>1, <1>4, <2>1, <2>3
  <2>5. at(i) = node.next <=> i = p + 1
    BY <1>1, <1>4, <2>2, <2>3
  <2> QED  BY <2>4, <2>5
<1>6. \A i \in 1 .. (n - 1) : old(i) \in 1 .. n /\ old(i) # p
  BY <1>1
<1>7. \A i \in 1 .. n : i # p =>
        /\ q[i] \in DOMAIN jds /\ jds[q[i]] = at(i)
        /\ ms[at(i)].id = q[i] /\ ms[at(i)].level = k
        /\ ms[at(i)].next = IF i = p - 1 THEN (IF p = n THEN Nil ELSE at(p + 1))
                            ELSE IF i = n THEN Nil ELSE at(i + 1)
        /\ ms[at(i)].prev = IF i = p + 1 THEN (IF p = 1 THEN Nil ELSE at(p - 1))
                            ELSE IF i = 1 THEN Nil ELSE at(i - 1)
  <2>1. node.prev = (IF p = 1 THEN Nil ELSE at(p - 1))
        /\ node.next = (IF p = n THEN Nil ELSE at(p + 1))
    BY <1>1, <1>3
  <2> QED  BY <1>3, <1>5, <2>1 DEF Loses, n
<1>8. /\ shorter.head = (IF p = 1 THEN at(2) ELSE at(1))
      /\ shorter.tail = (IF p = n THEN at(n - 1) ELSE at(n))
      /\ shorter.order_count = n - 1
  <2>1. level.head = at(1) /\ level.tail = at(n) /\ level.order_count = n
    BY DEF Stands, n
  <2>2. node.prev = (IF p = 1 THEN Nil ELSE at(p - 1))
        /\ node.next = (IF p = n THEN Nil ELSE at(p + 1))
    BY <1>1, <1>3
  <2>3. (p # 1 => at(p - 1) # Nil) /\ (p # n => at(p + 1) # Nil)
    BY <1>1, <1>4
  <2> QED  BY <1>1, <2>1, <2>2, <2>3 DEF Shortened
<1> HIDE DEF r, at, node, shorter
<1>9. \A i \in 1 .. (n - 1) : r[i] \in DOMAIN jds /\ jds[r[i]] = at(old(i))
  BY <1>2, <1>6, <1>7
<1>10. ASSUME NEW i \in 1 .. (n - 1)
       PROVE  /\ r[i] \in DOMAIN jds
              /\ ms[jds[r[i]]].id = r[i]
              /\ ms[jds[r[i]]].level = k
              /\ ms[jds[r[i]]].prev = IF i = 1 THEN Nil ELSE jds[r[i - 1]]
              /\ ms[jds[r[i]]].next = IF i = n - 1 THEN Nil ELSE jds[r[i + 1]]
  <2> DEFINE o == old(i)
  <2>1. o \in 1 .. n /\ o # p /\ jds[r[i]] = at(o) /\ r[i] = q[o] /\ r[i] \in DOMAIN jds
    BY <1>2, <1>6, <1>9
  <2>2. ms[at(o)].id = r[i] /\ ms[at(o)].level = k
    BY <1>7, <2>1
  <2>3. i # 1 => i - 1 \in 1 .. (n - 1) /\ jds[r[i - 1]] = at(old(i - 1))
    BY <1>1, <1>9
  <2>4. i # n - 1 => i + 1 \in 1 .. (n - 1) /\ jds[r[i + 1]] = at(old(i + 1))
    BY <1>1, <1>9
  <2>5. ms[at(o)].prev = IF i = 1 THEN Nil ELSE at(old(i - 1))
    <3>1. ms[at(o)].prev = IF o = p + 1 THEN (IF p = 1 THEN Nil ELSE at(p - 1))
                           ELSE IF o = 1 THEN Nil ELSE at(o - 1)
      BY <1>7, <2>1
    <3>2. CASE i < p
      BY <1>1, <3>1, <3>2
    <3>3. CASE i = p
      <4>1. o = p + 1
        BY <1>1, <3>3
      <4>2. i # 1 => old(i - 1) = p - 1
        BY <1>1, <3>3
      <4> QED  BY <3>1, <3>3, <4>1, <4>2
    <3>4. CASE i > p
      <4>1. o = i + 1 /\ o # p + 1 /\ o # 1 /\ i # 1 /\ o - 1 = i /\ old(i - 1) = i
        BY <1>1, <3>4
      <4> QED  BY <3>1, <4>1
    <3> QED  BY <1>1, <3>2, <3>3, <3>4
  <2>6. ms[at(o)].next = IF i = n - 1 THEN Nil ELSE at(old(i + 1))
    <3>1. ms[at(o)].next = IF o = p - 1 THEN (IF p = n THEN Nil ELSE at(p + 1))
                           ELSE IF o = n THEN Nil ELSE at(o + 1)
      BY <1>7, <2>1
    <3>2. CASE i < p - 1
      <4>1. o = i /\ o # p - 1 /\ o # n /\ i # n - 1 /\ old(i + 1) = i + 1
        BY <1>1, <3>2
      <4> QED  BY <3>1, <4>1
    <3>3. CASE i = p - 1
      <4>1. o = p - 1 /\ (i = n - 1 <=> p = n) /\ old(i + 1) = p + 1
        BY <1>1, <3>3
      <4> QED  BY <3>1, <4>1
    <3>4. CASE i >= p
      <4>1. o = i + 1 /\ o # p - 1 /\ (o = n <=> i = n - 1) /\ old(i + 1) = o + 1
        BY <1>1, <3>4
      <4> QED  BY <3>1, <4>1
    <3> QED  BY <1>1, <3>2, <3>3, <3>4
  <2> HIDE DEF o
  <2> QED  BY <2>1, <2>2, <2>3, <2>4, <2>5, <2>6
<1>11. shorter.head = jds[r[1]] /\ shorter.tail = jds[r[n - 1]]
  <2>1. 1 \in 1 .. (n - 1) /\ n - 1 \in 1 .. (n - 1)
    BY <1>1
  <2>2. old(1) = (IF p = 1 THEN 2 ELSE 1) /\ old(n - 1) = (IF p = n THEN n - 1 ELSE n)
    BY <1>1
  <2>3. jds[r[1]] = at(old(1)) /\ jds[r[n - 1]] = at(old(n - 1))
    BY <1>9, <2>1
  <2> HIDE DEF old
  <2> QED  BY <1>8, <2>2, <2>3
<1>12. n - 1 > 0
  BY <1>1
<1> HIDE DEF old
<1>13. Stands(k, r, ms, jds, shorter)
  BY <1>2, <1>8, <1>10, <1>11, <1>12 DEF Stands
<1> QED  BY <1>13 DEF r, shorter

LEMMA RemoveStep ==
  ASSUME IInv, NEW id, RemoveWithoutReport(id)
  PROVE  IInv'
<1> DEFINE slot == by_id[id]
           node == nodes[slot]
           k == node.level
           q == queue[k]
           n == Len(q)
           head == IF node.prev = Nil THEN node.next ELSE levels[k].head
           tail == IF node.next = Nil THEN node.prev ELSE levels[k].tail
<1>1. /\ id \in DOMAIN by_id
      /\ by_id' = Drop(by_id, id)
      /\ nodes' = [LinkPrev(LinkNext(nodes, node.prev, node.next), node.next, node.prev)
                     EXCEPT ![slot] = EmptyNode]
      /\ free_list' = Append(free_list, slot)
      /\ active_count' = active_count - 1
      /\ Shorten(k, head, tail)
      /\ queue' = Dequeue(k, id)
  BY DEF RemoveWithoutReport, Release
<1>2. k \in DOMAIN queue /\ k \in DOMAIN levels
  BY <1>1, RemovedPlace, PlaceFacts
<1>3. PICK p \in 1 .. n :
        /\ q[p] = id
        /\ queue' = IF n = 1 THEN Drop(queue, k) ELSE Put(queue, k, RemoveAt(q, p))
  BY <1>1, RemovedPlace
<1>4. /\ q \in Seq(OrderId) /\ n \in Nat \ {0} /\ DOMAIN q = 1 .. n /\ Once(q)
      /\ Stands(k, q, nodes, by_id, levels[k]) /\ k \in LevelKey
      /\ \A i \in 1 .. n : q[i] \in DOMAIN by_id /\ by_id[q[i]] \in Slot
      /\ \A i, j \in 1 .. n : by_id[q[i]] = by_id[q[j]] => i = j
  BY <1>2, PlaceFacts
<1>5. /\ slot \in Slot /\ node \in Node /\ node.prev \in Slot \cup {Nil}
      /\ node.next \in Slot \cup {Nil} /\ nodes \in [Slot -> Node]
  BY <1>1 DEF IInv, TypeOK, Node
<1> DEFINE prev == node.prev
           next == node.next
           s1 == Shortened(levels[k], node)
           r == RemoveAt(q, p)
<1>6. /\ node.prev = IF p = 1 THEN Nil ELSE by_id[q[p - 1]]
      /\ node.next = IF p = n THEN Nil ELSE by_id[q[p + 1]]
      /\ levels[k].head = by_id[q[1]] /\ levels[k].head \in Slot
      /\ levels[k].tail = by_id[q[n]] /\ levels[k].tail \in Slot
      /\ levels[k].order_count = n
  <2>1. slot = by_id[q[p]]
    BY <1>3
  <2>2. by_id[q[1]] \in Slot /\ by_id[q[n]] \in Slot
    BY <1>4
  <2>3. node = nodes[by_id[q[p]]]
    BY <2>1
  <2> HIDE DEF node, slot, k, q
  <2>4. /\ node.prev = IF p = 1 THEN Nil ELSE by_id[q[p - 1]]
        /\ node.next = IF p = n THEN Nil ELSE by_id[q[p + 1]]
    BY <1>4, <2>3 DEF Stands
  <2>5. levels[k].head = by_id[q[1]] /\ levels[k].tail = by_id[q[n]]
        /\ levels[k].order_count = n
    BY <1>4 DEF Stands
  <2> QED  BY <2>2, <2>4, <2>5
<1> HIDE DEF node, slot, k, q, n
<1>7. /\ p - 1 >= 1 => p - 1 \in 1 .. n
      /\ p + 1 <= n => p + 1 \in 1 .. n
      /\ p \in Int /\ p >= 1 /\ p <= n
  BY <1>4
<1>8. \A i \in 1 .. n : by_id[q[i]] # Nil
  BY <1>4, NodesAssumption
<1>9. (node.prev = Nil <=> p = 1) /\ (node.next = Nil <=> p = n)
  <2>1. p # 1 => by_id[q[p - 1]] # Nil
    BY <1>4, <1>7, <1>8
  <2>2. p # n => by_id[q[p + 1]] # Nil
    BY <1>4, <1>7, <1>8
  <2> QED  BY <1>6, <2>1, <2>2
<1>10. head = Nil <=> n = 1
  <2>1. levels[k].head # Nil
    BY <1>6, NodesAssumption
  <2> QED  BY <1>7, <1>9, <2>1
<1>11. /\ nodes' \in [Slot -> Node]
       /\ \A s \in Slot \ {slot} :
            /\ nodes'[s].id = nodes[s].id /\ nodes'[s].level = nodes[s].level
            /\ nodes'[s].next = IF s = prev THEN next ELSE nodes[s].next
            /\ nodes'[s].prev = IF s = next THEN prev ELSE nodes[s].prev
            /\ s # prev /\ s # next => nodes'[s] = nodes[s]
  <2>1. prev \in Slot \cup {Nil} /\ next \in Slot \cup {Nil}
        /\ nodes' = [LinkPrev(LinkNext(nodes, prev, next), next, prev)
                      EXCEPT ![slot] = EmptyNode]
    BY <1>1, <1>5
  <2> HIDE DEF prev, next
  <2>2. Bridged(nodes, slot, prev, next, nodes')
    BY <1>5, <2>1, BridgedNodes
  <2> QED  BY <2>2 DEF Bridged
<1>12. /\ DOMAIN by_id' = DOMAIN by_id \ {id}
       /\ \A a \in DOMAIN by_id \ {id} : by_id'[a] = by_id[a]
  BY <1>1 DEF Drop
<1>13. /\ \A i \in 1 .. n : i # p => q[i] # id /\ by_id[q[i]] # slot
       /\ \A a \in DOMAIN by_id : by_id[a] = slot => a = id
  <2>1. \A i \in 1 .. n : i # p => q[i] # id
    BY <1>3, <1>4 DEF Once
  <2>2. \A a \in DOMAIN by_id : by_id[a] = slot => a = id
    BY <1>1, PoolFacts DEF IInv, slot
  <2> QED  BY <1>4, <2>1, <2>2
<1>14. ASSUME n # 1
       PROVE  /\ Stands(k, r, nodes', by_id', s1)
              /\ levels' = Put(levels, k, s1) /\ queue' = Put(queue, k, r)
  <2>1. levels' = Put(levels, k, s1)
    BY <1>1, <1>10, <1>14 DEF Shorten, Shortened
  <2>2. queue' = Put(queue, k, r)
    BY <1>3, <1>14
  <2>3. Apart(q, by_id)
    BY <1>4 DEF Apart, n
  <2>4. nodes[by_id[q[p]]] = node
    BY <1>3 DEF node, slot
  <2>5. Loses(q, p, nodes, by_id, nodes', by_id')
    <3>1. ASSUME NEW i \in 1 .. n, i # p
          PROVE  LET s == by_id[q[i]] IN
                 /\ q[i] \in DOMAIN by_id' /\ by_id'[q[i]] = s
                 /\ nodes'[s].id = nodes[s].id /\ nodes'[s].level = nodes[s].level
                 /\ nodes'[s].next = IF s = prev THEN next ELSE nodes[s].next
                 /\ nodes'[s].prev = IF s = next THEN prev ELSE nodes[s].prev
      <4>1. by_id[q[i]] \in Slot \ {slot} /\ q[i] \in DOMAIN by_id \ {id}
        BY <1>4, <1>13, <3>1
      <4> HIDE DEF prev, next
      <4> QED  BY <1>11, <1>12, <4>1
    <3> QED  BY <2>4, <3>1 DEF Loses, n
  <2>6. n > 1
    BY <1>4, <1>14
  <2>7. Stands(k, r, nodes', by_id', Shortened(levels[k], nodes[by_id[q[p]]]))
    BY <1>4, <2>3, <2>5, <2>6, StandsRemoved DEF n
  <2> QED  BY <2>1, <2>2, <2>4, <2>7
<1>15. ASSUME n = 1
       PROVE  levels' = Drop(levels, k) /\ queue' = Drop(queue, k)
  BY <1>1, <1>3, <1>10, <1>15 DEF Shorten
<1>16. ASSUME NEW l \in DOMAIN queue, l # k
       PROVE  Stands(l, queue[l], nodes', by_id', levels[l])
  <2> DEFINE o == queue[l]
  <2>1. /\ o \in Seq(OrderId) /\ Stands(l, o, nodes, by_id, levels[l])
        /\ \A i \in 1 .. Len(o) : /\ o[i] \in DOMAIN by_id /\ by_id[o[i]] \in Slot
                                  /\ nodes[by_id[o[i]]].level = l
    BY PlaceFacts
  <2> HIDE DEF o
  <2>2. /\ nodes[slot].level = k
        /\ prev # Nil => nodes[prev].level = k
        /\ next # Nil => nodes[next].level = k
    <3>1. \A i \in 1 .. n : nodes[by_id[q[i]]].level = k
      BY <1>4 DEF Stands, n
    <3>2. nodes[slot].level = k
      BY DEF k, node
    <3>3. p # 1 => p - 1 \in 1 .. n
      BY <1>7
    <3>4. p # n => p + 1 \in 1 .. n
      BY <1>4, <1>7
    <3> QED  BY <1>6, <3>1, <3>2, <3>3, <3>4
  <2>3. \A i \in 1 .. Len(o) : by_id[o[i]] # slot /\ by_id[o[i]] # prev /\ by_id[o[i]] # next
    BY <1>16, <2>1, <2>2, NodesAssumption
  <2>4. \A i \in 1 .. Len(o) : o[i] # id
    BY <2>3 DEF slot
  <2>5. \A i \in 1 .. Len(o) : nodes'[by_id[o[i]]] = nodes[by_id[o[i]]]
    <3> HIDE DEF prev, next
    <3> QED  BY <1>11, <2>1, <2>3
  <2>6. \A i \in 1 .. Len(o) : /\ o[i] \in DOMAIN by_id' /\ by_id'[o[i]] = by_id[o[i]]
                              /\ nodes'[by_id[o[i]]] = nodes[by_id[o[i]]]
    BY <1>12, <2>1, <2>4, <2>5
  <2>7. Stands(l, o, nodes', by_id', levels[l])
    BY <2>1, <2>6, StandsKept
  <2> QED  BY <2>7 DEF o
<1> HIDE DEF r, s1, prev, next
<1>17. DOMAIN levels = DOMAIN queue
  BY DEF IInv, Represents
<1>18. /\ DOMAIN queue' = (IF n = 1 THEN DOMAIN queue \ {k} ELSE DOMAIN queue)
       /\ DOMAIN levels' = DOMAIN queue'
       /\ n # 1 => queue'[k] = r /\ levels'[k] = s1
       /\ \A l \in DOMAIN queue \ {k} : queue'[l] = queue[l] /\ levels'[l] = levels[l]
       /\ queue' = [l \in DOMAIN queue' |-> queue'[l]]
  <2>1. CASE n = 1
    BY <1>15, <1>17, <2>1 DEF Drop
  <2>2. CASE n # 1
    BY <1>2, <1>14, <1>17, <2>2 DEF Put
  <2> QED  BY <2>1, <2>2
<1>19. Represents'
  <2>1. \A l \in DOMAIN queue' : Stands(l, queue'[l], nodes', by_id', levels'[l])
    BY <1>14, <1>16, <1>18
  <2> QED  BY <1>18, <2>1 DEF Represents, Stands
<1>20. /\ r \in Seq(OrderId) /\ Len(r) = n - 1
       /\ \A j \in DOMAIN q : j # p => \E i \in DOMAIN r : r[i] = q[j]
       /\ Once(r)
  BY <1>4, RemoveAtFacts, RemoveAtElements DEF r, n, Once
<1>21. TypeOK'
  <2>1. free_list' \in Seq(Slot) /\ active_count' \in Int
    BY <1>1, <1>5 DEF IInv, TypeOK
  <2>2. DOMAIN by_id' \subseteq OrderId /\ \A a \in DOMAIN by_id' : by_id'[a] \in Slot
    BY <1>12 DEF IInv, TypeOK
  <2>3. DOMAIN queue' \subseteq LevelKey /\ \A l \in DOMAIN queue' : queue'[l] \in Seq(OrderId)
    BY <1>18, <1>20 DEF IInv, TypeOK
  <2>4. n # 1 => s1 \in [head : Slot, tail : Slot, order_count : Nat]
    <3> SUFFICES ASSUME n # 1 PROVE s1 \in [head : Slot, tail : Slot, order_count : Nat]
      OBVIOUS
    <3>1. n - 1 \in Nat
      BY <1>4
    <3>2. head \in Slot
      BY <1>5, <1>6, <1>10
    <3>3. tail \in Slot
      BY <1>4, <1>5, <1>6, <1>7, <1>9
    <3> QED  BY <1>6, <3>1, <3>2, <3>3 DEF s1, Shortened
  <2>5. /\ DOMAIN levels' \subseteq LevelKey
        /\ \A l \in DOMAIN levels' :
             levels'[l] \in [head : Slot, tail : Slot, order_count : Nat]
    BY <1>17, <1>18, <2>4 DEF IInv, TypeOK
  <2> QED  BY <1>11, <2>1, <2>2, <2>3, <2>5 DEF TypeOK
<1>22. PoolPartitioned'
  <2>1. /\ DOMAIN free_list' = 1 .. (Len(free_list) + 1) /\ Len(free_list) \in Nat
        /\ DOMAIN free_list = 1 .. Len(free_list)
        /\ free_list'[Len(free_list) + 1] = slot
        /\ \A i \in DOMAIN free_list : i \in DOMAIN free_list' /\ free_list'[i] = free_list[i]
    <3>1. free_list \in Seq(Slot)
      BY DEF IInv, TypeOK
    <3> QED  BY <1>1, <1>5, <3>1, AppendFacts
  <2>2. \A i \in DOMAIN free_list' : i = Len(free_list) + 1 \/ i \in DOMAIN free_list
    BY <2>1
  <2>3. \A i \in DOMAIN free_list : free_list[i] # slot
    BY <1>1, PoolFacts DEF IInv, slot
  <2>4. \A i, j \in DOMAIN free_list' : free_list'[i] = free_list'[j] => i = j
    BY <2>1, <2>2, <2>3, PoolFacts DEF IInv
  <2>5. \A a, b \in DOMAIN by_id' : by_id'[a] = by_id'[b] => a = b
    BY <1>12, PoolFacts DEF IInv
  <2>6. \A i \in DOMAIN free_list' : \A a \in DOMAIN by_id' : free_list'[i] # by_id'[a]
    BY <1>12, <1>13, <2>1, <2>2, PoolFacts DEF IInv
  <2>7. \A s \in Slot : \/ \E i \in DOMAIN free_list' : free_list'[i] = s
                       \/ \E a \in DOMAIN by_id' : by_id'[a] = s
    <3> SUFFICES ASSUME NEW s \in Slot
                 PROVE  \/ \E i \in DOMAIN free_list' : free_list'[i] = s
                        \/ \E a \in DOMAIN by_id' : by_id'[a] = s
      OBVIOUS
    <3>1. CASE s = slot
      <4>1. Len(free_list) + 1 \in DOMAIN free_list'
        BY <2>1
      <4> QED  BY <2>1, <3>1, <4>1
    <3>2. CASE \E i \in DOMAIN free_list : free_list[i] = s
      BY <2>1, <3>2
    <3>3. CASE s # slot /\ \E a \in DOMAIN by_id : by_id[a] = s
      BY <1>12, <3>3 DEF slot
    <3> QED  BY <3>1, <3>2, <3>3, PoolFacts DEF IInv
  <2>8. active_count' = Cardinality(DOMAIN by_id')
    BY <1>1, <1>12, PoolFacts, FS_RemoveElement DEF IInv
  <2> QED  BY <1>21, <2>4, <2>5, <2>6, <2>7, <2>8, PoolIs
<1>23. Queued'
  <2>1. \A l \in DOMAIN queue' : Once(queue'[l])
    BY <1>18, <1>20 DEF IInv, Queued
  <2>2. ASSUME NEW a \in DOMAIN by_id'
        PROVE  \E l \in DOMAIN queue' : \E i \in DOMAIN queue'[l] : queue'[l][i] = a
    <3>1. a \in DOMAIN by_id /\ a # id
      BY <1>12
    <3>2. PICK l \in DOMAIN queue : \E i \in DOMAIN queue[l] : queue[l][i] = a
      BY <3>1 DEF IInv, Queued, Covered
    <3>3. CASE l # k
      BY <1>18, <3>2, <3>3
    <3>4. CASE l = k
      <4>1. PICK j \in DOMAIN q : q[j] = a
        BY <3>2, <3>4 DEF q
      <4>2. j # p
        BY <1>3, <3>1, <4>1
      <4>3. n # 1
        BY <1>3, <1>4, <1>7, <4>1, <4>2
      <4>4. k \in DOMAIN queue' /\ queue'[k] = r
        BY <1>2, <1>18, <4>3
      <4> QED  BY <1>20, <4>1, <4>2, <4>4
    <3> QED  BY <3>3, <3>4
  <2> QED  BY <1>18, <2>1, <2>2 DEF Queued, Covered
<1> QED  BY <1>19, <1>21, <1>22, <1>23 DEF IInv

(* The pop of a filled maker is the removal of the head.                   *)
LEMMA PopIsRemove ==
  ASSUME IInv, NEW k, PopMaker(k)
  PROVE  RemoveWithoutReport(nodes[levels[k].head].id)
<1> DEFINE idx == levels[k].head
           maker == nodes[idx]
           n == Len(queue[k])
<1>1. /\ k \in DOMAIN levels
      /\ Release(maker.id, LinkPrev(nodes, maker.next, Nil))
      /\ Shorten(k, maker.next, IF maker.next = Nil THEN Nil ELSE levels[k].tail)
      /\ queue' = Dequeue(k, maker.id)
  BY DEF PopMaker
<1>2. k \in DOMAIN queue
  BY <1>1 DEF IInv, Represents
<1>3. n \in Nat \ {0} /\ Stands(k, queue[k], nodes, by_id, levels[k])
  BY <1>2, PlaceFacts
<1>4. idx = by_id[queue[k][1]] /\ 1 \in 1 .. n
  BY <1>3 DEF Stands
<1>5. /\ queue[k][1] \in DOMAIN by_id /\ maker.id = queue[k][1] /\ maker.level = k
      /\ maker.prev = Nil
  BY <1>3, <1>4 DEF Stands
<1>6. by_id[maker.id] = idx
  BY <1>4, <1>5
<1> HIDE DEF idx, maker
<1>7. LinkNext(nodes, maker.prev, maker.next) = nodes
  BY <1>5 DEF LinkNext
<1>8. /\ maker.id \in DOMAIN by_id /\ nodes[by_id[maker.id]] = maker
  BY <1>5, <1>6 DEF maker
<1>9. RemoveWithoutReport(maker.id)
  BY <1>1, <1>5, <1>7, <1>8 DEF RemoveWithoutReport
<1> QED  BY <1>9 DEF maker, idx

(* The pool as the constructor and reset leave it.                         *)
LEMMA FreshFacts ==
  /\ FullFreeList \in Seq(Slot) /\ DOMAIN FullFreeList = 1 .. Capacity
  /\ \A i, j \in DOMAIN FullFreeList : FullFreeList[i] = FullFreeList[j] => i = j
  /\ \A s \in Slot : \E i \in DOMAIN FullFreeList : FullFreeList[i] = s
  /\ [s \in Slot |-> EmptyNode] \in [Slot -> Node]
  /\ DOMAIN <<>> = {} /\ <<>> = [x \in {} |-> <<>>[x]]
<1>1. FullFreeList \in [1 .. Capacity -> Slot] /\ DOMAIN FullFreeList = 1 .. Capacity
  BY NodesAssumption DEF FullFreeList, Slot
<1>2. FullFreeList \in Seq(Slot)
  BY <1>1, NodesAssumption
<1>3. \A i, j \in DOMAIN FullFreeList : FullFreeList[i] = FullFreeList[j] => i = j
  BY NodesAssumption DEF FullFreeList
<1>4. ASSUME NEW s \in Slot PROVE \E i \in DOMAIN FullFreeList : FullFreeList[i] = s
  <2>1. Capacity - s \in 1 .. Capacity /\ FullFreeList[Capacity - s] = s
    BY NodesAssumption DEF FullFreeList, Slot
  <2> QED  BY <1>1, <2>1
<1>5. EmptyNode \in Node
  BY DEF EmptyNode, Node
<1>6. DOMAIN <<>> = {} /\ <<>> = [x \in {} |-> <<>>[x]]
  OBVIOUS
<1> QED  BY <1>1, <1>2, <1>3, <1>4, <1>5, <1>6

LEMMA ResetStep ==
  ASSUME Reset
  PROVE  IInv'
<1> USE FreshFacts
<1>1. DOMAIN by_id' = {} /\ DOMAIN levels' = {} /\ DOMAIN queue' = {}
      /\ free_list' = FullFreeList /\ active_count' = 0
  BY DEF Reset
<1>2. TypeOK'
  BY <1>1 DEF Reset, TypeOK
<1>3. Represents'
  BY <1>1 DEF Represents
<1>4. PoolPartitioned'
  BY <1>1, <1>2, PoolIs, FS_EmptySet
<1>5. Queued'
  BY <1>1 DEF Queued, Covered, Reset
<1> QED  BY <1>2, <1>3, <1>4, <1>5 DEF IInv

LEMMA Initially == Init => IInv
<1> SUFFICES ASSUME Init PROVE IInv
  OBVIOUS
<1> USE FreshFacts
<1>1. DOMAIN by_id = {} /\ DOMAIN levels = {} /\ DOMAIN queue = {}
      /\ free_list = FullFreeList /\ active_count = 0
  BY DEF Init
<1>2. TypeOK
  BY <1>1 DEF Init, TypeOK
<1>3. Represents
  BY <1>1 DEF Represents
<1>4. PoolPartitioned
  <2>1. {by_id[id] : id \in DOMAIN by_id} = {}
    BY <1>1
  <2>2. Slot = ToSet(free_list)
    <3>1. \A i \in DOMAIN free_list : free_list[i] \in Slot
      BY <1>2 DEF TypeOK
    <3>2. \A x \in Slot : \E i \in DOMAIN free_list : free_list[i] = x
      BY <1>1
    <3> QED  BY <3>1, <3>2 DEF ToSet
  <2>3. active_count = Cardinality(DOMAIN by_id)
    BY <1>1, FS_EmptySet
  <2> QED  BY <1>1, <2>1, <2>2, <2>3 DEF PoolPartitioned
<1>5. Queued
  BY <1>1 DEF Queued, Covered, Init
<1> QED  BY <1>2, <1>3, <1>4, <1>5 DEF IInv

LEMMA Preserved == IInv /\ [Next]_vars => IInv'
<1> SUFFICES ASSUME IInv, [Next]_vars PROVE IInv'
  OBVIOUS
<1>1. ASSUME NEW id \in OrderId, NEW k \in LevelKey, Rest(id, k) PROVE IInv'
  BY <1>1, RestStep
<1>2. ASSUME NEW id \in OrderId, RemoveWithoutReport(id) PROVE IInv'
  BY <1>2, RemoveStep
<1>3. ASSUME NEW k \in LevelKey, PopMaker(k) PROVE IInv'
  BY <1>3, PopIsRemove, RemoveStep
<1>4. CASE Reset
  BY <1>4, ResetStep
<1>5. CASE UNCHANGED vars
  BY <1>5 DEF vars, IInv, TypeOK, Represents, PoolPartitioned, Queued, Covered
<1> QED  BY <1>1, <1>2, <1>3, <1>4, <1>5 DEF Next

LEMMA Invariance == Spec => []IInv
  BY Initially, Preserved, PTL DEF Spec

(* The type of the pool: the index and the levels name slots of the pool,  *)
(* whatever is rested, removed and popped.                                 *)
THEOREM TypeCorrect == Spec => []TypeOK
  BY Invariance, PTL DEF IInv

(* rest, unlink and the pop of match_against keep every list linked both   *)
(* ways in queue order, with its head, tail and count, for any number of   *)
(* levels and orders.                                                      *)
THEOREM ListsIntact == Spec => []Represents
  BY Invariance, PTL DEF IInv

(* allocate_node and release_node lose no slot of a pool of any capacity   *)
(* and hand none out twice, and active_orders() is the number of resting   *)
(* orders.                                                                 *)
THEOREM NoSlotLost == Spec => []PoolPartitioned
  BY Invariance, PTL DEF IInv

-----------------------------------------------------------------------------
(* The refinement.                                                         *)

LEMMA WalkedLevel ==
  ASSUME IInv, NEW k \in DOMAIN queue
  PROVE  Walked(k) = queue[k]
<1> DEFINE q == queue[k]
           n == Len(q)
           step(f, i) == IF i = 1 THEN levels[k].head
                         ELSE IF f[i - 1] = Nil THEN Nil ELSE nodes[f[i - 1]].next
           follows(f) == f = [i \in 1 .. Capacity |-> step(f, i)]
           at == CHOOSE f : follows(f)
<1>1. Walked(k) = [i \in {i \in 1 .. Capacity : at[i] # Nil} |-> nodes[at[i]].id]
  BY DEF Walked
<1>2. /\ q \in Seq(OrderId) /\ n \in Nat \ {0} /\ DOMAIN q = 1 .. n
      /\ \A i \in 1 .. n : by_id[q[i]] \in Slot /\ by_id[q[i]] # Nil
      /\ \A i, j \in 1 .. n : by_id[q[i]] = by_id[q[j]] => i = j
      /\ levels[k].head = by_id[q[1]]
      /\ \A i \in 1 .. n : /\ nodes[by_id[q[i]]].id = q[i]
                           /\ nodes[by_id[q[i]]].next = IF i = n THEN Nil ELSE by_id[q[i + 1]]
  BY PlaceFacts, NodesAssumption DEF Stands
<1> HIDE DEF q, n
<1>3. n <= Capacity
  <2> DEFINE f == [i \in 1 .. n |-> by_id[q[i]]]
  <2>1. f \in [1 .. n -> Slot] /\ \A i, j \in 1 .. n : f[i] = f[j] => i = j
    BY <1>2
  <2> HIDE DEF f
  <2>2. f \in Injection(1 .. n, Slot)
    BY <2>1, Zenon DEF Injection, IsInjective
  <2>3. IsFiniteSet(Slot) /\ Cardinality(Slot) = Capacity /\ Cardinality(1 .. n) = n
    BY <1>2, FS_Interval, NodesAssumption DEF Slot
  <2> QED  BY <2>2, <2>3, FS_Injection
<1> DEFINE g == [i \in 1 .. Capacity |-> IF i <= n THEN by_id[q[i]] ELSE Nil]
<1>4. Capacity \in Nat /\ \A i \in 1 .. Capacity : i \in Nat /\ (i # 1 => i - 1 \in 1 .. Capacity)
  BY NodesAssumption
<1>5. \A i \in 1 .. Capacity : g[i] = step(g, i)
  <2> SUFFICES ASSUME NEW i \in 1 .. Capacity PROVE g[i] = step(g, i)
    OBVIOUS
  <2>1. CASE i = 1
    BY <1>2, <2>1
  <2>2. CASE i # 1 /\ i - 1 <= n
    <3>1. i - 1 \in 1 .. n /\ i - 1 \in 1 .. Capacity
      BY <1>2, <1>4, <2>2
    <3>2. g[i - 1] = by_id[q[i - 1]] /\ g[i - 1] # Nil
      BY <1>2, <2>2, <3>1
    <3>3. nodes[g[i - 1]].next = IF i - 1 = n THEN Nil ELSE by_id[q[i]]
      <4>1. (i - 1) + 1 = i
        BY <1>4
      <4> QED  BY <1>2, <3>1, <3>2, <4>1
    <3>4. (i - 1 = n => ~(i <= n)) /\ (i - 1 # n => i <= n)
      BY <1>2, <1>4, <2>2
    <3> QED  BY <2>2, <3>2, <3>3, <3>4
  <2>3. CASE i # 1 /\ ~(i - 1 <= n)
    <3>1. i - 1 \in 1 .. Capacity /\ ~(i <= n)
      BY <1>2, <1>4, <2>3
    <3> QED  BY <2>3, <3>1
  <2> QED  BY <2>1, <2>2, <2>3
<1> HIDE DEF g
<1>6. follows(g)
  <2>1. g = [i \in 1 .. Capacity |-> g[i]]
    BY DEF g
  <2> HIDE DEF step
  <2> QED  BY <1>5, <2>1
<1>7. ASSUME NEW f, follows(f)
      PROVE  f = g
  <2>1. \A i \in 1 .. Capacity : f[i] = step(f, i)
    <3> HIDE DEF step
    <3> QED  BY <1>7
  <2> DEFINE T == {m \in Nat : \A i \in 1 .. Capacity : i <= m => f[i] = g[i]}
  <2>2. 0 \in T
    BY <1>4
  <2>3. ASSUME NEW m \in Nat, m \in T
        PROVE  m + 1 \in T
    <3>1. ASSUME NEW i \in 1 .. Capacity, i <= m + 1
          PROVE  f[i] = g[i]
      <4>1. CASE i = 1
        BY <1>5, <2>1, <4>1
      <4>2. CASE i # 1
        <5>1. i - 1 \in 1 .. Capacity /\ i - 1 <= m
          BY <1>4, <3>1, <4>2
        <5>2. f[i - 1] = g[i - 1]
          BY <2>3, <5>1
        <5> QED  BY <1>5, <2>1, <4>2, <5>2
      <4> QED  BY <4>1, <4>2
    <3> QED  BY <3>1
  <2>4. \A m \in Nat : m \in T
    <3> HIDE DEF T
    <3> QED  BY <2>2, <2>3, SetInduction
  <2>5. \A i \in 1 .. Capacity : f[i] = g[i]
    <3>1. Capacity \in T
      BY <1>4, <2>4
    <3>2. \A i \in 1 .. Capacity : i <= Capacity
      BY <1>4
    <3> QED  BY <3>1, <3>2
  <2>6. g = [i \in 1 .. Capacity |-> g[i]] /\ f = [i \in 1 .. Capacity |-> f[i]]
    <3>1. DOMAIN f = 1 .. Capacity
      BY <1>7
    <3> QED  BY <1>7, <3>1 DEF g
  <2> QED  BY <2>5, <2>6
<1>8. at = g
  <2> HIDE DEF follows
  <2>1. follows(at)
    BY <1>6
  <2> QED  BY <1>7, <2>1
<1> HIDE DEF at
<1>9. {i \in 1 .. Capacity : g[i] # Nil} = 1 .. n
  BY <1>2, <1>3, <1>4 DEF g
<1>10. \A i \in 1 .. n : nodes[g[i]].id = q[i]
  BY <1>2, <1>3, <1>4 DEF g
<1>11. Walked(k) = [i \in 1 .. n |-> q[i]]
  BY <1>1, <1>8, <1>9, <1>10
<1> QED  BY <1>2, <1>11 DEF q

(* A walk along the lists finds the queues.                                *)
LEMMA WalkedIsQueue == IInv => WalkedQueues = queue
<1> SUFFICES ASSUME IInv PROVE WalkedQueues = queue
  OBVIOUS
<1>1. DOMAIN levels = DOMAIN queue /\ queue = [k \in DOMAIN queue |-> queue[k]]
  BY DEF IInv, Represents, Queued
<1>2. \A k \in DOMAIN queue : Walked(k) = queue[k]
  BY WalkedLevel
<1> QED  BY <1>1, <1>2 DEF WalkedQueues

LEMMA RestingIndexed ==
  ASSUME IInv, WalkedQueues = queue
  PROVE  Queues!Resting = DOMAIN by_id
<1>1. Queues!Resting = UNION {ToSet(queue[k]) : k \in DOMAIN queue}
  BY DEF Queues!Resting, Queues!ToSet, ToSet
<1>2. ASSUME NEW k \in DOMAIN queue, NEW i \in DOMAIN queue[k]
      PROVE  queue[k][i] \in DOMAIN by_id
  BY PlaceFacts
<1>3. \A id \in DOMAIN by_id : \E k \in DOMAIN queue : \E i \in DOMAIN queue[k] :
        queue[k][i] = id
  BY DEF IInv, Queued, Covered
<1>4. ASSUME NEW id \in DOMAIN by_id
      PROVE  id \in UNION {ToSet(queue[k]) : k \in DOMAIN queue}
  <2>1. PICK k \in DOMAIN queue : \E i \in DOMAIN queue[k] : queue[k][i] = id
    BY <1>3
  <2>2. id \in ToSet(queue[k])
    BY <2>1 DEF ToSet
  <2> QED  BY <2>2
<1>5. ASSUME NEW k \in DOMAIN queue, NEW id \in ToSet(queue[k])
      PROVE  id \in DOMAIN by_id
  BY <1>2 DEF ToSet
<1> QED  BY <1>1, <1>4, <1>5

(* There is room in the queues when there is a free slot.                  *)
LEMMA RoomLeft ==
  ASSUME IInv, free_list # <<>>
  PROVE  Cardinality(DOMAIN by_id) < Capacity
<1> DEFINE f == [x \in DOMAIN by_id |-> by_id[x]]
<1>1. IsFiniteSet(Slot) /\ Cardinality(Slot) = Capacity
  BY FS_Interval, NodesAssumption DEF Slot
<1>2. f \in [DOMAIN by_id -> Slot] /\ \A a, b \in DOMAIN by_id : f[a] = f[b] => a = b
  BY PoolFacts DEF IInv, TypeOK
<1>3. PICK s \in Slot : \A a \in DOMAIN by_id : f[a] # s
  <2>1. Last(free_list) \in Slot /\ Len(free_list) \in DOMAIN free_list
        /\ Last(free_list) = free_list[Len(free_list)]
    <3>1. free_list \in Seq(Slot)
      BY DEF IInv, TypeOK
    <3> QED  BY <3>1, FrontFacts
  <2> QED  BY <2>1, PoolFacts DEF IInv
<1> HIDE DEF f
<1>4. f \in Injection(DOMAIN by_id, Slot)
  BY <1>2, Zenon DEF Injection, IsInjective
<1>5. f \notin Surjection(DOMAIN by_id, Slot)
  BY <1>2, <1>3 DEF Surjection
<1>6. Cardinality(DOMAIN by_id) <= Capacity /\ Cardinality(DOMAIN by_id) # Capacity
  BY <1>1, <1>4, <1>5, FS_Injection
<1>7. Cardinality(DOMAIN by_id) \in Nat
  BY PoolFacts DEF IInv
<1> QED  BY <1>6, <1>7, NodesAssumption

LEMMA RestJoins ==
  ASSUME IInv, WalkedQueues = queue, (WalkedQueues = queue)',
         NEW id \in OrderId, NEW k \in LevelKey, Rest(id, k)
  PROVE  Queues!Join(id, k)
<1>1. id \notin DOMAIN by_id /\ free_list # <<>> /\ queue' = Put(queue, k, Append(QueueOf(k), id))
  BY DEF Rest
<1>2. id \notin Queues!Resting /\ Cardinality(Queues!Resting) < Capacity
  BY <1>1, RestingIndexed, RoomLeft
<1>3. queue' = [j \in DOMAIN queue \cup {k} |->
                  IF j # k THEN queue[j]
                  ELSE IF k \in DOMAIN queue THEN Append(queue[k], id) ELSE <<id>>]
  <2>1. Append(QueueOf(k), id) = IF k \in DOMAIN queue THEN Append(queue[k], id) ELSE <<id>>
    <3>1. CASE k \in DOMAIN queue
      BY <3>1 DEF QueueOf
    <3>2. CASE k \notin DOMAIN queue
      BY <3>2 DEF QueueOf
    <3> QED  BY <3>1, <3>2
  <2> DEFINE q == Append(QueueOf(k), id)
             j == IF k \in DOMAIN queue THEN Append(queue[k], id) ELSE <<id>>
  <2>2. queue' = [l \in DOMAIN queue \cup {k} |-> IF l = k THEN q ELSE queue[l]] /\ q = j
    BY <1>1, <2>1 DEF Put
  <2> HIDE DEF q, j
  <2>3. queue' = [l \in DOMAIN queue \cup {k} |-> IF l # k THEN queue[l] ELSE j]
    BY <2>2
  <2> QED  BY <2>3 DEF j
<1>4. WalkedQueues' = queue'
  OBVIOUS
<1>5. Queues!Cardinality(Queues!Resting) = Cardinality(Queues!Resting)
  BY Zenon DEF Queues!Cardinality, Cardinality
<1> QED  BY <1>2, <1>3, <1>4, <1>5 DEF Queues!Join

LEMMA RemoveLeaves ==
  ASSUME IInv, WalkedQueues = queue, (WalkedQueues = queue)', NEW id,
         RemoveWithoutReport(id)
  PROVE  id \in OrderId /\ Queues!Leave(id)
<1> DEFINE k == nodes[by_id[id]].level
           q == queue[k]
<1>1. id \in DOMAIN by_id /\ queue' = Dequeue(k, id)
  BY DEF RemoveWithoutReport
<1>2. id \in OrderId /\ k \in DOMAIN queue
  BY <1>1, RemovedPlace DEF IInv, TypeOK
<1>3. PICK p \in 1 .. Len(q) :
        /\ q[p] = id
        /\ queue' = IF Len(q) = 1 THEN Drop(queue, k) ELSE Put(queue, k, RemoveAt(q, p))
  BY <1>1, RemovedPlace
<1>4. p \in DOMAIN q /\ queue = [l \in DOMAIN queue |-> queue[l]]
  BY <1>2, <1>3, PlaceFacts DEF IInv, Queued
<1> HIDE DEF k
<1>5. queue' = IF Len(queue[k]) = 1
               THEN [j \in DOMAIN queue \ {k} |-> queue[j]]
               ELSE [queue EXCEPT ![k] = RemoveAt(queue[k], p)]
  <2>1. CASE Len(q) = 1
    BY <1>3, <2>1 DEF Drop
  <2>2. CASE Len(q) # 1
    <3> DEFINE r == RemoveAt(q, p)
    <3>1. queue' = Put(queue, k, r)
      BY <1>3, <2>2
    <3> HIDE DEF r, q
    <3>2. queue' = [queue EXCEPT ![k] = r]
      BY <1>2, <1>4, <3>1 DEF Put
    <3> QED  BY <2>2, <3>2 DEF r, q
  <2> QED  BY <2>1, <2>2
<1>6. WalkedQueues' = queue'
  OBVIOUS
<1>7. \E l \in DOMAIN queue : \E i \in DOMAIN queue[l] :
        /\ queue[l][i] = id
        /\ queue' = IF Len(queue[l]) = 1
                    THEN [j \in DOMAIN queue \ {l} |-> queue[j]]
                    ELSE [queue EXCEPT ![l] = RemoveAt(queue[l], i)]
  BY <1>2, <1>3, <1>4, <1>5
<1> QED  BY <1>2, <1>6, <1>7 DEF Queues!Leave, Queues!RemoveAt, RemoveAt

LEMMA StepRefines ==
  IInv /\ WalkedQueues = queue /\ (WalkedQueues = queue)' /\ [Next]_vars
    => [Queues!Next]_WalkedQueues
<1> SUFFICES ASSUME IInv, WalkedQueues = queue, (WalkedQueues = queue)', [Next]_vars
             PROVE  [Queues!Next]_WalkedQueues
  OBVIOUS
<1>1. ASSUME NEW id \in OrderId, NEW k \in LevelKey, Rest(id, k) PROVE Queues!Next
  BY <1>1, RestJoins DEF Queues!Next
<1>2. ASSUME NEW id, RemoveWithoutReport(id) PROVE Queues!Next
  BY <1>2, RemoveLeaves DEF Queues!Next
<1>3. ASSUME NEW k \in LevelKey, PopMaker(k) PROVE Queues!Next
  BY <1>2, <1>3, PopIsRemove
<1>4. CASE Reset
  BY <1>4 DEF Reset, Queues!Next, Queues!Clear
<1>5. CASE UNCHANGED vars
  BY <1>5 DEF vars
<1> QED  BY <1>1, <1>2, <1>3, <1>4, <1>5 DEF Next

LEMMA InitRefines == Init => Queues!Init
<1> SUFFICES ASSUME Init PROVE Queues!Init
  OBVIOUS
<1>1. WalkedQueues = queue
  BY Initially, WalkedIsQueue
<1> QED  BY <1>1 DEF Init, Queues!Init

(* The pool refines the queues of LevelQueues: walking the lists from head *)
(* to tail one sees orders join at the tail, leave from any place with the *)
(* others kept in order, and nothing else, for a pool of any capacity.     *)
THEOREM PoolRefines == Spec => ImplementsQueues
<1>1. [](WalkedQueues = queue) /\ []IInv /\ [][Next]_vars => [][Queues!Next]_WalkedQueues
  BY StepRefines, PTL
<1>2. []IInv => [](WalkedQueues = queue)
  BY WalkedIsQueue, PTL
<1> QED  BY <1>1, <1>2, InitRefines, Invariance, PTL DEF Spec, ImplementsQueues, Queues!Spec
=============================================================================
