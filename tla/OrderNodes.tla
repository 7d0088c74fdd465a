------------------------------ MODULE OrderNodes -----------------------------
(***************************************************************************)
(* The storage behind the price levels of an OrderBook: a pool of nodes    *)
(* with a free list, an intrusive doubly linked list per level, the id     *)
(* index and the counters (rest, unlink, release_node and the pop of a     *)
(* filled maker in match_against, src/src/order_book.cpp).                 *)
(*                                                                         *)
(* `queue' is the FIFO of ids that module OrderBook works with; the        *)
(* invariant Represents says how the lists stand for it, and the property  *)
(* ImplementsQueues that a walk along them finds the queues of module      *)
(* LevelQueues.  A level is named by one key for its side and price.       *)
(***************************************************************************)
EXTENDS Integers, Sequences, FiniteSets, SequencesExt

CONSTANTS OrderId, LevelKey, Capacity, Nil, NoId, NoLevel

Slot == 0 .. (Capacity - 1)

ASSUME NodesAssumption ==
  /\ Capacity \in Nat
  /\ Nil \notin Slot
  /\ NoId \notin OrderId
  /\ NoLevel \notin LevelKey

VARIABLES
  nodes,         \* slot -> id, level, prev, next
  free_list,     \* stack of free slots, last one on top
  by_id,         \* id -> slot
  levels,        \* level -> head, tail, order_count, for non-empty levels
  active_count,
  queue          \* level -> ids in time priority: what the lists stand for

vars == <<nodes, free_list, by_id, levels, active_count, queue>>

EmptyNode == [id |-> NoId, level |-> NoLevel, prev |-> Nil, next |-> Nil]
EmptyLevel == [head |-> Nil, tail |-> Nil, order_count |-> 0]

(* The constructor and reset fill the free list so that slot 0 is on top.   *)
FullFreeList == [i \in 1 .. Capacity |-> Capacity - i]

Init ==
  /\ nodes = [s \in Slot |-> EmptyNode]
  /\ free_list = FullFreeList
  /\ by_id = <<>>
  /\ levels = <<>>
  /\ active_count = 0
  /\ queue = <<>>

-----------------------------------------------------------------------------
Drop(f, x) == [y \in DOMAIN f \ {x} |-> f[y]]
Put(f, x, v) == [y \in DOMAIN f \cup {x} |-> IF y = x THEN v ELSE f[y]]

(* Set a link of a node, if the node is there.                              *)
LinkNext(ns, slot, target) == IF slot = Nil THEN ns ELSE [ns EXCEPT ![slot].next = target]
LinkPrev(ns, slot, target) == IF slot = Nil THEN ns ELSE [ns EXCEPT ![slot].prev = target]

QueueOf(k) == IF k \in DOMAIN queue THEN queue[k] ELSE <<>>

Dequeue(k, id) ==
  LET q == RemoveAt(queue[k], CHOOSE i \in DOMAIN queue[k] : queue[k][i] = id)
  IN IF q = <<>> THEN Drop(queue, k) ELSE Put(queue, k, q)

(* rest: allocate_node, then append to the tail of the level.               *)
Rest(id, k) ==
  LET idx == Last(free_list)
      level == IF k \in DOMAIN levels THEN levels[k] ELSE EmptyLevel
      placed == [nodes EXCEPT ![idx] =
                   [id |-> id, level |-> k, prev |-> level.tail, next |-> Nil]]
  IN /\ id \notin DOMAIN by_id
     /\ free_list # <<>>
     /\ free_list' = Front(free_list)
     /\ nodes' = LinkNext(placed, level.tail, idx)
     /\ levels' = Put(levels, k,
                      [head |-> IF level.tail = Nil THEN idx ELSE level.head,
                       tail |-> idx,
                       order_count |-> level.order_count + 1])
     /\ by_id' = Put(by_id, id, idx)
     /\ active_count' = active_count + 1
     /\ queue' = Put(queue, k, Append(QueueOf(k), id))

(* Forget the id and give the slot back: by_id_.erase, release_node.        *)
(* (Mutant: the count is not lowered.)                                      *)
ReleaseUncounted(id, ns) ==
  /\ by_id' = Drop(by_id, id)
  /\ nodes' = [ns EXCEPT ![by_id[id]] = EmptyNode]
  /\ free_list' = Append(free_list, by_id[id])
  /\ UNCHANGED active_count

Release(id, ns) ==
  /\ by_id' = Drop(by_id, id)
  /\ nodes' = [ns EXCEPT ![by_id[id]] = EmptyNode]
  /\ free_list' = Append(free_list, by_id[id])
  /\ active_count' = active_count - 1

(* Store a level whose list has lost one order, or erase it.  (Mutant: the  *)
(* tail is not moved.)                                                      *)
ShortenKeepsTail(k, head, tail) ==
  levels' = IF head = Nil
            THEN Drop(levels, k)
            ELSE Put(levels, k, [levels[k] EXCEPT !.head = head,
                                                  !.order_count = @ - 1])

Shorten(k, head, tail) ==
  levels' = IF head = Nil
            THEN Drop(levels, k)
            ELSE Put(levels, k, [head |-> head, tail |-> tail,
                                 order_count |-> levels[k].order_count - 1])

(* remove_without_report: an order leaves from any place of its level       *)
(* (cancel, replace, a self-trade cancellation).  (Mutant: the order before *)
(* it is not linked to the one behind it.)                                  *)
RemoveUnbridged(id) ==
  /\ id \in DOMAIN by_id
  /\ LET node == nodes[by_id[id]]
         k == node.level
     IN /\ Release(id, LinkPrev(nodes, node.next, node.prev))
        /\ Shorten(k, IF node.prev = Nil THEN node.next ELSE levels[k].head,
                      IF node.next = Nil THEN node.prev ELSE levels[k].tail)
        /\ queue' = Dequeue(k, id)

RemoveWithoutReport(id) ==
  /\ id \in DOMAIN by_id
  /\ LET node == nodes[by_id[id]]
         k == node.level
         bridged == LinkPrev(LinkNext(nodes, node.prev, node.next), node.next, node.prev)
     IN /\ Release(id, bridged)
        /\ Shorten(k, IF node.prev = Nil THEN node.next ELSE levels[k].head,
                      IF node.next = Nil THEN node.prev ELSE levels[k].tail)
        /\ queue' = Dequeue(k, id)

(* match_against fills the head of a level and pops it.                     *)
PopMaker(k) ==
  /\ k \in DOMAIN levels
  /\ LET idx == levels[k].head
         maker == nodes[idx]
     IN /\ Release(maker.id, LinkPrev(nodes, maker.next, Nil))
        /\ Shorten(k, maker.next, IF maker.next = Nil THEN Nil ELSE levels[k].tail)
        /\ queue' = Dequeue(k, maker.id)

Reset ==
  /\ nodes' = [s \in Slot |-> EmptyNode]
  /\ free_list' = FullFreeList
  /\ by_id' = <<>>
  /\ levels' = <<>>
  /\ active_count' = 0
  /\ queue' = <<>>

Next ==
  \/ \E id \in OrderId, k \in LevelKey : Rest(id, k)
  \/ \E id \in OrderId : RemoveWithoutReport(id)
  \/ \E k \in LevelKey : PopMaker(k)
  \/ Reset

Spec == Init /\ [][Next]_vars

-----------------------------------------------------------------------------
Node == [id : OrderId \cup {NoId}, level : LevelKey \cup {NoLevel},
         prev : Slot \cup {Nil}, next : Slot \cup {Nil}]

(* The type of every variable of the node pool.                             *)
TypeOK ==
  /\ nodes \in [Slot -> Node]
  /\ free_list \in Seq(Slot)
  /\ DOMAIN by_id \subseteq OrderId
  /\ \A id \in DOMAIN by_id : by_id[id] \in Slot
  /\ DOMAIN levels \subseteq LevelKey
  /\ \A k \in DOMAIN levels :
       levels[k] \in [head : Slot, tail : Slot, order_count : Nat]
  /\ active_count \in Int
  /\ DOMAIN queue \subseteq LevelKey
  /\ \A k \in DOMAIN queue : queue[k] \in Seq(OrderId)

(* The lists stand for the FIFO queues that OrderBook relies on: head and   *)
(* tail are the first and last order, next and prev follow the queue in     *)
(* both directions, and order_count is its length, whatever order of rests, *)
(* removals from the middle and pops of the head built them.                *)
Represents ==
  /\ DOMAIN levels = DOMAIN queue
  /\ \A k \in DOMAIN queue :
       LET q == queue[k]
           at(i) == by_id[q[i]]
       IN /\ Len(q) > 0
          /\ \A i \in 1 .. Len(q) :
               /\ q[i] \in DOMAIN by_id
               /\ nodes[at(i)].id = q[i]
               /\ nodes[at(i)].level = k
               /\ nodes[at(i)].prev = IF i = 1 THEN Nil ELSE at(i - 1)
               /\ nodes[at(i)].next = IF i = Len(q) THEN Nil ELSE at(i + 1)
          /\ levels[k].head = at(1)
          /\ levels[k].tail = at(Len(q))
          /\ levels[k].order_count = Len(q)

(* No slot is lost, used twice or free while in use: the free list and the  *)
(* id index split the pool between them, so that a resting order's node is  *)
(* never handed out again by allocate_node, and active_orders() counts the  *)
(* indexed orders.                                                          *)
PoolPartitioned ==
  /\ \A i, j \in DOMAIN free_list : free_list[i] = free_list[j] => i = j
  /\ \A a, b \in DOMAIN by_id : by_id[a] = by_id[b] => a = b
  /\ ToSet(free_list) \cap {by_id[id] : id \in DOMAIN by_id} = {}
  /\ Slot = ToSet(free_list) \cup {by_id[id] : id \in DOMAIN by_id}
  /\ active_count = Cardinality(DOMAIN by_id)

(* The ids met when a level is walked as resting_orders and state_hash do,  *)
(* from the head along next until the end of the list.                      *)
Walked(k) ==
  LET at[i \in 1 .. Capacity] ==
        IF i = 1 THEN levels[k].head
        ELSE IF at[i - 1] = Nil THEN Nil ELSE nodes[at[i - 1]].next
  IN [i \in {i \in 1 .. Capacity : at[i] # Nil} |-> nodes[at[i]].id]

WalkedQueues == [k \in DOMAIN levels |-> Walked(k)]

Queues == INSTANCE LevelQueues WITH queue <- WalkedQueues

(* The node pool implements the queues of LevelQueues: what a walk along    *)
(* the lists finds changes only by an order joining at the tail of its      *)
(* level, an order leaving with everyone else in place, or a reset.         *)
ImplementsQueues == Queues!Spec

=============================================================================
