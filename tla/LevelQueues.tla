----------------------------- MODULE LevelQueues -----------------------------
(***************************************************************************)
(* What the storage of an order book promises to the matching code: one    *)
(* FIFO of resting order ids for every non-empty price level, room for     *)
(* Capacity orders, and no id in two places.  Module OrderNodes implements *)
(* it with linked nodes in a fixed pool.                                   *)
(***************************************************************************)
EXTENDS Naturals, Sequences, FiniteSets, SequencesExt

CONSTANTS OrderId, LevelKey, Capacity

VARIABLE queue   \* level -> ids in time priority, for the non-empty levels

Resting == UNION {ToSet(queue[k]) : k \in DOMAIN queue}

Init == queue = <<>>

(* An order joins the tail of its level.                                   *)
Join(id, k) ==
  /\ id \notin Resting
  /\ Cardinality(Resting) < Capacity
  /\ queue' = [j \in DOMAIN queue \cup {k} |->
                 IF j # k THEN queue[j]
                 ELSE IF k \in DOMAIN queue THEN Append(queue[k], id) ELSE <<id>>]

(* An order leaves from wherever it stands; the others keep their order,   *)
(* and a level is gone with its last order.                                *)
Leave(id) ==
  \E k \in DOMAIN queue : \E i \in DOMAIN queue[k] :
    /\ queue[k][i] = id
    /\ queue' = IF Len(queue[k]) = 1
                THEN [j \in DOMAIN queue \ {k} |-> queue[j]]
                ELSE [queue EXCEPT ![k] = RemoveAt(@, i)]

Clear == queue' = <<>>

Next ==
  \/ \E id \in OrderId, k \in LevelKey : Join(id, k)
  \/ \E id \in OrderId : Leave(id)
  \/ Clear

Spec == Init /\ [][Next]_queue

=============================================================================
