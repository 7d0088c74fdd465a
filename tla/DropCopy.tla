------------------------------- MODULE DropCopy ------------------------------
(***************************************************************************)
(* DropCopyStore (src/src/drop_copy.cpp): every execution report and OMS   *)
(* fill is appended to a SQLite table and to a bounded in-memory cache     *)
(* with a per-order index.  Lookups are served from the index when the     *)
(* store believes it holds the whole history of the order, from SQLite     *)
(* otherwise.  A restart keeps the table and rebuilds the cache from its   *)
(* newest rows.  Publish and lookups hold one mutex, so each is a step.    *)
(***************************************************************************)
EXTENDS Integers, Sequences, FiniteSets, SequencesExt

CONSTANTS
  OrderId,
  CacheCapacity,  \* events kept in memory
  MaxEvents,      \* bound on the ids given out
  MaxRestarts     \* bound on the restarts of a behaviour

ASSUME DropCopyAssumption ==
  CacheCapacity \in Nat \ {0} /\ MaxEvents \in Nat /\ MaxRestarts \in Nat

VARIABLES
  db,                        \* rows of drop_copy_events, by rising id
  events,                    \* events_: the cache, newest first
  events_by_order,           \* events_by_order_: oldest first
  incomplete_order_history,  \* orders whose lookups go to SQLite
  next_id,
  restarts

store_vars == <<db, events, events_by_order, incomplete_order_history, next_id, restarts>>

(* The rows that are in a set, in their order: a loop that copies them.      *)
Among(rows, wanted) ==
  LET among[n \in 0 .. Len(rows)] ==
        IF n = 0 THEN <<>>
        ELSE IF rows[n] \in wanted THEN Append(among[n - 1], rows[n])
        ELSE among[n - 1]
  IN among[Len(rows)]

OfOrder(rows, o) == Among(rows, [id : Nat, order_id : {o}])

IndexOf(rows) ==
  [o \in {rows[i].order_id : i \in DOMAIN rows} |-> OfOrder(rows, o)]

StoreInit ==
  /\ db = <<>> /\ events = <<>> /\ events_by_order = <<>>
  /\ incomplete_order_history = {}
  /\ next_id = 1 /\ restarts = 0

(* The oldest event leaves the cache and its order's index entry; an entry  *)
(* left empty is erased.                                                    *)
(* (Mutant: the index keeps it.)                                            *)
EvictFromCacheOnly(index, evicted) == index

EvictFrom(index, evicted) ==
  LET o == evicted.order_id
      left == Among(index[o], [id : Nat \ {evicted.id}, order_id : {o}])
  IN IF left = <<>> THEN [x \in DOMAIN index \ {o} |-> index[x]]
     ELSE [index EXCEPT ![o] = left]

IndexedOf(o) == IF o \in DOMAIN events_by_order THEN events_by_order[o] ELSE <<>>

(* The index with one more event.                                           *)
IndexAtBack(o, e) ==
  [x \in DOMAIN events_by_order \cup {o} |->
     IF x = o THEN Append(IndexedOf(o), e) ELSE events_by_order[x]]

Publish(o) ==
  LET e == [id |-> next_id, order_id |-> o]
      indexed == IndexAtBack(o, e)
  IN /\ next_id <= MaxEvents
     /\ next_id' = next_id + 1
     /\ db' = Append(db, e)
     /\ IF Len(events) + 1 > CacheCapacity
        THEN /\ events' = Front(<<e>> \o events)
             /\ events_by_order' = EvictFrom(indexed, Last(<<e>> \o events))
             /\ incomplete_order_history' =
                  incomplete_order_history \cup {Last(<<e>> \o events).order_id}
        ELSE /\ events' = <<e>> \o events
             /\ events_by_order' = indexed
             /\ UNCHANGED incomplete_order_history
     /\ UNCHANGED restarts

(* SQLite refuses the insert: persist throws after the id was taken.        *)
PublishFails ==
  /\ next_id <= MaxEvents
  /\ next_id' = next_id + 1
  /\ UNCHANGED <<db, events, events_by_order, incomplete_order_history, restarts>>

(* The id ids continue from after a restart: the greatest in the table.     *)
LastId == IF db = <<>> THEN 0 ELSE Last(db).id

(* load_recent reads the newest CacheCapacity rows; when it got that many,  *)
(* the orders it loaded are looked up in SQLite from then on.               *)
Restart ==
  LET from == IF Len(db) > CacheCapacity THEN Len(db) - CacheCapacity + 1 ELSE 1
      loaded == SubSeq(db, from, Len(db))
  IN /\ restarts < MaxRestarts
     /\ restarts' = restarts + 1
     /\ events' = Reverse(loaded)
     /\ next_id' = LastId + 1
     /\ events_by_order' = IndexOf(loaded)
     /\ incomplete_order_history' =
          IF Len(loaded) >= CacheCapacity THEN DOMAIN IndexOf(loaded) ELSE {}
     /\ UNCHANGED db

StoreNext == (\E o \in OrderId : Publish(o)) \/ PublishFails \/ Restart

StoreSpec == StoreInit /\ [][StoreNext]_store_vars

-----------------------------------------------------------------------------
(* events_for_order (mutant: the index is always trusted).                  *)
EventsInIndex(o) ==
  IF o \in DOMAIN events_by_order THEN events_by_order[o] ELSE OfOrder(db, o)

EventsForOrder(o) ==
  IF o \in DOMAIN events_by_order /\ o \notin incomplete_order_history
  THEN events_by_order[o]
  ELSE OfOrder(db, o)

Event == [id : 1 .. MaxEvents, order_id : OrderId]

(* The type of every variable of the store.                                 *)
StoreTypeOK ==
  /\ db \in Seq(Event) /\ events \in Seq(Event)
  /\ \A o \in DOMAIN events_by_order :
       o \in OrderId /\ events_by_order[o] \in Seq(Event)
  /\ incomplete_order_history \subseteq OrderId
  /\ next_id \in 1 .. (MaxEvents + 1)
  /\ restarts \in 0 .. MaxRestarts

(* The cache is the newest rows of the table, newest first, and the         *)
(* per-order index holds exactly the cached events, oldest first, whatever  *)
(* was evicted, refused by SQLite or reloaded before; and the next id is    *)
(* above all of the table's, also after a restart that gives out again the  *)
(* ids of refused inserts, so that the primary key refuses no event.        *)
CacheIsNewest ==
  /\ Len(events) <= CacheCapacity
  /\ events = SubSeq(Reverse(db), 1, Len(events))
  /\ Len(events) < CacheCapacity => Len(events) = Len(db)
  /\ events_by_order = IndexOf(Reverse(events))
  /\ \A i \in DOMAIN db : db[i].id < next_id

(* A lookup returns the whole history of the order, as events_by_order_ and *)
(* incomplete_order_history_ are meant to ensure ("lookups must fall back   *)
(* to SQLite" once the in-memory history is incomplete).                    *)
LookupComplete == \A o \in OrderId : EventsForOrder(o) = OfOrder(db, o)

(* What lookups do ensure: they are complete in the process that published  *)
(* the events, whatever was evicted from the cache since, and after         *)
(* restarts they may miss the oldest events of an order but never the       *)
(* newest.                                                                  *)
LookupIsSuffix ==
  /\ \A o \in OrderId : IsSuffix(EventsForOrder(o), OfOrder(db, o))
  /\ restarts = 0 => LookupComplete

=============================================================================
