------------------------------ MODULE OrderBook ------------------------------
(***************************************************************************)
(* The limit order book of one symbol (src/src/order_book.cpp).            *)
(*                                                                         *)
(* A book keeps its resting orders by id (by_id_ and nodes_) and, for each *)
(* side, the price levels that hold at least one order (bids_, asks_).  A  *)
(* level is a FIFO of order ids and a running total of their quantity; the *)
(* intrusive list behind the FIFO is the subject of module OrderNodes.     *)
(*                                                                         *)
(* A submit is a loop that meets one resting order per iteration and calls *)
(* the report and trade handlers while the book is half way through.  Each *)
(* iteration is a step here: `taker' is the order being matched, NoTaker   *)
(* between calls, and `remaining' what is left of it.  No other call can   *)
(* start before it ends, because the book is driven by one thread.         *)
(***************************************************************************)
EXTENDS Integers, Sequences, FiniteSets, FiniteSetsExt, SequencesExt

CONSTANTS
  OrderId, ClientId, SymbolId,
  Symbol,            \* the symbol this book trades
  Capacity,          \* slots in nodes_
  QuantityModulus,   \* 2^32 in the code: Quantity is a uint32_t
  Requests,          \* the submit, cancel and replace requests callers make
  Cancels,
  Replaces,
  Policies,          \* the self-trade policies the operator switches between
  NoTaker            \* no submit in progress

Side == {"Buy", "Sell"}
OrderType == {"Limit", "Market", "IOC", "FOK", "PostOnly"}
StpPolicy == {"None", "CancelNewest", "CancelOldest", "CancelBoth"}
Quantity == 0 .. (QuantityModulus - 1)

OrderRequest ==
  [order_id : OrderId, client_id : ClientId, side : Side, type : OrderType,
   price : Int, quantity : Quantity, symbol : SymbolId]
CancelRequest == [order_id : OrderId, client_id : ClientId]
ReplaceRequest ==
  [order_id : OrderId, client_id : ClientId, new_price : Int, new_quantity : Quantity]

ASSUME BookAssumption ==
  /\ Symbol \in SymbolId
  /\ Capacity \in Nat
  /\ QuantityModulus \in Nat \ {0}
  /\ \A r \in Requests : r \in OrderRequest
  /\ \A r \in Cancels : r \in CancelRequest
  /\ \A r \in Replaces : r \in ReplaceRequest
  /\ Policies \subseteq StpPolicy
  /\ NoTaker \notin OrderRequest

VARIABLES
  orders,       \* resting orders: id -> client, side, price, remaining
  levels,       \* side -> price -> [queue of ids, total]; only non-empty levels
  stp_policy,   \* self-trade prevention in force
  taker,        \* the request being matched, or NoTaker
  remaining,    \* what is left of it
  out,          \* reports and trades handed to the handlers by the last step
  mirror        \* open quantity per order, as a subscriber to `out' knows it

bookVars == <<orders, levels>>
vars == <<orders, levels, stp_policy, taker, remaining, out, mirror>>

-----------------------------------------------------------------------------
(* Reports and trades.                                                     *)

Report(id, status, left, reason) ==
  [kind |-> "report", order_id |-> id, status |-> status, remaining |-> left,
   reason |-> reason]

Trade(maker, price, quantity) ==
  [kind |-> "trade", maker |-> maker, taker |-> taker.order_id, price |-> price,
   quantity |-> quantity]

(* A subscriber opens an order on Accepted or Replaced, takes every trade  *)
(* off both sides and closes the order on a final report.                  *)
Observe(m, e) ==
  IF e.kind = "trade"
  THEN [id \in DOMAIN m |->
          IF id \in {e.maker, e.taker} THEN m[id] - e.quantity ELSE m[id]]
  ELSE CASE e.status \in {"Accepted", "Replaced"} ->
              [id \in DOMAIN m \cup {e.order_id} |->
                 IF id = e.order_id THEN e.remaining ELSE m[id]]
         [] e.status \in {"Filled", "Cancelled", "Expired"} ->
              [id \in DOMAIN m \ {e.order_id} |-> m[id]]
         [] OTHER -> m

EmitNone == out' = <<>> /\ UNCHANGED mirror
Emit(e) == out' = <<e>> /\ mirror' = Observe(mirror, e)
EmitBoth(e, f) == out' = <<e, f>> /\ mirror' = Observe(Observe(mirror, e), f)

-----------------------------------------------------------------------------
(* The levels.                                                             *)

Opposite(side) == IF side = "Buy" THEN "Sell" ELSE "Buy"

Better(side, p, q) == IF side = "Buy" THEN p > q ELSE p < q

(* The first level of the map: bids_ is ordered by falling, asks_ by       *)
(* rising price.                                                           *)
IsBest(side, p) == \A q \in DOMAIN levels[side] : q = p \/ Better(side, p, q)

(* Mutant: an equal price does not cross.                                  *)
CrossesStrictly(t, p) ==
  \/ t.type = "Market"
  \/ IF t.side = "Buy" THEN t.price > p ELSE t.price < p

Crosses(t, p) ==
  \/ t.type = "Market"
  \/ IF t.side = "Buy" THEN t.price >= p ELSE t.price <= p

CrossingLevels(t) == {p \in DOMAIN levels[Opposite(t.side)] : Crosses(t, p)}

Totals(side) == [p \in DOMAIN levels[side] |-> levels[side][p].total]

(* Executable depth: a 64-bit sum of the 32-bit level totals.              *)
(* (Mutant: levels that do not cross are counted too.)                     *)
AvailableAtAnyPrice(t) == SumFunction(Totals(Opposite(t.side)))

AvailableToMatch(t) == SumFunctionOnSet(Totals(Opposite(t.side)), CrossingLevels(t))

Wrap(n) == n % QuantityModulus

PositionOf(id, q) == CHOOSE i \in DOMAIN q : q[i] = id

(* unlink: take an order out of its level and erase a level left empty.    *)
Unlink(id) ==
  LET o == orders[id]
      level == levels[o.side][o.price]
      rest == RemoveAt(level.queue, PositionOf(id, level.queue))
  IN [levels EXCEPT ![o.side] =
        IF rest = <<>>
        THEN [p \in DOMAIN @ \ {o.price} |-> @[p]]
        ELSE [@ EXCEPT ![o.price] =
                [queue |-> rest, total |-> Wrap(level.total - o.remaining)]]]

(* Lower the total of an order's level by the quantity that left it.       *)
(* (Mutant: the total is not touched.)                                     *)
ShrinkForgotten(id, delta) == levels

Shrink(id, delta) ==
  LET o == orders[id]
  IN [levels EXCEPT ![o.side][o.price].total = Wrap(@ - delta)]

(* by_id_.erase (mutant: the id stays in the index).                       *)
EraseForgotten(id) == orders

Without(id) == [x \in DOMAIN orders \ {id} |-> orders[x]]

(* remove_without_report: unlink, forget the id, free the slot.            *)
RemoveWithoutReport(id) == levels' = Unlink(id) /\ orders' = Without(id)

(* A level with one more order at its tail (mutant: at its head).          *)
LinkAtHead(level, id, left) ==
  [queue |-> <<id>> \o level.queue, total |-> Wrap(level.total + left)]

LinkAtTail(level, id, left) ==
  [queue |-> Append(level.queue, id), total |-> Wrap(level.total + left)]

(* rest: append to the tail of the level, which is created if missing.     *)
Rest(t, left) ==
  LET side == levels[t.side]
      level == IF t.price \in DOMAIN side
               THEN side[t.price] ELSE [queue |-> <<>>, total |-> 0]
  IN /\ levels' = [levels EXCEPT ![t.side] =
                     [p \in DOMAIN side \cup {t.price} |->
                        IF p = t.price THEN LinkAtTail(level, t.order_id, left)
                        ELSE side[p]]]
     /\ orders' = [id \in DOMAIN orders \cup {t.order_id} |->
                     IF id = t.order_id
                     THEN [client_id |-> t.client_id, side |-> t.side,
                           price |-> t.price, remaining |-> left]
                     ELSE orders[id]]

-----------------------------------------------------------------------------
(* submit, up to the match loop.                                           *)

Idle == taker = NoTaker

(* No free node (mutant: one order too many).                              *)
OneTooMany == Cardinality(DOMAIN orders) > Capacity
Full == Cardinality(DOMAIN orders) >= Capacity

(* validate, then the checks of PostOnly and FOK that submit makes itself. *)
SubmitRejection(r) ==
  CASE r.symbol # Symbol                          -> "InvalidPrice"
    [] r.symbol = Symbol /\ r.quantity = 0        -> "InvalidQuantity"
    [] r.symbol = Symbol /\ r.quantity # 0
       /\ (IF r.type = "Market" THEN r.price # 0 ELSE r.price <= 0)
                                                  -> "InvalidPrice"
    [] OTHER ->
         IF r.order_id \in DOMAIN orders THEN "DuplicateOrderId"
         ELSE IF Full THEN "CapacityExceeded"
         ELSE IF r.type = "PostOnly" /\ CrossingLevels(r) # {} THEN "WouldTrade"
         ELSE IF r.type = "FOK" /\ AvailableToMatch(r) < r.quantity
              THEN "InsufficientLiquidity"
         ELSE "None"

Reject(id, left, reason) ==
  /\ Emit(Report(id, "Rejected", left, reason))
  /\ UNCHANGED <<orders, levels, stp_policy, taker, remaining>>

StartMatch(r) == taker' = r /\ remaining' = r.quantity

RejectSubmit(r) ==
  /\ Idle
  /\ SubmitRejection(r) # "None"
  /\ Reject(r.order_id, r.quantity, SubmitRejection(r))

AcceptSubmit(r) ==
  /\ Idle
  /\ SubmitRejection(r) = "None"
  /\ Emit(Report(r.order_id, "Accepted", r.quantity, "None"))
  /\ StartMatch(r)
  /\ UNCHANGED <<orders, levels, stp_policy>>

-----------------------------------------------------------------------------
(* match_against: one iteration of the loop meets the head of the best     *)
(* level while that level crosses.                                         *)

(* (Mutant: the tail of the level is met first.)                           *)
IsNewestMaker(id) ==
  \E p \in CrossingLevels(taker) :
    /\ IsBest(Opposite(taker.side), p)
    /\ id = Last(levels[Opposite(taker.side)][p].queue)

IsMaker(id) ==
  \E p \in CrossingLevels(taker) :
    /\ IsBest(Opposite(taker.side), p)
    /\ id = Head(levels[Opposite(taker.side)][p].queue)

Meets(id) == ~Idle /\ remaining > 0 /\ IsMaker(id)

(* (Mutant: only CancelNewest prevents self-trades.)                       *)
SelfTradeNewestOnly(id) ==
  stp_policy = "CancelNewest" /\ orders[id].client_id = taker.client_id

SelfTrade(id) ==
  stp_policy # "None" /\ orders[id].client_id = taker.client_id

EndCall == taker' = NoTaker /\ remaining' = 0

TakerCancelled == Report(taker.order_id, "Cancelled", remaining, "None")
MakerCancelled(id) == Report(id, "Cancelled", orders[id].remaining, "None")

PreventNewest(id) ==
  /\ Meets(id) /\ SelfTrade(id) /\ stp_policy = "CancelNewest"
  /\ Emit(TakerCancelled)
  /\ EndCall
  /\ UNCHANGED <<orders, levels, stp_policy>>

PreventOldest(id) ==
  /\ Meets(id) /\ SelfTrade(id) /\ stp_policy = "CancelOldest"
  /\ RemoveWithoutReport(id)
  /\ Emit(MakerCancelled(id))
  /\ UNCHANGED <<stp_policy, taker, remaining>>

PreventBoth(id) ==
  /\ Meets(id) /\ SelfTrade(id) /\ stp_policy = "CancelBoth"
  /\ RemoveWithoutReport(id)
  /\ EmitBoth(MakerCancelled(id), TakerCancelled)
  /\ EndCall
  /\ UNCHANGED stp_policy

(* The taker eats the maker and goes on to the next one.                   *)
FillMaker(id) ==
  LET fill == orders[id].remaining IN
  /\ Meets(id) /\ ~SelfTrade(id) /\ fill <= remaining
  /\ RemoveWithoutReport(id)
  /\ EmitBoth(Trade(id, orders[id].price, fill), Report(id, "Filled", 0, "None"))
  /\ remaining' = remaining - fill
  /\ UNCHANGED <<stp_policy, taker>>

(* The maker is larger: it keeps its place and the taker is done.          *)
ReduceMaker(id) ==
  LET left == orders[id].remaining - remaining IN
  /\ Meets(id) /\ ~SelfTrade(id) /\ left > 0
  /\ orders' = [orders EXCEPT ![id].remaining = left]
  /\ levels' = Shrink(id, remaining)
  /\ EmitBoth(Trade(id, orders[id].price, remaining),
              Report(id, "PartiallyFilled", left, "None"))
  /\ remaining' = 0
  /\ UNCHANGED <<stp_policy, taker>>

-----------------------------------------------------------------------------
(* submit, after the match loop.                                           *)

LoopEnds == ~Idle /\ (remaining = 0 \/ CrossingLevels(taker) = {})

TakerPartlyFilled == Report(taker.order_id, "PartiallyFilled", remaining, "None")
(* (Mutant: the final report does not close the order.)                    *)
TakerLeftOpen == TakerPartlyFilled
TakerExpired == Report(taker.order_id, "Expired", remaining, "None")

FinishFilled ==
  /\ LoopEnds /\ remaining = 0
  /\ Emit(Report(taker.order_id, "Filled", 0, "None"))
  /\ EndCall
  /\ UNCHANGED <<orders, levels, stp_policy>>

FinishRest ==
  /\ LoopEnds /\ remaining > 0 /\ taker.type \in {"Limit", "PostOnly"}
  /\ Rest(taker, remaining)
  /\ IF remaining < taker.quantity THEN Emit(TakerPartlyFilled) ELSE EmitNone
  /\ EndCall
  /\ UNCHANGED stp_policy

FinishExpire ==
  /\ LoopEnds /\ remaining > 0 /\ taker.type \notin {"Limit", "PostOnly"}
  /\ IF remaining < taker.quantity
     THEN EmitBoth(TakerPartlyFilled, TakerExpired)
     ELSE Emit(TakerExpired)
  /\ EndCall
  /\ UNCHANGED <<orders, levels, stp_policy>>

-----------------------------------------------------------------------------
(* cancel and replace.                                                     *)

RejectUnknown(r) ==
  /\ r.order_id \notin DOMAIN orders
  /\ Reject(r.order_id, 0, "UnknownOrder")

RejectForeign(r) ==
  /\ r.order_id \in DOMAIN orders
  /\ orders[r.order_id].client_id # r.client_id
  /\ Reject(r.order_id, orders[r.order_id].remaining, "ClientMismatch")

Owns(r) ==
  /\ r.order_id \in DOMAIN orders
  /\ orders[r.order_id].client_id = r.client_id

Cancel(r) ==
  /\ Idle
  /\ \/ RejectUnknown(r)
     \/ RejectForeign(r)
     \/ /\ Owns(r)
        /\ RemoveWithoutReport(r.order_id)
        /\ Emit(MakerCancelled(r.order_id))
        /\ UNCHANGED <<stp_policy, taker, remaining>>

ReduceInPlace(r) ==
  LET o == orders[r.order_id] IN
  /\ r.new_price = o.price /\ r.new_quantity <= o.remaining
  /\ orders' = [orders EXCEPT ![r.order_id].remaining = r.new_quantity]
  /\ levels' = Shrink(r.order_id, o.remaining - r.new_quantity)
  /\ Emit(Report(r.order_id, "Replaced", r.new_quantity, "None"))
  /\ UNCHANGED <<stp_policy, taker, remaining>>

(* Otherwise the order is removed and submitted again as a limit order; the *)
(* slot and the id it has just given up make the second validation succeed. *)
Resubmit(r) ==
  LET o == orders[r.order_id] IN
  /\ ~(r.new_price = o.price /\ r.new_quantity <= o.remaining)
  /\ RemoveWithoutReport(r.order_id)
  /\ EmitBoth(Report(r.order_id, "Replaced", r.new_quantity, "None"),
              Report(r.order_id, "Accepted", r.new_quantity, "None"))
  /\ StartMatch([order_id |-> r.order_id, client_id |-> r.client_id,
                 side |-> o.side, type |-> "Limit", price |-> r.new_price,
                 quantity |-> r.new_quantity, symbol |-> Symbol])
  /\ UNCHANGED stp_policy

(* (Mutant: a replacement for nothing is not refused.)                     *)
ReplaceToZero(r) ==
  /\ Idle
  /\ \/ RejectUnknown(r)
     \/ RejectForeign(r)
     \/ /\ Owns(r)
        /\ IF r.new_price <= 0
           THEN Reject(r.order_id, orders[r.order_id].remaining, "InvalidReplacement")
           ELSE ReduceInPlace(r) \/ Resubmit(r)

Replace(r) ==
  /\ Idle
  /\ \/ RejectUnknown(r)
     \/ RejectForeign(r)
     \/ /\ Owns(r)
        /\ IF r.new_price <= 0 \/ r.new_quantity = 0
           THEN Reject(r.order_id, orders[r.order_id].remaining, "InvalidReplacement")
           ELSE ReduceInPlace(r) \/ Resubmit(r)

SetStpPolicy(p) ==
  /\ Idle
  /\ stp_policy' = p
  /\ EmitNone
  /\ UNCHANGED <<orders, levels, taker, remaining>>

Reset ==
  /\ Idle
  /\ orders' = <<>>
  /\ levels' = [s \in Side |-> <<>>]
  /\ out' = <<>>
  /\ mirror' = <<>>
  /\ UNCHANGED <<stp_policy, taker, remaining>>

-----------------------------------------------------------------------------
Init ==
  /\ orders = <<>>
  /\ levels = [s \in Side |-> <<>>]
  /\ stp_policy = "None"
  /\ taker = NoTaker
  /\ remaining = 0
  /\ out = <<>>
  /\ mirror = <<>>

Call ==
  \/ \E r \in Requests : RejectSubmit(r) \/ AcceptSubmit(r)
  \/ \E r \in Cancels : Cancel(r)
  \/ \E r \in Replaces : Replace(r)
  \/ \E p \in Policies : SetStpPolicy(p)
  \/ Reset

MatchStep ==
  \/ \E id \in DOMAIN orders :
       \/ PreventNewest(id)
       \/ PreventOldest(id)
       \/ PreventBoth(id)
       \/ FillMaker(id)
       \/ ReduceMaker(id)
  \/ FinishFilled
  \/ FinishRest
  \/ FinishExpire

Next == Call \/ MatchStep

Spec == Init /\ [][Next]_vars

-----------------------------------------------------------------------------
(* Correctness.                                                            *)

RestingOrder ==
  [client_id : ClientId, side : Side, price : Int, remaining : Quantity \ {0}]

(* The type of every variable of the book.                                 *)
TypeOK ==
  /\ DOMAIN orders \subseteq OrderId
  /\ \A id \in DOMAIN orders : orders[id] \in RestingOrder
  /\ DOMAIN levels = Side
  /\ \A s \in Side : \A p \in DOMAIN levels[s] :
       p \in Int /\ levels[s][p] \in [queue : Seq(OrderId), total : Quantity]
  /\ stp_policy \in StpPolicy
  /\ taker \in OrderRequest \cup {NoTaker}
  /\ remaining \in Quantity
  /\ DOMAIN mirror \subseteq OrderId

(* The two indexes of the book agree (by_id_ against bids_/asks_, kept in  *)
(* step by rest, unlink and the pop in match_against): every level holds   *)
(* only live orders of its own side and price, every live order stands in  *)
(* exactly one place of its level, and no empty level is left to be taken  *)
(* for the best price.                                                     *)
IndexConsistent ==
  /\ \A s \in Side : \A p \in DOMAIN levels[s] :
       LET q == levels[s][p].queue IN
       /\ q # <<>>
       /\ \A i \in DOMAIN q :
            /\ q[i] \in DOMAIN orders
            /\ orders[q[i]].side = s
            /\ orders[q[i]].price = p
       /\ \A i, j \in DOMAIN q : q[i] = q[j] => i = j
  /\ \A id \in DOMAIN orders :
       LET o == orders[id] IN
       /\ o.price \in DOMAIN levels[o.side]
       /\ \E i \in DOMAIN levels[o.side][o.price].queue :
            levels[o.side][o.price].queue[i] = id

(* No resting buy could trade with a resting sell: whatever sequence of    *)
(* submits, replaces and self-trade cancellations led here, an order only  *)
(* rests once match_against has nothing left that crosses it.              *)
NotCrossed ==
  \A a, b \in DOMAIN orders :
    orders[a].side = "Buy" /\ orders[b].side = "Sell"
      => orders[a].price < orders[b].price

OpenQuantity == [id \in DOMAIN orders |-> orders[id].remaining]

(* A level's running total is the sum of its orders' quantities modulo     *)
(* 2^32: fills, cancels and in-place reductions take off exactly what left *)
(* (the total is what available_to_match and quantity_at read).            *)
LevelTotals ==
  \A s \in Side : \A p \in DOMAIN levels[s] :
    levels[s][p].total
      = Wrap(SumFunctionOnSet(OpenQuantity, ToSet(levels[s][p].queue)))

(* Quantity is conserved and reported: a subscriber that only follows the  *)
(* reports and trades of emit_report and emit_trade knows, after every     *)
(* step, exactly which orders are open and for how much, the order being   *)
(* matched included.                                                       *)
MirrorExact ==
  /\ DOMAIN mirror =
       DOMAIN orders \cup (IF Idle THEN {} ELSE {taker.order_id})
  /\ \A id \in DOMAIN orders : mirror[id] = orders[id].remaining
  /\ ~Idle => /\ taker.order_id \notin DOMAIN orders
              /\ mirror[taker.order_id] = remaining

(* There is a slot for the order being matched, so that allocate_node never *)
(* throws after trades have been reported.                                  *)
SlotForTaker == ~Idle => Cardinality(DOMAIN orders) < Capacity

(* a stands before b in the queue q.                                        *)
Before(a, b, q) ==
  \E i, j \in DOMAIN q : i < j /\ q[i] = a /\ q[j] = b

TradesIn(events) ==
  {events[i] : i \in {j \in DOMAIN events : events[j].kind = "trade"}}

(* Price-time priority of match_against: the maker of a trade is an order   *)
(* that no other order on its side beats on price, or on place at the same  *)
(* price, and the trade is at the maker's price.                            *)
PriceTimePriority ==
  [][\A e \in TradesIn(out') :
       LET m == orders[e.maker] IN
       /\ e.price = m.price
       /\ \A id \in DOMAIN orders :
            orders[id].side = m.side =>
              /\ ~Better(m.side, orders[id].price, m.price)
              /\ ~Before(id, e.maker, levels[m.side][m.price].queue)]_vars

(* Time priority is never lost or gained silently: two orders that stay on  *)
(* a level keep their order, and an order that joins a level joins behind   *)
(* all that stay.  In-place reductions and partial fills keep the place; a  *)
(* price change or a larger quantity goes through the tail.                 *)
PlaceKept ==
  [][\A s \in Side : \A p \in DOMAIN levels[s] \cap DOMAIN levels'[s] :
       LET q == levels[s][p].queue
           n == levels'[s][p].queue
       IN n # q => \A a, b \in ToSet(n) :
            /\ Before(a, b, q) => Before(a, b, n)
            /\ a \in ToSet(q) /\ b \notin ToSet(q) => Before(a, b, n)]_vars

(* Self-trade prevention: while an order is matched, no trade pairs a       *)
(* client with itself when a policy is in force, and a resting order leaves *)
(* the book without a trade only if it is the taker's own client's and the  *)
(* policy cancels the oldest.                                               *)
SelfTradePrevented ==
  [][~Idle =>
       /\ \A e \in TradesIn(out') :
            stp_policy # "None"
              => orders[e.maker].client_id # taker.client_id
       /\ \A id \in DOMAIN orders \ DOMAIN orders' :
            \/ \E e \in TradesIn(out') : e.maker = id
            \/ /\ stp_policy \in {"CancelOldest", "CancelBoth"}
               /\ orders[id].client_id = taker.client_id]_vars

EndsFilled(events) ==
  events # <<>> /\ events[Len(events)].kind = "report"
    /\ events[Len(events)].status = "Filled"

(* Fill-or-kill without self-trade prevention: once accepted, a FOK order   *)
(* is filled completely by the call that submitted it.                      *)
FillOrKill ==
  [][~Idle /\ taker'= NoTaker /\ taker.type = "FOK" /\ stp_policy = "None"
       => EndsFilled(out')]_vars

(* The promise of docs/DESIGN.md, whatever the policy: "FOK: scans          *)
(* executable depth first and either fills completely or rejects without    *)
(* book mutation", so a FOK order never ends partly filled.                 *)
FillOrKillAlways ==
  [][~Idle /\ taker' = NoTaker /\ taker.type = "FOK"
       => EndsFilled(out') \/ remaining = taker.quantity]_vars

=============================================================================
