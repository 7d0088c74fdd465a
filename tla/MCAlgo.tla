------------------------------- MODULE MCAlgo --------------------------------
(* A small instance of Algo, and the schedules, the router and the positions *)
(* over more inputs.                                                        *)
EXTENDS Algo

Order(algorithm, quantity, slices, profile, displayed) ==
  [algorithm |-> algorithm, quantity |-> quantity, slices |-> slices,
   profile |-> profile, displayed |-> displayed]

(* One slice in up to two legs, two slices, a schedule short of the order.  *)
MCRequests ==
  {Order("Iceberg", 2, 1, <<>>, 2), Order("TWAP", 2, 2, <<>>, 0),
   Order("POV", 2, 1, <<0, 1>>, 0)}

(* Every schedule has slices of no negative quantity that add up to the     *)
(* order, or for POV to the order or all the volume it may take, with no    *)
(* empty slice; an iceberg never shows more than it may.                    *)
Profiles == UNION {[1 .. n -> 0 .. 3] : n \in 1 .. 3}
ASSUME SchedulesAddUp ==
  \A q \in 1 .. 6 :
    /\ \A n \in 1 .. 6 : SumOf(TwapSchedule(q, n)) = q
    /\ \A w \in Profiles : SumOf(w) > 0 =>
         /\ SumOf(VwapSchedule(q, w)) = q
         /\ \A i \in DOMAIN w : VwapSchedule(q, w)[i] >= 0
    /\ \A w \in Profiles :
         /\ SumOf(PovSchedule(q, w)) = AtMost(q, SumOf(w))
         /\ \A i \in DOMAIN PovSchedule(q, w) : PovSchedule(q, w)[i] > 0
    /\ \A d \in 1 .. 6 :
         /\ SumOf(IcebergSchedule(q, d)) = q
         /\ \A i \in DOMAIN IcebergSchedule(q, d) : IcebergSchedule(q, d)[i] \in 1 .. d

(* The plans of the router over two venues with up to two levels each.      *)
Routing == INSTANCE Router

Levels == UNION {[1 .. n -> [price : 1 .. 2, quantity : 1 .. 2]] : n \in 0 .. 2}
Quote(venue, levels, fee) ==
  [venue |-> venue, bids |-> levels, asks |-> levels, taker_fee_bps |-> fee,
   latency |-> 1, latency_cost |-> 0, healthy |-> TRUE]
RouteRequests ==
  [side : {"Buy", "Sell"}, quantity : {1, 3}, limit : {0, 1}, max_slippage_bps : {0, 40000},
   max_venue_count : 1 .. 2, all_or_none : BOOLEAN]
Cost(legs) == FoldLeft(LAMBDA sum, leg : sum + leg.quantity * leg.effective, 0, legs)

(* The cheapest way to trade q at the candidates, dearest for a seller.     *)
BestCost(side, candidates, q) ==
  LET ways == {w \in [candidates -> 0 .. 2] :
                 /\ \A c \in candidates : w[c] <= c.quantity
                 /\ MapThenSumSet(LAMBDA c : w[c], candidates) = q}
      costs == {MapThenSumSet(LAMBDA c : w[c] * c.effective, candidates) : w \in ways}
  IN IF side = "Buy" THEN Min(costs) ELSE Max(costs)

(* A plan never asks for more than the slice or than a level has, keeps to  *)
(* the number of venues and to all-or-none; and where neither slippage nor  *)
(* venues are limited it takes all it can get within the limit, at the best *)
(* cost there is.                                                           *)
ASSUME PlansAreSound ==
  \A one, two \in Levels, fee \in {0, 6000}, request \in RouteRequests :
    LET quotes == {Quote(1, one, 0), Quote(2, two, fee)}
        legs == Routing!BuildRoutePlan(request, quotes)
        total == Routing!LegsTotal(legs)
        reach == {c \in Routing!Candidates(request.side, quotes) :
                    Routing!WithinLimit(request, c)}
        depth == MapThenSumSet(LAMBDA c : c.quantity, reach)
    IN /\ total <= AtMost(request.quantity, depth)
       /\ Cardinality(Routing!VenuesOf(legs)) <= request.max_venue_count
       /\ request.all_or_none => total \in {0, request.quantity}
       /\ /\ request.max_venue_count = 2 /\ request.max_slippage_bps = 40000
          /\ ~request.all_or_none
          => /\ total = AtMost(request.quantity, depth)
             /\ Cost(legs) = BestCost(request.side, reach, total)

(* What the simulated venues do with a leg is what OpenLeg .. EndLeg allow: *)
(* nothing is filled of a rejected leg, something of any other.             *)
ASSUME LegsEndAsModelled ==
  \A q \in 1 .. 3, ratio \in 0 .. 100, rejected \in BOOLEAN :
    LET leg == Routing!SimulateLeg([quantity |-> q], rejected, ratio)
    IN /\ leg.filled + leg.remaining = leg.requested
       /\ leg.status = "Rejected" <=> leg.filled = 0
       /\ leg.status = "Filled" <=> leg.remaining = 0

(* The profit of a position, realized and unrealized, is what the fills     *)
(* brought in and what the position is worth, whatever the average cost     *)
(* went through: a restarted server that applies the fills in another order *)
(* comes to the same quantity and the same profit.                          *)
Accounts == INSTANCE Positions
Scale == 10080
PositionFills == [quantity : {-2, -1, 1, 2}, price : {Scale, 2 * Scale}, fee : {1}]
ASSUME ProfitsAddUp ==
  \A f \in [1 .. 4 -> PositionFills], mark \in {Scale, 3 * Scale} :
    LET position == Accounts!Rebuilt(f)
    IN /\ position.net = SumOf([i \in 1 .. 4 |-> f[i].quantity])
       /\ position.realized + Accounts!Unrealized(position, mark)
            = SumOf([i \in 1 .. 4 |-> f[i].quantity * (mark - f[i].price) - f[i].fee])
       /\ position.net = 0 => position.average_cost = 0

(* Reconciliation recomputes the position with the fills sorted by parent.  *)
(* A position that was marked comes out with its quantity and its total     *)
(* profit whatever the order the fills came in, and with every figure when  *)
(* the parents were filled one after the other; where their fills           *)
(* interleaved, cost and realized profit may differ without an error.       *)
ParentFills(sides) ==
  {[parent |-> p, quantity |-> q * sides[p], price |-> price, fee |-> 1] :
     p \in 1 .. 2, q \in 1 .. 2, price \in {Scale, 2 * Scale}}
ASSUME ReconciliationTells ==
  \A sides \in [1 .. 2 -> {-1, 1}] : \A f \in [1 .. 3 -> ParentFills(sides)] :
    LET sorted == Accounts!ByParent(f, <<1, 2>>)
        found == Accounts!Reconcile(sorted, Accounts!Mark(Accounts!Rebuilt(f), 3 * Scale))
    IN /\ found.quantity /\ found.total
       /\ sorted = f => found.average_cost /\ found.realized /\ found.unrealized
       /\ found.average_cost => found.realized /\ found.unrealized
=============================================================================
