------------------------------- MODULE Router --------------------------------
(***************************************************************************)
(* The smart order router (src/src/router.cpp), the quotes it is given     *)
(* (src/src/router_market_data.cpp) and the simulated venues that execute  *)
(* its plan (src/src/execution_engine.cpp), as operators.  A quote is a    *)
(* record of a venue, its levels, best first, and its costs; venues are    *)
(* numbers, in the order of their names.  Prices and quantities are whole  *)
(* numbers, and effective prices are scaled by 10000, so that the          *)
(* comparisons of the code are exact.                                      *)
(***************************************************************************)
EXTENDS Integers, Sequences, FiniteSets, SequencesExt

Bps == 10000

(* calculate_effective_price: fee and latency make a level dearer for a     *)
(* buyer and cheaper for a seller.                                          *)
EffectivePrice(side, quote, price) ==
  LET cost == quote.taker_fee_bps + quote.latency * quote.latency_cost
  IN price * (IF side = "Buy" THEN Bps + cost ELSE Bps - cost)

(* The valid levels of the healthy venues on the other side.                *)
Candidates(side, quotes) ==
  UNION {LET levels == IF side = "Buy" THEN quote.asks ELSE quote.bids
         IN {[venue |-> quote.venue, price |-> levels[i].price,
              quantity |-> levels[i].quantity, latency |-> quote.latency,
              effective |-> EffectivePrice(side, quote, levels[i].price), index |-> i] :
               i \in {j \in DOMAIN levels : levels[j].price > 0 /\ levels[j].quantity > 0}} :
           quote \in {q \in quotes : q.healthy}}

(* Cheapest first; then the faster venue, the venue's name, the level.      *)
Before(side, a, b) ==
  IF a.effective # b.effective
  THEN IF side = "Buy" THEN a.effective < b.effective ELSE a.effective > b.effective
  ELSE \/ a.latency < b.latency
       \/ a.latency = b.latency /\ a.venue < b.venue
       \/ a.latency = b.latency /\ a.venue = b.venue /\ a.index < b.index

WithinLimit(request, c) ==
  request.limit > 0 =>
    IF request.side = "Buy" THEN c.price <= request.limit ELSE c.price >= request.limit

(* Slippage is measured from the cheapest candidate, in limit or not.       *)
WithinSlippage(request, c, arrival) ==
  IF request.side = "Buy"
  THEN c.effective * Bps <= arrival * (Bps + request.max_slippage_bps)
  ELSE c.effective * Bps >= arrival * (Bps - request.max_slippage_bps)

LegsTotal(legs) == FoldLeft(LAMBDA sum, leg : sum + leg.quantity, 0, legs)
VenuesOf(legs) == {legs[i].venue : i \in DOMAIN legs}

(* build_route_plan: the legs of the plan.                                  *)
BuildRoutePlan(request, quotes) ==
  LET candidates == SetToSortSeq(Candidates(request.side, quotes),
                                 LAMBDA a, b : Before(request.side, a, b))
      usable(legs, c) ==
        /\ LegsTotal(legs) < request.quantity
        /\ WithinLimit(request, c)
        /\ WithinSlippage(request, c, candidates[1].effective)
        /\ c.venue \in VenuesOf(legs) \/ Cardinality(VenuesOf(legs)) < request.max_venue_count
      take(legs, c) ==
        LET left == request.quantity - LegsTotal(legs)
        IN IF usable(legs, c)
           THEN Append(legs, [c EXCEPT !.quantity = IF left < c.quantity THEN left ELSE c.quantity])
           ELSE legs
      legs == FoldLeft(take, <<>>, candidates)
  IN IF request.all_or_none /\ LegsTotal(legs) < request.quantity THEN <<>> ELSE legs

(* simulate_route_execution: what becomes of a leg that the venue rejects   *)
(* or not, with the fill ratio in percent; quantities are in hundredths.    *)
SimulateLeg(leg, rejected, fill_ratio) ==
  LET requested == 100 * leg.quantity
      filled == IF rejected THEN 0 ELSE leg.quantity * fill_ratio
  IN [requested |-> requested, filled |-> filled, remaining |-> requested - filled,
      status |-> IF filled = 0 THEN "Rejected"
                 ELSE IF filled = requested THEN "Filled" ELSE "PartiallyFilled"]
=============================================================================
