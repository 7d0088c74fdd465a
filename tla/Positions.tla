------------------------------ MODULE Positions ------------------------------
(***************************************************************************)
(* The position manager (src/src/position_manager.cpp) and the             *)
(* reconciliation that recomputes positions (src/src/reconciliation.cpp),  *)
(* as operators on the position of one symbol.  Quantities are signed,     *)
(* buys positive.  Prices are multiples of a scale that makes the average  *)
(* cost whole.                                                             *)
(***************************************************************************)
EXTENDS Integers, Sequences, SequencesExt

Flat == [net |-> 0, average_cost |-> 0, realized |-> 0, mark_price |-> 0,
         unrealized |-> 0]

Magnitude(n) == IF n < 0 THEN -n ELSE n

(* A fill in the direction of the position, or on a flat one, adds to it.   *)
AddsTo(position, quantity) ==
  position.net = 0 \/ (position.net > 0 <=> quantity > 0)

AverageCost(position, quantity, price) ==
  LET held == Magnitude(position.net)
      traded == Magnitude(quantity)
  IN IF AddsTo(position, quantity)
     THEN (held * position.average_cost + traded * price) \div (held + traded)
     ELSE IF traded = held THEN 0
     ELSE IF traded > held THEN price
     ELSE position.average_cost

(* What a fill closes is realized at the average cost; the fee is paid.     *)
RealizedBy(position, fill) ==
  LET closing == IF AddsTo(position, fill.quantity) THEN 0
                 ELSE IF Magnitude(fill.quantity) < Magnitude(position.net)
                 THEN Magnitude(fill.quantity) ELSE Magnitude(position.net)
      gain == IF position.net > 0 THEN fill.price - position.average_cost
              ELSE position.average_cost - fill.price
  IN gain * closing - fill.fee

Unrealized(position, price) == (price - position.average_cost) * position.net

(* mark. *)
Mark(position, price) ==
  [position EXCEPT !.mark_price = price, !.unrealized = Unrealized(position, price)]

(* apply_fill: only a position that has a mark is marked again.             *)
ApplyFill(position, fill) ==
  LET filled == [position EXCEPT
                   !.net = @ + fill.quantity,
                   !.average_cost = AverageCost(position, fill.quantity, fill.price),
                   !.realized = @ + RealizedBy(position, fill)]
  IN IF position.mark_price > 0 THEN Mark(filled, position.mark_price) ELSE filled

(* The position that a restarted server rebuilds from the fills on record.  *)
Rebuilt(fills) == FoldLeft(ApplyFill, Flat, fills)

(* The order in which the API hands the fills over: parent by parent.       *)
ByParent(fills, parents) ==
  FoldLeft(LAMBDA all, p : all \o SelectSeq(fills, LAMBDA fill : fill.parent = p),
           <<>>, parents)

(* reconcile_positions: the figures recomputed from the fills, unrealized   *)
(* ones at the actual mark, and which of them the actual position has.      *)
Reconcile(fills, actual) ==
  LET expected == FoldLeft(
        LAMBDA position, fill :
          [position EXCEPT !.net = @ + fill.quantity,
                           !.average_cost = AverageCost(position, fill.quantity, fill.price),
                           !.realized = @ + RealizedBy(position, fill)],
        Flat, fills)
      unrealized == Unrealized(expected, actual.mark_price)
  IN [quantity |-> actual.net = expected.net,
      average_cost |-> actual.average_cost = expected.average_cost,
      realized |-> actual.realized = expected.realized,
      unrealized |-> actual.unrealized = unrealized,
      total |-> actual.realized + actual.unrealized = expected.realized + unrealized]

=============================================================================
