----------------------------- MODULE MCOrderBook -----------------------------
(* Small instances of OrderBook: MaxPrice price ticks, quantities up to     *)
(* MaxQuantity of a Quantity type of QuantityModulus values, well-formed    *)
(* requests of the given types and one of each kind that validate refuses.  *)
EXTENDS OrderBook, TLC

CONSTANTS MaxQuantity, MaxPrice, Types

Ask(id, client, side, type, price, quantity, symbol) ==
  [order_id |-> id, client_id |-> client, side |-> side, type |-> type,
   price |-> price, quantity |-> quantity, symbol |-> symbol]

MCRequests ==
  {r \in [order_id : OrderId, client_id : ClientId, side : Side, type : Types,
          price : 0 .. MaxPrice, quantity : 1 .. MaxQuantity, symbol : {Symbol}] :
     (r.type = "Market") = (r.price = 0)}
  \cup
  UNION {{Ask(id, c, "Buy", "Limit", 0, 1, Symbol),
          Ask(id, c, "Buy", "Market", 1, 1, Symbol),
          Ask(id, c, "Buy", "Limit", 1, 0, Symbol)}
         \cup {Ask(id, c, "Buy", "Limit", 1, 1, s) : s \in SymbolId \ {Symbol}} :
           <<id, c>> \in OrderId \X ClientId}

MCCancels == [order_id : OrderId, client_id : ClientId]

(* Replacements to any tick and quantity, and one to no price and one to    *)
(* no quantity.                                                             *)
MCReplaces ==
  {r \in [order_id : OrderId, client_id : ClientId, new_price : 0 .. MaxPrice,
          new_quantity : 0 .. MaxQuantity] :
     r.new_price = 0 => r.new_quantity = 1}

Symmetric == Permutations(OrderId) \cup Permutations(ClientId)

(* What the future depends on: out is only ever read as the output of the   *)
(* step that wrote it.                                                      *)
BookView == <<orders, levels, stp_policy, taker, remaining, mirror>>
=============================================================================
