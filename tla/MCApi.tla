-------------------------------- MODULE MCApi --------------------------------
(* Two orders of one lot at one tick.                                       *)
EXTENDS Api

MCRequests ==
  {r \in [order_id : OrderId, client_id : ClientId, side : {"Buy", "Sell"},
          type : {"Limit", "Market"}, price : {0, 1}, quantity : {1},
          symbol : {Symbol}] : (r.type = "Market") = (r.price = 0)}
MCCancels == [order_id : OrderId, client_id : ClientId]
MCReplaces == [order_id : OrderId, client_id : ClientId, new_price : {1},
               new_quantity : {1}]
MCBands == {[lower |-> 1, upper |-> 1]}
=============================================================================
