--------------------------------- MODULE Api ---------------------------------
(***************************************************************************)
(* Order entry over HTTP (src/apps/api.cpp): the single server thread, the *)
(* lock state.mutex, the client risk engine (src/src/risk.cpp), the halts  *)
(* and price bands of the exchange (src/src/exchange.cpp) and, behind      *)
(* them, the order book of one symbol, which is module OrderBook.  Other   *)
(* threads halt the exchange or the symbol at any moment.                  *)
(***************************************************************************)
EXTENDS Integers, Sequences, FiniteSets

CONSTANTS
  OrderId, ClientId, SymbolId, Symbol, Capacity, QuantityModulus,
  Requests, Cancels, Replaces, Policies, NoTaker,     \* of the book
  Bands,                \* [lower, upper] price bands an operator sets
  NoBand,
  NoRequest,
  MaxOrderQuantity,     \* RiskLimits::max_order_quantity
  MaxAbsPosition,
  MaxOpenNotional

VARIABLES
  orders, levels, stp_policy, taker, remaining, out, mirror,   \* of the book
  request,              \* the HTTP request being handled
  pc,                   \* where the server thread stands
  mutex,                \* state.mutex: "free" or "held", by that thread
  globally_halted,
  symbol_halted,
  band,
  open_notional         \* client -> RiskState::open_notional

Book == INSTANCE OrderBook

bookVars == <<orders, levels, stp_policy, taker, remaining, out, mirror>>
gateVars == <<globally_halted, symbol_halted, band>>
vars == <<bookVars, request, pc, mutex, gateVars, open_notional>>

Init ==
  /\ Book!Init
  /\ request = NoRequest /\ pc = "accept" /\ mutex = "free"
  /\ globally_halted = FALSE /\ symbol_halted = FALSE /\ band = NoBand
  /\ open_notional = [c \in ClientId |-> 0]

-----------------------------------------------------------------------------
(* A request that needs the lock is read and waits for it.                 *)
Accept ==
  /\ pc = "accept"
  /\ request' \in [kind : {"order"}, body : Requests]
                    \cup [kind : {"cancel"}, body : Cancels]
                    \cup [kind : {"replace"}, body : Replaces]
  /\ pc' = "lock"
  /\ UNCHANGED <<bookVars, mutex, gateVars, open_notional>>

Lock ==
  /\ pc = "lock" /\ mutex = "free"
  /\ mutex' = "held"
  /\ pc' = request.kind
  /\ UNCHANGED <<bookVars, request, gateVars, open_notional>>

(* lock_guard releases the mutex when the handler returns its response.    *)
Respond == mutex' = "free" /\ pc' = "accept" /\ request' = NoRequest

(* RiskEngine::allow, in a process that never reports fills or profits to  *)
(* the engine: the position it knows stays 0.                              *)
Allow(r) ==
  /\ r.quantity > 0 /\ r.quantity <= MaxOrderQuantity
  /\ r.quantity <= MaxAbsPosition
  /\ r.type # "Market" =>
       /\ r.quantity * r.price >= 0
       /\ open_notional[r.client_id] <= MaxOpenNotional - r.quantity * r.price

(* The checks that Exchange::submit makes before it asks the book.         *)
Admitted(r) ==
  /\ ~globally_halted /\ ~symbol_halted
  /\ r.type # "Market" /\ band # NoBand => r.price \in band.lower .. band.upper

RefuseOrder ==
  /\ pc = "order"
  /\ ~Allow(request.body) \/ ~Admitted(request.body)
  /\ Respond
  /\ UNCHANGED <<bookVars, gateVars, open_notional>>

(* The book refuses the order, or takes it and starts to match.            *)
SubmitOrder ==
  /\ pc = "order" /\ Allow(request.body) /\ Admitted(request.body)
  /\ \/ Book!RejectSubmit(request.body) /\ Respond
     \/ /\ Book!AcceptSubmit(request.body)
        /\ pc' = "match"
        /\ UNCHANGED <<request, mutex>>
  /\ UNCHANGED <<gateVars, open_notional>>

(* One iteration of the match loop.  The handler of on_trade runs inside   *)
(* it, on the same thread, and begins by locking state.mutex.              *)
Match ==
  /\ pc = "match" /\ Book!MatchStep
  /\ pc' = IF Book!TradesIn(out') # {} THEN "trade_handler"
           ELSE IF taker' = NoTaker THEN "respond" ELSE "match"
  /\ UNCHANGED <<request, mutex, gateVars, open_notional>>

TradeHandler ==
  /\ pc = "trade_handler" /\ mutex = "free"
  /\ pc' = IF taker = NoTaker THEN "respond" ELSE "match"
  /\ UNCHANGED <<bookVars, request, mutex, gateVars, open_notional>>

(* on_order_accepted for an order, then the response.                      *)
AnswerMatched ==
  /\ pc = "respond"
  /\ open_notional' =
       IF request.kind = "order" /\ request.body.type # "Market"
       THEN [open_notional EXCEPT ![request.body.client_id] =
               @ + request.body.quantity * request.body.price]
       ELSE open_notional
  /\ Respond
  /\ UNCHANGED <<bookVars, gateVars>>

CancelOrder ==
  /\ pc = "cancel"
  /\ Book!Cancel(request.body)
  /\ Respond
  /\ UNCHANGED <<gateVars, open_notional>>

(* Neither the risk engine nor the halts and bands are asked.              *)
ReplaceOrder ==
  /\ pc = "replace"
  /\ Book!Replace(request.body)
  /\ IF taker' = NoTaker THEN Respond
     ELSE pc' = "match" /\ UNCHANGED <<request, mutex>>
  /\ UNCHANGED <<gateVars, open_notional>>

-----------------------------------------------------------------------------
(* Requests that need no lock are handled between two others.              *)
Operate ==
  /\ pc = "accept"
  /\ \/ globally_halted' \in BOOLEAN /\ UNCHANGED <<symbol_halted, band>>
     \/ symbol_halted' \in BOOLEAN /\ UNCHANGED <<globally_halted, band>>
     \/ band' \in Bands \cup {NoBand} /\ UNCHANGED <<globally_halted, symbol_halted>>
  /\ UNCHANGED <<bookVars, request, pc, mutex, open_notional>>

(* The market sampler halts the symbol after a price jump, a job thread    *)
(* the exchange when a fill breaches the portfolio limits.                 *)
Breaker ==
  /\ \/ symbol_halted' = TRUE /\ UNCHANGED globally_halted
     \/ globally_halted' = TRUE /\ UNCHANGED symbol_halted
  /\ UNCHANGED <<bookVars, request, pc, mutex, band, open_notional>>

ServerStep ==
  \/ Lock \/ RefuseOrder \/ SubmitOrder \/ Match \/ TradeHandler \/ AnswerMatched
  \/ CancelOrder \/ ReplaceOrder

Next == Accept \/ ServerStep \/ Operate \/ Breaker

Spec == Init /\ [][Next]_vars

(* The server thread runs whenever it can.                                 *)
FairSpec == Spec /\ WF_vars(ServerStep)

-----------------------------------------------------------------------------
(* "MARKET executes immediately." and "LIMIT can rest on the book."        *)
(* (src/frontend/src/pages/Trading.tsx): a request that the server thread  *)
(* has read is answered, and the server is there for the next one.         *)
RequestsAnswered == pc # "accept" ~> pc = "accept"

=============================================================================
