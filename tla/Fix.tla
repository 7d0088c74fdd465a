--------------------------------- MODULE Fix ---------------------------------
(***************************************************************************)
(* The FIX server: one FixSession per connection (src/src/fix_session.cpp),*)
(* the store that keeps sequence numbers and sent messages                 *)
(* (src/src/fix_store.cpp), the order gateway shared by all connections    *)
(* (src/src/fix_gateway.cpp) and the thread that serves a connection       *)
(* (src/apps/fix_server.cpp).                                              *)
(*                                                                         *)
(* Every connection uses the same session id.  A connection's thread takes *)
(* a message through receive, response, save, and for orders gateway,      *)
(* report and save again; another connection, a failed write or a crash    *)
(* may come between any two of these steps.  The counterparty may send     *)
(* anything, with any sequence number.  Times are left out: the server     *)
(* never asks whether a heartbeat is due.                                  *)
(***************************************************************************)
EXTENDS Integers, Sequences, FiniteSets

CONSTANTS
  Conns,       \* connections that can be open at the same time
  ClOrdIds,    \* client order ids
  MaxSeq,      \* bound on sequence numbers
  MaxReads,    \* bound on the messages read in a behaviour
  MaxCrashes   \* bound on the crashes of the server process

ASSUME FixAssumption ==
  /\ IsFiniteSet(Conns)
  /\ MaxSeq \in Nat \ {0} /\ MaxReads \in Nat /\ MaxCrashes \in Nat

VARIABLES
  conns,       \* the thread of each connection: its session and its place in the loop
  saved,       \* the row of fix_sessions: next incoming and outgoing numbers
  outbox,      \* the OUT rows of fix_messages, oldest first
  orders,      \* the orders of the gateway's OMS, in the order they were created
  by_id,       \* parent_by_client_order_id_ and child_by_client_order_id_
  handled,     \* aux: the numbers of the messages the gateway was given
  overlapped,  \* aux: two connections have been open at once
  reads, crashes

vars == <<conns, saved, outbox, orders, by_id, handled, overlapped, reads, crashes>>

Numbers == 1..MaxSeq

(* What the counterparty can send.  ok says that the fields the handler     *)
(* requires are there and well formed; number 0 stands for a MsgSeqNum that *)
(* is missing or not positive, "Misaddressed" for a message with foreign    *)
(* CompIDs.                                                                 *)
InMessage ==
  [type: {"Logon", "TestRequest"}, seq: 0..MaxSeq, ok: BOOLEAN]
    \union [type: {"Logout", "Heartbeat", "ExecutionReport", "Misaddressed"},
            seq: 0..MaxSeq, ok: {TRUE}]
    \union [type: {"ResendRequest"}, seq: 0..MaxSeq, ok: BOOLEAN,
            begin: Numbers, end: Numbers]
    \union [type: {"SequenceReset"}, seq: 0..MaxSeq, ok: BOOLEAN, new: Numbers]
    \union [type: {"NewOrderSingle"}, seq: 0..MaxSeq, ok: BOOLEAN, id: ClOrdIds]
    \union [type: {"OrderCancelRequest"}, seq: 0..MaxSeq, ok: BOOLEAN,
            id: ClOrdIds, orig: ClOrdIds]

Application == {"NewOrderSingle", "OrderCancelRequest"}
Administrative == {"Logon", "Logout", "Heartbeat", "TestRequest", "ResendRequest",
                   "SequenceReset", "Reject"}
OutType == Administrative \union {"ExecutionReport"}

Session == [state: {"Disconnected", "Active", "Terminated"}, in: Nat, out: Nat]
NoSession == [state |-> "Disconnected", in |-> 1, out |-> 1]

(***************************************************************************)
(* FixSession: what a message does to the session, whether it is accepted, *)
(* and the response, which takes the next outgoing number.                 *)
(***************************************************************************)
Silent(s, accepted) == [session |-> s, accepted |-> accepted, response |-> <<>>]

(* A message on its way out gets the next number.                           *)
prepare_outbound(s, type) ==
  [session |-> [s EXCEPT !.out = @ + 1], message |-> [seq |-> s.out, type |-> type]]

Answer(s, type, accepted) ==
  LET outbound == prepare_outbound(s, type)
  IN [session |-> outbound.session, accepted |-> accepted,
      response |-> <<outbound.message>>]

Reject(s) == Answer(s, "Reject", FALSE)

process_logon(s, m) ==
  IF s.state = "Disconnected" /\ m.ok
  THEN Answer([s EXCEPT !.state = "Active"], "Logon", TRUE)
  ELSE Reject(s)

process_logout(s) ==
  IF s.state = "Terminated" THEN Reject(s)
  ELSE Answer([s EXCEPT !.state = "Terminated"], "Logout", TRUE)

process_test_request(s, m) ==
  IF s.state = "Active" /\ m.ok THEN Answer(s, "Heartbeat", TRUE) ELSE Reject(s)

process_resend_request(s, m) ==
  Silent(s, s.state = "Active" /\ m.ok /\ m.begin <= m.end)

process_sequence_reset(s, m) ==
  IF m.ok /\ m.new >= s.in THEN Silent([s EXCEPT !.in = m.new], TRUE)
  ELSE Silent(s, FALSE)

Process(s, m) ==
  CASE m.type = "Logon" -> process_logon(s, m)
    [] m.type = "Logout" -> process_logout(s)
    [] m.type = "Heartbeat" -> Silent(s, s.state = "Active")
    [] m.type = "TestRequest" -> process_test_request(s, m)
    [] m.type = "ResendRequest" -> process_resend_request(s, m)
    [] m.type = "SequenceReset" -> process_sequence_reset(s, m)
    [] m.type \in Application ->
         IF s.state = "Active" THEN Silent(s, TRUE) ELSE Reject(s)
    [] OTHER -> Reject(s)

(* (Mutant: numbers already seen are processed again.)                      *)
ReceiveSeen(s, m) ==
  CASE m.type = "Misaddressed" -> Reject(s)
    [] m.type # "Misaddressed" /\ m.seq > s.in -> Answer(s, "ResendRequest", FALSE)
    [] OTHER -> Process([s EXCEPT !.in = @ + 1], m)
receive(s, m) ==
  CASE m.type = "Misaddressed" -> Reject(s)
    [] m.type # "Misaddressed" /\ m.seq > s.in -> Answer(s, "ResendRequest", FALSE)
    [] m.type # "Misaddressed" /\ m.seq < s.in -> Reject(s)
    [] OTHER -> Process([s EXCEPT !.in = @ + 1], m)

(***************************************************************************)
(* FixOrderGateway: the maps, the orders and the type of the report.       *)
(***************************************************************************)
Refused == [orders |-> orders, by_id |-> by_id, type |-> "Reject"]

(* The maps with an entry more, or another one, for a client order id.      *)
Mapped(id, order) ==
  [x \in DOMAIN by_id \union {id} |-> IF x = id THEN order ELSE by_id[x]]

(* (Mutant: a client order id may be used again.)                           *)
NewOrderUnchecked(m) ==
  IF m.ok
  THEN [orders |-> Append(orders, [id |-> m.id, status |-> "Working"]),
        by_id |-> Mapped(m.id, Len(orders) + 1),
        type |-> "ExecutionReport"]
  ELSE Refused
handle_new_order(m) ==
  IF m.ok /\ m.id \notin DOMAIN by_id
  THEN [orders |-> Append(orders, [id |-> m.id, status |-> "Working"]),
        by_id |-> Mapped(m.id, Len(orders) + 1),
        type |-> "ExecutionReport"]
  ELSE Refused

handle_cancel(m) ==
  IF m.ok /\ m.orig \in DOMAIN by_id /\ orders[by_id[m.orig]].status = "Working"
  THEN [orders |-> [orders EXCEPT ![by_id[m.orig]].status = "Cancelled"],
        by_id |-> Mapped(m.id, by_id[m.orig]),
        type |-> "ExecutionReport"]
  ELSE Refused

GatewayHandle(m) ==
  IF m.type = "NewOrderSingle" THEN handle_new_order(m) ELSE handle_cancel(m)

-----------------------------------------------------------------------------
(* A thread's place in the loop, its session, the response to be sent, and  *)
(* the message it has still to work on once the session is saved.           *)
Closed == [pc |-> "closed", session |-> NoSession, response |-> <<>>, work |-> <<>>,
           accepted |-> FALSE]

Open == {c \in Conns : conns[c].pc # "closed"}

Init ==
  /\ conns = [c \in Conns |-> Closed]
  /\ saved = [in |-> 1, out |-> 1]
  /\ outbox = <<>>
  /\ orders = <<>> /\ by_id = <<>>
  /\ handled = <<>> /\ overlapped = FALSE /\ reads = 0 /\ crashes = 0

gateway_vars == <<orders, by_id, handled>>
bounds == <<reads, crashes>>

(* load_session and restore_sequence_state.                                 *)
LoadSession == [state |-> "Disconnected", in |-> saved.in, out |-> saved.out]

(* A client connects: its thread makes a session from the saved numbers.    *)
Connect(c) ==
  /\ conns[c].pc = "closed"
  /\ conns' = [conns EXCEPT ![c] = [Closed EXCEPT !.pc = "idle", !.session = LoadSession]]
  /\ overlapped' = (overlapped \/ Open # {})
  /\ UNCHANGED <<saved, outbox, gateway_vars, bounds>>

(* The socket reports the end of the stream, or an error, between messages. *)
Disconnect(c) ==
  /\ conns[c].pc = "idle"
  /\ conns' = [conns EXCEPT ![c] = Closed]
  /\ UNCHANGED <<saved, outbox, overlapped, gateway_vars, bounds>>

(* A message is read and given to the session.  Without a positive number   *)
(* the row of the message cannot be stored, and the exception ends the      *)
(* thread.                                                                  *)
Receive(c) ==
  /\ conns[c].pc = "idle" /\ reads < MaxReads
  /\ conns[c].session.in <= MaxSeq /\ conns[c].session.out <= MaxSeq
  /\ \E m \in InMessage :
       LET result == receive(conns[c].session, m)
       IN conns' = [conns EXCEPT ![c] =
            IF m.seq = 0 THEN Closed
            ELSE [pc |-> IF result.response = <<>> THEN "save" ELSE "respond",
                  session |-> result.session, response |-> result.response,
                  work |-> IF result.accepted /\ m.type \in Application \union {"ResendRequest"}
                           THEN <<m>> ELSE <<>>,
                  accepted |-> result.accepted]]
  /\ reads' = reads + 1
  /\ UNCHANGED <<saved, outbox, overlapped, gateway_vars, crashes>>

(* send_fix: the row is stored, then the message is written to the socket;  *)
(* a failed write ends the thread.                                          *)
SendFix(c, next) ==
  /\ outbox' = outbox \o conns[c].response
  /\ \/ conns' = [conns EXCEPT ![c].pc = next, ![c].response = <<>>]
     \/ conns' = [conns EXCEPT ![c] = Closed]
  /\ UNCHANGED <<saved, overlapped, gateway_vars, bounds>>

Respond(c) == conns[c].pc = "respond" /\ SendFix(c, "save")

(* Where the loop goes once the session is saved.                           *)
AfterSave(c) ==
  CASE conns[c].work = <<>> -> "idle"
    [] OTHER -> IF conns[c].work[1].type = "ResendRequest" THEN "resend" ELSE "handle"

(* Back to reading: the locals of the iteration are gone.                   *)
Idle(c) == [Closed EXCEPT !.pc = "idle", !.session = conns[c].session]

SessionRow(c) == [in |-> conns[c].session.in, out |-> conns[c].session.out]

(* (Mutant: only an accepted message is saved.)                             *)
SaveIfAccepted(c) ==
  /\ conns[c].pc = "save"
  /\ saved' = IF conns[c].accepted THEN SessionRow(c) ELSE saved
  /\ conns' = [conns EXCEPT ![c] =
       IF AfterSave(c) = "idle" THEN Idle(c) ELSE [@ EXCEPT !.pc = AfterSave(c)]]
  /\ UNCHANGED <<outbox, overlapped, gateway_vars, bounds>>
Save(c) ==
  /\ conns[c].pc = "save"
  /\ saved' = SessionRow(c)
  /\ conns' = [conns EXCEPT ![c] =
       IF AfterSave(c) = "idle" THEN Idle(c) ELSE [@ EXCEPT !.pc = AfterSave(c)]]
  /\ UNCHANGED <<outbox, overlapped, gateway_vars, bounds>>

(* The stored messages a resend request asks for.                           *)
RequestedRows(c) ==
  LET m == conns[c].work[1]
  IN {i \in DOMAIN outbox : outbox[i].seq \in m.begin..m.end}

(* Application messages are written again under their old numbers;          *)
(* administrative ones are to be replaced by a gap fill.  The strings with  *)
(* the CompIDs were moved into the session, so that create_fix_gap_fill     *)
(* refuses the empty names it is given, and the exception ends the thread.  *)
(* A failed write ends it too.                                              *)
Resend(c) ==
  /\ conns[c].pc = "resend"
  /\ \/ /\ \A i \in RequestedRows(c) : outbox[i].type \notin Administrative
        /\ conns' = [conns EXCEPT ![c] = Idle(c)]
     \/ /\ \E i \in RequestedRows(c) : outbox[i].type \in Administrative
        /\ conns' = [conns EXCEPT ![c].pc = "gap_fill_refused"]
     \/ /\ RequestedRows(c) # {}
        /\ conns' = [conns EXCEPT ![c] = Closed]
  /\ UNCHANGED <<saved, outbox, overlapped, gateway_vars, bounds>>

GapFillRefused(c) ==
  /\ conns[c].pc = "gap_fill_refused"
  /\ conns' = [conns EXCEPT ![c] = Closed]
  /\ UNCHANGED <<saved, outbox, overlapped, gateway_vars, bounds>>

(* The gateway, under its mutex, and the number of the report.              *)
Handle(c) ==
  /\ conns[c].pc = "handle"
  /\ LET m == conns[c].work[1]
         result == GatewayHandle(m)
         outbound == prepare_outbound(conns[c].session, result.type)
     IN /\ orders' = result.orders
        /\ by_id' = result.by_id
        /\ handled' = Append(handled, m.seq)
        /\ conns' = [conns EXCEPT
             ![c].pc = "report",
             ![c].session = outbound.session,
             ![c].response = <<outbound.message>>]
  /\ UNCHANGED <<saved, outbox, overlapped, bounds>>

Report(c) == conns[c].pc = "report" /\ SendFix(c, "save_report")

SaveReport(c) ==
  /\ conns[c].pc = "save_report"
  /\ saved' = SessionRow(c)
  /\ conns' = [conns EXCEPT ![c] = Idle(c)]
  /\ UNCHANGED <<outbox, overlapped, gateway_vars, bounds>>

(* The process ends and is started again: the store is what is left.        *)
Crash ==
  /\ crashes < MaxCrashes
  /\ crashes' = crashes + 1
  /\ conns' = [c \in Conns |-> Closed]
  /\ orders' = <<>> /\ by_id' = <<>>
  /\ UNCHANGED <<saved, outbox, handled, overlapped, reads>>

Next ==
  \/ \E c \in Conns :
       \/ Connect(c) \/ Disconnect(c) \/ Receive(c) \/ Respond(c) \/ Save(c)
       \/ Resend(c) \/ GapFillRefused(c) \/ Handle(c) \/ Report(c) \/ SaveReport(c)
  \/ Crash

Spec == Init /\ [][Next]_vars

-----------------------------------------------------------------------------
(* The types of the variables.                                              *)
TypeOK ==
  /\ \A c \in Conns : conns[c].session \in Session
  /\ saved \in [in: Nat, out: Nat]
  /\ outbox \in Seq([seq: Nat, type: OutType])
  /\ orders \in Seq([id: ClOrdIds, status: {"Working", "Cancelled"}])
  /\ DOMAIN by_id \subseteq ClOrdIds /\ \A id \in DOMAIN by_id : by_id[id] \in DOMAIN orders
  /\ handled \in Seq(Nat) /\ overlapped \in BOOLEAN

(* The gateway is given each incoming number at most once and in order,     *)
(* across failed writes, reconnections, sequence resets and crashes, as     *)
(* long as the session has one connection at a time.                        *)
HandledInOrder ==
  ~overlapped => \A i, j \in DOMAIN handled : i < j => handled[i] < handled[j]

(* The saved outgoing number lags the stored messages by at most one, so    *)
(* that at most one number is used again after a crash or a failed write    *)
(* (one connection at a time).                                              *)
SavedCoversOutbox ==
  ~overlapped => \A i \in DOMAIN outbox : outbox[i].seq <= saved.out

(* One process never makes two orders from the same ClOrdID, whichever      *)
(* connections the requests came in on and whatever was resent.             *)
OneOrderPerClOrdID ==
  \A i, j \in DOMAIN orders : orders[i].id = orders[j].id => i = j

(* create_fix_gap_fill is called with CompIDs, as it requires               *)
(* ("FIX gap-fill CompIDs cannot be empty").                                *)
GapFillsIdentified == \A c \in Conns : conns[c].pc # "gap_fill_refused"
=============================================================================
