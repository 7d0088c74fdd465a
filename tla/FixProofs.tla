------------------------------ MODULE FixProofs ------------------------------
(***************************************************************************)
(* What holds of the FIX server for any number of connections, client      *)
(* order ids, messages and crashes: the gateway is given each number once  *)
(* and in order, the saved numbers cover the sent ones, and no client      *)
(* order id makes two orders.                                              *)
(***************************************************************************)
EXTENDS Fix, SequenceLemmas, TLAPS

-----------------------------------------------------------------------------
(* The inductive invariant.                                                *)

OutMessage == [seq: Nat, type: OutType]

Place == {"closed", "idle", "respond", "save", "resend", "gap_fill_refused",
          "handle", "report", "save_report"}

Conn == [pc: Place, session: Session, response: Seq(OutMessage),
         work: Seq(InMessage), accepted: BOOLEAN]

Typed ==
  /\ conns \in [Conns -> Conn]
  /\ saved \in [in: Nat, out: Nat]
  /\ outbox \in Seq(OutMessage)
  /\ orders \in Seq([id: ClOrdIds, status: {"Working", "Cancelled"}])
  /\ DOMAIN by_id \subseteq ClOrdIds
  /\ \A id \in DOMAIN by_id : by_id[id] \in DOMAIN orders
  /\ handled \in Seq(Nat) /\ overlapped \in BOOLEAN

(* There is something to do at the places that do it, and a message is on  *)
(* its way to the gateway only if it is an order or a cancellation.        *)
WellPlaced(k) ==
  /\ k.pc \in {"resend", "handle"} => Len(k.work) = 1
  /\ k.pc = "handle" => k.work[1].type \in Application
  /\ Len(k.work) \in {0, 1}
  /\ Len(k.work) = 1 => k.work[1].type \in Application \union {"ResendRequest"}
  /\ k.pc = "respond" => k.work = <<>> /\ Len(k.response) = 1
  /\ k.pc = "report" => Len(k.response) = 1

Placed == \A c \in Conns : WellPlaced(conns[c])

(* Every order can be found under its client order id, so that another one *)
(* under the same id is refused.                                           *)
Indexed == \A i \in DOMAIN orders : orders[i].id \in DOMAIN by_id

(* With one connection at a time the store is behind the session by the    *)
(* message in progress at most.  What was handled is below the saved       *)
(* incoming number from the save on, and a message waits for the save      *)
(* before it is handled.                                                   *)
InStep(k, row, numbers) ==
  /\ k.session.in >= row.in
  /\ k.pc = "save" /\ Len(k.work) = 1 /\ k.work[1].type \in Application =>
       k.work[1].seq >= row.in /\ k.work[1].seq < k.session.in
  /\ k.pc = "handle" =>
       /\ k.work[1].seq < row.in
       /\ \A i \in DOMAIN numbers : numbers[i] < k.work[1].seq
  /\ k.pc \in {"respond", "report"} =>
       k.session.out = row.out + 1 /\ k.response[1].seq = row.out
  /\ k.pc \in {"save", "save_report"} => k.session.out \in {row.out, row.out + 1}
  /\ k.pc \in {"idle", "resend", "handle"} => k.session.out = row.out

Alone ==
  ~overlapped =>
    /\ \A c, d \in Open : c = d
    /\ \A i \in DOMAIN handled : handled[i] < saved.in
    /\ \A c \in Open : InStep(conns[c], saved, handled)

IInv ==
  Typed /\ Placed /\ Indexed /\ OneOrderPerClOrdID /\ Alone /\ HandledInOrder
    /\ SavedCoversOutbox

-----------------------------------------------------------------------------
(* Messages and what the session makes of them.                            *)

LEMMA MessageFields ==
  ASSUME NEW m \in InMessage
  PROVE  /\ m.seq \in Nat
         /\ m.type \in Application => m.id \in ClOrdIds
         /\ m.type = "SequenceReset" => m.new \in Nat
<1> USE FixAssumption DEF Application, Numbers
<1>1. CASE m \in [type: {"Logon", "TestRequest"}, seq: 0..MaxSeq, ok: BOOLEAN]
  BY <1>1
<1>2. CASE m \in [type: {"Logout", "Heartbeat", "ExecutionReport", "Misaddressed"},
                  seq: 0..MaxSeq, ok: {TRUE}]
  BY <1>2
<1>3. CASE m \in [type: {"ResendRequest"}, seq: 0..MaxSeq, ok: BOOLEAN,
                  begin: Numbers, end: Numbers]
  BY <1>3
<1>4. CASE m \in [type: {"SequenceReset"}, seq: 0..MaxSeq, ok: BOOLEAN, new: Numbers]
  BY <1>4
<1>5. CASE m \in [type: {"NewOrderSingle"}, seq: 0..MaxSeq, ok: BOOLEAN, id: ClOrdIds]
  BY <1>5
<1>6. CASE m \in [type: {"OrderCancelRequest"}, seq: 0..MaxSeq, ok: BOOLEAN,
                  id: ClOrdIds, orig: ClOrdIds]
  BY <1>6
<1> QED  BY <1>1, <1>2, <1>3, <1>4, <1>5, <1>6 DEF InMessage

(* The session answers with its next outgoing number or not at all.        *)
Answers(s, r) ==
  /\ r.session \in Session /\ r.accepted \in BOOLEAN
  /\ r.session.in >= s.in
  /\ \/ r.response = <<>> /\ r.session.out = s.out
     \/ /\ r.session.out = s.out + 1
        /\ \E type \in OutType : r.response = <<[seq |-> s.out, type |-> type]>>

LEMMA AnswerFacts ==
  ASSUME NEW s \in Session, NEW type \in OutType, NEW accepted \in BOOLEAN
  PROVE  Answers(s, Answer(s, type, accepted))
  BY DEF Answers, Answer, prepare_outbound, Session

LEMMA SilentFacts ==
  ASSUME NEW s \in Session, NEW accepted \in BOOLEAN
  PROVE  Answers(s, Silent(s, accepted)) /\ Silent(s, accepted).response = <<>>
  BY DEF Answers, Silent, Session

(* What is accepted for the gateway, or for a resend, has the number the   *)
(* session waited for and no answer from the session itself.               *)
Received(s, m, r) ==
  /\ Answers(s, r)
  /\ r.accepted /\ m.type \in Application \union {"ResendRequest"} =>
       r.response = <<>> /\ m.seq >= s.in /\ m.seq < r.session.in

LEMMA ReceiveFacts ==
  ASSUME NEW s \in Session, NEW m \in InMessage
  PROVE  Received(s, m, receive(s, m))
<1> DEFINE r == receive(s, m)
           n == [s EXCEPT !.in = @ + 1]
<1>1. /\ {"Logon", "Logout", "Heartbeat", "ResendRequest", "Reject"} \subseteq OutType
      /\ m.seq \in Nat /\ s.in \in Nat /\ s.out \in Nat
      /\ n \in Session /\ n.in = s.in + 1 /\ n.out = s.out /\ n.state = s.state
  BY MessageFields DEF OutType, Administrative, Session
<1>2. Answers(s, Reject(s)) /\ ~Reject(s).accepted
  BY <1>1, AnswerFacts DEF Reject, Answer
<1>3. Answers(s, Answer(s, "ResendRequest", FALSE))
      /\ ~Answer(s, "ResendRequest", FALSE).accepted
  BY <1>1, AnswerFacts DEF Answer
<1>4. CASE m.type = "Misaddressed"
  <2>1. r = Reject(s)
    BY <1>4 DEF receive
  <2> QED  BY <1>2, <2>1 DEF Received
<1>5. CASE m.type # "Misaddressed" /\ m.seq > s.in
  <2>1. r = Answer(s, "ResendRequest", FALSE)
    <3>1. ~(m.seq < s.in)
      BY <1>1, <1>5
    <3> QED  BY <1>5, <3>1 DEF receive
  <2> QED  BY <1>3, <2>1 DEF Received
<1>6. CASE m.type # "Misaddressed" /\ m.seq < s.in
  <2>1. ~(m.seq > s.in)
    BY <1>1, <1>6
  <2>2. r = Reject(s)
    BY <1>6, <2>1 DEF receive
  <2> QED  BY <1>2, <2>2 DEF Received
<1>7. CASE m.type # "Misaddressed" /\ m.seq = s.in
  <2>1. r = Process(n, m)
    <3>1. ~(m.seq > s.in) /\ ~(m.seq < s.in)
      BY <1>1, <1>7
    <3> QED  BY <1>7, <3>1 DEF receive
  <2> HIDE DEF n, r
  <2>2. Answers(n, Reject(n)) /\ ~Reject(n).accepted
    BY <1>1, AnswerFacts DEF Reject, Answer
  <2>3. /\ Answers(n, r)
        /\ r.accepted /\ m.type \in Application \union {"ResendRequest"} =>
             r.response = <<>>
    <3>1. CASE m.type = "Logon"
      <4>1. [n EXCEPT !.state = "Active"] \in Session
            /\ [n EXCEPT !.state = "Active"].in = n.in
            /\ [n EXCEPT !.state = "Active"].out = n.out
        BY <1>1 DEF Session
      <4>2. Answers([n EXCEPT !.state = "Active"],
                    Answer([n EXCEPT !.state = "Active"], "Logon", TRUE))
        BY <4>1, <1>1, AnswerFacts
      <4>3. Answers(n, process_logon(n, m))
        BY <4>1, <4>2, <2>2 DEF Answers, process_logon
      <4> QED  BY <2>1, <3>1, <4>3 DEF Process, Application
    <3>2. CASE m.type = "Logout"
      <4>1. [n EXCEPT !.state = "Terminated"] \in Session
            /\ [n EXCEPT !.state = "Terminated"].in = n.in
            /\ [n EXCEPT !.state = "Terminated"].out = n.out
        BY <1>1 DEF Session
      <4>2. Answers([n EXCEPT !.state = "Terminated"],
                    Answer([n EXCEPT !.state = "Terminated"], "Logout", TRUE))
        BY <4>1, <1>1, AnswerFacts
      <4>3. Answers(n, process_logout(n))
        BY <4>1, <4>2, <2>2 DEF Answers, process_logout
      <4> QED  BY <2>1, <3>2, <4>3 DEF Process, Application
    <3>3. CASE m.type = "Heartbeat"
      BY <1>1, <2>1, <3>3, SilentFacts DEF Process, Application
    <3>4. CASE m.type = "TestRequest"
      <4>1. Answers(n, process_test_request(n, m))
        BY <1>1, <2>2, AnswerFacts DEF process_test_request
      <4> QED  BY <2>1, <3>4, <4>1 DEF Process, Application
    <3>5. CASE m.type = "ResendRequest"
      <4> DEFINE accepted == n.state = "Active" /\ m.ok /\ m.begin <= m.end
      <4>1. accepted \in BOOLEAN
        OBVIOUS
      <4>2. r = Silent(n, accepted)
        BY <2>1, <3>5 DEF Process, process_resend_request, Application
      <4> HIDE DEF accepted
      <4> QED  BY <1>1, <4>1, <4>2, SilentFacts
    <3>6. CASE m.type = "SequenceReset"
      <4>1. Answers(n, Silent(n, FALSE))
        BY <1>1, SilentFacts
      <4>2. ASSUME m.ok, m.new >= n.in
            PROVE  Answers(n, Silent([n EXCEPT !.in = m.new], TRUE))
        <5>1. m.new \in Nat
          BY <3>6, MessageFields
        <5>2. [n EXCEPT !.in = m.new] \in Session
          BY <5>1, <1>1 DEF Session
        <5> QED  BY <5>1, <5>2, <4>2, <1>1 DEF Answers, Silent, Session
      <4> QED  BY <2>1, <3>6, <4>1, <4>2 DEF Process, process_sequence_reset, Application
    <3>7. CASE m.type \in Application
      BY <1>1, <2>1, <2>2, <3>7, SilentFacts DEF Process, Application
    <3>8. CASE m.type \notin {"Logon", "Logout", "Heartbeat", "TestRequest",
                              "ResendRequest", "SequenceReset"} \union Application
      BY <2>1, <2>2, <3>8 DEF Process
    <3> QED  BY <3>1, <3>2, <3>3, <3>4, <3>5, <3>6, <3>7, <3>8
  <2>4. r.session.in \in Nat /\ r.session.in >= n.in
    BY <2>3 DEF Answers, Session
  <2>5. r.session.in >= s.in
    BY <1>1, <2>4
  <2>6. Answers(s, r)
    BY <1>1, <2>3, <2>5 DEF Answers
  <2>7. Received(s, m, r)
    BY <1>1, <1>7, <2>3, <2>4, <2>6 DEF Received
  <2> QED  BY <2>7 DEF r
<1> QED  BY <1>1, <1>4, <1>5, <1>6, <1>7

-----------------------------------------------------------------------------
(* Steps of one connection.                                                *)

LEMMA ConnFields ==
  ASSUME NEW k \in Conn
  PROVE  /\ k.pc \in Place /\ k.session \in Session /\ k.accepted \in BOOLEAN
         /\ k.response \in Seq(OutMessage) /\ k.work \in Seq(InMessage)
         /\ k.session.in \in Nat /\ k.session.out \in Nat
  BY DEF Conn, Session

LEMMA ClosedConn ==
  /\ Closed \in Conn /\ WellPlaced(Closed) /\ Closed.pc = "closed"
  /\ \A s \in Session :
       /\ [Closed EXCEPT !.pc = "idle", !.session = s] \in Conn
       /\ WellPlaced([Closed EXCEPT !.pc = "idle", !.session = s])
       /\ [Closed EXCEPT !.pc = "idle", !.session = s].pc = "idle"
       /\ [Closed EXCEPT !.pc = "idle", !.session = s].session = s
<1>1. NoSession \in Session
  BY DEF NoSession, Session
<1>2. <<>> \in Seq(OutMessage) /\ <<>> \in Seq(InMessage) /\ Len(<<>>) = 0
  OBVIOUS
<1>3. Closed \in Conn /\ WellPlaced(Closed) /\ Closed.pc = "closed"
  BY <1>1, <1>2 DEF Closed, Conn, Place, WellPlaced
<1>4. ASSUME NEW s \in Session
      PROVE  LET k == [Closed EXCEPT !.pc = "idle", !.session = s]
             IN k \in Conn /\ WellPlaced(k) /\ k.pc = "idle" /\ k.session = s
  <2> DEFINE k == [Closed EXCEPT !.pc = "idle", !.session = s]
  <2>1. k \in Conn /\ k.pc = "idle" /\ k.session = s /\ k.work = <<>>
    BY <1>2, <1>3 DEF Closed, Conn, Place
  <2> HIDE DEF k
  <2>2. WellPlaced(k)
    BY <1>2, <2>1 DEF WellPlaced
  <2> QED  BY <2>1, <2>2 DEF k
<1> QED  BY <1>3, <1>4

(* Only one connection changes, so the others stay well placed.            *)
LEMMA ConnMoves ==
  ASSUME conns \in [Conns -> Conn], Placed, NEW c \in Conns, NEW k \in Conn,
         WellPlaced(k), conns' = [conns EXCEPT ![c] = k]
  PROVE  conns' \in [Conns -> Conn] /\ Placed'
<1>1. conns' \in [Conns -> Conn]
  OBVIOUS
<1>2. \A d \in Conns : conns'[d] = IF d = c THEN k ELSE conns[d]
  OBVIOUS
<1>3. \A d \in Conns : WellPlaced(conns'[d])
  BY <1>2 DEF Placed
<1> QED  BY <1>1, <1>3 DEF Placed

LEMMA OneMoves ==
  ASSUME conns \in [Conns -> Conn], overlapped \in BOOLEAN, Alone,
         NEW c \in Conns, NEW k \in Conn,
         conns[c].pc # "closed", conns' = [conns EXCEPT ![c] = k],
         overlapped' = overlapped,
         ~overlapped => k.pc = "closed" \/ InStep(k, saved', handled'),
         ~overlapped => \A i \in DOMAIN handled' : handled'[i] < saved'.in
  PROVE  Alone'
<1>1. \A d \in Conns : conns'[d] = IF d = c THEN k ELSE conns[d]
  OBVIOUS
<1>2. ~overlapped => \A d \in Conns : conns[d].pc # "closed" => d = c
  BY DEF Alone, Open
<1>3. ~overlapped => \A d \in Conns : conns'[d].pc # "closed" => d = c
  BY <1>1, <1>2
<1>4. Open' = {d \in Conns : conns'[d].pc # "closed"}
  BY DEF Open
<1>5. ~overlapped => \A d \in Open' : InStep(conns'[d], saved', handled')
  BY <1>1, <1>3, <1>4
<1> QED  BY <1>3, <1>4, <1>5 DEF Alone

(* With one connection the open one is in step.                            *)
LEMMA OpenInStep ==
  ASSUME Alone, NEW c \in Conns, conns[c].pc # "closed", ~overlapped
  PROVE  InStep(conns[c], saved, handled) /\ \A i \in DOMAIN handled : handled[i] < saved.in
  BY DEF Alone, Open

(* What does not touch the gateway keeps what is said of the gateway.      *)
LEMMA GatewayKept ==
  ASSUME IInv, UNCHANGED gateway_vars, overlapped' \in BOOLEAN, overlapped => overlapped'
  PROVE  Indexed' /\ OneOrderPerClOrdID' /\ HandledInOrder'
  BY DEF IInv, gateway_vars, Indexed, OneOrderPerClOrdID, HandledInOrder

(* A step that leaves the store and the gateway alone.                     *)
LEMMA QuietStep ==
  ASSUME IInv, NEW c \in Conns, NEW k \in Conn, WellPlaced(k), conns[c].pc # "closed",
         conns' = [conns EXCEPT ![c] = k],
         UNCHANGED <<saved, outbox, overlapped, gateway_vars>>,
         ~overlapped /\ InStep(conns[c], saved, handled) =>
           k.pc = "closed" \/ InStep(k, saved, handled)
  PROVE  IInv'
<1>1. UNCHANGED <<saved, outbox, overlapped, orders, by_id, handled>>
  BY DEF gateway_vars
<1>2. conns' \in [Conns -> Conn] /\ Placed'
  BY ConnMoves DEF IInv, Typed
<1>3. Typed'
  BY <1>1, <1>2 DEF IInv, Typed
<1>4. Indexed' /\ OneOrderPerClOrdID' /\ HandledInOrder'
  BY <1>1, GatewayKept DEF IInv, Typed
<1>5. SavedCoversOutbox'
  BY <1>1 DEF IInv, SavedCoversOutbox
<1>6. Alone'
  <2>1. ~overlapped => k.pc = "closed" \/ InStep(k, saved', handled')
    BY <1>1, OpenInStep DEF IInv
  <2>2. ~overlapped => \A i \in DOMAIN handled' : handled'[i] < saved'.in
    BY <1>1 DEF IInv, Alone
  <2> QED  BY <1>1, <2>1, <2>2, OneMoves DEF IInv, Typed
<1> QED  BY <1>2, <1>3, <1>4, <1>5, <1>6 DEF IInv

LEMMA ConnectStep ==
  ASSUME IInv, NEW c \in Conns, Connect(c)
  PROVE  IInv'
<1> DEFINE k == [Closed EXCEPT !.pc = "idle", !.session = LoadSession]
<1>1. UNCHANGED <<saved, outbox, orders, by_id, handled>>
      /\ overlapped' = (overlapped \/ Open # {})
      /\ conns' = [conns EXCEPT ![c] = k]
  BY DEF Connect, gateway_vars
<1>2. /\ k \in Conn /\ WellPlaced(k) /\ k.pc = "idle"
      /\ k.session.in = saved.in /\ k.session.out = saved.out
  <2>1. LoadSession \in Session /\ LoadSession.in = saved.in /\ LoadSession.out = saved.out
    BY DEF LoadSession, Session, IInv, Typed
  <2> QED  BY <2>1, ClosedConn
<1> HIDE DEF k
<1>3. conns' \in [Conns -> Conn] /\ Placed'
  BY <1>1, <1>2, ConnMoves DEF IInv, Typed
<1>4. overlapped' \in BOOLEAN /\ (overlapped => overlapped')
  BY <1>1
<1>5. Typed'
  BY <1>1, <1>3, <1>4 DEF IInv, Typed
<1>6. Indexed' /\ OneOrderPerClOrdID' /\ HandledInOrder'
  BY <1>1, <1>4, GatewayKept DEF gateway_vars
<1>7. SavedCoversOutbox'
  BY <1>1, <1>4 DEF IInv, SavedCoversOutbox
<1>8. Alone'
  <2> SUFFICES ASSUME ~overlapped'
               PROVE  /\ \A d, e \in Open' : d = e
                      /\ \A i \in DOMAIN handled' : handled'[i] < saved'.in
                      /\ \A d \in Open' : InStep(conns'[d], saved', handled')
    BY DEF Alone
  <2>1. ~overlapped /\ \A d \in Conns : conns[d].pc = "closed"
    BY <1>1 DEF Open
  <2>2. conns'[c] = k /\ \A d \in Conns : d # c => conns'[d] = conns[d]
    BY <1>1 DEF IInv, Typed
  <2>3. \A d \in Open' : d = c
    BY <2>1, <2>2 DEF Open
  <2>4. \A i \in DOMAIN handled' : handled'[i] < saved'.in
    BY <1>1, <2>1 DEF IInv, Alone
  <2>5. InStep(k, saved', handled')
    BY <1>1, <1>2 DEF InStep, IInv, Typed
  <2> QED  BY <2>2, <2>3, <2>4, <2>5
<1> QED  BY <1>3, <1>5, <1>6, <1>7, <1>8 DEF IInv

(* The thread that ends leaves the store as it is.                         *)
LEMMA CloseStep ==
  ASSUME IInv, NEW c \in Conns, conns[c].pc # "closed",
         conns' = [conns EXCEPT ![c] = Closed],
         UNCHANGED <<saved, outbox, overlapped, gateway_vars>>
  PROVE  IInv'
  BY QuietStep, ClosedConn

(* Back to reading, from a place where everything sent is saved.           *)
LEMMA IdleStep ==
  ASSUME IInv, NEW c \in Conns, conns[c].pc = "resend",
         conns' = [conns EXCEPT ![c] = Idle(c)],
         UNCHANGED <<saved, outbox, overlapped, gateway_vars>>
  PROVE  IInv'
<1>1. conns[c] \in Conn /\ conns[c].session \in Session
  BY ConnFields DEF IInv, Typed
<1>2. /\ Idle(c) \in Conn /\ WellPlaced(Idle(c))
      /\ Idle(c).pc = "idle" /\ Idle(c).session = conns[c].session
  BY <1>1, ClosedConn DEF Idle
<1>3. InStep(conns[c], saved, handled) => InStep(Idle(c), saved, handled)
  BY <1>2 DEF InStep
<1> QED  BY <1>2, <1>3, QuietStep

LEMMA ReceiveStep ==
  ASSUME IInv, NEW c \in Conns, Receive(c)
  PROVE  IInv'
<1> DEFINE s == conns[c].session
<1>1. PICK m \in InMessage :
        LET result == receive(s, m)
        IN conns' = [conns EXCEPT ![c] =
             IF m.seq = 0 THEN Closed
             ELSE [pc |-> IF result.response = <<>> THEN "save" ELSE "respond",
                   session |-> result.session, response |-> result.response,
                   work |-> IF result.accepted /\ m.type \in Application \union {"ResendRequest"}
                            THEN <<m>> ELSE <<>>,
                   accepted |-> result.accepted]]
  BY DEF Receive
<1>2. conns[c].pc = "idle" /\ UNCHANGED <<saved, outbox, overlapped, gateway_vars>>
  BY DEF Receive
<1>3. conns[c] \in Conn /\ s \in Session
  BY ConnFields DEF IInv, Typed
<1> DEFINE r == receive(s, m)
           work == IF r.accepted /\ m.type \in Application \union {"ResendRequest"}
                   THEN <<m>> ELSE <<>>
           k == [pc |-> IF r.response = <<>> THEN "save" ELSE "respond",
                 session |-> r.session, response |-> r.response,
                 work |-> work, accepted |-> r.accepted]
<1>4. CASE m.seq = 0
  <2>1. conns' = [conns EXCEPT ![c] = Closed]
    BY <1>1, <1>4
  <2> QED  BY <1>2, <2>1, CloseStep
<1>5. CASE m.seq # 0
  <2>1. conns' = [conns EXCEPT ![c] = k]
    BY <1>1, <1>5
  <2>2. Received(s, m, r)
    BY <1>3, ReceiveFacts
  <2> HIDE DEF r, s
  <2>3. /\ r.session \in Session /\ r.accepted \in BOOLEAN /\ r.response \in Seq(OutMessage)
        /\ r.session.in \in Nat /\ s.in \in Nat /\ s.out \in Nat /\ r.session.in >= s.in
        /\ r.response = <<>> => r.session.out = s.out
        /\ r.response # <<>> =>
             /\ r.session.out = s.out + 1
             /\ Len(r.response) = 1 /\ r.response[1].seq = s.out
             /\ work = <<>>
    <3>1. Answers(s, r)
      BY <2>2 DEF Received
    <3>2. s.in \in Nat /\ s.out \in Nat /\ r.session.in \in Nat
      BY <1>3, <3>1 DEF Session, Answers
    <3>3. CASE r.response = <<>>
      BY <3>1, <3>2, <3>3 DEF Answers
    <3>4. CASE r.response # <<>>
      <4>1. PICK type \in OutType : r.response = <<[seq |-> s.out, type |-> type]>>
        BY <3>1, <3>4 DEF Answers
      <4>2. r.response \in Seq(OutMessage) /\ Len(r.response) = 1 /\ r.response[1].seq = s.out
        BY <4>1, <3>2 DEF OutMessage
      <4>3. work = <<>>
        BY <2>2, <3>4 DEF Received
      <4> QED  BY <3>1, <3>2, <3>4, <4>2, <4>3 DEF Answers
    <3> QED  BY <3>3, <3>4
  <2>4. /\ work \in Seq(InMessage) /\ Len(work) \in {0, 1}
        /\ Len(work) = 1 =>
             /\ work[1] = m /\ m.seq >= s.in /\ m.seq < r.session.in /\ m.seq \in Nat
             /\ m.type \in Application \union {"ResendRequest"}
    BY <2>2, MessageFields DEF Received
  <2> HIDE DEF work
  <2>5. k \in Conn
    BY <2>3, <2>4 DEF Conn, Place
  <2>6. /\ k.pc = (IF r.response = <<>> THEN "save" ELSE "respond") /\ k.session = r.session
        /\ k.response = r.response /\ k.work = work
    OBVIOUS
  <2> HIDE DEF k
  <2>7. WellPlaced(k)
    BY <2>3, <2>4, <2>6 DEF WellPlaced
  <2>8. InStep(conns[c], saved, handled) => InStep(k, saved, handled)
    <3> SUFFICES ASSUME InStep(conns[c], saved, handled)
                 PROVE  InStep(k, saved, handled)
      OBVIOUS
    <3>1. s.in >= saved.in /\ s.out = saved.out /\ saved.in \in Nat
      BY <1>2 DEF InStep, s, IInv, Typed
    <3>2. k.session.in >= saved.in
      BY <2>3, <2>6, <3>1
    <3>3. Len(k.work) = 1 => k.work[1].seq >= saved.in /\ k.work[1].seq < k.session.in
      BY <2>3, <2>4, <2>6, <3>1
    <3>4. k.pc = "respond" => k.session.out = saved.out + 1 /\ k.response[1].seq = saved.out
      BY <2>3, <2>6, <3>1
    <3>5. k.pc = "save" => k.session.out = saved.out
      BY <2>3, <2>6, <3>1
    <3>6. k.pc \in {"save", "respond"}
      BY <2>6
    <3> QED  BY <3>2, <3>3, <3>4, <3>5, <3>6 DEF InStep
  <2> QED  BY <1>2, <2>1, <2>5, <2>7, <2>8, QuietStep
<1> QED  BY <1>4, <1>5

LEMMA ResendStep ==
  ASSUME IInv, NEW c \in Conns, Resend(c)
  PROVE  IInv'
<1>1. conns[c].pc = "resend" /\ UNCHANGED <<saved, outbox, overlapped, gateway_vars>>
  BY DEF Resend
<1>2. CASE conns' = [conns EXCEPT ![c] = Idle(c)]
  BY <1>1, <1>2, IdleStep
<1>3. CASE conns' = [conns EXCEPT ![c].pc = "gap_fill_refused"]
  <2> DEFINE k == [conns[c] EXCEPT !.pc = "gap_fill_refused"]
  <2>1. conns[c] \in Conn /\ WellPlaced(conns[c])
    BY DEF IInv, Typed, Placed
  <2>2. /\ k \in Conn /\ k.pc = "gap_fill_refused" /\ k.work = conns[c].work
        /\ k.session = conns[c].session
    BY <2>1 DEF Conn, Place
  <2>3. conns' = [conns EXCEPT ![c] = k]
    BY <1>3
  <2> HIDE DEF k
  <2>4. WellPlaced(k)
    BY <2>1, <2>2 DEF WellPlaced
  <2>5. InStep(conns[c], saved, handled) => InStep(k, saved, handled)
    BY <2>2 DEF InStep
  <2> QED  BY <1>1, <2>2, <2>3, <2>4, <2>5, QuietStep
<1>4. CASE conns' = [conns EXCEPT ![c] = Closed]
  BY <1>1, <1>4, CloseStep
<1> QED  BY <1>2, <1>3, <1>4 DEF Resend

(* A message is stored under the number saved for it.                      *)
LEMMA SendStep ==
  ASSUME IInv, NEW c \in Conns, NEW next, SendFix(c, next),
         \/ conns[c].pc = "respond" /\ next = "save"
         \/ conns[c].pc = "report" /\ next = "save_report"
  PROVE  IInv'
<1> DEFINE k == [conns[c] EXCEPT !.pc = next, !.response = <<>>]
           response == conns[c].response
<1>1. /\ UNCHANGED <<saved, overlapped, orders, by_id, handled>>
      /\ outbox' = outbox \o response
      /\ conns' = [conns EXCEPT ![c] = k] \/ conns' = [conns EXCEPT ![c] = Closed]
  BY DEF SendFix, gateway_vars
<1>2. conns[c] \in Conn /\ WellPlaced(conns[c])
  BY DEF IInv, Typed, Placed
<1>3. response \in Seq(OutMessage) /\ Len(response) = 1
  BY <1>2 DEF WellPlaced, Conn
<1>4. /\ k \in Conn /\ k.pc = next /\ k.session = conns[c].session
      /\ k.work = conns[c].work
  <2>1. next \in Place /\ <<>> \in Seq(OutMessage)
    BY DEF Place
  <2> QED  BY <1>2, <2>1 DEF Conn
<1> HIDE DEF k, response
<1>5. WellPlaced(k)
  BY <1>2, <1>4 DEF WellPlaced
<1>6. PICK l \in Conn : /\ (WellPlaced(l) /\ l.pc = "closed") \/ l = k
                        /\ conns' = [conns EXCEPT ![c] = l]
  BY <1>1, <1>4, ClosedConn
<1>7. conns' \in [Conns -> Conn] /\ Placed'
  BY <1>5, <1>6, ConnMoves DEF IInv, Typed
<1>8. Typed'
  BY <1>1, <1>3, <1>7 DEF IInv, Typed
<1>9. Indexed' /\ OneOrderPerClOrdID' /\ HandledInOrder'
  BY <1>1, GatewayKept DEF IInv, Typed, gateway_vars
<1>10. SavedCoversOutbox'
  <2> SUFFICES ASSUME ~overlapped, NEW i \in DOMAIN outbox'
               PROVE  outbox'[i].seq <= saved'.out
    BY <1>1 DEF SavedCoversOutbox
  <2>1. response[1].seq = saved.out
    BY OpenInStep DEF IInv, InStep, response
  <2>2. outbox \in Seq(OutMessage) /\ saved.out \in Nat
    BY DEF IInv, Typed
  <2>3. CASE i \in DOMAIN outbox
    <3>1. outbox'[i] = outbox[i]
      BY <1>1, <1>3, <2>2, <2>3
    <3> QED  BY <1>1, <2>3, <3>1 DEF IInv, SavedCoversOutbox
  <2>4. CASE i \notin DOMAIN outbox
    <3>1. i = Len(outbox) + 1
      <4>1. DOMAIN outbox' = 1..(Len(outbox) + 1)
        BY <1>1, <1>3, <2>2, ConcatOne
      <4>2. DOMAIN outbox = 1..Len(outbox) /\ Len(outbox) \in Nat
        BY <2>2
      <4> QED  BY <2>4, <4>1, <4>2
    <3>2. outbox'[i] = response[1]
      BY <1>1, <1>3, <2>2, <3>1, ConcatOne
    <3> QED  BY <1>1, <2>1, <2>2, <3>2
  <2> QED  BY <2>3, <2>4
<1>11. Alone'
  <2>1. ~overlapped => l.pc = "closed" \/ InStep(l, saved', handled')
    <3>1. ~overlapped => InStep(k, saved, handled)
      <4>1. ~overlapped => InStep(conns[c], saved, handled)
        BY OpenInStep DEF IInv
      <4>2. next = "save" => Len(k.work) = 0
        BY <1>2, <1>4 DEF WellPlaced
      <4> QED  BY <1>4, <4>1, <4>2 DEF InStep
    <3> QED  BY <1>1, <1>6, <3>1
  <2>2. ~overlapped => \A i \in DOMAIN handled' : handled'[i] < saved'.in
    BY <1>1 DEF IInv, Alone
  <2> QED  BY <1>1, <1>6, <2>1, <2>2, OneMoves DEF IInv, Typed
<1> QED  BY <1>7, <1>8, <1>9, <1>10, <1>11 DEF IInv

(* A save makes the row the session's: it can only grow.                   *)
LEMMA SavingStep ==
  ASSUME IInv, NEW c \in Conns, NEW k \in Conn, WellPlaced(k),
         conns[c].pc \in {"save", "save_report"},
         saved' = SessionRow(c), conns' = [conns EXCEPT ![c] = k],
         UNCHANGED <<outbox, overlapped, gateway_vars>>,
         ~overlapped /\ InStep(conns[c], saved, handled)
           /\ (\A i \in DOMAIN handled : handled[i] < saved.in)
           => InStep(k, SessionRow(c), handled)
  PROVE  IInv'
<1>1. UNCHANGED <<outbox, overlapped, orders, by_id, handled>>
  BY DEF gateway_vars
<1>2. conns' \in [Conns -> Conn] /\ Placed'
  BY ConnMoves DEF IInv, Typed
<1>3. /\ SessionRow(c) \in [in: Nat, out: Nat]
      /\ SessionRow(c).in = conns[c].session.in /\ SessionRow(c).out = conns[c].session.out
  BY ConnFields DEF SessionRow, IInv, Typed
<1>4. Typed'
  BY <1>1, <1>2, <1>3 DEF IInv, Typed
<1>5. Indexed' /\ OneOrderPerClOrdID' /\ HandledInOrder'
  BY <1>1, GatewayKept DEF IInv, Typed
<1>6. ~overlapped => saved'.in >= saved.in /\ saved'.out >= saved.out
  BY <1>3, OpenInStep DEF IInv, Typed, InStep
<1>7. /\ saved.in \in Nat /\ saved'.in \in Nat /\ saved.out \in Nat /\ saved'.out \in Nat
      /\ \A i \in DOMAIN handled : handled[i] \in Nat
      /\ \A i \in DOMAIN outbox : outbox[i].seq \in Nat
  <2>1. saved.in \in Nat /\ saved.out \in Nat /\ saved'.in \in Nat /\ saved'.out \in Nat
    BY <1>3 DEF IInv, Typed
  <2>2. \A i \in DOMAIN handled : handled[i] \in Nat
    BY DEF IInv, Typed
  <2>3. \A i \in DOMAIN outbox : outbox[i].seq \in Nat
    <3>1. \A i \in DOMAIN outbox : outbox[i] \in OutMessage
      BY DEF IInv, Typed
    <3> QED  BY <3>1 DEF OutMessage
  <2> QED  BY <2>1, <2>2, <2>3
<1>8. SavedCoversOutbox'
  BY <1>1, <1>6, <1>7 DEF IInv, SavedCoversOutbox
<1>9. Alone'
  <2>1. ~overlapped => InStep(k, saved', handled')
    BY <1>1, OpenInStep DEF IInv
  <2>2. ~overlapped => \A i \in DOMAIN handled' : handled'[i] < saved'.in
    BY <1>1, <1>6, <1>7 DEF IInv, Alone
  <2> QED  BY <1>1, <2>1, <2>2, OneMoves DEF IInv, Typed
<1> QED  BY <1>2, <1>4, <1>5, <1>8, <1>9 DEF IInv

LEMMA IdleSaved ==
  ASSUME IInv, NEW c \in Conns
  PROVE  /\ Idle(c) \in Conn /\ WellPlaced(Idle(c))
         /\ InStep(Idle(c), SessionRow(c), handled)
<1>1. conns[c].session \in Session
  BY ConnFields DEF IInv, Typed
<1>2. /\ Idle(c) \in Conn /\ WellPlaced(Idle(c))
      /\ Idle(c).pc = "idle" /\ Idle(c).session = conns[c].session
  BY <1>1, ClosedConn DEF Idle
<1>3. conns[c].session.in \in Nat
  BY <1>1 DEF Session
<1> QED  BY <1>2, <1>3 DEF InStep, SessionRow

LEMMA SaveStep ==
  ASSUME IInv, NEW c \in Conns, Save(c)
  PROVE  IInv'
<1> DEFINE work == conns[c].work
           place == AfterSave(c)
<1>1. /\ conns[c].pc = "save" /\ saved' = SessionRow(c)
      /\ conns' = [conns EXCEPT ![c] =
            IF AfterSave(c) = "idle" THEN Idle(c) ELSE [@ EXCEPT !.pc = AfterSave(c)]]
      /\ UNCHANGED <<outbox, overlapped, gateway_vars>>
  BY DEF Save
<1>2. conns[c] \in Conn /\ WellPlaced(conns[c])
  BY DEF IInv, Typed, Placed
<1>3. work \in Seq(InMessage) /\ Len(work) \in {0, 1}
  BY <1>2 DEF WellPlaced, Conn
<1>4. CASE AfterSave(c) = "idle"
  <2>1. conns' = [conns EXCEPT ![c] = Idle(c)]
    BY <1>1, <1>4
  <2> QED  BY <1>1, <2>1, IdleSaved, SavingStep
<1>5. CASE AfterSave(c) # "idle"
  <2> DEFINE k == [conns[c] EXCEPT !.pc = AfterSave(c)]
  <2>1. conns' = [conns EXCEPT ![c] = k]
    BY <1>1, <1>5
  <2>2. /\ work # <<>>
        /\ AfterSave(c) = (IF work[1].type = "ResendRequest" THEN "resend" ELSE "handle")
    BY <1>5 DEF AfterSave
  <2>3. Len(work) = 1
    BY <1>3, <2>2
  <2>4. k \in Conn /\ k.pc = AfterSave(c) /\ k.work = work /\ k.session = conns[c].session
    BY <1>2, <2>2 DEF Conn, Place
  <2> HIDE DEF k
  <2>5. WellPlaced(k)
    BY <1>2, <1>3, <2>2, <2>3, <2>4 DEF WellPlaced
  <2>6. ASSUME InStep(conns[c], saved, handled),
               \A i \in DOMAIN handled : handled[i] < saved.in
        PROVE  InStep(k, SessionRow(c), handled)
    <3>1. /\ k.session.in = SessionRow(c).in /\ k.session.out = SessionRow(c).out
          /\ SessionRow(c).in \in Nat
      BY <1>2, <2>4, ConnFields DEF SessionRow
    <3>2. ASSUME k.pc = "handle"
          PROVE  k.work[1].seq < SessionRow(c).in
                 /\ \A i \in DOMAIN handled : handled[i] < k.work[1].seq
      <4>1. work[1].type \in Application
        BY <3>2, <2>5, <2>4 DEF WellPlaced
      <4>2. work[1].seq >= saved.in /\ work[1].seq < conns[c].session.in
        BY <1>1, <2>3, <2>6, <4>1 DEF InStep
      <4>3. work[1] \in InMessage /\ work[1].seq \in Nat
        BY <1>3, <2>3, MessageFields
      <4>4. saved.in \in Nat /\ \A i \in DOMAIN handled : handled[i] \in Nat
        BY DEF IInv, Typed
      <4> HIDE DEF work
      <4> QED  BY <2>4, <2>6, <3>1, <4>2, <4>3, <4>4
    <3>3. k.pc \in {"resend", "handle"}
      BY <2>2, <2>4
    <3> QED  BY <3>1, <3>2, <3>3 DEF InStep
  <2> QED  BY <1>1, <2>1, <2>4, <2>5, <2>6, SavingStep
<1> QED  BY <1>4, <1>5

-----------------------------------------------------------------------------
(* The gateway.                                                            *)

OrderSet == [id: ClOrdIds, status: {"Working", "Cancelled"}]

(* The orders and the maps after a request: typed, indexed, no id twice.   *)
Sound(os, ids) ==
  /\ os \in Seq(OrderSet)
  /\ DOMAIN ids \subseteq ClOrdIds
  /\ \A id \in DOMAIN ids : ids[id] \in DOMAIN os
  /\ \A i \in DOMAIN os : os[i].id \in DOMAIN ids
  /\ \A i, j \in DOMAIN os : os[i].id = os[j].id => i = j

LEMMA NewOrderFacts ==
  ASSUME NEW m, m.id \in ClOrdIds, Sound(orders, by_id)
  PROVE  Sound(handle_new_order(m).orders, handle_new_order(m).by_id)
         /\ handle_new_order(m).type \in OutType
<1>1. CASE m.ok /\ m.id \notin DOMAIN by_id
  <2> DEFINE order == [id |-> m.id, status |-> "Working"]
             os == Append(orders, order)
             ids == Mapped(m.id, Len(orders) + 1)
  <2>1. /\ handle_new_order(m).orders = os /\ handle_new_order(m).by_id = ids
        /\ handle_new_order(m).type = "ExecutionReport"
    BY <1>1 DEF handle_new_order
  <2>2. order \in OrderSet /\ order.id = m.id
    BY DEF OrderSet
  <2> HIDE DEF order
  <2>3. /\ os \in Seq(OrderSet) /\ Len(os) = Len(orders) + 1 /\ Len(orders) \in Nat
        /\ DOMAIN orders = 1..Len(orders) /\ DOMAIN os = 1..(Len(orders) + 1)
        /\ os[Len(orders) + 1] = order
        /\ \A i \in DOMAIN orders : os[i] = orders[i]
    BY <2>2 DEF Sound
  <2> HIDE DEF os
  <2>4. \A i \in DOMAIN os : i \in DOMAIN orders \/ i = Len(orders) + 1
    BY <2>3
  <2>5. DOMAIN ids = DOMAIN by_id \union {m.id}
        /\ \A x \in DOMAIN ids : ids[x] = IF x = m.id THEN Len(orders) + 1 ELSE by_id[x]
    BY DEF Mapped
  <2> HIDE DEF ids
  <2>6. \A id \in DOMAIN ids : ids[id] \in DOMAIN os
    BY <2>3, <2>5 DEF Sound
  <2>7. \A i \in DOMAIN os : os[i].id \in DOMAIN ids
    BY <2>2, <2>3, <2>4, <2>5 DEF Sound
  <2>8. \A i \in DOMAIN orders : os[i].id # m.id
    BY <1>1, <2>3 DEF Sound
  <2>9. \A i, j \in DOMAIN os : os[i].id = os[j].id => i = j
    BY <2>2, <2>3, <2>4, <2>8 DEF Sound
  <2>10. DOMAIN ids \subseteq ClOrdIds
    BY <2>5 DEF Sound
  <2>11. Sound(os, ids)
    BY <2>3, <2>6, <2>7, <2>9, <2>10 DEF Sound
  <2> QED  BY <2>1, <2>11 DEF OutType
<1>2. CASE ~(m.ok /\ m.id \notin DOMAIN by_id)
  BY <1>2 DEF handle_new_order, Refused, OutType, Administrative
<1> QED  BY <1>1, <1>2

LEMMA CancelFacts ==
  ASSUME NEW m, m.id \in ClOrdIds, Sound(orders, by_id)
  PROVE  Sound(handle_cancel(m).orders, handle_cancel(m).by_id)
         /\ handle_cancel(m).type \in OutType
<1> DEFINE cancels == m.ok /\ m.orig \in DOMAIN by_id
                      /\ orders[by_id[m.orig]].status = "Working"
<1>1. CASE cancels
  <2> DEFINE n == by_id[m.orig]
             os == [orders EXCEPT ![n].status = "Cancelled"]
             ids == Mapped(m.id, n)
  <2>1. /\ handle_cancel(m).orders = os /\ handle_cancel(m).by_id = ids
        /\ handle_cancel(m).type = "ExecutionReport"
    BY <1>1 DEF handle_cancel
  <2>2. n \in DOMAIN orders
    BY <1>1 DEF Sound
  <2>3. /\ os \in Seq(OrderSet) /\ DOMAIN os = DOMAIN orders
        /\ \A i \in DOMAIN orders : os[i].id = orders[i].id
    <3>1. orders \in Seq(OrderSet) /\ orders[n] \in OrderSet
      BY <2>2 DEF Sound
    <3>2. [orders[n] EXCEPT !.status = "Cancelled"] \in OrderSet
          /\ [orders[n] EXCEPT !.status = "Cancelled"].id = orders[n].id
      BY <3>1 DEF OrderSet
    <3>3. os = [orders EXCEPT ![n] = [orders[n] EXCEPT !.status = "Cancelled"]]
      OBVIOUS
    <3> HIDE DEF n, os
    <3> DEFINE new == [orders[n] EXCEPT !.status = "Cancelled"]
    <3>4. os = [orders EXCEPT ![n] = new] /\ new \in OrderSet /\ new.id = orders[n].id
      BY <3>2, <3>3
    <3> HIDE DEF new
    <3> QED  BY <2>2, <3>1, <3>4
  <2> HIDE DEF os, n
  <2>4. DOMAIN ids = DOMAIN by_id \union {m.id}
        /\ \A x \in DOMAIN ids : ids[x] = IF x = m.id THEN n ELSE by_id[x]
    BY DEF Mapped
  <2> HIDE DEF ids
  <2>5. \A id \in DOMAIN ids : ids[id] \in DOMAIN os
    BY <2>2, <2>3, <2>4 DEF Sound
  <2>6. Sound(os, ids)
    BY <2>3, <2>4, <2>5 DEF Sound
  <2> QED  BY <2>1, <2>6 DEF OutType
<1>2. CASE ~cancels
  BY <1>2 DEF handle_cancel, Refused, OutType, Administrative
<1> QED  BY <1>1, <1>2

LEMMA HandleStep ==
  ASSUME IInv, NEW c \in Conns, Handle(c)
  PROVE  IInv'
<1> DEFINE m == conns[c].work[1]
           result == GatewayHandle(m)
           outbound == prepare_outbound(conns[c].session, result.type)
           k == [conns[c] EXCEPT !.pc = "report", !.session = outbound.session,
                                 !.response = <<outbound.message>>]
<1>1. /\ conns[c].pc = "handle" /\ UNCHANGED <<saved, outbox, overlapped>>
      /\ orders' = result.orders /\ by_id' = result.by_id
      /\ handled' = Append(handled, m.seq)
      /\ conns' = [conns EXCEPT ![c] = k]
  BY DEF Handle
<1>2. conns[c] \in Conn /\ WellPlaced(conns[c])
  BY DEF IInv, Typed, Placed
<1>3. /\ m \in InMessage /\ m.type \in Application /\ m.seq \in Nat /\ m.id \in ClOrdIds
      /\ Len(conns[c].work) = 1
  <2>1. Len(conns[c].work) = 1 /\ m.type \in Application /\ m \in InMessage
    BY <1>1, <1>2, ConnFields DEF WellPlaced
  <2> QED  BY <2>1, MessageFields
<1> HIDE DEF m
<1>4. Sound(result.orders, result.by_id) /\ result.type \in OutType
  <2>1. Sound(orders, by_id)
    BY DEF Sound, OrderSet, IInv, Typed, Indexed, OneOrderPerClOrdID
  <2> QED  BY <1>3, <2>1, NewOrderFacts, CancelFacts DEF GatewayHandle
<1> HIDE DEF result
<1>5. /\ k \in Conn /\ k.pc = "report" /\ k.work = conns[c].work
      /\ k.session.in = conns[c].session.in /\ k.session.out = conns[c].session.out + 1
      /\ Len(k.response) = 1 /\ k.response[1].seq = conns[c].session.out
  <2>1. conns[c].session \in Session /\ conns[c].session.out \in Nat
    BY <1>2, ConnFields
  <2>2. /\ outbound.session \in Session
        /\ outbound.session.in = conns[c].session.in
        /\ outbound.session.out = conns[c].session.out + 1
    BY <2>1 DEF prepare_outbound, Session
  <2>3. outbound.message \in OutMessage /\ outbound.message.seq = conns[c].session.out
    BY <1>4, <2>1 DEF prepare_outbound, OutMessage
  <2> HIDE DEF outbound
  <2> DEFINE response == <<outbound.message>>
  <2>4. response \in Seq(OutMessage) /\ Len(response) = 1 /\ response[1] = outbound.message
    BY <2>3
  <2> HIDE DEF response
  <2>5. k \in Conn /\ k.pc = "report" /\ k.work = conns[c].work
        /\ k.session = outbound.session /\ k.response = response
    BY <1>2, <2>2, <2>4 DEF Conn, Place, response
  <2> HIDE DEF k
  <2> QED  BY <2>2, <2>3, <2>4, <2>5
<1> HIDE DEF k
<1>6. WellPlaced(k)
  BY <1>2, <1>5 DEF WellPlaced
<1>7. conns' \in [Conns -> Conn] /\ Placed'
  BY <1>1, <1>5, <1>6, ConnMoves DEF IInv, Typed
<1>8. Sound(orders', by_id')
  BY <1>1, <1>4
<1>9. handled \in Seq(Nat) /\ handled' \in Seq(Nat)
  BY <1>1, <1>3 DEF IInv, Typed
<1>10. Typed' /\ Indexed' /\ OneOrderPerClOrdID'
  BY <1>1, <1>7, <1>8, <1>9
     DEF Sound, OrderSet, IInv, Typed, Indexed, OneOrderPerClOrdID
<1>11. SavedCoversOutbox'
  BY <1>1 DEF IInv, SavedCoversOutbox
<1>12. ~overlapped => /\ InStep(conns[c], saved, handled)
                      /\ \A i \in DOMAIN handled : handled[i] < m.seq
                      /\ m.seq < saved.in
  BY <1>1, OpenInStep DEF IInv, InStep, m
<1>13. /\ \A i \in DOMAIN handled' : i \in DOMAIN handled \/ i = Len(handled) + 1
       /\ \A i \in DOMAIN handled : handled'[i] = handled[i]
       /\ handled'[Len(handled) + 1] = m.seq /\ Len(handled) \in Nat
       /\ DOMAIN handled = 1..Len(handled)
  BY <1>1, <1>3, <1>9
<1>14. HandledInOrder'
  <2> SUFFICES ASSUME ~overlapped, NEW i \in DOMAIN handled', NEW j \in DOMAIN handled',
                      i < j
               PROVE  handled'[i] < handled'[j]
    BY <1>1 DEF HandledInOrder
  <2>1. i \in DOMAIN handled
    BY <1>13
  <2>2. CASE j \in DOMAIN handled
    BY <1>13, <2>1, <2>2 DEF IInv, HandledInOrder
  <2>3. CASE j = Len(handled) + 1
    BY <1>12, <1>13, <2>1, <2>3
  <2> QED  BY <1>13, <2>2, <2>3
<1>15. ~overlapped => \A i \in DOMAIN handled' : handled'[i] < saved'.in
  BY <1>1, <1>12, <1>13 DEF IInv, Alone
<1>16. ~overlapped => InStep(k, saved', handled')
  BY <1>1, <1>5, <1>12 DEF InStep
<1>17. Alone'
  BY <1>1, <1>5, <1>15, <1>16, OneMoves DEF IInv, Typed
<1> QED  BY <1>7, <1>10, <1>11, <1>14, <1>17 DEF IInv

LEMMA SaveReportStep ==
  ASSUME IInv, NEW c \in Conns, SaveReport(c)
  PROVE  IInv'
<1>1. /\ conns[c].pc = "save_report" /\ saved' = SessionRow(c)
      /\ conns' = [conns EXCEPT ![c] = Idle(c)]
      /\ UNCHANGED <<outbox, overlapped, gateway_vars>>
  BY DEF SaveReport
<1> QED  BY <1>1, IdleSaved, SavingStep

LEMMA CrashStep ==
  ASSUME IInv, Crash
  PROVE  IInv'
<1>1. /\ conns' = [c \in Conns |-> Closed] /\ orders' = <<>> /\ by_id' = <<>>
      /\ UNCHANGED <<saved, outbox, handled, overlapped>>
  BY DEF Crash
<1>2. conns' \in [Conns -> Conn] /\ \A c \in Conns : conns'[c] = Closed
  BY <1>1, ClosedConn
<1>3. Placed'
  BY <1>2, ClosedConn DEF Placed
<1>4. DOMAIN by_id' = {} /\ DOMAIN orders' = {}
      /\ orders' \in Seq([id: ClOrdIds, status: {"Working", "Cancelled"}])
  BY <1>1
<1>5. Typed'
  BY <1>1, <1>2, <1>4 DEF IInv, Typed
<1>6. Indexed' /\ OneOrderPerClOrdID'
  BY <1>4 DEF Indexed, OneOrderPerClOrdID
<1>7. HandledInOrder' /\ SavedCoversOutbox'
  BY <1>1 DEF IInv, HandledInOrder, SavedCoversOutbox
<1>8. Open' = {}
  BY <1>2, ClosedConn DEF Open
<1>9. Alone'
  BY <1>1, <1>8 DEF IInv, Alone
<1> QED  BY <1>3, <1>5, <1>6, <1>7, <1>9 DEF IInv

-----------------------------------------------------------------------------
(* The theorems.                                                           *)

LEMMA Initially == Init => IInv
<1> SUFFICES ASSUME Init PROVE IInv
  OBVIOUS
<1>1. conns \in [Conns -> Conn] /\ \A c \in Conns : conns[c] = Closed
  BY ClosedConn DEF Init
<1>2. Placed
  BY <1>1, ClosedConn DEF Placed
<1>3. Open = {}
  BY <1>1, ClosedConn DEF Open
<1>4. DOMAIN by_id = {} /\ DOMAIN orders = {} /\ DOMAIN handled = {} /\ DOMAIN outbox = {}
  BY DEF Init
<1>5. /\ orders \in Seq([id: ClOrdIds, status: {"Working", "Cancelled"}])
      /\ outbox \in Seq(OutMessage) /\ handled \in Seq(Nat)
      /\ saved \in [in: Nat, out: Nat] /\ overlapped \in BOOLEAN
  <2>1. orders = <<>> /\ outbox = <<>> /\ handled = <<>>
    BY DEF Init
  <2>2. saved \in [in: Nat, out: Nat] /\ overlapped \in BOOLEAN
    BY DEF Init
  <2> QED  BY <2>1, <2>2
<1>6. Typed
  BY <1>1, <1>4, <1>5 DEF Typed
<1>7. Indexed /\ OneOrderPerClOrdID /\ HandledInOrder /\ SavedCoversOutbox
  BY <1>4 DEF Indexed, OneOrderPerClOrdID, HandledInOrder, SavedCoversOutbox
<1>8. Alone
  BY <1>3, <1>4 DEF Alone
<1> QED  BY <1>2, <1>6, <1>7, <1>8 DEF IInv

LEMMA Preserved == IInv /\ [Next]_vars => IInv'
<1> SUFFICES ASSUME IInv, [Next]_vars PROVE IInv'
  OBVIOUS
<1>1. ASSUME NEW c \in Conns, Connect(c) PROVE IInv'
  BY <1>1, ConnectStep
<1>2. ASSUME NEW c \in Conns, Disconnect(c) PROVE IInv'
  BY <1>2, CloseStep DEF Disconnect
<1>3. ASSUME NEW c \in Conns, Receive(c) PROVE IInv'
  BY <1>3, ReceiveStep
<1>4. ASSUME NEW c \in Conns, Respond(c) PROVE IInv'
  BY <1>4, SendStep DEF Respond
<1>5. ASSUME NEW c \in Conns, Save(c) PROVE IInv'
  BY <1>5, SaveStep
<1>6. ASSUME NEW c \in Conns, Resend(c) PROVE IInv'
  BY <1>6, ResendStep
<1>7. ASSUME NEW c \in Conns, GapFillRefused(c) PROVE IInv'
  BY <1>7, CloseStep DEF GapFillRefused
<1>8. ASSUME NEW c \in Conns, Handle(c) PROVE IInv'
  BY <1>8, HandleStep
<1>9. ASSUME NEW c \in Conns, Report(c) PROVE IInv'
  BY <1>9, SendStep DEF Report
<1>10. ASSUME NEW c \in Conns, SaveReport(c) PROVE IInv'
  BY <1>10, SaveReportStep
<1>11. CASE Crash
  BY <1>11, CrashStep
<1>12. CASE UNCHANGED vars
  BY <1>12 DEF vars, IInv, Typed, Placed, Indexed, OneOrderPerClOrdID, Alone, Open,
               HandledInOrder, SavedCoversOutbox
<1> QED  BY <1>1, <1>2, <1>3, <1>4, <1>5, <1>6, <1>7, <1>8, <1>9, <1>10, <1>11, <1>12
         DEF Next

LEMMA Invariance == Spec => []IInv
  BY Initially, Preserved, PTL DEF Spec

(* The variables keep their types whatever the counterparty sends: every   *)
(* entry of the gateway's maps points at an order it holds.                *)
THEOREM TypeCorrect == Spec => []TypeOK
<1>1. IInv => TypeOK
  BY ConnFields DEF IInv, Typed, TypeOK, OutMessage
<1> QED  BY <1>1, Invariance, PTL

(* However many connections come and go, one at a time, whatever the       *)
(* counterparty sends and wherever a write fails or the process ends, the  *)
(* gateway is given each incoming number at most once and in order: the    *)
(* session is saved before the gateway is called.                          *)
THEOREM GatewayOrdered == Spec => []HandledInOrder
  BY Invariance, PTL DEF IInv

(* With one connection at a time the numbers of the stored messages are at *)
(* most the saved one: send_fix stores a message one save ahead at most.   *)
THEOREM StoreCovers == Spec => []SavedCoversOutbox
  BY Invariance, PTL DEF IInv

(* The gateway's maps hold every id an order was made from, cancellations  *)
(* never drop one, and so a ClOrdID makes one order per process, on any    *)
(* number of connections.                                                  *)
THEOREM OneOrderEach == Spec => []OneOrderPerClOrdID
  BY Invariance, PTL DEF IInv
=============================================================================
