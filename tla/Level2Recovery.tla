--------------------------- MODULE Level2Recovery ----------------------------
(***************************************************************************)
(* Level2Book with single updates (apply and apply_snapshot of             *)
(* src/src/market_data.cpp), as operators: a gap in the sequence numbers   *)
(* starts a recovery, updates are buffered until a snapshot arrives, and   *)
(* the snapshot replays the buffer.  The live feeds of module MarketData   *)
(* use batches instead and never fill the buffer.                          *)
(*                                                                         *)
(* A book is levels, sequence, synchronized, missing (missing_sequence_)   *)
(* and buffer (sequence number -> update).  An update sets one level to a  *)
(* quantity, 0 removing it.                                                *)
(***************************************************************************)
EXTENDS Integers, Sequences, FiniteSets, SequencesExt

EmptyBook(levels) ==
  [levels |-> levels, sequence |-> 0, synchronized |-> FALSE, missing |-> 0,
   buffer |-> <<>>]

CrossedLevels(levels) ==
  \E l, m \in DOMAIN levels :
    /\ l[1] = "Bid" /\ m[1] = "Ask" /\ l[2] >= m[2]
    /\ levels[l] > 0 /\ levels[m] > 0

(* try_emplace: the first update with a number stays.                       *)
Buffered(book, update) ==
  [n \in DOMAIN book.buffer \cup {update.sequence} |->
     IF n \in DOMAIN book.buffer THEN book.buffer[n] ELSE update]

(* apply.  An update that crosses the market is left in the levels of a     *)
(* book that is no longer synchronized.                                     *)
ApplyUpdate(book, update, capacity) ==
  LET full == /\ Cardinality(DOMAIN book.buffer) >= capacity
              /\ update.sequence \notin DOMAIN book.buffer
      levels == [book.levels EXCEPT ![update.level] = update.quantity]
  IN CASE update.sequence <= book.sequence -> book
       [] update.sequence > book.sequence /\ ~book.synchronized ->
            IF full THEN book ELSE [book EXCEPT !.buffer = Buffered(book, update)]
       [] update.sequence > book.sequence + 1 /\ book.synchronized ->
            [book EXCEPT !.synchronized = FALSE, !.missing = book.sequence + 1,
                         !.buffer = Buffered(book, update)]
       [] OTHER ->
            IF CrossedLevels(levels)
            THEN [book EXCEPT !.levels = levels, !.synchronized = FALSE]
            ELSE [book EXCEPT !.levels = levels, !.sequence = update.sequence]

(* apply_snapshot: the buffer is taken out, and what is younger than the    *)
(* snapshot is applied in the order of its numbers.                         *)
ApplySnapshot(book, snapshot, capacity) ==
  LET numbers == SetToSortSeq(DOMAIN book.buffer, <)
      fresh == [levels |-> snapshot.levels, sequence |-> snapshot.sequence,
                synchronized |-> TRUE, missing |-> 0, buffer |-> <<>>]
  IN FoldLeft(LAMBDA b, n : ApplyUpdate(b, book.buffer[n], capacity), fresh, numbers)

Received(book, message, capacity) ==
  IF message.type = "snapshot" THEN ApplySnapshot(book, message, capacity)
  ELSE ApplyUpdate(book, message, capacity)
=============================================================================
