---------------------------- MODULE MCMarketData -----------------------------
(* A small instance of MarketData, and the recovery of a single Level2Book  *)
(* over every short sequence of messages.                                   *)
EXTENDS MarketData

(* Two ticks; the venue starts with nothing, or with one order on each side. *)
MCInitialBooks ==
  {NoLevels, [l \in Level |-> IF l \in {<<"Bid", 1>>, <<"Ask", 2>>} THEN 1 ELSE 0]}

Recovery == INSTANCE Level2Recovery

(* What a venue sends: four books, each one level from the one before, as   *)
(* snapshots and as updates.  The market moves up between the last two.     *)
Changes == << <<<<"Bid", 1>>, 1>>, <<<<"Ask", 2>>, 1>>, <<<<"Ask", 2>>, 0>>,
              <<<<"Bid", 2>>, 1>> >>
BookAt(n) ==
  FoldLeft(LAMBDA b, change : [b EXCEPT ![change[1]] = change[2]],
           NoLevels, SubSeq(Changes, 1, n))
Messages ==
  {[type |-> "snapshot", sequence |-> n, levels |-> BookAt(n)] : n \in {0, 2, 3}}
    \cup {[type |-> "update", sequence |-> n, level |-> Changes[n][1],
           quantity |-> Changes[n][2]] : n \in DOMAIN Changes}

(* Whatever is lost, repeated or out of order, and however small the        *)
(* buffer, a book that calls itself synchronized is the venue's book of     *)
(* its sequence number; and it is synchronized after every snapshot that    *)
(* the buffered updates join without a gap.                                 *)
ASSUME RecoveredBooksAreVenueBooks ==
  \A capacity \in 1 .. 2 : \A s \in [1 .. 5 -> Messages] :
    LET step(b, m) == Recovery!Received(b, m, capacity)
        before == FoldLeft(step, Recovery!EmptyBook(NoLevels), SubSeq(s, 1, 4))
        after == step(before, s[5])
        joined == {n \in DOMAIN before.buffer : n > s[5].sequence}
    IN /\ after.synchronized => after.levels = BookAt(after.sequence)
       /\ s[5].type = "snapshot" /\ joined = s[5].sequence + 1 .. s[5].sequence + Cardinality(joined)
            => after.synchronized
=============================================================================
