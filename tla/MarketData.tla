------------------------------ MODULE MarketData -----------------------------
(***************************************************************************)
(* The live Level-2 book of one venue and the feed thread that keeps it    *)
(* (src/apps/live_market_data_ws.cpp).  Three kinds of venue, and three    *)
(* ways of noticing that the local book has left the venue's:              *)
(*   BINANCE   a stream of events that span ranges of update ids, joined   *)
(*             to a snapshot fetched on the side (binance_feed.cpp,        *)
(*             BinanceBookSynchronizer in binance_l2.cpp);                 *)
(*   KRAKEN    a depth-limited book with a checksum on every message       *)
(*             (kraken_feed.cpp, KrakenBookNormalizer in kraken_l2.cpp);   *)
(*   COINBASE  updates in the order they come (coinbase_l2.cpp).           *)
(* All three renumber what they accept and hand it to a Level2Book         *)
(* (market_data.cpp), which wants consecutive numbers.  An exception       *)
(* anywhere in a feed ends the connection, and the feed starts again.      *)
(*                                                                         *)
(* The ready flag of a venue (coinbase_ready_ ...) is set and cleared with *)
(* the book's synchronized_ and is not modelled beside it.                 *)
(***************************************************************************)
EXTENDS Integers, Sequences, FiniteSets, SequencesExt

CONSTANTS
  Kinds,          \* the kinds of venue in this instance
  Price,          \* price ticks, a set of integers
  MaxQuantity,    \* quantities at a level are 0 .. MaxQuantity, 0 is no level
  Depth,          \* levels per side of the Kraken book
  SnapshotDepth,  \* levels per side of a Binance snapshot
  InitialBooks,   \* what the venue's book may be when the program starts
  MaxUpdates,     \* bound on the venue's book versions
  MaxFaults       \* bound on lost messages and broken connections

Level == {"Bid", "Ask"} \X Price
Book == [Level -> 0 .. MaxQuantity]

Crossed(b) ==
  \E p, q \in Price : p >= q /\ b[<<"Bid", p>>] > 0 /\ b[<<"Ask", q>>] > 0

ASSUME MarketAssumption ==
  /\ Kinds \subseteq {"BINANCE", "KRAKEN", "COINBASE"}
  /\ Price \subseteq Int /\ IsFiniteSet(Price)
  /\ {MaxQuantity, MaxFaults} \subseteq Nat
  /\ {MaxUpdates, Depth, SnapshotDepth} \subseteq Nat \ {0}
  /\ \A b \in InitialBooks : b \in Book /\ ~Crossed(b)

VARIABLES
  kind,
  history,      \* the venue's book after each of its updates
  streamed,     \* the update the venue has sent this connection up to
  stream,       \* messages on their way to the feed
  conn,         \* "down", "waiting" (for a snapshot) or "live"
  status,       \* status_ of the Binance synchronizer
  last_update_id,
  normalized_sequence,
  local,        \* the Kraken normalizer's own copy of the book
  book,         \* the Level2Book: levels, sequence, synchronized
  version,      \* the update that the book stands for
  base,         \* the one its snapshot stood for
  silent,       \* accepted messages of this connection that changed no level
  lost,         \* a Coinbase message was skipped since the book's snapshot
  faults

vars == <<kind, history, streamed, stream, conn, status, last_update_id,
          normalized_sequence, local, book, version, base, silent, lost, faults>>
venueVars == <<kind, history>>
syncVars == <<status, last_update_id>>

Now == Len(history)
NoLevels == [l \in Level |-> 0]

Init ==
  /\ kind \in Kinds
  /\ \E b \in InitialBooks : history = <<b>>
  /\ streamed = 1 /\ stream = <<>> /\ conn = "down"
  /\ status = "WaitingForSnapshot" /\ last_update_id = 0 /\ normalized_sequence = 0
  /\ local = NoLevels
  /\ book = [levels |-> NoLevels, sequence |-> 0, synchronized |-> FALSE]
  /\ version = 0 /\ base = 0 /\ silent = 0 /\ lost = FALSE /\ faults = 0

-----------------------------------------------------------------------------
(* Books and messages.                                                     *)

Better(m, l) ==
  m[1] = l[1] /\ IF l[1] = "Bid" THEN m[2] > l[2] ELSE m[2] < l[2]

(* The best n levels of each side.                                         *)
BestLevels(b, n) ==
  [l \in Level |->
     IF Cardinality({m \in Level : Better(m, l) /\ b[m] > 0}) < n THEN b[l] ELSE 0]

(* trim_to_depth.                                                          *)
TrimToDepth(b) == BestLevels(b, Depth)

(* apply_levels and the loops of apply_batch: a level is set to a quantity *)
(* or, by a quantity of zero, removed.                                     *)
ApplyLevels(b, levels) ==
  [l \in Level |-> IF l \in DOMAIN levels THEN levels[l] ELSE b[l]]

(* What a venue keeps its subscribers told of: Kraken the best levels only. *)
Visible(b) == IF kind = "KRAKEN" THEN TrimToDepth(b) ELSE b

(* The levels a message for the updates first .. final names.  Kraken does *)
(* not mention a level that was pushed out of the best Depth.              *)
Named(first, final) ==
  IF kind = "KRAKEN"
  THEN LET old == Visible(history[first - 1])
           new == Visible(history[final])
       IN {l \in Level : new[l] # old[l] /\ (new[l] = 0 => history[final][l] = 0)}
  ELSE {l \in Level : \E i \in first .. final : history[i][l] # history[i - 1][l]}

Update(first, final) ==
  [type |-> "update", first |-> first, final |-> final,
   levels |-> [l \in Named(first, final) |-> history[final][l]],
   checksum |-> Visible(history[final])]

Snapshot(id) == [type |-> "snapshot", final |-> id, levels |-> Visible(history[id])]

(* What the &limit of the request leaves of a Binance snapshot.            *)
Limited(id) == BestLevels(history[id], SnapshotDepth)

-----------------------------------------------------------------------------
(* The venue and the network.                                              *)

(* The venue's book changes at one level, or in a way it does not show     *)
(* (a quantity that changes and changes back between two messages).        *)
VenueChanges ==
  /\ Now < MaxUpdates
  /\ \E l \in Level, n \in 0 .. MaxQuantity :
       LET b == [Last(history) EXCEPT ![l] = n]
       IN ~Crossed(b) /\ history' = Append(history, b)
  /\ UNCHANGED <<kind, streamed, stream, conn, syncVars, normalized_sequence,
                 local, book, version, base, silent, lost, faults>>

(* One message for all that has happened since the last one.               *)
VenueSends ==
  /\ conn # "down" /\ streamed < Now
  /\ stream' = Append(stream, Update(streamed + 1, Now))
  /\ streamed' = Now
  /\ UNCHANGED <<venueVars, conn, syncVars, normalized_sequence, local, book,
                 version, base, silent, lost, faults>>

(* A Binance or Kraken message that never comes.                           *)
Lose ==
  /\ kind # "COINBASE" /\ faults < MaxFaults
  /\ \E i \in DOMAIN stream :
       stream[i].type = "update" /\ stream' = RemoveAt(stream, i)
  /\ faults' = faults + 1
  /\ UNCHANGED <<venueVars, streamed, conn, syncVars, normalized_sequence, local,
                 book, version, base, silent, lost>>

(* A Coinbase message that does not parse is skipped, a snapshot as well   *)
(* as an update; one that never comes makes no other difference.           *)
SkipUnparsed ==
  /\ kind = "COINBASE" /\ stream # <<>> /\ faults < MaxFaults
  /\ stream' = Tail(stream)
  /\ faults' = faults + 1
  /\ lost' = TRUE
  /\ UNCHANGED <<venueVars, streamed, conn, syncVars, normalized_sequence, local,
                 book, version, base, silent>>

(* An exception ends the connection.  Nothing is done to the book, which   *)
(* keeps its last quotes and stays synchronized if it was.                 *)
Throw == conn' = "down" /\ stream' = <<>>

(* The connection breaks, the snapshot request fails or a Binance or       *)
(* Kraken message does not parse.                                          *)
Disconnect ==
  /\ conn # "down" /\ faults < MaxFaults
  /\ Throw
  /\ faults' = faults + 1
  /\ UNCHANGED <<venueVars, streamed, syncVars, normalized_sequence, local, book,
                 version, base, silent, lost>>

-----------------------------------------------------------------------------
(* Level2Book.                                                             *)

(* apply_snapshot; the recovery buffer that apply keeps is not in use here. *)
BookFrom(levels) == [levels |-> levels, sequence |-> 0, synchronized |-> TRUE]

(* apply_batch.                                                            *)
Accepts(sequence, levels) ==
  /\ book.synchronized
  /\ sequence = book.sequence + 1
  /\ ~Crossed(ApplyLevels(book.levels, levels))

(* A batch goes to the book.  The handler throws if it is rejected.        *)
(* (Mutant: it only returns.)                                              *)
HandOverQuietly(sequence, levels, id) ==
  IF Accepts(sequence, levels)
  THEN /\ book' = [book EXCEPT !.levels = ApplyLevels(@, levels), !.sequence = sequence]
       /\ version' = id
       /\ stream' = Tail(stream)
       /\ UNCHANGED conn
  ELSE /\ book' = [book EXCEPT !.synchronized = FALSE]
       /\ stream' = Tail(stream)
       /\ UNCHANGED <<conn, version>>

HandOver(sequence, levels, id) ==
  IF Accepts(sequence, levels)
  THEN /\ book' = [book EXCEPT !.levels = ApplyLevels(@, levels), !.sequence = sequence]
       /\ version' = id
       /\ stream' = Tail(stream)
       /\ UNCHANGED conn
  ELSE /\ book' = [book EXCEPT !.synchronized = FALSE]
       /\ Throw
       /\ UNCHANGED version

(* A batch without levels never reaches the book.                          *)
PassOver(id) ==
  /\ stream' = Tail(stream)
  /\ silent' = silent + 1
  /\ version' = id
  /\ UNCHANGED <<conn, book>>

-----------------------------------------------------------------------------
(* A feed thread.                                                          *)

(* A new connection, with a new synchronizer or normalizer; the numbers of *)
(* Coinbase go on until a snapshot comes.                                  *)
Reconnected ==
  /\ conn = "down"
  /\ conn' = "waiting"
  /\ streamed' = Now
  /\ status' = "WaitingForSnapshot" /\ last_update_id' = 0
  /\ normalized_sequence' = IF kind = "COINBASE" THEN normalized_sequence ELSE 0
  /\ local' = NoLevels /\ silent' = 0
  /\ UNCHANGED <<venueVars, book, version, base, lost, faults>>

(* Binance streams events from then on; Kraken and Coinbase answer the     *)
(* subscription with a snapshot.                                           *)
Connect == kind = "BINANCE" /\ Reconnected /\ stream' = <<>>
Subscribe == kind # "BINANCE" /\ Reconnected /\ stream' = <<Snapshot(Now)>>

(* Binance: the stream is open, the snapshot is fetched over HTTP and may  *)
(* be older or younger than the first event of the stream.  It holds the   *)
(* best SnapshotDepth levels of each side; what lies behind them stays     *)
(* unknown to the book until an event names it.                            *)
FetchSnapshot ==
  /\ kind = "BINANCE" /\ conn = "waiting"
  /\ \E id \in 1 .. Now :
       /\ book' = BookFrom(Limited(id))
       /\ last_update_id' = id
       /\ version' = id /\ base' = id
  /\ status' = "Synchronizing" /\ normalized_sequence' = 0
  /\ conn' = "live"
  /\ UNCHANGED <<venueVars, streamed, stream, local, silent, lost, faults>>

(* KrakenBookNormalizer::normalize_snapshot.                               *)
NormalizedSnapshot(m) == TrimToDepth(m.levels)

(* Kraken and Coinbase: the snapshot is the first message.                 *)
ReadSnapshot ==
  /\ kind # "BINANCE" /\ conn = "waiting" /\ stream # <<>>
  /\ Head(stream).type = "snapshot"
  /\ local' = IF kind = "KRAKEN" THEN NormalizedSnapshot(Head(stream)) ELSE local
  /\ book' = BookFrom(IF kind = "KRAKEN" THEN local' ELSE Head(stream).levels)
  /\ version' = Head(stream).final /\ base' = Head(stream).final
  /\ normalized_sequence' = 0
  /\ stream' = Tail(stream)
  /\ conn' = "live"
  /\ lost' = FALSE
  /\ UNCHANGED <<venueVars, streamed, syncVars, silent, faults>>

Reads(k) == kind = k /\ conn = "live" /\ stream # <<>>

(* BinanceBookSynchronizer::apply_update.  (Mutants: a gap of one update   *)
(* is overlooked; an event older than the snapshot takes a number.)        *)
BridgesLoosely(m) == m.first <= last_update_id + 2
Bridges(m) == m.first <= last_update_id + 1

BinanceStaleNumbered ==
  /\ Reads("BINANCE") /\ Head(stream).final <= last_update_id
  /\ stream' = Tail(stream)
  /\ normalized_sequence' = normalized_sequence + 1
  /\ UNCHANGED <<venueVars, streamed, conn, syncVars, local, book, version, base,
                 silent, lost, faults>>

BinanceStale ==
  /\ Reads("BINANCE") /\ Head(stream).final <= last_update_id
  /\ stream' = Tail(stream)
  /\ UNCHANGED <<venueVars, streamed, conn, syncVars, normalized_sequence, local,
                 book, version, base, silent, lost, faults>>

BinanceGap ==
  /\ Reads("BINANCE")
  /\ Head(stream).final > last_update_id /\ ~Bridges(Head(stream))
  /\ status' = "Stale"
  /\ Throw
  /\ UNCHANGED <<venueVars, streamed, last_update_id, normalized_sequence, local,
                 book, version, base, silent, lost, faults>>

BinanceUpdate ==
  LET m == Head(stream) IN
  /\ Reads("BINANCE") /\ m.final > last_update_id /\ Bridges(m)
  /\ status' = "Synchronized"
  /\ last_update_id' = m.final
  /\ normalized_sequence' = normalized_sequence + 1
  /\ IF m.levels = <<>>
     THEN PassOver(m.final)
     ELSE HandOver(normalized_sequence + 1, m.levels, m.final) /\ UNCHANGED silent
  /\ UNCHANGED <<venueVars, streamed, local, base, lost, faults>>

(* KrakenBookNormalizer::normalize_update: apply, trim, compare checksums  *)
(* and publish the difference, evicted levels included.                    *)
Difference(old, new) ==
  [l \in {x \in Level : new[x] # old[x]} |-> new[l]]

KrakenUpdate ==
  LET m == Head(stream)
      next == TrimToDepth(ApplyLevels(local, m.levels))
      updates == Difference(local, next)
  IN /\ Reads("KRAKEN")
     /\ local' = next
     /\ IF next # m.checksum
        THEN Throw /\ UNCHANGED <<normalized_sequence, book, version, silent>>
        ELSE /\ normalized_sequence' = normalized_sequence + 1
             /\ IF updates = <<>>
                THEN PassOver(m.final)
                ELSE /\ HandOver(normalized_sequence + 1, updates, m.final)
                     /\ UNCHANGED silent
     /\ UNCHANGED <<venueVars, streamed, syncVars, base, lost, faults>>

(* apply_coinbase_updates ignores a batch while the book is not            *)
(* synchronized, and numbers one only when it has levels.  It asks for no  *)
(* snapshot of this connection: with the flag of the connection before     *)
(* still set, an update that comes after a skipped snapshot goes into the  *)
(* old book.                                                               *)
CoinbaseUpdate ==
  LET m == Head(stream) IN
  /\ kind = "COINBASE" /\ conn # "down" /\ stream # <<>> /\ m.type = "update"
  /\ CASE ~book.synchronized ->
            /\ stream' = Tail(stream)
            /\ UNCHANGED <<conn, normalized_sequence, book, version, silent>>
       [] book.synchronized /\ m.levels = <<>> ->
            PassOver(m.final) /\ UNCHANGED normalized_sequence
       [] book.synchronized /\ m.levels # <<>> ->
            /\ normalized_sequence' = normalized_sequence + 1
            /\ HandOver(normalized_sequence + 1, m.levels, m.final)
            /\ UNCHANGED silent
  /\ UNCHANGED <<venueVars, streamed, syncVars, local, base, lost, faults>>

FeedStep ==
  \/ Connect \/ Subscribe
  \/ FetchSnapshot
  \/ ReadSnapshot
  \/ BinanceStale \/ BinanceGap \/ BinanceUpdate
  \/ KrakenUpdate
  \/ CoinbaseUpdate

Next == VenueChanges \/ VenueSends \/ Lose \/ SkipUnparsed \/ Disconnect \/ FeedStep

Spec == Init /\ [][Next]_vars

(* The feed thread keeps running (it sleeps for a moment before it         *)
(* reconnects), can connect again in the end and is answered with a        *)
(* snapshot.  Nothing is assumed of what the venue sends after that.       *)
FairSpec == Spec /\ WF_vars(FeedStep)

-----------------------------------------------------------------------------
(* The type of every variable of the feed.                                 *)
TypeOK ==
  /\ kind \in Kinds
  /\ history \in Seq(Book) /\ Now \in 1 .. MaxUpdates
  /\ streamed \in 1 .. MaxUpdates
  /\ conn \in {"down", "waiting", "live"}
  /\ status \in {"WaitingForSnapshot", "Synchronizing", "Synchronized", "Stale"}
  /\ last_update_id \in 0 .. MaxUpdates
  /\ version \in 0 .. MaxUpdates /\ base \in 0 .. MaxUpdates
  /\ normalized_sequence \in Nat /\ silent \in Nat
  /\ local \in Book
  /\ book \in [levels : Book, sequence : Nat, synchronized : BOOLEAN]
  /\ lost \in BOOLEAN /\ faults \in 0 .. MaxFaults

(* A level that the snapshot of a Binance book was too short for, and that *)
(* has not changed since.                                                  *)
NeverSeen(l) ==
  /\ kind = "BINANCE"
  /\ Limited(base)[l] # history[base][l]
  /\ \A i \in base + 1 .. version : history[i][l] = history[i - 1][l]

(* The book the router and the dashboard read is one the venue really had: *)
(* while it is marked synchronized, its levels are the venue's after one   *)
(* and the same update, whatever was lost, fetched late, evicted or        *)
(* skipped on the way.  Only a level behind the depth of a Binance         *)
(* snapshot may be missing, and only until it changes.  (Coinbase numbers  *)
(* are not checked: there it holds until a message is skipped.)            *)
BookIsVenueBook ==
  book.synchronized /\ ~lost =>
    \A l \in Level :
      \/ book.levels[l] = Visible(history[version])[l]
      \/ book.levels[l] = 0 /\ NeverSeen(l)

(* A book never refuses what a feed has accepted, except for a number that *)
(* an earlier message without changes has used up: Binance and Kraken      *)
(* number such a message and then do not send it on, so that the next one  *)
(* looks like a gap and costs a reconnect.                                 *)
RefusedOnlyAfterSilent ==
  [][book.synchronized /\ ~book'.synchronized /\ ~lost
       => silent > 0 /\ kind # "COINBASE"]_vars

(* A Coinbase feed whose snapshot was skipped waits for it as long as the  *)
(* connection lasts.  Nothing in the feed asks for another one.            *)
SnapshotMissed == kind = "COINBASE" /\ conn = "waiting" /\ lost

(* A feed comes back: once the venue's book rests and nothing is lost or   *)
(* broken any more, it ends up connected, with every message that came     *)
(* read and a synchronized book; but for a Coinbase feed that has missed   *)
(* its snapshot.  (A connection that has died without a sign is one on     *)
(* which nothing comes.)                                                   *)
Recovers ==
  <>[][UNCHANGED <<history, faults>>]_vars =>
    <>[](/\ stream = <<>>
         /\ (conn = "live" /\ book.synchronized) \/ SnapshotMissed)

=============================================================================
