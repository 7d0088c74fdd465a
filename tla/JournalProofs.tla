---------------------------- MODULE JournalProofs ----------------------------
(***************************************************************************)
(* What holds of the input journal for any commands, any number of         *)
(* restarts and a crash between any two steps: proofs of the invariants of *)
(* module Journal.                                                         *)
(***************************************************************************)
EXTENDS Journal, SequenceLemmas, FiniteSetTheorems, TLAPS

-----------------------------------------------------------------------------
(* The reader.  It stops behind the longest prefix of whole records that   *)
(* are numbered from one.                                                  *)

GoodIn(f, n) == \A i \in 1 .. n : f[i].kind = "record" /\ f[i].sequence = i

Stops(f, n) == GoodIn(f, n) /\ (n = Len(f) \/ ~GoodIn(f, n + 1))

(* The first n chunks of file f are the first n commands of a process that *)
(* received r.                                                             *)
FromLife(f, n, r) == n <= Len(r) /\ \A i \in 1 .. n : f[i].command = r[i]

ReadTo ==
  file \in Seq(Chunk) =>
    /\ ReadLength \in 0 .. Len(file) /\ Stops(file, ReadLength)
    /\ GoodIn(file, Len(file)) => ReadLength = Len(file)

LEMMA StopsOnce ==
  ASSUME NEW f, Len(f) \in Nat, NEW m \in 0 .. Len(f), NEW n \in 0 .. Len(f),
         Stops(f, m), Stops(f, n)
  PROVE  m = n
<1>1. ASSUME NEW a \in 0 .. Len(f), NEW b \in 0 .. Len(f), Stops(f, a), GoodIn(f, b), a < b
      PROVE  FALSE
  BY <1>1 DEF Stops, GoodIn
<1> QED  BY <1>1 DEF Stops

LEMMA ReaderStops == ReadTo
<1> SUFFICES ASSUME file \in Seq(Chunk)
             PROVE  /\ ReadLength \in 0 .. Len(file) /\ Stops(file, ReadLength)
                    /\ GoodIn(file, Len(file)) => ReadLength = Len(file)
  BY DEF ReadTo
<1> DEFINE T == {n \in 0 .. Len(file) : n = Len(file) \/ ~GoodIn(file, n + 1)}
<1>1. T \subseteq Nat /\ Len(file) \in T /\ Len(file) \in Nat
  OBVIOUS
<1>2. PICK n \in T : \A m \in T : n <= m
  <2> HIDE DEF T
  <2> QED  BY <1>1, LeastElement
<1>3. GoodIn(file, n)
  <2>1. CASE n = 0
    BY <2>1 DEF GoodIn
  <2>2. CASE n # 0
    <3>1. n - 1 \in 0 .. Len(file) /\ ~(n <= n - 1) /\ n - 1 # Len(file) /\ (n - 1) + 1 = n
      BY <1>1, <1>2, <2>2
    <3>2. n - 1 \notin T
      BY <1>2, <3>1
    <3> QED  BY <3>1, <3>2
  <2> QED  BY <2>1, <2>2
<1>4. \E m \in 0 .. Len(file) : GoodUpTo(m) /\ (m = Len(file) \/ ~GoodUpTo(m + 1))
  BY <1>2, <1>3 DEF GoodIn, GoodUpTo
<1>5. /\ ReadLength \in 0 .. Len(file) /\ GoodUpTo(ReadLength)
      /\ ReadLength = Len(file) \/ ~GoodUpTo(ReadLength + 1)
  BY <1>4 DEF ReadLength
<1>6. Stops(file, ReadLength)
  BY <1>5 DEF GoodIn, GoodUpTo, Stops
<1>7. ASSUME GoodIn(file, Len(file)) PROVE ReadLength = Len(file)
  <2>1. Stops(file, Len(file)) /\ Len(file) \in 0 .. Len(file)
    BY <1>1, <1>7 DEF Stops
  <2> QED  BY <1>1, <1>5, <1>6, <2>1, StopsOnce
<1> QED  BY <1>5, <1>6, <1>7

(* The same of the file after a step.                                      *)
LEMMA ReaderStopsNext == ReadTo'
BY ReaderStops, PTL

(* Writing behind a file that the reader does not finish changes nothing   *)
(* for the reader.                                                         *)
LEMMA DamageIsFinal ==
  ASSUME NEW c \in Chunk, file \in Seq(Chunk), file' = Append(file, c),
         ~GoodIn(file, Len(file)) \/ c.kind # "record" \/ c.sequence # Len(file) + 1
  PROVE  /\ ReadLength' = ReadLength /\ ~GoodIn(file', Len(file'))
         /\ \A i \in 1 .. ReadLength : file'[i] = file[i]
<1> DEFINE n == Len(file)
<1>1. /\ n \in Nat /\ Len(file') = n + 1 /\ file' \in Seq(Chunk)
      /\ file'[n + 1] = c /\ \A i \in 1 .. n : file'[i] = file[i]
  BY AppendFacts
<1>2. ReadLength \in 0 .. n /\ Stops(file, ReadLength)
  BY ReaderStops DEF ReadTo
<1>3. ReadLength' \in 0 .. (n + 1) /\ Stops(file', ReadLength')
  BY <1>1, ReaderStopsNext DEF ReadTo
<1> HIDE DEF n
<1>4. \A m \in 0 .. n : GoodIn(file', m) <=> GoodIn(file, m)
  BY <1>1 DEF GoodIn
<1>5. ~GoodIn(file', n + 1)
  <2>1. CASE ~GoodIn(file, n)
    BY <1>1, <2>1 DEF GoodIn
  <2>2. CASE c.kind # "record" \/ c.sequence # n + 1
    BY <1>1, <2>2 DEF GoodIn
  <2> QED  BY <2>1, <2>2 DEF n
<1>6. Stops(file', ReadLength)
  <2>1. CASE ReadLength = n
    BY <1>1, <1>2, <1>4, <1>5, <2>1 DEF Stops
  <2>2. CASE ReadLength # n
    BY <1>1, <1>2, <1>4, <2>2 DEF Stops, n
  <2> QED  BY <2>1, <2>2
<1>7. ReadLength \in 0 .. (n + 1)
  BY <1>1, <1>2
<1>8. ReadLength' = ReadLength
  <2> DEFINE f == file'
             m == ReadLength'
  <2>1. Len(f) \in Nat /\ m \in 0 .. Len(f) /\ ReadLength \in 0 .. Len(f)
        /\ Stops(f, m) /\ Stops(f, ReadLength)
    BY <1>1, <1>3, <1>6, <1>7
  <2> HIDE DEF f, m
  <2>2. m = ReadLength
    BY <2>1, StopsOnce
  <2> QED  BY <2>2 DEF m
<1> QED  BY <1>1, <1>2, <1>5, <1>8

(* The next record behind a file of good records is read as well.          *)
LEMMA RecordIsRead ==
  ASSUME NEW c \in Chunk, file \in Seq(Chunk), file' = Append(file, c),
         GoodIn(file, Len(file)), c.kind = "record", c.sequence = Len(file) + 1
  PROVE  GoodIn(file', Len(file'))
BY AppendFacts DEF GoodIn

-----------------------------------------------------------------------------
(* The inductive invariant.                                                *)

(* The handler: what it has received, buffered and applied goes together   *)
(* with its next step.  A record is in the buffer from append to a flush   *)
(* that succeeds, and a process whose stream has failed appends no other.  *)
Life == received[restarts + 1]

Handler ==
  /\ Len(received) = restarts + 1
  /\ pc = "down" => good /\ event_sequence = 0 /\ applied = <<>>
  /\ pc # "down" => Len(Life) = event_sequence
  /\ pc = "flush" => good
  /\ pc \in {"flush", "apply"} =>
       event_sequence > 0 /\ Len(applied) = event_sequence - 1 /\ current = Life[event_sequence]
  /\ pc = "read" => Len(applied) = event_sequence
  /\ \A i \in 1 .. Len(applied) : applied[i] = Life[i]

Buffered ==
  /\ pc # "flush" /\ good => buffer = <<>>
  /\ pc = "flush" \/ ~good =>
       /\ event_sequence > 0
       /\ buffer = <<Record(event_sequence, Life[event_sequence])>>

(* The reader's frontier.  When the reader finishes the file, the next     *)
(* record either belongs behind it or is the first one of a process.       *)
Frontier ==
  GoodIn(file, Len(file)) =>
    \/ event_sequence = Len(buffer)
    \/ /\ event_sequence = Len(file) + Len(buffer) /\ pc # "down"
       /\ FromLife(file, Len(file), Life)

(* The journal of a first process is good to its end; after a failed flush *)
(* it may end in a part of the record that is still in the buffer.         *)
FirstLife ==
  restarts = 0 /\ pc # "down" =>
    /\ good => /\ GoodIn(file, Len(file)) /\ FromLife(file, Len(file), Life)
               /\ event_sequence = Len(file) + Len(buffer)
    /\ ~good => /\ Len(file) <= ReadLength + 1 /\ FromLife(file, ReadLength, Life)
                /\ event_sequence = ReadLength + 1

ReadOfOne == \E life \in DOMAIN received : FromLife(file, ReadLength, received[life])

(* The tool's exchange is that of a process after some of its commands,    *)
(* and the snapshot is what was written of it so far.                      *)
BooksOf(r, n) == Books(SubSeq(r, 1, n))

Rebuilt ==
  tool # "idle" =>
    \E life \in DOMAIN received : \E n \in 0 .. Len(received[life]) :
      rebuilt = BooksOf(received[life], n)

Written ==
  LET chunks == Chunks(rebuilt) IN
  /\ snapshot \in Seq(ToSet(chunks) \cup {TornChunk})
  /\ tool = "idle" => snapshot = <<>>
  /\ tool = "done" => Len(snapshot) = Len(chunks)
  /\ tool # "idle" =>
       /\ Len(snapshot) <= Len(chunks)
       /\ \A i \in 1 .. Len(snapshot) :
            \/ snapshot[i] = chunks[i]
            \/ snapshot[i] = TornChunk /\ tool = "stopped" /\ i = Len(snapshot)

IInv == TypeOK /\ Handler /\ Buffered /\ Frontier /\ FirstLife /\ ReadOfOne /\ Rebuilt /\ Written

LEMMA Initially == Init => IInv
<1> SUFFICES ASSUME Init PROVE IInv
  OBVIOUS
<1>1. /\ file = <<>> /\ buffer = <<>> /\ good = TRUE /\ event_sequence = 0
      /\ pc = "read" /\ applied = <<>> /\ received = << <<>> >> /\ restarts = 0
      /\ snapshot = <<>> /\ tool = "idle" /\ current = NoCommand
  BY DEF Init
<1>2. TypeOK
  <2>1. <<>> \in Seq(Command)
    OBVIOUS
  <2>2. received \in Seq(Seq(Command))
    BY <1>1, <2>1
  <2> QED  BY <1>1, <2>1, <2>2, JournalAssumption DEF TypeOK
<1>3. Len(received) = 1 /\ Life = <<>> /\ DOMAIN received = 1 .. 1
  BY <1>1 DEF Life
<1>4. Handler /\ Buffered
  BY <1>1, <1>3 DEF Handler, Buffered
<1>5. Frontier /\ FirstLife
  BY <1>1, <1>3 DEF Frontier, FirstLife, GoodIn, FromLife
<1>6. ReadLength = 0
  BY <1>1, <1>2, ReaderStops DEF ReadTo, TypeOK
<1>7. ReadOfOne
  BY <1>3, <1>6 DEF ReadOfOne, FromLife
<1>8. Rebuilt /\ Written
  BY <1>1 DEF Rebuilt, Written
<1> QED  BY <1>2, <1>4, <1>5, <1>7, <1>8 DEF IInv

-----------------------------------------------------------------------------
(* What a step leaves alone.                                               *)

LEMMA ReadUnchanged ==
  ASSUME file \in Seq(Chunk), file' = file
  PROVE  ReadLength' = ReadLength
<1> DEFINE m == ReadLength'
<1>1. /\ Len(file) \in Nat /\ ReadLength \in 0 .. Len(file) /\ Stops(file, ReadLength)
      /\ m \in 0 .. Len(file) /\ Stops(file, m)
  BY ReaderStops, ReaderStopsNext DEF ReadTo
<1> HIDE DEF m
<1>2. m = ReadLength
  BY <1>1, StopsOnce
<1> QED  BY <1>2 DEF m

(* What the processes received only grows.                                 *)
Grows(r, s) ==
  /\ DOMAIN r \subseteq DOMAIN s
  /\ \A l \in DOMAIN r :
       /\ Len(r[l]) <= Len(s[l])
       /\ \A i \in 1 .. Len(r[l]) : s[l][i] = r[l][i]

LEMMA SubSeqFacts ==
  ASSUME NEW S, NEW r \in Seq(S), NEW n \in 0 .. Len(r)
  PROVE  /\ SubSeq(r, 1, n) \in Seq(S) /\ Len(SubSeq(r, 1, n)) = n
         /\ SubSeq(r, 1, n) = [i \in 1 .. n |-> r[i]]
  OBVIOUS

LEMMA RebuiltKept ==
  ASSUME TypeOK, TypeOK', Rebuilt, Grows(received, received'), UNCHANGED toolVars
  PROVE  Rebuilt'
<1>1. tool' = tool /\ rebuilt' = rebuilt
  BY DEF toolVars
<1> SUFFICES ASSUME tool # "idle"
             PROVE  \E life \in DOMAIN received' : \E n \in 0 .. Len(received'[life]) :
                      rebuilt = BooksOf(received'[life], n)
  BY <1>1 DEF Rebuilt
<1>2. PICK life \in DOMAIN received : \E n \in 0 .. Len(received[life]) :
        rebuilt = BooksOf(received[life], n)
  BY DEF Rebuilt
<1>3. PICK n \in 0 .. Len(received[life]) : rebuilt = BooksOf(received[life], n)
  BY <1>2
<1> DEFINE r == received[life]
           s == received'[life]
<1>4. r \in Seq(Command) /\ s \in Seq(Command) /\ life \in DOMAIN received'
  BY DEF TypeOK, Grows
<1>5. Len(r) <= Len(s) /\ \A i \in 1 .. Len(r) : s[i] = r[i]
  BY DEF Grows
<1>6. n \in 0 .. Len(r) /\ rebuilt = BooksOf(r, n)
  BY <1>3
<1> HIDE DEF r, s
<1>7. n \in 0 .. Len(s)
  BY <1>4, <1>5, <1>6
<1>8. SubSeq(r, 1, n) = SubSeq(s, 1, n)
  <2>1. SubSeq(r, 1, n) = [i \in 1 .. n |-> r[i]] /\ SubSeq(s, 1, n) = [i \in 1 .. n |-> s[i]]
    BY <1>4, <1>6, <1>7, SubSeqFacts
  <2>2. \A i \in 1 .. n : r[i] = s[i]
    BY <1>4, <1>5, <1>6
  <2> QED  BY <2>1, <2>2
<1>9. rebuilt = BooksOf(s, n)
  BY <1>6, <1>8 DEF BooksOf
<1> QED  BY <1>4, <1>7, <1>9 DEF s

LEMMA WrittenKept ==
  ASSUME Written, UNCHANGED toolVars PROVE Written'
BY DEF Written, toolVars

LEMMA ReadOfOneKept ==
  ASSUME TypeOK, TypeOK', ReadOfOne, Grows(received, received'),
         ReadLength' = ReadLength, \A i \in 1 .. ReadLength : file'[i] = file[i]
  PROVE  ReadOfOne'
<1>1. PICK life \in DOMAIN received : FromLife(file, ReadLength, received[life])
  BY DEF ReadOfOne
<1> DEFINE r == received[life]
           s == received'[life]
           n == ReadLength
<1>2. r \in Seq(Command) /\ s \in Seq(Command) /\ life \in DOMAIN received'
  BY DEF TypeOK, Grows
<1>3. Len(r) <= Len(s) /\ \A i \in 1 .. Len(r) : s[i] = r[i]
  BY DEF Grows
<1>4. n \in Nat
  BY ReaderStops DEF TypeOK, ReadTo
<1>5. FromLife(file, n, r) /\ \A i \in 1 .. n : file'[i] = file[i]
  BY <1>1
<1>6. ReadLength' = n
  OBVIOUS
<1> HIDE DEF r, s, n
<1>7. FromLife(file', n, s)
  BY <1>2, <1>3, <1>4, <1>5 DEF FromLife
<1> QED  BY <1>2, <1>6, <1>7 DEF ReadOfOne, s

-----------------------------------------------------------------------------
(* The steps of the server.                                                *)

(* Facts of every state of the handler.                                    *)
LEMMA LifeFacts ==
  ASSUME TypeOK, Handler
  PROVE  /\ restarts + 1 \in DOMAIN received /\ DOMAIN received = 1 .. (restarts + 1)
         /\ restarts \in Nat /\ event_sequence \in Nat /\ Life \in Seq(Command)
         /\ Len(applied) \in Nat /\ Len(file) \in Nat
<1>1. received \in Seq(Seq(Command)) /\ restarts \in Nat /\ Len(received) = restarts + 1
  BY DEF TypeOK, Handler
<1>2. DOMAIN received = 1 .. (restarts + 1) /\ restarts + 1 \in 1 .. (restarts + 1)
  BY <1>1
<1>3. Life \in Seq(Command)
  BY <1>1, <1>2 DEF Life
<1> QED  BY <1>1, <1>2, <1>3 DEF TypeOK

LEMMA SameGrows ==
  ASSUME TypeOK, received' = received PROVE Grows(received, received')
<1>1. \A l \in DOMAIN received : Len(received[l]) \in Nat
  BY DEF TypeOK
<1> QED  BY <1>1 DEF Grows

LEMMA AppendStep ==
  ASSUME IInv, NEW c \in Command, AppendToLog(c)
  PROVE  IInv'
<1> DEFINE n == restarts + 1
           m == event_sequence + 1
<1>1. /\ TypeOK /\ Handler /\ Buffered /\ Frontier /\ FirstLife /\ ReadOfOne
      /\ Rebuilt /\ Written
  BY DEF IInv
<1>2. /\ pc = "read" /\ good /\ event_sequence < MaxCommands
      /\ event_sequence' = m /\ buffer' = <<Record(m, c)>> /\ current' = c
      /\ received' = [received EXCEPT ![n] = Append(Life, c)]
      /\ pc' = "flush" /\ file' = file /\ good' = good /\ applied' = applied
      /\ restarts' = restarts /\ UNCHANGED toolVars
  BY DEF AppendToLog, Life
<1>3. /\ n \in DOMAIN received /\ DOMAIN received = 1 .. n /\ n \in Nat
      /\ event_sequence \in Nat /\ Life \in Seq(Command) /\ received \in Seq(Seq(Command))
  BY <1>1, LifeFacts DEF TypeOK
<1>4. Len(Life) = event_sequence /\ Len(applied) = event_sequence /\ Len(received) = n
      /\ \A i \in 1 .. event_sequence : applied[i] = Life[i]
  BY <1>1, <1>2 DEF Handler
<1>5. /\ Life' = Append(Life, c) /\ Len(received') = n
      /\ DOMAIN received' = DOMAIN received /\ received' \in Seq(Seq(Command))
      /\ \A l \in DOMAIN received : l # n => received'[l] = received[l]
      /\ received'[n] = Life'
  BY <1>2, <1>3 DEF Life
<1>6. /\ Life' \in Seq(Command) /\ Len(Life') = m /\ Life'[m] = c
      /\ \A i \in 1 .. event_sequence : Life'[i] = Life[i]
  <2> DEFINE a == Append(Life, c)
  <2>1. /\ a \in Seq(Command) /\ Len(a) = m /\ a[m] = c
        /\ \A i \in 1 .. event_sequence : a[i] = Life[i]
    BY <1>3, <1>4, AppendFacts
  <2> QED  BY <1>5, <2>1
<1>7. m \in 1 .. MaxCommands /\ Record(m, c) \in Chunk
  BY <1>2, <1>3, JournalAssumption DEF Record, Chunk
<1>8. TypeOK'
  <2>1. buffer' \in Seq(Chunk)
    BY <1>2, <1>7
  <2> QED  BY <1>1, <1>2, <1>5, <1>7, <2>1 DEF TypeOK, toolVars
<1> HIDE DEF n, m
<1>9. Grows(received, received')
  <2>1. ASSUME NEW l \in DOMAIN received
        PROVE  /\ Len(received[l]) <= Len(received'[l])
               /\ \A i \in 1 .. Len(received[l]) : received'[l][i] = received[l][i]
    <3>1. CASE l = n
      <4>1. received[l] = Life /\ received'[l] = Life'
        BY <3>1, <1>5 DEF Life, n
      <4> QED  BY <4>1, <1>3, <1>4, <1>6 DEF m
    <3>2. CASE l # n
      BY <3>2, <1>3, <1>5
    <3> QED  BY <3>1, <3>2
  <2> QED  BY <2>1, <1>5 DEF Grows
<1>10. Handler'
  <2>1. event_sequence = m - 1 /\ m > 0 /\ Len(applied) = m - 1
    BY <1>3, <1>4 DEF m
  <2>2. \A i \in 1 .. Len(applied) : applied[i] = Life'[i]
    BY <1>4, <1>6
  <2>3. Len(received') = restarts' + 1
    BY <1>2, <1>5 DEF n
  <2> QED  BY <1>2, <1>6, <2>1, <2>2, <2>3 DEF Handler
<1>11. Buffered'
  <2>1. m > 0
    BY <1>3 DEF m
  <2> QED  BY <1>2, <1>6, <2>1 DEF Buffered
<1>12. Len(buffer) = 0 /\ Len(buffer') = 1 /\ m = event_sequence + 1 /\ Len(file) \in Nat
  BY <1>1, <1>2, LifeFacts DEF Buffered, m
<1>13. ASSUME FromLife(file, Len(file), Life), event_sequence = Len(file)
       PROVE  FromLife(file, Len(file), Life')
  BY <1>12, <1>13, <1>6, <1>3 DEF FromLife
<1>14. Frontier'
  BY <1>1, <1>2, <1>3, <1>12, <1>13 DEF Frontier
<1>15. FirstLife'
  BY <1>1, <1>2, <1>3, <1>12, <1>13 DEF FirstLife
<1>16. ReadOfOne' /\ Rebuilt' /\ Written'
  <2>1. ReadLength' = ReadLength
    BY <1>1, <1>2, ReadUnchanged DEF TypeOK
  <2> QED  BY <1>1, <1>2, <1>8, <1>9, <2>1, ReadOfOneKept, RebuiltKept, WrittenKept
<1> QED  BY <1>8, <1>10, <1>11, <1>14, <1>15, <1>16 DEF IInv

(* A buffered record reaches the disk: it is the next one the reader       *)
(* takes, or the reader never takes it.                                    *)
LEMMA RecordWritten ==
  ASSUME TypeOK, Handler, Buffered, Frontier, FirstLife, ReadOfOne, TypeOK',
         buffer # <<>>, pc # "down",
         file' = file \o buffer, received' = received, restarts' = restarts
  PROVE  /\ ReadOfOne' /\ Len(file') = Len(file) + 1
         /\ GoodIn(file', Len(file')) =>
              event_sequence = Len(file') /\ FromLife(file', Len(file'), Life)
         /\ restarts = 0 /\ good => GoodIn(file', Len(file'))
<1> DEFINE n == Len(file)
           c == Record(event_sequence, Life[event_sequence])
<1>1. /\ n \in Nat /\ event_sequence \in Nat /\ Life \in Seq(Command)
      /\ restarts + 1 \in DOMAIN received
  BY LifeFacts
<1>2. event_sequence > 0 /\ buffer = <<c>> /\ Len(Life) = event_sequence
  BY DEF Buffered, Handler
<1>3. c \in Chunk /\ file \in Seq(Chunk) /\ Len(buffer) = 1
  <2>1. Life[event_sequence] \in Command
    BY <1>1, <1>2
  <2> QED  BY <1>1, <1>2, <2>1 DEF TypeOK, Record, Chunk
<1>4. file' = Append(file, c)
  BY <1>2, <1>3
<1>5. /\ c.kind = "record" /\ c.sequence = event_sequence
      /\ c.command = Life[event_sequence]
  BY DEF Record
<1>6. /\ Len(file') = n + 1 /\ file'[n + 1] = c
      /\ \A i \in 1 .. n : file'[i] = file[i]
  BY <1>3, <1>4, AppendFacts
<1> HIDE DEF n, c
<1>7. CASE GoodIn(file, n) /\ event_sequence = n + 1
  <2>1. FromLife(file, n, Life)
    <3>1. CASE event_sequence = Len(buffer)
      BY <1>1, <1>3, <1>7, <3>1 DEF FromLife
    <3>2. CASE event_sequence # Len(buffer)
      BY <1>7, <3>2 DEF Frontier, n
    <3> QED  BY <3>1, <3>2
  <2>2. FromLife(file', n + 1, Life)
    BY <1>1, <1>2, <1>5, <1>6, <1>7, <2>1 DEF FromLife
  <2>3. GoodIn(file', n + 1)
    BY <1>1, <1>5, <1>6, <1>7 DEF GoodIn
  <2>4. ReadLength' = n + 1
    BY <1>6, <2>3, ReaderStopsNext DEF ReadTo, TypeOK
  <2>5. ReadOfOne'
    BY <2>2, <2>4, <1>1 DEF ReadOfOne, Life
  <2> QED  BY <1>6, <1>7, <2>2, <2>3, <2>5 DEF n
<1>8. CASE ~GoodIn(file, n) \/ event_sequence # n + 1
  <2>1. /\ ReadLength' = ReadLength /\ ~GoodIn(file', Len(file'))
        /\ \A i \in 1 .. ReadLength : file'[i] = file[i]
    BY <1>3, <1>4, <1>5, <1>8, DamageIsFinal DEF n
  <2>2. ReadOfOne'
    BY <2>1, SameGrows, ReadOfOneKept
  <2>3. restarts # 0 \/ ~good
    BY <1>3, <1>8 DEF FirstLife, n
  <2> QED  BY <1>6, <2>1, <2>2, <2>3 DEF n
<1> QED  BY <1>7, <1>8

LEMMA FlushStep ==
  ASSUME IInv, Flush PROVE IInv'
<1>1. /\ TypeOK /\ Handler /\ Buffered /\ Frontier /\ FirstLife /\ ReadOfOne
      /\ Rebuilt /\ Written
  BY DEF IInv
<1>2. /\ pc = "flush" /\ file' = file \o buffer /\ buffer' = <<>> /\ pc' = "apply"
      /\ good' = good /\ event_sequence' = event_sequence /\ current' = current
      /\ applied' = applied /\ received' = received /\ restarts' = restarts
      /\ UNCHANGED toolVars
  BY DEF Flush
<1>3. TypeOK'
  <2>1. file \o buffer \in Seq(Chunk)
    BY <1>1 DEF TypeOK
  <2> QED  BY <1>1, <1>2, <2>1 DEF TypeOK, toolVars
<1>4. buffer # <<>> /\ good /\ Life' = Life
  <2>1. buffer = <<Record(event_sequence, Life[event_sequence])>> /\ good
    BY <1>1, <1>2 DEF Buffered, Handler
  <2>2. Life' = Life
    BY <1>2 DEF Life
  <2> QED  BY <2>1, <2>2
<1>5. /\ ReadOfOne' /\ Len(file') = Len(file) + 1
      /\ GoodIn(file', Len(file')) =>
           event_sequence = Len(file') /\ FromLife(file', Len(file'), Life)
      /\ restarts = 0 => GoodIn(file', Len(file'))
  BY <1>1, <1>2, <1>3, <1>4, RecordWritten
<1>6. Handler' /\ Buffered'
  BY <1>1, <1>2, <1>4 DEF Handler, Buffered
<1>7. Frontier' /\ FirstLife'
  <2>1. Len(file') \in Nat /\ Len(buffer') = 0
    BY <1>2, <1>3 DEF TypeOK
  <2> QED  BY <1>2, <1>4, <1>5, <2>1 DEF Frontier, FirstLife
<1>8. Rebuilt' /\ Written'
  BY <1>1, <1>2, <1>3, SameGrows, RebuiltKept, WrittenKept
<1> QED  BY <1>3, <1>5, <1>6, <1>7, <1>8 DEF IInv

(* A part of the record behind the file is the last thing the reader sees. *)
LEMMA PartFacts ==
  ASSUME TypeOK, event_sequence > 0, NEW part \in PartsOfRecord
  PROVE  part = <<>> \/ \E c \in Chunk : part = <<c>> /\ c.kind # "record"
<1>1. event_sequence \in 1 .. MaxCommands
  BY JournalAssumption DEF TypeOK
<1>2. /\ TornHeader \in Chunk /\ TornHeader.kind # "record"
      /\ TornPayload(event_sequence) \in Chunk /\ TornPayload(event_sequence).kind # "record"
  BY <1>1 DEF TornHeader, TornPayload, Chunk
<1> HIDE DEF TornHeader, TornPayload
<1> QED  BY <1>2 DEF PartsOfRecord

LEMMA PartWritten ==
  ASSUME TypeOK, event_sequence > 0, NEW part \in PartsOfRecord, file' = file \o part
  PROVE  /\ file' \in Seq(Chunk) /\ ReadLength' = ReadLength
         /\ \A i \in 1 .. ReadLength : file'[i] = file[i]
         /\ Len(file') \in Nat /\ Len(file') <= Len(file) + 1
         /\ GoodIn(file', Len(file')) => file' = file
<1>1. file \in Seq(Chunk) /\ Len(file) \in Nat
  BY DEF TypeOK
<1>2. CASE part = <<>>
  <2>1. file' = file
    BY <1>1, <1>2
  <2>2. ReadLength' = ReadLength
    BY <1>1, <2>1, ReadUnchanged
  <2> QED  BY <1>1, <2>1, <2>2
<1>3. CASE part # <<>>
  <2>1. PICK c \in Chunk : part = <<c>> /\ c.kind # "record"
    BY <1>3, PartFacts
  <2>2. file' = Append(file, c)
    BY <1>1, <2>1
  <2>3. /\ ReadLength' = ReadLength /\ ~GoodIn(file', Len(file'))
        /\ \A i \in 1 .. ReadLength : file'[i] = file[i]
    BY <1>1, <2>1, <2>2, DamageIsFinal
  <2>4. file' \in Seq(Chunk) /\ Len(file') = Len(file) + 1
    <3> DEFINE f == Append(file, c)
    <3>1. f \in Seq(Chunk) /\ Len(f) = Len(file) + 1
      BY <1>1, AppendFacts
    <3> QED  BY <2>2, <3>1
  <2> DEFINE n == Len(file)
             m == Len(file')
             k == ReadLength'
  <2>5. n \in Nat /\ m = n + 1 /\ k = ReadLength
    BY <1>1, <2>3, <2>4
  <2> HIDE DEF n, m, k
  <2>6. m \in Nat /\ m <= n + 1
    BY <2>5
  <2> QED  BY <2>3, <2>4, <2>5, <2>6 DEF n, m, k
<1> QED  BY <1>2, <1>3

LEMMA FlushFailsStep ==
  ASSUME IInv, FlushFails PROVE IInv'
<1>1. /\ TypeOK /\ Handler /\ Buffered /\ Frontier /\ FirstLife /\ ReadOfOne
      /\ Rebuilt /\ Written
  BY DEF IInv
<1>2. /\ pc = "flush" /\ good' = FALSE /\ pc' = "apply" /\ buffer' = buffer
      /\ event_sequence' = event_sequence /\ current' = current /\ applied' = applied
      /\ received' = received /\ restarts' = restarts /\ UNCHANGED toolVars
  BY DEF FlushFails
<1>3. PICK part \in PartsOfRecord : file' = file \o part
  BY DEF FlushFails
<1>4. good /\ event_sequence > 0 /\ Len(buffer) = 1
  BY <1>1, <1>2 DEF Handler, Buffered
<1>5. /\ file' \in Seq(Chunk) /\ ReadLength' = ReadLength
      /\ \A i \in 1 .. ReadLength : file'[i] = file[i]
      /\ Len(file') \in Nat /\ Len(file') <= Len(file) + 1
      /\ GoodIn(file', Len(file')) => file' = file
  BY <1>1, <1>3, <1>4, PartWritten
<1>6. TypeOK' /\ Life' = Life
  BY <1>1, <1>2, <1>5 DEF TypeOK, toolVars, Life
<1>7. Handler' /\ Buffered'
  BY <1>1, <1>2, <1>6 DEF Handler, Buffered
<1>8. Frontier'
  BY <1>1, <1>2, <1>5, <1>6 DEF Frontier
<1>9. ASSUME restarts = 0
      PROVE  /\ ReadLength = Len(file) /\ event_sequence = ReadLength + 1
             /\ FromLife(file', ReadLength, Life)
  <2>1. /\ GoodIn(file, Len(file)) /\ FromLife(file, Len(file), Life)
        /\ event_sequence = Len(file) + Len(buffer)
    BY <1>1, <1>2, <1>4, <1>9 DEF FirstLife
  <2>2. ReadLength = Len(file)
    BY <1>1, <2>1, ReaderStops DEF ReadTo, TypeOK
  <2> QED  BY <1>4, <1>5, <2>1, <2>2 DEF FromLife
<1>10. FirstLife'
  BY <1>2, <1>5, <1>6, <1>9 DEF FirstLife
<1>11. ReadOfOne' /\ Rebuilt' /\ Written'
  BY <1>1, <1>2, <1>5, <1>6, SameGrows, ReadOfOneKept, RebuiltKept, WrittenKept
<1> QED  BY <1>6, <1>7, <1>8, <1>10, <1>11 DEF IInv

LEMMA ApplyStep ==
  ASSUME IInv, Apply PROVE IInv'
<1>1. /\ TypeOK /\ Handler /\ Buffered /\ Frontier /\ FirstLife /\ ReadOfOne
      /\ Rebuilt /\ Written
  BY DEF IInv
<1>2. /\ pc = "apply" /\ applied' = Append(applied, current) /\ current' = NoCommand
      /\ pc' = "read" /\ file' = file /\ buffer' = buffer /\ good' = good
      /\ event_sequence' = event_sequence
      /\ received' = received /\ restarts' = restarts /\ UNCHANGED toolVars
  BY DEF Apply
<1>3. /\ event_sequence > 0 /\ Len(applied) = event_sequence - 1
      /\ current = Life[event_sequence] /\ Len(Life) = event_sequence
      /\ \A i \in 1 .. Len(applied) : applied[i] = Life[i]
  BY <1>1, <1>2 DEF Handler
<1>4. event_sequence \in Nat /\ Life \in Seq(Command) /\ applied \in Seq(Command)
      /\ current \in Command
  <2>1. event_sequence \in Nat /\ Life \in Seq(Command) /\ applied \in Seq(Command)
    BY <1>1, LifeFacts DEF TypeOK
  <2> QED  BY <2>1, <1>3
<1> DEFINE a == Append(applied, current)
<1>5. /\ a \in Seq(Command) /\ Len(a) = event_sequence
      /\ \A i \in 1 .. Len(a) : a[i] = Life[i]
  BY <1>3, <1>4
<1>6. applied' = a
  BY <1>2
<1> HIDE DEF a
<1>7. TypeOK' /\ Life' = Life
  BY <1>1, <1>2, <1>5, <1>6 DEF TypeOK, toolVars, Life
<1>8. Handler' /\ Buffered'
  BY <1>1, <1>2, <1>3, <1>5, <1>6, <1>7 DEF Handler, Buffered
<1>9. ReadLength' = ReadLength
  BY <1>1, <1>2, ReadUnchanged DEF TypeOK
<1>10. Frontier' /\ FirstLife'
  BY <1>1, <1>2, <1>7, <1>9 DEF Frontier, FirstLife
<1>11. ReadOfOne' /\ Rebuilt' /\ Written'
  BY <1>1, <1>2, <1>7, <1>9, SameGrows, ReadOfOneKept, RebuiltKept, WrittenKept
<1> QED  BY <1>7, <1>8, <1>10, <1>11 DEF IInv

(* Whatever a crash leaves of the buffered record, the reader goes on      *)
(* reading the commands of one process.                                    *)
LEMMA CrashStep ==
  ASSUME IInv, Crash PROVE IInv'
<1>1. /\ TypeOK /\ Handler /\ Buffered /\ Frontier /\ FirstLife /\ ReadOfOne
      /\ Rebuilt /\ Written
  BY DEF IInv
<1>2. /\ pc # "down" /\ buffer' = <<>> /\ good' = TRUE /\ event_sequence' = 0
      /\ pc' = "down" /\ current' = NoCommand /\ applied' = <<>>
      /\ received' = received /\ restarts' = restarts /\ UNCHANGED toolVars
  BY DEF Crash
<1>3. PICK left \in {<<>>, buffer} \cup PartsOfRecord :
        /\ file' = file \o left
        /\ left \notin {<<>>, buffer} => buffer # <<>>
  BY DEF Crash
<1>4. file \in Seq(Chunk) /\ buffer \in Seq(Chunk) /\ 0 \in 0 .. MaxCommands
  BY <1>1, JournalAssumption DEF TypeOK
<1>5. ASSUME left = <<>> PROVE TypeOK' /\ ReadOfOne'
  <2>1. file' = file
    BY <1>3, <1>4, <1>5
  <2>2. TypeOK'
    BY <1>1, <1>2, <1>4, <2>1 DEF TypeOK, toolVars
  <2>3. ReadLength' = ReadLength
    BY <1>4, <2>1, ReadUnchanged
  <2> QED  BY <1>1, <1>2, <2>1, <2>2, <2>3, SameGrows, ReadOfOneKept
<1>6. ASSUME left = buffer, left # <<>> PROVE TypeOK' /\ ReadOfOne'
  <2>1. TypeOK'
    <3>1. file \o buffer \in Seq(Chunk)
      BY <1>4
    <3> QED  BY <1>1, <1>2, <1>3, <1>4, <1>6, <3>1 DEF TypeOK, toolVars
  <2> QED  BY <1>1, <1>2, <1>3, <1>6, <2>1, RecordWritten
<1>7. ASSUME left \notin {<<>>, buffer} PROVE TypeOK' /\ ReadOfOne'
  <2>1. event_sequence > 0
    BY <1>1, <1>3, <1>7 DEF Buffered
  <2>2. /\ file' \in Seq(Chunk) /\ ReadLength' = ReadLength
        /\ \A i \in 1 .. ReadLength : file'[i] = file[i]
    BY <1>1, <1>3, <1>7, <2>1, PartWritten
  <2>3. TypeOK'
    BY <1>1, <1>2, <1>4, <2>2 DEF TypeOK, toolVars
  <2> QED  BY <1>1, <1>2, <2>2, <2>3, SameGrows, ReadOfOneKept
<1>8. TypeOK' /\ ReadOfOne'
  BY <1>3, <1>5, <1>6, <1>7
<1>9. Handler' /\ Buffered' /\ Frontier' /\ FirstLife'
  <2>1. Len(buffer') = 0 /\ Len(applied') = 0
    BY <1>2
  <2> QED  BY <1>1, <1>2, <2>1 DEF Handler, Buffered, Frontier, FirstLife
<1>10. Rebuilt' /\ Written'
  BY <1>1, <1>2, <1>8, SameGrows, RebuiltKept, WrittenKept
<1> QED  BY <1>8, <1>9, <1>10 DEF IInv

(* The new process numbers from one: its first record is not the next one  *)
(* of any file but an empty one.                                           *)
LEMMA RestartStep ==
  ASSUME IInv, Restart PROVE IInv'
<1> DEFINE n == restarts + 1
<1>1. /\ TypeOK /\ Handler /\ Buffered /\ Frontier /\ FirstLife /\ ReadOfOne
      /\ Rebuilt /\ Written
  BY DEF IInv
<1>2. /\ pc = "down" /\ restarts < MaxRestarts /\ restarts' = n /\ pc' = "read"
      /\ received' = Append(received, <<>>) /\ file' = file /\ buffer' = buffer
      /\ good' = good /\ event_sequence' = event_sequence /\ current' = current
      /\ applied' = applied /\ UNCHANGED toolVars
  BY DEF Restart
<1>3. /\ good /\ event_sequence = 0 /\ applied = <<>> /\ buffer = <<>>
      /\ Len(received) = n
  BY <1>1, <1>2 DEF Handler, Buffered
<1>4. received \in Seq(Seq(Command)) /\ <<>> \in Seq(Command) /\ n \in Nat /\ n # 0
      /\ n \in 0 .. MaxRestarts
  BY <1>1, <1>2, JournalAssumption DEF TypeOK
<1> HIDE DEF n
<1>5. /\ received' \in Seq(Seq(Command)) /\ Len(received') = n + 1
      /\ DOMAIN received' = 1 .. (n + 1) /\ DOMAIN received = 1 .. n
      /\ received'[n + 1] = <<>> /\ \A i \in 1 .. n : received'[i] = received[i]
  <2> DEFINE r == Append(received, <<>>)
  <2>1. /\ r \in Seq(Seq(Command)) /\ Len(r) = n + 1
        /\ DOMAIN r = 1 .. (n + 1) /\ DOMAIN received = 1 .. n
        /\ r[n + 1] = <<>> /\ \A i \in 1 .. n : r[i] = received[i]
    BY <1>3, <1>4, AppendFacts
  <2> QED  BY <1>2, <2>1
<1>6. TypeOK' /\ Life' = <<>>
  BY <1>1, <1>2, <1>4, <1>5 DEF TypeOK, toolVars, Life
<1>7. Handler' /\ Buffered'
  BY <1>1, <1>2, <1>3, <1>5, <1>6 DEF Handler, Buffered
<1>8. Frontier' /\ FirstLife'
  BY <1>1, <1>2, <1>3, <1>4 DEF Frontier, FirstLife
<1>9. Grows(received, received')
  <2>1. \A l \in 1 .. n : Len(received[l]) \in Nat
    BY <1>4, <1>5
  <2> QED  BY <1>4, <1>5, <2>1 DEF Grows
<1>10. ReadLength' = ReadLength
  BY <1>1, <1>2, ReadUnchanged DEF TypeOK
<1>11. ReadOfOne' /\ Rebuilt' /\ Written'
  BY <1>1, <1>2, <1>6, <1>9, <1>10, ReadOfOneKept, RebuiltKept, WrittenKept
<1> QED  BY <1>6, <1>7, <1>8, <1>11 DEF IInv

-----------------------------------------------------------------------------
(* The replay tool.                                                        *)

LEMMA SetToSeqFacts ==
  ASSUME NEW S, IsFiniteSet(S)
  PROVE  /\ SetToSeq(S) \in Seq(S) /\ Len(SetToSeq(S)) = Cardinality(S)
         /\ Cardinality(S) \in Nat
         /\ \A x \in S : \E i \in 1 .. Cardinality(S) : SetToSeq(S)[i] = x
<1> DEFINE n == Cardinality(S)
           f == SetToSeq(S)
<1>1. n \in Nat /\ ExistsBijection(1 .. n, S)
  BY FS_CardinalityType
<1>2. \E g \in [1 .. n -> S] : IsInjective(g)
  BY <1>1, Zenon DEF ExistsBijection, Bijection, Injection
<1>3. f \in [1 .. n -> S] /\ IsInjective(f)
  BY <1>2, Zenon DEF SetToSeq
<1> HIDE DEF n, f
<1>4. f \in Injection(1 .. n, S)
  BY <1>3, Zenon DEF Injection
<1>5. IsFiniteSet(1 .. n) /\ Cardinality(1 .. n) = n
  BY <1>1, FS_Interval
<1>6. f \in Surjection(1 .. n, S)
  BY <1>4, <1>5, FS_Injection DEF n
<1>7. \A x \in S : \E i \in 1 .. n : f[i] = x
  BY <1>6, Zenon DEF Surjection
<1>8. f \in Seq(S) /\ Len(f) = n
  BY <1>1, <1>3
<1> QED  BY <1>1, <1>7, <1>8 DEF n, f

(* The file of a finite set of books: the header counts them, and each     *)
(* book is there once announced.                                           *)
LEMMA ChunksFacts ==
  ASSUME NEW books, IsFiniteSet(DOMAIN books)
  PROVE  LET chunks == Chunks(books)
             n == Cardinality(DOMAIN books)
         IN /\ n \in Nat /\ chunks \in Seq(ToSet(chunks)) /\ Len(chunks) = n + 1
            /\ chunks[1].kind = "header" /\ chunks[1].symbol_count = n
            /\ \A i \in 1 .. n :
                 /\ chunks[i + 1].kind = "book"
                 /\ chunks[i + 1].symbol \in DOMAIN books
                 /\ chunks[i + 1].orders = books[chunks[i + 1].symbol]
            /\ \A s \in DOMAIN books : \E i \in 1 .. n : chunks[i + 1].symbol = s
<1> DEFINE S == DOMAIN books
           n == Cardinality(S)
           symbols == SetToSeq(S)
           header == [kind |-> "header", symbol_count |-> Len(symbols)]
           Book(i) == [kind |-> "book", symbol |-> symbols[i], orders |-> books[symbols[i]]]
           tail == [i \in 1 .. n |-> Book(i)]
           T == {header} \cup {Book(i) : i \in 1 .. n}
           chunks == Chunks(books)
<1>1. /\ symbols \in Seq(S) /\ Len(symbols) = n /\ n \in Nat
      /\ \A x \in S : \E i \in 1 .. n : symbols[i] = x
  BY SetToSeqFacts
<1> HIDE DEF symbols, S, n
<1>2. DOMAIN symbols = 1 .. n /\ \A i \in 1 .. n : symbols[i] \in S
  BY <1>1
<1>3. chunks = <<header>> \o tail
  BY <1>2 DEF Chunks, symbols, S
<1>4. tail \in Seq(T) /\ Len(tail) = n /\ <<header>> \in Seq(T)
  BY <1>1
<1>5. \A i \in 1 .. n : tail[i] = Book(i)
  OBVIOUS
<1>6. header.kind = "header" /\ header.symbol_count = n
      /\ \A i \in 1 .. n : /\ Book(i).kind = "book" /\ Book(i).symbol = symbols[i]
                           /\ Book(i).orders = books[symbols[i]]
  BY <1>1
<1> HIDE DEF chunks, tail, header, Book, T
<1>7. /\ chunks \in Seq(T) /\ Len(chunks) = n + 1 /\ chunks[1] = header
      /\ \A i \in 1 .. n : chunks[i + 1] = tail[i]
  BY <1>1, <1>3, <1>4
<1>8. chunks \in Seq(ToSet(chunks))
  <2>1. DOMAIN chunks = 1 .. (n + 1) /\ chunks = [i \in 1 .. (n + 1) |-> chunks[i]]
    BY <1>7
  <2>2. \A i \in 1 .. (n + 1) : chunks[i] \in ToSet(chunks)
    BY <2>1 DEF ToSet
  <2>3. chunks \in [1 .. (n + 1) -> ToSet(chunks)] /\ n + 1 \in Nat
    BY <1>1, <2>1, <2>2
  <2> QED  BY <2>3
<1>9. \A i \in 1 .. n : /\ chunks[i + 1].kind = "book"
                        /\ chunks[i + 1].symbol \in S
                        /\ chunks[i + 1].orders = books[chunks[i + 1].symbol]
  BY <1>2, <1>5, <1>6, <1>7
<1>10. \A s \in S : \E i \in 1 .. n : chunks[i + 1].symbol = s
  <2> TAKE s \in S
  <2>1. PICK i \in 1 .. n : symbols[i] = s
    BY <1>1
  <2>2. chunks[i + 1].symbol = s
    BY <1>5, <1>6, <1>7, <2>1
  <2> QED  BY <2>2
<1>11. chunks[1].kind = "header" /\ chunks[1].symbol_count = n
  BY <1>6, <1>7
<1> QED  BY <1>1, <1>7, <1>8, <1>9, <1>10, <1>11 DEF chunks, S, n

LEMMA BooksFinite ==
  ASSUME NEW r \in Seq(Command)
  PROVE  /\ IsFiniteSet(DOMAIN Books(r))
         /\ Books(r) = [s \in DOMAIN Books(r) |-> Books(r)[s]]
<1> DEFINE T == {SymbolOf[c] : c \in ToSet(r)}
           f == [i \in 1 .. Len(r) |-> SymbolOf[r[i]]]
<1>1. DOMAIN Books(r) = T /\ Books(r) = [s \in DOMAIN Books(r) |-> Books(r)[s]]
  BY DEF Books
<1>2. Len(r) \in Nat /\ DOMAIN r = 1 .. Len(r)
  OBVIOUS
<1>3. f \in [1 .. Len(r) -> T] /\ \A x \in T : \E i \in 1 .. Len(r) : f[i] = x
  BY <1>2 DEF ToSet
<1> HIDE DEF f, T
<1>4. f \in Surjection(1 .. Len(r), T)
  BY <1>3, Zenon DEF Surjection
<1>5. IsFiniteSet(1 .. Len(r))
  BY <1>2, FS_Interval
<1>6. IsFiniteSet(T)
  BY <1>4, <1>5, FS_Surjection
<1> QED  BY <1>1, <1>6

LEMMA RebuiltFinite ==
  ASSUME TypeOK, Rebuilt, tool # "idle"
  PROVE  IsFiniteSet(DOMAIN rebuilt) /\ rebuilt = [s \in DOMAIN rebuilt |-> rebuilt[s]]
<1>1. PICK life \in DOMAIN received : \E n \in 0 .. Len(received[life]) :
        rebuilt = BooksOf(received[life], n)
  BY DEF Rebuilt
<1>2. PICK n \in 0 .. Len(received[life]) : rebuilt = BooksOf(received[life], n)
  BY <1>1
<1>3. received[life] \in Seq(Command)
  BY DEF TypeOK
<1>4. SubSeq(received[life], 1, n) \in Seq(Command)
  BY <1>2, <1>3, SubSeqFacts
<1> QED  BY <1>2, <1>4, BooksFinite DEF BooksOf

(* A step of the tool leaves the server and its file alone.                *)
ServerInv == Handler /\ Buffered /\ Frontier /\ FirstLife /\ ReadOfOne

LEMMA ServerKept ==
  ASSUME TypeOK, ServerInv, UNCHANGED serverVars
  PROVE  ServerInv'
<1>1. /\ file' = file /\ buffer' = buffer /\ good' = good /\ pc' = pc /\ current' = current
      /\ event_sequence' = event_sequence /\ applied' = applied
      /\ received' = received /\ restarts' = restarts
  BY DEF serverVars
<1>2. ReadLength' = ReadLength
  BY <1>1, ReadUnchanged DEF TypeOK
<1>3. Life' = Life
  BY <1>1 DEF Life
<1> QED  BY <1>1, <1>2, <1>3 DEF ServerInv, Handler, Buffered, Frontier, FirstLife, ReadOfOne

(* What the reader returns.                                                *)
LEMMA ReplayFacts ==
  ASSUME TypeOK, ReadOfOne
  PROVE  /\ ReplayedCommands \in Seq(Command) /\ Len(ReplayedCommands) = ReadLength
         /\ \A i \in 1 .. ReadLength : ReplayedCommands[i] = file[i].command
<1>1. ReadLength \in Nat
  BY ReaderStops DEF TypeOK, ReadTo
<1>2. PICK life \in DOMAIN received : FromLife(file, ReadLength, received[life])
  BY DEF ReadOfOne
<1>3. received[life] \in Seq(Command)
  BY DEF TypeOK
<1>4. \A i \in 1 .. ReadLength : file[i].command \in Command
  BY <1>1, <1>2, <1>3 DEF FromLife
<1> DEFINE n == ReadLength
           R == [i \in 1 .. n |-> file[i].command]
<1>5. R \in Seq(Command) /\ Len(R) = n /\ \A i \in 1 .. n : R[i] = file[i].command
  <2>1. n \in Nat /\ \A i \in 1 .. n : file[i].command \in Command
    BY <1>1, <1>4
  <2> HIDE DEF n
  <2> QED  BY <2>1
<1> QED  BY <1>5 DEF ReplayedCommands

LEMMA OpenStep ==
  ASSUME IInv, OpenSnapshot PROVE IInv'
<1>1. TypeOK /\ ServerInv /\ ReadOfOne
  BY DEF IInv, ServerInv
<1>2. /\ rebuilt' = Books(ReplayedCommands) /\ snapshot' = <<>> /\ tool' = "writing"
      /\ UNCHANGED serverVars
  BY DEF OpenSnapshot
<1>3. TypeOK' /\ ServerInv'
  BY <1>1, <1>2, ServerKept DEF TypeOK, serverVars
<1>4. Rebuilt'
  <2>1. PICK life \in DOMAIN received : FromLife(file, ReadLength, received[life])
    BY <1>1 DEF ReadOfOne
  <2> DEFINE r == received[life]
             R == ReplayedCommands
             n == ReadLength
  <2>2. r \in Seq(Command) /\ n \in Nat /\ FromLife(file, n, r)
    BY <1>1, <2>1, ReaderStops DEF TypeOK, ReadTo
  <2>3. R \in Seq(Command) /\ Len(R) = n /\ \A i \in 1 .. n : R[i] = file[i].command
    BY <1>1, ReplayFacts
  <2> HIDE DEF r, R, n
  <2>4. n \in 0 .. Len(r) /\ \A i \in 1 .. n : R[i] = r[i]
    BY <2>2, <2>3 DEF FromLife
  <2>5. R = [i \in 1 .. n |-> R[i]]
    BY <2>3
  <2>6. SubSeq(r, 1, n) = [i \in 1 .. n |-> r[i]]
    BY <2>2, <2>4, SubSeqFacts
  <2>7. SubSeq(r, 1, n) = R
    BY <2>4, <2>5, <2>6
  <2>8. rebuilt' = BooksOf(r, n)
    BY <1>2, <2>7 DEF BooksOf, R
  <2> QED  BY <1>2, <2>4, <2>8 DEF Rebuilt, serverVars, r
<1>5. Written'
  <2> DEFINE chunks == Chunks(rebuilt')
  <2>1. Len(chunks) \in Nat
    <3>1. IsFiniteSet(DOMAIN rebuilt')
      BY <1>1, <1>2, ReplayFacts, BooksFinite
    <3> QED  BY <3>1, ChunksFacts
  <2>2. Len(snapshot') = 0
    BY <1>2
  <2> HIDE DEF chunks
  <2>3. Len(snapshot') <= Len(chunks) /\ 1 .. Len(snapshot') = {}
    BY <2>1, <2>2
  <2> QED  BY <1>2, <2>3 DEF Written, chunks
<1> QED  BY <1>3, <1>4, <1>5 DEF IInv, ServerInv

(* A step that does not read the journal keeps all but the snapshot.       *)
LEMMA ToolKeeps ==
  ASSUME IInv, UNCHANGED <<serverVars, rebuilt>>, tool # "idle",
         tool' \in {"writing", "done", "stopped"}
  PROVE  TypeOK' /\ ServerInv' /\ Rebuilt'
<1>1. TypeOK /\ ServerInv /\ Rebuilt
  BY DEF IInv, ServerInv
<1>2. TypeOK' /\ ServerInv'
  BY <1>1, ServerKept DEF TypeOK, serverVars
<1>3. Rebuilt'
  BY <1>1 DEF Rebuilt, serverVars
<1> QED  BY <1>2, <1>3

LEMMA WrittenFacts ==
  ASSUME TypeOK, Rebuilt, Written, tool # "idle"
  PROVE  /\ Chunks(rebuilt) \in Seq(ToSet(Chunks(rebuilt)) \cup {TornChunk})
         /\ Len(Chunks(rebuilt)) \in Nat /\ Len(snapshot) \in Nat
         /\ snapshot \in Seq(ToSet(Chunks(rebuilt)) \cup {TornChunk})
<1>1. IsFiniteSet(DOMAIN rebuilt)
  BY RebuiltFinite
<1> DEFINE chunks == Chunks(rebuilt)
<1>2. chunks \in Seq(ToSet(chunks)) /\ snapshot \in Seq(ToSet(chunks) \cup {TornChunk})
  BY <1>1, ChunksFacts DEF Written
<1> HIDE DEF chunks
<1>3. Len(chunks) \in Nat /\ Len(snapshot) \in Nat
      /\ chunks \in Seq(ToSet(chunks) \cup {TornChunk})
  BY <1>2
<1> QED  BY <1>2, <1>3 DEF chunks

LEMMA WriteStep ==
  ASSUME IInv, WriteChunk PROVE IInv'
<1> DEFINE chunks == Chunks(rebuilt)
           n == Len(snapshot)
           c == chunks[n + 1]
           T == ToSet(chunks) \cup {TornChunk}
<1>1. TypeOK /\ Rebuilt /\ Written
  BY DEF IInv
<1>2. /\ tool = "writing" /\ n < Len(chunks) /\ snapshot' = Append(snapshot, c)
      /\ UNCHANGED <<serverVars, rebuilt>> /\ tool' = tool
  BY DEF WriteChunk
<1>3. TypeOK' /\ ServerInv' /\ Rebuilt'
  BY <1>2, ToolKeeps
<1>4. chunks \in Seq(T) /\ Len(chunks) \in Nat /\ n \in Nat /\ snapshot \in Seq(T)
  BY <1>1, <1>2, WrittenFacts
<1>5. \A i \in 1 .. n : snapshot[i] = chunks[i]
  BY <1>1, <1>2 DEF Written
<1>6. rebuilt' = rebuilt
  BY <1>2
<1> HIDE DEF chunks, T
<1>7. c \in T
  BY <1>2, <1>4
<1>8. /\ snapshot' \in Seq(T) /\ Len(snapshot') = n + 1
      /\ snapshot'[n + 1] = c /\ \A i \in 1 .. n : snapshot'[i] = snapshot[i]
  BY <1>2, <1>4, <1>7, AppendFacts
<1> HIDE DEF n
<1>9. n + 1 <= Len(chunks) /\ \A i \in 1 .. (n + 1) : snapshot'[i] = chunks[i]
  BY <1>2, <1>4, <1>5, <1>8
<1>10. Written'
  BY <1>2, <1>6, <1>8, <1>9 DEF Written, chunks, T
<1> QED  BY <1>3, <1>10 DEF IInv, ServerInv

LEMMA CloseStep ==
  ASSUME IInv, CloseSnapshot PROVE IInv'
<1>1. TypeOK /\ Rebuilt /\ Written
  BY DEF IInv
<1>2. /\ tool = "writing" /\ Len(snapshot) = Len(Chunks(rebuilt)) /\ snapshot' = snapshot
      /\ UNCHANGED <<serverVars, rebuilt>> /\ tool' = "done"
  BY DEF CloseSnapshot
<1>3. TypeOK' /\ ServerInv' /\ Rebuilt'
  BY <1>2, ToolKeeps
<1>4. Written'
  BY <1>1, <1>2 DEF Written
<1> QED  BY <1>3, <1>4 DEF IInv, ServerInv

LEMMA StopStep ==
  ASSUME IInv, ToolStops PROVE IInv'
<1> DEFINE chunks == Chunks(rebuilt)
           n == Len(snapshot)
           T == ToSet(chunks) \cup {TornChunk}
<1>1. TypeOK /\ Rebuilt /\ Written
  BY DEF IInv
<1>2. /\ tool = "writing" /\ UNCHANGED <<serverVars, rebuilt>> /\ tool' = "stopped"
      /\ \/ snapshot' = snapshot
         \/ n < Len(chunks) /\ snapshot' = Append(snapshot, TornChunk)
  BY DEF ToolStops
<1>3. TypeOK' /\ ServerInv' /\ Rebuilt'
  BY <1>2, ToolKeeps
<1>4. /\ Len(chunks) \in Nat /\ n \in Nat /\ snapshot \in Seq(T)
      /\ n <= Len(chunks) /\ \A i \in 1 .. n : snapshot[i] = chunks[i]
  BY <1>1, <1>2, WrittenFacts DEF Written
<1>5. rebuilt' = rebuilt /\ TornChunk \in T
  BY <1>2
<1>6. CASE snapshot' = snapshot
  <2>1. Written'
    BY <1>2, <1>4, <1>5, <1>6 DEF Written
  <2> QED  BY <2>1, <1>3 DEF IInv, ServerInv
<1>7. CASE n < Len(chunks) /\ snapshot' = Append(snapshot, TornChunk)
  <2> HIDE DEF chunks, T
  <2>1. /\ snapshot' \in Seq(T) /\ Len(snapshot') = n + 1
        /\ snapshot'[n + 1] = TornChunk /\ \A i \in 1 .. n : snapshot'[i] = snapshot[i]
    BY <1>4, <1>5, <1>7, AppendFacts
  <2> HIDE DEF n
  <2>2. n + 1 <= Len(chunks)
        /\ \A i \in 1 .. (n + 1) : \/ snapshot'[i] = chunks[i]
                                   \/ snapshot'[i] = TornChunk /\ i = n + 1
    BY <1>4, <1>7, <2>1
  <2>3. Written'
    BY <1>2, <1>5, <2>1, <2>2 DEF Written, chunks, T
  <2> QED  BY <2>3, <1>3 DEF IInv, ServerInv
<1> QED  BY <1>2, <1>3, <1>6, <1>7 DEF IInv, ServerInv

-----------------------------------------------------------------------------
(* Every step keeps the invariant, and what follows from it.               *)

LEMMA Preserved == IInv /\ [Next]_vars => IInv'
<1> SUFFICES ASSUME IInv, [Next]_vars PROVE IInv'
  OBVIOUS
<1>1. CASE \E c \in Command : AppendToLog(c)
  BY <1>1, AppendStep
<1>2. CASE Flush \/ FlushFails \/ Apply \/ Crash \/ Restart
  BY <1>2, FlushStep, FlushFailsStep, ApplyStep, CrashStep, RestartStep
<1>3. CASE OpenSnapshot \/ WriteChunk \/ CloseSnapshot \/ ToolStops
  BY <1>3, OpenStep, WriteStep, CloseStep, StopStep
<1>4. CASE UNCHANGED vars
  <2>1. TypeOK /\ ServerInv /\ Rebuilt /\ Written
    BY DEF IInv, ServerInv
  <2>2. UNCHANGED serverVars /\ UNCHANGED toolVars
    BY <1>4 DEF vars
  <2>3. TypeOK' /\ Rebuilt'
    BY <2>1, <2>2 DEF TypeOK, Rebuilt, serverVars, toolVars
  <2> QED  BY <2>1, <2>2, <2>3, ServerKept, WrittenKept DEF IInv, ServerInv
<1> QED  BY <1>1, <1>2, <1>3, <1>4 DEF Next

LEMMA Invariance == Spec => []IInv
  BY Initially, Preserved, PTL DEF Spec

LEMMA PrefixFacts ==
  ASSUME NEW S, NEW a \in Seq(S), NEW b \in Seq(S), Len(a) <= Len(b),
         \A i \in 1 .. Len(a) : a[i] = b[i]
  PROVE  IsPrefix(a, b)
<1>1. Len(a) \in 0 .. Len(a) /\ Len(a) \in 0 .. Len(b)
  OBVIOUS
<1>2. SubSeq(a, 1, Len(a)) = [i \in 1 .. Len(a) |-> a[i]]
      /\ SubSeq(b, 1, Len(a)) = [i \in 1 .. Len(a) |-> b[i]]
  BY <1>1, SubSeqFacts
<1>3. [i \in 1 .. Len(a) |-> a[i]] = [i \in 1 .. Len(a) |-> b[i]]
  OBVIOUS
<1> QED  BY <1>2, <1>3 DEF IsPrefix

LEMMA InvWriteAhead == IInv => WriteAhead
<1> SUFFICES ASSUME IInv, restarts = 0, pc # "down"
             PROVE  /\ good => /\ ReplaySucceeds
                               /\ IsPrefix(applied, ReplayedCommands)
                               /\ Len(ReplayedCommands) <= Len(applied) + 1
                    /\ ~good => /\ Len(file) <= ReadLength + 1
                                /\ IsPrefix(ReplayedCommands, applied)
                                /\ Len(applied) <= Len(ReplayedCommands) + 1
  BY DEF WriteAhead
<1> DEFINE n == ReadLength
           R == ReplayedCommands
<1>1. TypeOK /\ Handler /\ Buffered /\ FirstLife /\ ReadOfOne
  BY DEF IInv
<1>2. good => GoodIn(file, Len(file)) /\ Len(file) = n
  BY <1>1, ReaderStops DEF FirstLife, ReadTo, TypeOK
<1>3. /\ FromLife(file, n, Life)
      /\ good => event_sequence = n + Len(buffer)
      /\ ~good => event_sequence = n + 1 /\ Len(file) <= n + 1
  BY <1>1, <1>2 DEF FirstLife
<1>4. R \in Seq(Command) /\ Len(R) = n /\ \A i \in 1 .. n : R[i] = file[i].command
  BY <1>1, ReplayFacts
<1>5. /\ n \in Nat /\ event_sequence \in Nat /\ Life \in Seq(Command)
      /\ applied \in Seq(Command) /\ pc \in {"read", "flush", "apply"}
  BY <1>1, LifeFacts, ReaderStops DEF TypeOK, ReadTo
<1>6. /\ pc = "flush" => Len(buffer) = 1
      /\ pc # "flush" /\ good => Len(buffer) = 0
  BY <1>1 DEF Buffered
<1>7. /\ pc = "flush" => good /\ Len(applied) = event_sequence - 1
      /\ pc = "apply" => Len(applied) = event_sequence - 1
      /\ pc = "read" => Len(applied) = event_sequence
      /\ \A i \in 1 .. Len(applied) : applied[i] = Life[i]
  BY <1>1 DEF Handler
<1>8. \A i \in 1 .. n : R[i] = Life[i]
  BY <1>3, <1>4 DEF FromLife
<1>9. good => ReplaySucceeds
  BY <1>2 DEF ReplaySucceeds
<1> HIDE DEF n, R
<1>10. ASSUME good PROVE IsPrefix(applied, R) /\ Len(R) <= Len(applied) + 1
  <2>1. Len(applied) <= n /\ n <= Len(applied) + 1
    <3>1. CASE pc = "flush"
      <4>1. event_sequence = n + 1 /\ Len(applied) = event_sequence - 1
        BY <1>3, <1>6, <1>7, <1>10, <3>1
      <4>2. Len(applied) = n
        BY <1>5, <4>1
      <4> QED  BY <1>5, <4>2
    <3>2. CASE pc = "apply"
      <4>1. event_sequence = n + 0 /\ Len(applied) = event_sequence - 1
        BY <1>3, <1>6, <1>7, <1>10, <3>2
      <4> QED  BY <1>5, <4>1
    <3>3. CASE pc = "read"
      <4>1. event_sequence = n + 0 /\ Len(applied) = event_sequence
        BY <1>3, <1>6, <1>7, <1>10, <3>3
      <4> QED  BY <1>5, <4>1
    <3> QED  BY <1>5, <3>1, <3>2, <3>3
  <2>2. \A i \in 1 .. Len(applied) : applied[i] = R[i]
    BY <1>5, <1>7, <1>8, <2>1
  <2> QED  BY <1>4, <1>5, <2>1, <2>2, PrefixFacts
<1>11. ASSUME ~good PROVE Len(applied) <= Len(R) + 1 /\ IsPrefix(R, applied)
  <2>1. Len(applied) <= n + 1 /\ n <= Len(applied)
    <3>1. event_sequence = n + 1
      BY <1>3, <1>11
    <3>2. Len(applied) = event_sequence - 1 \/ Len(applied) = event_sequence
      BY <1>5, <1>7
    <3> QED  BY <1>5, <3>1, <3>2
  <2>2. \A i \in 1 .. n : R[i] = applied[i]
    BY <1>5, <1>7, <1>8, <2>1
  <2> QED  BY <1>4, <1>5, <2>1, <2>2, PrefixFacts
<1> QED  BY <1>3, <1>9, <1>10, <1>11 DEF R, n

LEMMA InvOneProcess == IInv => ReplaysOneProcess
<1> SUFFICES ASSUME IInv PROVE ReplaysOneProcess
  OBVIOUS
<1>1. TypeOK /\ ReadOfOne
  BY DEF IInv
<1>2. PICK life \in DOMAIN received : FromLife(file, ReadLength, received[life])
  BY <1>1 DEF ReadOfOne
<1> DEFINE r == received[life]
           R == ReplayedCommands
<1>3. r \in Seq(Command) /\ FromLife(file, ReadLength, r)
  BY <1>1, <1>2 DEF TypeOK
<1>4. R \in Seq(Command) /\ Len(R) = ReadLength
      /\ \A i \in 1 .. ReadLength : R[i] = file[i].command
  BY <1>1, ReplayFacts
<1> HIDE DEF r, R
<1>5. Len(R) <= Len(r) /\ \A i \in 1 .. Len(R) : R[i] = r[i]
  BY <1>3, <1>4 DEF FromLife
<1>6. IsPrefix(R, r)
  BY <1>3, <1>4, <1>5, PrefixFacts
<1> QED  BY <1>6 DEF ReplaysOneProcess, R, r

(* A snapshot that is accepted is complete: a torn chunk is one that the   *)
(* header announced.                                                       *)
LEMMA InvSnapshotWhole == IInv => SnapshotWhole
<1> SUFFICES ASSUME IInv PROVE SnapshotWhole
  OBVIOUS
<1>1. TypeOK /\ Rebuilt /\ Written
  BY DEF IInv
<1> DEFINE chunks == Chunks(rebuilt)
           n == Cardinality(DOMAIN rebuilt)
<1>2. CASE tool = "idle"
  <2>1. snapshot = <<>>
    BY <1>1, <1>2 DEF Written
  <2> QED  BY <1>2, <2>1 DEF SnapshotWhole, LoadSucceeds
<1>3. CASE tool # "idle"
  <2>1. IsFiniteSet(DOMAIN rebuilt) /\ rebuilt = [s \in DOMAIN rebuilt |-> rebuilt[s]]
    BY <1>1, <1>3, RebuiltFinite
  <2>2. /\ n \in Nat /\ Len(chunks) = n + 1
        /\ chunks[1].kind = "header" /\ chunks[1].symbol_count = n
        /\ \A i \in 1 .. n :
             /\ chunks[i + 1].kind = "book"
             /\ chunks[i + 1].symbol \in DOMAIN rebuilt
             /\ chunks[i + 1].orders = rebuilt[chunks[i + 1].symbol]
        /\ \A s \in DOMAIN rebuilt : \E i \in 1 .. n : chunks[i + 1].symbol = s
    BY <2>1, ChunksFacts
  <2>3. /\ Len(snapshot) \in Nat /\ Len(snapshot) <= Len(chunks)
        /\ snapshot \in Seq(ToSet(chunks) \cup {TornChunk})
        /\ tool = "done" => Len(snapshot) = Len(chunks)
        /\ \A i \in 1 .. Len(snapshot) :
             \/ snapshot[i] = chunks[i]
             \/ snapshot[i] = TornChunk /\ tool = "stopped" /\ i = Len(snapshot)
    BY <1>1, <1>3, WrittenFacts DEF Written
  <2>4. TornChunk.kind = "torn"
    BY DEF TornChunk
  <2> HIDE DEF chunks, n
  <2> HIDE DEF TornChunk
  <2>5. ASSUME tool = "done" PROVE LoadSucceeds
    <3>1. Len(snapshot) = n + 1 /\ \A i \in 1 .. (n + 1) : snapshot[i] = chunks[i]
      BY <2>2, <2>3, <2>5
    <3>2. snapshot # <<>> /\ snapshot[1] = chunks[1]
          /\ \A i \in 1 .. n : i < Len(snapshot) /\ snapshot[i + 1] = chunks[i + 1]
      BY <2>2, <3>1
    <3> QED  BY <2>2, <3>2 DEF LoadSucceeds
  <2>6. ASSUME LoadSucceeds PROVE LoadedBooks = rebuilt
    <3>1. 1 \in 1 .. Len(snapshot) /\ snapshot[1].kind = "header"
      BY <2>3, <2>6 DEF LoadSucceeds
    <3>2. snapshot[1] = chunks[1]
      BY <2>3, <2>4, <3>1
    <3>3. \A i \in 1 .. n : i < Len(snapshot) /\ snapshot[i + 1].kind = "book"
      BY <2>2, <2>6, <3>2 DEF LoadSucceeds
    <3>4. Len(snapshot) = n + 1
      <4>1. CASE n = 0
        <5>1. Len(snapshot) \in Nat /\ Len(snapshot) <= n + 1 /\ 1 <= Len(snapshot)
          BY <2>2, <2>3, <3>1
        <5>2. n + 1 = 1
          BY <4>1
        <5>3. Len(snapshot) <= 1
          BY <5>1, <5>2
        <5>4. Len(snapshot) = 1
          BY <5>1, <5>3
        <5> QED  BY <5>2, <5>4
      <4>2. CASE n # 0
        <5>1. n \in 1 .. n
          BY <2>2, <4>2
        <5>2. n < Len(snapshot)
          BY <3>3, <5>1
        <5>3. Len(snapshot) \in Nat /\ Len(snapshot) <= n + 1 /\ n \in Nat
          BY <2>2, <2>3
        <5> QED  BY <5>2, <5>3
      <4> QED  BY <4>1, <4>2
    <3>5. \A i \in 1 .. n : snapshot[i + 1] = chunks[i + 1]
      BY <2>2, <2>3, <2>4, <3>3, <3>4
    <3> DEFINE U == ToSet(Tail(snapshot))
               D == {snapshot[i].symbol : i \in 2 .. Len(snapshot)}
    <3>6. U = {chunks[i + 1] : i \in 1 .. n}
      <4>1. Len(Tail(snapshot)) = n /\ DOMAIN Tail(snapshot) = 1 .. n
            /\ \A i \in 1 .. n : Tail(snapshot)[i] = snapshot[i + 1]
        BY <2>2, <2>3, <3>4
      <4> QED  BY <3>5, <4>1 DEF ToSet
    <3>7. D = DOMAIN rebuilt
      <4>1. ASSUME NEW i \in 2 .. Len(snapshot) PROVE snapshot[i].symbol \in DOMAIN rebuilt
        <5>1. PICK j \in 1 .. n : j + 1 = i
          <6>1. i - 1 \in 1 .. n /\ (i - 1) + 1 = i
            BY <2>2, <3>4
          <6> QED  BY <6>1
        <5>2. snapshot[j + 1] = chunks[j + 1] /\ chunks[j + 1].symbol \in DOMAIN rebuilt
          BY <2>2, <3>5
        <5> QED  BY <5>1, <5>2
      <4>2. ASSUME NEW s \in DOMAIN rebuilt PROVE s \in D
        <5>1. PICK i \in 1 .. n : chunks[i + 1].symbol = s
          BY <2>2
        <5>2. i + 1 \in 2 .. Len(snapshot) /\ snapshot[i + 1].symbol = s
          BY <2>2, <3>4, <3>5, <5>1
        <5> QED  BY <5>2
      <4> QED  BY <4>1, <4>2
    <3>8. ASSUME NEW s \in DOMAIN rebuilt
          PROVE  (CHOOSE chunk \in U : chunk.symbol = s).orders = rebuilt[s]
      <4>1. \E chunk \in U : chunk.symbol = s
        BY <2>2, <3>6
      <4> DEFINE b == CHOOSE chunk \in U : chunk.symbol = s
      <4>2. b \in U /\ b.symbol = s
        BY <4>1
      <4> HIDE DEF b, U
      <4>3. b.orders = rebuilt[s]
        BY <2>2, <3>6, <4>2
      <4> QED  BY <4>3 DEF b
    <3>9. LoadedBooks = [s \in D |-> (CHOOSE chunk \in U : chunk.symbol = s).orders]
      BY DEF LoadedBooks
    <3> HIDE DEF U, D
    <3> QED  BY <2>1, <3>7, <3>8, <3>9
  <2>7. \E life \in DOMAIN received : \E m \in 0 .. Len(received[life]) :
          rebuilt = Books(SubSeq(received[life], 1, m))
    BY <1>1, <1>3 DEF Rebuilt, BooksOf
  <2> QED  BY <2>5, <2>6, <2>7 DEF SnapshotWhole
<1> QED  BY <1>2, <1>3

(* The variables keep their types: the file holds records and what crashes *)
(* and failed writes left of them.                                         *)
THEOREM TypeCorrect == Spec => []TypeOK
  BY Invariance, PTL DEF IInv

(* Write-ahead for any commands: while the first process runs, replay      *)
(* gives what its exchange has seen, but for the one command in flight.    *)
(* After a flush that failed behind its back, wholly or half way through   *)
(* the record, the reader may throw, but not before it has given all but   *)
(* the one command lost.                                                   *)
THEOREM JournalLeads == Spec => []WriteAhead
  BY Invariance, InvWriteAhead, PTL

(* After any number of crashes, torn records and restarts, the reader      *)
(* returns a prefix of what one process received: the numbers it checks    *)
(* start over with each process.                                           *)
THEOREM ReplayIsOfOne == Spec => []ReplaysOneProcess
  BY Invariance, InvOneProcess, PTL

(* A snapshot that load_snapshot accepts is whole, for any number of books *)
(* and however many runs of the tool were cut short.                       *)
THEOREM SnapshotIsWhole == Spec => []SnapshotWhole
  BY Invariance, InvSnapshotWhole, PTL
=============================================================================
