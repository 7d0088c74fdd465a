------------------------------ MODULE MCReplay ------------------------------
(* A recording of three records, two of them with the same timestamp; and   *)
(* the files of the recorder over more inputs.                              *)
EXTENDS Replay

MCStamps == <<1, 2, 2>>

Recordings == INSTANCE Recording
RecordsOf(stamps) ==
  [type : Recordings!Types, stamp : stamps, payload : {<<7>>, <<8, 9>>}]

(* Wherever a crash cuts the file, a reader sees exactly the records that   *)
(* are whole, and the replay server starts on them ("All records before     *)
(* this point are complete and replayable"), unless the cut goes through    *)
(* the header of a record or of the file: then next throws.                 *)
ASSUME WholeRecordsAreRead ==
  \A n \in 1 .. 3 : \A records \in [1 .. n -> RecordsOf({1})] :
    LET file == Recordings!Written(records)
        ends == {Len(Recordings!Written(SubSeq(records, 1, k))) : k \in 0 .. n}
    IN \A cut \in 0 .. Len(file) :
         LET result == Recordings!ReadAll(SubSeq(file, 1, cut))
             whole == {k \in 1 .. n : Len(Recordings!Written(SubSeq(records, 1, k))) <= cut}
             last == Max({end \in ends : end <= cut} \union {0})
         IN /\ result.ending = "throws" <=> cut < 2 \/ cut - last \in 1 .. 2
            /\ result.records = SubSeq(records, 1, Cardinality(whole))
            /\ Recordings!LoadSucceeds(SubSeq(file, 1, cut))
                 <=> result.ending = "end" /\ whole # {}

(* On a recording in order of time, a replay applies the accepted records   *)
(* of the wanted period, in order and not more of them than asked for.      *)
ASSUME ReplayedPeriod ==
  \A records \in [1 .. 3 -> [type : {"Snapshot"}, stamp : 1 .. 3, payload : {<<7>>, <<8>>}]] :
    (\A i \in 1 .. 2 : records[i].stamp <= records[i + 1].stamp) =>
      \A start, end \in 0 .. 4, maximum \in 0 .. 2 :
        LET accepts == {r \in Range(records) : r.payload = <<7>>}
            wanted == SelectSeq(records, LAMBDA r : r \in accepts /\ r.stamp \in start .. end)
            applied == Recordings!ReplayMarketRecords(
                         records, [start |-> start, end |-> end, maximum |-> maximum],
                         accepts).applied
        IN applied = IF maximum = 0 THEN wanted
                     ELSE SubSeq(wanted, 1, Min({maximum, Len(wanted)}))

=============================================================================
