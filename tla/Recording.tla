----------------------------- MODULE Recording -----------------------------
(***************************************************************************)
(* Market recordings (src/src/market_recorder.cpp): the file a recorder    *)
(* leaves and what a reader makes of it, as operators.  A file is a        *)
(* sequence of cells, each a field of the format that a crash may cut off; *)
(* a payload is a sequence of cells too, kept as it is.                    *)
(***************************************************************************)
EXTENDS Integers, Sequences, SequencesExt

Types == {"Snapshot", "UpdateBatch"}

(* write_file_header and write_record. *)
FileHeader == <<"magic", "version">>

WriteRecord(record) ==
  <<record.type, record.stamp, Len(record.payload)>> \o record.payload

Written(records) ==
  FoldLeft(LAMBDA file, record : file \o WriteRecord(record), FileHeader, records)

(* MarketRecordReader::next, over and over: the records read from position  *)
(* "at" on and how the reading ends.  A header that is cut off throws; a    *)
(* payload that is cut off counts as the end of the file.                   *)
ReadAll(file) ==
  LET read[at \in 1 .. Len(file) + 1] ==
        LET payload == at + 3
            after == payload + file[at + 2]
        IN IF at > Len(file) THEN [records |-> <<>>, ending |-> "end"]
           ELSE IF at + 2 > Len(file) THEN [records |-> <<>>, ending |-> "throws"]
           ELSE IF after > Len(file) + 1 THEN [records |-> <<>>, ending |-> "end"]
           ELSE IF file[at] \notin Types THEN [records |-> <<>>, ending |-> "throws"]
           ELSE [read[after] EXCEPT
                   !.records = <<[type |-> file[at], stamp |-> file[at + 1],
                                  payload |-> SubSeq(file, payload, after - 1)]>> \o @]
  IN IF IsPrefix(FileHeader, file) THEN read[Len(FileHeader) + 1]
     ELSE [records |-> <<>>, ending |-> "throws"]

(* load_recording of the replay server: all or nothing. *)
LoadSucceeds(file) == ReadAll(file).ending = "end" /\ ReadAll(file).records # <<>>

(* One round of the loop of replay_market_records.  Whether the books       *)
(* accept a record is told by accepts.                                      *)
ReplayRound(result, record, options, accepts) ==
  LET skipped == record.stamp < options.start
      over == \/ record.stamp > options.end
              \/ options.maximum > 0 /\ Len(result.applied) >= options.maximum
  IN IF result.left \/ skipped THEN result
     ELSE IF over THEN [result EXCEPT !.left = TRUE]
     ELSE IF record \in accepts THEN [result EXCEPT !.applied = Append(@, record)]
     ELSE [result EXCEPT !.rejected = @ + 1]

ReplayMarketRecords(records, options, accepts) ==
  FoldLeft(LAMBDA result, record : ReplayRound(result, record, options, accepts),
           [applied |-> <<>>, rejected |-> 0, left |-> FALSE], records)

=============================================================================
