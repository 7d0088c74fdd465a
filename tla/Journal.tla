------------------------------- MODULE Journal -------------------------------
(***************************************************************************)
(* The input journal of the order-entry server: EventLogWriter and         *)
(* EventLogReader (src/src/event_log.cpp), the message handler that writes *)
(* ahead of the exchange (src/apps/server.cpp) and the replay tool that    *)
(* reads the file back into an exchange of its own and writes that         *)
(* exchange to a snapshot file (src/apps/replay.cpp, write_snapshot and    *)
(* load_snapshot of src/src/exchange.cpp).  The tool may run at any time,  *)
(* beside a live server too.                                               *)
(*                                                                         *)
(* All sessions share one io_context thread, so that handlers do not       *)
(* interleave; a crash can fall between any two of their steps.  The file  *)
(* is a sequence of chunks: whole records, or the part of one that a       *)
(* failed write or a crash left there.                                     *)
(***************************************************************************)
EXTENDS Integers, Sequences, SequencesExt

CONSTANTS
  Command,        \* submit, cancel and replace requests
  NoCommand,
  SymbolOf,       \* the symbol whose book a command goes to
  MaxCommands,    \* bound on the commands a process receives
  MaxRestarts     \* bound on the restarts of a behaviour

ASSUME JournalAssumption ==
  /\ NoCommand \notin Command
  /\ DOMAIN SymbolOf = Command
  /\ MaxCommands \in Nat /\ MaxRestarts \in Nat

VARIABLES
  file,             \* the bytes on disk, as chunks
  buffer,           \* the record in the stream buffer of the writer
  good,             \* no write to the stream has failed
  event_sequence,   \* event_sequence_ of the writer, lost with the process
  pc,               \* the handler's next step, or "down"
  current,          \* the command it is handling
  applied,          \* commands this process applied to its exchange
  received,         \* commands each process received, oldest process first
  restarts,
  snapshot,         \* the snapshot file, as chunks: a header, then the books
  tool,             \* the replay tool: "idle", "writing", "done", "stopped"
  rebuilt           \* the exchange that its last run rebuilt

toolVars == <<snapshot, tool, rebuilt>>
serverVars == <<file, buffer, good, event_sequence, pc, current, applied, received, restarts>>
vars == <<serverVars, toolVars>>

Record(n, c) == [kind |-> "record", sequence |-> n, command |-> c]
TornHeader == [kind |-> "torn_header"]
TornPayload(n) == [kind |-> "torn_payload", sequence |-> n]

Init ==
  /\ file = <<>> /\ buffer = <<>> /\ good = TRUE /\ event_sequence = 0
  /\ pc = "read" /\ current = NoCommand
  /\ applied = <<>> /\ received = << <<>> >> /\ restarts = 0
  /\ snapshot = <<>> /\ tool = "idle" /\ rebuilt = <<>>

(* A whole message has arrived: append it to the stream.  On a stream that  *)
(* has failed append throws and ends the process (Crash).                   *)
AppendToLog(c) ==
  /\ pc = "read" /\ good /\ event_sequence < MaxCommands
  /\ event_sequence' = event_sequence + 1
  /\ buffer' = <<Record(event_sequence + 1, c)>>
  /\ current' = c
  /\ received' = [received EXCEPT ![restarts + 1] = Append(@, c)]
  /\ pc' = "flush"
  /\ UNCHANGED <<file, good, applied, restarts, toolVars>>

(* (Mutant: the record stays in the stream buffer.)                         *)
FlushForgotten ==
  /\ pc = "flush"
  /\ pc' = "apply"
  /\ UNCHANGED <<file, buffer, good, event_sequence, current, applied, received, restarts, toolVars>>

Flush ==
  /\ pc = "flush"
  /\ file' = file \o buffer
  /\ buffer' = <<>>
  /\ pc' = "apply"
  /\ UNCHANGED <<good, event_sequence, current, applied, received, restarts, toolVars>>

(* What a write that ends early leaves behind the file: nothing, a header   *)
(* cut short, or a header and a payload cut short.  (Two parts in a row are *)
(* read as one header: if that is still too short, it is as if the second   *)
(* part were not there.)                                                    *)
PartsOfRecord == {<<>>, <<TornHeader>>, <<TornPayload(event_sequence)>>}

(* The disk refuses the flush, or takes a part of the record only.  Nobody  *)
(* looks at the stream: the process lives on and applies the command all    *)
(* the same.  The stream keeps the record, to write it again from its       *)
(* beginning when it is closed (Crash).                                     *)
FlushFails ==
  /\ pc = "flush"
  /\ \E part \in PartsOfRecord : file' = file \o part
  /\ good' = FALSE
  /\ pc' = "apply"
  /\ UNCHANGED <<buffer, event_sequence, current, applied, received, restarts, toolVars>>

Apply ==
  /\ pc = "apply"
  /\ applied' = Append(applied, current)
  /\ current' = NoCommand
  /\ pc' = "read"
  /\ UNCHANGED <<file, buffer, good, event_sequence, received, restarts, toolVars>>

(* The process dies or a write fails and main gives up.  A record that was  *)
(* not flushed reaches the disk not at all, in part or whole.               *)
Crash ==
  /\ pc # "down"
  /\ \E left \in IF buffer = <<>> THEN {<<>>} ELSE PartsOfRecord \cup {buffer} :
       file' = file \o left
  /\ buffer' = <<>> /\ good' = TRUE /\ event_sequence' = 0
  /\ pc' = "down" /\ current' = NoCommand
  /\ applied' = <<>>
  /\ UNCHANGED <<received, restarts, toolVars>>

(* A new process opens the file in append mode, with its counter at zero    *)
(* and an empty exchange.                                                   *)
Restart ==
  /\ pc = "down" /\ restarts < MaxRestarts
  /\ restarts' = restarts + 1
  /\ pc' = "read"
  /\ received' = Append(received, <<>>)
  /\ UNCHANGED <<file, buffer, good, event_sequence, current, applied, toolVars>>

-----------------------------------------------------------------------------
(* EventLogReader::next, called until it returns false or throws: it takes  *)
(* whole records with the next sequence number and a matching checksum.     *)
(* (Mutant: the sequence number is not checked.)                            *)
GoodUnnumbered(n) == \A i \in 1 .. n : file[i].kind = "record"

GoodUpTo(n) ==
  \A i \in 1 .. n : file[i].kind = "record" /\ file[i].sequence = i

ReadLength ==
  CHOOSE n \in 0 .. Len(file) :
    GoodUpTo(n) /\ (n = Len(file) \/ ~GoodUpTo(n + 1))

ReplayedCommands == [i \in 1 .. ReadLength |-> file[i].command]

(* A header cut short at the end of the file ends the log quietly; any      *)
(* other damage throws and the replay tool gives up.                        *)
ReplaySucceeds ==
  \/ ReadLength = Len(file)
  \/ ReadLength = Len(file) - 1 /\ Last(file) = TornHeader

-----------------------------------------------------------------------------
(* The exchange after a sequence of commands: a book for every symbol they  *)
(* name, told apart by the commands it got.                                 *)
Books(commands) ==
  [s \in {SymbolOf[c] : c \in ToSet(commands)} |->
     SelectSeq(commands, LAMBDA c : SymbolOf[c] = s)]

(* What write_snapshot streams out: a header with the number of books, then *)
(* each book with its resting orders and state hash.                        *)
Chunks(books) ==
  LET symbols == SetToSeq(DOMAIN books)
  IN <<[kind |-> "header", symbol_count |-> Len(symbols)]>>
     \o [i \in DOMAIN symbols |->
          [kind |-> "book", symbol |-> symbols[i], orders |-> books[symbols[i]]]]
TornChunk == [kind |-> "torn"]

(* A run of the tool whose replay succeeds opens the snapshot, which        *)
(* truncates the one of the run before.                                     *)
OpenSnapshot ==
  /\ tool # "writing" /\ ReplaySucceeds
  /\ rebuilt' = Books(ReplayedCommands)
  /\ snapshot' = <<>>
  /\ tool' = "writing"
  /\ UNCHANGED serverVars

WriteChunk ==
  /\ tool = "writing" /\ Len(snapshot) < Len(Chunks(rebuilt))
  /\ snapshot' = Append(snapshot, Chunks(rebuilt)[Len(snapshot) + 1])
  /\ UNCHANGED <<serverVars, tool, rebuilt>>

CloseSnapshot ==
  /\ tool = "writing" /\ Len(snapshot) = Len(Chunks(rebuilt))
  /\ tool' = "done"
  /\ UNCHANGED <<serverVars, snapshot, rebuilt>>

(* The tool dies or the disk refuses a write.  (The stream is tested before *)
(* it is closed: a refusal of the last buffer goes unnoticed, and the tool  *)
(* exits with success.)                                                     *)
ToolStops ==
  /\ tool = "writing"
  /\ snapshot' \in {snapshot} \cup
       (IF Len(snapshot) < Len(Chunks(rebuilt)) THEN {Append(snapshot, TornChunk)} ELSE {})
  /\ tool' = "stopped"
  /\ UNCHANGED <<serverVars, rebuilt>>

(* load_snapshot: the header and as many whole books as it announces.       *)
(* (Mutant: whatever books there are.)                                      *)
LoadsWhatIsThere ==
  /\ snapshot # <<>> /\ snapshot[1].kind = "header"
  /\ Last(snapshot).kind # "torn"

LoadSucceeds ==
  /\ snapshot # <<>> /\ snapshot[1].kind = "header"
  /\ \A i \in 1 .. snapshot[1].symbol_count :
       i < Len(snapshot) /\ snapshot[i + 1].kind = "book"

LoadedBooks ==
  [s \in {snapshot[i].symbol : i \in 2 .. Len(snapshot)} |->
     (CHOOSE chunk \in ToSet(Tail(snapshot)) : chunk.symbol = s).orders]

Next ==
  \/ \E c \in Command : AppendToLog(c)
  \/ Flush \/ FlushFails \/ Apply \/ Crash \/ Restart
  \/ OpenSnapshot \/ WriteChunk \/ CloseSnapshot \/ ToolStops

Spec == Init /\ [][Next]_vars

-----------------------------------------------------------------------------
Chunk ==
  [kind : {"record"}, sequence : 1 .. MaxCommands, command : Command]
    \cup [kind : {"torn_payload"}, sequence : 1 .. MaxCommands] \cup {TornHeader}

(* The type of every variable of the journal.                               *)
TypeOK ==
  /\ file \in Seq(Chunk) /\ buffer \in Seq(Chunk) /\ good \in BOOLEAN
  /\ event_sequence \in 0 .. MaxCommands
  /\ pc \in {"read", "flush", "apply", "down"}
  /\ current \in Command \cup {NoCommand}
  /\ applied \in Seq(Command) /\ received \in Seq(Seq(Command))
  /\ restarts \in 0 .. MaxRestarts
  /\ tool \in {"idle", "writing", "done", "stopped"}

(* Write-ahead: on a journal that began with this process, replay succeeds  *)
(* and reproduces every command the exchange has seen, in order, with at    *)
(* most the one in flight besides.  After a flush that failed unnoticed     *)
(* this is no longer so: the reader may throw.  But it then stumbles over   *)
(* the last thing in the file, and what it returned before lacks no more    *)
(* than the one command that was applied after that flush.                  *)
WriteAhead ==
  restarts = 0 /\ pc # "down" =>
    /\ good => /\ ReplaySucceeds
               /\ IsPrefix(applied, ReplayedCommands)
               /\ Len(ReplayedCommands) <= Len(applied) + 1
    /\ ~good => /\ Len(file) <= ReadLength + 1
                /\ IsPrefix(ReplayedCommands, applied)
                /\ Len(applied) <= Len(ReplayedCommands) + 1

(* Replay never mixes processes: each server starts with an empty exchange, *)
(* so the commands of two of them in a row would rebuild a book that never  *)
(* existed.  What the reader returns before it ends or throws is a prefix   *)
(* of what one process received.                                            *)
ReplaysOneProcess ==
  \E life \in DOMAIN received : IsPrefix(ReplayedCommands, received[life])

(* A snapshot is all or nothing: one that load_snapshot accepts, however    *)
(* the tool's run ended and whatever a run before it had left in the file,  *)
(* holds every book as it was after some number of the commands of one      *)
(* server process; and a run that ended well leaves one that is accepted.   *)
SnapshotWhole ==
  /\ tool = "done" => LoadSucceeds
  /\ LoadSucceeds =>
       \E life \in DOMAIN received : \E n \in 0 .. Len(received[life]) :
         LoadedBooks = Books(SubSeq(received[life], 1, n))

(* "The input journal uses contiguous event sequence numbers"               *)
(* (docs/DESIGN.md): the n-th whole record carries number n.                *)
JournalContiguous ==
  LET whole == SelectSeq(file, LAMBDA r : r.kind = "record")
  IN \A i \in DOMAIN whole : whole[i].sequence = i

=============================================================================
