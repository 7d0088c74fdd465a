------------------------------- MODULE Replay -------------------------------
(* The interactive replay server (apps/market_replay_ws.cpp) and its        *)
(* ReplayController (src/replay_control.cpp).  A session has two threads:   *)
(* the command thread reads the client's commands and applies them to the   *)
(* controller; the replay thread applies the recording record by record,    *)
(* sends what it sees, and between records asks the controller whether to   *)
(* wait, to jump or to stop.  They share only the controller, one mutex     *)
(* acquisition per step here.  Sessions follow each other: the server       *)
(* accepts the next client when handle_client has returned.                 *)
(* Left out: speed (a sleep may end at any time), generation and the text   *)
(* of the messages.                                                         *)
EXTENDS Integers, Sequences, FiniteSetsExt

CONSTANTS
  Stamps,     \* recorded_timestamp_ns of the records, oldest first
  NoSeek      \* an empty std::optional

(* A recording: the records have times that do not go back. *)
Recorded ==
  /\ Stamps \in Seq(Nat) /\ Stamps # <<>>
  /\ \A i, j \in DOMAIN Stamps : i <= j => Stamps[i] <= Stamps[j]
  /\ NoSeek \notin Nat

ASSUME RecordingAssumption == Recorded

VARIABLES
  controller, \* the members of ReplayController
  connected,  \* the atomic flag of handle_client
  stream,     \* the WebSocket: "open"; "silent", the client is no longer there
              \* and nothing tells so; "gone", it has left and a read tells so;
              \* or "closed" by the server
  commands,   \* where the command thread is
  replay,     \* where the replay thread is
  current_record, market, \* its locals; the books, as the records applied
  target,     \* where the last position command wants the replay
  base,       \* where the replay thread last rebuilt the books
  outrun      \* that command is a restart behind a pending timestamp seek

session_vars == <<controller, connected, stream, commands, replay, current_record,
          market, target, base, outrun>>

Total == Len(Stamps)

(* find_record_for_timestamp: how many records are older than ns. *)
find_record_for_timestamp(ns) == Cardinality({i \in DOMAIN Stamps : Stamps[i] < ns})

-----------------------------------------------------------------------------
(* ReplayController. *)

Stopped(c) == c.status = "Stopped"

play(c) == IF Stopped(c) THEN c ELSE [c EXCEPT !.status = "Running"]

pause(c) ==
  IF c.status \in {"Stopped", "Complete"} THEN c ELSE [c EXCEPT !.status = "Paused"]

stop(c) == [c EXCEPT !.status = "Stopped"]

mark_complete(c) == IF Stopped(c) THEN c ELSE [c EXCEPT !.status = "Complete"]

(* A pending timestamp seek is not reset. *)
request_restart(c) ==
  IF Stopped(c) THEN c
  ELSE [c EXCEPT !.restart_requested = TRUE, !.seek_record = NoSeek,
                 !.current_record = 0, !.status = "Running"]

seek_record(c, index) ==
  IF Stopped(c) THEN c
  ELSE [c EXCEPT !.seek_record = index, !.seek_timestamp_ns = NoSeek,
                 !.restart_requested = FALSE, !.current_record = index]

seek_timestamp(c, ns) ==
  IF Stopped(c) THEN c
  ELSE [c EXCEPT !.seek_timestamp_ns = ns, !.seek_record = NoSeek,
                 !.restart_requested = FALSE]

update_progress(c, record) == [c EXCEPT !.current_record = record]

(* A position the replay thread has not taken over yet. *)
Pending(c) ==
  c.restart_requested \/ c.seek_record # NoSeek \/ c.seek_timestamp_ns # NoSeek

-----------------------------------------------------------------------------
(* A new session: handle_client up to its loop. *)
Started ==
  [status |-> "Running", restart_requested |-> FALSE, seek_record |-> NoSeek,
   seek_timestamp_ns |-> NoSeek, current_record |-> 0]

SessionInit ==
  /\ controller = Started
  /\ connected = TRUE /\ stream = "open"
  /\ commands = "loop" /\ replay = "loop"
  /\ current_record = 0 /\ market = <<>>
  /\ target = 0 /\ base = 0 /\ outrun = FALSE

locals == <<current_record, market, base>>
wishes == <<target, outrun>>

-----------------------------------------------------------------------------
(* The command thread. *)

(* A command that moves the position to index; later is whether another     *)
(* request will still be served after it.                                   *)
Wish(index, later) ==
  IF Stopped(controller) THEN UNCHANGED wishes
  ELSE target' = index /\ outrun' = later

ApplyCommand ==
  \/ /\ controller' \in {play(controller), pause(controller), stop(controller)}
     /\ UNCHANGED wishes
  \/ /\ controller' = request_restart(controller)
     /\ Wish(0, controller.seek_timestamp_ns # NoSeek)
  \/ \E index \in 0 .. Total + 1 :
       /\ controller' = seek_record(controller, index)
       /\ Wish(Min({index, Total}), FALSE)
  \/ \E ns \in 0 .. Stamps[Total] + 1 :
       /\ controller' = seek_timestamp(controller, ns)
       /\ Wish(find_record_for_timestamp(ns), FALSE)

(* while (connected.load()), for the first command and each next one. *)
CommandLoop ==
  /\ commands = "loop"
  /\ commands' = IF connected THEN "reading" ELSE "ended"
  /\ UNCHANGED <<controller, connected, stream, replay, locals, wishes>>

(* stream.read returns a command, parse_command accepts it, apply. *)
ReadCommand ==
  /\ commands = "reading" /\ stream = "open"
  /\ ApplyCommand
  /\ commands' = "loop"
  /\ UNCHANGED <<connected, stream, replay, locals>>

(* read, parse_command or set_speed throws: connected.store(false), then    *)
(* stop.                                                                    *)
ReadThrows ==
  /\ commands = "reading"
  /\ connected' = FALSE
  /\ commands' = "stopping"
  /\ UNCHANGED <<controller, stream, replay, locals, wishes>>

CommandThreadStops ==
  /\ commands = "stopping"
  /\ controller' = stop(controller)
  /\ commands' = "ended"
  /\ UNCHANGED <<connected, stream, replay, locals, wishes>>

(* The client leaves without a stop, or answers the server's close; or the  *)
(* system gives up on one that was silent.                                  *)
ClientLeaves ==
  /\ stream \in {"open", "silent"}
  /\ stream' = "gone"
  /\ UNCHANGED <<controller, connected, commands, replay, locals, wishes>>

(* The client vanishes, or stops reading, and no read or write is told. *)
ClientFallsSilent ==
  /\ stream = "open"
  /\ stream' = "silent"
  /\ UNCHANGED <<controller, connected, commands, replay, locals, wishes>>

-----------------------------------------------------------------------------
(* The replay thread. *)

rest == <<connected, stream, commands, wishes>>

Loop ==
  /\ replay = "loop"
  /\ replay' = IF connected /\ ~Stopped(controller) THEN "wait" ELSE "ending"
  /\ UNCHANGED <<controller, locals, rest>>

(* (Mutant: waits for Running instead of for the end of a pause.)           *)
WaitForRunning ==
  /\ replay = "wait"
  /\ controller.status \in {"Running", "Stopped"}
  /\ replay' = IF Stopped(controller) THEN "ending" ELSE "restart"
  /\ UNCHANGED <<controller, locals, rest>>

wait_until_runnable ==
  /\ replay = "wait"
  /\ controller.status # "Paused"
  /\ replay' = IF Stopped(controller) THEN "ending" ELSE "restart"
  /\ UNCHANGED <<controller, locals, rest>>

rebuild_to_record(target_record) ==
  /\ current_record' = target_record
  /\ market' = [i \in 1 .. target_record |-> i]
  /\ base' = target_record

ConsumeRestart ==
  /\ replay = "restart"
  /\ controller' = [controller EXCEPT !.restart_requested = FALSE]
  /\ \/ /\ controller.restart_requested
        /\ rebuild_to_record(0)
        /\ replay' = "restarted"
     \/ /\ ~controller.restart_requested
        /\ replay' = "seek"
        /\ UNCHANGED locals
  /\ UNCHANGED rest

ConsumeSeek ==
  /\ replay = "seek"
  /\ controller' = [controller EXCEPT !.seek_record = NoSeek]
  /\ \/ /\ controller.seek_record # NoSeek
        /\ rebuild_to_record(Min({controller.seek_record, Total}))
        /\ replay' = "sought"
     \/ /\ controller.seek_record = NoSeek
        /\ replay' = "timestamp"
        /\ UNCHANGED locals
  /\ UNCHANGED rest

(* (Mutant: clears whatever else is pending, which may have come since.)    *)
ConsumeTimestampAndAll ==
  /\ replay = "timestamp"
  /\ controller' = [controller EXCEPT !.seek_timestamp_ns = NoSeek,
                                      !.seek_record = NoSeek]
  /\ \/ /\ controller.seek_timestamp_ns # NoSeek
        /\ rebuild_to_record(find_record_for_timestamp(controller.seek_timestamp_ns))
        /\ replay' = "moved"
     \/ /\ controller.seek_timestamp_ns = NoSeek
        /\ replay' = "next"
        /\ UNCHANGED locals
  /\ UNCHANGED rest

ConsumeTimestamp ==
  /\ replay = "timestamp"
  /\ controller' = [controller EXCEPT !.seek_timestamp_ns = NoSeek]
  /\ \/ /\ controller.seek_timestamp_ns # NoSeek
        /\ rebuild_to_record(find_record_for_timestamp(controller.seek_timestamp_ns))
        /\ replay' = "moved"
     \/ /\ controller.seek_timestamp_ns = NoSeek
        /\ replay' = "next"
        /\ UNCHANGED locals
  /\ UNCHANGED rest

(* The calls of update_progress, and what follows each. *)
Progress ==
  LET next == [restarted |-> "seek", sought |-> "timestamp", moved |-> "next",
               applied |-> "send"]
  IN /\ replay \in DOMAIN next
     /\ controller' = update_progress(controller, current_record)
     /\ replay' = next[replay]
     /\ UNCHANGED <<locals, rest>>

(* The end of the recording: mark_complete, the message, pause. *)
Complete ==
  /\ replay = "next" /\ current_record >= Total
  /\ controller' = mark_complete(controller)
  /\ replay' = "report"
  /\ UNCHANGED <<locals, rest>>

PauseAtEnd ==
  /\ replay = "pause"
  /\ controller' = pause(controller)
  /\ replay' = "loop"
  /\ UNCHANGED <<locals, rest>>

(* sleep_interruptibly has ended, before_apply is taken, and the record is  *)
(* applied unless the client wants something else.                          *)
ApplyRecord ==
  /\ replay = "next" /\ current_record < Total
  /\ \/ /\ controller.status = "Paused" \/ Pending(controller)
        /\ replay' = "loop"
        /\ UNCHANGED locals
     \/ /\ controller.status # "Paused" /\ ~Pending(controller)
        /\ market' = Append(market, current_record + 1)
        /\ current_record' = current_record + 1
        /\ replay' = "applied"
        /\ UNCHANGED base
  /\ UNCHANGED <<controller, rest>>

(* snapshot and stream.write, which may throw once the client is gone and   *)
(* has no timeout: with a silent client it need not return.                 *)
Send ==
  /\ \/ replay = "report" /\ replay' = "pause"
     \/ replay = "send" /\ replay' = "loop"
     \/ replay \in {"report", "send"} /\ stream = "gone" /\ replay' = "ending"
  /\ UNCHANGED <<controller, locals, rest>>

(* connected.store(false) and stop, in the catch block or behind the loop. *)
EndSession ==
  /\ replay = "ending"
  /\ connected' = FALSE
  /\ controller' = stop(controller)
  /\ replay' = "closing"
  /\ UNCHANGED <<stream, commands, locals, wishes>>

(* stream.close sends a close frame and reads, beside the command thread,   *)
(* until the client has answered and left: the timeouts of the stream act   *)
(* on asynchronous operations only, and this one is not.                    *)
Close ==
  /\ replay = "closing" /\ stream = "gone"
  /\ stream' = "closed"
  /\ replay' = "joining"
  /\ UNCHANGED <<controller, connected, commands, locals, wishes>>

JoinCommands ==
  /\ replay = "joining" /\ commands = "ended"
  /\ replay' = "ended"
  /\ UNCHANGED <<controller, locals, rest>>

(* main accepts the next client. *)
NextClient ==
  /\ replay = "ended"
  /\ controller' = Started
  /\ connected' = TRUE /\ stream' = "open"
  /\ commands' = "loop" /\ replay' = "loop"
  /\ current_record' = 0 /\ market' = <<>>
  /\ target' = 0 /\ base' = 0 /\ outrun' = FALSE

-----------------------------------------------------------------------------
ReplayThread ==
  \/ Loop \/ wait_until_runnable \/ ConsumeRestart \/ ConsumeSeek
  \/ ConsumeTimestamp \/ Progress \/ Complete \/ PauseAtEnd \/ ApplyRecord
  \/ Send \/ EndSession \/ Close \/ JoinCommands

SessionNext ==
  \/ CommandLoop \/ ReadCommand \/ ReadThrows \/ CommandThreadStops
  \/ ClientLeaves \/ ClientFallsSilent
  \/ ReplayThread \/ NextClient

SessionSpec == SessionInit /\ [][SessionNext]_session_vars

(* Both threads are scheduled and sleeps end; a read returns nothing once   *)
(* the client has left, and throws.  A client that is there takes what is   *)
(* written and answers a close.  Nothing is owed of a silent one: the write *)
(* to it may stay blocked, the read from it too, and the close.             *)
FairSessionSpec ==
  /\ SessionSpec
  /\ WF_session_vars(ReplayThread /\ ~(replay \in {"report", "send"} /\ stream = "silent"))
  /\ WF_session_vars(CommandLoop \/ CommandThreadStops)
  /\ WF_session_vars(stream \in {"gone", "closed"} /\ ReadThrows)
  /\ WF_session_vars(replay = "closing" /\ stream = "open" /\ ClientLeaves)

-----------------------------------------------------------------------------
SessionTypeOK ==
  /\ controller.status \in {"Running", "Paused", "Complete", "Stopped"}
  /\ controller.current_record \in 0 .. Total + 1
  /\ connected \in BOOLEAN /\ outrun \in BOOLEAN
  /\ stream \in {"open", "silent", "gone", "closed"}
  /\ commands \in {"loop", "reading", "stopping", "ended"}
  /\ {current_record, target, base} \subseteq 0 .. Total

(* No position command is lost, however it falls between the replay         *)
(* thread's three looks at the controller: once nothing is pending, the     *)
(* replay runs on from where the last such command asked for, on exactly    *)
(* the records up to there, and the controller tells that position.  (The   *)
(* exception is a restart that finds a timestamp seek pending: both are     *)
(* served and the seek comes second.)                                       *)
PositionFollows ==
  /\ market = [i \in 1 .. current_record |-> i]
  /\ ~Pending(controller) =>
       /\ ~outrun => base = target
       /\ replay \notin {"restarted", "sought", "moved", "applied"} =>
            controller.current_record = current_record

(* Every request is served: a restart or a seek is taken over or replaced   *)
(* by a later command unless the replay is paused, at the end of the        *)
(* recording too; and a stop, an unreadable command or a client that leaves *)
(* ends the session, a paused one too, so that the server gets to its next  *)
(* client.  All this as long as the client does not fall silent: a session  *)
(* with a silent client may never end, and then no other client is served.  *)
RequestsServed ==
  LET Silent == stream = "silent"
      Held == controller.status \in {"Paused", "Stopped"} \/ Silent
  IN /\ controller.restart_requested ~> (~controller.restart_requested \/ Held)
     /\ controller.seek_record # NoSeek ~> (controller.seek_record = NoSeek \/ Held)
     /\ controller.seek_timestamp_ns # NoSeek
          ~> (controller.seek_timestamp_ns = NoSeek \/ Held)
     /\ (Stopped(controller) \/ ~connected \/ stream = "gone")
          ~> (replay = "ended" \/ Silent)

=============================================================================
