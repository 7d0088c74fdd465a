------------------------------- MODULE Pipeline ------------------------------
(***************************************************************************)
(* MatchingPipeline (src/src/pipeline.cpp) over SpscRing                   *)
(* (src/include/minimatch/spsc_ring.hpp): one client thread submits        *)
(* commands, starts and stops the pipeline; one worker thread pops them    *)
(* and applies them to the exchange.                                       *)
(*                                                                         *)
(* Every access to memory that the two threads share is a step of its own. *)
(* The acquire and release orders of the ring make what a thread wrote     *)
(* before publishing an index visible to the thread that reads the index,  *)
(* which is what interleaving these steps gives.  A command is the number  *)
(* of the submit call that made it.                                        *)
(***************************************************************************)
EXTENDS Integers, Sequences, SequencesExt

CONSTANTS
  Capacity,      \* slots of the ring; one of them always stays empty
  MaxSubmits,    \* bound on the submit calls of a behaviour
  Stop,          \* the command that ends the worker
  NoCommand      \* a slot nothing was written to

ASSUME PipelineAssumption ==
  /\ Capacity \in Nat /\ Capacity >= 2
  /\ MaxSubmits \in Nat
  /\ Stop \notin Nat /\ NoCommand \notin Nat /\ Stop # NoCommand

VARIABLES
  head, tail,        \* the atomic indexes: next to write, next to read
  data,              \* the slots
  running,           \* running_
  client,            \* where the client thread is
  worker,            \* where the worker thread is
  pushing,           \* the command the client is pushing
  popped,            \* the worker's local command
  submitted, dropped, processed, max_depth,
  accepted,          \* commands whose submit returned true
  executed           \* commands applied to the exchange

ringVars == <<head, tail, data>>
vars == <<head, tail, data, running, client, worker, pushing, popped,
          submitted, dropped, processed, max_depth, accepted, executed>>

Slot == 0 .. (Capacity - 1)
Increment(i) == (i + 1) % Capacity
ApproximateSize(h, t) == IF h >= t THEN h - t ELSE Capacity - (t - h)

Init ==
  /\ head = 0 /\ tail = 0
  /\ data = [s \in Slot |-> NoCommand]
  /\ running = FALSE
  /\ client = "idle" /\ worker = "none"
  /\ pushing = NoCommand /\ popped = NoCommand
  /\ submitted = 0 /\ dropped = 0 /\ processed = 0 /\ max_depth = 0
  /\ accepted = <<>> /\ executed = <<>>

-----------------------------------------------------------------------------
(* The client thread: start.  On a running pipeline it returns at once.     *)
Start ==
  /\ client = "idle" /\ ~running
  /\ running' = TRUE
  /\ worker' = "poll"
  /\ UNCHANGED <<ringVars, client, pushing, popped, submitted, dropped,
                 processed, max_depth, accepted, executed>>

(* submit counts the call before it tries to push.  It does not look at     *)
(* running_: a stopped pipeline still queues commands.                      *)
Submit ==
  /\ client = "idle" /\ submitted < MaxSubmits
  /\ submitted' = submitted + 1
  /\ pushing' = submitted + 1
  /\ client' = "push"
  /\ UNCHANGED <<ringVars, running, worker, popped, dropped, processed,
                 max_depth, accepted, executed>>

(* stop clears running_ before it pushes the Stop command.                  *)
BeginStop ==
  /\ client = "idle" /\ running
  /\ running' = FALSE
  /\ pushing' = Stop
  /\ client' = "push"
  /\ UNCHANGED <<ringVars, worker, popped, submitted, dropped, processed,
                 max_depth, accepted, executed>>

(* try_push reads the tail: with a full ring submit drops the command and   *)
(* stop yields and tries again.                                             *)
PushFull ==
  /\ client = "push" /\ Increment(head) = tail
  /\ pushing # Stop
  /\ dropped' = dropped + 1
  /\ pushing' = NoCommand
  /\ client' = "idle"
  /\ UNCHANGED <<ringVars, running, worker, popped, submitted, processed,
                 max_depth, accepted, executed>>

(* (Mutant: the ring is never found full.)                                  *)
PushUnchecked ==
  /\ client = "push"
  /\ client' = "write"
  /\ UNCHANGED <<ringVars, running, worker, pushing, popped, submitted, dropped,
                 processed, max_depth, accepted, executed>>

StopRetries ==
  /\ client = "push" /\ Increment(head) = tail
  /\ pushing = Stop
  /\ UNCHANGED vars

PushHasRoom ==
  /\ client = "push" /\ Increment(head) # tail
  /\ client' = "write"
  /\ UNCHANGED <<ringVars, running, worker, pushing, popped, submitted, dropped,
                 processed, max_depth, accepted, executed>>

PushWrite ==
  /\ client = "write"
  /\ data' = [data EXCEPT ![head] = pushing]
  /\ client' = "publish"
  /\ UNCHANGED <<head, tail, running, worker, pushing, popped, submitted,
                 dropped, processed, max_depth, accepted, executed>>

PushPublish ==
  /\ client = "publish"
  /\ head' = Increment(head)
  /\ pushing' = NoCommand
  /\ IF pushing = Stop
     THEN client' = "join" /\ UNCHANGED accepted
     ELSE client' = "measure" /\ accepted' = Append(accepted, pushing)
  /\ UNCHANGED <<tail, data, running, worker, popped, submitted, dropped,
                 processed, max_depth, executed>>

(* submit reads the queue depth again, after the worker may have popped.    *)
MeasureDepth ==
  /\ client = "measure"
  /\ max_depth' = LET depth == ApproximateSize(head, tail)
                  IN IF depth > max_depth THEN depth ELSE max_depth
  /\ client' = "idle"
  /\ UNCHANGED <<ringVars, running, worker, pushing, popped, submitted, dropped,
                 processed, accepted, executed>>

Join ==
  /\ client = "join" /\ worker = "done"
  /\ worker' = "none"
  /\ client' = "idle"
  /\ UNCHANGED <<ringVars, running, pushing, popped, submitted, dropped,
                 processed, max_depth, accepted, executed>>

-----------------------------------------------------------------------------
(* The worker thread: try_pop sees an empty ring and yields, or reads the   *)
(* slot and then gives it back.                                             *)
(* (Mutant: the ring is never found empty.)                                 *)
PopUnchecked ==
  /\ worker = "poll"
  /\ worker' = "read"
  /\ UNCHANGED <<ringVars, running, client, pushing, popped, submitted, dropped,
                 processed, max_depth, accepted, executed>>

PopEmpty == worker = "poll" /\ tail = head /\ UNCHANGED vars

PopHasCommand ==
  /\ worker = "poll" /\ tail # head
  /\ worker' = "read"
  /\ UNCHANGED <<ringVars, running, client, pushing, popped, submitted, dropped,
                 processed, max_depth, accepted, executed>>

PopRead ==
  /\ worker = "read"
  /\ popped' = data[tail]
  /\ worker' = "release"
  /\ UNCHANGED <<ringVars, running, client, pushing, submitted, dropped,
                 processed, max_depth, accepted, executed>>

PopRelease ==
  /\ worker = "release"
  /\ tail' = Increment(tail)
  /\ worker' = "execute"
  /\ UNCHANGED <<head, data, running, client, pushing, popped, submitted,
                 dropped, processed, max_depth, accepted, executed>>

Execute ==
  /\ worker = "execute" /\ popped # Stop
  /\ executed' = Append(executed, popped)
  /\ processed' = processed + 1
  /\ popped' = NoCommand
  /\ worker' = "poll"
  /\ UNCHANGED <<ringVars, running, client, pushing, submitted, dropped,
                 max_depth, accepted>>

(* (Mutants: the worker leaves as soon as running_ is cleared; it takes the *)
(* Stop command for an ordinary one.)                                       *)
ExitWhenStopping ==
  /\ worker = "execute" /\ ~running
  /\ popped' = NoCommand
  /\ worker' = "done"
  /\ UNCHANGED <<ringVars, running, client, pushing, submitted, dropped,
                 processed, max_depth, accepted, executed>>

StopIgnored ==
  /\ worker = "execute" /\ popped = Stop
  /\ popped' = NoCommand
  /\ worker' = "poll"
  /\ UNCHANGED <<ringVars, running, client, pushing, submitted, dropped,
                 processed, max_depth, accepted, executed>>

Exit ==
  /\ worker = "execute" /\ popped = Stop
  /\ popped' = NoCommand
  /\ worker' = "done"
  /\ UNCHANGED <<ringVars, running, client, pushing, submitted, dropped,
                 processed, max_depth, accepted, executed>>

-----------------------------------------------------------------------------
(* The client is inside a call: it goes on by itself.                       *)
ClientStep ==
  \/ PushFull \/ StopRetries \/ PushHasRoom \/ PushWrite \/ PushPublish
  \/ MeasureDepth \/ Join

WorkerStep == PopEmpty \/ PopHasCommand \/ PopRead \/ PopRelease \/ Execute \/ Exit

Next == Start \/ Submit \/ BeginStop \/ ClientStep \/ WorkerStep

Spec == Init /\ [][Next]_vars

(* Both threads are scheduled: a call once made runs on, and the worker     *)
(* polls for ever.  Nothing makes the client call submit, start or stop.    *)
FairSpec == Spec /\ WF_vars(ClientStep) /\ WF_vars(WorkerStep)

-----------------------------------------------------------------------------
Command == 1 .. MaxSubmits

(* The type of every variable of the pipeline.                              *)
TypeOK ==
  /\ head \in Slot /\ tail \in Slot
  /\ data \in [Slot -> Command \cup {Stop, NoCommand}]
  /\ running \in BOOLEAN
  /\ client \in {"idle", "push", "write", "publish", "measure", "join"}
  /\ worker \in {"none", "poll", "read", "release", "execute", "done"}
  /\ pushing \in Command \cup {Stop, NoCommand}
  /\ popped \in Command \cup {Stop, NoCommand}
  /\ submitted \in 0 .. MaxSubmits /\ dropped \in 0 .. MaxSubmits
  /\ processed \in Nat /\ max_depth \in Nat
  /\ accepted \in Seq(Command) /\ executed \in Seq(Command)

(* The two threads never access the same slot of the ring at once, so that  *)
(* the plain (non-atomic) copies of try_push and try_pop do not race.       *)
NoSlotRace == ~(client = "write" /\ worker = "read" /\ head = tail)

(* Commands reach the exchange once each and in the order their submit      *)
(* calls returned true, across full rings, wrap-around and restarts.        *)
ExecutedInOrder == IsPrefix(executed, accepted)

(* stop() drains: when it returns, every command accepted so far has been   *)
(* executed and the ring is empty, so that active_orders() and state_hash() *)
(* may be read without a race.                                              *)
StopDrains ==
  [][client = "join" /\ client' = "idle"
       => executed = accepted /\ head = tail]_vars

(* stop() returns, even when the ring is full of commands at the time.      *)
StopReturns == (client = "push" /\ pushing = Stop) ~> (client = "idle" /\ ~running)

(* A command accepted by a running pipeline is executed, also when stop()   *)
(* follows it.                                                              *)
AcceptedIsExecuted ==
  \A n \in Command :
    (running /\ Len(accepted) >= n) ~> (Len(executed) >= n)

=============================================================================
