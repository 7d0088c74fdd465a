-------------------------- MODULE SharedStateProofs --------------------------
(***************************************************************************)
(* Proofs about the objects that several threads of the program share:     *)
(*   - the ring between the threads of the matching pipeline (Pipeline):   *)
(*     no slot is raced for, commands are executed once and in order, and  *)
(*     stop drains the ring;                                               *)
(*   - the drop copy store (DropCopy): the cache, its index and what a     *)
(*     lookup returns, through evictions and restarts;                     *)
(*   - the replay controller (Replay): no position command is lost.        *)
(* The three specifications share no variable; each part is about its own. *)
(***************************************************************************)
EXTENDS Pipeline, DropCopy, Replay, SequenceLemmas, FiniteSetTheorems, TLAPS

-----------------------------------------------------------------------------
(* The inductive invariant.  It says which slots hold which commands, and  *)
(* that needs two things: how far the threads are, because a command can   *)
(* be in a slot, in the worker's hand, or in both; and where a Stop can    *)
(* be, because it takes a slot without being an accepted command.          *)

Depth == ApproximateSize(head, tail)

(* The i-th slot from index t on, in the order in which they are read.     *)
At(t, i) == IF t + i < Capacity THEN t + i ELSE t + i - Capacity

Pushing == client \in {"push", "write", "publish"}
Stopping == (Pushing /\ pushing = Stop) \/ client = "join"

(* The threads exclude each other where the code says so: the worker runs  *)
(* from start to the end of a stop, and is done only while stop waits.     *)
Threads ==
  /\ running => ~Stopping
  /\ worker = "none" <=> ~running /\ ~Stopping
  /\ worker = "done" => client = "join"
  /\ Pushing <=> pushing # NoCommand
  /\ worker \in {"release", "execute"} <=> popped # NoCommand
  /\ worker = "execute" /\ popped = Stop => client = "join"

(* A Stop sits in the ring from its publication until the worker has it.   *)
StopQueued ==
  client = "join" /\ worker # "done" /\ ~(worker = "execute" /\ popped = Stop)

(* Commands the ring holds, the one the worker has released excluded.      *)
Queued == Depth - (IF StopQueued THEN 1 ELSE 0)

InHand == IF worker = "execute" /\ popped # Stop THEN 1 ELSE 0

(* The accepted commands are those executed, the one in the worker's hand  *)
(* and those in the ring, in this order.                                   *)
Ring ==
  /\ Queued >= 0
  /\ worker \in {"read", "release"} => Depth >= 1
  /\ client \in {"write", "publish"} => Depth < Capacity - 1
  /\ client = "publish" => data[head] = pushing
  /\ worker = "release" => popped = data[tail]
  /\ worker = "execute" /\ popped # Stop => popped = accepted[Len(executed) + 1]
  /\ client = "join" /\ ~StopQueued => Depth = 0
  /\ StopQueued => data[At(tail, Depth - 1)] = Stop
  /\ Len(accepted) = Len(executed) + InHand + Queued
  /\ \A i \in 1 .. Len(executed) : executed[i] = accepted[i]
  /\ \A i \in 0 .. (Queued - 1) :
       data[At(tail, i)] = accepted[Len(executed) + InHand + i + 1]

(* A submit is counted before it ends in acceptance or as dropped.         *)
Counted == dropped + (IF Pushing /\ pushing # Stop THEN 1 ELSE 0) <= submitted

IInv == TypeOK /\ Threads /\ Ring /\ Counted

-----------------------------------------------------------------------------
(* The index arithmetic of the ring, without the modulus.                  *)
LEMMA IncrementIs ==
  ASSUME NEW i \in Slot
  PROVE  Increment(i) = (IF i + 1 = Capacity THEN 0 ELSE i + 1) /\ Increment(i) \in Slot
<1>1. CASE i + 1 = Capacity
  BY <1>1, PipelineAssumption DEF Slot, Increment
<1>2. CASE i + 1 # Capacity
  BY <1>2, PipelineAssumption DEF Slot, Increment
<1> QED  BY <1>1, <1>2

(* The head is the slot behind the last one in use, and the ring is full   *)
(* when one slot is left.                                                  *)
LEMMA RingFacts ==
  ASSUME TypeOK
  PROVE  /\ Depth \in 0 .. (Capacity - 1)
         /\ head = At(tail, Depth) /\ tail = At(tail, 0)
         /\ Depth = 0 <=> head = tail
         /\ Depth = Capacity - 1 <=> Increment(head) = tail
         /\ \A i \in 0 .. (Capacity - 1) : At(tail, i) \in Slot
         /\ \A i, j \in 0 .. (Capacity - 1) : At(tail, i) = At(tail, j) => i = j
  BY IncrementIs, PipelineAssumption DEF TypeOK, Depth, ApproximateSize, At, Slot

LEMMA TypeStep == IInv /\ [Next]_vars => TypeOK'
<1> SUFFICES ASSUME IInv, [Next]_vars  PROVE TypeOK'
  OBVIOUS
<1> USE PipelineAssumption DEF IInv, TypeOK, Threads, Counted, Command, Pushing, ringVars
<1>1. CASE Start
  BY <1>1 DEF Start
<1>2. CASE Submit
  BY <1>2 DEF Submit
<1>3. CASE BeginStop
  BY <1>3 DEF BeginStop
<1>4. CASE PushFull
  BY <1>4 DEF PushFull
<1>5. CASE PushHasRoom
  BY <1>5 DEF PushHasRoom
<1>6. CASE PushWrite
  BY <1>6 DEF PushWrite
<1>7. CASE PushPublish
  <2>1. head' \in Slot
    BY <1>7, IncrementIs DEF PushPublish
  <2>2. accepted' \in Seq(Command)
    <3>1. pushing \in Command \cup {Stop}
      BY <1>7 DEF PushPublish
    <3>2. pushing # Stop => pushing \in Command /\ accepted' = Append(accepted, pushing)
      BY <1>7, <3>1 DEF PushPublish
    <3>3. pushing = Stop => accepted' = accepted
      BY <1>7 DEF PushPublish
    <3>4. \A c \in Command : Append(accepted, c) \in Seq(Command)
      <4> HIDE DEF Command
      <4> QED  OBVIOUS
    <3> QED  BY <3>2, <3>3, <3>4
  <2> QED  BY <1>7, <2>1, <2>2 DEF PushPublish
<1>8. CASE MeasureDepth
  BY <1>8 DEF MeasureDepth, ApproximateSize, Slot
<1>9. CASE Join
  BY <1>9 DEF Join
<1>10. CASE PopHasCommand
  BY <1>10 DEF PopHasCommand
<1>11. CASE PopRead
  BY <1>11 DEF PopRead
<1>12. CASE PopRelease
  BY <1>12, IncrementIs DEF PopRelease
<1>13. CASE Execute
  BY <1>13 DEF Execute
<1>14. CASE Exit
  BY <1>14 DEF Exit
<1>15. CASE StopRetries \/ PopEmpty \/ UNCHANGED vars
  BY <1>15 DEF StopRetries, PopEmpty, vars
<1> QED
  BY <1>1, <1>2, <1>3, <1>4, <1>5, <1>6, <1>7, <1>8, <1>9, <1>10, <1>11, <1>12,
     <1>13, <1>14, <1>15 DEF Next, ClientStep, WorkerStep

(* What the worker finds at the tail of a ring that is not empty.          *)
LEMMA FrontSlot ==
  ASSUME IInv, Depth >= 1
  PROVE  IF Queued = 0
         THEN StopQueued /\ Depth = 1 /\ data[tail] = Stop
         ELSE /\ data[tail] = accepted[Len(executed) + InHand + 1]
              /\ data[tail] \in Command
<1>1. Depth \in Nat /\ tail = At(tail, 0)
  BY RingFacts DEF IInv
<1>2. CASE Queued = 0
  BY <1>1, <1>2 DEF IInv, Ring, Queued
<1>3. CASE Queued # 0
  <2>1. Queued \in Nat /\ 0 \in 0 .. (Queued - 1)
    BY <1>1, <1>3 DEF IInv, Ring, Queued
  <2>2. data[tail] = accepted[Len(executed) + InHand + 1]
    BY <2>1, <1>1 DEF IInv, Ring, TypeOK, InHand
  <2>3. Len(executed) + InHand + 1 \in 1 .. Len(accepted)
    BY <2>1, <1>3 DEF IInv, Ring, TypeOK, InHand
  <2> QED  BY <2>2, <2>3, <1>3 DEF IInv, TypeOK
<1> QED  BY <1>2, <1>3

LEMMA ThreadsStep == IInv /\ [Next]_vars => Threads' /\ Counted'
<1> SUFFICES ASSUME IInv, [Next]_vars  PROVE Threads' /\ Counted'
  OBVIOUS
<1> USE PipelineAssumption
    DEF IInv, TypeOK, Threads, Counted, Command, Pushing, Stopping, ringVars
<1>1. CASE Start
  BY <1>1 DEF Start
<1>2. CASE Submit
  BY <1>2 DEF Submit
<1>3. CASE BeginStop
  BY <1>3 DEF BeginStop
<1>4. CASE PushFull
  BY <1>4 DEF PushFull
<1>5. CASE PushHasRoom
  BY <1>5 DEF PushHasRoom
<1>6. CASE PushWrite
  BY <1>6 DEF PushWrite
<1>7. CASE PushPublish
  BY <1>7 DEF PushPublish
<1>8. CASE MeasureDepth
  BY <1>8 DEF MeasureDepth
<1>9. CASE Join
  BY <1>9 DEF Join
<1>10. CASE PopHasCommand
  BY <1>10 DEF PopHasCommand
<1>11. CASE PopRead
  <2>1. Depth >= 1
    BY <1>11 DEF PopRead, Ring
  <2>2. data[tail] # NoCommand
    BY <2>1, FrontSlot
  <2> QED  BY <2>2, <1>11 DEF PopRead
<1>12. CASE PopRelease
  <2>1. Depth >= 1 /\ popped = data[tail]
    BY <1>12 DEF PopRelease, Ring
  <2>2. popped = Stop => client = "join"
    BY <2>1, FrontSlot DEF StopQueued
  <2> QED  BY <2>2, <1>12 DEF PopRelease
<1>13. CASE Execute
  BY <1>13 DEF Execute
<1>14. CASE Exit
  BY <1>14 DEF Exit
<1>15. CASE StopRetries \/ PopEmpty \/ UNCHANGED vars
  BY <1>15 DEF StopRetries, PopEmpty, vars
<1> QED
  BY <1>1, <1>2, <1>3, <1>4, <1>5, <1>6, <1>7, <1>8, <1>9, <1>10, <1>11, <1>12,
     <1>13, <1>14, <1>15 DEF Next, ClientStep, WorkerStep

(* The content of the ring, action by action.  A push changes a slot that  *)
(* holds no command and then makes it the last one; a pop makes the second *)
(* slot the first one.                                                     *)
LEMMA RingStep == IInv /\ [Next]_vars => Ring'
<1> SUFFICES ASSUME IInv, [Next]_vars  PROVE Ring'
  OBVIOUS
<1>0. /\ Depth \in 0 .. (Capacity - 1) /\ Capacity \in Nat
      /\ Len(accepted) \in Nat /\ Len(executed) \in Nat
      /\ Queued \in Nat /\ InHand \in {0, 1}
  BY RingFacts, PipelineAssumption DEF IInv, TypeOK, Ring, Queued, InHand
<1>1. CASE Start
  <2>1. worker = "none" /\ client = "idle"
    BY <1>1 DEF Start, IInv, Threads, Stopping, Pushing
  <2>2. /\ InHand = 0 /\ InHand' = 0 /\ ~StopQueued /\ ~StopQueued'
        /\ Depth' = Depth /\ tail' = tail
    BY <1>1, <2>1 DEF Start, ringVars, InHand, StopQueued, Depth, At
  <2> QED
    BY <1>0, <1>1, <2>1, <2>2 DEF Start, ringVars, IInv, Ring, Queued
<1>2. CASE Submit
  BY <1>0, <1>2 DEF Submit, IInv, Ring, Threads, ringVars, Queued, StopQueued, Depth, At,
     InHand
<1>3. CASE BeginStop
  BY <1>0, <1>3 DEF BeginStop, IInv, Ring, Threads, ringVars, Queued, StopQueued, Depth, At,
     InHand
<1>4. CASE PushFull
  BY <1>0, <1>4 DEF PushFull, IInv, Ring, Threads, ringVars, Queued, StopQueued, Depth, At,
     InHand
<1>5. CASE PushHasRoom
  <2>1. Depth < Capacity - 1
    BY <1>0, <1>5, RingFacts DEF PushHasRoom, IInv
  <2> QED
    BY <1>0, <1>5, <2>1 DEF PushHasRoom, IInv, Ring, ringVars, Queued, StopQueued, Depth,
       At, InHand
<1>6. CASE PushWrite
  <2> /\ Depth' = Depth /\ InHand' = InHand
      /\ tail' = tail
    BY <1>6 DEF PushWrite, Depth, InHand, At
  <2> ~StopQueued /\ ~StopQueued'
    BY <1>6 DEF PushWrite, StopQueued
  <2>1. Queued = Depth /\ Queued' = Depth' /\ Depth < Capacity - 1
    BY <1>0, <1>6 DEF PushWrite, IInv, Ring, Queued
  <2>2. data'[head] = pushing
    BY <1>6 DEF PushWrite, IInv, TypeOK
  <2>3. \A i \in 0 .. (Depth - 1) : At(tail, i) # head /\ At(tail, i) \in Slot
    BY <1>0, <2>1, RingFacts DEF IInv
  <2>4. \A i \in 0 .. (Depth - 1) : data'[At(tail, i)] = data[At(tail, i)]
    BY <1>6, <2>3 DEF PushWrite, IInv, TypeOK
  <2>5. worker \in {"read", "release"} => data'[tail] = data[tail]
    BY <1>0, <2>4, RingFacts DEF IInv, Ring
  <2> QED
    BY <1>0, <1>6, <2>1, <2>2, <2>4, <2>5 DEF PushWrite, IInv, Ring
<1>7. CASE PushPublish
  <2>1. /\ ~StopQueued /\ Queued = Depth /\ Depth < Capacity - 1
        /\ data[head] = pushing /\ head = At(tail, Depth)
    BY <1>7, RingFacts DEF PushPublish, IInv, Ring, Queued, StopQueued
  <2>2. Depth' = Depth + 1
    <3>1. head' = IF head + 1 = Capacity THEN 0 ELSE head + 1
      BY <1>7, IncrementIs DEF PushPublish, IInv, TypeOK
    <3> QED
      BY <1>0, <1>7, <2>1, <3>1 DEF PushPublish, IInv, TypeOK, Depth, ApproximateSize, Slot
  <2> InHand' = InHand /\ tail' = tail
    BY <1>7 DEF PushPublish, InHand, At
  <2>3. CASE pushing = Stop
    <3>1. worker # "done" /\ ~(worker = "execute" /\ popped = Stop)
      BY <1>7 DEF PushPublish, IInv, Threads
    <3>2. StopQueued' /\ Queued' = Depth /\ accepted' = accepted
      BY <1>0, <1>7, <2>2, <2>3, <3>1 DEF PushPublish, StopQueued, Queued
    <3> QED
      BY <1>0, <1>7, <2>1, <2>2, <3>2 DEF PushPublish, IInv, Ring
  <2>4. CASE pushing # Stop
    <3>1. /\ ~StopQueued' /\ Queued' = Depth + 1
          /\ accepted' = Append(accepted, pushing)
      BY <1>7, <2>2, <2>4 DEF PushPublish, StopQueued, Queued
    <3>2. /\ Len(accepted') = Len(accepted) + 1
          /\ accepted'[Len(accepted) + 1] = pushing
          /\ \A i \in 1 .. Len(accepted) : accepted'[i] = accepted[i]
      BY <3>1 DEF IInv, TypeOK
    <3>3. Len(accepted) = Len(executed) + InHand + Depth
      BY <2>1 DEF IInv, Ring
    <3>4. ASSUME NEW i \in 0 .. Depth
          PROVE  data[At(tail, i)] = accepted'[Len(executed) + InHand + i + 1]
      <4>1. CASE i = Depth
        BY <4>1, <3>2, <3>3, <2>1
      <4>2. CASE i < Depth
        <5>1. Len(executed) + InHand + i + 1 \in 1 .. Len(accepted)
          BY <4>2, <3>3, <1>0
        <5>2. data[At(tail, i)] = accepted[Len(executed) + InHand + i + 1]
          BY <4>2, <1>0, <2>1 DEF IInv, Ring
        <5> QED  BY <5>1, <5>2, <3>2
      <4> QED  BY <4>1, <4>2, <1>0
    <3>5. \A i \in 1 .. Len(executed) : executed[i] = accepted'[i]
      BY <1>0, <3>2, <3>3 DEF IInv, Ring
    <3>6. worker = "execute" /\ popped # Stop => popped = accepted'[Len(executed) + 1]
      BY <1>0, <3>2, <3>3 DEF IInv, Ring, InHand
    <3>7. /\ client' = "measure" /\ data' = data /\ executed' = executed
          /\ worker' = worker /\ popped' = popped /\ tail' = tail
      BY <1>7, <2>4 DEF PushPublish
    <3>8. \A i \in 0 .. (Queued' - 1) :
            data'[At(tail', i)] = accepted'[Len(executed') + InHand' + i + 1]
      <4>1. Queued' - 1 = Depth
        BY <1>0, <3>1
      <4>2. InHand' = InHand /\ tail' = tail
        OBVIOUS
      <4>3. data' = data /\ Len(executed') = Len(executed)
        BY <3>7
      <4>4. \A i \in 0 .. Depth : data[At(tail, i)] = accepted'[Len(executed) + InHand + i + 1]
        BY <3>4
      <4> QED  BY <4>1, <4>2, <4>3, <4>4
    <3>9. /\ worker \in {"read", "release"} => Depth' >= 1
          /\ worker = "release" => popped = data[tail]
      BY <1>0, <2>2 DEF IInv, Ring
    <3>10. Len(accepted') = Len(executed') + InHand' + Queued'
      BY <1>0, <3>1, <3>2, <3>3, <3>7
    <3>11. \A i \in 1 .. Len(executed') : executed'[i] = accepted'[i]
      BY <3>5, <3>7
    <3>12. (worker = "execute" /\ popped # Stop => popped = accepted[Len(executed) + 1])'
      BY <3>6, <3>7
    <3>13. ~StopQueued' /\ Queued' >= 0
      BY <1>0, <3>1
    <3>14. (worker \in {"read", "release"} => Depth >= 1)'
           /\ (worker = "release" => popped = data[tail])'
      BY <3>7, <3>9
    <3> QED
      BY <3>7, <3>8, <3>10, <3>11, <3>12, <3>13, <3>14 DEF Ring
  <2> QED  BY <2>3, <2>4
<1>8. CASE MeasureDepth
  BY <1>0, <1>8 DEF MeasureDepth, IInv, Ring, ringVars, Queued, StopQueued, Depth, At,
     InHand
<1>9. CASE Join
  BY <1>0, <1>9 DEF Join, IInv, Ring, ringVars, Queued, StopQueued, Depth, At, InHand
<1>10. CASE PopHasCommand
  <2>1. Depth >= 1
    BY <1>0, <1>10, RingFacts DEF PopHasCommand, IInv
  <2> QED
    BY <1>0, <1>10, <2>1 DEF PopHasCommand, IInv, Ring, ringVars, Queued, StopQueued,
       Depth, At, InHand
<1>11. CASE PopRead
  BY <1>0, <1>11 DEF PopRead, IInv, Ring, ringVars, Queued, StopQueued, Depth, At, InHand
<1>12. CASE PopRelease
  <2>1. /\ Depth >= 1 /\ popped = data[tail] /\ InHand = 0
        /\ client = "join" <=> StopQueued
    BY <1>12 DEF PopRelease, IInv, Ring, InHand, StopQueued
  <2>2. Depth' = Depth - 1 /\ \A i \in 0 .. (Depth - 2) : At(tail', i) = At(tail, i + 1)
    <3>1. tail' = (IF tail + 1 = Capacity THEN 0 ELSE tail + 1) /\ head' = head
      BY <1>12, IncrementIs DEF PopRelease, IInv, TypeOK
    <3>2. head \in Slot /\ tail \in Slot
      BY DEF IInv, TypeOK
    <3>3. Depth' = Depth - 1
      BY <1>0, <2>1, <3>1, <3>2 DEF Depth, ApproximateSize, Slot
    <3>4. \A i \in 0 .. (Depth - 2) : At(tail', i) = At(tail, i + 1)
      BY <1>0, <3>1, <3>2 DEF At, Slot
    <3> QED  BY <3>3, <3>4
  <2>3. CASE Queued = 0
    <3>1. StopQueued /\ Depth = 1 /\ popped = Stop
      BY <2>1, <2>3, FrontSlot
    <3>2. ~StopQueued' /\ Queued' = 0 /\ InHand' = 0
      BY <1>12, <2>2, <3>1 DEF PopRelease, StopQueued, Queued, InHand
    <3> QED
      BY <1>0, <1>12, <2>1, <2>2, <2>3, <3>1, <3>2 DEF PopRelease, IInv, Ring, StopQueued
  <2>4. CASE Queued # 0
    <3>1. popped \in Command /\ popped = accepted[Len(executed) + 1] /\ popped # Stop
      BY <1>0, <2>1, <2>4, FrontSlot, PipelineAssumption DEF Command
    <3>2. /\ StopQueued' <=> StopQueued
          /\ Queued' = Queued - 1 /\ InHand' = 1
      BY <1>0, <1>12, <2>1, <2>2, <3>1 DEF PopRelease, StopQueued, Queued, InHand
    <3>3. ASSUME NEW i \in 0 .. (Queued - 2)
          PROVE  data[At(tail', i)] = accepted[Len(executed) + 1 + i + 1]
      <4>1. i \in 0 .. (Depth - 2) /\ i + 1 \in 0 .. (Queued - 1)
        BY <1>0, <3>3 DEF Queued
      <4>2. data[At(tail, i + 1)] = accepted[Len(executed) + InHand + (i + 1) + 1]
        BY <4>1 DEF IInv, Ring
      <4>3. At(tail', i) = At(tail, i + 1)
        BY <2>2, <4>1
      <4>4. Len(executed) + InHand + (i + 1) + 1 = Len(executed) + 1 + i + 1
        BY <1>0, <2>1
      <4> QED  BY <4>2, <4>3, <4>4
    <3>4. StopQueued => data'[At(tail', Depth' - 1)] = Stop
      <4> SUFFICES ASSUME StopQueued  PROVE data'[At(tail', Depth' - 1)] = Stop
        OBVIOUS
      <4>1. Depth' - 1 \in 0 .. (Depth - 2) /\ Depth' - 1 + 1 = Depth - 1
        BY <1>0, <2>2, <2>4 DEF Queued
      <4>2. At(tail', Depth' - 1) = At(tail, Depth - 1)
        BY <2>2, <4>1
      <4>3. data[At(tail, Depth - 1)] = Stop /\ data' = data
        BY <1>12 DEF IInv, Ring, PopRelease
      <4> QED  BY <4>2, <4>3
    <3>5. /\ worker = "release" /\ worker' = "execute" /\ data' = data /\ head' = head
          /\ client' = client /\ pushing' = pushing /\ popped' = popped
          /\ accepted' = accepted /\ executed' = executed
      BY <1>12 DEF PopRelease
    <3>6. /\ client \in {"write", "publish"} => Depth < Capacity - 1
          /\ client = "publish" => data[head] = pushing
          /\ Len(accepted) = Len(executed) + Queued
          /\ \A i \in 1 .. Len(executed) : executed[i] = accepted[i]
          /\ Queued >= 0
      BY <1>0, <2>1, <3>5 DEF IInv, Ring
    <3>7. Queued' >= 0 /\ Len(accepted') = Len(executed') + InHand' + Queued'
      BY <1>0, <2>4, <3>2, <3>5, <3>6
    <3>8. \A i \in 0 .. (Queued' - 1) :
            data'[At(tail', i)] = accepted'[Len(executed') + InHand' + i + 1]
      BY <1>0, <3>2, <3>3, <3>5
    <3>9. client' \in {"write", "publish"} => Depth' < Capacity - 1
      BY <1>0, <2>2, <3>5, <3>6, PipelineAssumption
    <3>10. client' = "join" => StopQueued'
      BY <2>1, <3>2, <3>5
    <3> QED
      BY <3>1, <3>2, <3>4, <3>5, <3>6, <3>7, <3>8, <3>9, <3>10 DEF Ring
  <2> QED  BY <2>3, <2>4
<1>13. CASE Execute
  <2>1. /\ InHand = 1 /\ InHand' = 0 /\ Queued' = Queued /\ Depth' = Depth
        /\ StopQueued' <=> StopQueued
        /\ tail' = tail
    BY <1>13 DEF Execute, ringVars, InHand, Queued, Depth, StopQueued, At
  <2>2. /\ Len(executed') = Len(executed) + 1
        /\ executed'[Len(executed) + 1] = popped
        /\ \A i \in 1 .. Len(executed) : executed'[i] = executed[i]
    BY <1>13 DEF Execute, IInv, TypeOK, Threads
  <2>3. popped = accepted[Len(executed) + 1]
    BY <1>13 DEF Execute, IInv, Ring
  <2> QED
    BY <1>0, <1>13, <2>1, <2>2, <2>3 DEF Execute, ringVars, IInv, Ring
<1>14. CASE Exit
  <2>1. client = "join" /\ ~StopQueued /\ Depth = 0
    BY <1>14 DEF Exit, IInv, Threads, Ring, StopQueued
  <2> QED
    BY <1>0, <1>14, <2>1 DEF Exit, IInv, Ring, ringVars, Queued, StopQueued, Depth, At,
       InHand
<1>15. CASE StopRetries \/ PopEmpty \/ UNCHANGED vars
  BY <1>0, <1>15 DEF StopRetries, PopEmpty, vars, IInv, Ring, Queued, StopQueued, Depth,
     At, InHand
<1> QED
  BY <1>1, <1>2, <1>3, <1>4, <1>5, <1>6, <1>7, <1>8, <1>9, <1>10, <1>11, <1>12,
     <1>13, <1>14, <1>15 DEF Next, ClientStep, WorkerStep

-----------------------------------------------------------------------------
LEMMA InitIInv == Init => IInv
<1> SUFFICES ASSUME Init  PROVE IInv
  OBVIOUS
<1>1. TypeOK
  <2>1. 0 \in Slot
    BY PipelineAssumption DEF Slot
  <2>2. data \in [Slot -> Command \cup {Stop, NoCommand}]
    BY DEF Init
  <2> QED  BY <2>1, <2>2, PipelineAssumption DEF Init, TypeOK
<1>2. Threads /\ Counted
  BY DEF Init, Threads, Counted, Stopping, Pushing
<1>3. Depth = 0 /\ ~StopQueued /\ Queued = 0 /\ InHand = 0
  BY DEF Init, Depth, ApproximateSize, StopQueued, Queued, InHand
<1>4. Ring
  BY <1>3 DEF Init, Ring
<1> QED  BY <1>1, <1>2, <1>4 DEF IInv

LEMMA Invariance == Spec => []IInv
<1>1. IInv /\ [Next]_vars => IInv'
  BY TypeStep, ThreadsStep, RingStep DEF IInv
<1> QED  BY <1>1, InitIInv, PTL DEF Spec

(* Indexes stay in the ring, counters in their ranges and slots hold       *)
(* commands, whatever the threads do (SpscRing, MatchingPipeline).         *)
THEOREM TypeCorrect == Spec => []TypeOK
  BY Invariance, PTL DEF IInv

(* try_push and try_pop never copy the same slot at the same time: a slot  *)
(* being written is free, a slot being read is in use, and the indexes     *)
(* each thread reads tell them apart.                                      *)
THEOREM SlotsNotRaced == Spec => []NoSlotRace
<1>1. IInv => NoSlotRace
  <2> SUFFICES ASSUME IInv, worker = "read", head = tail  PROVE FALSE
    BY DEF NoSlotRace
  <2> QED  BY RingFacts DEF IInv, Ring
<1> QED  BY <1>1, Invariance, PTL

(* The exchange sees the accepted commands once each and in order, through *)
(* full rings, wrap-around, stops and restarts (worker_loop).              *)
THEOREM OrderKept == Spec => []ExecutedInOrder
<1>1. IInv => ExecutedInOrder
  <2> SUFFICES ASSUME IInv  PROVE ExecutedInOrder
    OBVIOUS
  <2>1. Depth \in Nat
    BY RingFacts DEF IInv
  <2>2. Len(executed) \in 0 .. Len(accepted)
    BY <2>1 DEF IInv, Ring, TypeOK, Queued, InHand
  <2>3. executed = SubSeq(accepted, 1, Len(executed))
    BY <2>2 DEF IInv, Ring, TypeOK
  <2> QED  BY <2>2, <2>3 DEF ExecutedInOrder, IsPrefix, IInv, TypeOK
<1> QED  BY <1>1, Invariance, PTL

(* When stop returns, the ring is empty and all that was accepted has been *)
(* executed: the Stop command is the last in the ring, and the worker ends *)
(* when it has come to it.                                                 *)
THEOREM StopHasDrained == Spec => StopDrains
<1>1. IInv /\ [Next]_vars =>
        [client = "join" /\ client' = "idle" => executed = accepted /\ head = tail]_vars
  <2> SUFFICES ASSUME IInv, Next, client = "join", client' = "idle"
               PROVE  executed = accepted /\ head = tail
    OBVIOUS
  <2>1. Join
    BY DEF Next, Start, Submit, BeginStop, ClientStep, PushFull, StopRetries, PushHasRoom,
           PushWrite, PushPublish, MeasureDepth, WorkerStep, PopEmpty, PopHasCommand,
           PopRead, PopRelease, Execute, Exit, vars
  <2>2. ~StopQueued /\ Depth = 0 /\ Queued = 0 /\ InHand = 0
    BY <2>1 DEF Join, IInv, Ring, StopQueued, Queued, InHand
  <2>3. head = tail
    BY <2>2, RingFacts DEF IInv
  <2>4. Len(accepted) = Len(executed)
    BY <2>2 DEF IInv, Ring, TypeOK
  <2>5. executed = accepted
    BY <2>4 DEF IInv, Ring, TypeOK
  <2> QED  BY <2>3, <2>5
<1> QED  BY <1>1, Invariance, PTL DEF Spec, StopDrains

-----------------------------------------------------------------------------
(* The drop copy store: the loop that copies the rows of an order.         *)

(* The value of the loop after n rows, from the one before.                *)
CopyStep(f, rows, wanted, n) ==
  IF n = 0 THEN <<>>
  ELSE IF rows[n] \in wanted THEN Append(f[n - 1], rows[n])
  ELSE f[n - 1]

Loops(f, rows, wanted, m) == \A n \in 0 .. m : f[n] = CopyStep(f, rows, wanted, n)
CopiesTo(f, S, rows, wanted, m) ==
  f \in [0 .. m -> Seq(S)] /\ Loops(f, rows, wanted, m)
SameTo(rows, others, m) == \A n \in 1 .. m : rows[n] = others[n]

LEMMA CopyExists ==
  ASSUME NEW S, NEW rows \in Seq(S), NEW wanted
  PROVE  \E f : CopiesTo(f, S, rows, wanted, Len(rows))
<1> DEFINE T == {m \in Nat : m <= Len(rows) => \E f : CopiesTo(f, S, rows, wanted, m)}
<1>1. 0 \in T
  <2> DEFINE f == [n \in 0 .. 0 |-> <<>>]
  <2>1. CopiesTo(f, S, rows, wanted, 0)
    BY DEF CopiesTo, Loops, CopyStep
  <2> QED  BY <2>1
<1>2. ASSUME NEW m \in Nat, m \in T PROVE m + 1 \in T
  <2> SUFFICES ASSUME m + 1 <= Len(rows)
               PROVE  \E f : CopiesTo(f, S, rows, wanted, m + 1)
    OBVIOUS
  <2>1. PICK g : CopiesTo(g, S, rows, wanted, m)
    BY <1>2
  <2>2. rows[m + 1] \in S /\ g[m] \in Seq(S)
    BY <2>1 DEF CopiesTo, Loops
  <2> DEFINE top == IF rows[m + 1] \in wanted THEN Append(g[m], rows[m + 1]) ELSE g[m]
             f == [n \in 0 .. m + 1 |-> IF n <= m THEN g[n] ELSE top]
  <2>3. top \in Seq(S)
    BY <2>2
  <2>4. f \in [0 .. m + 1 -> Seq(S)]
    BY <2>1, <2>3 DEF CopiesTo, Loops
  <2>5. ASSUME NEW n \in 0 .. m + 1 PROVE f[n] = CopyStep(f, rows, wanted, n)
    <3>1. CASE n <= m
      <4>1. n \in 0 .. m /\ f[n] = g[n] /\ (n # 0 => f[n - 1] = g[n - 1])
        BY <3>1
      <4>2. g[n] = CopyStep(g, rows, wanted, n)
        BY <2>1, <4>1 DEF CopiesTo, Loops
      <4> QED  BY <4>1, <4>2 DEF CopyStep
    <3>2. CASE n = m + 1
      <4>1. n # 0 /\ f[n] = top /\ f[n - 1] = g[m]
        BY <3>2
      <4> HIDE DEF f
      <4> QED  BY <3>2, <4>1 DEF CopyStep
    <3> QED  BY <3>1, <3>2
  <2>6. CopiesTo(f, S, rows, wanted, m + 1)
    BY <2>4, <2>5 DEF CopiesTo, Loops
  <2> QED  BY <2>6
<1>3. \A m \in Nat : m \in T
  <2> HIDE DEF T
  <2> QED  BY <1>1, <1>2, SetInduction
<1> QED  BY <1>3

(* Two loops over rows that begin alike do alike.                          *)
LEMMA CopyAgrees ==
  ASSUME NEW rows, NEW others, NEW wanted, NEW f, NEW g, NEW m \in Nat,
         SameTo(rows, others, m), Loops(f, rows, wanted, m), Loops(g, others, wanted, m)
  PROVE  \A n \in 0 .. m : f[n] = g[n]
<1> DEFINE T == {n \in Nat : n <= m => f[n] = g[n]}
<1>1. 0 \in T
  BY DEF Loops, CopyStep
<1>2. ASSUME NEW n \in Nat, n \in T PROVE n + 1 \in T
  <2> SUFFICES ASSUME n + 1 <= m PROVE f[n + 1] = g[n + 1]
    OBVIOUS
  <2>1. n + 1 \in 1 .. m /\ n + 1 \in 0 .. m /\ n + 1 # 0 /\ (n + 1) - 1 = n /\ f[n] = g[n]
    BY <1>2
  <2>2. f[n + 1] = CopyStep(f, rows, wanted, n + 1) /\ g[n + 1] = CopyStep(g, others, wanted, n + 1)
    BY <2>1 DEF Loops
  <2> QED  BY <2>1, <2>2 DEF CopyStep, SameTo
<1>3. \A n \in Nat : n \in T
  <2> HIDE DEF T
  <2> QED  BY <1>1, <1>2, SetInduction
<1> QED  BY <1>3

LEMMA AmongIs ==
  ASSUME NEW S, NEW rows \in Seq(S), NEW wanted, NEW f, CopiesTo(f, S, rows, wanted, Len(rows))
  PROVE  Among(rows, wanted) = f[Len(rows)]
<1> DEFINE Is(g) == g = [n \in 0 .. Len(rows) |->
                           IF n = 0 THEN <<>>
                           ELSE IF rows[n] \in wanted THEN Append(g[n - 1], rows[n])
                           ELSE g[n - 1]]
           g == CHOOSE g : Is(g)
<1>1. Is(f)
  BY DEF CopiesTo, Loops, CopyStep
<1>2. Is(g)
  BY <1>1
<1>3. Among(rows, wanted) = g[Len(rows)]
  BY DEF Among
<1> HIDE DEF g
<1>4. Loops(g, rows, wanted, Len(rows)) /\ SameTo(rows, rows, Len(rows))
  BY <1>2 DEF CopyStep, Loops, SameTo
<1>5. Len(rows) \in Nat
  OBVIOUS
<1>6. Loops(f, rows, wanted, Len(rows))
  BY DEF CopiesTo
<1>7. \A n \in 0 .. Len(rows) : f[n] = g[n]
  BY <1>4, <1>5, <1>6, CopyAgrees
<1> QED  BY <1>3, <1>5, <1>7

LEMMA AmongEmpty ==
  ASSUME NEW wanted
  PROVE  Among(<<>>, wanted) = <<>>
<1>1. <<>> \in Seq({}) /\ Len(<<>>) = 0
  OBVIOUS
<1>2. PICK f : CopiesTo(f, {}, <<>>, wanted, Len(<<>>))
  BY <1>1, CopyExists
<1>3. f[0] = <<>>
  BY <1>1, <1>2 DEF CopiesTo, Loops, CopyStep
<1> QED  BY <1>1, <1>2, <1>3, AmongIs

(* The copy with one more row.                                             *)
Copied(new, old, e, wanted) == new = IF e \in wanted THEN Append(old, e) ELSE old

LEMMA AmongAppend ==
  ASSUME NEW S, NEW s \in Seq(S), NEW e \in S, NEW wanted, NEW t, t = Append(s, e)
  PROVE  /\ Among(s, wanted) \in Seq(S)
         /\ Copied(Among(t, wanted), Among(s, wanted), e, wanted)
<1> DEFINE m == Len(s)
<1>1. /\ t \in Seq(S) /\ m \in Nat /\ Len(t) = m + 1 /\ t[m + 1] = e
      /\ \A n \in 1 .. m : t[n] = s[n]
  OBVIOUS
<1>2. PICK f : CopiesTo(f, S, s, wanted, m)
  BY CopyExists
<1>3. PICK g : CopiesTo(g, S, t, wanted, Len(t))
  BY <1>1, CopyExists
<1>4. Among(s, wanted) = f[m] /\ f[m] \in Seq(S)
  <2>1. Among(s, wanted) = f[m]
    BY <1>2, AmongIs
  <2>2. f \in [0 .. m -> Seq(S)] /\ m \in 0 .. m
    BY <1>1, <1>2 DEF CopiesTo
  <2> QED  BY <2>1, <2>2
<1>5. Among(t, wanted) = g[m + 1]
  BY <1>1, <1>3, AmongIs
<1>6. \A n \in 0 .. m : g[n] = f[n]
  <2>1. Loops(g, t, wanted, m) /\ SameTo(t, s, m)
    BY <1>1, <1>3 DEF CopiesTo, Loops, SameTo
  <2>2. Loops(f, s, wanted, m)
    BY <1>2 DEF CopiesTo
  <2> HIDE DEF m
  <2> QED  BY <1>1, <2>1, <2>2, CopyAgrees
<1>7. g[m + 1] = CopyStep(g, t, wanted, m + 1)
  BY <1>1, <1>3 DEF CopiesTo, Loops
<1>8. g[m + 1] = IF e \in wanted THEN Append(f[m], e) ELSE f[m]
  <2>1. m + 1 # 0 /\ (m + 1) - 1 = m /\ g[m] = f[m]
    BY <1>1, <1>6
  <2> QED  BY <1>1, <1>7, <2>1 DEF CopyStep
<1> QED  BY <1>4, <1>5, <1>8 DEF Copied

-----------------------------------------------------------------------------
(* What the copy of a sequence holds, by induction over its length.        *)

LEMMA FrontAndLast ==
  ASSUME NEW S, NEW n \in Nat, NEW s \in Seq(S), Len(s) = n + 1
  PROVE  \E t \in Seq(S) : \E e \in S : s = Append(t, e) /\ Len(t) = n
<1> DEFINE t == SubSeq(s, 1, n)
<1>1. t \in Seq(S) /\ Len(t) = n /\ \A i \in 1 .. n : t[i] = s[i]
  OBVIOUS
<1>2. s[n + 1] \in S
  OBVIOUS
<1> HIDE DEF t
<1>3. /\ Append(t, s[n + 1]) \in Seq(S) /\ Len(Append(t, s[n + 1])) = n + 1
      /\ \A i \in 1 .. n : Append(t, s[n + 1])[i] = t[i]
      /\ Append(t, s[n + 1])[n + 1] = s[n + 1]
  BY <1>1, <1>2, AppendFacts
<1>4. \A i \in 1 .. n + 1 : Append(t, s[n + 1])[i] = s[i]
  BY <1>1, <1>3
<1>5. s = Append(t, s[n + 1])
  BY <1>3, <1>4
<1> QED  BY <1>1, <1>2, <1>5

(* Nothing is copied exactly if nothing is wanted; all if all is.          *)
LEMMA AmongExtremes ==
  ASSUME NEW S, NEW wanted, NEW s \in Seq(S)
  PROVE  /\ Among(s, wanted) \in Seq(S)
         /\ Among(s, wanted) = <<>> <=> \A i \in 1 .. Len(s) : s[i] \notin wanted
         /\ (\A i \in 1 .. Len(s) : s[i] \in wanted) => Among(s, wanted) = s
<1> DEFINE P(q) == /\ Among(q, wanted) \in Seq(S)
                   /\ Among(q, wanted) = <<>> <=> \A i \in 1 .. Len(q) : q[i] \notin wanted
                   /\ (\A i \in 1 .. Len(q) : q[i] \in wanted) => Among(q, wanted) = q
           T == {n \in Nat : \A q \in Seq(S) : Len(q) = n => P(q)}
<1>1. 0 \in T
  <2>1. ASSUME NEW q \in Seq(S), Len(q) = 0 PROVE P(q)
    <3>1. q = <<>>
      BY <2>1
    <3>2. Among(q, wanted) = <<>>
      BY <3>1, AmongEmpty
    <3>3. <<>> \in Seq(S)
      OBVIOUS
    <3>4. \A i \in 1 .. Len(q) : FALSE
      BY <2>1
    <3> QED  BY <3>1, <3>2, <3>3, <3>4
  <2> QED  BY <2>1
<1>2. ASSUME NEW n \in Nat, n \in T PROVE n + 1 \in T
  <2>1. ASSUME NEW q \in Seq(S), Len(q) = n + 1 PROVE P(q)
    <3>1. PICK t \in Seq(S), e \in S : q = Append(t, e) /\ Len(t) = n
      BY <2>1, FrontAndLast
    <3>2. P(t)
      BY <1>2, <3>1
    <3>3. /\ q[n + 1] = e /\ n + 1 \in 1 .. Len(q)
          /\ \A i \in 1 .. Len(t) : q[i] = t[i] /\ i \in 1 .. Len(q)
          /\ \A i \in 1 .. Len(q) : i \in 1 .. Len(t) \/ i = n + 1
      BY <2>1, <3>1, AppendFacts
    <3>4. Among(t, wanted) \in Seq(S) /\ Copied(Among(q, wanted), Among(t, wanted), e, wanted)
      BY <3>1, AmongAppend
    <3>5. CASE e \in wanted
      <4>1. Among(q, wanted) = Append(Among(t, wanted), e)
        BY <3>4, <3>5 DEF Copied
      <4>2. Among(q, wanted) \in Seq(S) /\ Among(q, wanted) # <<>>
        BY <3>4, <4>1, AppendFacts
      <4> QED  BY <3>1, <3>2, <3>3, <3>5, <4>1, <4>2
    <3>6. CASE e \notin wanted
      BY <3>2, <3>3, <3>4, <3>6 DEF Copied
    <3> QED  BY <3>5, <3>6
  <2> QED  BY <2>1
<1>3. \A n \in Nat : n \in T
  <2> HIDE DEF T
  <2> QED  BY <1>1, <1>2, SetInduction
<1>4. Len(s) \in Nat
  OBVIOUS
<1> QED  BY <1>3, <1>4

(* What is copied is there and is wanted.                                  *)
LEMMA AmongElements ==
  ASSUME NEW S, NEW wanted, NEW s \in Seq(S)
  PROVE  \A k \in 1 .. Len(Among(s, wanted)) : \E i \in 1 .. Len(s) :
           Among(s, wanted)[k] = s[i] /\ s[i] \in wanted
<1> DEFINE P(q) == \A k \in 1 .. Len(Among(q, wanted)) : \E i \in 1 .. Len(q) :
                     Among(q, wanted)[k] = q[i] /\ q[i] \in wanted
           T == {n \in Nat : \A q \in Seq(S) : Len(q) = n => P(q)}
<1>1. 0 \in T
  <2>1. ASSUME NEW q \in Seq(S), Len(q) = 0 PROVE P(q)
    <3>1. q = <<>>
      BY <2>1
    <3>2. Among(q, wanted) = <<>>
      BY <3>1, AmongEmpty
    <3> QED  BY <3>2
  <2> QED  BY <2>1
<1>2. ASSUME NEW n \in Nat, n \in T PROVE n + 1 \in T
  <2>1. ASSUME NEW q \in Seq(S), Len(q) = n + 1 PROVE P(q)
    <3>1. PICK t \in Seq(S), e \in S : q = Append(t, e) /\ Len(t) = n
      BY <2>1, FrontAndLast
    <3>2. P(t)
      BY <1>2, <3>1
    <3>3. /\ q[n + 1] = e /\ n + 1 \in 1 .. Len(q)
          /\ \A i \in 1 .. Len(t) : q[i] = t[i] /\ i \in 1 .. Len(q)
      BY <2>1, <3>1, AppendFacts
    <3>4. Among(t, wanted) \in Seq(S) /\ Copied(Among(q, wanted), Among(t, wanted), e, wanted)
      BY <3>1, AmongAppend
    <3>5. CASE e \in wanted
      <4> DEFINE a == Among(t, wanted)
      <4>1. /\ Among(q, wanted) = Append(a, e) /\ a \in Seq(S)
            /\ Len(Append(a, e)) = Len(a) + 1 /\ Len(a) \in Nat
            /\ Append(a, e)[Len(a) + 1] = e
            /\ \A k \in 1 .. Len(a) : Append(a, e)[k] = a[k]
        BY <3>4, <3>5, AppendFacts DEF Copied
      <4>2. ASSUME NEW k \in 1 .. Len(a) + 1
            PROVE  \E i \in 1 .. Len(q) : Append(a, e)[k] = q[i] /\ q[i] \in wanted
        <5>1. CASE k = Len(a) + 1
          BY <3>3, <3>5, <4>1, <5>1
        <5>2. CASE k \in 1 .. Len(a)
          <6>1. PICK i \in 1 .. Len(t) : a[k] = t[i] /\ t[i] \in wanted
            BY <3>2, <5>2
          <6> QED  BY <3>3, <4>1, <5>2, <6>1
        <5> QED  BY <4>1, <5>1, <5>2
      <4> HIDE DEF a
      <4> QED  BY <4>1, <4>2
    <3>6. CASE e \notin wanted
      BY <3>2, <3>3, <3>4, <3>6 DEF Copied
    <3> QED  BY <3>5, <3>6
  <2> QED  BY <2>1
<1>3. \A n \in Nat : n \in T
  <2> HIDE DEF T
  <2> QED  BY <1>1, <1>2, SetInduction
<1>4. Len(s) \in Nat
  OBVIOUS
<1> QED  BY <1>3, <1>4

LEMMA AppendToConcat ==
  ASSUME NEW S, NEW a \in Seq(S), NEW b \in Seq(S), NEW e \in S
  PROVE  a \o Append(b, e) = Append(a \o b, e) /\ a \o b \in Seq(S)
<1>1. /\ a \o b \in Seq(S) /\ Len(a \o b) = Len(a) + Len(b)
      /\ \A i \in 1 .. Len(a) + Len(b) : (a \o b)[i] = IF i <= Len(a) THEN a[i] ELSE b[i - Len(a)]
  OBVIOUS
<1> DEFINE c == Append(b, e)
           d == Append(a \o b, e)
<1>2. /\ c \in Seq(S) /\ Len(c) = Len(b) + 1 /\ c[Len(b) + 1] = e
      /\ \A i \in 1 .. Len(b) : c[i] = b[i]
  BY AppendFacts
<1>3. /\ d \in Seq(S) /\ Len(d) = Len(a) + Len(b) + 1 /\ d[Len(a) + Len(b) + 1] = e
      /\ \A i \in 1 .. Len(a) + Len(b) : d[i] = (a \o b)[i]
  BY <1>1, AppendFacts
<1> HIDE DEF c, d
<1>4. /\ a \o c \in Seq(S) /\ Len(a \o c) = Len(a) + Len(b) + 1
      /\ \A i \in 1 .. Len(a) + Len(c) : (a \o c)[i] = IF i <= Len(a) THEN a[i] ELSE c[i - Len(a)]
  BY <1>2
<1>5. Len(a) \in Nat /\ Len(b) \in Nat
  OBVIOUS
<1>6. ASSUME NEW i \in 1 .. Len(a) + Len(b) + 1 PROVE (a \o c)[i] = d[i]
  <2>0. i \in 1 .. Len(a) + Len(c)
    BY <1>2, <1>5
  <2>1. CASE i <= Len(a)
    <3>1. i \in 1 .. Len(a) + Len(b)
      BY <1>5, <2>1
    <3>2. (a \o b)[i] = a[i] /\ (a \o c)[i] = a[i] /\ d[i] = (a \o b)[i]
      BY <1>1, <1>3, <1>4, <2>0, <2>1, <3>1
    <3> QED  BY <3>2
  <2>2. CASE i > Len(a) /\ i <= Len(a) + Len(b)
    <3>1. i - Len(a) \in 1 .. Len(b)
      BY <1>5, <2>2
    <3>2. i \in 1 .. Len(a) + Len(b) /\ ~(i <= Len(a))
      BY <1>5, <2>2
    <3>3. (a \o b)[i] = b[i - Len(a)] /\ (a \o c)[i] = c[i - Len(a)] /\ d[i] = (a \o b)[i]
      BY <1>1, <1>3, <1>4, <2>0, <3>2
    <3> QED  BY <1>2, <3>1, <3>3
  <2>3. CASE i = Len(a) + Len(b) + 1
    <3>1. i - Len(a) = Len(b) + 1 /\ ~(i <= Len(a)) /\ i \in 1 .. Len(a) + Len(c)
      BY <1>2, <1>5, <2>3
    <3>2. (a \o c)[i] = c[i - Len(a)]
      BY <1>4, <3>1
    <3>3. c[i - Len(a)] = e
      BY <1>2, <3>1
    <3>4. d[i] = e
      BY <1>3, <2>3
    <3> QED  BY <3>2, <3>3, <3>4
  <2>4. i <= Len(a) \/ (i > Len(a) /\ i <= Len(a) + Len(b)) \/ i = Len(a) + Len(b) + 1
    BY <1>5
  <2> QED  BY <2>1, <2>2, <2>3, <2>4
<1>7. a \o c = d
  BY <1>3, <1>4, <1>6
<1> QED  BY <1>1, <1>7 DEF c, d

(* The copy of two sequences in a row.                                     *)
LEMMA AmongConcat ==
  ASSUME NEW S, NEW wanted, NEW r \in Seq(S), NEW s \in Seq(S)
  PROVE  Among(r \o s, wanted) = Among(r, wanted) \o Among(s, wanted)
<1> DEFINE P(q) == Among(r \o q, wanted) = Among(r, wanted) \o Among(q, wanted)
           T == {n \in Nat : \A q \in Seq(S) : Len(q) = n => P(q)}
<1>0. Among(r, wanted) \in Seq(S)
  BY AmongExtremes
<1>1. 0 \in T
  <2>1. ASSUME NEW q \in Seq(S), Len(q) = 0 PROVE P(q)
    <3>1. q = <<>> /\ r \o <<>> = r /\ Among(r, wanted) \o <<>> = Among(r, wanted)
      BY <1>0, <2>1
    <3>2. Among(q, wanted) = <<>>
      BY <3>1, AmongEmpty
    <3> QED  BY <3>1, <3>2
  <2> QED  BY <2>1
<1>2. ASSUME NEW n \in Nat, n \in T PROVE n + 1 \in T
  <2>1. ASSUME NEW q \in Seq(S), Len(q) = n + 1 PROVE P(q)
    <3>1. PICK t \in Seq(S), e \in S : q = Append(t, e) /\ Len(t) = n
      BY <2>1, FrontAndLast
    <3>2. P(t)
      BY <1>2, <3>1
    <3>3. r \o Append(t, e) = Append(r \o t, e) /\ r \o t \in Seq(S)
      BY <3>1, AppendToConcat
    <3>4. Among(t, wanted) \in Seq(S) /\ Copied(Among(q, wanted), Among(t, wanted), e, wanted)
      BY <3>1, AmongAppend
    <3>5. Copied(Among(r \o q, wanted), Among(r \o t, wanted), e, wanted)
      BY <3>1, <3>3, AmongAppend
    <3>6. Among(r, wanted) \o Append(Among(t, wanted), e)
            = Append(Among(r, wanted) \o Among(t, wanted), e)
      BY <1>0, <3>4, AppendToConcat
    <3> QED  BY <3>2, <3>4, <3>5, <3>6 DEF Copied
  <2> QED  BY <2>1
<1>3. \A n \in Nat : n \in T
  <2> HIDE DEF T
  <2> QED  BY <1>1, <1>2, SetInduction
<1>4. Len(s) \in Nat
  OBVIOUS
<1> QED  BY <1>3, <1>4

-----------------------------------------------------------------------------
(* The rows of an order and the index.                                     *)

LEMMA WantedOfOrder ==
  ASSUME NEW e \in Event, NEW o
  PROVE  e \in [id : Nat, order_id : {o}] <=> e.order_id = o
BY DropCopyAssumption DEF Event

LEMMA OfOrderFacts ==
  ASSUME NEW rows \in Seq(Event), NEW o
  PROVE  /\ OfOrder(rows, o) \in Seq(Event)
         /\ OfOrder(rows, o) = <<>> <=> \A i \in 1 .. Len(rows) : rows[i].order_id # o
         /\ \A k \in 1 .. Len(OfOrder(rows, o)) : \E i \in 1 .. Len(rows) :
              OfOrder(rows, o)[k] = rows[i] /\ rows[i].order_id = o
<1> DEFINE wanted == [id : Nat, order_id : {o}]
<1>1. \A i \in 1 .. Len(rows) : rows[i] \in wanted <=> rows[i].order_id = o
  <2>1. \A i \in 1 .. Len(rows) : rows[i] \in Event
    OBVIOUS
  <2> QED  BY <2>1, WantedOfOrder
<1>2. OfOrder(rows, o) = Among(rows, wanted)
  BY DEF OfOrder
<1> HIDE DEF wanted
<1>3. /\ Among(rows, wanted) \in Seq(Event)
      /\ Among(rows, wanted) = <<>> <=> \A i \in 1 .. Len(rows) : rows[i] \notin wanted
  BY AmongExtremes
<1>4. \A k \in 1 .. Len(Among(rows, wanted)) : \E i \in 1 .. Len(rows) :
        Among(rows, wanted)[k] = rows[i] /\ rows[i] \in wanted
  BY AmongElements
<1> QED  BY <1>1, <1>2, <1>3, <1>4

LEMMA OfOrderAppend ==
  ASSUME NEW rows \in Seq(Event), NEW e \in Event, NEW o, NEW more, more = Append(rows, e)
  PROVE  /\ e.order_id = o => OfOrder(more, o) = Append(OfOrder(rows, o), e)
         /\ e.order_id # o => OfOrder(more, o) = OfOrder(rows, o)
<1> DEFINE wanted == [id : Nat, order_id : {o}]
<1>1. Copied(Among(more, wanted), Among(rows, wanted), e, wanted)
  BY AmongAppend
<1>2. e \in wanted <=> e.order_id = o
  BY WantedOfOrder
<1> QED  BY <1>1, <1>2 DEF Copied, OfOrder

LEMMA OfOrderConcat ==
  ASSUME NEW r \in Seq(Event), NEW s \in Seq(Event), NEW o
  PROVE  OfOrder(r \o s, o) = OfOrder(r, o) \o OfOrder(s, o)
BY AmongConcat DEF OfOrder

LEMMA IndexFacts ==
  ASSUME NEW rows \in Seq(Event), NEW o
  PROVE  /\ o \in DOMAIN IndexOf(rows) <=> \E i \in 1 .. Len(rows) : rows[i].order_id = o
         /\ o \in DOMAIN IndexOf(rows) => IndexOf(rows)[o] = OfOrder(rows, o)
<1>1. DOMAIN rows = 1 .. Len(rows)
  OBVIOUS
<1> QED  BY <1>1 DEF IndexOf

LEMMA IndexIsFunction ==
  ASSUME NEW rows
  PROVE  IndexOf(rows) = [x \in DOMAIN IndexOf(rows) |-> IndexOf(rows)[x]]
BY DEF IndexOf

(* Publishing appends to the index what it appends to the cache.           *)
LEMMA IndexGrows ==
  ASSUME NEW rows \in Seq(Event), NEW e \in Event, events_by_order = IndexOf(rows)
  PROVE  IndexAtBack(e.order_id, e) = IndexOf(Append(rows, e))
<1> DEFINE more == Append(rows, e)
           o == e.order_id
           new == IndexAtBack(o, e)
<1>1. /\ more \in Seq(Event) /\ Len(more) = Len(rows) + 1 /\ more[Len(rows) + 1] = e
      /\ Len(rows) \in Nat /\ \A i \in 1 .. Len(rows) : more[i] = rows[i]
  BY AppendFacts
<1>2. ASSUME NEW x, x # o PROVE OfOrder(more, x) = OfOrder(rows, x)
  <2> HIDE DEF more
  <2> QED  BY <1>2, OfOrderAppend DEF more
<1>2a. OfOrder(more, o) = Append(OfOrder(rows, o), e)
  <2> HIDE DEF more
  <2> QED  BY OfOrderAppend DEF more
<1>3. IndexedOf(o) = OfOrder(rows, o)
  <2>1. CASE o \in DOMAIN IndexOf(rows)
    BY <2>1, IndexFacts DEF IndexedOf
  <2>2. CASE o \notin DOMAIN IndexOf(rows)
    BY <2>2, IndexFacts, OfOrderFacts DEF IndexedOf
  <2> QED  BY <2>1, <2>2
<1>4. /\ DOMAIN new = DOMAIN IndexOf(rows) \cup {o}
      /\ \A x \in DOMAIN new : new[x] = IF x = o THEN Append(OfOrder(rows, o), e) ELSE IndexOf(rows)[x]
  BY <1>3 DEF IndexAtBack
<1>5. ASSUME NEW x PROVE x \in DOMAIN IndexOf(more) <=> x \in DOMAIN IndexOf(rows) \/ x = o
  <2>1. x \in DOMAIN IndexOf(more) <=> \E i \in 1 .. Len(more) : more[i].order_id = x
    BY <1>1, IndexFacts
  <2>2. x \in DOMAIN IndexOf(rows) <=> \E i \in 1 .. Len(rows) : rows[i].order_id = x
    BY IndexFacts
  <2>3. /\ \A i \in 1 .. Len(more) : i \in 1 .. Len(rows) \/ i = Len(rows) + 1
        /\ \A i \in 1 .. Len(rows) : i \in 1 .. Len(more)
        /\ Len(rows) + 1 \in 1 .. Len(more)
    BY <1>1
  <2> HIDE DEF more
  <2> QED  BY <1>1, <2>1, <2>2, <2>3
<1>6. DOMAIN new = DOMAIN IndexOf(more)
  BY <1>4, <1>5
<1>7. ASSUME NEW x \in DOMAIN new PROVE new[x] = IndexOf(more)[x]
  <2>1. IndexOf(more)[x] = OfOrder(more, x)
    BY <1>1, <1>6, <1>7, IndexFacts
  <2>2. x # o => IndexOf(rows)[x] = OfOrder(rows, x)
    BY <1>4, <1>7, IndexFacts
  <2>3. CASE x = o
    <3>1. new[x] = Append(OfOrder(rows, o), e)
      BY <1>4, <1>7, <2>3
    <3> HIDE DEF new, more, o
    <3> QED  BY <1>2a, <2>1, <2>3, <3>1
  <2>4. CASE x # o
    <3>1. new[x] = IndexOf(rows)[x]
      BY <1>4, <1>7, <2>4
    <3>2. OfOrder(more, x) = OfOrder(rows, x)
      BY <1>2, <2>4
    <3> HIDE DEF new, more
    <3> QED  BY <2>1, <2>2, <2>4, <3>1, <3>2
  <2> QED  BY <2>3, <2>4
<1>8. new = [x \in DOMAIN new |-> new[x]]
  BY DEF IndexAtBack
<1>9. IndexOf(more) = [x \in DOMAIN IndexOf(more) |-> IndexOf(more)[x]]
  BY IndexIsFunction
<1> HIDE DEF new, more
<1>10. new = IndexOf(more)
  BY <1>6, <1>7, <1>8, <1>9
<1> QED  BY <1>10 DEF new, more, o

(* A sequence with one more element in front.                              *)
Prepends(s, h, t) == s = <<h>> \o t

LEMMA PrependFacts ==
  ASSUME NEW S, NEW h \in S, NEW t \in Seq(S), NEW s, Prepends(s, h, t)
  PROVE  /\ s \in Seq(S) /\ Len(s) = Len(t) + 1 /\ s[1] = h /\ Len(t) \in Nat
         /\ \A i \in 1 .. Len(t) : s[i + 1] = t[i]
         /\ 1 \in 1 .. Len(s)
BY DEF Prepends

Single(one, h) == one = <<h>>

LEMMA AmongSingle ==
  ASSUME NEW S, NEW h \in S, NEW wanted, NEW one, Single(one, h)
  PROVE  /\ one \in Seq(S)
         /\ h \in wanted => Among(one, wanted) = one
         /\ h \notin wanted => Among(one, wanted) = <<>>
<1> DEFINE none == <<>>
<1>1. none \in Seq(S) /\ one \in Seq(S) /\ one = Append(none, h)
  BY DEF Single
<1>2. Among(none, wanted) = none
  BY AmongEmpty
<1> HIDE DEF none
<1>3. Copied(Among(one, wanted), Among(none, wanted), h, wanted)
  BY <1>1, AmongAppend
<1> QED  BY <1>1, <1>2, <1>3 DEF Copied, none

LEMMA AmongPrepend ==
  ASSUME NEW S, NEW h \in S, NEW t \in Seq(S), NEW s, Prepends(s, h, t), NEW wanted
  PROVE  /\ h \in wanted => Prepends(Among(s, wanted), h, Among(t, wanted))
         /\ h \notin wanted => Among(s, wanted) = Among(t, wanted)
<1>1. \E one : Single(one, h)
  BY DEF Single
<1>2. PICK one : Single(one, h)
  BY <1>1
<1>3. /\ one \in Seq(S)
      /\ h \in wanted => Among(one, wanted) = one
      /\ h \notin wanted => Among(one, wanted) = <<>>
  BY <1>2, AmongSingle
<1>4. s = one \o t
  BY <1>2 DEF Prepends, Single
<1>5. Among(t, wanted) \in Seq(S)
  BY AmongExtremes
<1>6. Among(s, wanted) = Among(one, wanted) \o Among(t, wanted)
  BY <1>3, <1>4, AmongConcat
<1>7. CASE h \in wanted
  BY <1>2, <1>3, <1>6, <1>7 DEF Prepends, Single
<1>8. CASE h \notin wanted
  BY <1>3, <1>5, <1>6, <1>8
<1> QED  BY <1>7, <1>8

LEMMA OfOrderPrepend ==
  ASSUME NEW h \in Event, NEW t \in Seq(Event), NEW s, Prepends(s, h, t), NEW x
  PROVE  /\ h.order_id = x => Prepends(OfOrder(s, x), h, OfOrder(t, x))
         /\ h.order_id # x => OfOrder(s, x) = OfOrder(t, x)
<1> DEFINE wanted == [id : Nat, order_id : {x}]
<1>1. h \in wanted <=> h.order_id = x
  BY WantedOfOrder
<1>2. /\ h \in wanted => Prepends(Among(s, wanted), h, Among(t, wanted))
      /\ h \notin wanted => Among(s, wanted) = Among(t, wanted)
  <2> HIDE DEF wanted
  <2> QED  BY AmongPrepend
<1> QED  BY <1>1, <1>2 DEF OfOrder

(* The event that leaves the cache leaves the index, and nothing else.     *)
LEMMA IndexShrinks ==
  ASSUME NEW h \in Event, NEW t \in Seq(Event), \A i \in 1 .. Len(t) : t[i].id # h.id,
         NEW s, Prepends(s, h, t)
  PROVE  EvictFrom(IndexOf(s), h) = IndexOf(t)
<1> DEFINE o == h.order_id
           kept == [id : Nat \ {h.id}, order_id : {o}]
           left == Among(IndexOf(s)[o], kept)
           new == EvictFrom(IndexOf(s), h)
<1>1. /\ s \in Seq(Event) /\ Len(s) = Len(t) + 1 /\ s[1] = h /\ Len(t) \in Nat
      /\ \A i \in 1 .. Len(t) : s[i + 1] = t[i]
      /\ 1 \in 1 .. Len(s)
  BY PrependFacts
<1>2. o \in DOMAIN IndexOf(s) /\ IndexOf(s)[o] = OfOrder(s, o)
  BY <1>1, IndexFacts
<1>3. ASSUME NEW x, x # o PROVE OfOrder(s, x) = OfOrder(t, x)
  BY <1>3, OfOrderPrepend
<1>4. left = OfOrder(t, o)
  <2> DEFINE a == OfOrder(t, o)
             b == OfOrder(s, o)
  <2>1. Prepends(b, h, a)
    BY OfOrderPrepend
  <2>2. a \in Seq(Event)
    BY OfOrderFacts
  <2>3. h \notin kept
    OBVIOUS
  <2>4. ASSUME NEW k \in 1 .. Len(a) PROVE a[k] \in kept
    <3>1. PICK i \in 1 .. Len(t) : a[k] = t[i] /\ t[i].order_id = o
      BY OfOrderFacts
    <3>2. t[i] \in Event /\ t[i].id # h.id
      OBVIOUS
    <3> QED  BY <3>1, <3>2, DropCopyAssumption DEF Event
  <2>5. left = Among(b, kept)
    BY <1>2
  <2> HIDE DEF a, b, kept, left
  <2>6. Among(b, kept) = Among(a, kept)
    BY <2>1, <2>2, <2>3, AmongPrepend
  <2>7. Among(a, kept) = a
    BY <2>2, <2>4, AmongExtremes
  <2> QED  BY <2>5, <2>6, <2>7 DEF a
<1>5. new = IF left = <<>> THEN [x \in DOMAIN IndexOf(s) \ {o} |-> IndexOf(s)[x]]
            ELSE [IndexOf(s) EXCEPT ![o] = left]
  BY DEF EvictFrom
<1> HIDE DEF left, new, kept
<1>6. ASSUME NEW x PROVE x \in DOMAIN IndexOf(s) <=> x \in DOMAIN IndexOf(t) \/ x = o
  <2>1. x \in DOMAIN IndexOf(s) <=> \E i \in 1 .. Len(s) : s[i].order_id = x
    BY <1>1, IndexFacts
  <2>2. x \in DOMAIN IndexOf(t) <=> \E i \in 1 .. Len(t) : t[i].order_id = x
    BY IndexFacts
  <2>3. /\ \A i \in 1 .. Len(s) : i = 1 \/ (i - 1 \in 1 .. Len(t) /\ s[i] = t[i - 1])
        /\ \A i \in 1 .. Len(t) : i + 1 \in 1 .. Len(s)
        /\ 1 \in 1 .. Len(s)
    <3>1. ASSUME NEW i \in 1 .. Len(s), i # 1 PROVE i - 1 \in 1 .. Len(t) /\ s[i] = t[i - 1]
      <4>1. i - 1 \in 1 .. Len(t) /\ (i - 1) + 1 = i
        BY <1>1, <3>1
      <4> QED  BY <1>1, <4>1
    <3> QED  BY <1>1, <3>1
  <2> QED  BY <1>1, <2>1, <2>2, <2>3
<1>7. left = <<>> <=> o \notin DOMAIN IndexOf(t)
  <2>1. OfOrder(t, o) = <<>> <=> \A i \in 1 .. Len(t) : t[i].order_id # o
    BY OfOrderFacts
  <2>2. o \in DOMAIN IndexOf(t) <=> \E i \in 1 .. Len(t) : t[i].order_id = o
    BY IndexFacts
  <2> QED  BY <1>4, <2>1, <2>2
<1>8. DOMAIN new = DOMAIN IndexOf(t)
  <2>1. CASE left = <<>>
    BY <1>5, <1>6, <1>7, <2>1
  <2>2. CASE left # <<>>
    BY <1>2, <1>5, <1>6, <1>7, <2>2
  <2> QED  BY <2>1, <2>2
<1>9. ASSUME NEW x \in DOMAIN new PROVE new[x] = IndexOf(t)[x]
  <2>1. IndexOf(t)[x] = OfOrder(t, x)
    BY <1>8, <1>9, IndexFacts
  <2>2. CASE x = o
    <3>1. left # <<>>
      BY <1>7, <1>8, <1>9, <2>2
    <3> QED  BY <1>2, <1>4, <1>5, <2>1, <2>2, <3>1
  <2>3. CASE x # o
    <3>1. x \in DOMAIN IndexOf(s)
      BY <1>6, <1>8, <1>9
    <3>2. IndexOf(s)[x] = OfOrder(s, x) /\ OfOrder(s, x) = OfOrder(t, x)
      BY <1>1, <1>3, <2>3, <3>1, IndexFacts
    <3>3. new[x] = IndexOf(s)[x]
      BY <1>5, <2>3, <3>1
    <3> QED  BY <2>1, <3>2, <3>3
  <2> QED  BY <2>2, <2>3
<1>10. new = [x \in DOMAIN new |-> new[x]]
  <2>1. IndexOf(s) = [x \in DOMAIN IndexOf(s) |-> IndexOf(s)[x]]
    BY IndexIsFunction
  <2>2. CASE left = <<>>
    BY <1>5, <2>2
  <2>3. CASE left # <<>>
    BY <1>2, <1>5, <2>1, <2>3
  <2> QED  BY <2>2, <2>3
<1>11. IndexOf(t) = [x \in DOMAIN IndexOf(t) |-> IndexOf(t)[x]]
  BY IndexIsFunction
<1>12. new = IndexOf(t)
  BY <1>8, <1>9, <1>10, <1>11
<1> QED  BY <1>12 DEF new

-----------------------------------------------------------------------------
(* Sequences read backwards.                                               *)

LEMMA ReverseFacts ==
  ASSUME NEW S, NEW s \in Seq(S)
  PROVE  /\ Reverse(s) \in Seq(S) /\ Len(Reverse(s)) = Len(s) /\ Len(s) \in Nat
         /\ \A i \in 1 .. Len(s) : Reverse(s)[i] = s[Len(s) - i + 1]
<1>1. Len(s) \in Nat /\ \A i \in 1 .. Len(s) : s[Len(s) - i + 1] \in S
  OBVIOUS
<1>2. Reverse(s) \in [1 .. Len(s) -> S] /\ \A i \in 1 .. Len(s) : Reverse(s)[i] = s[Len(s) - i + 1]
  BY <1>1 DEF Reverse
<1> QED  BY <1>1, <1>2

LEMMA ReverseTwice ==
  ASSUME NEW S, NEW s \in Seq(S)
  PROVE  Reverse(Reverse(s)) = s
<1> DEFINE r == Reverse(s)
<1>1. /\ r \in Seq(S) /\ Len(r) = Len(s) /\ Len(s) \in Nat
      /\ \A i \in 1 .. Len(s) : r[i] = s[Len(s) - i + 1]
  BY ReverseFacts
<1> HIDE DEF r
<1>2. /\ Reverse(r) \in Seq(S) /\ Len(Reverse(r)) = Len(r)
      /\ \A i \in 1 .. Len(r) : Reverse(r)[i] = r[Len(r) - i + 1]
  BY <1>1, ReverseFacts
<1>3. ASSUME NEW i \in 1 .. Len(s) PROVE Reverse(r)[i] = s[i]
  <2>1. Len(s) - i + 1 \in 1 .. Len(s) /\ Len(s) - (Len(s) - i + 1) + 1 = i
    BY <1>1
  <2> QED  BY <1>1, <1>2, <2>1
<1>4. Reverse(r) = s
  BY <1>1, <1>2, <1>3
<1> QED  BY <1>4 DEF r

LEMMA ReversePrepend ==
  ASSUME NEW S, NEW h \in S, NEW t \in Seq(S), NEW s, Prepends(s, h, t)
  PROVE  Reverse(s) = Append(Reverse(t), h)
<1> DEFINE n == Len(t)
           r == Reverse(t)
           a == Append(r, h)
<1>1. /\ s \in Seq(S) /\ Len(s) = n + 1 /\ s[1] = h /\ n \in Nat
      /\ \A i \in 1 .. n : s[i + 1] = t[i]
  BY PrependFacts
<1>2. /\ Reverse(s) \in Seq(S) /\ Len(Reverse(s)) = n + 1
      /\ \A i \in 1 .. n + 1 : Reverse(s)[i] = s[n + 1 - i + 1]
  BY <1>1, ReverseFacts
<1>3. /\ r \in Seq(S) /\ Len(r) = n /\ \A i \in 1 .. n : r[i] = t[n - i + 1]
  BY ReverseFacts
<1>4. /\ a \in Seq(S) /\ Len(a) = n + 1 /\ a[n + 1] = h /\ \A i \in 1 .. n : a[i] = r[i]
  <2> HIDE DEF r
  <2> QED  BY <1>3, AppendFacts
<1> HIDE DEF n, r, a
<1>5. ASSUME NEW i \in 1 .. n + 1 PROVE Reverse(s)[i] = a[i]
  <2>1. CASE i = n + 1
    <3>1. n + 1 - i + 1 = 1
      BY <1>1, <2>1
    <3> QED  BY <1>1, <1>2, <1>4, <2>1, <3>1
  <2>2. CASE i \in 1 .. n
    <3>1. n - i + 1 \in 1 .. n /\ n + 1 - i + 1 = (n - i + 1) + 1
      BY <1>1, <2>2
    <3>2. s[n + 1 - i + 1] = t[n - i + 1]
      BY <1>1, <3>1
    <3> QED  BY <1>2, <1>3, <1>4, <2>2, <3>2
  <2> QED  BY <1>1, <2>1, <2>2
<1>6. Reverse(s) = a
  BY <1>2, <1>4, <1>5
<1> QED  BY <1>6 DEF a, r

LEMMA ReverseFront ==
  ASSUME NEW S, NEW s \in Seq(S), s # <<>>
  PROVE  Prepends(Reverse(s), Last(s), Reverse(Front(s)))
<1> DEFINE n == Len(s) - 1
           f == Front(s)
           r == Reverse(f)
           h == Last(s)
<1>1. /\ f \in Seq(S) /\ Len(f) = n /\ n + 1 = Len(s) /\ n \in Nat
      /\ \A i \in 1 .. n : f[i] = s[i]
      /\ h = s[n + 1] /\ h \in S
  BY FrontFacts
<1>2. /\ Reverse(s) \in Seq(S) /\ Len(Reverse(s)) = n + 1
      /\ \A i \in 1 .. n + 1 : Reverse(s)[i] = s[n + 1 - i + 1]
  BY <1>1, ReverseFacts
<1> HIDE DEF f
<1>3. /\ r \in Seq(S) /\ Len(r) = n /\ \A i \in 1 .. n : r[i] = f[n - i + 1]
  BY <1>1, ReverseFacts
<1> HIDE DEF n, h, r
<1>4. PICK p : Prepends(p, h, r)
  BY DEF Prepends
<1>5. /\ p \in Seq(S) /\ Len(p) = n + 1 /\ p[1] = h /\ \A i \in 1 .. n : p[i + 1] = r[i]
  <2>1. h \in S /\ r \in Seq(S)
    BY <1>1, <1>3
  <2>2. /\ p \in Seq(S) /\ Len(p) = Len(r) + 1 /\ p[1] = h
        /\ \A i \in 1 .. Len(r) : p[i + 1] = r[i]
    BY <1>4, <2>1, PrependFacts
  <2> QED  BY <1>3, <2>2
<1>6. ASSUME NEW i \in 1 .. n + 1 PROVE Reverse(s)[i] = p[i]
  <2>1. CASE i = 1
    <3>1. n + 1 - i + 1 = n + 1
      BY <1>1, <2>1
    <3> QED  BY <1>1, <1>2, <1>5, <2>1, <3>1
  <2>2. CASE i # 1
    <3>1. i - 1 \in 1 .. n /\ (i - 1) + 1 = i /\ n - (i - 1) + 1 = n + 1 - i + 1 /\ n + 1 - i + 1 \in 1 .. n
      BY <1>1, <2>2
    <3>2. p[i] = r[i - 1]
      BY <1>5, <3>1
    <3>3. r[i - 1] = f[n + 1 - i + 1]
      BY <1>3, <3>1
    <3>4. f[n + 1 - i + 1] = s[n + 1 - i + 1]
      BY <1>1, <3>1
    <3> QED  BY <1>2, <3>2, <3>3, <3>4
  <2> QED  BY <2>1, <2>2
<1>7. Reverse(s) = p
  BY <1>2, <1>5, <1>6
<1> QED  BY <1>4, <1>7 DEF r, f, h

(* The end of a sequence is a suffix of it.                                *)
LEMMA SuffixOfConcat ==
  ASSUME NEW S, NEW b \in Seq(S), NEW c \in Seq(S), NEW m \in Nat, Len(c) = m + Len(b),
         \A i \in 1 .. Len(b) : c[m + i] = b[i]
  PROVE  IsSuffix(b, c)
<1> DEFINE n == Len(b)
           rb == Reverse(b)
           rc == Reverse(c)
<1>1. /\ c \in Seq(S) /\ Len(c) = m + n /\ m \in Nat /\ n \in Nat
      /\ \A i \in 1 .. n : c[m + i] = b[i]
  OBVIOUS
<1>2. rb \in Seq(S) /\ Len(rb) = n /\ \A i \in 1 .. n : rb[i] = b[n - i + 1]
  BY ReverseFacts
<1>3. rc \in Seq(S) /\ Len(rc) = m + n /\ \A i \in 1 .. m + n : rc[i] = c[m + n - i + 1]
  BY <1>1, ReverseFacts
<1> HIDE DEF n, rb, rc
<1>4. ASSUME NEW i \in 1 .. n PROVE rb[i] = rc[i]
  <2>1. n - i + 1 \in 1 .. n /\ m + (n - i + 1) = m + n - i + 1 /\ i \in 1 .. m + n
    BY <1>1
  <2>2. rc[i] = c[m + (n - i + 1)]
    BY <1>3, <2>1
  <2>3. c[m + (n - i + 1)] = b[n - i + 1]
    BY <1>1, <2>1
  <2> QED  BY <1>2, <2>2, <2>3
<1>5. SubSeq(rb, 1, n) = SubSeq(rc, 1, n)
  <2> DEFINE u == SubSeq(rb, 1, n)
             v == SubSeq(rc, 1, n)
  <2>1. u \in Seq(S) /\ Len(u) = n /\ \A i \in 1 .. n : u[i] = rb[i]
    BY <1>1, <1>2
  <2>2. v \in Seq(S) /\ Len(v) = n /\ \A i \in 1 .. n : v[i] = rc[i]
    BY <1>1, <1>3
  <2> HIDE DEF u, v
  <2>3. \A i \in 1 .. n : u[i] = v[i]
    BY <1>4, <2>1, <2>2
  <2>4. u = v
    BY <2>1, <2>2, <2>3
  <2> QED  BY <2>4 DEF u, v
<1>6. n <= m + n
  BY <1>1
<1> QED  BY <1>2, <1>3, <1>5, <1>6 DEF IsSuffix, IsPrefix, rb, rc

-----------------------------------------------------------------------------
(* The inductive invariant of the store.                                   *)

Rising(rows) == \A i, j \in 1 .. Len(rows) : i < j => rows[i].id < rows[j].id

(* The cache repeats the end of the table, backwards.                      *)
Newest(cache, rows) ==
  /\ cache \in Seq(Event) /\ Len(cache) <= Len(rows)
  /\ \A i \in 1 .. Len(cache) : cache[i] = rows[Len(rows) - i + 1]

Numbered(rows, id) ==
  /\ rows \in Seq(Event) /\ Rising(rows)
  /\ \A i \in 1 .. Len(rows) : rows[i].id < id

(* The orders of the rows that are no longer in the cache.                 *)
Remembered(rows, n, orders) ==
  \A i \in 1 .. Len(rows) - n : rows[i].order_id \in orders

StoreInv ==
  /\ Numbered(db, next_id)
  /\ next_id \in 1 .. MaxEvents + 1 /\ restarts \in 0 .. MaxRestarts
  /\ incomplete_order_history \subseteq OrderId
  /\ Newest(events, db) /\ Len(events) <= CacheCapacity
  /\ Len(events) < CacheCapacity => Len(events) = Len(db)
  /\ events_by_order = IndexOf(Reverse(events))
  /\ restarts = 0 => Remembered(db, Len(events), incomplete_order_history)

LEMMA NumberedGrows ==
  ASSUME NEW rows, NEW id \in Nat, Numbered(rows, id), NEW e \in Event, e.id = id,
         NEW more, more = Append(rows, e)
  PROVE  Numbered(more, id + 1)
<1>1. /\ rows \in Seq(Event) /\ Rising(rows) /\ \A i \in 1 .. Len(rows) : rows[i].id < id
  BY DEF Numbered
<1>2. /\ more \in Seq(Event) /\ Len(more) = Len(rows) + 1 /\ more[Len(rows) + 1] = e
      /\ Len(rows) \in Nat /\ \A i \in 1 .. Len(rows) : more[i] = rows[i]
  BY <1>1, AppendFacts
<1>3. \A i \in 1 .. Len(rows) : rows[i].id \in Nat
  <2>1. \A i \in 1 .. Len(rows) : rows[i] \in Event
    BY <1>1
  <2> QED  BY <2>1, DropCopyAssumption DEF Event
<1>4. ASSUME NEW i \in 1 .. Len(more) PROVE i \in 1 .. Len(rows) \/ i = Len(rows) + 1
  BY <1>2
<1>5. ASSUME NEW i \in 1 .. Len(more), NEW j \in 1 .. Len(more), i < j
      PROVE  more[i].id < more[j].id
  <2>1. i \in 1 .. Len(rows)
    BY <1>2, <1>5
  <2>2. CASE j \in 1 .. Len(rows)
    BY <1>1, <1>2, <1>5, <2>1, <2>2 DEF Rising
  <2>3. CASE j = Len(rows) + 1
    BY <1>1, <1>2, <2>1, <2>3
  <2> QED  BY <1>4, <2>2, <2>3
<1>6. ASSUME NEW i \in 1 .. Len(more) PROVE more[i].id < id + 1
  <2>1. CASE i \in 1 .. Len(rows)
    <3>1. more[i] = rows[i] /\ rows[i].id < id /\ rows[i].id \in Nat
      BY <1>1, <1>2, <1>3, <2>1
    <3> QED  BY <3>1
  <2>2. CASE i = Len(rows) + 1
    <3>1. more[i] = e
      BY <1>2, <2>2
    <3> QED  BY <3>1
  <2> QED  BY <1>4, <2>1, <2>2
<1> QED  BY <1>2, <1>5, <1>6 DEF Numbered, Rising

LEMMA NewestGrows ==
  ASSUME NEW rows \in Seq(Event), NEW cache, Newest(cache, rows), NEW e \in Event,
         NEW full, Prepends(full, e, cache), NEW more, more = Append(rows, e)
  PROVE  Newest(full, more) /\ Len(full) = Len(cache) + 1 /\ Len(more) = Len(rows) + 1
<1>1. /\ more \in Seq(Event) /\ Len(more) = Len(rows) + 1 /\ more[Len(rows) + 1] = e
      /\ Len(rows) \in Nat /\ \A i \in 1 .. Len(rows) : more[i] = rows[i]
  BY AppendFacts
<1>2. /\ cache \in Seq(Event) /\ Len(cache) <= Len(rows)
      /\ \A i \in 1 .. Len(cache) : cache[i] = rows[Len(rows) - i + 1]
  BY DEF Newest
<1>3. /\ full \in Seq(Event) /\ Len(full) = Len(cache) + 1 /\ full[1] = e /\ Len(cache) \in Nat
      /\ \A i \in 1 .. Len(cache) : full[i + 1] = cache[i]
  BY <1>2, PrependFacts
<1>4. ASSUME NEW i \in 1 .. Len(full) PROVE full[i] = more[Len(more) - i + 1]
  <2>1. CASE i = 1
    <3>1. Len(more) - i + 1 = Len(rows) + 1
      BY <1>1, <2>1
    <3> QED  BY <1>1, <1>3, <2>1, <3>1
  <2>2. CASE i # 1
    <3>1. i - 1 \in 1 .. Len(cache) /\ (i - 1) + 1 = i
      BY <1>3, <2>2
    <3>2. /\ Len(rows) - (i - 1) + 1 = Len(more) - i + 1
          /\ Len(rows) - (i - 1) + 1 \in 1 .. Len(rows)
      BY <1>1, <1>2, <1>3, <3>1
    <3>3. full[i] = cache[i - 1]
      BY <1>3, <3>1
    <3>4. cache[i - 1] = rows[Len(rows) - (i - 1) + 1]
      BY <1>2, <3>1
    <3>5. more[Len(more) - i + 1] = rows[Len(rows) - (i - 1) + 1]
      BY <1>1, <3>2
    <3> QED  BY <3>3, <3>4, <3>5
  <2> QED  BY <2>1, <2>2
<1>5. Len(full) <= Len(more)
  BY <1>1, <1>2, <1>3
<1> QED  BY <1>1, <1>3, <1>4, <1>5 DEF Newest

LEMMA NewestShrinks ==
  ASSUME NEW rows \in Seq(Event), NEW full, Newest(full, rows), full # <<>>, Rising(rows)
  PROVE  /\ Newest(Front(full), rows) /\ Len(Front(full)) = Len(full) - 1
         /\ Last(full) \in Event /\ Last(full) = rows[Len(rows) - Len(full) + 1]
         /\ Reverse(Front(full)) \in Seq(Event)
         /\ \A i \in 1 .. Len(Reverse(Front(full))) : Reverse(Front(full))[i].id # Last(full).id
<1> DEFINE f == Front(full)
           h == Last(full)
           t == Reverse(f)
           n == Len(full) - 1
<1>1. /\ full \in Seq(Event) /\ Len(full) <= Len(rows) /\ Len(rows) \in Nat
      /\ \A i \in 1 .. Len(full) : full[i] = rows[Len(rows) - i + 1]
  BY DEF Newest
<1>2. /\ f \in Seq(Event) /\ Len(f) = n /\ n \in Nat /\ Len(full) = n + 1
      /\ \A i \in 1 .. n : f[i] = full[i]
      /\ h = full[n + 1] /\ h \in Event
  <2>1. /\ f \in Seq(Event) /\ Len(f) = Len(full) - 1 /\ Len(full) \in Nat \ {0}
        /\ \A i \in 1 .. (Len(full) - 1) : f[i] = full[i]
        /\ h = full[Len(full)] /\ h \in Event
    BY <1>1, FrontFacts
  <2> HIDE DEF f, h
  <2> QED  BY <2>1
<1>3. Newest(f, rows)
  <2> HIDE DEF f, n
  <2>1. \A i \in 1 .. n : i \in 1 .. Len(full)
    BY <1>2
  <2> QED  BY <1>1, <1>2, <2>1 DEF Newest
<1> HIDE DEF f
<1>4. /\ t \in Seq(Event) /\ Len(t) = n /\ \A i \in 1 .. n : t[i] = f[n - i + 1]
  BY <1>2, ReverseFacts
<1> HIDE DEF h, t, n
<1>5. h = rows[Len(rows) - Len(full) + 1] /\ Len(rows) - Len(full) + 1 \in 1 .. Len(rows)
  <2>1. n + 1 \in 1 .. Len(full)
    BY <1>2
  <2> QED  BY <1>1, <1>2, <2>1
<1>6. ASSUME NEW i \in 1 .. n PROVE t[i].id # h.id
  <2>1. /\ n - i + 1 \in 1 .. n /\ n - i + 1 \in 1 .. Len(full)
        /\ Len(rows) - (n - i + 1) + 1 \in 1 .. Len(rows)
        /\ Len(rows) - Len(full) + 1 < Len(rows) - (n - i + 1) + 1
    BY <1>1, <1>2
  <2>2. t[i] = rows[Len(rows) - (n - i + 1) + 1]
    <3>1. t[i] = f[n - i + 1] /\ f[n - i + 1] = full[n - i + 1]
      BY <1>2, <1>4, <2>1
    <3> QED  BY <1>1, <2>1, <3>1
  <2>3. h.id < t[i].id
    BY <1>5, <2>1, <2>2 DEF Rising
  <2>4. h \in Event /\ t[i] \in Event
    BY <1>2, <1>4
  <2>5. h.id \in Nat /\ t[i].id \in Nat
    BY <2>4, DropCopyAssumption DEF Event
  <2> QED  BY <2>3, <2>5
<1> QED  BY <1>2, <1>3, <1>4, <1>5, <1>6 DEF f, h, t, n

LEMMA IndexTypes ==
  ASSUME NEW rows \in Seq(Event)
  PROVE  DOMAIN IndexOf(rows) \subseteq OrderId
<1>1. ASSUME NEW o \in DOMAIN IndexOf(rows) PROVE o \in OrderId
  <2>1. PICK i \in 1 .. Len(rows) : rows[i].order_id = o
    BY <1>1, IndexFacts
  <2>2. rows[i] \in Event
    OBVIOUS
  <2> QED  BY <2>1, <2>2 DEF Event
<1> QED  BY <1>1

LEMMA StoreStarts == StoreInit => StoreInv
<1> SUFFICES ASSUME StoreInit PROVE StoreInv
  OBVIOUS
<1>1. /\ db = <<>> /\ events = <<>> /\ events_by_order = <<>> /\ next_id = 1 /\ restarts = 0
      /\ incomplete_order_history = {}
  BY DEF StoreInit
<1>2. Numbered(db, next_id) /\ Newest(events, db) /\ Remembered(db, Len(events), incomplete_order_history)
  BY <1>1 DEF Numbered, Rising, Newest, Remembered
<1>3. Reverse(events) = <<>>
  BY <1>1 DEF Reverse
<1>4. IndexOf(<<>>) = <<>>
  <2>1. DOMAIN <<>> = {}
    OBVIOUS
  <2>2. IndexOf(<<>>) = [o \in {} |-> OfOrder(<<>>, o)]
    BY <2>1 DEF IndexOf
  <2> QED  BY <2>2
<1>5. events_by_order = IndexOf(Reverse(events))
  BY <1>1, <1>3, <1>4
<1> QED  BY <1>1, <1>2, <1>5, DropCopyAssumption DEF StoreInv

LEMMA PublishKeeps ==
  ASSUME StoreInv, NEW o \in OrderId, Publish(o)
  PROVE  StoreInv'
<1> DEFINE e == [id |-> next_id, order_id |-> o]
           full == <<e>> \o events
           n == Len(events)
           cached == Reverse(events)
           indexed == IndexAtBack(o, e)
           orders == incomplete_order_history
<1>1. /\ next_id <= MaxEvents /\ next_id' = next_id + 1 /\ db' = Append(db, e)
      /\ restarts' = restarts
  BY DEF Publish
<1>2. /\ Numbered(db, next_id) /\ db \in Seq(Event) /\ Len(db) \in Nat
      /\ next_id \in 1 .. MaxEvents + 1 /\ restarts \in 0 .. MaxRestarts
      /\ orders \subseteq OrderId
      /\ Newest(events, db) /\ events \in Seq(Event) /\ n \in Nat
      /\ n <= CacheCapacity /\ (n < CacheCapacity => n = Len(db))
      /\ events_by_order = IndexOf(cached)
      /\ restarts = 0 => Remembered(db, n, orders)
  BY DEF StoreInv, Numbered, Newest
<1>3. e \in Event /\ e.id = next_id /\ e.order_id = o /\ next_id \in Nat
  BY <1>1, <1>2, DropCopyAssumption DEF Event
<1>4. /\ Len(events) + 1 > CacheCapacity =>
           /\ events' = Front(full) /\ events_by_order' = EvictFrom(indexed, Last(full))
           /\ orders' = orders \cup {Last(full).order_id}
      /\ ~(Len(events) + 1 > CacheCapacity) =>
           events' = full /\ events_by_order' = indexed /\ orders' = orders
  BY DEF Publish
<1>5. Prepends(full, e, events)
  BY DEF Prepends
<1> HIDE DEF e, full
<1>6. Numbered(db', next_id') /\ next_id' \in 1 .. MaxEvents + 1
  <2>1. Numbered(db', next_id + 1)
    BY <1>1, <1>2, <1>3, NumberedGrows
  <2> QED  BY <1>1, <1>2, <2>1, DropCopyAssumption
<1>7. Newest(full, db') /\ Len(full) = n + 1 /\ Len(db') = Len(db) + 1
  <2>1. db \in Seq(Event) /\ Newest(events, db) /\ e \in Event /\ db' = Append(db, e)
    BY <1>1, <1>2, <1>3
  <2>2. Prepends(full, e, events)
    BY <1>5
  <2>3. Newest(full, db')
    BY <2>1, <2>2, NewestGrows
  <2>4. Len(full) = Len(events) + 1 /\ Len(db') = Len(db) + 1
    BY <2>1, <2>2, NewestGrows
  <2> QED  BY <2>3, <2>4
<1>8. Reverse(full) = Append(cached, e) /\ cached \in Seq(Event)
  BY <1>2, <1>3, <1>5, ReversePrepend, ReverseFacts
<1>9. indexed = IndexOf(Reverse(full))
  <2> HIDE DEF cached, indexed
  <2>1. IndexAtBack(e.order_id, e) = IndexOf(Append(cached, e))
    BY <1>2, <1>3, <1>8, IndexGrows
  <2> QED  BY <1>3, <1>8, <2>1 DEF indexed
<1>10. /\ db' \in Seq(Event) /\ \A i \in 1 .. Len(db) : db'[i] = db[i]
       /\ db'[Len(db) + 1] = e
  BY <1>1, <1>2, <1>3, AppendFacts
<1> HIDE DEF n, cached, indexed
<1>11. CASE ~(Len(events) + 1 > CacheCapacity)
  <2>1. events' = full /\ events_by_order' = indexed /\ orders' = orders
    BY <1>4, <1>11
  <2>2. n + 1 <= CacheCapacity /\ n = Len(db)
    BY <1>2, <1>11, DropCopyAssumption DEF n
  <2>3. Remembered(db', Len(events'), orders')
    <3>1. Len(db') - Len(events') = 0
      BY <1>2, <1>7, <2>1, <2>2
    <3> QED  BY <3>1 DEF Remembered
  <2>4. Newest(events', db') /\ Len(events') <= CacheCapacity /\ Len(events') = Len(db')
    BY <1>7, <2>1, <2>2
  <2>5. events_by_order' = IndexOf(Reverse(events'))
    BY <1>9, <2>1
  <2>6. orders' \subseteq OrderId /\ restarts' \in 0 .. MaxRestarts
    BY <1>1, <1>2, <2>1
  <2> QED  BY <1>6, <2>3, <2>4, <2>5, <2>6 DEF StoreInv
<1>12. CASE Len(events) + 1 > CacheCapacity
  <2> DEFINE h == Last(full)
             t == Reverse(Front(full))
  <2>1. /\ events' = Front(full) /\ events_by_order' = EvictFrom(indexed, h)
        /\ orders' = orders \cup {h.order_id}
    BY <1>4, <1>12
  <2>2. n = CacheCapacity
    BY <1>2, <1>12, DropCopyAssumption DEF n
  <2>3. full # <<>> /\ full \in Seq(Event) /\ Rising(db')
    BY <1>2, <1>6, <1>7 DEF Newest, Numbered
  <2>4. /\ Newest(Front(full), db') /\ Len(Front(full)) = Len(full) - 1
        /\ h \in Event /\ h = db'[Len(db') - Len(full) + 1]
        /\ t \in Seq(Event)
        /\ \A i \in 1 .. Len(t) : t[i].id # h.id
    BY <1>7, <1>10, <2>3, NewestShrinks
  <2>5. Prepends(Reverse(full), h, t)
    BY <2>3, ReverseFront
  <2> HIDE DEF h
  <2>6. EvictFrom(IndexOf(Reverse(full)), h) = IndexOf(t)
    <3> DEFINE s == Reverse(full)
    <3> HIDE DEF t, s
    <3>1. Prepends(s, h, t)
      BY <2>5 DEF s
    <3>2. EvictFrom(IndexOf(s), h) = IndexOf(t)
      BY <2>4, <3>1, IndexShrinks
    <3> QED  BY <3>2 DEF s
  <2>7. events_by_order' = IndexOf(Reverse(events'))
    BY <1>9, <2>1, <2>6
  <2>8. Len(events') = n /\ Newest(events', db')
    BY <1>2, <1>7, <2>1, <2>4
  <2>9. h.order_id \in OrderId /\ orders' \subseteq OrderId
    <3>1. h.order_id \in OrderId
      BY <2>4 DEF Event
    <3> QED  BY <1>2, <2>1, <3>1
  <2>10. restarts' = 0 => Remembered(db', Len(events'), orders')
    <3> SUFFICES ASSUME restarts' = 0, NEW i \in 1 .. Len(db') - Len(events')
                 PROVE  db'[i].order_id \in orders'
      BY DEF Remembered
    <3>1. Len(db') - Len(events') = Len(db) - n + 1 /\ n <= Len(db) /\ Len(db) - n \in Nat
      BY <1>2, <1>7, <2>8 DEF Newest, n
    <3>2. CASE i \in 1 .. Len(db) - n
      <4>1. db[i].order_id \in orders /\ i \in 1 .. Len(db)
        BY <1>1, <1>2, <3>1, <3>2 DEF Remembered
      <4> QED  BY <1>10, <2>1, <4>1
    <3>3. CASE i = Len(db) - n + 1
      <4>1. Len(db') - Len(full) + 1 = i
        BY <1>2, <1>7, <3>1, <3>3
      <4> QED  BY <2>1, <2>4, <4>1
    <3> QED  BY <3>1, <3>2, <3>3
  <2>11. restarts' \in 0 .. MaxRestarts /\ Len(events') <= CacheCapacity
         /\ ~(Len(events') < CacheCapacity)
    BY <1>1, <1>2, <2>2, <2>8, DropCopyAssumption
  <2> QED  BY <1>6, <2>7, <2>8, <2>9, <2>10, <2>11 DEF StoreInv
<1> QED  BY <1>11, <1>12

LEMMA PublishFailsKeeps ==
  ASSUME StoreInv, PublishFails
  PROVE  StoreInv'
<1>1. /\ next_id <= MaxEvents /\ next_id' = next_id + 1 /\ db' = db /\ events' = events
      /\ events_by_order' = events_by_order /\ restarts' = restarts
      /\ incomplete_order_history' = incomplete_order_history
  BY DEF PublishFails
<1>2. Numbered(db', next_id')
  <2>1. Numbered(db, next_id) /\ next_id \in Nat
    BY DEF StoreInv
  <2>2. \A i \in 1 .. Len(db) : db[i].id \in Nat
    <3>1. \A i \in 1 .. Len(db) : db[i] \in Event
      BY <2>1 DEF Numbered
    <3> QED  BY <3>1, DropCopyAssumption DEF Event
  <2>3. \A i \in 1 .. Len(db) : db[i].id < next_id + 1
    BY <2>1, <2>2 DEF Numbered
  <2> QED  BY <1>1, <2>1, <2>3 DEF Numbered
<1>3. next_id' \in 1 .. MaxEvents + 1
  BY <1>1, DropCopyAssumption DEF StoreInv
<1> QED  BY <1>1, <1>2, <1>3 DEF StoreInv

LEMMA RestartKeeps ==
  ASSUME StoreInv, Restart
  PROVE  StoreInv'
<1> DEFINE from == IF Len(db) > CacheCapacity THEN Len(db) - CacheCapacity + 1 ELSE 1
           loaded == SubSeq(db, from, Len(db))
           n == Len(db) - from + 1
<1>1. /\ restarts < MaxRestarts /\ restarts' = restarts + 1 /\ db' = db
      /\ events' = Reverse(loaded) /\ next_id' = LastId + 1
      /\ events_by_order' = IndexOf(loaded)
      /\ incomplete_order_history' =
           IF Len(loaded) >= CacheCapacity THEN DOMAIN IndexOf(loaded) ELSE {}
  BY DEF Restart
<1>2. db \in Seq(Event) /\ Len(db) \in Nat /\ Numbered(db, next_id) /\ restarts \in 0 .. MaxRestarts
  BY DEF StoreInv, Numbered
<1>3. /\ from \in 1 .. Len(db) + 1 /\ n \in Nat /\ n <= Len(db) /\ n <= CacheCapacity
      /\ n < CacheCapacity => n = Len(db)
      /\ from = Len(db) - n + 1
  <2>1. CASE Len(db) > CacheCapacity
    <3>1. from = Len(db) - CacheCapacity + 1
      BY <2>1
    <3> HIDE DEF from
    <3> QED  BY <1>2, <2>1, <3>1, DropCopyAssumption
  <2>2. CASE ~(Len(db) > CacheCapacity)
    <3>1. from = 1
      BY <2>2
    <3> HIDE DEF from
    <3> QED  BY <1>2, <2>2, <3>1, DropCopyAssumption
  <2> QED  BY <2>1, <2>2
<1> HIDE DEF from, n
<1>4. /\ loaded \in Seq(Event) /\ Len(loaded) = n
      /\ \A i \in 1 .. n : loaded[i] = db[from + i - 1]
  BY <1>2, <1>3
<1> HIDE DEF loaded
<1>5. /\ events' \in Seq(Event) /\ Len(events') = n
      /\ \A i \in 1 .. n : events'[i] = loaded[n - i + 1]
  BY <1>1, <1>4, ReverseFacts
<1>6. Newest(events', db')
  <2>1. ASSUME NEW i \in 1 .. n PROVE events'[i] = db[Len(db) - i + 1]
    <3>1. n - i + 1 \in 1 .. n /\ from + (n - i + 1) - 1 = Len(db) - i + 1
      BY <1>2, <1>3
    <3>2. loaded[n - i + 1] = db[from + (n - i + 1) - 1]
      BY <1>4, <3>1
    <3> QED  BY <1>5, <3>1, <3>2
  <2> QED  BY <1>1, <1>3, <1>5, <2>1 DEF Newest
<1>7. events_by_order' = IndexOf(Reverse(events'))
  <2>1. Reverse(Reverse(loaded)) = loaded
    BY <1>4, ReverseTwice
  <2> QED  BY <1>1, <2>1
<1>8. Numbered(db', next_id') /\ next_id' \in 1 .. MaxEvents + 1
  <2>1. CASE db = <<>>
    <3>1. LastId = 0 /\ Len(db) = 0
      BY <2>1 DEF LastId
    <3> QED  BY <1>1, <1>2, <3>1, DropCopyAssumption DEF Numbered
  <2>2. CASE db # <<>>
    <3>1. LastId = db[Len(db)].id /\ Len(db) \in 1 .. Len(db)
      BY <1>2, <2>2 DEF LastId, Last
    <3>2. \A i \in 1 .. Len(db) : db[i] \in Event
      BY <1>2
    <3>3. LastId \in 1 .. MaxEvents /\ \A i \in 1 .. Len(db) : db[i].id \in Nat
      BY <3>1, <3>2, DropCopyAssumption DEF Event
    <3>4. ASSUME NEW i \in 1 .. Len(db) PROVE db[i].id < LastId + 1
      <4>1. CASE i = Len(db)
        BY <3>1, <3>3, <4>1
      <4>2. CASE i < Len(db)
        <5>1. db[i].id < LastId
          BY <1>2, <3>1, <4>2 DEF Numbered, Rising
        <5> QED  BY <3>3, <5>1
      <4> QED  BY <1>2, <4>1, <4>2
    <3> QED  BY <1>1, <1>2, <3>3, <3>4, DropCopyAssumption DEF Numbered
  <2> QED  BY <2>1, <2>2
<1>9. incomplete_order_history' \subseteq OrderId
  BY <1>1, <1>4, IndexTypes
<1>10. restarts' \in 0 .. MaxRestarts /\ restarts' # 0
  BY <1>1, <1>2, DropCopyAssumption
<1> QED  BY <1>1, <1>3, <1>5, <1>6, <1>7, <1>8, <1>9, <1>10 DEF StoreInv

LEMMA StoreSteps == StoreInv /\ [StoreNext]_store_vars => StoreInv'
<1> SUFFICES ASSUME StoreInv, [StoreNext]_store_vars PROVE StoreInv'
  OBVIOUS
<1>1. CASE \E o \in OrderId : Publish(o)
  BY <1>1, PublishKeeps
<1>2. CASE PublishFails
  BY <1>2, PublishFailsKeeps
<1>3. CASE Restart
  BY <1>3, RestartKeeps
<1>4. CASE UNCHANGED store_vars
  BY <1>4 DEF StoreInv, store_vars
<1> QED  BY <1>1, <1>2, <1>3, <1>4 DEF StoreNext

-----------------------------------------------------------------------------
(* What the invariant says of the cache and of the lookups.                *)

LEMMA StoreTyped == StoreInv => StoreTypeOK
<1> SUFFICES ASSUME StoreInv PROVE StoreTypeOK
  OBVIOUS
<1>1. /\ db \in Seq(Event) /\ events \in Seq(Event)
      /\ events_by_order = IndexOf(Reverse(events))
      /\ incomplete_order_history \subseteq OrderId
      /\ next_id \in 1 .. (MaxEvents + 1) /\ restarts \in 0 .. MaxRestarts
  BY DEF StoreInv, Numbered, Newest
<1>2. Reverse(events) \in Seq(Event)
  BY <1>1, ReverseFacts
<1>3. ASSUME NEW o \in DOMAIN events_by_order
      PROVE  o \in OrderId /\ events_by_order[o] \in Seq(Event)
  <2>1. o \in DOMAIN IndexOf(Reverse(events))
    BY <1>1, <1>3
  <2>2. o \in OrderId
    BY <1>2, <2>1, IndexTypes
  <2>3. events_by_order[o] = OfOrder(Reverse(events), o)
    BY <1>1, <1>2, <2>1, IndexFacts
  <2> QED  BY <1>2, <2>2, <2>3, OfOrderFacts
<1> QED  BY <1>1, <1>3 DEF StoreTypeOK

LEMMA SameSequence ==
  ASSUME NEW S, NEW a \in Seq(S), NEW b \in Seq(S), Len(a) = Len(b),
         \A i \in 1 .. Len(a) : a[i] = b[i]
  PROVE  a = b
OBVIOUS

LEMMA CacheFromInv == StoreInv => CacheIsNewest
<1> SUFFICES ASSUME StoreInv PROVE CacheIsNewest
  OBVIOUS
<1> DEFINE r == Reverse(db)
           n == Len(events)
           q == SubSeq(r, 1, n)
<1>1. /\ db \in Seq(Event) /\ events \in Seq(Event) /\ n \in Nat /\ n <= Len(db)
      /\ n <= CacheCapacity /\ (n < CacheCapacity => n = Len(db))
      /\ \A i \in 1 .. n : events[i] = db[Len(db) - i + 1]
      /\ events_by_order = IndexOf(Reverse(events))
      /\ \A i \in 1 .. Len(db) : db[i].id < next_id
  BY DEF StoreInv, Numbered, Newest
<1>2. /\ r \in Seq(Event) /\ Len(r) = Len(db) /\ Len(db) \in Nat
      /\ \A i \in 1 .. Len(db) : r[i] = db[Len(db) - i + 1]
  BY <1>1, ReverseFacts
<1>2a. n = Len(events) /\ \A i \in 1 .. n : i \in 1 .. Len(db)
  BY <1>1, <1>2
<1> HIDE DEF r, n
<1>3. q \in Seq(Event) /\ Len(q) = n /\ \A i \in 1 .. n : q[i] = r[i]
  BY <1>1, <1>2
<1> HIDE DEF q
<1>4. \A i \in 1 .. n : events[i] = q[i]
  BY <1>1, <1>2, <1>3, <1>2a
<1>5. events = q
  <2>1. events \in Seq(Event) /\ Len(events) = Len(q) /\ \A i \in 1 .. Len(events) : events[i] = q[i]
    BY <1>1, <1>3, <1>4, <1>2a
  <2> QED  BY <1>3, <2>1, SameSequence
<1>6. DOMAIN db = 1 .. Len(db)
  BY <1>1
<1> QED  BY <1>1, <1>5, <1>6 DEF CacheIsNewest, q, r, n

LEMMA ConcatFacts ==
  ASSUME NEW S, NEW a \in Seq(S), NEW b \in Seq(S)
  PROVE  /\ a \o b \in Seq(S) /\ Len(a \o b) = Len(a) + Len(b)
         /\ \A i \in 1 .. Len(a) : (a \o b)[i] = a[i]
         /\ \A i \in Len(a) + 1 .. Len(a) + Len(b) : (a \o b)[i] = b[i - Len(a)]
OBVIOUS

(* The table is the rows that left the cache, then those in it.            *)
LEMMA TableSplits ==
  ASSUME StoreInv
  PROVE  \E old \in Seq(Event) : \E cached \in Seq(Event) :
           /\ db = old \o cached /\ cached = Reverse(events)
           /\ \A i \in 1 .. Len(old) :
                restarts = 0 => old[i].order_id \in incomplete_order_history
<1> DEFINE n == Len(events)
           m == Len(db) - n
           old == SubSeq(db, 1, m)
           cached == Reverse(events)
           all == old \o cached
<1>1. /\ db \in Seq(Event) /\ events \in Seq(Event) /\ n \in Nat /\ m \in Nat
      /\ Len(db) = m + n
      /\ \A i \in 1 .. n : events[i] = db[Len(db) - i + 1]
      /\ restarts = 0 => Remembered(db, n, incomplete_order_history)
  BY DEF StoreInv, Numbered, Newest
<1>2. cached \in Seq(Event) /\ Len(cached) = n /\ \A i \in 1 .. n : cached[i] = events[n - i + 1]
  BY <1>1, ReverseFacts
<1>3. restarts = 0 => \A i \in 1 .. m : db[i].order_id \in incomplete_order_history
  BY <1>1 DEF Remembered
<1> HIDE DEF m, n, cached
<1>4. old \in Seq(Event) /\ Len(old) = m /\ \A i \in 1 .. m : old[i] = db[i]
  BY <1>1
<1> HIDE DEF old
<1>5. /\ all \in Seq(Event) /\ Len(all) = m + n
      /\ \A i \in 1 .. m : all[i] = old[i]
      /\ \A i \in m + 1 .. m + n : all[i] = cached[i - m]
  <2>1. /\ all \in Seq(Event) /\ Len(all) = Len(old) + Len(cached)
        /\ \A i \in 1 .. Len(old) : all[i] = old[i]
        /\ \A i \in Len(old) + 1 .. Len(old) + Len(cached) : all[i] = cached[i - Len(old)]
    BY <1>2, <1>4, ConcatFacts
  <2> HIDE DEF all
  <2> QED  BY <1>2, <1>4, <2>1
<1> HIDE DEF all
<1>6. ASSUME NEW i \in 1 .. m + n PROVE all[i] = db[i]
  <2>1. CASE i \in 1 .. m
    BY <1>4, <1>5, <2>1
  <2>2. CASE i \in m + 1 .. m + n
    <3>1. /\ i - m \in 1 .. n /\ n - (i - m) + 1 \in 1 .. n
          /\ Len(db) - (n - (i - m) + 1) + 1 = i
      BY <1>1, <2>2
    <3>2. all[i] = cached[i - m] /\ cached[i - m] = events[n - (i - m) + 1]
      BY <1>2, <1>5, <2>2, <3>1
    <3>3. events[n - (i - m) + 1] = db[i]
      BY <1>1, <3>1
    <3> QED  BY <3>2, <3>3
  <2> QED  BY <1>1, <2>1, <2>2
<1>7. db = all
  BY <1>1, <1>5, <1>6
<1>8. \A i \in 1 .. Len(old) : restarts = 0 => old[i].order_id \in incomplete_order_history
  BY <1>3, <1>4
<1> QED  BY <1>2, <1>4, <1>7, <1>8 DEF all, cached

LEMMA LookupFromInv == StoreInv => LookupIsSuffix
<1> SUFFICES ASSUME StoreInv PROVE LookupIsSuffix
  OBVIOUS
<1>1. PICK old \in Seq(Event), cached \in Seq(Event) :
        /\ db = old \o cached /\ cached = Reverse(events)
        /\ \A i \in 1 .. Len(old) :
             restarts = 0 => old[i].order_id \in incomplete_order_history
  BY TableSplits
<1>2. events_by_order = IndexOf(cached)
  BY <1>1 DEF StoreInv
<1>3. ASSUME NEW o \in OrderId
      PROVE  /\ IsSuffix(EventsForOrder(o), OfOrder(db, o))
             /\ restarts = 0 => EventsForOrder(o) = OfOrder(db, o)
  <2> DEFINE a == OfOrder(old, o)
             b == OfOrder(cached, o)
             c == OfOrder(db, o)
  <2>1. c = a \o b
    BY <1>1, OfOrderConcat
  <2>2. a \in Seq(Event) /\ b \in Seq(Event)
    BY OfOrderFacts
  <2>3. (\A i \in 1 .. Len(old) : old[i].order_id # o) => a = <<>>
    BY OfOrderFacts
  <2>4. o \in DOMAIN events_by_order => events_by_order[o] = b
    BY <1>2, IndexFacts
  <2> HIDE DEF a, b
  <2>5. /\ c \in Seq(Event) /\ Len(c) = Len(a) + Len(b) /\ Len(a) \in Nat
        /\ \A i \in 1 .. Len(b) : c[Len(a) + i] = b[i]
    BY <2>1, <2>2
  <2>6. /\ a = <<>> => b = c
        /\ c \in Seq(Event)
    BY <2>1, <2>2
  <2> HIDE DEF c
  <2>7. CASE o \in DOMAIN events_by_order /\ o \notin incomplete_order_history
    <3>1. EventsForOrder(o) = b
      BY <2>4, <2>7 DEF EventsForOrder
    <3>2. IsSuffix(b, c)
      BY <2>2, <2>5, SuffixOfConcat
    <3>3. restarts = 0 => b = c
      BY <1>1, <2>3, <2>6, <2>7
    <3> QED  BY <3>1, <3>2, <3>3 DEF c
  <2>8. CASE ~(o \in DOMAIN events_by_order /\ o \notin incomplete_order_history)
    <3>1. EventsForOrder(o) = c
      BY <2>8 DEF EventsForOrder, c
    <3>2. IsSuffix(c, c)
      <4>1. /\ Len(c) = 0 + Len(c) /\ \A i \in 1 .. Len(c) : c[0 + i] = c[i]
        BY <2>6
      <4> QED  BY <2>6, <4>1, SuffixOfConcat
    <3> QED  BY <3>1, <3>2 DEF c
  <2> QED  BY <2>7, <2>8
<1> QED  BY <1>3 DEF LookupIsSuffix, LookupComplete

-----------------------------------------------------------------------------
(* The variables of the drop copy store (src/drop_copy.cpp) keep their     *)
(* types through every publish, refused insert and restart.                *)
THEOREM StoreTypes == StoreSpec => []StoreTypeOK
<1> QED  BY StoreStarts, StoreSteps, StoreTyped, PTL DEF StoreSpec

(* The cache of the drop copy store holds the newest rows of the table and *)
(* its index exactly the cached events, for any number of orders and any   *)
(* capacity, whatever was evicted, refused by SQLite or reloaded; and no   *)
(* id is given out twice to rows of the table.                             *)
THEOREM CacheNewest == StoreSpec => []CacheIsNewest
<1> QED  BY StoreStarts, StoreSteps, CacheFromInv, PTL DEF StoreSpec

(* events_for_order returns the whole history of an order in the process   *)
(* that published it, however much of it has left the cache, and after     *)
(* restarts never misses the newest events.                                *)
THEOREM LookupsAreSuffixes == StoreSpec => []LookupIsSuffix
<1> QED  BY StoreStarts, StoreSteps, LookupFromInv, PTL DEF StoreSpec

-----------------------------------------------------------------------------
(* The replay of a recording of the books: the two threads of a session    *)
(* of the replay server, for any recording.                                *)

(* What the last position command asked for is what is pending, or what    *)
(* the books were rebuilt to.                                              *)
Wanted ==
  LET c == controller IN
  /\ c.restart_requested => c.seek_record = NoSeek
  /\ c.seek_record # NoSeek => c.seek_timestamp_ns = NoSeek /\ ~c.restart_requested
  /\ ~outrun =>
       /\ c.restart_requested => target = 0 /\ c.seek_timestamp_ns = NoSeek
       /\ c.seek_record # NoSeek => target = Min({c.seek_record, Total})
       /\ c.seek_timestamp_ns # NoSeek =>
            target = find_record_for_timestamp(c.seek_timestamp_ns)
       /\ ~Pending(c) => base = target

(* The controller tells the position but for the step between a move and   *)
(* its update_progress.                                                    *)
Moved == {"restarted", "sought", "moved", "applied"}
Shown ==
  ~Pending(controller) /\ replay \notin Moved =>
    controller.current_record = current_record

Controller ==
  [status : {"Running", "Paused", "Complete", "Stopped"}, restart_requested : BOOLEAN,
   seek_record : Nat \cup {NoSeek}, seek_timestamp_ns : Nat \cup {NoSeek},
   current_record : 0 .. Total + 1]

SInv ==
  /\ controller \in Controller /\ SessionTypeOK
  /\ market = [i \in 1 .. current_record |-> i]
  /\ Wanted /\ Shown

LEMMA RecordingFacts ==
  /\ Total \in Nat \ {0} /\ DOMAIN Stamps = 1 .. Total
  /\ \A i \in 1 .. Total : Stamps[i] \in Nat
  /\ NoSeek \notin Nat
BY RecordingAssumption DEF Recorded, Total

LEMMA FoundIsRecord ==
  ASSUME NEW ns \in Nat
  PROVE  find_record_for_timestamp(ns) \in 0 .. Total
<1> DEFINE S == {i \in DOMAIN Stamps : Stamps[i] < ns}
<1>1. IsFiniteSet(1 .. Total) /\ Cardinality(1 .. Total) = Total
  BY RecordingFacts, FS_Interval
<1>2. S \subseteq 1 .. Total
  BY RecordingFacts
<1>3. IsFiniteSet(S) /\ Cardinality(S) <= Total
  BY <1>1, <1>2, FS_Subset
<1>4. Cardinality(S) \in Nat
  BY <1>3, FS_CardinalityType
<1>5. find_record_for_timestamp(ns) = Cardinality(S)
  BY DEF find_record_for_timestamp
<1> QED  BY <1>3, <1>4, <1>5, RecordingFacts

LEMMA LesserOf ==
  ASSUME NEW a \in Nat, NEW b \in Nat
  PROVE  Min({a, b}) = IF a <= b THEN a ELSE b
<1>1. \E x \in {a, b} : \A y \in {a, b} : x <= y
  OBVIOUS
<1>2. Min({a, b}) \in {a, b} /\ \A y \in {a, b} : Min({a, b}) <= y
  BY <1>1 DEF Min
<1> QED  BY <1>2

LEMMA Begins == SessionInit => SInv
<1> SUFFICES ASSUME SessionInit PROVE SInv
  OBVIOUS
<1>1. /\ Started.status = "Running" /\ Started.restart_requested = FALSE
      /\ Started.seek_record = NoSeek /\ Started.seek_timestamp_ns = NoSeek
      /\ Started.current_record = 0 /\ Started \in Controller
  BY RecordingFacts DEF Started, Controller
<1>2. market = [i \in 1 .. current_record |-> i]
  BY DEF SessionInit
<1>3. SessionTypeOK
  <2>1. current_record = 0 /\ target = 0 /\ base = 0 /\ 0 \in 0 .. Total
    BY RecordingFacts DEF SessionInit
  <2>2. controller.status = "Running" /\ controller.current_record \in 0 .. Total + 1
    BY <1>1, RecordingFacts DEF SessionInit
  <2> QED  BY <2>1, <2>2 DEF SessionInit, SessionTypeOK
<1>4. Wanted /\ Shown
  BY <1>1 DEF SessionInit, Wanted, Shown, Pending
<1> QED  BY <1>1, <1>2, <1>3, <1>4 DEF SInv, SessionInit

(* A step that leaves the requests and the position of both sides alone.   *)
LEMMA Keeps ==
  ASSUME SInv, controller' \in Controller,
         controller'.restart_requested = controller.restart_requested,
         controller'.seek_record = controller.seek_record,
         controller'.seek_timestamp_ns = controller.seek_timestamp_ns,
         controller'.current_record = controller.current_record,
         UNCHANGED <<current_record, market, base, target, outrun>>,
         connected' \in BOOLEAN, stream' \in {"open", "silent", "gone", "closed"},
         commands' \in {"loop", "reading", "stopping", "ended"},
         replay \in Moved => replay' \in Moved
  PROVE  SInv'
<1>1. SessionTypeOK'
  BY DEF SInv, SessionTypeOK, Controller
<1>2. Pending(controller)' <=> Pending(controller)
  BY DEF Pending
<1>3. Wanted'
  BY <1>2 DEF SInv, Wanted
<1>4. Shown'
  BY <1>2 DEF SInv, Shown
<1> QED  BY <1>1, <1>3, <1>4 DEF SInv

LEMMA CommandKeeps ==
  ASSUME SInv, ReadCommand
  PROVE  SInv'
<1>0. /\ Total \in Nat \ {0} /\ Stamps[Total] \in Nat /\ NoSeek \notin Nat
      /\ 0 \in 0 .. Total + 1
  BY RecordingFacts
<1>1. /\ UNCHANGED <<connected, stream, replay, current_record, market, base>>
      /\ commands' = "loop" /\ ApplyCommand
  BY DEF ReadCommand, locals
<1>2. controller \in Controller /\ SessionTypeOK /\ Wanted /\ Shown
  BY DEF SInv
<1>3. CASE /\ controller' \in {play(controller), pause(controller), stop(controller)}
           /\ UNCHANGED <<target, outrun>>
  <2>1. /\ controller' \in Controller
        /\ controller'.restart_requested = controller.restart_requested
        /\ controller'.seek_record = controller.seek_record
        /\ controller'.seek_timestamp_ns = controller.seek_timestamp_ns
        /\ controller'.current_record = controller.current_record
    BY <1>2, <1>3 DEF Controller, play, pause, stop
  <2> QED  BY <1>1, <1>2, <1>3, <2>1, Keeps DEF SessionTypeOK
<1>4. CASE controller' = controller /\ UNCHANGED <<target, outrun>>
  BY <1>1, <1>2, <1>4, Keeps DEF SessionTypeOK
<1>5. CASE ~Stopped(controller) /\ controller' = request_restart(controller)
           /\ Wish(0, controller.seek_timestamp_ns # NoSeek)
  <2>1. /\ controller' \in Controller /\ controller'.restart_requested
        /\ controller'.seek_record = NoSeek
        /\ controller'.seek_timestamp_ns = controller.seek_timestamp_ns
        /\ target' = 0 /\ outrun' = (controller.seek_timestamp_ns # NoSeek)
    <3>1. target' = 0 /\ outrun' = (controller.seek_timestamp_ns # NoSeek)
      BY <1>5 DEF Wish
    <3>2. controller' = [controller EXCEPT !.restart_requested = TRUE, !.seek_record = NoSeek,
                                           !.current_record = 0, !.status = "Running"]
      BY <1>5 DEF request_restart
    <3>4. controller' \in Controller
      BY <1>0, <1>2, <3>2 DEF Controller
    <3>5. controller \in Controller
      BY <1>2
    <3>6. /\ controller'.restart_requested /\ controller'.seek_record = NoSeek
          /\ controller'.seek_timestamp_ns = controller.seek_timestamp_ns
      BY <3>2, <3>5 DEF Controller
    <3> QED  BY <3>1, <3>4, <3>6
  <2>2. SessionTypeOK'
    BY <1>0, <1>1, <1>2, <2>1 DEF SessionTypeOK, Controller
  <2>3. Pending(controller)'
    BY <2>1 DEF Pending
  <2> QED  BY <1>1, <2>1, <2>2, <2>3 DEF SInv, Wanted, Shown
<1>6. CASE ~Stopped(controller) /\ \E index \in 0 .. Total + 1 :
             /\ controller' = seek_record(controller, index)
             /\ Wish(Min({index, Total}), FALSE)
  <2>1. PICK index \in 0 .. Total + 1 :
             /\ controller' = seek_record(controller, index)
             /\ Wish(Min({index, Total}), FALSE)
    BY <1>6
  <2>2. /\ controller' \in Controller /\ controller'.restart_requested = FALSE
        /\ controller'.seek_record = index /\ controller'.seek_timestamp_ns = NoSeek
        /\ target' = Min({index, Total}) /\ outrun' = FALSE
        /\ index \in Nat
    <3>1. target' = Min({index, Total}) /\ outrun' = FALSE
      BY <1>6, <2>1 DEF Wish
    <3>2. controller' = [controller EXCEPT !.seek_record = index, !.seek_timestamp_ns = NoSeek,
                           !.restart_requested = FALSE, !.current_record = index]
      BY <1>6, <2>1 DEF seek_record
    <3>3. index \in Nat /\ index \in 0 .. Total + 1
      BY <1>0, <2>1
    <3>4. controller' \in Controller
      BY <1>0, <1>2, <3>2, <3>3 DEF Controller
    <3>5. controller \in Controller
      BY <1>2
    <3>6. /\ controller'.restart_requested = FALSE /\ controller'.seek_record = index
          /\ controller'.seek_timestamp_ns = NoSeek
      BY <3>2, <3>5 DEF Controller
    <3> QED  BY <3>1, <3>3, <3>4, <3>6
  <2>3. target' \in 0 .. Total
    BY <1>0, <2>2, LesserOf
  <2>4. SessionTypeOK'
    BY <1>1, <1>2, <2>2, <2>3 DEF SessionTypeOK, Controller
  <2>5. Pending(controller)'
    BY <1>0, <2>2 DEF Pending
  <2> QED  BY <1>1, <2>2, <2>4, <2>5 DEF SInv, Wanted, Shown
<1>7. CASE ~Stopped(controller) /\ \E ns \in 0 .. Stamps[Total] + 1 :
             /\ controller' = seek_timestamp(controller, ns)
             /\ Wish(find_record_for_timestamp(ns), FALSE)
  <2>1. PICK ns \in 0 .. Stamps[Total] + 1 :
             /\ controller' = seek_timestamp(controller, ns)
             /\ Wish(find_record_for_timestamp(ns), FALSE)
    BY <1>7
  <2>2. /\ controller' \in Controller /\ controller'.restart_requested = FALSE
        /\ controller'.seek_record = NoSeek /\ controller'.seek_timestamp_ns = ns
        /\ target' = find_record_for_timestamp(ns) /\ outrun' = FALSE
        /\ ns \in Nat
    <3>1. target' = find_record_for_timestamp(ns) /\ outrun' = FALSE
      BY <1>7, <2>1 DEF Wish
    <3>2. controller' = [controller EXCEPT !.seek_timestamp_ns = ns, !.seek_record = NoSeek,
                                           !.restart_requested = FALSE]
      BY <1>7, <2>1 DEF seek_timestamp
    <3>3. ns \in Nat
      BY <1>0, <2>1
    <3>4. controller' \in Controller
      BY <1>0, <1>2, <3>2, <3>3 DEF Controller
    <3>5. controller \in Controller
      BY <1>2
    <3>6. /\ controller'.restart_requested = FALSE /\ controller'.seek_record = NoSeek
          /\ controller'.seek_timestamp_ns = ns
      BY <3>2, <3>5 DEF Controller
    <3> QED  BY <3>1, <3>4, <3>6, <3>3
  <2>3. target' \in 0 .. Total
    BY <2>2, FoundIsRecord
  <2>4. SessionTypeOK'
    BY <1>1, <1>2, <2>2, <2>3 DEF SessionTypeOK, Controller
  <2>5. Pending(controller)'
    BY <1>0, <2>2 DEF Pending
  <2> QED  BY <1>1, <2>2, <2>4, <2>5 DEF SInv, Wanted, Shown
<1> QED  BY <1>1, <1>3, <1>4, <1>5, <1>6, <1>7
         DEF ApplyCommand, Wish, wishes, request_restart,
             seek_record, seek_timestamp

(* The three looks of the replay thread at the controller.                 *)
LEMMA ConsumeKeeps ==
  ASSUME SInv,
         ConsumeRestart \/ ConsumeSeek \/ ConsumeTimestamp
  PROVE  SInv'
<1>0. Total \in Nat \ {0} /\ NoSeek \notin Nat
  BY RecordingFacts
<1>1. /\ controller \in Controller /\ SessionTypeOK /\ Wanted /\ Shown
      /\ market = [i \in 1 .. current_record |-> i]
  BY DEF SInv
<1>2. UNCHANGED <<connected, stream, commands, target, outrun>>
  BY DEF ConsumeRestart, ConsumeSeek, ConsumeTimestamp,
         rest, wishes
<1>3. ASSUME NEW n \in 0 .. Total, rebuild_to_record(n),
             controller' \in Controller, replay' \in Moved, Wanted'
      PROVE  SInv'
  <2>1. current_record' = n /\ base' = n /\ market' = [i \in 1 .. current_record' |-> i]
    BY <1>3 DEF rebuild_to_record
  <2>2. SessionTypeOK'
    BY <1>1, <1>2, <1>3, <2>1 DEF SessionTypeOK, Controller
  <2> QED  BY <1>3, <2>1, <2>2 DEF SInv, Shown
<1>4. ASSUME controller' = controller, UNCHANGED <<current_record, market, base>>,
             replay \notin Moved
      PROVE  SInv'
  BY <1>1, <1>2, <1>4, Keeps DEF SessionTypeOK
<1>5. CASE ConsumeRestart
  <2>1. controller' = [controller EXCEPT !.restart_requested = FALSE] /\ replay = "restart"
    BY <1>5 DEF ConsumeRestart
  <2>2. /\ controller' \in Controller /\ controller'.restart_requested = FALSE
        /\ controller'.seek_record = controller.seek_record
        /\ controller'.seek_timestamp_ns = controller.seek_timestamp_ns
    BY <1>1, <2>1 DEF Controller
  <2>3. CASE controller.restart_requested /\ rebuild_to_record(0) /\ replay' = "restarted"
    <3>1. base' = 0
      BY <2>3 DEF rebuild_to_record
    <3>2. Wanted'
      BY <1>1, <1>2, <2>2, <2>3, <3>1 DEF Wanted, Pending
    <3> QED  BY <1>0, <1>3, <2>2, <2>3, <3>2 DEF Moved
  <2>4. CASE ~controller.restart_requested /\ UNCHANGED <<current_record, market, base>>
    <3>1. controller' = controller
      BY <1>1, <2>1, <2>4 DEF Controller
    <3> QED  BY <1>4, <2>1, <2>4, <3>1 DEF Moved
  <2> QED  BY <1>5, <2>3, <2>4 DEF ConsumeRestart, locals
<1>6. CASE ConsumeSeek
  <2> DEFINE n == Min({controller.seek_record, Total})
  <2>1. controller' = [controller EXCEPT !.seek_record = NoSeek] /\ replay = "seek"
    BY <1>6 DEF ConsumeSeek
  <2>2. /\ controller' \in Controller /\ controller'.seek_record = NoSeek
        /\ controller'.restart_requested = controller.restart_requested
        /\ controller'.seek_timestamp_ns = controller.seek_timestamp_ns
    BY <1>1, <2>1 DEF Controller
  <2>3. CASE controller.seek_record # NoSeek /\ rebuild_to_record(n) /\ replay' = "sought"
    <3>1. base' = n
      BY <2>3 DEF rebuild_to_record
    <3>2. controller.seek_record \in Nat
      BY <1>1, <2>3 DEF Controller
    <3>3. n \in 0 .. Total
      BY <1>0, <3>2, LesserOf
    <3>4. Wanted'
      BY <1>1, <1>2, <2>2, <2>3, <3>1 DEF Wanted, Pending
    <3> HIDE DEF n
    <3> QED  BY <1>3, <2>2, <2>3, <3>3, <3>4 DEF Moved
  <2>4. CASE controller.seek_record = NoSeek /\ UNCHANGED <<current_record, market, base>>
    <3>1. controller' = controller
      BY <1>1, <2>1, <2>4 DEF Controller
    <3> QED  BY <1>4, <2>1, <2>4, <3>1 DEF Moved
  <2> QED  BY <1>6, <2>3, <2>4 DEF ConsumeSeek, locals
<1>7. CASE ConsumeTimestamp
  <2> DEFINE n == find_record_for_timestamp(controller.seek_timestamp_ns)
  <2>1. controller' = [controller EXCEPT !.seek_timestamp_ns = NoSeek] /\ replay = "timestamp"
    BY <1>7 DEF ConsumeTimestamp
  <2>2. /\ controller' \in Controller /\ controller'.seek_timestamp_ns = NoSeek
        /\ controller'.restart_requested = controller.restart_requested
        /\ controller'.seek_record = controller.seek_record
    BY <1>1, <2>1 DEF Controller
  <2>3. CASE controller.seek_timestamp_ns # NoSeek /\ rebuild_to_record(n) /\ replay' = "moved"
    <3>1. base' = n
      BY <2>3 DEF rebuild_to_record
    <3>2. controller.seek_timestamp_ns \in Nat
      BY <1>1, <2>3 DEF Controller
    <3>3. n \in 0 .. Total
      BY <3>2, FoundIsRecord
    <3>4. Wanted'
      BY <1>1, <1>2, <2>2, <2>3, <3>1 DEF Wanted, Pending
    <3> HIDE DEF n
    <3> QED  BY <1>3, <2>2, <2>3, <3>3, <3>4 DEF Moved
  <2>4. CASE controller.seek_timestamp_ns = NoSeek /\ UNCHANGED <<current_record, market, base>>
    <3>1. controller' = controller
      BY <1>1, <2>1, <2>4 DEF Controller
    <3> QED  BY <1>4, <2>1, <2>4, <3>1 DEF Moved
  <2> QED  BY <1>7, <2>3, <2>4 DEF ConsumeTimestamp, locals
<1> QED  BY <1>5, <1>6, <1>7

(* Steps of both threads that change at most the status of the controller. *)
LEMMA QuietKeeps ==
  ASSUME SInv,
         \/ CommandLoop \/ ReadThrows \/ CommandThreadStops
         \/ ClientLeaves \/ ClientFallsSilent
         \/ Loop \/ wait_until_runnable \/ Complete
         \/ PauseAtEnd \/ Send \/ EndSession \/ Close
         \/ JoinCommands
  PROVE  SInv'
<1> USE DEF locals, rest, wishes
<1>1. controller \in Controller /\ SessionTypeOK
  BY DEF SInv
<1>2. controller' \in {controller, stop(controller), pause(controller),
                        mark_complete(controller)}
  BY DEF CommandLoop, ReadThrows, CommandThreadStops, ClientLeaves,
         ClientFallsSilent, Loop,
         wait_until_runnable, Complete, PauseAtEnd, Send,
         EndSession, Close, JoinCommands
<1>3. /\ controller' \in Controller
      /\ controller'.restart_requested = controller.restart_requested
      /\ controller'.seek_record = controller.seek_record
      /\ controller'.seek_timestamp_ns = controller.seek_timestamp_ns
      /\ controller'.current_record = controller.current_record
  BY <1>1, <1>2 DEF Controller, stop, pause, mark_complete
<1>4. UNCHANGED <<current_record, market, base, target, outrun>>
  BY DEF CommandLoop, ReadThrows, CommandThreadStops, ClientLeaves,
         ClientFallsSilent, Loop,
         wait_until_runnable, Complete, PauseAtEnd, Send,
         EndSession, Close, JoinCommands
<1>5. /\ connected' \in BOOLEAN /\ stream' \in {"open", "silent", "gone", "closed"}
      /\ commands' \in {"loop", "reading", "stopping", "ended"}
  BY <1>1 DEF SessionTypeOK,
         CommandLoop, ReadThrows, CommandThreadStops, ClientLeaves,
         ClientFallsSilent, Loop,
         wait_until_runnable, Complete, PauseAtEnd, Send,
         EndSession, Close, JoinCommands
<1>6. replay \in Moved => replay' \in Moved
  BY DEF Moved,
         CommandLoop, ReadThrows, CommandThreadStops, ClientLeaves,
         ClientFallsSilent, Loop,
         wait_until_runnable, Complete, PauseAtEnd, Send,
         EndSession, Close, JoinCommands
<1> QED  BY <1>3, <1>4, <1>5, <1>6, Keeps

LEMMA ProgressKeeps ==
  ASSUME SInv, Progress
  PROVE  SInv'
<1>1. /\ controller \in Controller /\ SessionTypeOK /\ Wanted
      /\ market = [i \in 1 .. current_record |-> i]
  BY DEF SInv
<1>2. controller' = [controller EXCEPT !.current_record = current_record]
  BY DEF Progress, update_progress
<1>3. UNCHANGED <<connected, stream, commands, target, outrun, current_record, market, base>>
  BY DEF Progress, locals, rest, wishes
<1>4. current_record \in 0 .. Total + 1
  BY <1>1, RecordingFacts DEF SessionTypeOK
<1>5. /\ controller' \in Controller /\ controller'.current_record = current_record
      /\ controller'.restart_requested = controller.restart_requested
      /\ controller'.seek_record = controller.seek_record
      /\ controller'.seek_timestamp_ns = controller.seek_timestamp_ns
  BY <1>1, <1>2, <1>4 DEF Controller
<1>6. Pending(controller)' <=> Pending(controller)
  BY <1>5 DEF Pending
<1>7. SessionTypeOK'
  BY <1>1, <1>3, <1>5 DEF SessionTypeOK, Controller
<1>8. Wanted'
  BY <1>1, <1>3, <1>5, <1>6 DEF Wanted
<1>9. Shown'
  BY <1>3, <1>5 DEF Shown
<1> QED  BY <1>1, <1>3, <1>5, <1>7, <1>8, <1>9 DEF SInv

LEMMA ApplyKeeps ==
  ASSUME SInv, ApplyRecord
  PROVE  SInv'
<1>1. /\ controller \in Controller /\ SessionTypeOK /\ Wanted
      /\ market = [i \in 1 .. current_record |-> i]
      /\ current_record \in 0 .. Total /\ Total \in Nat
  BY RecordingFacts DEF SInv, SessionTypeOK
<1>2. UNCHANGED <<controller, connected, stream, commands, target, outrun, base>>
  BY DEF ApplyRecord, locals, rest, wishes
<1>3. CASE UNCHANGED <<current_record, market>> /\ replay \notin Moved
  BY <1>1, <1>2, <1>3, Keeps DEF SessionTypeOK
<1>4. CASE /\ current_record < Total /\ replay' = "applied"
           /\ market' = Append(market, current_record + 1)
           /\ current_record' = current_record + 1
  <2>1. market' = [i \in 1 .. current_record' |-> i]
    <3>1. market \in Seq(Nat) /\ Len(market) = current_record
      BY <1>1
    <3>2. /\ market' \in Seq(Nat) /\ Len(market') = current_record + 1
          /\ \A i \in 1 .. current_record : market'[i] = market[i]
          /\ market'[current_record + 1] = current_record + 1
      BY <1>1, <1>4, <3>1
    <3>3. market' = [i \in 1 .. Len(market') |-> market'[i]]
      BY <3>2
    <3> QED  BY <1>1, <1>4, <3>2, <3>3
  <2>2. SessionTypeOK'
    <3>1. current_record' \in 0 .. Total
      BY <1>1, <1>4
    <3> QED  BY <1>1, <1>2, <3>1 DEF SessionTypeOK
  <2>3. Wanted'
    BY <1>1, <1>2 DEF Wanted
  <2>4. Shown'
    BY <1>4 DEF Shown, Moved
  <2> QED  BY <1>1, <1>2, <2>1, <2>2, <2>3, <2>4 DEF SInv
<1> QED  BY <1>3, <1>4 DEF ApplyRecord, locals, Moved

LEMMA NextClientBegins ==
  ASSUME NextClient
  PROVE  SInv'
<1>1. /\ Started.status = "Running" /\ Started.restart_requested = FALSE
      /\ Started.seek_record = NoSeek /\ Started.seek_timestamp_ns = NoSeek
      /\ Started.current_record = 0 /\ Started \in Controller
  BY RecordingFacts DEF Started, Controller
<1>2. /\ controller' = Started /\ connected' = TRUE /\ stream' = "open"
      /\ commands' = "loop" /\ replay' = "loop" /\ current_record' = 0 /\ market' = <<>>
      /\ target' = 0 /\ base' = 0 /\ outrun' = FALSE
  BY DEF NextClient
<1>3. market' = [i \in 1 .. current_record' |-> i]
  BY <1>2
<1>4. SessionTypeOK'
  <2>1. 0 \in 0 .. Total /\ 0 \in 0 .. Total + 1
    BY RecordingFacts
  <2> QED  BY <1>1, <1>2, <2>1 DEF SessionTypeOK
<1>5. Wanted' /\ Shown'
  BY <1>1, <1>2 DEF Wanted, Shown, Pending
<1> QED  BY <1>1, <1>2, <1>3, <1>4, <1>5 DEF SInv

LEMMA SessionSteps == SInv /\ [SessionNext]_session_vars => SInv'
<1> SUFFICES ASSUME SInv, [SessionNext]_session_vars PROVE SInv'
  OBVIOUS
<1>1. CASE UNCHANGED session_vars
  <2>1. UNCHANGED <<controller, connected, stream, commands, replay, current_record,
                    market, target, base, outrun>>
    BY <1>1 DEF session_vars
  <2>2. controller \in Controller /\ SessionTypeOK
    BY DEF SInv
  <2> QED  BY <2>1, <2>2, Keeps DEF SessionTypeOK
<1> QED  BY <1>1, CommandKeeps, ConsumeKeeps, QuietKeeps, ProgressKeeps, ApplyKeeps,
            NextClientBegins DEF SessionNext, ReplayThread

(* No restart and no seek is lost between the three looks of the replay    *)
(* thread at the controller (apps/market_replay_ws.cpp), for any recording *)
(* and any commands at any time: once nothing is pending the books were    *)
(* rebuilt to where the last command asked for and hold exactly the        *)
(* records up to the position the controller tells.                        *)
THEOREM ReplayFollows == SessionSpec => []PositionFollows
<1>1. SInv => PositionFollows
  BY DEF SInv, Wanted, Shown, Moved, PositionFollows
<1> QED  BY <1>1, Begins, SessionSteps, PTL DEF SessionSpec

=============================================================================
