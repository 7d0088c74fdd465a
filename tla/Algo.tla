-------------------------------- MODULE Algo ---------------------------------
(***************************************************************************)
(* The algo scheduler (src/src/algo_scheduler.cpp) with its schedules      *)
(* (src/src/execution_algo.cpp) and its store (src/src/algo_store.cpp), on *)
(* the order management system of module Oms, as the API server puts them  *)
(* together (src/apps/api.cpp): the API thread submits and cancels, one    *)
(* thread per job works the slices, and the process can crash and recover. *)
(*                                                                         *)
(* Time is left out: a delay ends when it likes, so a persisted deadline   *)
(* makes no difference.  What the router and the simulated venues answer   *)
(* is a choice: the legs of a plan add up to at most the slice, and a leg  *)
(* is refused or filled in whole or in part.                               *)
(***************************************************************************)
EXTENDS Oms

CONSTANTS
  Requests,     \* the algo orders a client may submit
  MaxCrashes    \* bound on the crashes of a behaviour

ASSUME AlgoAssumption ==
  /\ MaxCrashes \in Nat
  /\ \A r \in Requests : r.quantity \in Quantity

VARIABLES
  jobs,          \* jobs_: parent -> state of the job and of its thread
  api,           \* where the API thread is in a submission
  phase,         \* "down", or how far the server has come up
  crashes,
  api_cancelled, \* whether a client has cancelled a child order by REST
  early          \* whether a job changed the OMS before the callback was set

vars == <<omsVars, jobs, api, phase, crashes, api_cancelled, early>>

Idle == [step |-> "idle"]

-----------------------------------------------------------------------------
(* build_execution_schedule: the quantities of the slices.                  *)
SumOf(s) == FoldLeft(LAMBDA a, b : a + b, 0, s)

(* All slices but the last by share, the last one takes the rest.           *)
RestLast(q, shares) ==
  LET n == Len(shares)
  IN [i \in 1 .. n |-> IF i < n THEN shares[i] ELSE q - SumOf(Front(shares))]

TwapSchedule(q, slices) == RestLast(q, [i \in 1 .. slices |-> q \div slices])

VwapSchedule(q, profile) ==
  RestLast(q, [i \in DOMAIN profile |-> (q * profile[i]) \div SumOf(profile)])

(* The profile is what the participation rate allows per slice; a slice of  *)
(* nothing is left out, and the schedule may fall short of the order.       *)
PovSchedule(q, profile) ==
  LET step(acc, allowed) ==
        LET take == AtMost(q - SumOf(acc), allowed)
        IN IF take = 0 THEN acc ELSE Append(acc, take)
  IN FoldLeft(step, <<>>, profile)

IcebergSchedule(q, displayed) ==
  LET count == (q + displayed - 1) \div displayed
  IN RestLast(q, [i \in 1 .. count |-> displayed])

ScheduleOf(r) ==
  CASE r.algorithm = "Market" -> <<r.quantity>>
    [] r.algorithm = "TWAP" -> TwapSchedule(r.quantity, r.slices)
    [] r.algorithm = "VWAP" -> VwapSchedule(r.quantity, r.profile)
    [] r.algorithm = "POV" -> PovSchedule(r.quantity, r.profile)
    [] r.algorithm = "Iceberg" -> IcebergSchedule(r.quantity, r.displayed)

-----------------------------------------------------------------------------
(* A job of the request r that starts, or goes on, with the given state.    *)
Job(r, slice, filled, pc) ==
  [status |-> "Running", quantity |-> r.quantity, schedule |-> ScheduleOf(r),
   slice |-> slice, filled |-> filled, cancel |-> FALSE,
   pc |-> pc, index |-> slice, child |-> 0, planned |-> 0, slice_filled |-> 0]

(* What state_callback_ saves of a job.                                     *)
SaveJob(p, job) ==
  Write("jobs", p, [status |-> job.status, slice |-> job.slice, filled |-> job.filled])

(* And what the API saves of the request.                                   *)
SaveRequest(p, r) == Write("requests", p, r)

(* The job is over: its thread has no state any more.                       *)
Ended(job, status) ==
  [job EXCEPT !.status = status, !.pc = "done", !.index = 0, !.child = 0,
              !.planned = 0, !.slice_filled = 0]

RemainingOf(job) == job.quantity - AtMost(job.quantity, job.filled)

(* mutex_ of the scheduler is held during its state callbacks.              *)
MutexFree(t) ==
  \A u \in Thread \ {t} : \A i \in DOMAIN writes[u] : writes[u][i].table # "jobs"

Init ==
  /\ OmsInit
  /\ jobs = <<>> /\ api = Idle /\ phase = "serving" /\ crashes = 0
  /\ api_cancelled = FALSE /\ early = FALSE

-----------------------------------------------------------------------------
(* POST /api/algo-orders: AlgoScheduler::submit creates the parent order,   *)
(* enters and saves the job, starts its thread; then the handler saves the  *)
(* request.                                                                 *)
ApiReady(step) == phase = "serving" /\ api.step = step /\ Ready(Api)

Submit(r) ==
  LET p == NextId(parents) IN
  /\ ApiReady("idle") /\ p <= MaxParents
  /\ ScheduleOf(r) # <<>>
  /\ CreateParent(Api, p, r.quantity)
  /\ api' = [step |-> "created", parent |-> p, request |-> r]
  /\ UNCHANGED <<positions, callback_set, db, jobs, phase, crashes, api_cancelled, early>>

EnterJob ==
  LET job == Job(api.request, 0, 0, "starting") IN
  /\ ApiReady("created") /\ MutexFree(Api)
  /\ jobs' = Put(jobs, api.parent, job)
  /\ writes' = [writes EXCEPT ![Api] = <<SaveJob(api.parent, job)>>]
  /\ api' = [api EXCEPT !.step = "entered"]
  /\ UNCHANGED <<memory, positions, callback_set, db, phase, crashes, api_cancelled, early>>

StartWorker ==
  /\ ApiReady("entered")
  /\ jobs' = [jobs EXCEPT ![api.parent].pc = "top"]
  /\ writes' = [writes EXCEPT ![Api] = <<SaveRequest(api.parent, api.request)>>]
  /\ api' = Idle
  /\ UNCHANGED <<memory, positions, callback_set, db, phase, crashes, api_cancelled, early>>

(* POST /api/algo-orders/<id>/cancel: AlgoScheduler::cancel.                *)
CancelAlgo(p) ==
  /\ ApiReady("idle") /\ MutexFree(Api)
  /\ p \in DOMAIN jobs /\ jobs[p].status = "Running"
  /\ jobs' = [jobs EXCEPT ![p].cancel = TRUE]
  /\ UNCHANGED <<omsVars, api, phase, crashes, api_cancelled, early>>

(* POST /api/oms/children/cancel takes any child, also one a job works on.  *)
CancelChildByRest(c) ==
  /\ ApiReady("idle") /\ ~Terminal(children[c].status)
  /\ CancelChild(Api, c)
  /\ api_cancelled' = TRUE
  /\ UNCHANGED <<positions, callback_set, db, jobs, api, phase, crashes, early>>

-----------------------------------------------------------------------------
(* run_job.  Each step of the thread of job p; `goes' is the job after it.  *)
At(p, pc) == p \in DOMAIN jobs /\ jobs[p].pc = pc /\ Ready(p)
Goes(p, job) == jobs' = [jobs EXCEPT ![p] = job]
Quiet == UNCHANGED <<memory, writes>>

(* The top of the loop: cancelled, all slices done, or the next slice.  The *)
(* cancelled job sets its status, and returns without the state callback.   *)
SeeCancel(p) ==
  /\ At(p, "top") /\ jobs[p].index < Len(jobs[p].schedule) /\ jobs[p].cancel
  /\ CancelParent(p, p, <<>>)
  /\ Goes(p, [jobs[p] EXCEPT !.pc = "cancelled"])

(* (Mutant: the status is not set.)                                         *)
BecomeCancelledSilently(p) ==
  /\ At(p, "cancelled") /\ MutexFree(p)
  /\ Goes(p, Ended(jobs[p], jobs[p].status))
  /\ Quiet
BecomeCancelled(p) ==
  /\ At(p, "cancelled") /\ MutexFree(p)
  /\ Goes(p, Ended(jobs[p], "Cancelled"))
  /\ Quiet

BeginSlice(p) ==
  /\ At(p, "top") /\ jobs[p].index < Len(jobs[p].schedule) /\ ~jobs[p].cancel
  /\ Goes(p, [jobs[p] EXCEPT !.pc = "wait"])
  /\ Quiet

(* After the delay of the slice (the first one has none): the quantity of   *)
(* the slice or what remains.                                               *)
SliceQuantity(job) == AtMost(job.schedule[job.index + 1], RemainingOf(job))
Waited(job) == job.index = 0 \/ ~job.cancel

(* Cancelled during the delay, nothing to do in this slice, no quotes or no *)
(* leg within the limits: `continue'.                                       *)
SkipSlice(p) ==
  /\ At(p, "wait")
  /\ ~Waited(jobs[p]) \/ RemainingOf(jobs[p]) > 0
  /\ Goes(p, [jobs[p] EXCEPT !.pc = "top", !.index = @ + 1])
  /\ Quiet

RouteSlice(p) ==
  /\ At(p, "wait") /\ Waited(jobs[p]) /\ SliceQuantity(jobs[p]) > 0
  /\ NextId(children) <= MaxChildren
  /\ Goes(p, [jobs[p] EXCEPT !.pc = "route", !.planned = SliceQuantity(jobs[p])])
  /\ Quiet

(* A leg of the plan.                                                       *)
OpenLeg(p, q) ==
  LET c == NextId(children) IN
  /\ At(p, "route") \/ At(p, "next leg")
  /\ q <= jobs[p].planned /\ c <= MaxChildren
  /\ CreateChild(p, p, c, q)
  /\ Goes(p, [jobs[p] EXCEPT !.pc = "opened", !.child = c, !.planned = @ - q])

RejectLeg(p) ==
  /\ At(p, "opened")
  /\ RejectChild(p, jobs[p].child)
  /\ Goes(p, [jobs[p] EXCEPT !.pc = "next leg"])

WorkLeg(p) ==
  /\ At(p, "opened")
  /\ MarkChildWorking(p, jobs[p].child)
  /\ Goes(p, [jobs[p] EXCEPT !.pc = "working"])

FillLeg(p, q) ==
  /\ At(p, "working")
  /\ RecordFill(p, jobs[p].child, q)
  /\ Goes(p, [jobs[p] EXCEPT !.pc = "filled", !.slice_filled = @ + q])

(* The rest of the leg is cancelled.                                        *)
EndLeg(p) ==
  /\ At(p, "filled")
  /\ CancelChild(p, jobs[p].child)
  /\ Goes(p, [jobs[p] EXCEPT !.pc = "next leg"])

(* The slice is done: the figures of the job, current_slice, the callback.  *)
(* (Mutant: what was asked for is taken for filled.)                        *)
EndSliceAsked(p) ==
  LET job == [jobs[p] EXCEPT !.filled = @ + SliceQuantity(jobs[p]),
                             !.slice = jobs[p].index + 1,
                             !.index = @ + 1, !.pc = "top", !.child = 0,
                             !.planned = 0, !.slice_filled = 0]
  IN /\ At(p, "next leg") /\ MutexFree(p)
     /\ Goes(p, job)
     /\ writes' = [writes EXCEPT ![p] = <<SaveJob(p, job)>>]
     /\ UNCHANGED memory
EndSlice(p) ==
  LET job == [jobs[p] EXCEPT !.filled = @ + jobs[p].slice_filled,
                             !.slice = jobs[p].index + 1,
                             !.index = @ + 1, !.pc = "top", !.child = 0,
                             !.planned = 0, !.slice_filled = 0]
  IN /\ At(p, "next leg") /\ MutexFree(p)
     /\ Goes(p, job)
     /\ writes' = [writes EXCEPT ![p] = <<SaveJob(p, job)>>]
     /\ UNCHANGED memory

(* After the loop, with the mutex held: what is left is cancelled.          *)
Finish(p) ==
  LET job == Ended(jobs[p], IF RemainingOf(jobs[p]) > 0 /\ jobs[p].cancel
                            THEN "Cancelled" ELSE "Completed")
  IN /\ \/ At(p, "top") /\ jobs[p].index >= Len(jobs[p].schedule)
        \/ At(p, "wait") /\ Waited(jobs[p]) /\ RemainingOf(jobs[p]) = 0
     /\ MutexFree(p)
     /\ Goes(p, job)
     /\ IF RemainingOf(jobs[p]) = 0
        THEN UNCHANGED memory /\ writes' = [writes EXCEPT ![p] = <<SaveJob(p, job)>>]
        ELSE CancelParent(p, p, <<SaveJob(p, job)>>)

(* create_child or record_fill threw (mutant: the parent is left alone).    *)
Threw(p) ==
  \/ /\ At(p, "route") \/ At(p, "next leg")
     /\ \E q \in 1 .. jobs[p].planned : ~MayOpenChild(p, q)
  \/ At(p, "working") /\ ~MayFill(jobs[p].child, 1)

FailLeaves(p) ==
  /\ Threw(p)
  /\ Goes(p, [jobs[p] EXCEPT !.pc = "failing"])
  /\ Quiet
Fail(p) ==
  /\ Threw(p)
  /\ CancelParent(p, p, <<>>)
  /\ Goes(p, [jobs[p] EXCEPT !.pc = "failing"])

BecomeFailed(p) ==
  LET job == Ended(jobs[p], "Failed") IN
  /\ At(p, "failing") /\ MutexFree(p)
  /\ Goes(p, job)
  /\ writes' = [writes EXCEPT ![p] = <<SaveJob(p, job)>>]
  /\ UNCHANGED memory

JobStep(p) ==
  /\ \/ SeeCancel(p) \/ BecomeCancelled(p)
     \/ BeginSlice(p) \/ SkipSlice(p) \/ RouteSlice(p)
     \/ \E q \in Quantity : OpenLeg(p, q)
     \/ RejectLeg(p) \/ WorkLeg(p)
     \/ \E q \in Quantity : FillLeg(p, q)
     \/ EndLeg(p) \/ EndSlice(p)
     \/ Finish(p) \/ Fail(p) \/ BecomeFailed(p)
  /\ early' = (early \/ (~callback_set /\ memory' # memory))
  /\ UNCHANGED <<positions, callback_set, db, api, phase, crashes, api_cancelled>>

Callbacks(t) ==
  Persist(t) /\ UNCHANGED <<jobs, api, phase, crashes, api_cancelled, early>>

-----------------------------------------------------------------------------
Crash ==
  /\ phase # "down" /\ crashes < MaxCrashes
  /\ phase' = "down" /\ crashes' = crashes + 1
  /\ parents' = <<>> /\ children' = <<>> /\ fills' = <<>> /\ positions' = {}
  /\ callback_set' = FALSE /\ writes' = NoWrites
  /\ jobs' = <<>> /\ api' = Idle
  /\ UNCHANGED <<db, api_cancelled, early>>

(* restore_recoverable: running jobs with a request are resumed at the      *)
(* slice on record, those without one are saved as failed.                  *)
Resumed(p) == db.jobs[p].status = "Running" /\ p \in DOMAIN db.requests
RestoredRow(p) ==
  IF db.jobs[p].status = "Running" /\ ~Resumed(p)
  THEN [db.jobs[p] EXCEPT !.status = "Failed"] ELSE db.jobs[p]

RestoredJob(p) ==
  IF Resumed(p)
  THEN Job(db.requests[p], db.jobs[p].slice, db.jobs[p].filled, "top")
  ELSE [status |-> RestoredRow(p).status, quantity |-> db.parents[p].quantity,
        schedule |-> <<>>, slice |-> db.jobs[p].slice, filled |-> db.jobs[p].filled,
        cancel |-> FALSE, pc |-> "done", index |-> 0, child |-> 0, planned |-> 0,
        slice_filled |-> 0]

(* The constructor of the API's state, in its order: the OMS is restored,   *)
(* the jobs are resumed on their threads, the positions are rebuilt from    *)
(* the fills on record, and only then the mutation callback is installed.   *)
Restart ==
  /\ phase = "down"
  /\ Load
  /\ jobs' = [p \in DOMAIN db.jobs |-> RestoredJob(p)]
  /\ db' = [db EXCEPT !.jobs = [p \in DOMAIN @ |-> RestoredRow(p)]]
  /\ phase' = "resumed"
  /\ UNCHANGED <<writes, api, crashes, api_cancelled, early>>

RebuildPositions ==
  /\ phase = "resumed"
  /\ positions' = DOMAIN db.fills
  /\ phase' = "positions"
  /\ UNCHANGED <<memory, callback_set, writes, db, jobs, api, crashes, api_cancelled, early>>

SetMutationCallback ==
  /\ phase = "positions"
  /\ callback_set' = TRUE
  /\ phase' = "serving"
  /\ UNCHANGED <<memory, positions, writes, db, jobs, api, crashes, api_cancelled, early>>

Next ==
  \/ \E r \in Requests : Submit(r)
  \/ EnterJob
  \/ StartWorker
  \/ \E p \in DOMAIN jobs : CancelAlgo(p)
  \/ \E c \in DOMAIN children : CancelChildByRest(c)
  \/ \E p \in DOMAIN jobs : JobStep(p)
  \/ \E t \in Thread : Callbacks(t)
  \/ Crash
  \/ Restart
  \/ RebuildPositions
  \/ SetMutationCallback

Spec == Init /\ [][Next]_vars

(* Every thread goes on running, and a server that is down is started again. *)
FairSpec ==
  /\ Spec
  /\ \A p \in 1 .. MaxParents : WF_vars(p \in DOMAIN jobs /\ JobStep(p))
  /\ \A t \in Thread : WF_vars(Callbacks(t))
  /\ WF_vars(EnterJob) /\ WF_vars(StartWorker)
  /\ WF_vars(Restart) /\ WF_vars(RebuildPositions) /\ WF_vars(SetMutationCallback)

-----------------------------------------------------------------------------
(* What the fills of a table add up to, for a parent and for a child.       *)
Quantities(table) == [f \in DOMAIN table |-> table[f].quantity]
FilledOf(p, table) ==
  SumFunctionOnSet(Quantities(table), {f \in DOMAIN table : table[f].parent = p})
FilledOfChild(c, table) ==
  SumFunctionOnSet(Quantities(table), {f \in DOMAIN table : table[f].child = c})

ParentRow == [quantity : Quantity, filled : 0 .. MaxQuantity,
              remaining : 0 .. MaxQuantity, status : Status,
              child_ids : SUBSET (1 .. MaxChildren)]
ChildRow == [parent : 1 .. MaxParents, quantity : Quantity,
             filled : 0 .. MaxQuantity, remaining : 0 .. MaxQuantity,
             status : Status]

(* The type of the variables.                                               *)
TypeOK ==
  /\ DOMAIN parents \subseteq 1 .. MaxParents
  /\ \A p \in DOMAIN parents : parents[p] \in ParentRow
  /\ DOMAIN children \subseteq 1 .. MaxChildren
  /\ \A c \in DOMAIN children : children[c] \in ChildRow
  /\ DOMAIN jobs \subseteq DOMAIN parents
  /\ \A p \in DOMAIN jobs :
       /\ jobs[p].status \in {"Running", "Completed", "Cancelled", "Failed"}
       /\ jobs[p].index \in 0 .. Len(jobs[p].schedule)
  /\ phase \in {"down", "resumed", "positions", "serving"}

(* Without a crash a parent is never over-executed and its figures are      *)
(* those of its fills: record_fill, refresh_parent and the remainder check  *)
(* of create_child agree, cancellations by the API in mid-leg included.     *)
FillsAddUp ==
  crashes = 0 =>
    \A p \in DOMAIN parents :
      /\ parents[p].filled = FilledOf(p, fills)
      /\ parents[p].filled + parents[p].remaining = parents[p].quantity
      /\ parents[p].status = "Filled" <=> parents[p].remaining = 0

(* Without a crash no order leaves a terminal status, although              *)
(* refresh_parent recomputes the status of the parent at every child        *)
(* update and only respects Cancelled.                                      *)
TerminalIsFinal ==
  [][crashes' = 0 =>
       /\ \A p \in DOMAIN parents :
            Terminal(parents[p].status) => parents'[p].status = parents[p].status
       /\ \A c \in DOMAIN children :
            Terminal(children[c].status) => children'[c] = children[c]]_memory

(* Without a crash, a job that has ended leaves nothing working behind: its *)
(* parent is terminal and so are the parent's children, whichever way the   *)
(* job ended and whatever the API cancelled meanwhile.                      *)
EndedJobIsClosed ==
  crashes = 0 =>
    \A p \in DOMAIN jobs : jobs[p].status # "Running" =>
      /\ Terminal(parents[p].status)
      /\ \A c \in parents[p].child_ids : Terminal(children[c].status)

(* Whenever the callbacks have returned, the store holds exactly the memory *)
(* state and the positions count exactly the fills, so that a restart loses *)
(* nothing, in a recovered process too.  (Not once a REST cancellation has  *)
(* written the rows of a job from another thread: the older copy may come   *)
(* last.  And not when a recovered job was faster than the constructor.)    *)
StoreCaughtUp ==
  /\ phase = "serving" /\ ~early /\ ~api_cancelled
  /\ \A t \in Thread : Ready(t)
  =>
    /\ db.children = children /\ db.fills = fills
    /\ positions = DOMAIN fills
    /\ DOMAIN db.parents = DOMAIN parents
    /\ \A p \in DOMAIN parents :
         [db.parents[p] EXCEPT !.child_ids = {}] = [parents[p] EXCEPT !.child_ids = {}]

(* The order of the writes keeps the tables sound at every crash point:     *)
(* a child row has its parent, a fill row its child (the foreign keys), a   *)
(* published fill its row, a job its parent, whatever threads write at the  *)
(* same time.                                                               *)
StoreOrdered ==
  /\ \A c \in DOMAIN db.children : db.children[c].parent \in DOMAIN db.parents
  /\ \A f \in DOMAIN db.fills : db.fills[f].child \in DOMAIN db.children
  /\ DOMAIN db.drops \subseteq DOMAIN db.fills
  /\ DOMAIN db.requests \subseteq DOMAIN db.jobs
  /\ DOMAIN db.jobs \subseteq DOMAIN db.parents

(* The fills on record never exceed the order, through any number of        *)
(* crashes: a slice that recovery executes a second time, because the job   *)
(* row is older than the fills, is held back by create_child, and no child  *)
(* or parent row says less was filled than the fill rows add up to.         *)
NeverOverExecuted ==
  ~api_cancelled /\ ~early =>
    /\ \A p \in DOMAIN db.parents :
         FilledOf(p, db.fills) <= db.parents[p].filled
    /\ \A p \in DOMAIN parents : FilledOf(p, fills) <= parents[p].quantity
    /\ \A c \in DOMAIN db.children :
         FilledOfChild(c, db.fills) <= db.children[c].filled

(* A job on record never claims more than the fills on record: recovery may *)
(* repeat a slice, it never leaves one out.                                 *)
JobRowCovered ==
  ~early => \A p \in DOMAIN db.jobs : db.jobs[p].filled <= FilledOf(p, db.fills)

(* An order that is on record as cancelled is never executed again, not     *)
(* even by the job that a restart resumes because the cancelled path of     *)
(* run_job left the job on record as running.                               *)
CancelledForGood ==
  [][\A p \in DOMAIN db.parents : db.parents[p].status = "Cancelled" =>
       FilledOf(p, db'.fills) = FilledOf(p, db.fills)]_db

(* A cancellation the API accepted ends the job, in whatever slice, delay   *)
(* or leg it finds it, unless the process dies first.                       *)
CancelEnds ==
  \A p \in 1 .. MaxParents :
    (p \in DOMAIN jobs /\ jobs[p].cancel)
      ~> (phase # "serving" \/ (p \in DOMAIN jobs /\ jobs[p].status # "Running"))

=============================================================================
