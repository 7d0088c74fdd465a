--------------------------------- MODULE Oms ---------------------------------
(***************************************************************************)
(* The order management system (src/src/oms.cpp), the mutation callback of *)
(* the API server and the SQLite tables it keeps (src/apps/api.cpp,        *)
(* src/src/oms_store.cpp).  Module Algo adds the threads that call it.     *)
(*                                                                         *)
(* A mutation changes the memory state first and then runs the callback,   *)
(* which writes the parent, the child, the fill and the drop copy as       *)
(* separate transactions and then counts the fill in the positions.  Each  *)
(* of these is a step, and a crash, or the calls and writes of another     *)
(* thread, can fall between any two: the job threads and the API thread    *)
(* share no lock here.  The change of memory itself is one step.           *)
(* Quantities are whole numbers, which makes the code's epsilon            *)
(* comparisons exact.                                                      *)
(***************************************************************************)
EXTENDS Integers, Sequences, SequencesExt

CONSTANTS
  MaxQuantity,               \* parents are for 1 .. MaxQuantity
  MaxParents, MaxChildren    \* bounds on the orders of a behaviour

ASSUME OmsAssumption == {MaxQuantity, MaxParents, MaxChildren} \subseteq Nat

VARIABLES
  parents,      \* id -> quantity, filled, remaining, status, child_ids
  children,     \* id -> parent, quantity, filled, remaining, status
  fills,        \* execution_reports_: fill id -> parent, child, quantity
  positions,    \* the fills counted by the position manager
  callback_set, \* set_mutation_callback was called in this process
  writes,       \* thread -> what its callbacks have still to do
  db            \* table -> id -> row, the drop copy and algo tables included

memory == <<parents, children, fills>>
omsVars == <<parents, children, fills, positions, callback_set, writes, db>>

Status == {"New", "Working", "PartiallyFilled", "Filled", "Cancelled", "Rejected"}
Terminal(status) == status \in {"Filled", "Cancelled", "Rejected"}

Quantity == 1 .. MaxQuantity

(* A thread is the API or the job of a parent order.                        *)
Api == 0
Thread == 0 .. MaxParents
NoWrites == [t \in Thread |-> <<>>]

Put(f, x, v) == [y \in DOMAIN f \cup {x} |-> IF y = x THEN v ELSE f[y]]
(* The children in the order of creation, as children_for_parent lists them.*)
Ascending(ids) ==
  CHOOSE s \in [1 .. Cardinality(ids) -> ids] : \A i, j \in DOMAIN s : i < j => s[i] < s[j]
NextId(f) == 1 + (IF DOMAIN f = {} THEN 0 ELSE Max(DOMAIN f))
AtMost(a, b) == IF a < b THEN a ELSE b

OmsInit ==
  /\ parents = <<>> /\ children = <<>> /\ fills = <<>>
  /\ positions = {} /\ callback_set = TRUE
  /\ writes = NoWrites
  /\ db = [parents |-> <<>>, children |-> <<>>, fills |-> <<>>, drops |-> <<>>,
           jobs |-> <<>>, requests |-> <<>>]

-----------------------------------------------------------------------------
(* refresh_parent: the parent as its children now make it.                  *)
Refreshed(parent, kids) ==
  LET mine == {kids[c] : c \in parent.child_ids}
      filled == AtMost(parent.quantity, SumFunction([c \in parent.child_ids |-> kids[c].filled]))
      has(statuses) == \E k \in mine : k.status \in statuses
      status ==
        IF filled = parent.quantity THEN "Filled"
        ELSE IF filled > 0 THEN "PartiallyFilled"
        ELSE IF has({"New", "Working", "PartiallyFilled"}) THEN "Working"
        ELSE IF has({"Cancelled"}) THEN "Cancelled"
        ELSE IF has({"Rejected"}) THEN "Rejected"
        ELSE "New"
  IN IF parent.status = "Cancelled" THEN parent
     ELSE [parent EXCEPT !.filled = filled,
                         !.remaining = parent.quantity - filled,
                         !.status = status]

(* What a callback does, on copies taken when the mutation was made.        *)
Write(table, id, row) == [table |-> table, id |-> id, row |-> row]
SaveParent(p, parent) == Write("parents", p, parent)
SaveChild(c, child) == Write("children", c, child)
SaveFill(f, fill) == Write("fills", f, fill)
PublishFill(f) == Write("drops", f, {})
CountFill(f) == Write("positions", f, {})

(* The writes of a callback for a child and for a fill: the rows the others *)
(* refer to come first, the positions last (mutants: no parent row; the     *)
(* fill published before it is saved).                                      *)
NotifyChildOnly(p, parent, c, child) == <<SaveChild(c, child)>>
Notify(p, parent, c, child) ==
  <<SaveParent(p, parent), SaveChild(c, child)>>

NotifyPublishFirst(p, parent, c, child, f, fill) ==
  Notify(p, parent, c, child)
    \o <<PublishFill(f), SaveFill(f, fill), CountFill(f)>>
NotifyFill(p, parent, c, child, f, fill) ==
  Notify(p, parent, c, child)
    \o <<SaveFill(f, fill), PublishFill(f), CountFill(f)>>

(* The thread is not inside a callback.                                     *)
Ready(t) == writes[t] = <<>>

(* The thread enters the mutation callback, if there is one.                *)
Callback(t, list) ==
  writes' = IF callback_set THEN [writes EXCEPT ![t] = @ \o list] ELSE writes

(* The calls every child mutation ends with: refresh the parent, notify.    *)
UpdateChild(t, c, child) ==
  LET kids == [children EXCEPT ![c] = child]
      p == child.parent
      parent == Refreshed(parents[p], kids)
  IN /\ children' = kids
     /\ parents' = [parents EXCEPT ![p] = parent]
     /\ Callback(t, Notify(p, parent, c, child))
     /\ UNCHANGED fills

-----------------------------------------------------------------------------
(* The operations of the OMS, called by thread t.                           *)
CreateParent(t, p, q) ==
  LET parent == [quantity |-> q, filled |-> 0, remaining |-> q, status |-> "New",
                 child_ids |-> {}]
  IN /\ parents' = Put(parents, p, parent)
     /\ Callback(t, <<SaveParent(p, parent)>>)
     /\ UNCHANGED <<children, fills>>

(* create_child refuses a terminal parent and more than remains (mutants: a *)
(* child as large as the parent; a child of a terminal parent).             *)
MayOpenTerminal(p, q) == q <= parents[p].remaining
MayOpenWhole(p, q) == ~Terminal(parents[p].status) /\ q <= parents[p].quantity
MayOpenChild(p, q) == ~Terminal(parents[p].status) /\ q <= parents[p].remaining

CreateChild(t, p, c, q) ==
  LET child == [parent |-> p, quantity |-> q, filled |-> 0, remaining |-> q,
                status |-> "New"]
      parent == [parents[p] EXCEPT
                   !.child_ids = @ \cup {c},
                   !.status = IF @ = "New" THEN "Working" ELSE @]
  IN /\ MayOpenChild(p, q)
     /\ children' = Put(children, c, child)
     /\ parents' = [parents EXCEPT ![p] = parent]
     /\ Callback(t, Notify(p, parent, c, child))
     /\ UNCHANGED fills

(* reject_child, mark_child_working and cancel_child leave a terminal child *)
(* alone.                                                                   *)
SetChildStatus(t, c, status) ==
  IF Terminal(children[c].status)
  THEN UNCHANGED <<memory, writes>>
  ELSE UpdateChild(t, c, [children[c] EXCEPT !.status = status])

RejectChild(t, c) == SetChildStatus(t, c, "Rejected")
CancelChild(t, c) == SetChildStatus(t, c, "Cancelled")
MarkChildWorking(t, c) ==
  SetChildStatus(t, c, IF children[c].filled > 0 THEN "PartiallyFilled" ELSE "Working")

(* record_fill takes at most what remains of a live child (mutants: any     *)
(* quantity; a child that was cancelled meanwhile).                         *)
MayFillBeyond(c, q) == ~Terminal(children[c].status)
MayFillCancelled(c, q) == q <= children[c].remaining
MayFill(c, q) == ~Terminal(children[c].status) /\ q <= children[c].remaining

RecordFill(t, c, q) ==
  LET p == children[c].parent
      f == NextId(fills)
      left == children[c].remaining - q
      child == [children[c] EXCEPT
                  !.filled = @ + q, !.remaining = left,
                  !.status = IF left = 0 THEN "Filled" ELSE "PartiallyFilled"]
      kids == [children EXCEPT ![c] = child]
      parent == Refreshed(parents[p], kids)
      fill == [parent |-> p, child |-> c, quantity |-> q]
  IN /\ MayFill(c, q)
     /\ children' = kids
     /\ parents' = [parents EXCEPT ![p] = parent]
     /\ fills' = Put(fills, f, fill)
     /\ Callback(t, NotifyFill(p, parent, c, child, f, fill))

(* The children after cancel_parent.                                        *)
ChildrenCancelled(p) ==
  [c \in DOMAIN children |->
     IF c \in parents[p].child_ids /\ ~Terminal(children[c].status)
     THEN [children[c] EXCEPT !.status = "Cancelled"] ELSE children[c]]

(* cancel_parent leaves a terminal parent alone; otherwise it cancels the   *)
(* live children and notifies once, and the callback writes the parent and  *)
(* every child.  The thread goes on with what `after' says.                 *)
CancelParent(t, p, after) ==
  LET kids == ChildrenCancelled(p)
      parent == [parents[p] EXCEPT !.status = "Cancelled"]
      rows == [c \in parents[p].child_ids |-> SaveChild(c, kids[c])]
      ordered == Ascending(parents[p].child_ids)
  IN IF Terminal(parents[p].status)
     THEN /\ UNCHANGED memory
          /\ writes' = [writes EXCEPT ![t] = @ \o after]
     ELSE /\ parents' = [parents EXCEPT ![p] = parent]
          /\ children' = kids
          /\ writes' = [writes EXCEPT ![t] = @ \o
               (IF callback_set
                THEN <<SaveParent(p, parent)>>
                       \o [i \in DOMAIN ordered |-> rows[ordered[i]]]
                ELSE <<>>) \o after]
          /\ UNCHANGED fills

-----------------------------------------------------------------------------
(* One step of a callback: a transaction of its own, or the position.       *)
Persist(t) ==
  LET w == Head(writes[t]) IN
  /\ writes[t] # <<>>
  /\ writes' = [writes EXCEPT ![t] = Tail(@)]
  /\ IF w.table = "positions"
     THEN positions' = positions \cup {w.id} /\ UNCHANGED db
     ELSE db' = [db EXCEPT ![w.table] = Put(@, w.id, w.row)] /\ UNCHANGED positions
  /\ UNCHANGED <<memory, callback_set>>

(* The parents as OmsStore::load returns them: child_ids are rebuilt from   *)
(* the child rows.                                                          *)
LoadedParents ==
  [p \in DOMAIN db.parents |->
     [db.parents[p] EXCEPT !.child_ids =
        {c \in DOMAIN db.children : db.children[c].parent = p}]]

(* load and restore in a new process, which has no mutation callback yet.   *)
Load ==
  /\ children' = db.children
  /\ fills' = db.fills
  /\ parents' = LoadedParents
  /\ callback_set' = FALSE
  /\ positions' = {}

=============================================================================
