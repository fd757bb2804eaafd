--------------------------- MODULE UpholsteryInventory ---------------------------
(***************************************************************************)
(* Fabric: what items require, what is in stock, in use and ordered          *)
(* (services/commands/upholstery, the upholstery commands of                 *)
(* services/commands/items, and what delete_task, restore_task and a step of *)
(* the installation section do to them).                                     *)
(*                                                                           *)
(* The inventory row of a fabric keeps its amounts beside the requirements   *)
(* they sum up; every command moves both.  A fabric may be without a row:    *)
(* one is created with the fabric, by a request, or by the first requirement *)
(* that needs it.  An item has at most one current item upholstery, with an  *)
(* active requirement and perhaps others: a surplus applied in part splits a *)
(* requirement in two.                                                       *)
(*                                                                           *)
(* A command is one transaction, and one step here.  That is a restriction:  *)
(* no command locks an inventory row, and two that overlap write one over    *)
(* the amounts of the other.                                                 *)
(*                                                                           *)
(* The order in which requirements are served comes from priorities in the   *)
(* request, dates of tasks and times of creation: any order here, kept apart *)
(* in tiers by state where no priority can be given.  Totals of fabric used  *)
(* are left out (no command reads them), and so are orders that are not yet  *)
(* ORDERED (no command moves them on), the deletion of an inventory row with *)
(* its fabric, events, notifications and history.                            *)
(***************************************************************************)
EXTENDS Integers, FiniteSets, Sequences, FiniteSetsExt, SequencesExt

CONSTANTS
  Items,     \* items, each with one task
  Fabrics,   \* upholsteries
  Slots,     \* bound: ids of requirements that still matter
  Orders,    \* bound: ids of open orders
  Selections,\* bound: pairs of a source and a fabric a request may name
  Amounts,   \* bound: meters a request may name
  Thresholds,\* bound: low-stock thresholds a request may name
  MaxStock,  \* bound: meters of a fabric in the house
  MaxOnOrder,\* bound: meters of a fabric on order
  MaxSteps,  \* bound: commands
  None       \* no fabric, no item, no requirement

Sources == {"INTERNAL", "CUSTOMER"}

ASSUME UpholsteryAssumption ==
  /\ IsFiniteSet(Items) /\ IsFiniteSet(Slots)
  /\ Selections \subseteq Sources \X (Fabrics \cup {None})
  /\ Amounts \subseteq Nat \ {0} /\ Thresholds \subseteq Nat \ {0}
  /\ MaxStock \in Nat /\ MaxOnOrder \in Nat /\ MaxSteps \in Nat
  /\ None \notin Items \cup Fabrics \cup Slots

DEMAND_REQUIREMENT_STATES == {"AVAILABLE", "NEEDS_ORDERING", "ORDERED"}
UNFINISHED_REQUIREMENT_STATES == DEMAND_REQUIREMENT_STATES \cup {"MISSING_QUANTITY", "IN_USE"}
MUTABLE_STATES == {"MISSING_QUANTITY", "AVAILABLE", "NEEDS_ORDERING"}
RequirementStates == UNFINISHED_REQUIREMENT_STATES \cup {"COMPLETED", "FAILED"}

VARIABLES
  db,     \* the tables: inv (of a fabric), iup (the current item upholstery of an item),
          \* req (requirements), order, gone (items whose task is deleted)
  steps,  \* bound: commands so far
  served  \* history: the fabric the last command distributed the stock of, or None

vars == <<db, steps, served>>

NoUpholstery  == [live |-> FALSE, source |-> "INTERNAL", fabric |-> None, amount |-> 0,
                  active |-> None]
NoRow         == [stored |-> 0, need |-> 0, use |-> 0, ordered |-> 0, low |-> 0,
                  cond |-> "NONE", stale |-> TRUE]
NoRequirement == [item |-> None, cur |-> FALSE, fabric |-> None, amount |-> 0,
                  state |-> "FAILED", byTask |-> FALSE]

-----------------------------------------------------------------------------
(* The rules, as functions from the tables before to the tables after.          *)

Max0(n)      == IF n > 0 THEN n ELSE 0
Meters(d, R) == MapThenSumSet(LAMBDA k : d.req[k].amount, R)
OfFabric(d, f, S) == {k \in Slots : d.req[k].fabric = f /\ d.req[k].state \in S}
OfItem(d, i)      == {k \in Slots : d.req[k].item = i /\ d.req[k].cur}

\* Mutants: a rule gone wrong.
PoolIsStock(d, f, C, incoming) == d.inv[f].stored      \* what others were promised is free
AnyReceipt(v, q) == TRUE                               \* more arrives than is on order
StopAtFirst(d, seq, pool, target) ==                   \* a requirement that does not fit ends it
  LET Step(acc, k) == IF ~acc.on \/ d.req[k].amount > acc.pool THEN [acc EXCEPT !.on = FALSE]
                      ELSE [acc EXCEPT !.pool = @ - d.req[k].amount, !.R = @ \cup {k}]
      R == FoldLeft(Step, [pool |-> pool, R |-> {}, on |-> TRUE], seq).R
  IN  [d EXCEPT !.req = [k \in Slots |-> IF k \in R THEN [@[k] EXCEPT !.state = target] ELSE @[k]]]
CancelDemandOnly(d, R, byTask) ==                      \* fabric in use does not come back
  LET Due(f) == Meters(d, OfFabric(d, f, DEMAND_REQUIREMENT_STATES) \cap R) IN
  [d EXCEPT !.inv = [f \in Fabrics |-> [@[f] EXCEPT !.need = Max0(@ - Due(f))]],
            !.req = [k \in Slots |->
               IF k \in R /\ @[k].state \in UNFINISHED_REQUIREMENT_STATES
               THEN [@[k] EXCEPT !.state = "FAILED", !.byTask = byTask] ELSE @[k]]]

\* domain/upholstery/condition_evaluation.py
evaluate_inventory_condition(v) ==
  LET net == v.stored - v.need IN
  IF net <= 0 THEN "OUT_OF_STOCK"
  ELSE IF v.low # 0 /\ net <= v.low THEN "LOW_STOCK" ELSE "AVAILABLE"

\* The condition is evaluated from the amounts and the threshold of the row.
Evaluated(v) == [v EXCEPT !.cond = evaluate_inventory_condition(v), !.stale = FALSE]

sufficient(v) == v.stored - v.need >= 0

\* The guards of the mutations that take from stored or in use, and from ordered.
Covered(v, ds, du) == v.stored + ds >= 0 /\ v.use + du >= 0
Confirmable(v, q)  == v.ordered - q >= 0

\* The row of f is created if there is none; it is evaluated at once.
check_and_inject_need(d, f, q) ==
  LET v == d.inv[f] IN [d EXCEPT !.inv[f] = Evaluated([v EXCEPT !.need = v.need + q])]
adjust_need(d, f, delta) ==
  LET v == d.inv[f] IN [d EXCEPT !.inv[f] = Evaluated([v EXCEPT !.need = Max0(v.need + delta)])]
add_ordered(d, f, q) == [d EXCEPT !.inv[f].ordered = @ + q]
confirm_ordered_to_stock(d, f, q) ==
  LET v == d.inv[f] IN
  [d EXCEPT !.inv[f] = Evaluated([v EXCEPT !.ordered = v.ordered - q, !.stored = v.stored + q])]
add_stored_surplus(d, f, q) ==
  LET v == d.inv[f] IN [d EXCEPT !.inv[f] = Evaluated([v EXCEPT !.stored = v.stored + q])]

\* consume_to_in_use, finish_in_use and complete_available_direct on the requirements R,
\* which go to target.  The condition is not evaluated: net does not change.
InUse(d, f, R) == Meters(d, OfFabric(d, f, {"IN_USE"}) \cap R)
Ready(d, f, R) == Meters(d, OfFabric(d, f, {"AVAILABLE"}) \cap R)
Taken(d, f, R, target) == IF target = "IN_USE" THEN Ready(d, f, R) ELSE -InUse(d, f, R)
Promotable(d, R, target) ==
  \A f \in Fabrics : Covered(d.inv[f], -Ready(d, f, R), Taken(d, f, R, target))
Promote(d, R, target) ==
  LET After(f, v) == [v EXCEPT !.stored = v.stored - Ready(d, f, R),
                               !.use = v.use + Taken(d, f, R, target),
                               !.need = Max0(v.need - Ready(d, f, R))]
  IN  [d EXCEPT
         !.inv = [f \in Fabrics |-> After(f, d.inv[f])],
         !.req = [k \in Slots |-> IF k \in R THEN [d.req[k] EXCEPT !.state = target] ELSE d.req[k]]]

\* Unfinished requirements fail; what they hold goes back.
Cancellable(d, R) == \A f \in Fabrics : Covered(d.inv[f], InUse(d, f, R), -InUse(d, f, R))
cancel_requirements_in_session(d, R, byTask) ==
  LET Due(f) == Meters(d, OfFabric(d, f, DEMAND_REQUIREMENT_STATES) \cap R)
      Back(f, v) ==
        IF Due(f) = 0 /\ InUse(d, f, R) = 0 THEN v
        ELSE Evaluated([v EXCEPT !.need = Max0(v.need - Due(f)),
                                 !.stored = v.stored + InUse(d, f, R),
                                 !.use = v.use - InUse(d, f, R)])
  IN  [d EXCEPT !.inv = [f \in Fabrics |-> Back(f, d.inv[f])],
                !.req = [k \in Slots |->
                   IF k \in R /\ d.req[k].state \in UNFINISHED_REQUIREMENT_STATES
                   THEN [d.req[k] EXCEPT !.state = "FAILED", !.byTask = byTask] ELSE d.req[k]]]

\* A new requirement k becomes the active one of item i.
_create_initial_requirement(d, i, k) ==
  LET u     == d.iup[i]
      ours  == u.amount # 0 /\ u.source # "CUSTOMER"
      e     == IF ours THEN check_and_inject_need(d, u.fabric, u.amount) ELSE d
      state == IF ours THEN IF sufficient(e.inv[u.fabric]) THEN "AVAILABLE" ELSE "NEEDS_ORDERING"
               ELSE IF u.amount = 0 THEN "MISSING_QUANTITY" ELSE "AVAILABLE"
  IN  [e EXCEPT !.iup[i].active = k,
                !.req[k] = [item |-> i, cur |-> TRUE, fabric |-> IF ours THEN u.fabric ELSE None,
                            amount |-> u.amount, state |-> state, byTask |-> FALSE]]

should_defer_requirement_creation(s, f, q) == s = "INTERNAL" /\ f = None /\ q # 0
Selected(s, f, q) == ~(s = "INTERNAL" /\ f = None /\ q = 0)

_create_item_upholstery(d, i, s, f, q, k) ==
  LET e == [d EXCEPT !.iup[i] = [live |-> TRUE, source |-> s, fabric |-> f, amount |-> q,
                                 active |-> None]]
  IN  IF should_defer_requirement_creation(s, f, q) THEN e
      ELSE _create_initial_requirement(e, i, k)

\* The item upholstery of i is deleted; its requirements stay behind.
Dropped(d, i) ==
  [d EXCEPT !.iup[i] = NoUpholstery,
            !.req = [k \in Slots |-> IF @[k].item = i THEN [@[k] EXCEPT !.cur = FALSE] ELSE @[k]]]

\* Whether, and how, the current item upholstery of i is given s, f and q.
Swaps(d, i, s, f) == s # d.iup[i].source \/ f # d.iup[i].fabric
MayUpdate(d, i, s, f, q) ==
  /\ d.iup[i].live /\ Selected(s, f, q)
  /\ LET k == d.iup[i].active IN
     Swaps(d, i, s, f) /\ k # None =>
       /\ d.req[k].state # "COMPLETED" /\ Cancellable(d, {k})
       /\ ~(s # "CUSTOMER" /\ f = None)
_update_item_upholstery(d, i, s, f, q, k) ==
  LET u   == d.iup[i]
      set == [u EXCEPT !.source = s, !.fabric = f, !.amount = q]
  IN  IF ~Swaps(d, i, s, f) THEN [d EXCEPT !.iup[i].amount = q]
      ELSE IF u.active = None
      THEN IF s = "INTERNAL" /\ f # None
           THEN _create_initial_requirement([d EXCEPT !.iup[i] = set], i, k)
           ELSE [d EXCEPT !.iup[i] = set]
      ELSE _create_initial_requirement(
             [cancel_requirements_in_session(d, {u.active}, FALSE) EXCEPT !.iup[i] = set], i, k)

\* Whether, and how, the requirement of i is given the quantity q.
MayRequire(d, i, q) ==
  LET u == d.iup[i]
      r == d.req[u.active] IN
  /\ u.live
  /\ \/ u.active = None /\ u.source = "INTERNAL" /\ u.fabric = None
     \/ /\ u.active # None /\ r.state \in MUTABLE_STATES
        /\ r.fabric = None /\ u.fabric # None => r.state = "MISSING_QUANTITY"
_update_quantity(d, i, q) ==
  LET u == d.iup[i]
      k == u.active
      r == d.req[k]
      e == [d EXCEPT !.iup[i].amount = q]
      Require(b, f) ==
        [b EXCEPT !.req[k] = [@ EXCEPT !.amount = q, !.fabric = f,
           !.state = IF f = None \/ sufficient(b.inv[f]) THEN "AVAILABLE" ELSE "NEEDS_ORDERING"]]
  IN  IF k = None THEN e
      ELSE IF r.fabric = None /\ u.fabric = None THEN Require(e, None)
      ELSE IF r.state = "MISSING_QUANTITY"
      THEN Require(check_and_inject_need(e, u.fabric, q), u.fabric)
      ELSE IF q = r.amount THEN e
      ELSE Require(adjust_need(e, r.fabric, q - r.amount), r.fabric)

\* Requirements are served in the order seq while they fit into the pool; those that do
\* not fit are passed over.
run_skip_and_continue_allocation(d, seq, pool, target) ==
  LET Step(acc, k) == IF acc.pool - d.req[k].amount < 0 THEN acc
                      ELSE [pool |-> acc.pool - d.req[k].amount, R |-> acc.R \cup {k}]
      R == FoldLeft(Step, [pool |-> pool, R |-> {}], seq).R
  IN  [d EXCEPT !.req = [k \in Slots |-> IF k \in R THEN [@[k] EXCEPT !.state = target] ELSE @[k]]]

\* What the candidates C may have: the stock, and what is ordered if incoming, less what
\* the other requirements need.
calculate_pooled_requirement_pool(d, f, C, incoming) ==
  LET v == d.inv[f] IN
  v.stored + (IF incoming THEN v.ordered ELSE 0) - (v.need - Meters(d, C))

allocate_pooled_requirements(d, f, seq, target) ==
  run_skip_and_continue_allocation(d, seq,
    calculate_pooled_requirement_pool(d, f, ToSet(seq), target = "ORDERED"), target)

\* AVAILABLE requirements give way in the order seq until the stock covers the rest.
_demote_available_requirements(d, f, seq) ==
  LET deficit == Max0(Meters(d, ToSet(seq)) - d.inv[f].stored)
      Step(acc, k) == IF acc.out >= deficit THEN acc
                      ELSE [out |-> acc.out + d.req[k].amount, R |-> acc.R \cup {k}]
      R == FoldLeft(Step, [out |-> 0, R |-> {}], seq).R
  IN  [d EXCEPT !.req = [k \in Slots |->
         IF k \in R THEN [@[k] EXCEPT !.state = "NEEDS_ORDERING"] ELSE @[k]]]

-----------------------------------------------------------------------------
(* The tables.                                                                *)

\* The row of a fabric that was created with some stock.
create_upholstery(stored) == Evaluated([NoRow EXCEPT !.stored = stored])

HasRow(f) == db.inv[f].cond # "NONE"

\* Some fabrics with some stock, and the requirements of some items created one after the
\* other.
Init ==
  /\ \E listed \in SUBSET Fabrics, stored \in [Fabrics -> 0..MaxStock], seq \in SetToSeqs(Items),
        want \in [Items -> Amounts \cup {0, None}], fabric \in [Items -> Fabrics],
        slot \in Injection(Items, Slots) :
       LET none == [inv |-> [f \in Fabrics |->
                              IF f \in listed THEN create_upholstery(stored[f]) ELSE NoRow],
                    iup |-> [i \in Items |-> NoUpholstery],
                    req |-> [k \in Slots |-> NoRequirement],
                    order |-> [o \in Orders |-> [fabric |-> None, left |-> 0]], gone |-> {}]
           Created(d, i) ==
             IF want[i] = None THEN d
             ELSE _create_item_upholstery(d, i, "INTERNAL", fabric[i], want[i], slot[i])
       IN  db = FoldLeft(Created, none, seq)
  /\ steps = 0 /\ served = None

\* A requirement that is settled and not the active one is never looked at again.
Tidy(d) ==
  [d EXCEPT !.req = [k \in Slots |->
     IF @[k].state \in {"COMPLETED", "FAILED"} /\ \A i \in Items : d.iup[i].active # k
     THEN NoRequirement ELSE @[k]]]

Fresh == {k \in Slots : db.req[k] = NoRequirement}

CommitServing(new, f) ==
  /\ steps < MaxSteps /\ steps' = steps + 1
  /\ db' = Tidy(new) /\ served' = f
Commit(new) == CommitServing(new, None)

-----------------------------------------------------------------------------
(* The commands.                                                              *)

\* POST /item-upholsteries, create_item and create_task: the current item upholstery is
\* updated, or replaced when its requirement has ended.
create_item_upholstery(i, s, f, q) ==
  LET k == db.iup[i].active
      ended == k # None /\ db.req[k].state \in {"COMPLETED", "FAILED"} IN
  /\ Selected(s, f, q)
  /\ \E n \in Fresh :
       \/ /\ ~db.iup[i].live \/ ended
          /\ Commit(_create_item_upholstery(Dropped(db, i), i, s, f, q, n))
       \/ /\ db.iup[i].live /\ ~ended /\ MayUpdate(db, i, s, f, q)
          /\ LET e == _update_item_upholstery(db, i, s, f, q, n)
                 requantify == ~Swaps(db, i, s, f) /\ q \notin {0, db.iup[i].amount} /\ k # None
             IN  /\ requantify => MayRequire(e, i, q)
                 /\ Commit(IF requantify THEN _update_quantity(e, i, q) ELSE e)

update_item_upholstery(i, s, f, q) ==
  /\ MayUpdate(db, i, s, f, q)
  /\ \E n \in Fresh : Commit(_update_item_upholstery(db, i, s, f, q, n))

delete_item_upholstery(i) ==
  LET R == {db.iup[i].active} \ {None} IN
  /\ db.iup[i].live /\ \A k \in R : db.req[k].state # "COMPLETED"
  /\ Cancellable(db, R)
  /\ Commit(Dropped(cancel_requirements_in_session(db, R, FALSE), i))

update_requirement_quantity(i, q) ==
  MayRequire(db, i, q) /\ Commit(_update_quantity(db, i, q))

apply_surplus_to_requirement(i, q) ==
  LET k == db.iup[i].active
      f == db.req[k].fabric
      e == add_stored_surplus(db, f, q) IN
  /\ db.iup[i].live /\ k # None /\ db.req[k].state \in {"NEEDS_ORDERING", "ORDERED"}
  /\ q <= db.req[k].amount
  /\ db.inv[f].stored + db.inv[f].use + q <= MaxStock
  /\ \/ /\ q = db.req[k].amount
        /\ Commit([e EXCEPT !.req[k].state = "AVAILABLE"])
     \/ /\ q < db.req[k].amount
        /\ \E n \in Fresh :
             Commit([e EXCEPT !.req[k].amount = @ - q,
                      !.req[n] = [db.req[k] EXCEPT !.amount = q, !.state = "AVAILABLE"]])

\* By hand, or by a step of the installation section that starts or completes.
mark_requirements_in_use(i) ==
  LET R == {k \in OfItem(db, i) : db.req[k].state = "AVAILABLE"} IN
  /\ R # {} /\ Promotable(db, R, "IN_USE") /\ Commit(Promote(db, R, "IN_USE"))

mark_requirements_completed(i) ==
  LET R == {k \in OfItem(db, i) : db.req[k].state \in {"AVAILABLE", "IN_USE"}} IN
  /\ R # {} /\ Promotable(db, R, "COMPLETED") /\ Commit(Promote(db, R, "COMPLETED"))

complete_single_requirement(k) ==
  /\ db.req[k].state = "IN_USE" /\ Promotable(db, {k}, "COMPLETED")
  /\ Commit(Promote(db, {k}, "COMPLETED"))

\* Donors give up what was theirs, and what needs ordering is served from it.
reallocate_stock(f, D) ==
  LET G == {k \in OfFabric(db, f, {"AVAILABLE"}) : db.req[k].cur /\ db.req[k].item \in D}
      e == [db EXCEPT !.req = [k \in Slots |->
              IF k \in G THEN [@[k] EXCEPT !.state = "NEEDS_ORDERING"] ELSE @[k]]] IN
  /\ G # {}
  /\ \E seq \in SetToSeqs(OfFabric(e, f, {"NEEDS_ORDERING"})) :
       Commit(run_skip_and_continue_allocation(e, seq, Meters(db, G), "AVAILABLE"))

mark_requirements_ordered(f, q) ==
  \E seq \in SetToSeqs(OfFabric(db, f, {"NEEDS_ORDERING"})) :
    Commit(run_skip_and_continue_allocation(db, seq, q, "ORDERED"))

resolve_requirements_after_stock(f) ==
  LET C == OfFabric(db, f, {"ORDERED", "NEEDS_ORDERING"}) IN
  /\ C # {}
  /\ \E seq \in SetToSeqs(C) :
       CommitServing(allocate_pooled_requirements(db, f, seq, "AVAILABLE"), f)

create_upholstery_order(o, f, q) ==
  LET e == [add_ordered(db, f, q) EXCEPT !.order[o] = [fabric |-> f, left |-> q]] IN
  /\ HasRow(f)
  /\ db.order[o].left = 0 /\ db.inv[f].ordered + q <= MaxOnOrder
  /\ \E seq \in SetToSeqs(OfFabric(e, f, {"NEEDS_ORDERING"})) :
       Commit(allocate_pooled_requirements(e, f, seq, "ORDERED"))

receive_upholstery_order(o, q) ==
  LET f == db.order[o].fabric
      e == confirm_ordered_to_stock([db EXCEPT !.order[o].left = @ - q], f, q) IN
  /\ q <= db.order[o].left /\ Confirmable(db.inv[f], q)
  /\ db.inv[f].stored + db.inv[f].use + q <= MaxStock
  /\ \E seq \in SetToSeqs(OfFabric(db, f, {"ORDERED", "NEEDS_ORDERING"})) :
       CommitServing(allocate_pooled_requirements(e, f, seq, "AVAILABLE"), f)

\* The ordered amount written by hand, with no order behind it.
add_ordered_to_inventory(f, q) ==
  /\ HasRow(f) /\ db.inv[f].ordered + q <= MaxOnOrder
  /\ Commit(add_ordered(db, f, q))

confirm_ordered_to_stock_inventory(f, q) ==
  LET v == db.inv[f] IN
  /\ Confirmable(v, q) /\ v.stored + v.use + q <= MaxStock
  /\ Commit(confirm_ordered_to_stock(db, f, q))

\* Too little stock takes requirements back, then what is free serves those that wait.
set_current_stored_amount(f, n) ==
  LET e == [db EXCEPT !.inv[f] = Evaluated([@ EXCEPT !.stored = n])] IN
  /\ HasRow(f) /\ n # db.inv[f].stored /\ n + db.inv[f].use <= MaxStock
  /\ \E down \in SetToSeqs(OfFabric(db, f, {"AVAILABLE"})) :
       LET b == _demote_available_requirements(e, f, down) IN
       \E first \in SetToSeqs(OfFabric(b, f, {"ORDERED"})),
          rest  \in SetToSeqs(OfFabric(b, f, {"NEEDS_ORDERING"})) :
         CommitServing(allocate_pooled_requirements(b, f, first \o rest, "AVAILABLE"), f)

\* A row by request: AVAILABLE, with nothing in stock and whatever threshold.
create_upholstery_inventory(f, n) ==
  /\ ~HasRow(f)
  /\ Commit([db EXCEPT !.inv[f] = [NoRow EXCEPT !.low = n, !.cond = "AVAILABLE"]])

\* A new threshold; the condition is left as it is.
update_upholstery_inventory(f, n) ==
  /\ HasRow(f) /\ n # db.inv[f].low
  /\ Commit([db EXCEPT !.inv[f].low = n, !.inv[f].stale = TRUE])

delete_task(i) ==
  LET R == OfItem(db, i) IN
  /\ i \notin db.gone
  /\ Cancellable(db, R)
  /\ Commit([cancel_requirements_in_session(db, R, TRUE) EXCEPT !.gone = @ \cup {i}])

\* The need the deletion cancelled is revived in a new item upholstery.
restore_task(i) ==
  LET d == [db EXCEPT !.gone = @ \ {i}]
      u == d.iup[i]
      r == d.req[u.active] IN
  /\ i \in db.gone
  /\ IF u.live /\ u.active # None /\ r.state = "FAILED" /\ r.byTask
     THEN \E n \in Fresh :
            Commit(_create_item_upholstery(Dropped(d, i), i, u.source, u.fabric, r.amount, n))
     ELSE Commit(d)

Next ==
  \/ \E i \in Items :
       \/ \E c \in Selections, q \in Amounts \cup {0} :
            \/ create_item_upholstery(i, c[1], c[2], q)
            \/ update_item_upholstery(i, c[1], c[2], q)
       \/ \E q \in Amounts :
            update_requirement_quantity(i, q) \/ apply_surplus_to_requirement(i, q)
       \/ delete_item_upholstery(i) \/ delete_task(i) \/ restore_task(i)
       \/ mark_requirements_in_use(i) \/ mark_requirements_completed(i)
  \/ \E k \in Slots : complete_single_requirement(k)
  \/ \E f \in Fabrics :
       \/ \E D \in SUBSET Items : reallocate_stock(f, D)
       \/ \E q \in Amounts :
            \/ mark_requirements_ordered(f, q)
            \/ add_ordered_to_inventory(f, q) \/ confirm_ordered_to_stock_inventory(f, q)
            \/ \E o \in Orders : create_upholstery_order(o, f, q)
       \/ resolve_requirements_after_stock(f)
       \/ \E n \in Thresholds \cup {0} : create_upholstery_inventory(f, n)
       \/ \E n \in Thresholds : update_upholstery_inventory(f, n)
       \/ \E n \in 0..MaxStock : set_current_stored_amount(f, n)
  \/ \E o \in Orders, q \in Amounts : receive_upholstery_order(o, q)

Spec == Init /\ [][Next]_vars

-----------------------------------------------------------------------------
(* Properties.                                                                *)

\* The columns have their types and no amount is ever below zero; an active requirement is
\* its item's own.
TypeOK ==
  /\ db.inv \in [Fabrics -> [stored: Nat, need: Nat, use: Nat, ordered: Nat, low: Nat,
       cond: {"NONE", "AVAILABLE", "LOW_STOCK", "OUT_OF_STOCK"}, stale: BOOLEAN]]
  /\ \A i \in Items : /\ db.iup[i].active \in Slots \cup {None}
                      /\ db.iup[i].active # None => db.req[db.iup[i].active].item = i
  /\ \A k \in Slots : db.req[k].state \in RequirementStates /\ db.req[k].amount \in Nat
  /\ \A o \in Orders : db.order[o].left \in Nat
  /\ db.gone \subseteq Items /\ steps \in 0..MaxSteps

\* The amount in need is what the requirements demand, and the amount in use what those
\* in use hold, after any sequence of creating, swapping, splitting, promoting, cancelling
\* and reviving them.  Once the condition has been evaluated it is what the amounts say,
\* although several mutations do not evaluate it, until a new threshold leaves it behind; a
\* row created by request says AVAILABLE until then, with nothing in stock
\* (create_upholstery_inventory.py:46).
AmountsAddUp ==
  \A f \in Fabrics :
    /\ db.inv[f].need = Meters(db, OfFabric(db, f, DEMAND_REQUIREMENT_STATES))
    /\ db.inv[f].use = Meters(db, OfFabric(db, f, {"IN_USE"}))
    /\ db.inv[f].stale \/ db.inv[f].cond = evaluate_inventory_condition(db.inv[f])

\* What is promised is there: the AVAILABLE requirements of a fabric never exceed its
\* stock, so starting or completing the work is never refused for want of fabric
\* (consume_to_in_use, complete_available_direct).
AvailableIsCovered ==
  \A f \in Fabrics :
    Meters(db, OfFabric(db, f, {"AVAILABLE"})) <= db.inv[f].stored

\* When stock has been distributed (an order received, the stock counted, requirements
\* resolved), no waiting requirement is left that the free stock could serve.
NothingIdle ==
  served # None =>
    \A k \in OfFabric(db, served, {"ORDERED", "NEEDS_ORDERING"}) :
      db.req[k].amount >
        db.inv[served].stored - Meters(db, OfFabric(db, served, {"AVAILABLE"}))

\* What does not hold: a requirement split off by a surplus outlives its item upholstery,
\* since only the active one is cancelled, and keeps its fabric
\* (update_and_delete_item_upholstery.py:291).
DemandHasOwner ==
  \A k \in Slots : db.req[k].state \in DEMAND_REQUIREMENT_STATES => db.req[k].cur
=================================================================================
