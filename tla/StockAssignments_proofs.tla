------------------------- MODULE StockAssignments_proofs -------------------------
(***************************************************************************)
(* Proofs about the stock report's ledgers, for any number of rows, tasks,   *)
(* assignments, sessions and edits.                                          *)
(*                                                                           *)
(* The ledgers are right because every command moves assignments through one *)
(* rule: what that rule adds to the counters and to the goals is what it does *)
(* to the sets they count.  A task is followed because a task command that   *)
(* has written the task's state holds the task until it has moved every      *)
(* active assignment of it, and nobody creates one meanwhile.                *)
(***************************************************************************)
EXTENDS StockAssignments, FiniteSetTheorems, TLAPS

-----------------------------------------------------------------------------
(* Counting.                                                                 *)

LEMMA CardIsNat == ASSUME NEW S \in SUBSET Asgs PROVE Cardinality(S) \in Nat /\ IsFiniteSet(S)
BY FS_Subset, FS_CardinalityType, StockAssumption

\* Some leave a set and others, not in what is left of it, enter.
LEMMA CardAfter ==
  ASSUME NEW A \in SUBSET Asgs, NEW L \in SUBSET A, NEW E \in SUBSET Asgs, (A \ L) \cap E = {}
  PROVE  Cardinality((A \ L) \cup E) = Cardinality(A) + (Cardinality(E) - Cardinality(L))
<1>1. /\ IsFiniteSet(A) /\ IsFiniteSet(A \ L) /\ IsFiniteSet(E)
      /\ Cardinality(A) \in Nat /\ Cardinality(L) \in Nat /\ Cardinality(E) \in Nat
      /\ Cardinality(A \ L) \in Nat
  BY CardIsNat
<1>2. Cardinality(A \ L) = Cardinality(A) - Cardinality(L)
  <2>1. A \cap L = L
    OBVIOUS
  <2>2. Cardinality(A \ L) = Cardinality(A) - Cardinality(A \cap L)
    BY <1>1, FS_Difference
  <2> QED BY <2>1, <2>2
<1>3. Cardinality((A \ L) \cup E) = Cardinality(A \ L) + Cardinality(E)
  <2>1. Cardinality((A \ L) \cap E) = 0
    BY FS_EmptySet
  <2>2. Cardinality((A \ L) \cup E)
          = Cardinality(A \ L) + Cardinality(E) - Cardinality((A \ L) \cap E)
    BY <1>1, FS_Union
  <2> QED BY <1>1, <2>1, <2>2
<1> QED BY <1>1, <1>2, <1>3

-----------------------------------------------------------------------------
(* The rule that moves assignments.                                          *)

AsgStates == {"none"} \cup ACTIVE_ASSIGNMENT_STATES \cup TERMINAL_ASSIGNMENT_STATES
AsgRow  == [state : AsgStates, deleted : BOOLEAN, credit : Nat]
RowRow  == [live : {"no", "yes", "deleted"}, requested : Nat, cnt : [ACTIVE_ASSIGNMENT_STATES -> Nat]]
TaskRow == [state : TaskStates, deleted : BOOLEAN, linked : BOOLEAN, flag : BOOLEAN]

Tables == asg \in [Asgs -> AsgRow] /\ row \in [Rows -> RowRow] /\ goal \in [Rows -> Seq(Nat)]

\* An assignment that does not exist is blank, credit is given late, to a goal that exists,
\* and only on rows Scanner has named.
Standing ==
  \A a \in Asgs :
    /\ asg[a].state = "none" => ~asg[a].deleted
    /\ asg[a].state \in {"none", "in_queue", "in_progress"} => asg[a].credit = 0
    /\ asg[a].credit <= Len(goal[RowOf[a]])
    /\ asg[a].state # "none" => row[RowOf[a]].live # "no"

\* What the commands move.
Movable(M, to) ==
  /\ M \in SUBSET Asgs /\ _assert_allowed_move(M, to)
  /\ \A a \in M : \/ asg[a].state # "none"
                  \/ to[a] \in ACTIVE_ASSIGNMENT_STATES /\ row[RowOf[a]].live = "yes"

LEMMA ToIs ==
  ASSUME Tables, NEW M, NEW to, Movable(M, to), NEW a \in M
  PROVE  /\ a \in Asgs
         /\ to[a] \in ACTIVE_ASSIGNMENT_STATES \cup TERMINAL_ASSIGNMENT_STATES \cup {"DELETE"}
         /\ to[a] # "DELETE" => asg[a].state \in {"none"} \cup ACTIVE_ASSIGNMENT_STATES
         /\ to[a] = "DELETE" => asg[a].state # "none"
BY DEF Movable, _assert_allowed_move, ACTIVE_ASSIGNMENT_STATES, TERMINAL_ASSIGNMENT_STATES

LEMMA GoalIs ==
  ASSUME Tables, NEW r \in Rows
  PROVE  current_goal(r) \in Nat /\ current_goal(r) <= Len(goal[r]) /\ Len(goal[r]) \in Nat
<1>1. PICK n \in Nat : n = Len(goal[r])
  BY DEF Tables
<1> QED BY <1>1 DEF current_goal

\* What a move does to one assignment.
MovedTo(m, M, to, a) ==
  /\ a \notin M => m[a] = asg[a]
  /\ a \in M =>
       /\ m[a].state = IF to[a] = "DELETE" THEN asg[a].state ELSE to[a]
       /\ m[a].deleted <=> to[a] = "DELETE" \/ asg[a].deleted
       /\ m[a].credit = IF a \in _credit_current_goal(M, to) THEN current_goal(RowOf[a])
                        ELSE IF a \in _uncredit(M, to) THEN 0 ELSE asg[a].credit

LEMMA MovedIs ==
  ASSUME Tables, NEW M, NEW to, Movable(M, to), NEW m, m = Moved(M, to)
  PROVE  m \in [Asgs -> AsgRow] /\ \A a \in Asgs : MovedTo(m, M, to, a)
<1>1. ASSUME NEW a \in Asgs PROVE m[a] \in AsgRow /\ MovedTo(m, M, to, a)
  <2>1. PICK o \in AsgRow : o = asg[a]
    BY DEF Tables
  <2>2. PICK c : c = IF a \in _credit_current_goal(M, to) THEN current_goal(RowOf[a])
                     ELSE IF a \in _uncredit(M, to) THEN 0 ELSE asg[a].credit
    OBVIOUS
  <2>3. c \in Nat
    <3>1. RowOf[a] \in Rows
      BY StockAssumption
    <3>2. current_goal(RowOf[a]) \in Nat
      BY <3>1, GoalIs
    <3> QED BY <2>1, <2>2, <3>2 DEF AsgRow
  <2>4. CASE a \notin M
    BY <2>1, <2>4 DEF Moved, MovedTo
  <2>5. CASE a \in M
    <3>1. PICK st, del : /\ st = IF to[a] = "DELETE" THEN asg[a].state ELSE to[a]
                         /\ del = (to[a] = "DELETE" \/ asg[a].deleted)
      OBVIOUS
    <3>2. m[a] = [state |-> st, deleted |-> del, credit |-> c]
      BY <2>2, <2>5, <3>1 DEF Moved
    <3>3. st \in AsgStates /\ del \in BOOLEAN
      BY <2>1, <2>5, <3>1, ToIs DEF AsgRow, AsgStates
    <3>4. m[a] \in AsgRow /\ m[a].state = st /\ m[a].deleted = del /\ m[a].credit = c
      BY <2>3, <3>2, <3>3 DEF AsgRow
    <3>5. m[a].deleted <=> to[a] = "DELETE" \/ asg[a].deleted
      BY <3>1, <3>4
    <3> QED BY <2>2, <2>5, <3>1, <3>4, <3>5 DEF MovedTo
  <2> QED BY <2>4, <2>5
<1>2. m = [a \in Asgs |-> m[a]]
  BY DEF Moved
<1> QED BY <1>1, <1>2

On(t, r, st) == {a \in Kept(t) : RowOf[a] = r /\ t[a].state = st}
Leaves(M, r, st) == {a \in M : RowOf[a] = r /\ asg[a].state = st}
Enters(M, to, r, st) == {a \in M : RowOf[a] = r /\ to[a] = st}

LEMMA OnAfter ==
  ASSUME Tables, NEW M, NEW to, Movable(M, to), NEW m, m = Moved(M, to),
         NEW r \in Rows, \A a \in M : RowOf[a] = r => ~asg[a].deleted,
         NEW st \in ACTIVE_ASSIGNMENT_STATES
  PROVE  Cardinality(On(m, r, st)) = Cardinality(On(asg, r, st))
           + (Cardinality(Enters(M, to, r, st)) - Cardinality(Leaves(M, r, st)))
<1>1. PICK A, L, E : A = On(asg, r, st) /\ L = Leaves(M, r, st) /\ E = Enters(M, to, r, st)
  OBVIOUS
<1>2. st # "none" /\ st # "DELETE" /\ st \notin TERMINAL_ASSIGNMENT_STATES
  BY DEF ACTIVE_ASSIGNMENT_STATES, TERMINAL_ASSIGNMENT_STATES
<1>3. M \subseteq Asgs
  BY DEF Movable
<1>4. A \in SUBSET Asgs /\ L \in SUBSET A /\ E \in SUBSET Asgs
  BY <1>1, <1>2, <1>3 DEF On, Leaves, Enters, Kept
<1>5. (A \ L) \cap E = {}
  BY <1>1 DEF On, Leaves, Enters
<1>6. ASSUME NEW a \in Asgs PROVE a \in On(m, r, st) <=> a \in (A \ L) \cup E
  <2>1. MovedTo(m, M, to, a)
    BY MovedIs
  <2>2. CASE a \notin M
    BY <1>1, <2>1, <2>2 DEF MovedTo, On, Leaves, Enters, Kept
  <2>3. CASE a \in M /\ RowOf[a] = r
    <3>1. ~asg[a].deleted
      BY <2>3
    <3>2. /\ m[a].state = IF to[a] = "DELETE" THEN asg[a].state ELSE to[a]
          /\ m[a].deleted <=> to[a] = "DELETE"
      BY <2>1, <2>3, <3>1 DEF MovedTo
    <3>3. a \in On(m, r, st) <=> to[a] = st
      BY <1>2, <2>3, <3>2 DEF On, Kept
    <3>4. a \in E <=> to[a] = st
      BY <1>1, <2>3 DEF Enters
    <3>5. a \notin A \ L
      BY <1>1, <2>3 DEF On, Leaves
    <3> QED BY <3>3, <3>4, <3>5
  <2>4. CASE RowOf[a] # r
    BY <1>1, <2>4 DEF On, Enters
  <2> QED BY <2>2, <2>3, <2>4
<1>7. On(m, r, st) = (A \ L) \cup E
  BY <1>4, <1>6 DEF On, Kept
<1> QED BY <1>1, <1>4, <1>5, <1>7, CardAfter

\* The counters of a row keep adding up when what moves on it is not deleted.
LEMMA CountersFollow ==
  ASSUME Tables, NEW M, NEW to, Movable(M, to),
         NEW r \in Rows, \A a \in M : RowOf[a] = r => ~asg[a].deleted,
         row[r].cnt = recompute_row_counters(asg, r)
  PROVE  _apply_counter_delta(M, to, r) = recompute_row_counters(Moved(M, to), r)
<1>1. PICK m : m = Moved(M, to)
  OBVIOUS
<1> DEFINE new == [st \in ACTIVE_ASSIGNMENT_STATES |-> row[r].cnt[st] + _delta_vector(M, to, r)[st]]
           all == [st \in ACTIVE_ASSIGNMENT_STATES |-> Cardinality(On(m, r, st))]
<1>2. recompute_row_counters(m, r) = all
  BY DEF recompute_row_counters, On
<1>3. ASSUME NEW st \in ACTIVE_ASSIGNMENT_STATES PROVE new[st] = all[st]
  <2>1. row[r].cnt[st] = Cardinality(On(asg, r, st))
    BY DEF recompute_row_counters, On
  <2>2. _delta_vector(M, to, r)[st] = Cardinality(Enters(M, to, r, st)) - Cardinality(Leaves(M, r, st))
    BY DEF _delta_vector, Enters, Leaves
  <2>3. all[st] = Cardinality(On(asg, r, st))
                   + (Cardinality(Enters(M, to, r, st)) - Cardinality(Leaves(M, r, st)))
    BY <1>1, OnAfter
  <2>4. new[st] = row[r].cnt[st] + _delta_vector(M, to, r)[st]
    OBVIOUS
  <2> QED BY <2>1, <2>2, <2>3, <2>4
<1>4. new = all
  BY <1>3
<1>5. _apply_counter_delta(M, to, r) = IF \A st \in ACTIVE_ASSIGNMENT_STATES : new[st] >= 0
                                       THEN new ELSE recompute_row_counters(m, r)
  BY <1>1 DEF _apply_counter_delta
<1> HIDE DEF new, all
<1> QED BY <1>1, <1>2, <1>4, <1>5

\* Whatever has drifted, no counter goes negative.
LEMMA CountersTyped ==
  ASSUME Tables, NEW M, NEW to, Movable(M, to), NEW r \in Rows
  PROVE  _apply_counter_delta(M, to, r) \in [ACTIVE_ASSIGNMENT_STATES -> Nat]
<1> DEFINE new == [st \in ACTIVE_ASSIGNMENT_STATES |-> row[r].cnt[st] + _delta_vector(M, to, r)[st]]
<1>1. PICK m : m = Moved(M, to)
  OBVIOUS
<1>2. ASSUME NEW st \in ACTIVE_ASSIGNMENT_STATES PROVE new[st] \in Int
  <2>1. row[r].cnt[st] \in Nat
    BY DEF Tables, RowRow
  <2>2. _delta_vector(M, to, r)[st] = Cardinality(Enters(M, to, r, st)) - Cardinality(Leaves(M, r, st))
    BY DEF _delta_vector, Enters, Leaves
  <2>3. Enters(M, to, r, st) \in SUBSET Asgs /\ Leaves(M, r, st) \in SUBSET Asgs
    BY DEF Enters, Leaves, Movable
  <2>4. Cardinality(Enters(M, to, r, st)) \in Nat /\ Cardinality(Leaves(M, r, st)) \in Nat
    BY <2>3, CardIsNat
  <2>5. new[st] = row[r].cnt[st] + _delta_vector(M, to, r)[st]
    OBVIOUS
  <2> HIDE DEF new
  <2> QED BY <2>1, <2>2, <2>4, <2>5
<1>3. recompute_row_counters(m, r) \in [ACTIVE_ASSIGNMENT_STATES -> Nat]
  <2>1. \A st : On(m, r, st) \in SUBSET Asgs
    BY DEF On, Kept
  <2> QED BY <2>1, CardIsNat DEF recompute_row_counters, On
<1>4. new = [st \in ACTIVE_ASSIGNMENT_STATES |-> new[st]]
  OBVIOUS
<1>5. _apply_counter_delta(M, to, r) = IF \A st \in ACTIVE_ASSIGNMENT_STATES : new[st] >= 0
                                       THEN new ELSE recompute_row_counters(m, r)
  BY <1>1 DEF _apply_counter_delta
<1> HIDE DEF new
<1>6. (\A st \in ACTIVE_ASSIGNMENT_STATES : new[st] >= 0) => new \in [ACTIVE_ASSIGNMENT_STATES -> Nat]
  <2> SUFFICES ASSUME \A st \in ACTIVE_ASSIGNMENT_STATES : new[st] >= 0
               PROVE  \A st \in ACTIVE_ASSIGNMENT_STATES : new[st] \in Nat
    BY <1>4
  <2> QED BY <1>2
<1> QED BY <1>3, <1>5, <1>6

CreditedTo(t, r, g) == {a \in Asgs : RowOf[a] = r /\ t[a].credit = g}
Gaining(M, to, r, g) == {a \in _credit_current_goal(M, to) : RowOf[a] = r /\ current_goal(r) = g}
Losing(M, to, r, g)  == {a \in _uncredit(M, to) : RowOf[a] = r /\ asg[a].credit = g}

LEMMA CreditAfter ==
  ASSUME Tables, Standing, NEW M, NEW to, Movable(M, to), NEW m, m = Moved(M, to),
         NEW r \in Rows, NEW g \in Nat \ {0}
  PROVE  Cardinality(CreditedTo(m, r, g)) = Cardinality(CreditedTo(asg, r, g))
           + (Cardinality(Gaining(M, to, r, g)) - Cardinality(Losing(M, to, r, g)))
<1>1. PICK A, L, E : A = CreditedTo(asg, r, g) /\ L = Losing(M, to, r, g) /\ E = Gaining(M, to, r, g)
  OBVIOUS
<1>2. M \subseteq Asgs
  BY DEF Movable
<1>3. A \in SUBSET Asgs /\ L \in SUBSET A /\ E \in SUBSET Asgs
  BY <1>1, <1>2 DEF CreditedTo, Losing, Gaining, _uncredit, _credit_current_goal
<1>4. ASSUME NEW a \in _credit_current_goal(M, to)
      PROVE  a \in M /\ a \in Asgs /\ asg[a].credit = 0 /\ a \notin _uncredit(M, to)
  <2>1. a \in M /\ to[a] \in {"awaiting", "resolved_early"} /\ asg[a].state # "awaiting"
    BY DEF _credit_current_goal
  <2>2. asg[a].state \in {"none"} \cup ACTIVE_ASSIGNMENT_STATES
    BY <2>1, ToIs
  <2>3. asg[a].credit = 0
    BY <1>2, <2>1, <2>2 DEF Standing, ACTIVE_ASSIGNMENT_STATES
  <2> QED BY <1>2, <2>1, <2>3 DEF _uncredit
<1>5. (A \ L) \cap E = {}
  BY <1>1, <1>4 DEF CreditedTo, Gaining
<1>6. ASSUME NEW a \in Asgs PROVE a \in CreditedTo(m, r, g) <=> a \in (A \ L) \cup E
  <2>1. MovedTo(m, M, to, a)
    BY MovedIs
  <2>2. CASE a \notin M
    BY <1>1, <2>1, <2>2 DEF MovedTo, CreditedTo, Losing, Gaining, _uncredit, _credit_current_goal
  <2>3. CASE a \in M
    <3>1. m[a].credit = IF a \in _credit_current_goal(M, to) THEN current_goal(RowOf[a])
                        ELSE IF a \in _uncredit(M, to) THEN 0 ELSE asg[a].credit
      BY <2>1, <2>3 DEF MovedTo
    <3>2. CASE a \in _credit_current_goal(M, to)
      BY <1>1, <1>4, <3>1, <3>2 DEF CreditedTo, Gaining
    <3>3. CASE a \notin _credit_current_goal(M, to)
      BY <1>1, <3>1, <3>3 DEF CreditedTo, Gaining, Losing
    <3> QED BY <3>2, <3>3
  <2> QED BY <2>2, <2>3
<1>7. CreditedTo(m, r, g) = (A \ L) \cup E
  BY <1>3, <1>6 DEF CreditedTo
<1> QED BY <1>1, <1>3, <1>5, <1>7, CardAfter

GoalsAddUp == \A r \in Rows : \A g \in 1 .. Len(goal[r]) : goal[r][g] = recompute_goal_total(asg, r, g)

LEMMA IsSequence ==
  ASSUME NEW n \in Nat, NEW G \in [1 .. n -> Nat]
  PROVE  G \in Seq(Nat) /\ Len(G) = n
OBVIOUS

\* The goals of a row keep adding up, and keep their types.
LEMMA GoalsFollow ==
  ASSUME Tables, Standing, GoalsAddUp, NEW M, NEW to, Movable(M, to), NEW r \in Rows,
         NEW G, G = apply_goal_effect(M, to, r)
  PROVE  /\ G \in Seq(Nat) /\ Len(G) = Len(goal[r])
         /\ \A g \in 1 .. Len(goal[r]) : G[g] = recompute_goal_total(Moved(M, to), r, g)
<1>1. PICK m, n : m = Moved(M, to) /\ n = Len(goal[r]) /\ n \in Nat
  BY GoalIs
<1> DEFINE new(g) == goal[r][g] + Cardinality(Gaining(M, to, r, g)) - Cardinality(Losing(M, to, r, g))
<1>2. G = [g \in 1 .. n |-> IF new(g) >= 0 THEN new(g) ELSE recompute_goal_total(m, r, g)]
  BY <1>1 DEF apply_goal_effect, Gaining, Losing
<1>3. ASSUME NEW g \in 1 .. n
      PROVE  recompute_goal_total(m, r, g) \in Nat /\ G[g] = recompute_goal_total(m, r, g)
  <2>1. g \in Nat \ {0} /\ g \in 1 .. Len(goal[r])
    BY <1>1
  <2>2. goal[r][g] = Cardinality(CreditedTo(asg, r, g))
    BY <2>1 DEF GoalsAddUp, recompute_goal_total, CreditedTo
  <2>3. recompute_goal_total(m, r, g) = Cardinality(CreditedTo(m, r, g))
    BY DEF recompute_goal_total, CreditedTo
  <2>4. /\ CreditedTo(m, r, g) \in SUBSET Asgs /\ CreditedTo(asg, r, g) \in SUBSET Asgs
        /\ Gaining(M, to, r, g) \in SUBSET Asgs /\ Losing(M, to, r, g) \in SUBSET Asgs
    BY DEF CreditedTo, Gaining, Losing, _uncredit, _credit_current_goal, Movable
  <2>5. /\ Cardinality(CreditedTo(m, r, g)) \in Nat /\ Cardinality(CreditedTo(asg, r, g)) \in Nat
        /\ Cardinality(Gaining(M, to, r, g)) \in Nat /\ Cardinality(Losing(M, to, r, g)) \in Nat
    BY <2>4, CardIsNat
  <2>6. Cardinality(CreditedTo(m, r, g)) = Cardinality(CreditedTo(asg, r, g))
           + (Cardinality(Gaining(M, to, r, g)) - Cardinality(Losing(M, to, r, g)))
    BY <1>1, <2>1, CreditAfter
  <2>7. new(g) = recompute_goal_total(m, r, g)
    BY <2>2, <2>3, <2>5, <2>6
  <2> HIDE DEF new
  <2> QED BY <1>2, <2>3, <2>5, <2>7
<1> HIDE DEF new
<1>4. G \in [1 .. n -> Nat]
  BY <1>2, <1>3
<1>5. G \in Seq(Nat) /\ Len(G) = n
  BY <1>1, <1>4, IsSequence
<1> QED BY <1>1, <1>3, <1>5

\* What a move leaves standing.
LEMMA StandingAfter ==
  ASSUME Tables, Standing, NEW M, NEW to, Movable(M, to), NEW m, m = Moved(M, to), NEW a \in Asgs
  PROVE  /\ m[a].state = "none" => asg[a].state = "none" /\ ~m[a].deleted
         /\ m[a].state \in {"none", "in_queue", "in_progress"} => m[a].credit = 0
         /\ m[a].credit <= Len(goal[RowOf[a]])
         /\ m[a].state # "none" => row[RowOf[a]].live # "no"
<1>1. MovedTo(m, M, to, a)
  BY MovedIs
<1>2. CASE a \notin M
  BY <1>1, <1>2 DEF MovedTo, Standing
<1>3. CASE a \in M
  <2>1. /\ m[a].state = IF to[a] = "DELETE" THEN asg[a].state ELSE to[a]
        /\ m[a].deleted <=> to[a] = "DELETE" \/ asg[a].deleted
        /\ m[a].credit = IF a \in _credit_current_goal(M, to) THEN current_goal(RowOf[a])
                         ELSE IF a \in _uncredit(M, to) THEN 0 ELSE asg[a].credit
    BY <1>1, <1>3 DEF MovedTo
  <2>2. /\ to[a] \in ACTIVE_ASSIGNMENT_STATES \cup TERMINAL_ASSIGNMENT_STATES \cup {"DELETE"}
        /\ to[a] # "DELETE" => asg[a].state \in {"none"} \cup ACTIVE_ASSIGNMENT_STATES
        /\ to[a] = "DELETE" => asg[a].state # "none"
    BY <1>3, ToIs
  <2>3. /\ current_goal(RowOf[a]) <= Len(goal[RowOf[a]]) /\ Len(goal[RowOf[a]]) \in Nat
        /\ asg[a].credit <= Len(goal[RowOf[a]])
        /\ asg[a].state \in {"none", "in_queue", "in_progress"} => asg[a].credit = 0
        /\ asg[a].state # "none" => row[RowOf[a]].live # "no"
    BY StockAssumption, GoalIs DEF Standing
  <2>4. m[a].state = "none" => FALSE
    BY <2>1, <2>2 DEF ACTIVE_ASSIGNMENT_STATES, TERMINAL_ASSIGNMENT_STATES
  <2>5. m[a].credit <= Len(goal[RowOf[a]])
    BY <2>1, <2>3
  <2>6. row[RowOf[a]].live # "no"
    BY <1>3, <2>3 DEF Movable
  <2>7. ASSUME m[a].state \in {"none", "in_queue", "in_progress"} PROVE m[a].credit = 0
    <3>1. to[a] \in {"DELETE", "in_queue", "in_progress"}
      BY <2>1, <2>7, <2>2 DEF ACTIVE_ASSIGNMENT_STATES, TERMINAL_ASSIGNMENT_STATES
    <3>2. a \notin _credit_current_goal(M, to)
      BY <3>1 DEF _credit_current_goal
    <3>3. asg[a].credit = 0 \/ asg[a].state = "awaiting"
      BY <2>1, <2>2, <2>3, <2>7, <3>1 DEF ACTIVE_ASSIGNMENT_STATES
    <3>4. asg[a].state = "awaiting" /\ asg[a].credit # 0 => a \in _uncredit(M, to)
      BY <1>3, <3>1 DEF _uncredit
    <3> QED BY <2>1, <3>2, <3>3, <3>4
  <2> QED BY <2>4, <2>5, <2>6, <2>7
<1> QED BY <1>2, <1>3

\* The units in work on a row, and the ceiling they leave.
Assigned(t, r) == {a \in Active(t) : RowOf[a] = r}

LEMMA TotalIs ==
  ASSUME NEW t, NEW r \in Rows, NEW cnt, cnt = recompute_row_counters(t, r)
  PROVE  /\ cnt["in_queue"] + cnt["in_progress"] + cnt["awaiting"] = Cardinality(Assigned(t, r))
         /\ Cardinality(Assigned(t, r)) \in Nat
<1>1. PICK A, B, C, D : /\ A = On(t, r, "in_queue") /\ B = On(t, r, "in_progress")
                        /\ C = On(t, r, "awaiting") /\ D = Assigned(t, r)
  OBVIOUS
<1>2. cnt["in_queue"] = Cardinality(A) /\ cnt["in_progress"] = Cardinality(B) /\ cnt["awaiting"] = Cardinality(C)
  BY <1>1 DEF recompute_row_counters, On, ACTIVE_ASSIGNMENT_STATES
<1>3. /\ A \in SUBSET Asgs /\ B \in SUBSET Asgs /\ C \in SUBSET Asgs /\ D \in SUBSET Asgs
      /\ A \cap B = {} /\ (A \cup B) \cap C = {}
  BY <1>1 DEF On, Kept, Assigned, Active
<1>4. D = (A \cup B) \cup C
  BY <1>1 DEF On, Assigned, Active, ACTIVE_ASSIGNMENT_STATES
<1>5. /\ Cardinality((A \ {}) \cup B) = Cardinality(A) + (Cardinality(B) - Cardinality({}))
      /\ Cardinality(((A \cup B) \ {}) \cup C) = Cardinality(A \cup B) + (Cardinality(C) - Cardinality({}))
  BY <1>3, CardAfter
<1>6. Cardinality({}) = 0 /\ A \ {} = A /\ (A \cup B) \ {} = A \cup B
  BY FS_EmptySet
<1>7. /\ Cardinality(A) \in Nat /\ Cardinality(B) \in Nat /\ Cardinality(C) \in Nat
      /\ Cardinality(D) \in Nat /\ Cardinality(A \cup B) \in Nat
  <2>1. A \cup B \in SUBSET Asgs
    BY <1>3
  <2> QED BY <1>3, <2>1, CardIsNat
<1>8. /\ Cardinality(A \cup B) = Cardinality(A) + (Cardinality(B) - 0)
      /\ Cardinality(D) = Cardinality(A \cup B) + (Cardinality(C) - 0)
  BY <1>4, <1>5, <1>6
<1> QED BY <1>1, <1>2, <1>7, <1>8

LEMMA FewerLeft ==
  ASSUME NEW A \in SUBSET Asgs, NEW B \in SUBSET A
  PROVE  Cardinality(B) <= Cardinality(A)
BY CardIsNat, FS_Subset

-----------------------------------------------------------------------------
(* The invariant.                                                            *)

Counted == \A r \in Rows :
  row[r].live # "deleted" /\ r \notin drifted => row[r].cnt = recompute_row_counters(asg, r)

Flagged == \A t \in Tasks : task[t].flag = expected_task_flag(asg, t)

\* Whoever has written a task's state holds every active assignment of the task.
Held ==
  \A s \in Sessions : job[s] # None =>
     /\ \A a \in job[s].ids : asg[a].state # "none"
     /\ job[s].cmd = "sync" => \A a \in Asgs :
          /\ a \in job[s].ids => TaskOf[a] = job[s].task
          /\ a \in Active(asg) /\ TaskOf[a] = job[s].task => a \in job[s].ids

\* A row Scanner has not named has drifted nowhere; only a live row has a snapshot.
Bare == \A r \in Rows : /\ row[r].live = "no" => r \notin drifted
                        /\ row[r].live # "yes" => snap[r] = None

IInv == /\ TypeOK /\ Standing /\ GoalsAddUp /\ Counted /\ Flagged /\ Held /\ Bare
        /\ AssignmentFollowsTask /\ MissingWithinCeiling

LEMMA TypesAre ==
  ASSUME IInv
  PROVE  /\ Tables /\ task \in [Tasks -> TaskRow] /\ snap \in [Rows -> Snapshots \cup {None}]
         /\ job \in [Sessions -> Jobs \cup {None}] /\ drifted \subseteq Rows /\ gone \subseteq Items
         /\ board \in BOOLEAN /\ edits \in 0 .. MaxEdits
BY DEF IInv, TypeOK, Tables, AsgRow, AsgStates, RowRow, TaskRow

\* The assignments and the goals after a move, whatever becomes of the rows.
LEMMA MoveKeeps ==
  ASSUME Tables, Standing, GoalsAddUp, NEW M, NEW to, Movable(M, to),
         asg' = Moved(M, to), goal' = [r \in Rows |-> apply_goal_effect(M, to, r)],
         row' \in [Rows -> RowRow], \A r \in Rows : row[r].live # "no" => row'[r].live # "no"
  PROVE  Tables' /\ Standing' /\ GoalsAddUp'
<1>1. asg' \in [Asgs -> AsgRow]
  BY MovedIs
<1>2. ASSUME NEW r \in Rows
      PROVE  /\ goal'[r] \in Seq(Nat) /\ Len(goal'[r]) = Len(goal[r])
             /\ \A g \in 1 .. Len(goal'[r]) : goal'[r][g] = recompute_goal_total(asg', r, g)
  <2>1. PICK G : G = apply_goal_effect(M, to, r)
    OBVIOUS
  <2>2. goal'[r] = G
    BY <2>1
  <2>3. /\ G \in Seq(Nat) /\ Len(G) = Len(goal[r])
        /\ \A g \in 1 .. Len(goal[r]) : G[g] = recompute_goal_total(Moved(M, to), r, g)
    BY <2>1, GoalsFollow
  <2> QED BY <2>2, <2>3
<1>3. goal' \in [Rows -> Seq(Nat)]
  BY <1>2
<1>4. Standing'
  <2> SUFFICES ASSUME NEW a \in Asgs
               PROVE  /\ asg'[a].state = "none" => ~asg'[a].deleted
                      /\ asg'[a].state \in {"none", "in_queue", "in_progress"} => asg'[a].credit = 0
                      /\ asg'[a].credit <= Len(goal'[RowOf[a]])
                      /\ asg'[a].state # "none" => row'[RowOf[a]].live # "no"
    BY DEF Standing
  <2>1. PICK m : m = asg'
    OBVIOUS
  <2>2. RowOf[a] \in Rows
    BY StockAssumption
  <2>3. /\ m[a].state = "none" => asg[a].state = "none" /\ ~m[a].deleted
        /\ m[a].state \in {"none", "in_queue", "in_progress"} => m[a].credit = 0
        /\ m[a].credit <= Len(goal[RowOf[a]])
        /\ m[a].state # "none" => row[RowOf[a]].live # "no"
    BY <2>1, StandingAfter
  <2> QED BY <1>2, <2>1, <2>2, <2>3
<1>5. GoalsAddUp'
  BY <1>2 DEF GoalsAddUp
<1> QED BY <1>1, <1>3, <1>4, <1>5 DEF Tables

\* The rows after a move.
LEMMA RowsKeep ==
  ASSUME Tables, NEW M, NEW to, Movable(M, to), move_assignment(M, to)
  PROVE  /\ row' \in [Rows -> RowRow]
         /\ \A r \in Rows : /\ row'[r].live = row[r].live /\ row'[r].requested = row[r].requested
                            /\ row'[r].cnt = _apply_counter_delta(M, to, r)
<1>1. ASSUME NEW r \in Rows
      PROVE  /\ row'[r] \in RowRow
             /\ row'[r].live = row[r].live /\ row'[r].requested = row[r].requested
             /\ row'[r].cnt = _apply_counter_delta(M, to, r)
  <2>1. PICK c, o : c = _apply_counter_delta(M, to, r) /\ o = row[r]
    OBVIOUS
  <2>2. row'[r] = [o EXCEPT !.cnt = c]
    BY <2>1 DEF move_assignment
  <2>3. c \in [ACTIVE_ASSIGNMENT_STATES -> Nat] /\ o \in RowRow
    BY <2>1, CountersTyped DEF Tables
  <2> QED BY <2>1, <2>2, <2>3 DEF RowRow
<1>2. row' = [r \in Rows |-> row'[r]]
  BY DEF move_assignment
<1> QED BY <1>1, <1>2

LEMMA CountedKept ==
  ASSUME Tables, Counted, NEW M, NEW to, Movable(M, to), move_assignment(M, to),
         drifted \subseteq drifted', \A a \in M : asg[a].deleted => RowOf[a] \in drifted'
  PROVE  Counted'
<1> SUFFICES ASSUME NEW r \in Rows, row'[r].live # "deleted", r \notin drifted'
             PROVE  row'[r].cnt = recompute_row_counters(asg', r)
  BY DEF Counted
<1>1. row[r].live # "deleted" /\ r \notin drifted /\ row'[r].cnt = _apply_counter_delta(M, to, r)
  BY RowsKeep
<1>2. row[r].cnt = recompute_row_counters(asg, r)
  BY <1>1 DEF Counted
<1>3. \A a \in M : RowOf[a] = r => ~asg[a].deleted
  OBVIOUS
<1>4. _apply_counter_delta(M, to, r) = recompute_row_counters(Moved(M, to), r)
  BY <1>2, <1>3, CountersFollow
<1> QED BY <1>1, <1>4 DEF move_assignment

\* The ceiling of a snapshot.
Used(cnt) == cnt["in_queue"] + cnt["in_progress"] + cnt["awaiting"]

LEMMA UsedIs == ASSUME NEW c \in [ACTIVE_ASSIGNMENT_STATES -> Nat] PROVE Used(c) \in Nat
BY DEF Used, ACTIVE_ASSIGNMENT_STATES

LEMMA CeilingIs ==
  ASSUME NEW p \in Snapshots, NEW c \in [ACTIVE_ASSIGNMENT_STATES -> Nat]
  PROVE  /\ effective_quantity_requested(p) \in Nat
         /\ missing_quantity_ceiling(p, c) \in Nat
         /\ missing_quantity_ceiling(p, c)
              = IF effective_quantity_requested(p) - (Used(c) + p.resolved) > 0
                THEN effective_quantity_requested(p) - (Used(c) + p.resolved) ELSE 0
<1>1. effective_quantity_requested(p) \in Nat
  BY DEF effective_quantity_requested, Snapshots
<1>2. missing_quantity_ceiling(p, c)
              = IF effective_quantity_requested(p) - (Used(c) + p.resolved) > 0
                THEN effective_quantity_requested(p) - (Used(c) + p.resolved) ELSE 0
  BY DEF missing_quantity_ceiling, Used
<1>3. p.resolved \in Nat
  BY DEF Snapshots
<1> QED BY <1>1, <1>2, <1>3, UsedIs

LEMMA CeilingKept ==
  ASSUME NEW p \in Snapshots, NEW q \in Snapshots,
         q.scanner = p.scanner, q.manual = p.manual, q.missing = p.missing,
         NEW c \in [ACTIVE_ASSIGNMENT_STATES -> Nat], NEW d \in [ACTIVE_ASSIGNMENT_STATES -> Nat],
         Used(d) + q.resolved <= Used(c) + p.resolved,
         p.missing <= missing_quantity_ceiling(p, c)
  PROVE  q.missing <= missing_quantity_ceiling(q, d)
<1>1. effective_quantity_requested(q) = effective_quantity_requested(p)
  BY DEF effective_quantity_requested
<1>2. p.resolved \in Nat /\ q.resolved \in Nat /\ p.missing \in Nat
  BY DEF Snapshots
<1>3. Used(c) \in Nat /\ Used(d) \in Nat
  BY UsedIs
<1>4. PICK e \in Nat : e = effective_quantity_requested(p)
  BY CeilingIs
<1>5. missing_quantity_ceiling(p, c) = IF e - (Used(c) + p.resolved) > 0
                                       THEN e - (Used(c) + p.resolved) ELSE 0
  BY <1>4, CeilingIs
<1>6. missing_quantity_ceiling(q, d) = IF e - (Used(d) + q.resolved) > 0
                                       THEN e - (Used(d) + q.resolved) ELSE 0
  BY <1>1, <1>4, CeilingIs
<1> QED BY <1>2, <1>3, <1>5, <1>6

\* A snapshot that was clamped is typed and within its ceiling.
LEMMA ClampedIs ==
  ASSUME NEW p \in Snapshots \cup {None}, NEW c \in [ACTIVE_ASSIGNMENT_STATES -> Nat],
         NEW q, q = clamp_snapshot_missing_quantity(p, c)
  PROVE  q \in Snapshots \cup {None} /\ (q # None => q.missing <= missing_quantity_ceiling(q, c))
<1>1. CASE p = None
  BY <1>1 DEF clamp_snapshot_missing_quantity
<1>2. CASE p # None
  <2>1. p \in Snapshots
    BY <1>2
  <2>2. PICK k \in Nat : k = missing_quantity_ceiling(p, c)
    BY <2>1, CeilingIs
  <2>3. q = IF p.missing > k THEN [p EXCEPT !.missing = k] ELSE p
    BY <1>2, <2>2 DEF clamp_snapshot_missing_quantity
  <2>4. /\ q \in Snapshots /\ q.missing <= k /\ q.scanner = p.scanner /\ q.manual = p.manual
        /\ q.resolved = p.resolved
    BY <2>1, <2>3 DEF Snapshots
  <2>5. effective_quantity_requested(q) = effective_quantity_requested(p)
    BY <2>4 DEF effective_quantity_requested
  <2>6. missing_quantity_ceiling(q, c) = missing_quantity_ceiling(p, c)
    BY <2>4, <2>5 DEF missing_quantity_ceiling
  <2> QED BY <2>2, <2>4, <2>6
<1> QED BY <1>1, <1>2

\* Where no unit is added, what was within its ceiling stays there.
LEMMA CeilingsKept ==
  ASSUME Tables, Tables', snap \in [Rows -> Snapshots \cup {None}], Counted, Counted',
         MissingWithinCeiling, snap' = snap, drifted \subseteq drifted',
         \A r \in Rows : row'[r].live = "yes" => row[r].live = "yes",
         \A r \in Rows : Assigned(asg', r) \subseteq Assigned(asg, r)
  PROVE  MissingWithinCeiling'
<1> SUFFICES ASSUME NEW r \in Rows, row'[r].live = "yes", r \notin drifted', snap[r] # None
             PROVE  snap[r].missing <= missing_quantity_ceiling(snap[r], row'[r].cnt)
  BY DEF MissingWithinCeiling, LiveRows
<1>1. row[r].live = "yes" /\ r \notin drifted
  OBVIOUS
<1>2. PICK c, d : c = row[r].cnt /\ d = row'[r].cnt
  OBVIOUS
<1>3. c \in [ACTIVE_ASSIGNMENT_STATES -> Nat] /\ d \in [ACTIVE_ASSIGNMENT_STATES -> Nat]
  BY <1>2 DEF Tables, RowRow
<1>4. PICK t, u : t = asg /\ u = asg'
  OBVIOUS
<1>5. c = recompute_row_counters(t, r) /\ d = recompute_row_counters(u, r)
  BY <1>1, <1>2, <1>4 DEF Counted
<1>6. /\ Used(c) = Cardinality(Assigned(t, r)) /\ Cardinality(Assigned(t, r)) \in Nat
      /\ Used(d) = Cardinality(Assigned(u, r)) /\ Cardinality(Assigned(u, r)) \in Nat
  BY <1>5, TotalIs DEF Used
<1>7. Cardinality(Assigned(u, r)) <= Cardinality(Assigned(t, r))
  <2>1. Assigned(t, r) \in SUBSET Asgs /\ Assigned(u, r) \in SUBSET Assigned(t, r)
    BY <1>4 DEF Assigned, Active, Kept
  <2> QED BY <2>1, FewerLeft
<1>8. PICK p \in Snapshots : p = snap[r]
  OBVIOUS
<1>9. p.resolved \in Nat /\ p.missing <= missing_quantity_ceiling(p, c)
  BY <1>1, <1>2, <1>8 DEF Snapshots, MissingWithinCeiling, LiveRows
<1>10. Used(d) + p.resolved <= Used(c) + p.resolved
  BY <1>6, <1>7, <1>9
<1> QED BY <1>2, <1>3, <1>8, <1>9, <1>10, CeilingKept

-----------------------------------------------------------------------------
(* What the commands have in common.                                         *)

\* What a command under way holds is still all there is of its task: no assignment
\* becomes active of a task that is locked.
LEMMA HeldKept ==
  ASSUME Held, \A s \in Sessions : job'[s] = job[s] \/ job'[s] = None,
         job \in [Sessions -> Jobs \cup {None}],
         \A a \in Asgs : asg[a].state # "none" => asg'[a].state # "none",
         \A a \in Asgs : a \in Active(asg') => a \in Active(asg) \/ ~Locked(TaskOf[a])
  PROVE  Held'
<1> SUFFICES ASSUME NEW s \in Sessions, job'[s] # None
             PROVE  /\ \A a \in job'[s].ids : asg'[a].state # "none"
                    /\ job'[s].cmd = "sync" => \A a \in Asgs :
                         /\ a \in job'[s].ids => TaskOf[a] = job'[s].task
                         /\ a \in Active(asg') /\ TaskOf[a] = job'[s].task => a \in job'[s].ids
  BY DEF Held
<1>1. PICK j : j = job[s]
  OBVIOUS
<1>2. job'[s] = j /\ j # None /\ j \in Jobs
  BY <1>1
<1>3. j.ids \subseteq Asgs
  BY <1>2 DEF Jobs
<1>4. /\ \A a \in j.ids : asg[a].state # "none"
      /\ j.cmd = "sync" => \A a \in Asgs :
           /\ a \in j.ids => TaskOf[a] = j.task
           /\ a \in Active(asg) /\ TaskOf[a] = j.task => a \in j.ids
  BY <1>1, <1>2 DEF Held
<1>5. j.cmd = "sync" => Locked(j.task)
  BY <1>1, <1>2 DEF Locked
<1> QED BY <1>2, <1>3, <1>4, <1>5

LEMMA AfterDeletion ==
  ASSUME Tables, NEW M, M \subseteq Kept(asg), NEW m, m = Moved(M, Deletion(M))
  PROVE  /\ Movable(M, Deletion(M))
         /\ Kept(m) = Kept(asg) \ M /\ Active(m) = Active(asg) \ M
         /\ \A a \in Asgs : m[a].state = asg[a].state
<1>1. \A a \in M : Deletion(M)[a] = "DELETE" /\ a \in Asgs /\ asg[a].state # "none"
  BY DEF Deletion, Kept
<1>2. Movable(M, Deletion(M))
  BY <1>1 DEF Movable, _assert_allowed_move
<1>3. ASSUME NEW a \in Asgs
      PROVE  m[a].state = asg[a].state /\ (m[a].deleted <=> asg[a].deleted \/ a \in M)
  <2>1. MovedTo(m, M, Deletion(M), a)
    BY <1>2, MovedIs
  <2> QED BY <1>1, <2>1 DEF MovedTo
<1>4. Kept(m) = Kept(asg) \ M
  BY <1>3 DEF Kept
<1>5. Active(m) = Active(asg) \ M
  BY <1>3, <1>4 DEF Active, Kept
<1> QED BY <1>2, <1>3, <1>4, <1>5

\* The flag of a task none of whose assignments is moved is right as it is.
LEMMA FlagsKept ==
  ASSUME Flagged,
         \A t \in Tasks : \/ task'[t].flag = expected_task_flag(asg', t)
                          \/ /\ task'[t].flag = task[t].flag
                             /\ \A a \in Asgs : TaskOf[a] = t => (a \in Kept(asg') <=> a \in Kept(asg))
  PROVE  Flagged'
<1> SUFFICES ASSUME NEW t \in Tasks PROVE task'[t].flag = expected_task_flag(asg', t)
  BY DEF Flagged, expected_task_flag, Kept
<1>1. CASE task'[t].flag = expected_task_flag(asg', t)
  BY <1>1
<1>2. CASE /\ task'[t].flag = task[t].flag
           /\ \A a \in Asgs : TaskOf[a] = t => (a \in Kept(asg') <=> a \in Kept(asg))
  <2>1. task[t].flag = expected_task_flag(asg, t)
    BY DEF Flagged
  <2>2. expected_task_flag(asg', t) = (\E a \in Asgs : TaskOf[a] = t /\ a \in Kept(asg'))
    BY DEF expected_task_flag, Kept
  <2>3. expected_task_flag(asg, t) = (\E a \in Asgs : TaskOf[a] = t /\ a \in Kept(asg))
    BY DEF expected_task_flag, Kept
  <2>4. (\E a \in Asgs : TaskOf[a] = t /\ a \in Kept(asg')) = (\E a \in Asgs : TaskOf[a] = t /\ a \in Kept(asg))
    BY <1>2
  <2> QED BY <1>2, <2>1, <2>2, <2>3, <2>4
<1> QED BY <1>1, <1>2

\* Whatever deletes assignments: those of M go, no task changes its state, and what is
\* kept has its task, item and link.
LEMMA Removal ==
  ASSUME IInv, NEW M, M \subseteq Kept(asg),
         asg' = Moved(M, Deletion(M)), goal' = [r \in Rows |-> apply_goal_effect(M, Deletion(M), r)],
         row' \in [Rows -> RowRow], snap' \in [Rows -> Snapshots \cup {None}],
         \A r \in Rows : \/ /\ row'[r].live = row[r].live /\ snap'[r] = snap[r]
                            /\ row'[r].cnt = _apply_counter_delta(M, Deletion(M), r)
                         \/ /\ row[r].live = "yes" /\ row'[r].live = "deleted" /\ snap'[r] = None
                            /\ \A a \in Kept(asg) : RowOf[a] = r => a \in M,
         board' = board, drifted' = drifted, edits' \in 0 .. MaxEdits, gone' \subseteq Items,
         job' \in [Sessions -> Jobs \cup {None}], \A s \in Sessions : job'[s] = job[s] \/ job'[s] = None,
         task' \in [Tasks -> TaskRow],
         \A t \in Tasks :
            /\ task'[t].state = task[t].state
            /\ \/ task'[t].flag = expected_task_flag(asg', t)
               \/ task'[t].flag = task[t].flag /\ \A a \in M : TaskOf[a] # t,
         \A a \in Kept(asg) \ M :
            ~task'[TaskOf[a]].deleted /\ task'[TaskOf[a]].linked /\ ItemOf[TaskOf[a]] \notin gone'
  PROVE  IInv'
<1>1. /\ Tables /\ Standing /\ GoalsAddUp /\ Counted /\ Flagged /\ Held /\ Bare
      /\ AssignmentFollowsTask /\ MissingWithinCeiling /\ drifted \subseteq Rows /\ board \in BOOLEAN
      /\ job \in [Sessions -> Jobs \cup {None}] /\ snap \in [Rows -> Snapshots \cup {None}]
  BY TypesAre DEF IInv
<1>2. PICK m : m = asg'
  OBVIOUS
<1>3. /\ Movable(M, Deletion(M))
      /\ Kept(m) = Kept(asg) \ M /\ Active(m) = Active(asg) \ M
      /\ \A a \in Asgs : m[a].state = asg[a].state
  BY <1>1, <1>2, AfterDeletion
<1>4. Kept(asg') = Kept(asg) \ M /\ Active(asg') = Active(asg) \ M
  BY <1>2, <1>3
<1>5. Tables' /\ Standing' /\ GoalsAddUp'
  BY <1>1, <1>3, MoveKeeps
<1>6. TypeOK'
  <2>1. /\ drifted' \subseteq Rows /\ board' \in BOOLEAN
    BY <1>1
  <2>2. TypeOK' <=> /\ Tables' /\ task' \in [Tasks -> TaskRow] /\ snap' \in [Rows -> Snapshots \cup {None}]
         /\ job' \in [Sessions -> Jobs \cup {None}] /\ drifted' \subseteq Rows /\ gone' \subseteq Items
         /\ board' \in BOOLEAN /\ edits' \in 0 .. MaxEdits
    BY DEF TypeOK, Tables, AsgRow, AsgStates, RowRow, TaskRow
  <2> QED BY <1>5, <2>1, <2>2
<1>7. Counted'
  <2> SUFFICES ASSUME NEW r \in Rows, row'[r].live # "deleted", r \notin drifted'
               PROVE  row'[r].cnt = recompute_row_counters(asg', r)
    BY DEF Counted
  <2>1. /\ row[r].live # "deleted" /\ r \notin drifted
        /\ row'[r].cnt = _apply_counter_delta(M, Deletion(M), r)
    OBVIOUS
  <2>2. row[r].cnt = recompute_row_counters(asg, r)
    BY <1>1, <2>1 DEF Counted
  <2>3. \A a \in M : RowOf[a] = r => ~asg[a].deleted
    BY DEF Kept
  <2>4. _apply_counter_delta(M, Deletion(M), r) = recompute_row_counters(Moved(M, Deletion(M)), r)
    BY <1>1, <1>3, <2>2, <2>3, CountersFollow
  <2> QED BY <2>1, <2>4
<1>8. Flagged'
  <2>1. \A t \in Tasks : \/ task'[t].flag = expected_task_flag(asg', t)
                          \/ /\ task'[t].flag = task[t].flag
                             /\ \A a \in Asgs : TaskOf[a] = t => (a \in Kept(asg') <=> a \in Kept(asg))
    BY <1>4
  <2> QED BY <1>1, <2>1, FlagsKept
<1>9. Held'
  <2>1. \A a \in Asgs : asg[a].state # "none" => asg'[a].state # "none"
    BY <1>2, <1>3
  <2>2. \A a \in Asgs : a \in Active(asg') => a \in Active(asg) \/ ~Locked(TaskOf[a])
    BY <1>4
  <2> QED BY <1>1, <2>1, <2>2, HeldKept
<1>10. Bare'
  <2> SUFFICES ASSUME NEW r \in Rows
               PROVE  /\ row'[r].live = "no" => r \notin drifted'
                      /\ row'[r].live # "yes" => snap'[r] = None
    BY DEF Bare
  <2>1. /\ row[r].live = "no" => r \notin drifted
        /\ row[r].live # "yes" => snap[r] = None
    BY <1>1 DEF Bare
  <2> QED BY <2>1
<1>11. AssignmentFollowsTask'
  <2> SUFFICES ASSUME NEW a \in Kept(asg')
               PROVE  /\ row'[RowOf[a]].live = "yes"
                      /\ ~task'[TaskOf[a]].deleted /\ task'[TaskOf[a]].linked /\ ItemOf[TaskOf[a]] \notin gone'
                      /\ a \in Active(asg') => asg'[a].state = ASSIGNMENT_STATE_BY_TASK_STATE[task'[TaskOf[a]].state]
    BY DEF AssignmentFollowsTask
  <2>1. a \in Kept(asg) \ M /\ a \in Asgs /\ (a \in Active(asg') => a \in Active(asg)) /\ asg'[a].state = asg[a].state
    BY <1>2, <1>3, <1>4 DEF Kept
  <2>2. /\ row[RowOf[a]].live = "yes"
        /\ a \in Active(asg) => asg[a].state = ASSIGNMENT_STATE_BY_TASK_STATE[task[TaskOf[a]].state]
    BY <1>1, <2>1 DEF AssignmentFollowsTask
  <2>3. RowOf[a] \in Rows /\ TaskOf[a] \in Tasks
    BY <2>1, StockAssumption
  <2>4. row'[RowOf[a]].live = "yes"
    BY <2>1, <2>2, <2>3
  <2>5. task'[TaskOf[a]].state = task[TaskOf[a]].state
    BY <2>3
  <2> QED BY <2>1, <2>2, <2>4, <2>5
<1>12. MissingWithinCeiling'
  <2> SUFFICES ASSUME NEW r \in Rows, row'[r].live = "yes", r \notin drifted', snap'[r] # None
               PROVE  snap'[r].missing <= missing_quantity_ceiling(snap'[r], row'[r].cnt)
    BY DEF MissingWithinCeiling, LiveRows
  <2>1. row[r].live = "yes" /\ snap'[r] = snap[r] /\ snap[r] # None /\ r \notin drifted
    OBVIOUS
  <2>2. PICK c, d, u : c = row[r].cnt /\ d = row'[r].cnt /\ u = asg
    OBVIOUS
  <2>3. c \in [ACTIVE_ASSIGNMENT_STATES -> Nat] /\ d \in [ACTIVE_ASSIGNMENT_STATES -> Nat]
    BY <1>1, <2>2 DEF Tables, RowRow
  <2>4. c = recompute_row_counters(u, r) /\ d = recompute_row_counters(m, r)
    BY <1>1, <1>2, <1>7, <2>1, <2>2 DEF Counted
  <2>5. /\ Used(c) = Cardinality(Assigned(u, r)) /\ Cardinality(Assigned(u, r)) \in Nat
        /\ Used(d) = Cardinality(Assigned(m, r)) /\ Cardinality(Assigned(m, r)) \in Nat
    BY <2>4, TotalIs DEF Used
  <2>6. Cardinality(Assigned(m, r)) <= Cardinality(Assigned(u, r))
    <3>1. Assigned(u, r) \in SUBSET Asgs /\ Assigned(m, r) \in SUBSET Assigned(u, r)
      BY <1>3, <2>2 DEF Assigned, Active, Kept
    <3> QED BY <3>1, FewerLeft
  <2>7. PICK p \in Snapshots : p = snap[r]
    BY <1>1, <2>1
  <2>8. p.resolved \in Nat /\ p.missing <= missing_quantity_ceiling(p, c)
    BY <1>1, <2>1, <2>2, <2>7 DEF Snapshots, MissingWithinCeiling, LiveRows
  <2>9. Used(d) + p.resolved <= Used(c) + p.resolved
    BY <2>5, <2>6, <2>8
  <2>10. p.missing <= missing_quantity_ceiling(p, d)
    BY <2>3, <2>8, <2>9, CeilingKept
  <2> QED BY <2>1, <2>2, <2>7, <2>10
<1> QED BY <1>5, <1>6, <1>7, <1>8, <1>9, <1>10, <1>11, <1>12 DEF IInv

\* A move on all rows meets what Removal asks of them.
LEMMA RowsOfRemoval ==
  ASSUME IInv, NEW M, M \subseteq Kept(asg), move_assignment(M, Deletion(M)), snap' = snap
  PROVE  /\ asg' = Moved(M, Deletion(M)) /\ goal' = [r \in Rows |-> apply_goal_effect(M, Deletion(M), r)]
         /\ row' \in [Rows -> RowRow] /\ snap' \in [Rows -> Snapshots \cup {None}]
         /\ \A r \in Rows : /\ row'[r].live = row[r].live /\ snap'[r] = snap[r]
                            /\ row'[r].cnt = _apply_counter_delta(M, Deletion(M), r)
<1>1. Tables /\ snap \in [Rows -> Snapshots \cup {None}]
  BY TypesAre
<1>2. Movable(M, Deletion(M))
  BY <1>1, AfterDeletion
<1>3. /\ row' \in [Rows -> RowRow]
      /\ \A r \in Rows : /\ row'[r].live = row[r].live /\ row'[r].requested = row[r].requested
                         /\ row'[r].cnt = _apply_counter_delta(M, Deletion(M), r)
  BY <1>1, <1>2, RowsKeep
<1>4. asg' = Moved(M, Deletion(M)) /\ goal' = [r \in Rows |-> apply_goal_effect(M, Deletion(M), r)]
  BY DEF move_assignment
<1> QED BY <1>1, <1>3, <1>4

\* _remove_assignment.py: the tasks it leaves.
LEMMA TasksOfRemoval ==
  ASSUME IInv, NEW M, M \subseteq Kept(asg), asg' = Moved(M, Deletion(M)),
         task' = [t \in Tasks |->
            IF \E a \in M : TaskOf[a] = t
            THEN [task[t] EXCEPT !.flag = expected_task_flag(Moved(M, Deletion(M)), t)] ELSE task[t]]
  PROVE  /\ task' \in [Tasks -> TaskRow]
         /\ \A t \in Tasks :
              /\ task'[t].state = task[t].state
              /\ task'[t].deleted = task[t].deleted /\ task'[t].linked = task[t].linked
              /\ \/ task'[t].flag = expected_task_flag(asg', t)
                 \/ task'[t].flag = task[t].flag /\ \A a \in M : TaskOf[a] # t
<1>1. task \in [Tasks -> TaskRow]
  BY TypesAre
<1>2. ASSUME NEW t \in Tasks
      PROVE  /\ task'[t] \in TaskRow /\ task'[t].state = task[t].state
             /\ task'[t].deleted = task[t].deleted /\ task'[t].linked = task[t].linked
             /\ \/ task'[t].flag = expected_task_flag(asg', t)
                \/ task'[t].flag = task[t].flag /\ \A a \in M : TaskOf[a] # t
  <2>1. PICK f \in BOOLEAN : f = expected_task_flag(asg', t)
    BY DEF expected_task_flag
  <2>2. PICK o \in TaskRow : o = task[t]
    BY <1>1
  <2>3. task'[t] = IF \E a \in M : TaskOf[a] = t THEN [o EXCEPT !.flag = f] ELSE o
    BY <2>1, <2>2
  <2>4. CASE \E a \in M : TaskOf[a] = t
    <3>1. task'[t] = [o EXCEPT !.flag = f]
      BY <2>3, <2>4
    <3>2. /\ task'[t] \in TaskRow /\ task'[t].state = o.state /\ task'[t].deleted = o.deleted
          /\ task'[t].linked = o.linked /\ task'[t].flag = f
      BY <3>1 DEF TaskRow
    <3> QED BY <2>1, <2>2, <3>2
  <2>5. CASE ~\E a \in M : TaskOf[a] = t
    BY <2>2, <2>3, <2>5
  <2> QED BY <2>4, <2>5
<1> QED BY <1>2

LEMMA StepDelete ==
  ASSUME IInv, NEW s \in Sessions, delete_stock_task_assignments(s) PROVE IInv'
<1>1. PICK M : M = job[s].ids
  OBVIOUS
<1>2. /\ job[s] # None /\ \A a \in M : ~asg[a].deleted
      /\ move_assignment(M, Deletion(M))
      /\ task' = [t \in Tasks |->
            IF \E a \in M : TaskOf[a] = t
            THEN [task[t] EXCEPT !.flag = expected_task_flag(Moved(M, Deletion(M)), t)] ELSE task[t]]
      /\ job' = [job EXCEPT ![s] = None]
      /\ gone' = gone /\ board' = board /\ snap' = snap /\ drifted' = drifted /\ edits' = edits
  BY <1>1, Zenon DEF delete_stock_task_assignments, remove_assignment
<1>3. /\ job \in [Sessions -> Jobs \cup {None}] /\ gone \subseteq Items /\ edits \in 0 .. MaxEdits /\ Held
      /\ AssignmentFollowsTask
  BY TypesAre DEF IInv
<1>4. M \subseteq Kept(asg)
  <2>1. M \subseteq Asgs
    BY <1>1, <1>2, <1>3 DEF Jobs
  <2>2. \A a \in M : asg[a].state # "none"
    BY <1>1, <1>2, <1>3 DEF Held
  <2> QED BY <1>2, <2>1, <2>2 DEF Kept
<1>5. /\ asg' = Moved(M, Deletion(M)) /\ goal' = [r \in Rows |-> apply_goal_effect(M, Deletion(M), r)]
      /\ row' \in [Rows -> RowRow] /\ snap' \in [Rows -> Snapshots \cup {None}]
      /\ \A r \in Rows : /\ row'[r].live = row[r].live /\ snap'[r] = snap[r]
                         /\ row'[r].cnt = _apply_counter_delta(M, Deletion(M), r)
  BY <1>2, <1>4, RowsOfRemoval
<1>6. /\ task' \in [Tasks -> TaskRow]
      /\ \A t \in Tasks :
           /\ task'[t].state = task[t].state
           /\ task'[t].deleted = task[t].deleted /\ task'[t].linked = task[t].linked
           /\ \/ task'[t].flag = expected_task_flag(asg', t)
              \/ task'[t].flag = task[t].flag /\ \A a \in M : TaskOf[a] # t
  BY <1>2, <1>4, <1>5, TasksOfRemoval
<1>7. \A a \in Kept(asg) \ M :
        ~task'[TaskOf[a]].deleted /\ task'[TaskOf[a]].linked /\ ItemOf[TaskOf[a]] \notin gone'
  BY <1>2, <1>3, <1>6, StockAssumption DEF AssignmentFollowsTask, Kept
<1>8. job' \in [Sessions -> Jobs \cup {None}] /\ \A u \in Sessions : job'[u] = job[u] \/ job'[u] = None
  BY <1>2, <1>3
<1>9. gone' \subseteq Items /\ edits' \in 0 .. MaxEdits
  BY <1>2, <1>3
<1> QED BY <1>2, <1>4, <1>5, <1>6, <1>7, <1>8, <1>9, Removal

\* A task deleted, or its item taken from it: all it had goes.
LEMMA TasksGone ==
  ASSUME IInv, NEW t \in Tasks, NEW M, M = {a \in Kept(asg) : TaskOf[a] = t},
         move_assignment(M, Deletion(M)), NEW o \in TaskRow, o.state = task[t].state,
         o.flag = (IF M = {} THEN task[t].flag ELSE expected_task_flag(asg', t)),
         task' = [task EXCEPT ![t] = o],
         Edited, gone' = gone, board' = board, snap' = snap, job' = job, drifted' = drifted
  PROVE  IInv'
<1>1. /\ task \in [Tasks -> TaskRow] /\ job \in [Sessions -> Jobs \cup {None}] /\ gone \subseteq Items
      /\ AssignmentFollowsTask
  BY TypesAre DEF IInv
<1>2. M \subseteq Kept(asg)
  OBVIOUS
<1>3. /\ asg' = Moved(M, Deletion(M)) /\ goal' = [r \in Rows |-> apply_goal_effect(M, Deletion(M), r)]
      /\ row' \in [Rows -> RowRow] /\ snap' \in [Rows -> Snapshots \cup {None}]
      /\ \A r \in Rows : /\ row'[r].live = row[r].live /\ snap'[r] = snap[r]
                         /\ row'[r].cnt = _apply_counter_delta(M, Deletion(M), r)
  BY <1>2, RowsOfRemoval
<1>4. task' \in [Tasks -> TaskRow]
  BY <1>1
<1>5. \A u \in Tasks :
           /\ task'[u].state = task[u].state
           /\ \/ task'[u].flag = expected_task_flag(asg', u)
              \/ task'[u].flag = task[u].flag /\ \A a \in M : TaskOf[a] # u
  BY <1>1
<1>6. \A a \in Kept(asg) \ M :
        ~task'[TaskOf[a]].deleted /\ task'[TaskOf[a]].linked /\ ItemOf[TaskOf[a]] \notin gone'
  BY <1>1, StockAssumption DEF AssignmentFollowsTask, Kept
<1>7. edits' \in 0 .. MaxEdits
  BY TypesAre, StockAssumption DEF Edited
<1>8. /\ job' \in [Sessions -> Jobs \cup {None}] /\ gone' \subseteq Items
      /\ \A s \in Sessions : job'[s] = job[s] \/ job'[s] = None
  BY <1>1
<1> QED BY <1>2, <1>3, <1>4, <1>5, <1>6, <1>7, <1>8, Removal

LEMMA StepDeleteTask == ASSUME IInv, NEW t \in Tasks, delete_task(t) PROVE IInv'
<1>1. PICK M, f : /\ M = {a \in Kept(asg) : TaskOf[a] = t}
                  /\ f = IF M = {} THEN task[t].flag ELSE expected_task_flag(asg', t)
  OBVIOUS
<1>2. PICK o : o = [[task[t] EXCEPT !.deleted = TRUE] EXCEPT !.flag = f]
  OBVIOUS
<1>3. /\ Edited /\ move_assignment(M, Deletion(M))
      /\ gone' = gone /\ board' = board /\ snap' = snap /\ job' = job /\ drifted' = drifted
  BY <1>1 DEF delete_task
<1>4. task[t] \in TaskRow /\ task \in [Tasks -> TaskRow]
  BY TypesAre
<1>5. f \in BOOLEAN
  BY <1>1, <1>4 DEF TaskRow, expected_task_flag
<1>6. o \in TaskRow /\ o.state = task[t].state /\ o.flag = f
  BY <1>2, <1>4, <1>5 DEF TaskRow
<1>7. task' = [task EXCEPT ![t] = o]
  <2>1. task' = [task EXCEPT ![t].deleted = TRUE,
                             ![t].flag = IF M = {} THEN @ ELSE expected_task_flag(asg', t)]
    BY <1>1 DEF delete_task
  <2> QED BY <1>1, <1>2, <1>4, <2>1
<1> QED BY <1>1, <1>3, <1>6, <1>7, TasksGone

LEMMA StepRemoveItem == ASSUME IInv, NEW t \in Tasks, remove_item_from_task(t) PROVE IInv'
<1>1. PICK M, f : /\ M = {a \in Kept(asg) : TaskOf[a] = t}
                  /\ f = IF M = {} THEN task[t].flag ELSE expected_task_flag(asg', t)
  OBVIOUS
<1>2. PICK o : o = [[task[t] EXCEPT !.linked = FALSE] EXCEPT !.flag = f]
  OBVIOUS
<1>3. /\ Edited /\ move_assignment(M, Deletion(M))
      /\ gone' = gone /\ board' = board /\ snap' = snap /\ job' = job /\ drifted' = drifted
  BY <1>1 DEF remove_item_from_task
<1>4. task[t] \in TaskRow /\ task \in [Tasks -> TaskRow]
  BY TypesAre
<1>5. f \in BOOLEAN
  BY <1>1, <1>4 DEF TaskRow, expected_task_flag
<1>6. o \in TaskRow /\ o.state = task[t].state /\ o.flag = f
  BY <1>2, <1>4, <1>5 DEF TaskRow
<1>7. task' = [task EXCEPT ![t] = o]
  <2>1. task' = [task EXCEPT ![t].linked = FALSE,
                             ![t].flag = IF M = {} THEN @ ELSE expected_task_flag(asg', t)]
    BY <1>1 DEF remove_item_from_task
  <2> QED BY <1>1, <1>2, <1>4, <2>1
<1> QED BY <1>1, <1>3, <1>6, <1>7, TasksGone

LEMMA StepDeleteItem == ASSUME IInv, NEW i \in Items, delete_item(i) PROVE IInv'
<1>1. PICK M : M = {a \in Kept(asg) : ItemOf[TaskOf[a]] = i}
  OBVIOUS
<1>2. /\ Edited /\ move_assignment(M, Deletion(M))
      /\ task' = [t \in Tasks |->
            IF \E a \in M : TaskOf[a] = t
            THEN [task[t] EXCEPT !.flag = expected_task_flag(Moved(M, Deletion(M)), t)] ELSE task[t]]
      /\ gone' = gone \cup {i}
      /\ board' = board /\ snap' = snap /\ job' = job /\ drifted' = drifted
  BY <1>1 DEF delete_item, remove_assignment
<1>3. /\ job \in [Sessions -> Jobs \cup {None}] /\ gone \subseteq Items /\ AssignmentFollowsTask
  BY TypesAre DEF IInv
<1>4. M \subseteq Kept(asg)
  BY <1>1
<1>5. /\ asg' = Moved(M, Deletion(M)) /\ goal' = [r \in Rows |-> apply_goal_effect(M, Deletion(M), r)]
      /\ row' \in [Rows -> RowRow] /\ snap' \in [Rows -> Snapshots \cup {None}]
      /\ \A r \in Rows : /\ row'[r].live = row[r].live /\ snap'[r] = snap[r]
                         /\ row'[r].cnt = _apply_counter_delta(M, Deletion(M), r)
  BY <1>2, <1>4, RowsOfRemoval
<1>6. /\ task' \in [Tasks -> TaskRow]
      /\ \A t \in Tasks :
           /\ task'[t].state = task[t].state
           /\ task'[t].deleted = task[t].deleted /\ task'[t].linked = task[t].linked
           /\ \/ task'[t].flag = expected_task_flag(asg', t)
              \/ task'[t].flag = task[t].flag /\ \A a \in M : TaskOf[a] # t
  BY <1>2, <1>4, <1>5, TasksOfRemoval
<1>7. \A a \in Kept(asg) \ M :
        ~task'[TaskOf[a]].deleted /\ task'[TaskOf[a]].linked /\ ItemOf[TaskOf[a]] \notin gone'
  BY <1>1, <1>2, <1>3, <1>6, StockAssumption DEF AssignmentFollowsTask, Kept
<1>8. job' \in [Sessions -> Jobs \cup {None}] /\ \A u \in Sessions : job'[u] = job[u] \/ job'[u] = None
  BY <1>2, <1>3
<1>9. gone' \subseteq Items /\ edits' \in 0 .. MaxEdits
  BY <1>2, <1>3, TypesAre, StockAssumption DEF Edited
<1> QED BY <1>2, <1>4, <1>5, <1>6, <1>7, <1>8, <1>9, Removal

LEMMA StepCascade == ASSUME IInv, NEW r \in Rows, cascade_delete_stock_report_item(r) PROVE IInv'
<1>1. PICK M, z : M = {a \in Kept(asg) : RowOf[a] = r} /\ z = [st \in ACTIVE_ASSIGNMENT_STATES |-> 0]
  OBVIOUS
<1>2. /\ Edited /\ row[r].live = "yes"
      /\ asg' = Moved(M, Deletion(M)) /\ goal' = [q \in Rows |-> apply_goal_effect(M, Deletion(M), q)]
      /\ task' = [t \in Tasks |->
            IF \E a \in M : TaskOf[a] = t
            THEN [task[t] EXCEPT !.flag = expected_task_flag(Moved(M, Deletion(M)), t)] ELSE task[t]]
      /\ row' = [row EXCEPT ![r].live = "deleted", ![r].cnt = z]
      /\ snap' = [snap EXCEPT ![r] = None]
      /\ gone' = gone /\ board' = board /\ job' = job /\ drifted' = drifted
  BY <1>1 DEF cascade_delete_stock_report_item
<1>3. /\ job \in [Sessions -> Jobs \cup {None}] /\ gone \subseteq Items /\ AssignmentFollowsTask
      /\ Tables /\ snap \in [Rows -> Snapshots \cup {None}]
  BY TypesAre DEF IInv
<1>4. M \subseteq Kept(asg)
  BY <1>1
<1>5. /\ task' \in [Tasks -> TaskRow]
      /\ \A t \in Tasks :
           /\ task'[t].state = task[t].state
           /\ task'[t].deleted = task[t].deleted /\ task'[t].linked = task[t].linked
           /\ \/ task'[t].flag = expected_task_flag(asg', t)
              \/ task'[t].flag = task[t].flag /\ \A a \in M : TaskOf[a] # t
  BY <1>2, <1>4, TasksOfRemoval
<1>6. /\ row' \in [Rows -> RowRow] /\ row'[r].live = "deleted"
      /\ \A q \in Rows : q # r => row'[q] = row[q]
  <2>1. PICK o \in RowRow : o = row[r]
    BY <1>3 DEF Tables
  <2>2. z \in [ACTIVE_ASSIGNMENT_STATES -> Nat]
    BY <1>1
  <2>3. [[o EXCEPT !.live = "deleted"] EXCEPT !.cnt = z] \in RowRow
    BY <2>2 DEF RowRow
  <2>4. row' = [row EXCEPT ![r] = [[o EXCEPT !.live = "deleted"] EXCEPT !.cnt = z]]
    BY <1>2, <1>3, <2>1 DEF Tables
  <2>5. row'[r].live = "deleted"
    BY <1>3, <2>1, <2>4 DEF Tables, RowRow
  <2> QED BY <1>3, <2>3, <2>4, <2>5 DEF Tables
<1>7. ASSUME NEW q \in Rows, q # r PROVE _apply_counter_delta(M, Deletion(M), q) = row[q].cnt
  <2>1. PICK c \in [ACTIVE_ASSIGNMENT_STATES -> Nat] : c = row[q].cnt
    BY <1>3 DEF Tables, RowRow
  <2>2. \A to : /\ {a \in M : RowOf[a] = q /\ Deletion(M)[a] = to} = {}
                /\ {a \in M : RowOf[a] = q /\ asg[a].state = to} = {}
    BY <1>1, <1>7
  <2>3. \A st \in ACTIVE_ASSIGNMENT_STATES : _delta_vector(M, Deletion(M), q)[st] = 0 - 0
    BY <2>2, FS_EmptySet DEF _delta_vector
  <2>4. PICK d : d = _delta_vector(M, Deletion(M), q)
    OBVIOUS
  <2>5. PICK new : new = [st \in ACTIVE_ASSIGNMENT_STATES |-> c[st] + d[st]]
    OBVIOUS
  <2>6. \A st \in ACTIVE_ASSIGNMENT_STATES : d[st] = 0
    BY <2>3, <2>4
  <2>7. new = c /\ \A st \in ACTIVE_ASSIGNMENT_STATES : new[st] >= 0
    BY <2>1, <2>5, <2>6
  <2>8. _apply_counter_delta(M, Deletion(M), q)
          = IF \A st \in ACTIVE_ASSIGNMENT_STATES : new[st] >= 0
            THEN new ELSE recompute_row_counters(Moved(M, Deletion(M)), q)
    BY <2>1, <2>4, <2>5 DEF _apply_counter_delta
  <2> QED BY <2>1, <2>7, <2>8
<1>8. snap' \in [Rows -> Snapshots \cup {None}] /\ snap'[r] = None /\ \A q \in Rows : q # r => snap'[q] = snap[q]
  BY <1>2, <1>3
<1>9. \A q \in Rows : \/ /\ row'[q].live = row[q].live /\ snap'[q] = snap[q]
                         /\ row'[q].cnt = _apply_counter_delta(M, Deletion(M), q)
                      \/ /\ row[q].live = "yes" /\ row'[q].live = "deleted" /\ snap'[q] = None
                         /\ \A a \in Kept(asg) : RowOf[a] = q => a \in M
  BY <1>1, <1>2, <1>6, <1>7, <1>8
<1>10. \A a \in Kept(asg) \ M :
        ~task'[TaskOf[a]].deleted /\ task'[TaskOf[a]].linked /\ ItemOf[TaskOf[a]] \notin gone'
  BY <1>1, <1>2, <1>3, <1>5, StockAssumption DEF AssignmentFollowsTask, Kept
<1>11. edits' \in 0 .. MaxEdits
  BY <1>2, TypesAre, StockAssumption DEF Edited
<1>12. /\ job' \in [Sessions -> Jobs \cup {None}] /\ \A u \in Sessions : job'[u] = job[u] \/ job'[u] = None
       /\ gone' \subseteq Items /\ board' = board /\ drifted' = drifted
       /\ asg' = Moved(M, Deletion(M)) /\ goal' = [q \in Rows |-> apply_goal_effect(M, Deletion(M), q)]
  BY <1>2, <1>3
<1> QED BY <1>4, <1>5, <1>6, <1>8, <1>9, <1>10, <1>11, <1>12, Removal

-----------------------------------------------------------------------------
(* The commands that move assignments from state to state.                   *)

\* What every move leaves right.
LEMMA MoveIs ==
  ASSUME IInv, NEW M, NEW to, Movable(M, to), move_assignment(M, to)
  PROVE  /\ Tables' /\ Standing' /\ GoalsAddUp'
         /\ \A r \in Rows : row'[r].live = row[r].live /\ row'[r].requested = row[r].requested
         /\ \A a \in Asgs : MovedTo(asg', M, to, a)
<1>1. Tables /\ Standing /\ GoalsAddUp
  BY TypesAre DEF IInv
<1>2. asg' = Moved(M, to) /\ goal' = [r \in Rows |-> apply_goal_effect(M, to, r)]
  BY DEF move_assignment
<1>3. /\ row' \in [Rows -> RowRow]
      /\ \A r \in Rows : row'[r].live = row[r].live /\ row'[r].requested = row[r].requested
  BY <1>1, RowsKeep
<1>4. Tables' /\ Standing' /\ GoalsAddUp'
  BY <1>1, <1>2, <1>3, MoveKeeps
<1>5. \A m : m = Moved(M, to) => \A a \in Asgs : MovedTo(m, M, to, a)
  BY <1>1, MovedIs
<1> QED BY <1>2, <1>3, <1>4, <1>5

LEMMA TypesSufficeNext ==
  ASSUME /\ Tables' /\ task' \in [Tasks -> TaskRow] /\ snap' \in [Rows -> Snapshots \cup {None}]
         /\ job' \in [Sessions -> Jobs \cup {None}] /\ drifted' \subseteq Rows /\ gone' \subseteq Items
         /\ board' \in BOOLEAN /\ edits' \in 0 .. MaxEdits
  PROVE  TypeOK'
BY DEF TypeOK, Tables, AsgRow, AsgStates, RowRow, TaskRow

TargetOf(st) == ASSIGNMENT_STATE_BY_TASK_STATE[st]

LEMMA TargetIs ==
  ASSUME NEW st \in TaskStates
  PROVE  TargetOf(st) \in ACTIVE_ASSIGNMENT_STATES \cup {"failed"}
BY DEF TargetOf, ASSIGNMENT_STATE_BY_TASK_STATE, ACTIVE_ASSIGNMENT_STATES

LEMMA StepSync == ASSUME IInv, NEW s \in Sessions, sync_task_stock_assignments(s) PROVE IInv'
<1>1. PICK j, t, target : j = job[s] /\ t = j.task /\ target = TargetOf(j.to)
  OBVIOUS
<1>2. PICK M : M = {a \in j.ids : /\ ~asg[a].deleted
                                  /\ asg[a].state \notin TERMINAL_ASSIGNMENT_STATES
                                  /\ asg[a].state # target}
  OBVIOUS
<1>3. PICK to : to = [a \in M |-> target]
  OBVIOUS
<1>4. /\ j # None /\ j.cmd = "sync" /\ _assert_allowed_move(M, to) /\ move_assignment(M, to)
      /\ task' = [task EXCEPT ![t].state = j.to] /\ job' = [job EXCEPT ![s] = None]
      /\ gone' = gone /\ board' = board /\ snap' = snap /\ drifted' = drifted /\ edits' = edits
  BY <1>1, <1>2, <1>3 DEF sync_task_stock_assignments, TargetOf
<1>5. /\ Tables /\ Standing /\ Counted /\ Flagged /\ Held /\ Bare /\ AssignmentFollowsTask
      /\ MissingWithinCeiling
      /\ task \in [Tasks -> TaskRow] /\ snap \in [Rows -> Snapshots \cup {None}]
      /\ job \in [Sessions -> Jobs \cup {None}] /\ drifted \subseteq Rows /\ gone \subseteq Items
      /\ board \in BOOLEAN /\ edits \in 0 .. MaxEdits
  BY TypesAre DEF IInv
<1>6. j.ids \subseteq Asgs /\ t \in Tasks /\ j.to \in TaskStates
  <2>1. j \in Jobs
    BY <1>1, <1>4, <1>5
  <2> QED BY <1>1, <1>4, <2>1, StockAssumption DEF Jobs
<1>7. /\ \A a \in j.ids : asg[a].state # "none" /\ TaskOf[a] = t
      /\ \A a \in Asgs : a \in Active(asg) /\ TaskOf[a] = t => a \in j.ids
  BY <1>1, <1>4, <1>6, <1>5 DEF Held
<1>8. target \in ACTIVE_ASSIGNMENT_STATES \cup {"failed"}
  BY <1>1, <1>6, TargetIs
<1>9. ASSUME NEW a \in M
      PROVE  a \in Asgs /\ a \in Active(asg) /\ TaskOf[a] = t /\ to[a] = target /\ asg[a].state # "none"
             /\ ~asg[a].deleted
  <2>1. a \in Asgs /\ ~asg[a].deleted /\ asg[a].state \notin TERMINAL_ASSIGNMENT_STATES
        /\ asg[a].state # "none" /\ TaskOf[a] = t
    BY <1>2, <1>6, <1>7
  <2>2. asg[a].state \in AsgStates
    BY <1>5, <2>1 DEF Tables, AsgRow
  <2> QED BY <1>3, <2>1, <2>2 DEF Active, Kept, AsgStates
<1>10. Movable(M, to)
  BY <1>4, <1>9 DEF Movable
<1>11. /\ Tables' /\ Standing' /\ GoalsAddUp'
       /\ \A r \in Rows : row'[r].live = row[r].live
       /\ \A a \in Asgs : MovedTo(asg', M, to, a)
  BY <1>4, <1>10, MoveIs
<1>12. ASSUME NEW a \in Asgs
       PROVE  /\ a \notin M => asg'[a] = asg[a]
              /\ a \in M => asg'[a].state = target /\ ~asg'[a].deleted
  <2>1. target # "DELETE"
    BY <1>8 DEF ACTIVE_ASSIGNMENT_STATES
  <2> QED BY <1>9, <1>11, <2>1 DEF MovedTo
<1>13. Kept(asg') = Kept(asg) /\ Active(asg') \subseteq Active(asg)
  <2>1. target # "none"
    BY <1>8 DEF ACTIVE_ASSIGNMENT_STATES
  <2>2. ASSUME NEW a \in Asgs PROVE /\ a \in Kept(asg') <=> a \in Kept(asg)
                                    /\ a \in Active(asg') => a \in Active(asg)
    BY <1>9, <1>12, <2>1 DEF Kept, Active
  <2>3. /\ Kept(asg') \subseteq Asgs /\ Kept(asg) \subseteq Asgs /\ Active(asg') \subseteq Asgs
    BY DEF Kept, Active
  <2> QED BY <2>2, <2>3
<1>14. task' \in [Tasks -> TaskRow] /\ task'[t].state = j.to
       /\ \A u \in Tasks : /\ u # t => task'[u] = task[u]
                           /\ task'[u].flag = task[u].flag /\ task'[u].deleted = task[u].deleted
                           /\ task'[u].linked = task[u].linked
  <2>1. PICK o \in TaskRow : o = task[t]
    BY <1>5, <1>6
  <2>2. PICK n : n = [o EXCEPT !.state = j.to]
    OBVIOUS
  <2>3. task' = [task EXCEPT ![t] = n]
    BY <1>4, <2>1, <2>2
  <2>4. n \in TaskRow /\ n.state = j.to /\ n.flag = o.flag /\ n.deleted = o.deleted /\ n.linked = o.linked
    BY <1>6, <2>2 DEF TaskRow
  <2> QED BY <1>5, <1>6, <2>1, <2>3, <2>4
<1>15. job' \in [Sessions -> Jobs \cup {None}] /\ \A u \in Sessions : job'[u] = job[u] \/ job'[u] = None
  BY <1>4, <1>5
<1>16. TypeOK'
  BY <1>4, <1>5, <1>11, <1>14, <1>15, TypesSufficeNext
<1>17. Counted'
  BY <1>4, <1>5, <1>9, <1>10, CountedKept
<1>18. Flagged'
  BY <1>5, <1>13, <1>14, FlagsKept
<1>19. Held'
  <2>1. \A a \in Asgs : asg[a].state # "none" => asg'[a].state # "none"
    BY <1>8, <1>12 DEF ACTIVE_ASSIGNMENT_STATES
  <2> QED BY <1>5, <1>13, <1>15, <2>1, HeldKept
<1>20. Bare'
  BY <1>4, <1>5, <1>11 DEF Bare
<1>21. AssignmentFollowsTask'
  <2> SUFFICES ASSUME NEW a \in Kept(asg')
               PROVE  /\ row'[RowOf[a]].live = "yes"
                      /\ ~task'[TaskOf[a]].deleted /\ task'[TaskOf[a]].linked /\ ItemOf[TaskOf[a]] \notin gone'
                      /\ a \in Active(asg') => asg'[a].state = ASSIGNMENT_STATE_BY_TASK_STATE[task'[TaskOf[a]].state]
    BY DEF AssignmentFollowsTask
  <2>1. a \in Kept(asg) /\ a \in Asgs /\ RowOf[a] \in Rows /\ TaskOf[a] \in Tasks
    BY <1>13, StockAssumption DEF Kept
  <2>2. /\ row[RowOf[a]].live = "yes"
        /\ ~task[TaskOf[a]].deleted /\ task[TaskOf[a]].linked /\ ItemOf[TaskOf[a]] \notin gone
        /\ a \in Active(asg) => asg[a].state = ASSIGNMENT_STATE_BY_TASK_STATE[task[TaskOf[a]].state]
    BY <1>5, <2>1 DEF AssignmentFollowsTask
  <2>3. /\ row'[RowOf[a]].live = "yes"
        /\ ~task'[TaskOf[a]].deleted /\ task'[TaskOf[a]].linked /\ ItemOf[TaskOf[a]] \notin gone'
    BY <1>4, <1>11, <1>14, <2>1, <2>2
  <2>4. ASSUME a \in Active(asg')
        PROVE  asg'[a].state = ASSIGNMENT_STATE_BY_TASK_STATE[task'[TaskOf[a]].state]
    <3>1. a \in Active(asg)
      BY <1>13, <2>4
    <3>2. CASE TaskOf[a] # t
      <4>1. a \notin M /\ task'[TaskOf[a]] = task[TaskOf[a]]
        BY <1>9, <1>14, <2>1, <3>2
      <4> QED BY <1>12, <2>1, <2>2, <3>1, <4>1
    <3>3. CASE TaskOf[a] = t
      <4>1. ASSIGNMENT_STATE_BY_TASK_STATE[task'[TaskOf[a]].state] = target
        BY <1>1, <1>14, <3>3 DEF TargetOf
      <4>2. a \in j.ids /\ ~asg[a].deleted /\ asg[a].state \notin TERMINAL_ASSIGNMENT_STATES
        BY <1>7, <2>1, <3>1, <3>3 DEF Active, Kept, ACTIVE_ASSIGNMENT_STATES, TERMINAL_ASSIGNMENT_STATES
      <4>3. a \in M \/ asg[a].state = target
        BY <1>2, <4>2
      <4> QED BY <1>12, <2>1, <4>1, <4>3
    <3> QED BY <3>2, <3>3
  <2> QED BY <2>3, <2>4
<1>22. MissingWithinCeiling'
  <2>1. \A r \in Rows : Assigned(asg', r) \subseteq Assigned(asg, r)
    BY <1>13 DEF Assigned
  <2> QED BY <1>4, <1>5, <1>11, <1>17, <2>1, CeilingsKept
<1> QED BY <1>11, <1>16, <1>17, <1>18, <1>19, <1>20, <1>21, <1>22 DEF IInv

LEMMA StepProcess == ASSUME IInv, NEW s \in Sessions, process_items_processed(s) PROVE IInv'
<1>1. PICK M : M = {a \in job[s].ids : asg[a].state \in ACTIVE_ASSIGNMENT_STATES}
  OBVIOUS
<1>2. PICK to : to = [a \in M |-> IF asg[a].state = "awaiting" THEN "resolved" ELSE "resolved_early"]
  OBVIOUS
<1>3. /\ job[s] # None /\ _assert_allowed_move(M, to) /\ move_assignment(M, to)
      /\ snap' = [r \in Rows |-> credit_snapshot_resolved(M, r)]
      /\ drifted' = drifted \cup {RowOf[a] : a \in {b \in M : asg[b].deleted}}
      /\ job' = [job EXCEPT ![s] = None]
      /\ task' = task /\ gone' = gone /\ board' = board /\ edits' = edits
  BY <1>1, <1>2 DEF process_items_processed
<1>4. /\ Tables /\ Standing /\ Counted /\ Flagged /\ Held /\ Bare /\ AssignmentFollowsTask
      /\ MissingWithinCeiling
      /\ task \in [Tasks -> TaskRow] /\ snap \in [Rows -> Snapshots \cup {None}]
      /\ job \in [Sessions -> Jobs \cup {None}] /\ drifted \subseteq Rows /\ gone \subseteq Items
      /\ board \in BOOLEAN /\ edits \in 0 .. MaxEdits
  BY TypesAre DEF IInv
<1>5. M \subseteq Asgs
  <2>1. job[s] \in Jobs
    BY <1>3, <1>4
  <2> QED BY <1>1, <2>1 DEF Jobs
<1>6. ASSUME NEW a \in M
      PROVE  /\ a \in Asgs /\ to[a] \in {"resolved", "resolved_early"}
             /\ asg[a].state \in ACTIVE_ASSIGNMENT_STATES /\ asg[a].state # "none"
  BY <1>1, <1>2, <1>5 DEF ACTIVE_ASSIGNMENT_STATES
<1>7. Movable(M, to)
  BY <1>3, <1>5, <1>6 DEF Movable
<1>8. /\ Tables' /\ Standing' /\ GoalsAddUp'
      /\ \A r \in Rows : row'[r].live = row[r].live
      /\ \A a \in Asgs : MovedTo(asg', M, to, a)
  BY <1>3, <1>7, MoveIs
<1>9. ASSUME NEW a \in Asgs
      PROVE  /\ a \notin M => asg'[a] = asg[a]
             /\ a \in M => asg'[a].state \in {"resolved", "resolved_early"} /\ (asg'[a].deleted <=> asg[a].deleted)
  BY <1>6, <1>8 DEF MovedTo
<1>10. Kept(asg') = Kept(asg) /\ Active(asg') = Active(asg) \ M
  <2>1. ASSUME NEW a \in Asgs PROVE /\ a \in Kept(asg') <=> a \in Kept(asg)
                                    /\ a \in Active(asg') <=> a \in Active(asg) \ M
    BY <1>6, <1>9 DEF Kept, Active, ACTIVE_ASSIGNMENT_STATES
  <2>2. /\ Kept(asg') \subseteq Asgs /\ Kept(asg) \subseteq Asgs
        /\ Active(asg') \subseteq Asgs /\ Active(asg) \subseteq Asgs
    BY DEF Kept, Active
  <2> QED BY <2>1, <2>2
<1>11. job' \in [Sessions -> Jobs \cup {None}] /\ \A u \in Sessions : job'[u] = job[u] \/ job'[u] = None
  BY <1>3, <1>4
<1>12. drifted \subseteq drifted' /\ drifted' \subseteq Rows /\ \A a \in M : asg[a].deleted => RowOf[a] \in drifted'
  BY <1>3, <1>4, <1>5, StockAssumption
<1> DEFINE Done(r) == {a \in M : RowOf[a] = r}
<1>13. ASSUME NEW r \in Rows PROVE Done(r) \in SUBSET Asgs /\ Cardinality(Done(r)) \in Nat
  BY <1>5, CardIsNat
<1>14. ASSUME NEW r \in Rows
       PROVE  /\ snap[r] = None => snap'[r] = None
              /\ snap[r] # None =>
                   /\ snap'[r] \in Snapshots /\ snap'[r].resolved = snap[r].resolved + Cardinality(Done(r))
                   /\ snap'[r].scanner = snap[r].scanner /\ snap'[r].manual = snap[r].manual
                   /\ snap'[r].missing = snap[r].missing
  <2>1. PICK n \in Nat : n = Cardinality(Done(r))
    BY <1>13
  <2>2. PICK p : p = snap[r]
    OBVIOUS
  <2>3. snap'[r] = IF p = None THEN None ELSE [p EXCEPT !.resolved = p.resolved + n]
    BY <1>3, <2>1, <2>2 DEF credit_snapshot_resolved
  <2> HIDE DEF Done
  <2>4. CASE p # None
    <3>1. p \in Snapshots
      BY <1>4, <2>2, <2>4
    <3>2. PICK q : q = [p EXCEPT !.resolved = p.resolved + n]
      OBVIOUS
    <3>3. /\ q \in Snapshots /\ q.resolved = p.resolved + n /\ q.scanner = p.scanner
          /\ q.manual = p.manual /\ q.missing = p.missing
      BY <2>1, <3>1, <3>2 DEF Snapshots
    <3> QED BY <2>1, <2>2, <2>3, <2>4, <3>2, <3>3
  <2>5. CASE p = None
    BY <2>2, <2>3, <2>5
  <2> QED BY <2>4, <2>5
<1>15. snap' \in [Rows -> Snapshots \cup {None}]
  <2>1. \A r \in Rows : snap'[r] \in Snapshots \cup {None}
    BY <1>14
  <2> QED BY <1>3, <2>1
<1>16. TypeOK'
  BY <1>3, <1>4, <1>8, <1>11, <1>12, <1>15, TypesSufficeNext
<1>17. Counted'
  BY <1>3, <1>4, <1>7, <1>12, CountedKept
<1>18. Flagged'
  BY <1>3, <1>4, <1>10, FlagsKept
<1>19. Held'
  <2>1. \A a \in Asgs : asg[a].state # "none" => asg'[a].state # "none"
    BY <1>9
  <2> QED BY <1>4, <1>10, <1>11, <2>1, HeldKept
<1>20. Bare'
  <2> SUFFICES ASSUME NEW r \in Rows
               PROVE  /\ row'[r].live = "no" => r \notin drifted'
                      /\ row'[r].live # "yes" => snap'[r] = None
    BY DEF Bare
  <2>1. row[r].live # "no" \/ \A a \in M : RowOf[a] # r
    BY <1>4, <1>6 DEF Standing
  <2>2. row'[r].live = "no" => r \notin drifted'
    BY <1>3, <1>4, <1>8, <2>1 DEF Bare
  <2> QED BY <1>4, <1>8, <1>14, <2>2 DEF Bare
<1>21. AssignmentFollowsTask'
  <2> SUFFICES ASSUME NEW a \in Kept(asg')
               PROVE  /\ row'[RowOf[a]].live = "yes"
                      /\ ~task'[TaskOf[a]].deleted /\ task'[TaskOf[a]].linked /\ ItemOf[TaskOf[a]] \notin gone'
                      /\ a \in Active(asg') => asg'[a].state = ASSIGNMENT_STATE_BY_TASK_STATE[task'[TaskOf[a]].state]
    BY DEF AssignmentFollowsTask
  <2>1. a \in Kept(asg) /\ a \in Asgs /\ RowOf[a] \in Rows
    BY <1>10, StockAssumption DEF Kept
  <2>2. /\ row[RowOf[a]].live = "yes"
        /\ ~task[TaskOf[a]].deleted /\ task[TaskOf[a]].linked /\ ItemOf[TaskOf[a]] \notin gone
        /\ a \in Active(asg) => asg[a].state = ASSIGNMENT_STATE_BY_TASK_STATE[task[TaskOf[a]].state]
    BY <1>4, <2>1 DEF AssignmentFollowsTask
  <2>3. a \in Active(asg') => a \in Active(asg) /\ asg'[a] = asg[a]
    BY <1>9, <1>10, <2>1
  <2> QED BY <1>3, <1>8, <2>1, <2>2, <2>3
<1>22. MissingWithinCeiling'
  <2> SUFFICES ASSUME NEW r \in Rows, row'[r].live = "yes", r \notin drifted', snap'[r] # None
               PROVE  snap'[r].missing <= missing_quantity_ceiling(snap'[r], row'[r].cnt)
    BY DEF MissingWithinCeiling, LiveRows
  <2>1. row[r].live = "yes" /\ snap[r] # None /\ r \notin drifted
    BY <1>8, <1>12, <1>14
  <2>2. PICK c, d, u, m : c = row[r].cnt /\ d = row'[r].cnt /\ u = asg /\ m = asg'
    OBVIOUS
  <2>3. c \in [ACTIVE_ASSIGNMENT_STATES -> Nat] /\ d \in [ACTIVE_ASSIGNMENT_STATES -> Nat]
    BY <1>4, <1>8, <2>2 DEF Tables, RowRow
  <2>4. c = recompute_row_counters(u, r) /\ d = recompute_row_counters(m, r)
    BY <1>4, <1>17, <2>1, <2>2 DEF Counted
  <2>5. /\ Used(c) = Cardinality(Assigned(u, r)) /\ Cardinality(Assigned(u, r)) \in Nat
        /\ Used(d) = Cardinality(Assigned(m, r)) /\ Cardinality(Assigned(m, r)) \in Nat
    BY <2>4, TotalIs DEF Used
  <2>6. Cardinality(Assigned(m, r)) = Cardinality(Assigned(u, r)) - Cardinality(Done(r))
    <3>1. Done(r) \subseteq Assigned(u, r)
      BY <1>6, <1>12, <2>2 DEF Assigned, Active, Kept
    <3>2. Assigned(m, r) = (Assigned(u, r) \ Done(r)) \cup {}
      BY <1>10, <2>2 DEF Assigned
    <3>3. Assigned(u, r) \in SUBSET Asgs
      BY <2>2 DEF Assigned, Active, Kept
    <3> HIDE DEF Done
    <3>4. Cardinality((Assigned(u, r) \ Done(r)) \cup {})
            = Cardinality(Assigned(u, r)) + (Cardinality({}) - Cardinality(Done(r)))
      BY <3>1, <3>3, CardAfter
    <3>5. Cardinality({}) = 0
      BY FS_EmptySet
    <3> QED BY <1>13, <2>5, <3>2, <3>4, <3>5
  <2>7. PICK n \in Nat : n = Cardinality(Done(r))
    BY <1>13
  <2>8. PICK p, q : p = snap[r] /\ q = snap'[r]
    OBVIOUS
  <2>9. /\ p \in Snapshots /\ q \in Snapshots /\ q.resolved = p.resolved + n
        /\ q.scanner = p.scanner /\ q.manual = p.manual /\ q.missing = p.missing
    BY <1>4, <1>14, <2>1, <2>7, <2>8
  <2> HIDE DEF Done
  <2>10. p.resolved \in Nat
    BY <2>9 DEF Snapshots
  <2>11. p.missing <= missing_quantity_ceiling(p, c)
    BY <1>4, <2>1, <2>2, <2>8 DEF MissingWithinCeiling, LiveRows
  <2>12. Used(d) + q.resolved <= Used(c) + p.resolved
    BY <2>5, <2>6, <2>7, <2>9, <2>10
  <2>13. q.missing <= missing_quantity_ceiling(q, d)
    BY <2>3, <2>9, <2>11, <2>12, CeilingKept
  <2> QED BY <2>2, <2>8, <2>13
<1> QED BY <1>8, <1>16, <1>17, <1>18, <1>19, <1>20, <1>21, <1>22 DEF IInv

LEMMA StepCreate ==
  ASSUME IInv, NEW E \in SUBSET Asgs, create_stock_task_assignments(E) PROVE IInv'
<1>1. PICK to : to = [a \in E |-> ASSIGNMENT_STATE_BY_TASK_STATE[task[TaskOf[a]].state]]
  OBVIOUS
<1>2. /\ Edited /\ _assert_allowed_move(E, to) /\ move_assignment(E, to)
      /\ \A a \in E : ~Locked(TaskOf[a]) /\ evaluate_assignment_checks(a)
      /\ snap' = [r \in Rows |-> IF \E a \in E : RowOf[a] = r
                                 THEN clamp_snapshot_missing_quantity(snap[r], row'[r].cnt) ELSE snap[r]]
      /\ task' = [t \in Tasks |-> IF \E a \in E : TaskOf[a] = t
                                  THEN [task[t] EXCEPT !.flag = TRUE] ELSE task[t]]
      /\ gone' = gone /\ board' = board /\ job' = job /\ drifted' = drifted
  BY <1>1 DEF create_stock_task_assignments
<1>3. /\ Tables /\ Standing /\ Counted /\ Flagged /\ Held /\ Bare /\ AssignmentFollowsTask
      /\ MissingWithinCeiling
      /\ task \in [Tasks -> TaskRow] /\ snap \in [Rows -> Snapshots \cup {None}]
      /\ job \in [Sessions -> Jobs \cup {None}] /\ drifted \subseteq Rows /\ gone \subseteq Items
      /\ board \in BOOLEAN /\ edits \in 0 .. MaxEdits
  BY TypesAre DEF IInv
<1>4. ASSUME NEW a \in E
      PROVE  /\ a \in Asgs /\ RowOf[a] \in Rows /\ TaskOf[a] \in Tasks
             /\ asg[a].state = "none" /\ ~asg[a].deleted /\ row[RowOf[a]].live = "yes"
             /\ ~task[TaskOf[a]].deleted /\ task[TaskOf[a]].linked /\ ItemOf[TaskOf[a]] \notin gone
             /\ ~Locked(TaskOf[a])
             /\ to[a] = ASSIGNMENT_STATE_BY_TASK_STATE[task[TaskOf[a]].state]
             /\ to[a] \in ACTIVE_ASSIGNMENT_STATES
  <2>1. a \in Asgs /\ RowOf[a] \in Rows /\ TaskOf[a] \in Tasks
    BY StockAssumption
  <2>2. /\ asg[a].state = "none" /\ row[RowOf[a]].live = "yes"
        /\ ~task[TaskOf[a]].deleted /\ ItemOf[TaskOf[a]] \notin gone /\ task[TaskOf[a]].linked
        /\ ~Locked(TaskOf[a])
    BY <1>2 DEF evaluate_assignment_checks
  <2>3. ~asg[a].deleted
    BY <1>3, <2>1, <2>2 DEF Standing
  <2>4. to[a] = TargetOf(task[TaskOf[a]].state)
    BY <1>1 DEF TargetOf
  <2>5. task[TaskOf[a]].state \in TaskStates
    BY <1>3, <2>1 DEF TaskRow
  <2>6. to[a] \in ACTIVE_ASSIGNMENT_STATES \cup {"failed"}
    BY <2>4, <2>5, TargetIs
  <2>7. to[a] \in ACTIVE_ASSIGNMENT_STATES
    BY <1>2, <2>2, <2>6 DEF _assert_allowed_move, ACTIVE_ASSIGNMENT_STATES
  <2> QED BY <2>1, <2>2, <2>3, <2>4, <2>7 DEF TargetOf
<1>5. Movable(E, to)
  BY <1>2, <1>4 DEF Movable
<1>6. /\ Tables' /\ Standing' /\ GoalsAddUp'
      /\ \A r \in Rows : row'[r].live = row[r].live
      /\ \A a \in Asgs : MovedTo(asg', E, to, a)
  BY <1>2, <1>5, MoveIs
<1>7. ASSUME NEW a \in Asgs
      PROVE  /\ a \notin E => asg'[a] = asg[a]
             /\ a \in E => asg'[a].state = to[a] /\ ~asg'[a].deleted
  <2>1. a \in E => to[a] # "DELETE"
    BY <1>4 DEF ACTIVE_ASSIGNMENT_STATES
  <2> QED BY <1>4, <1>6, <2>1 DEF MovedTo
<1>8. Kept(asg') = Kept(asg) \cup E /\ Active(asg') = Active(asg) \cup E
  <2>1. ASSUME NEW a \in Asgs PROVE /\ a \in Kept(asg') <=> a \in Kept(asg) \cup E
                                    /\ a \in Active(asg') <=> a \in Active(asg) \cup E
    BY <1>4, <1>7 DEF Kept, Active, ACTIVE_ASSIGNMENT_STATES
  <2>2. /\ Kept(asg') \subseteq Asgs /\ Kept(asg) \subseteq Asgs
        /\ Active(asg') \subseteq Asgs /\ Active(asg) \subseteq Asgs
    BY DEF Kept, Active
  <2> QED BY <2>1, <2>2
<1>9. ASSUME NEW t \in Tasks
      PROVE  /\ task'[t] \in TaskRow /\ task'[t].state = task[t].state
             /\ task'[t].deleted = task[t].deleted /\ task'[t].linked = task[t].linked
             /\ task'[t].flag = (task[t].flag \/ \E a \in E : TaskOf[a] = t)
  <2>1. PICK o \in TaskRow : o = task[t]
    BY <1>3
  <2>2. task'[t] = IF \E a \in E : TaskOf[a] = t THEN [o EXCEPT !.flag = TRUE] ELSE o
    BY <1>2, <2>1
  <2>3. /\ task'[t] \in TaskRow /\ task'[t].state = o.state /\ task'[t].deleted = o.deleted
        /\ task'[t].linked = o.linked
        /\ task'[t].flag = (IF \E a \in E : TaskOf[a] = t THEN TRUE ELSE o.flag)
    BY <2>2 DEF TaskRow
  <2>4. o.flag \in BOOLEAN
    BY DEF TaskRow
  <2> QED BY <2>1, <2>3, <2>4
<1>10. task' \in [Tasks -> TaskRow]
  BY <1>2, <1>9
<1>11. Flagged'
  <2>1. \A t \in Tasks : \/ task'[t].flag = expected_task_flag(asg', t)
                         \/ /\ task'[t].flag = task[t].flag
                            /\ \A a \in Asgs : TaskOf[a] = t => (a \in Kept(asg') <=> a \in Kept(asg))
    <3> SUFFICES ASSUME NEW t \in Tasks
                 PROVE  \/ task'[t].flag = expected_task_flag(asg', t)
                        \/ /\ task'[t].flag = task[t].flag
                           /\ \A a \in Asgs : TaskOf[a] = t => (a \in Kept(asg') <=> a \in Kept(asg))
      OBVIOUS
    <3>1. task[t].flag \in BOOLEAN
      BY <1>3 DEF TaskRow
    <3>2. CASE \E a \in E : TaskOf[a] = t
      <4>1. task'[t].flag = TRUE
        BY <1>9, <3>2
      <4>2. \E a \in Kept(asg') : TaskOf[a] = t
        BY <1>8, <3>2
      <4>3. expected_task_flag(asg', t) = TRUE
        BY <4>2 DEF expected_task_flag
      <4> QED BY <4>1, <4>3
    <3>3. CASE ~\E a \in E : TaskOf[a] = t
      BY <1>8, <1>9, <3>1, <3>3
    <3> QED BY <3>2, <3>3
  <2> QED BY <1>3, <2>1, FlagsKept
<1>12. Counted'
  BY <1>2, <1>3, <1>4, <1>5, CountedKept
<1>13. Held'
  <2>1. \A a \in Asgs : asg[a].state # "none" => asg'[a].state # "none"
    BY <1>4, <1>7
  <2>2. \A a \in Asgs : a \in Active(asg') => a \in Active(asg) \/ ~Locked(TaskOf[a])
    BY <1>4, <1>8
  <2> QED BY <1>2, <1>3, <2>1, <2>2, HeldKept
<1>14. ASSUME NEW r \in Rows
       PROVE  /\ snap'[r] \in Snapshots \cup {None}
              /\ snap[r] = None => snap'[r] = None
              /\ snap'[r] # None /\ (\E a \in E : RowOf[a] = r) =>
                   snap'[r].missing <= missing_quantity_ceiling(snap'[r], row'[r].cnt)
              /\ ~(\E a \in E : RowOf[a] = r) => snap'[r] = snap[r]
  <2>1. PICK d \in [ACTIVE_ASSIGNMENT_STATES -> Nat] : d = row'[r].cnt
    BY <1>6 DEF Tables, RowRow
  <2>2. PICK p, q : p = snap[r] /\ q = clamp_snapshot_missing_quantity(p, d)
    OBVIOUS
  <2>3. p \in Snapshots \cup {None}
    BY <1>3, <2>2
  <2>4. q \in Snapshots \cup {None} /\ (q # None => q.missing <= missing_quantity_ceiling(q, d))
    BY <2>2, <2>3, ClampedIs
  <2>5. p = None => q = None
    BY <2>2 DEF clamp_snapshot_missing_quantity
  <2>6. snap'[r] = IF \E a \in E : RowOf[a] = r THEN q ELSE p
    BY <1>2, <2>1, <2>2
  <2>7. CASE \E a \in E : RowOf[a] = r
    BY <2>1, <2>2, <2>4, <2>5, <2>6, <2>7
  <2>8. CASE ~\E a \in E : RowOf[a] = r
    BY <2>2, <2>3, <2>6, <2>8
  <2> QED BY <2>7, <2>8
<1>15. snap' \in [Rows -> Snapshots \cup {None}]
  BY <1>2, <1>14
<1>16. Bare'
  BY <1>2, <1>3, <1>6, <1>14 DEF Bare
<1>17. AssignmentFollowsTask'
  <2> SUFFICES ASSUME NEW a \in Kept(asg')
               PROVE  /\ row'[RowOf[a]].live = "yes"
                      /\ ~task'[TaskOf[a]].deleted /\ task'[TaskOf[a]].linked /\ ItemOf[TaskOf[a]] \notin gone'
                      /\ a \in Active(asg') => asg'[a].state = ASSIGNMENT_STATE_BY_TASK_STATE[task'[TaskOf[a]].state]
    BY DEF AssignmentFollowsTask
  <2>1. a \in Asgs /\ RowOf[a] \in Rows /\ TaskOf[a] \in Tasks
    BY StockAssumption DEF Kept
  <2>2. CASE a \in E
    BY <1>2, <1>4, <1>6, <1>7, <1>9, <2>1, <2>2
  <2>3. CASE a \notin E
    <3>1. a \in Kept(asg) /\ (a \in Active(asg') => a \in Active(asg)) /\ asg'[a] = asg[a]
      BY <1>7, <1>8, <2>1, <2>3
    <3>2. /\ row[RowOf[a]].live = "yes"
          /\ ~task[TaskOf[a]].deleted /\ task[TaskOf[a]].linked /\ ItemOf[TaskOf[a]] \notin gone
          /\ a \in Active(asg) => asg[a].state = ASSIGNMENT_STATE_BY_TASK_STATE[task[TaskOf[a]].state]
      BY <1>3, <3>1 DEF AssignmentFollowsTask
    <3> QED BY <1>2, <1>6, <1>9, <2>1, <3>1, <3>2
  <2> QED BY <2>2, <2>3
<1>18. MissingWithinCeiling'
  <2> SUFFICES ASSUME NEW r \in Rows, row'[r].live = "yes", r \notin drifted', snap'[r] # None
               PROVE  snap'[r].missing <= missing_quantity_ceiling(snap'[r], row'[r].cnt)
    BY DEF MissingWithinCeiling, LiveRows
  <2>1. CASE \E a \in E : RowOf[a] = r
    BY <1>14, <2>1
  <2>2. CASE ~\E a \in E : RowOf[a] = r
    <3>1. row[r].live = "yes" /\ snap'[r] = snap[r] /\ snap[r] # None /\ r \notin drifted
      BY <1>2, <1>6, <1>14, <2>2
    <3>2. PICK c, d, u, m : c = row[r].cnt /\ d = row'[r].cnt /\ u = asg /\ m = asg'
      OBVIOUS
    <3>3. c \in [ACTIVE_ASSIGNMENT_STATES -> Nat] /\ d \in [ACTIVE_ASSIGNMENT_STATES -> Nat]
      BY <1>3, <1>6, <3>2 DEF Tables, RowRow
    <3>4. c = recompute_row_counters(u, r) /\ d = recompute_row_counters(m, r)
      BY <1>3, <1>12, <3>1, <3>2 DEF Counted
    <3>5. /\ Used(c) = Cardinality(Assigned(u, r)) /\ Cardinality(Assigned(u, r)) \in Nat
          /\ Used(d) = Cardinality(Assigned(m, r)) /\ Cardinality(Assigned(m, r)) \in Nat
      BY <3>4, TotalIs DEF Used
    <3>6. Assigned(m, r) = Assigned(u, r)
      BY <1>8, <2>2, <3>2 DEF Assigned
    <3>7. PICK p \in Snapshots : p = snap[r]
      BY <1>3, <3>1
    <3>8. p.resolved \in Nat /\ p.missing <= missing_quantity_ceiling(p, c)
      BY <1>3, <3>1, <3>2, <3>7 DEF Snapshots, MissingWithinCeiling, LiveRows
    <3>9. Used(d) + p.resolved <= Used(c) + p.resolved
      BY <3>5, <3>6, <3>8
    <3>10. p.missing <= missing_quantity_ceiling(p, d)
      BY <3>3, <3>8, <3>9, CeilingKept
    <3> QED BY <3>1, <3>2, <3>7, <3>10
  <2> QED BY <2>1, <2>2
<1>19. edits' \in 0 .. MaxEdits
  BY <1>2, <1>3, StockAssumption DEF Edited
<1>20. TypeOK'
  BY <1>2, <1>3, <1>6, <1>10, <1>15, <1>19, TypesSufficeNext
<1> QED BY <1>6, <1>11, <1>12, <1>13, <1>16, <1>17, <1>18, <1>20 DEF IInv

-----------------------------------------------------------------------------
(* The steps that move no assignment.                                        *)

\* The ledgers where none of their tables is written.
LEMMA LedgersStill ==
  ASSUME IInv, asg' = asg, row' = row, goal' = goal, snap' = snap, drifted' = drifted
  PROVE  Tables' /\ Standing' /\ GoalsAddUp' /\ Counted' /\ Bare' /\ MissingWithinCeiling'
<1>1. /\ Tables /\ Standing /\ GoalsAddUp /\ Counted /\ Bare /\ MissingWithinCeiling
  BY TypesAre DEF IInv
<1>2. Tables' /\ Standing'
  BY <1>1 DEF Tables, Standing
<1>3. GoalsAddUp' /\ Counted'
  BY <1>1 DEF GoalsAddUp, Counted, recompute_goal_total, recompute_row_counters, Kept
<1>4. Bare'
  BY <1>1 DEF Bare
<1>5. MissingWithinCeiling'
  BY <1>1 DEF MissingWithinCeiling, LiveRows, missing_quantity_ceiling, effective_quantity_requested
<1> QED BY <1>2, <1>3, <1>4, <1>5

\* What is followed where no assignment or row is written.
LEMMA FollowedStill ==
  ASSUME IInv, asg' = asg, gone' = gone,
         \A r \in Rows : row[r].live = "yes" => row'[r].live = "yes",
         \A a \in Kept(asg) : task'[TaskOf[a]] = task[TaskOf[a]]
  PROVE  AssignmentFollowsTask'
<1>1. Kept(asg') = Kept(asg) /\ Active(asg') = Active(asg)
  BY DEF Kept, Active
<1>2. \A a \in Kept(asg) : RowOf[a] \in Rows
  BY StockAssumption DEF Kept
<1>3. ASSUME NEW a \in Kept(asg)
      PROVE  /\ row[RowOf[a]].live = "yes"
             /\ ~task[TaskOf[a]].deleted /\ task[TaskOf[a]].linked /\ ItemOf[TaskOf[a]] \notin gone
             /\ a \in Active(asg) => asg[a].state = ASSIGNMENT_STATE_BY_TASK_STATE[task[TaskOf[a]].state]
  BY DEF IInv, AssignmentFollowsTask
<1> SUFFICES ASSUME NEW a \in Kept(asg')
             PROVE  /\ row'[RowOf[a]].live = "yes"
                    /\ ~task'[TaskOf[a]].deleted /\ task'[TaskOf[a]].linked /\ ItemOf[TaskOf[a]] \notin gone'
                    /\ a \in Active(asg') => asg'[a].state = ASSIGNMENT_STATE_BY_TASK_STATE[task'[TaskOf[a]].state]
  BY DEF AssignmentFollowsTask
<1> QED BY <1>1, <1>2, <1>3

LEMMA HeldStill ==
  ASSUME IInv, asg' = asg, \A s \in Sessions : job'[s] = job[s] \/ job'[s] = None PROVE Held'
<1>1. Held /\ job \in [Sessions -> Jobs \cup {None}]
  BY TypesAre DEF IInv
<1>2. Active(asg') = Active(asg)
  BY DEF Active, Kept
<1> QED BY <1>1, <1>2, HeldKept

LEMMA FlaggedStill ==
  ASSUME IInv, asg' = asg, \A t \in Tasks : task'[t].flag = task[t].flag PROVE Flagged'
<1>1. Flagged
  BY DEF IInv
<1>2. Kept(asg') = Kept(asg)
  BY DEF Kept
<1> QED BY <1>1, <1>2, FlagsKept

\* A command begins, or its session rolls back.
LEMMA JobOnly ==
  ASSUME IInv, NEW s \in Sessions, NEW j \in Jobs \cup {None}, job' = [job EXCEPT ![s] = j],
         j # None =>
           /\ \A a \in j.ids : asg[a].state # "none"
           /\ j.cmd = "sync" => \A a \in Asgs : /\ a \in j.ids => TaskOf[a] = j.task
                                                /\ a \in Active(asg) /\ TaskOf[a] = j.task => a \in j.ids,
         edits' \in 0 .. MaxEdits, task' = task, gone' = gone, row' = row, goal' = goal,
         board' = board, snap' = snap, asg' = asg, drifted' = drifted
  PROVE  IInv'
<1>1. /\ task \in [Tasks -> TaskRow] /\ snap \in [Rows -> Snapshots \cup {None}]
      /\ job \in [Sessions -> Jobs \cup {None}] /\ drifted \subseteq Rows /\ gone \subseteq Items
      /\ board \in BOOLEAN /\ Held
  BY TypesAre DEF IInv
<1>2. Tables' /\ Standing' /\ GoalsAddUp' /\ Counted' /\ Bare' /\ MissingWithinCeiling'
  BY LedgersStill
<1>3. job' \in [Sessions -> Jobs \cup {None}] /\ job'[s] = j /\ \A u \in Sessions : u # s => job'[u] = job[u]
  BY <1>1
<1>4. TypeOK'
  BY <1>1, <1>2, <1>3, TypesSufficeNext
<1>5. Flagged' /\ AssignmentFollowsTask'
  BY FlaggedStill, FollowedStill
<1>6. Held'
  <2>1. Active(asg') = Active(asg)
    BY DEF Active, Kept
  <2> SUFFICES ASSUME NEW u \in Sessions, job'[u] # None
               PROVE  /\ \A a \in job'[u].ids : asg'[a].state # "none"
                      /\ job'[u].cmd = "sync" => \A a \in Asgs :
                           /\ a \in job'[u].ids => TaskOf[a] = job'[u].task
                           /\ a \in Active(asg') /\ TaskOf[a] = job'[u].task => a \in job'[u].ids
    BY DEF Held
  <2>2. CASE u = s
    BY <1>3, <2>1, <2>2
  <2>3. CASE u # s
    BY <1>1, <1>3, <2>1, <2>3 DEF Held
  <2> QED BY <2>2, <2>3
<1> QED BY <1>2, <1>4, <1>5, <1>6 DEF IInv

LEMMA EditsAre == ASSUME IInv, Edited PROVE edits' \in 0 .. MaxEdits
BY TypesAre, StockAssumption DEF Edited

LEMMA StepSessions ==
  ASSUME IInv, NEW s \in Sessions,
         \/ Rollback(s)
         \/ \E t \in Tasks, to \in Moves : SyncDiscover(s, t, to)
         \/ \E ids \in SUBSET Asgs : ProcessDiscover(s, ids) \/ DeleteDiscover(s, ids)
  PROVE  IInv'
<1>1. edits \in 0 .. MaxEdits
  BY TypesAre
<1>2. CASE Rollback(s)
  <2>1. /\ job' = [job EXCEPT ![s] = None] /\ edits' = edits /\ task' = task /\ gone' = gone /\ row' = row
        /\ goal' = goal /\ board' = board /\ snap' = snap /\ asg' = asg /\ drifted' = drifted
    BY <1>2 DEF Rollback
  <2> QED BY <1>1, <2>1, JobOnly
<1>3. ASSUME NEW t \in Tasks, NEW to \in Moves, SyncDiscover(s, t, to) PROVE IInv'
  <2>1. PICK ids : ids = {a \in Active(asg) : TaskOf[a] = t}
    OBVIOUS
  <2>2. PICK j : j = [cmd |-> "sync", task |-> t, to |-> to, ids |-> ids]
    OBVIOUS
  <2>3. /\ Edited /\ job' = [job EXCEPT ![s] = j] /\ task' = task /\ gone' = gone /\ row' = row
        /\ goal' = goal /\ board' = board /\ snap' = snap /\ asg' = asg /\ drifted' = drifted
    BY <1>3, <2>1, <2>2 DEF SyncDiscover
  <2>4. ids \in SUBSET Asgs /\ \A a \in ids : asg[a].state # "none"
    BY <2>1 DEF Active, Kept
  <2>5. j \in Jobs /\ j.ids = ids /\ j.task = t
    BY <2>2, <2>4 DEF Jobs
  <2>6. \A a \in Asgs : /\ a \in j.ids => TaskOf[a] = j.task
                        /\ a \in Active(asg) /\ TaskOf[a] = j.task => a \in j.ids
    BY <2>1, <2>5
  <2>7. edits' \in 0 .. MaxEdits
    BY <2>3, EditsAre
  <2> QED BY <2>3, <2>4, <2>5, <2>6, <2>7, JobOnly
<1>4. ASSUME NEW ids \in SUBSET Asgs, NEW cmd \in {"process", "delete"}, ids \subseteq Kept(asg),
             job' = [job EXCEPT ![s] = [cmd |-> cmd, task |-> None, to |-> None, ids |-> ids]],
             edits' = edits, task' = task, gone' = gone, row' = row, goal' = goal, board' = board,
             snap' = snap, asg' = asg, drifted' = drifted
      PROVE  IInv'
  <2>1. PICK j : j = [cmd |-> cmd, task |-> None, to |-> None, ids |-> ids]
    OBVIOUS
  <2>2. j \in Jobs /\ j.ids = ids /\ j.cmd # "sync"
    BY <2>1 DEF Jobs
  <2>3. \A a \in j.ids : asg[a].state # "none"
    BY <1>4, <2>2 DEF Kept
  <2>4. job' = [job EXCEPT ![s] = j] /\ edits' \in 0 .. MaxEdits
    BY <1>1, <1>4, <2>1
  <2> QED BY <1>4, <2>2, <2>3, <2>4, JobOnly
<1>5. ASSUME NEW ids \in SUBSET Asgs, ProcessDiscover(s, ids) PROVE IInv'
  <2>1. ids \subseteq Kept(asg)
    BY <1>5 DEF ProcessDiscover, Active
  <2>2. /\ job' = [job EXCEPT ![s] = [cmd |-> "process", task |-> None, to |-> None, ids |-> ids]]
        /\ edits' = edits /\ task' = task /\ gone' = gone /\ row' = row /\ goal' = goal /\ board' = board
        /\ snap' = snap /\ asg' = asg /\ drifted' = drifted
    BY <1>5 DEF ProcessDiscover
  <2> QED BY <1>4, <2>1, <2>2
<1>6. ASSUME NEW ids \in SUBSET Asgs, DeleteDiscover(s, ids) PROVE IInv'
  <2>1. ids \subseteq Kept(asg)
    BY <1>6 DEF DeleteDiscover
  <2>2. /\ job' = [job EXCEPT ![s] = [cmd |-> "delete", task |-> None, to |-> None, ids |-> ids]]
        /\ edits' = edits /\ task' = task /\ gone' = gone /\ row' = row /\ goal' = goal /\ board' = board
        /\ snap' = snap /\ asg' = asg /\ drifted' = drifted
    BY <1>6 DEF DeleteDiscover
  <2> QED BY <1>4, <2>1, <2>2
<1> QED BY <1>2, <1>3, <1>5, <1>6

\* A task that has no assignment is rewritten, its flag apart.
LEMMA TaskOnly ==
  ASSUME IInv, NEW t \in Tasks, NEW o \in TaskRow, o.flag = task[t].flag,
         \A a \in Kept(asg) : TaskOf[a] # t, Edited, task' = [task EXCEPT ![t] = o],
         gone' = gone, row' = row, goal' = goal, board' = board, snap' = snap, asg' = asg,
         job' = job, drifted' = drifted
  PROVE  IInv'
<1>1. /\ task \in [Tasks -> TaskRow] /\ snap \in [Rows -> Snapshots \cup {None}]
      /\ job \in [Sessions -> Jobs \cup {None}] /\ drifted \subseteq Rows /\ gone \subseteq Items
      /\ board \in BOOLEAN
  BY TypesAre
<1>2. Tables' /\ Standing' /\ GoalsAddUp' /\ Counted' /\ Bare' /\ MissingWithinCeiling'
  BY LedgersStill
<1>3. task' \in [Tasks -> TaskRow] /\ task'[t] = o /\ \A u \in Tasks : u # t => task'[u] = task[u]
  BY <1>1
<1>4. edits' \in 0 .. MaxEdits
  BY EditsAre
<1>5. TypeOK'
  BY <1>1, <1>2, <1>3, <1>4, TypesSufficeNext
<1>6. Flagged'
  BY <1>3, FlaggedStill
<1>7. AssignmentFollowsTask'
  <2>1. \A a \in Kept(asg) : TaskOf[a] \in Tasks
    BY StockAssumption DEF Kept
  <2> QED BY <1>3, <2>1, FollowedStill
<1>8. Held'
  BY HeldStill
<1> QED BY <1>2, <1>5, <1>6, <1>7, <1>8 DEF IInv

LEMMA StepTasks == ASSUME IInv, NEW t \in Tasks, restore_task(t) \/ add_item_to_task(t) PROVE IInv'
<1>1. task \in [Tasks -> TaskRow] /\ AssignmentFollowsTask
  BY TypesAre DEF IInv
<1>2. CASE restore_task(t)
  <2>1. PICK o : o = [task[t] EXCEPT !.deleted = FALSE]
    OBVIOUS
  <2>2. /\ Edited /\ task[t].deleted /\ task' = [task EXCEPT ![t] = o]
        /\ gone' = gone /\ row' = row /\ goal' = goal /\ board' = board /\ snap' = snap
        /\ asg' = asg /\ job' = job /\ drifted' = drifted
    BY <1>2, <2>1 DEF restore_task
  <2>3. o \in TaskRow /\ o.flag = task[t].flag
    BY <1>1, <2>1 DEF TaskRow
  <2>4. \A a \in Kept(asg) : TaskOf[a] # t
    BY <1>1, <2>2 DEF AssignmentFollowsTask
  <2> QED BY <2>2, <2>3, <2>4, TaskOnly
<1>3. CASE add_item_to_task(t)
  <2>1. PICK o : o = [task[t] EXCEPT !.linked = TRUE]
    OBVIOUS
  <2>2. /\ Edited /\ ~task[t].linked /\ task' = [task EXCEPT ![t] = o]
        /\ gone' = gone /\ row' = row /\ goal' = goal /\ board' = board /\ snap' = snap
        /\ asg' = asg /\ job' = job /\ drifted' = drifted
    BY <1>3, <2>1 DEF add_item_to_task
  <2>3. o \in TaskRow /\ o.flag = task[t].flag
    BY <1>1, <2>1 DEF TaskRow
  <2>4. \A a \in Kept(asg) : TaskOf[a] # t
    BY <1>1, <2>2 DEF AssignmentFollowsTask
  <2> QED BY <2>2, <2>3, <2>4, TaskOnly
<1> QED BY <1>2, <1>3

\* The snapshots rewritten: each one clamped, or set within its ceiling.
LEMMA SnapOnly ==
  ASSUME IInv, Edited, board' \in BOOLEAN, snap' = [r \in Rows |-> snap'[r]],
         \A r \in Rows :
            /\ snap'[r] \in Snapshots \cup {None}
            /\ row[r].live # "yes" => snap'[r] = None
            /\ \/ snap'[r] = snap[r]
               \/ snap'[r] # None => snap'[r].missing <= missing_quantity_ceiling(snap'[r], row[r].cnt),
         task' = task, gone' = gone, row' = row, goal' = goal, asg' = asg, job' = job, drifted' = drifted
  PROVE  IInv'
<1>1. /\ task \in [Tasks -> TaskRow] /\ job \in [Sessions -> Jobs \cup {None}]
      /\ drifted \subseteq Rows /\ gone \subseteq Items
      /\ Tables /\ Standing /\ GoalsAddUp /\ Counted /\ Bare /\ MissingWithinCeiling
  BY TypesAre DEF IInv
<1>2. Tables' /\ Standing'
  BY <1>1 DEF Tables, Standing
<1>3. GoalsAddUp' /\ Counted'
  BY <1>1 DEF GoalsAddUp, Counted, recompute_goal_total, recompute_row_counters, Kept
<1>4. edits' \in 0 .. MaxEdits
  BY EditsAre
<1>5. snap' \in [Rows -> Snapshots \cup {None}]
  OBVIOUS
<1>6. TypeOK'
  BY <1>1, <1>2, <1>4, <1>5, TypesSufficeNext
<1>7. Flagged' /\ AssignmentFollowsTask' /\ Held'
  BY FlaggedStill, FollowedStill, HeldStill
<1>8. Bare'
  BY <1>1 DEF Bare
<1>9. MissingWithinCeiling'
  <2> SUFFICES ASSUME NEW r \in Rows, row'[r].live = "yes", r \notin drifted', snap'[r] # None
               PROVE  snap'[r].missing <= missing_quantity_ceiling(snap'[r], row'[r].cnt)
    BY DEF MissingWithinCeiling, LiveRows
  <2>1. snap[r] # None => snap[r].missing <= missing_quantity_ceiling(snap[r], row[r].cnt)
    BY <1>1 DEF MissingWithinCeiling, LiveRows
  <2>2. PICK c, p, q : c = row[r].cnt /\ p = snap[r] /\ q = snap'[r]
    OBVIOUS
  <2>3. p # None => p.missing <= missing_quantity_ceiling(p, c)
    BY <2>1, <2>2
  <2>4. q = p \/ (q # None => q.missing <= missing_quantity_ceiling(q, c))
    BY <2>2
  <2>5. q.missing <= missing_quantity_ceiling(q, c)
    BY <2>2, <2>3, <2>4
  <2>6. row'[r].cnt = c
    BY <2>2
  <2> QED BY <2>2, <2>5, <2>6
<1> QED BY <1>2, <1>3, <1>6, <1>7, <1>8, <1>9 DEF IInv

LEMMA StepSetMissing ==
  ASSUME IInv, NEW r \in Rows, NEW q \in Quantities, set_missing_quantity(r, q) PROVE IInv'
<1>1. /\ snap \in [Rows -> Snapshots \cup {None}] /\ Tables /\ Bare /\ board \in BOOLEAN
  BY TypesAre DEF IInv
<1>2. PICK p, o : p = snap[r] /\ o = [p EXCEPT !.missing = q]
  OBVIOUS
<1>3. /\ Edited /\ row[r].live = "yes" /\ p # None /\ q <= missing_quantity_ceiling(p, row[r].cnt)
      /\ snap' = [snap EXCEPT ![r] = o]
      /\ task' = task /\ gone' = gone /\ row' = row /\ goal' = goal /\ board' = board /\ asg' = asg
      /\ job' = job /\ drifted' = drifted
  BY <1>2 DEF set_missing_quantity
<1>4. p \in Snapshots /\ q \in Nat
  BY <1>1, <1>2, <1>3, StockAssumption
<1>5. /\ o \in Snapshots /\ o.missing = q /\ o.scanner = p.scanner /\ o.manual = p.manual /\ o.resolved = p.resolved
  BY <1>2, <1>4 DEF Snapshots
<1>6. effective_quantity_requested(o) = effective_quantity_requested(p)
  BY <1>5 DEF effective_quantity_requested
<1>7. missing_quantity_ceiling(o, row[r].cnt) = missing_quantity_ceiling(p, row[r].cnt)
  BY <1>5, <1>6 DEF missing_quantity_ceiling
<1>8. snap'[r] = o /\ \A u \in Rows : u # r => snap'[u] = snap[u]
  BY <1>1, <1>3
<1>9. \A u \in Rows :
            /\ snap'[u] \in Snapshots \cup {None}
            /\ row[u].live # "yes" => snap'[u] = None
            /\ \/ snap'[u] = snap[u]
               \/ snap'[u] # None => snap'[u].missing <= missing_quantity_ceiling(snap'[u], row[u].cnt)
  <2> SUFFICES ASSUME NEW u \in Rows
               PROVE  /\ snap'[u] \in Snapshots \cup {None}
                      /\ row[u].live # "yes" => snap'[u] = None
                      /\ \/ snap'[u] = snap[u]
                         \/ snap'[u] # None => snap'[u].missing <= missing_quantity_ceiling(snap'[u], row[u].cnt)
    OBVIOUS
  <2>1. CASE u = r
    BY <1>3, <1>5, <1>7, <1>8, <2>1
  <2>2. CASE u # r
    BY <1>1, <1>8, <2>2 DEF Bare
  <2> QED BY <2>1, <2>2
<1>10. snap' = [u \in Rows |-> snap'[u]] /\ board' \in BOOLEAN
  BY <1>1, <1>3
<1> QED BY <1>3, <1>9, <1>10, SnapOnly

LEMMA StepSetRequested ==
  ASSUME IInv, NEW r \in Rows, NEW q \in Quantities \cup {None}, set_requested_quantity(r, q) PROVE IInv'
<1>1. /\ snap \in [Rows -> Snapshots \cup {None}] /\ Tables /\ Bare /\ board \in BOOLEAN
  BY TypesAre DEF IInv
<1>2. PICK p, o, c : p = snap[r] /\ o = [p EXCEPT !.manual = q] /\ c = row[r].cnt
  OBVIOUS
<1>3. PICK n : n = clamp_snapshot_missing_quantity(o, c)
  OBVIOUS
<1>4. /\ Edited /\ row[r].live = "yes" /\ p # None
      /\ snap' = [snap EXCEPT ![r] = n]
      /\ task' = task /\ gone' = gone /\ row' = row /\ goal' = goal /\ board' = board /\ asg' = asg
      /\ job' = job /\ drifted' = drifted
  BY <1>2, <1>3 DEF set_requested_quantity
<1>5. o \in Snapshots
  <2>1. p \in Snapshots /\ q \in Nat \cup {None}
    BY <1>1, <1>2, <1>4, StockAssumption
  <2> QED BY <1>2, <2>1 DEF Snapshots
<1>6. c \in [ACTIVE_ASSIGNMENT_STATES -> Nat]
  BY <1>1, <1>2 DEF Tables, RowRow
<1>7. n \in Snapshots \cup {None} /\ (n # None => n.missing <= missing_quantity_ceiling(n, c))
  BY <1>3, <1>5, <1>6, ClampedIs
<1>8. snap'[r] = n /\ \A u \in Rows : u # r => snap'[u] = snap[u]
  BY <1>1, <1>4
<1>9. \A u \in Rows :
            /\ snap'[u] \in Snapshots \cup {None}
            /\ row[u].live # "yes" => snap'[u] = None
            /\ \/ snap'[u] = snap[u]
               \/ snap'[u] # None => snap'[u].missing <= missing_quantity_ceiling(snap'[u], row[u].cnt)
  <2> SUFFICES ASSUME NEW u \in Rows
               PROVE  /\ snap'[u] \in Snapshots \cup {None}
                      /\ row[u].live # "yes" => snap'[u] = None
                      /\ \/ snap'[u] = snap[u]
                         \/ snap'[u] # None => snap'[u].missing <= missing_quantity_ceiling(snap'[u], row[u].cnt)
    OBVIOUS
  <2>1. CASE u = r
    BY <1>2, <1>4, <1>7, <1>8, <2>1
  <2>2. CASE u # r
    BY <1>1, <1>8, <2>2 DEF Bare
  <2> QED BY <2>1, <2>2
<1>10. snap' = [u \in Rows |-> snap'[u]] /\ board' \in BOOLEAN
  BY <1>1, <1>4
<1> QED BY <1>4, <1>9, <1>10, SnapOnly

LEMMA StepRefresh == ASSUME IInv, NEW keep \in BOOLEAN, refresh_requested(keep) PROVE IInv'
<1>1. /\ snap \in [Rows -> Snapshots \cup {None}] /\ Tables /\ Bare /\ board \in BOOLEAN
  BY TypesAre DEF IInv
<1>2. /\ Edited
      /\ task' = task /\ gone' = gone /\ row' = row /\ goal' = goal /\ board' = board /\ asg' = asg
      /\ job' = job /\ drifted' = drifted
      /\ snap' = [u \in Rows |-> snap'[u]]
  BY Zenon DEF refresh_requested
<1>3. ASSUME NEW u \in Rows
      PROVE  /\ snap'[u] \in Snapshots \cup {None}
             /\ row[u].live # "yes" => snap'[u] = None
             /\ \/ snap'[u] = snap[u]
                \/ snap'[u] # None => snap'[u].missing <= missing_quantity_ceiling(snap'[u], row[u].cnt)
  <2>1. PICK c, old, req : c = row[u].cnt /\ old = snap[u] /\ req = row[u].requested
    OBVIOUS
  <2>2. PICK p : p = IF old = None
                     THEN [scanner |-> req, manual |-> None, missing |-> 0, resolved |-> 0]
                     ELSE [old EXCEPT !.scanner = req, !.manual = IF keep THEN @ ELSE None]
    OBVIOUS
  <2>3. PICK n : n = clamp_snapshot_missing_quantity(p, c)
    OBVIOUS
  <2>4. snap'[u] = IF row[u].live # "yes" THEN old ELSE n
    BY <2>1, <2>2, <2>3, Zenon DEF refresh_requested
  <2>5. c \in [ACTIVE_ASSIGNMENT_STATES -> Nat] /\ old \in Snapshots \cup {None} /\ req \in Nat
    BY <1>1, <2>1 DEF Tables, RowRow
  <2>6. p \in Snapshots
    BY <2>2, <2>5 DEF Snapshots
  <2>7. n \in Snapshots \cup {None} /\ (n # None => n.missing <= missing_quantity_ceiling(n, c))
    BY <2>3, <2>5, <2>6, ClampedIs
  <2>8. row[u].live # "yes" => old = None
    BY <1>1, <2>1 DEF Bare
  <2> QED BY <2>1, <2>4, <2>5, <2>7, <2>8
<1> QED BY <1>1, <1>2, <1>3, SnapOnly

LEMMA StepGoLive ==
  ASSUME IInv, NEW keep \in BOOLEAN, NEW manual \in [Rows -> Quantities \cup {None}],
         NEW typed \in [Rows -> Quantities \cup {None}], _go_live(keep, manual, typed)
  PROVE  IInv'
<1>1. /\ snap \in [Rows -> Snapshots \cup {None}] /\ Tables
  BY TypesAre
<1>2. /\ Edited /\ board' \in BOOLEAN
      /\ task' = task /\ gone' = gone /\ row' = row /\ goal' = goal /\ asg' = asg
      /\ job' = job /\ drifted' = drifted
      /\ snap' = [u \in Rows |-> snap'[u]]
  BY Zenon DEF _go_live
<1>3. ASSUME NEW u \in Rows
      PROVE  /\ snap'[u] \in Snapshots \cup {None}
             /\ row[u].live # "yes" => snap'[u] = None
             /\ \/ snap'[u] = snap[u]
                \/ snap'[u] # None => snap'[u].missing <= missing_quantity_ceiling(snap'[u], row[u].cnt)
  <2>1. PICK c, req, man, set, old :
             /\ c = row[u].cnt /\ req = row[u].requested /\ man = manual[u] /\ set = typed[u]
             /\ old = IF keep /\ snap[u] # None THEN snap[u].missing ELSE 0
    OBVIOUS
  <2>2. PICK p : p = [scanner |-> req, manual |-> man, resolved |-> 0,
                      missing |-> IF set # None THEN set ELSE old]
    OBVIOUS
  <2>3. PICK n : n = clamp_snapshot_missing_quantity(p, c)
    OBVIOUS
  <2>4. snap'[u] = IF row[u].live # "yes" THEN None ELSE n
    BY <2>1, <2>2, <2>3, Zenon DEF _go_live
  <2>5. c \in [ACTIVE_ASSIGNMENT_STATES -> Nat] /\ req \in Nat
    BY <1>1, <2>1 DEF Tables, RowRow
  <2>6. man \in Nat \cup {None} /\ set \in Nat \cup {None}
    BY <2>1, StockAssumption
  <2>7. old \in Nat
    BY <1>1, <2>1 DEF Snapshots
  <2>8. p \in Snapshots
    BY <2>2, <2>5, <2>6, <2>7 DEF Snapshots
  <2>9. n \in Snapshots \cup {None} /\ (n # None => n.missing <= missing_quantity_ceiling(n, c))
    BY <2>3, <2>5, <2>8, ClampedIs
  <2> QED BY <2>1, <2>4, <2>9
<1> QED BY <1>2, <1>3, SnapOnly

\* Scanner asks for q units: the goal a rise opens has no credit yet.
LEMMA StepDemand ==
  ASSUME IInv, NEW r \in Rows, NEW q \in Quantities, apply_stock_demand(r, q) PROVE IInv'
<1>1. /\ task \in [Tasks -> TaskRow] /\ snap \in [Rows -> Snapshots \cup {None}]
      /\ job \in [Sessions -> Jobs \cup {None}] /\ drifted \subseteq Rows /\ gone \subseteq Items
      /\ board \in BOOLEAN
      /\ Tables /\ Standing /\ GoalsAddUp /\ Counted /\ Bare /\ MissingWithinCeiling
  BY TypesAre DEF IInv
<1>2. PICK o, s : o = row[r] /\ s = goal[r]
  OBVIOUS
<1>3. PICK n : n = [[o EXCEPT !.live = "yes"] EXCEPT !.requested = q]
  OBVIOUS
<1>4. /\ Edited /\ o.live # "deleted" /\ row' = [row EXCEPT ![r] = n]
      /\ \/ goal' = [goal EXCEPT ![r] = Append(s, 0)]
         \/ goal' = goal
      /\ task' = task /\ gone' = gone /\ board' = board /\ snap' = snap /\ asg' = asg
      /\ job' = job /\ drifted' = drifted
  <2>1. row' = [row EXCEPT ![r].live = "yes", ![r].requested = q]
    BY DEF apply_stock_demand
  <2>2. row' = [row EXCEPT ![r] = n]
    BY <1>1, <1>2, <1>3, <2>1 DEF Tables
  <2> QED BY <1>2, <2>2 DEF apply_stock_demand
<1>5. o \in RowRow /\ s \in Seq(Nat) /\ q \in Nat
  BY <1>1, <1>2, StockAssumption DEF Tables
<1>6. n \in RowRow /\ n.live = "yes" /\ n.cnt = o.cnt
  BY <1>3, <1>5 DEF RowRow
<1>7. /\ row' \in [Rows -> RowRow] /\ row'[r] = n /\ \A u \in Rows : u # r => row'[u] = row[u]
  BY <1>1, <1>4, <1>6 DEF Tables
<1>8. /\ Append(s, 0) \in Seq(Nat) /\ Len(Append(s, 0)) = Len(s) + 1 /\ Len(s) \in Nat
      /\ Append(s, 0)[Len(s) + 1] = 0 /\ \A g \in 1 .. Len(s) : Append(s, 0)[g] = s[g]
  BY <1>5
<1>9. PICK e : e = goal'[r]
  OBVIOUS
<1>10. /\ \A u \in Rows : u # r => goal'[u] = goal[u]
       /\ \/ e = s
          \/ /\ e \in Seq(Nat) /\ Len(e) = Len(s) + 1 /\ e[Len(s) + 1] = 0
             /\ \A g \in 1 .. Len(s) : e[g] = s[g]
  BY <1>1, <1>2, <1>4, <1>8, <1>9 DEF Tables
<1>11. goal' \in [Rows -> Seq(Nat)]
  BY <1>1, <1>4, <1>8 DEF Tables
<1>12. Tables'
  BY <1>1, <1>4, <1>7, <1>11 DEF Tables
<1>13. Standing'
  <2> SUFFICES ASSUME NEW a \in Asgs
               PROVE  /\ asg'[a].state = "none" => ~asg'[a].deleted
                      /\ asg'[a].state \in {"none", "in_queue", "in_progress"} => asg'[a].credit = 0
                      /\ asg'[a].credit <= Len(goal'[RowOf[a]])
                      /\ asg'[a].state # "none" => row'[RowOf[a]].live # "no"
    BY DEF Standing
  <2>1. RowOf[a] \in Rows
    BY StockAssumption
  <2>2. /\ asg[a].state = "none" => ~asg[a].deleted
        /\ asg[a].state \in {"none", "in_queue", "in_progress"} => asg[a].credit = 0
        /\ asg[a].credit <= Len(goal[RowOf[a]])
        /\ asg[a].state # "none" => row[RowOf[a]].live # "no"
    BY <1>1 DEF Standing
  <2>3. asg[a].credit \in Nat
    BY <1>1 DEF Tables, AsgRow
  <2>4. CASE RowOf[a] = r
    <3>1. asg[a].credit <= Len(e)
      BY <1>2, <1>8, <1>10, <2>2, <2>3, <2>4
    <3> QED BY <1>4, <1>6, <1>7, <1>9, <2>2, <2>4, <3>1
  <2>5. CASE RowOf[a] # r
    BY <1>4, <1>7, <1>10, <2>1, <2>2, <2>5
  <2> QED BY <2>4, <2>5
<1>14. GoalsAddUp'
  <2> SUFFICES ASSUME NEW u \in Rows, NEW g \in 1 .. Len(goal'[u])
               PROVE  goal'[u][g] = recompute_goal_total(asg', u, g)
    BY DEF GoalsAddUp, recompute_goal_total
  <2>1. recompute_goal_total(asg', u, g) = recompute_goal_total(asg, u, g)
    BY <1>4 DEF recompute_goal_total
  <2>2. \A h \in 1 .. Len(goal[u]) : goal[u][h] = recompute_goal_total(asg, u, h)
    BY <1>1 DEF GoalsAddUp
  <2>3. CASE u # r \/ e = s
    BY <1>2, <1>9, <1>10, <2>1, <2>2, <2>3
  <2>4. CASE u = r /\ e # s
    <3>1. /\ Len(e) = Len(s) + 1 /\ e[Len(s) + 1] = 0 /\ \A h \in 1 .. Len(s) : e[h] = s[h]
      BY <1>10, <2>4
    <3>2. g \in 1 .. Len(s) + 1 /\ goal'[u][g] = e[g]
      BY <1>9, <2>4, <3>1
    <3>3. CASE g \in 1 .. Len(s)
      BY <1>2, <2>1, <2>2, <2>4, <3>1, <3>2, <3>3
    <3>4. CASE g = Len(s) + 1
      <4>1. CreditedTo(asg, r, g) = {}
        <5> SUFFICES ASSUME NEW a \in Asgs, RowOf[a] = r PROVE asg[a].credit # g
          BY DEF CreditedTo
        <5>1. asg[a].credit <= Len(s) /\ asg[a].credit \in Nat
          BY <1>1, <1>2 DEF Standing, Tables, AsgRow
        <5> QED BY <1>8, <3>4, <5>1
      <4>2. recompute_goal_total(asg, u, g) = 0
        BY <2>4, <4>1, FS_EmptySet DEF recompute_goal_total, CreditedTo
      <4> QED BY <2>1, <3>1, <3>2, <3>4, <4>2
    <3> QED BY <1>8, <3>2, <3>3, <3>4
  <2> QED BY <2>3, <2>4
<1>15. Counted'
  <2> SUFFICES ASSUME NEW u \in Rows, row'[u].live # "deleted", u \notin drifted'
               PROVE  row'[u].cnt = recompute_row_counters(asg', u)
    BY DEF Counted
  <2>1. row[u].live # "deleted" /\ u \notin drifted /\ row'[u].cnt = row[u].cnt
    BY <1>2, <1>4, <1>6, <1>7
  <2>2. row[u].cnt = recompute_row_counters(asg, u)
    BY <1>1, <2>1 DEF Counted
  <2> QED BY <1>4, <2>1, <2>2
<1>16. Bare'
  BY <1>1, <1>4, <1>6, <1>7 DEF Bare
<1>17. edits' \in 0 .. MaxEdits
  BY <1>4, EditsAre
<1>18. TypeOK'
  BY <1>1, <1>4, <1>12, <1>17, TypesSufficeNext
<1>19. Flagged' /\ Held'
  BY <1>4, FlaggedStill, HeldStill
<1>20. AssignmentFollowsTask'
  BY <1>4, <1>6, <1>7, FollowedStill
<1>21. MissingWithinCeiling'
  <2> SUFFICES ASSUME NEW u \in Rows, row'[u].live = "yes", u \notin drifted', snap'[u] # None
               PROVE  snap'[u].missing <= missing_quantity_ceiling(snap'[u], row'[u].cnt)
    BY DEF MissingWithinCeiling, LiveRows
  <2>1. snap[u] # None /\ u \notin drifted /\ row'[u].cnt = row[u].cnt
    BY <1>2, <1>4, <1>6, <1>7
  <2>2. row[u].live = "yes"
    BY <1>1, <2>1 DEF Bare
  <2>3. snap[u].missing <= missing_quantity_ceiling(snap[u], row[u].cnt)
    BY <1>1, <2>1, <2>2 DEF MissingWithinCeiling, LiveRows
  <2> QED BY <1>4, <2>1, <2>3
<1> QED BY <1>13, <1>14, <1>15, <1>16, <1>18, <1>19, <1>20, <1>21 DEF IInv

LEMMA RecountTyped ==
  ASSUME NEW t, NEW r
  PROVE  /\ recompute_row_counters(t, r) \in [ACTIVE_ASSIGNMENT_STATES -> Nat]
         /\ \A g : recompute_goal_total(t, r, g) \in Nat
<1>1. \A st : On(t, r, st) \in SUBSET Asgs
  BY DEF On, Kept
<1>2. \A g : CreditedTo(t, r, g) \in SUBSET Asgs
  BY DEF CreditedTo
<1> QED BY <1>1, <1>2, CardIsNat DEF recompute_row_counters, recompute_goal_total, On, CreditedTo

\* The repair sets each ledger to the count it should be, and changes nothing else.
LEMMA StepRepair == ASSUME IInv, repair_stock_report PROVE IInv'
<1>1. /\ task \in [Tasks -> TaskRow] /\ snap \in [Rows -> Snapshots \cup {None}]
      /\ job \in [Sessions -> Jobs \cup {None}] /\ gone \subseteq Items
      /\ board \in BOOLEAN /\ edits \in 0 .. MaxEdits
      /\ Tables /\ Standing /\ Counted /\ Flagged /\ Bare
  BY TypesAre DEF IInv
<1>2. /\ drifted' = {} /\ gone' = gone /\ board' = board /\ asg' = asg /\ job' = job /\ edits' = edits
      /\ goal' = [r \in Rows |-> [g \in 1 .. Len(goal[r]) |-> recompute_goal_total(asg, r, g)]]
      /\ task' = [t \in Tasks |-> [task[t] EXCEPT !.flag = expected_task_flag(asg, t)]]
      /\ row' = [r \in Rows |-> IF row[r].live = "yes"
                                THEN [row[r] EXCEPT !.cnt = recompute_row_counters(asg, r)] ELSE row[r]]
      /\ snap' = [r \in Rows |-> Repaired(r)]
      /\ \A r \in LiveRows : snap'[r] # None =>
            snap'[r].missing <= missing_quantity_ceiling(snap'[r], row'[r].cnt)
  BY DEF repair_stock_report
<1>3. ASSUME NEW r \in Rows
      PROVE  /\ row'[r] \in RowRow /\ row'[r].live = row[r].live
             /\ row[r].live = "yes" => row'[r].cnt = recompute_row_counters(asg, r)
             /\ row[r].live # "yes" => row'[r].cnt = row[r].cnt
  <2>1. PICK o, c : o = row[r] /\ c = recompute_row_counters(asg, r)
    OBVIOUS
  <2>2. o \in RowRow /\ c \in [ACTIVE_ASSIGNMENT_STATES -> Nat]
    BY <1>1, <2>1, RecountTyped DEF Tables
  <2>3. row'[r] = IF o.live = "yes" THEN [o EXCEPT !.cnt = c] ELSE o
    BY <1>2, <2>1
  <2>4. /\ row'[r] \in RowRow /\ row'[r].live = o.live
        /\ row'[r].cnt = IF o.live = "yes" THEN c ELSE o.cnt
    BY <2>2, <2>3 DEF RowRow
  <2> QED BY <2>1, <2>4
<1>4. ASSUME NEW r \in Rows
      PROVE  /\ goal'[r] \in Seq(Nat) /\ Len(goal'[r]) = Len(goal[r])
             /\ \A g \in 1 .. Len(goal'[r]) : goal'[r][g] = recompute_goal_total(asg, r, g)
  <2>1. PICK n \in Nat : n = Len(goal[r])
    BY <1>1, GoalIs
  <2>2. PICK G : G = [g \in 1 .. n |-> recompute_goal_total(asg, r, g)]
    OBVIOUS
  <2>3. goal'[r] = G
    BY <1>2, <2>1, <2>2
  <2>4. G \in [1 .. n -> Nat]
    BY <2>2, RecountTyped
  <2>5. G \in Seq(Nat) /\ Len(G) = n
    BY <2>4, IsSequence
  <2> QED BY <2>1, <2>2, <2>3, <2>5
<1>5. ASSUME NEW t \in Tasks PROVE task'[t] = task[t]
  <2>1. PICK o, f : o = task[t] /\ f = expected_task_flag(asg, t)
    OBVIOUS
  <2>2. o \in TaskRow /\ o.flag = f
    BY <1>1, <2>1 DEF Flagged
  <2>3. task'[t] = [o EXCEPT !.flag = f]
    BY <1>2, <2>1
  <2>4. task'[t] = o
    BY <2>2, <2>3 DEF TaskRow
  <2> QED BY <2>1, <2>4
<1>6. task' \in [Tasks -> TaskRow]
  <2>1. \A t \in Tasks : task'[t] \in TaskRow
    BY <1>1, <1>5
  <2> QED BY <1>2, <2>1
<1>7. Tables'
  <2>1. row' \in [Rows -> RowRow]
    BY <1>2, <1>3
  <2>2. goal' \in [Rows -> Seq(Nat)]
    BY <1>2, <1>4
  <2> QED BY <1>1, <1>2, <2>1, <2>2 DEF Tables
<1>8. ASSUME NEW r \in Rows
      PROVE  snap'[r] \in Snapshots \cup {None} /\ (snap[r] = None => snap'[r] = None)
  <2>1. PICK p, c : p = snap[r] /\ c = row[r].cnt
    OBVIOUS
  <2>2. PICK k : k = missing_quantity_ceiling(p, c)
    OBVIOUS
  <2>3. p # None => k \in Nat
    <3>1. c \in [ACTIVE_ASSIGNMENT_STATES -> Nat]
      BY <1>1, <2>1 DEF Tables, RowRow
    <3> QED BY <1>1, <2>1, <2>2, <3>1, CeilingIs
  <2>4. snap'[r] = IF row[r].live = "yes" /\ p # None /\ p.missing > k THEN [p EXCEPT !.missing = k] ELSE p
    BY <1>2, <2>1, <2>2 DEF Repaired
  <2> QED BY <1>1, <2>1, <2>3, <2>4 DEF Snapshots
<1>9. snap' \in [Rows -> Snapshots \cup {None}]
  BY <1>2, <1>8
<1>10. TypeOK'
  <2>1. drifted' \subseteq Rows
    BY <1>2
  <2> QED BY <1>1, <1>2, <1>6, <1>7, <1>9, <2>1, TypesSufficeNext
<1>11. Standing'
  <2>1. \A a \in Asgs : RowOf[a] \in Rows
    BY StockAssumption
  <2> QED BY <1>1, <1>2, <1>3, <1>4, <2>1 DEF Standing
<1>12. GoalsAddUp'
  <2>1. \A r, g : recompute_goal_total(asg', r, g) = recompute_goal_total(asg, r, g)
    BY <1>2
  <2> QED BY <1>4, <2>1 DEF GoalsAddUp
<1>13. Bare'
  BY <1>1, <1>2, <1>3, <1>8 DEF Bare
<1>14. Counted'
  <2> SUFFICES ASSUME NEW r \in Rows, row'[r].live # "deleted"
               PROVE  row'[r].cnt = recompute_row_counters(asg', r)
    BY DEF Counted
  <2>1. recompute_row_counters(asg', r) = recompute_row_counters(asg, r)
    BY <1>2
  <2>2. CASE row[r].live = "yes"
    BY <1>3, <2>1, <2>2
  <2>3. CASE row[r].live # "yes"
    <3>1. row[r].live = "no"
      BY <1>1, <1>3, <2>3 DEF Tables, RowRow
    <3>2. r \notin drifted
      BY <1>1, <3>1 DEF Bare
    <3> QED BY <1>1, <1>3, <2>1, <2>3, <3>1, <3>2 DEF Counted
  <2> QED BY <2>2, <2>3
<1>15. Flagged' /\ Held'
  BY <1>2, <1>5, FlaggedStill, HeldStill
<1>16. AssignmentFollowsTask'
  <2>1. \A a \in Kept(asg) : TaskOf[a] \in Tasks
    BY StockAssumption DEF Kept
  <2> QED BY <1>2, <1>3, <1>5, <2>1, FollowedStill
<1>17. MissingWithinCeiling'
  BY <1>2, <1>3 DEF MissingWithinCeiling, LiveRows
<1> QED BY <1>10, <1>11, <1>12, <1>13, <1>14, <1>15, <1>16, <1>17 DEF IInv

-----------------------------------------------------------------------------
(* The theorems.                                                             *)

LEMMA InitIInv == ASSUME Init PROVE IInv
<1>1. /\ task = [t \in Tasks |-> [state |-> "PENDING", deleted |-> FALSE, linked |-> TRUE, flag |-> FALSE]]
      /\ gone = {} /\ board = FALSE /\ drifted = {} /\ edits = 0
      /\ row = [r \in Rows |-> [live |-> "no", requested |-> 0,
                                cnt |-> [st \in ACTIVE_ASSIGNMENT_STATES |-> 0]]]
      /\ goal = [r \in Rows |-> <<>>] /\ snap = [r \in Rows |-> None] /\ job = [s \in Sessions |-> None]
      /\ asg = [a \in Asgs |-> [state |-> "none", deleted |-> FALSE, credit |-> 0]]
  BY DEF Init
<1>2. Kept(asg) = {} /\ \A a \in Asgs : asg[a].state = "none" /\ ~asg[a].deleted /\ asg[a].credit = 0
  BY <1>1 DEF Kept
<1>3. task \in [Tasks -> TaskRow]
  BY <1>1 DEF TaskRow, TaskStates
<1>4. row \in [Rows -> RowRow] /\ \A r \in Rows : row[r].live = "no" /\ row[r].cnt = [st \in ACTIVE_ASSIGNMENT_STATES |-> 0]
  BY <1>1 DEF RowRow
<1>5. asg \in [Asgs -> AsgRow]
  BY <1>1 DEF AsgRow, AsgStates
<1>6. goal \in [Rows -> Seq(Nat)] /\ \A r \in Rows : Len(goal[r]) = 0
  BY <1>1
<1>7. Tables
  BY <1>4, <1>5, <1>6 DEF Tables
<1>8. TypeOK
  <2>1. snap \in [Rows -> Snapshots \cup {None}] /\ job \in [Sessions -> Jobs \cup {None}]
    BY <1>1
  <2>2. drifted \subseteq Rows /\ gone \subseteq Items /\ board \in BOOLEAN
    BY <1>1
  <2>3. edits \in 0 .. MaxEdits
    BY <1>1, StockAssumption
  <2> QED BY <1>3, <1>7, <2>1, <2>2, <2>3 DEF TypeOK, Tables, AsgRow, AsgStates, RowRow, TaskRow
<1>9. Standing
  BY <1>2, <1>6, StockAssumption DEF Standing
<1>10. GoalsAddUp
  BY <1>6 DEF GoalsAddUp
<1>11. Counted
  <2> SUFFICES ASSUME NEW r \in Rows PROVE row[r].cnt = recompute_row_counters(asg, r)
    BY DEF Counted
  <2>1. \A st : On(asg, r, st) = {}
    BY <1>2 DEF On
  <2>2. recompute_row_counters(asg, r) = [st \in ACTIVE_ASSIGNMENT_STATES |-> 0]
    BY <2>1, FS_EmptySet DEF recompute_row_counters, On
  <2> QED BY <1>4, <2>2
<1>12. Flagged
  BY <1>1, <1>2 DEF Flagged, expected_task_flag
<1>13. Held /\ Bare
  BY <1>1 DEF Held, Bare
<1>14. AssignmentFollowsTask /\ MissingWithinCeiling
  <2>1. LiveRows = {}
    BY <1>4 DEF LiveRows
  <2> QED BY <1>2, <2>1 DEF AssignmentFollowsTask, MissingWithinCeiling
<1> QED BY <1>8, <1>9, <1>10, <1>11, <1>12, <1>13, <1>14 DEF IInv

LEMMA StepIInv == ASSUME IInv, [Next]_vars PROVE IInv'
<1>1. CASE UNCHANGED vars
  <2>1. /\ task' = task /\ gone' = gone /\ row' = row /\ goal' = goal /\ board' = board
        /\ snap' = snap /\ asg' = asg /\ job' = job /\ drifted' = drifted /\ edits' = edits
    BY <1>1 DEF vars
  <2>2. Tables' /\ Standing' /\ GoalsAddUp' /\ Counted' /\ Bare' /\ MissingWithinCeiling'
    BY <2>1, LedgersStill
  <2>3. Flagged' /\ AssignmentFollowsTask' /\ Held'
    BY <2>1, FlaggedStill, FollowedStill, HeldStill
  <2>4. TypeOK'
    BY <2>1, <2>2, TypesAre, TypesSufficeNext
  <2> QED BY <2>2, <2>3, <2>4 DEF IInv
<1>2. CASE Next
  <2>1. ASSUME NEW s \in Sessions,
               \/ Rollback(s) \/ sync_task_stock_assignments(s)
               \/ process_items_processed(s) \/ delete_stock_task_assignments(s)
               \/ \E t \in Tasks, to \in Moves : SyncDiscover(s, t, to)
               \/ \E ids \in SUBSET Asgs : ProcessDiscover(s, ids) \/ DeleteDiscover(s, ids)
        PROVE  IInv'
    BY <2>1, StepSessions, StepSync, StepProcess, StepDelete
  <2>2. ASSUME NEW E \in SUBSET Asgs, create_stock_task_assignments(E) PROVE IInv'
    BY <2>2, StepCreate
  <2>3. ASSUME NEW t \in Tasks,
               delete_task(t) \/ restore_task(t) \/ remove_item_from_task(t) \/ add_item_to_task(t)
        PROVE  IInv'
    BY <2>3, StepDeleteTask, StepRemoveItem, StepTasks
  <2>4. ASSUME NEW i \in Items, delete_item(i) PROVE IInv'
    BY <2>4, StepDeleteItem
  <2>5. ASSUME NEW r \in Rows, cascade_delete_stock_report_item(r) PROVE IInv'
    BY <2>5, StepCascade
  <2>6. ASSUME NEW r \in Rows, NEW q \in Quantities, apply_stock_demand(r, q) \/ set_missing_quantity(r, q)
        PROVE  IInv'
    BY <2>6, StepDemand, StepSetMissing
  <2>7. ASSUME NEW r \in Rows, NEW q \in Quantities \cup {None}, set_requested_quantity(r, q) PROVE IInv'
    BY <2>7, StepSetRequested
  <2>8. ASSUME NEW keep \in BOOLEAN, refresh_requested(keep) PROVE IInv'
    BY <2>8, StepRefresh
  <2>9. ASSUME NEW keep \in BOOLEAN, NEW manual \in [Rows -> Quantities \cup {None}],
               NEW typed \in [Rows -> Quantities \cup {None}], _go_live(keep, manual, typed)
        PROVE  IInv'
    BY <2>9, StepGoLive
  <2>10. CASE repair_stock_report
    BY <2>10, StepRepair
  <2> QED BY <1>2, <2>1, <2>2, <2>3, <2>4, <2>5, <2>6, <2>7, <2>8, <2>9, <2>10 DEF Next
<1> QED BY <1>1, <1>2

LEMMA Invariant == Spec => []IInv
<1>1. Init => IInv
  BY InitIInv
<1>2. IInv /\ [Next]_vars => IInv'
  BY StepIInv
<1> QED BY <1>1, <1>2, PTL DEF Spec

\* No counter and no goal total goes negative, even where the counters have drifted, and
\* every table keeps its type, whatever the sessions interleave.
THEOREM TypeCorrect == Spec => []TypeOK
<1>1. IInv => TypeOK
  BY DEF IInv
<1> QED BY <1>1, Invariant, PTL

\* After every commit each goal total and each task flag equals the recount of the
\* assignments, and so do the counters of a row on which Scanner resolved no deleted one.
THEOREM LedgersBalance == Spec => []LedgersAddUp
<1>1. IInv => LedgersAddUp
  <2> SUFFICES ASSUME IInv PROVE LedgersAddUp
    OBVIOUS
  <2>1. GoalsAddUp /\ Flagged /\ Counted
    BY DEF IInv
  <2>2. \A r \in Rows \ drifted : CountersAddUp(r)
    BY <2>1 DEF Counted, CountersAddUp
  <2> QED BY <2>1, <2>2 DEF LedgersAddUp, GoalsAddUp, Flagged
<1> QED BY <1>1, Invariant, PTL

\* An assignment has its row, task, item and link, and while it is active the state its
\* task calls for, though task commands look it up before they lock it.
THEOREM AssignmentsFollow == Spec => []AssignmentFollowsTask
<1>1. IInv => AssignmentFollowsTask
  BY DEF IInv
<1> QED BY <1>1, Invariant, PTL

\* What a snapshot marks missing stays within what the units assigned and those
\* processed leave, through every clamp and every change of the quantities in force.
THEOREM CeilingHolds == Spec => []MissingWithinCeiling
<1>1. IInv => MissingWithinCeiling
  BY DEF IInv
<1> QED BY <1>1, Invariant, PTL
=============================================================================
