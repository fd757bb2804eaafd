----------------------------- MODULE TaskSteps_proofs -----------------------------
(***************************************************************************)
(* Proofs about task steps, for any number of steps, sections, people and    *)
(* overlapping sessions.                                                     *)
(*                                                                           *)
(* First what each rule does to the tables, one lemma for a rule.  Then the  *)
(* two invariants.  Under overlap a plan is honest: it changes a step's state *)
(* only where it opens a record in the new state or removes the step, which  *)
(* is a property of the plan alone and so survives whatever others commit.   *)
(* One transaction after the other, a plan is computed from the tables it    *)
(* will be written to, and what it leaves is what the rules make of them.    *)
(***************************************************************************)
EXTENDS TaskSteps, FiniteSetTheorems, TLAPS

-----------------------------------------------------------------------------
(* The rules.                                                                *)

LEMMA CardIsNat == ASSUME NEW S \in SUBSET Steps PROVE Cardinality(S) \in Nat /\ IsFiniteSet(S)
BY FS_Subset, FS_CardinalityType, StepsAssumption

\* Readiness is derived from the counters; no other column moves.
LEMMA ReadinessOf ==
  ASSUME NEW r \in Row, NEW q, q = recalculate_readiness(r)
  PROVE  /\ q \in Row
         /\ q.live = r.live /\ q.state = r.state /\ q.total = r.total /\ q.done = r.done
         /\ q.batch = r.batch
         /\ q.ready = IF r.total = 0 \/ r.done = r.total THEN "READY"
                      ELSE IF r.done = 0 THEN "BLOCKED" ELSE "PARTIAL"
         /\ q = recalculate_readiness(q)
BY DEF recalculate_readiness, Row

LEMMA RecordIs ==
  ASSUME NEW st \in StepStates, NEW by \in People, NEW credit \in People
  PROVE  Record(st, by, credit) \in Rec /\ Record(st, by, credit).state = st
BY DEF Record, Rec, NoRec, People

SameButRows(e, d) == e.rec = d.rec /\ e.edge = d.edge /\ e.wiring = d.wiring /\ e.batching = d.batching

\* Entering a state touches the state and the record of the steps that enter it.
Entered(e, d, S, st, by, credit) ==
  /\ e \in Db /\ e.task = d.task /\ e.edge = d.edge /\ e.wiring = d.wiring /\ e.batching = d.batching
  /\ \A s \in Steps : /\ e.rec[s] = IF s \in S THEN Record(st, by, credit) ELSE d.rec[s]
                      /\ s \in S => e.rec[s].state = st
                      /\ e.row[s].live = d.row[s].live
                      /\ e.row[s].state = IF s \in S THEN st ELSE d.row[s].state
                      /\ e.row[s].total = d.row[s].total /\ e.row[s].done = d.row[s].done
                      /\ e.row[s].ready = d.row[s].ready /\ e.row[s].batch = d.row[s].batch

LEMMA EnterDoes ==
  ASSUME NEW d \in Db, NEW S \in SUBSET Steps, NEW st \in StepStates,
         NEW by \in People, NEW credit \in People
  PROVE  Entered(Enter(d, S, st, by, credit), d, S, st, by, credit)
<1> DEFINE row == [s \in Steps |-> IF s \in S THEN [d.row[s] EXCEPT !.state = st] ELSE d.row[s]]
           rec == [s \in Steps |-> IF s \in S THEN Record(st, by, credit) ELSE d.rec[s]]
<1>1. \A s \in Steps : d.row[s] \in Row /\ d.rec[s] \in Rec
  BY DEF Db
<1>2. rec \in [Steps -> Rec]
  BY <1>1, RecordIs
<1>3. ASSUME NEW s \in Steps
      PROVE  /\ row[s] \in Row /\ row[s].live = d.row[s].live
             /\ row[s].state = IF s \in S THEN st ELSE d.row[s].state
             /\ row[s].total = d.row[s].total /\ row[s].done = d.row[s].done
             /\ row[s].ready = d.row[s].ready /\ row[s].batch = d.row[s].batch
  <2>1. PICK r \in Row : r = d.row[s]
    BY <1>1
  <2>2. row[s] = IF s \in S THEN [r EXCEPT !.state = st] ELSE r
    BY <2>1
  <2> HIDE DEF row
  <2> QED BY <2>1, <2>2 DEF Row
<1>4. PICK e : e = Enter(d, S, st, by, credit)
  OBVIOUS
<1>5. row \in [Steps -> Row]
  BY <1>3
<1>6. \A s \in Steps : rec[s] = IF s \in S THEN Record(st, by, credit) ELSE d.rec[s]
  OBVIOUS
<1>7. e = [d EXCEPT !.row = row, !.rec = rec]
  BY <1>4 DEF Enter
<1> HIDE DEF row, rec
<1>8. e.row = row /\ e.rec = rec /\ e.task = d.task /\ e.edge = d.edge /\ e.wiring = d.wiring /\ e.batching = d.batching
  BY <1>7 DEF Db
<1>9. e \in Db
  BY <1>2, <1>5, <1>7 DEF Db
<1>10. Entered(e, d, S, st, by, credit)
  BY <1>3, <1>6, <1>8, <1>9, RecordIs DEF Entered
<1> QED BY <1>4, <1>10

\* The three looks at the task change its state only.
Looked(e, d) == /\ e \in Db /\ e.row = d.row /\ SameButRows(e, d)
                /\ e.task.deleted = d.task.deleted

LEMMA EvaluateDoes ==
  ASSUME NEW d \in Db, NEW b \in BOOLEAN, NEW e, e = maybe_evaluate_task_ready(d, b)
  PROVE  /\ Looked(e, d)
         /\ e.task.state = IF /\ d.task.state \notin TERMINAL_TASK_STATES
                              /\ \A s \in Live(d) : d.row[s].state \in TERMINAL_STEP_STATES
                              /\ Live(d) # {} \/ b
                           THEN "READY" ELSE d.task.state
BY DEF maybe_evaluate_task_ready, Db, TaskStates, SameButRows, Looked

LEMMA AdvanceDoes ==
  ASSUME NEW d \in Db, NEW e, e = maybe_advance_task_to_working(d)
  PROVE  Looked(e, d) /\ e.task.state = IF d.task.state = "ASSIGNED" THEN "WORKING" ELSE d.task.state
BY DEF maybe_advance_task_to_working, Db, TaskStates, SameButRows, Looked

LEMMA ReopenDoes ==
  ASSUME NEW d \in Db, NEW e, e = maybe_reopen_task_to_working(d)
  PROVE  Looked(e, d) /\ e.task.state = IF d.task.state = "READY" THEN "WORKING" ELSE d.task.state
BY DEF maybe_reopen_task_to_working, Db, TaskStates, SameButRows, Looked

\* What a rule that counts leaves in a row: the columns it does not touch, the counters it
\* computes and the readiness derived from them.
Counts(x, r, total, done) ==
  /\ x.live = r.live /\ x.state = r.state /\ x.batch = r.batch
  /\ x.total = total /\ x.done = done
  /\ x = recalculate_readiness(x)

Counters(r, total, done) == [r EXCEPT !.total = total, !.done = done]

LEMMA CountsAnew ==
  ASSUME NEW r \in Row, NEW total \in Nat, NEW done \in Nat,
         NEW x, x = recalculate_readiness(Counters(r, total, done))
  PROVE  x \in Row /\ Counts(x, r, total, done)
<1>1. PICK q : q = Counters(r, total, done)
  OBVIOUS
<1>2. /\ q \in Row /\ q.live = r.live /\ q.state = r.state /\ q.batch = r.batch
      /\ q.total = total /\ q.done = done
  BY <1>1 DEF Row, Counters
<1> QED BY <1>1, <1>2, ReadinessOf DEF Counts

\* A completion is counted by every live dependent, once for each prerequisite.
Cascaded(e, d, S) ==
  /\ e \in Db /\ e.task = d.task /\ SameButRows(e, d)
  /\ \A s \in Steps :
       LET n == Cardinality(Prereqs(d, s) \cap S) IN
       IF s \in Live(d) /\ n > 0
       THEN Counts(e.row[s], d.row[s], d.row[s].total, d.row[s].done + n)
       ELSE e.row[s] = d.row[s]

LEMMA CascadeDoes ==
  ASSUME NEW d \in Db, NEW S \in SUBSET Steps
  PROVE  Cascaded(cascade_step_completion(d, S), d, S)
<1> DEFINE n(s) == Cardinality(Prereqs(d, s) \cap S)
           q(s) == [d.row[s] EXCEPT !.done = @ + n(s)]
           row  == [s \in Steps |-> IF s \in Live(d) /\ n(s) > 0
                                    THEN recalculate_readiness(q(s)) ELSE d.row[s]]
<1>1. PICK e : e = cascade_step_completion(d, S)
  OBVIOUS
<1>2. e = [d EXCEPT !.row = row]
  BY <1>1 DEF cascade_step_completion
<1>3. ASSUME NEW s \in Steps
      PROVE  /\ row[s] \in Row
             /\ IF s \in Live(d) /\ n(s) > 0
                THEN Counts(row[s], d.row[s], d.row[s].total, d.row[s].done + n(s))
                ELSE row[s] = d.row[s]
  <2>1. n(s) \in Nat
    BY CardIsNat DEF Prereqs
  <2>2. PICK r \in Row : r = d.row[s]
    BY DEF Db
  <2>3. PICK k \in Nat : k = n(s)
    BY <2>1
  <2>4. PICK y : y = recalculate_readiness([r EXCEPT !.done = @ + k])
    OBVIOUS
  <2>5. row[s] = IF s \in Live(d) /\ k > 0 THEN y ELSE r
    BY <2>2, <2>3, <2>4
  <2> HIDE DEF n, row
  <2>6. PICK m \in Nat : m = r.done + k
    BY DEF Row
  <2>7. [r EXCEPT !.done = @ + k] = Counters(r, r.total, m)
    BY <2>6 DEF Row, Counters
  <2>8. r.total \in Nat
    BY DEF Row
  <2>9. y \in Row /\ Counts(y, r, r.total, m)
    BY <2>4, <2>7, <2>8, CountsAnew
  <2> QED BY <2>2, <2>3, <2>5, <2>6, <2>9
<1> HIDE DEF q
<1>4. row \in [Steps -> Row]
  BY <1>3
<1> HIDE DEF row
<1>5. e.row = row /\ e \in Db /\ e.task = d.task /\ SameButRows(e, d)
  BY <1>2, <1>4 DEF Db, SameButRows
<1> QED BY <1>1, <1>3, <1>5 DEF Cascaded

\* A transition: the records of the steps that move, their states, the task's state
\* and, for a completion, the counters of the dependents.
Moved(e, d, S, st, by, credit) ==
  /\ e \in Db /\ e.edge = d.edge /\ e.wiring = d.wiring /\ e.batching = d.batching /\ e.task.deleted = d.task.deleted
  /\ \A s \in Steps : /\ e.rec[s] = IF s \in S THEN Record(st, by, credit) ELSE d.rec[s]
                      /\ s \in S => e.rec[s].state = st
                      /\ e.row[s].live = d.row[s].live
                      /\ e.row[s].state = IF s \in S THEN st ELSE d.row[s].state
                      /\ e.row[s].batch = d.row[s].batch

LEMMA TransitionDoes ==
  ASSUME NEW d \in Db, NEW S \in SUBSET Steps, NEW st \in StepStates,
         NEW by \in People, NEW credit \in People
  PROVE  Moved(_apply_step_transition(d, S, st, by, credit), d, S, st, by, credit)
<1>1. PICK e, e0 : /\ e0 = Enter(d, S, st, by, credit)
                   /\ e = _apply_step_transition(d, S, st, by, credit)
  OBVIOUS
<1>2. Entered(e0, d, S, st, by, credit)
  BY <1>1, EnterDoes
<1>3. e0 \in Db
  BY <1>2 DEF Entered
<1>4. PICK r0 : r0 = IF st \in TERMINAL_STEP_STATES /\ S # {}
                     THEN maybe_evaluate_task_ready(e0, FALSE) ELSE e0
  OBVIOUS
<1>5. Looked(r0, e0)
  <2>1. Looked(e0, e0)
    BY <1>3 DEF Looked, SameButRows
  <2> QED BY <1>3, <1>4, <2>1, EvaluateDoes
<1>6. e = IF st = "WORKING" THEN maybe_advance_task_to_working(e0)
          ELSE IF st = "COMPLETED" THEN cascade_step_completion(r0, S) ELSE r0
  BY <1>1, <1>4 DEF _apply_step_transition
<1>7. \/ Looked(e, e0)
      \/ Cascaded(e, r0, S)
  <2>1. r0 \in Db
    BY <1>5 DEF Looked
  <2> QED BY <1>3, <1>5, <1>6, <2>1, AdvanceDoes, CascadeDoes
<1>8. CASE Looked(e, e0)
  BY <1>1, <1>2, <1>8 DEF Entered, Looked, SameButRows, Moved
<1>9. CASE Cascaded(e, r0, S)
  <2>1. /\ e \in Db /\ e.edge = d.edge /\ e.wiring = d.wiring /\ e.batching = d.batching
        /\ e.task.deleted = d.task.deleted /\ e.rec = e0.rec
    BY <1>2, <1>5, <1>9 DEF Cascaded, Entered, Looked, SameButRows
  <2>2. ASSUME NEW s \in Steps
        PROVE  /\ e.row[s].live = e0.row[s].live /\ e.row[s].state = e0.row[s].state
               /\ e.row[s].batch = e0.row[s].batch
    <3>1. r0.row = e0.row
      BY <1>5 DEF Looked
    <3> QED BY <1>9, <3>1 DEF Cascaded, Counts
  <2>3. Moved(e, d, S, st, by, credit)
    BY <1>2, <2>1, <2>2 DEF Entered, Moved
  <2> QED BY <1>1, <2>3
<1> QED BY <1>7, <1>8, <1>9

Into(E, s) == {p \in Steps : <<s, p>> \in E}

\* New edges raise the counters of the steps they start from.
WiredTo(e, d, E) ==
  /\ e \in Db /\ e.task = d.task /\ e.rec = d.rec /\ e.wiring = d.wiring /\ e.batching = d.batching
  /\ e.edge = d.edge \cup E
  /\ \A s \in Steps :
       IF Into(E, s) = {} THEN e.row[s] = d.row[s]
       ELSE Counts(e.row[s], d.row[s], d.row[s].total + Cardinality(Into(E, s)),
                   d.row[s].done + Cardinality(Into(E, s) \cap Completed(d)))

LEMMA WireDoes ==
  ASSUME NEW d \in Db, NEW E \in SUBSET (Steps \X Steps)
  PROVE  WiredTo(Wire(d, E), d, E)
<1> DEFINE q(s) == [d.row[s] EXCEPT !.total = @ + Cardinality(Into(E, s)),
                                    !.done = @ + Cardinality(Into(E, s) \cap Completed(d))]
           row  == [s \in Steps |-> IF Into(E, s) = {} THEN d.row[s] ELSE recalculate_readiness(q(s))]
<1>1. PICK e : e = Wire(d, E)
  OBVIOUS
<1>2. e = [d EXCEPT !.edge = @ \cup E, !.row = row]
  BY <1>1 DEF Wire, Into
<1>3. ASSUME NEW s \in Steps
      PROVE  /\ row[s] \in Row
             /\ IF Into(E, s) = {} THEN row[s] = d.row[s]
                ELSE Counts(row[s], d.row[s], d.row[s].total + Cardinality(Into(E, s)),
                            d.row[s].done + Cardinality(Into(E, s) \cap Completed(d)))
  <2>1. /\ Cardinality(Into(E, s)) \in Nat
        /\ Cardinality(Into(E, s) \cap Completed(d)) \in Nat
    BY CardIsNat DEF Into
  <2>2. PICK r \in Row : r = d.row[s]
    BY DEF Db
  <2>3. PICK k \in Nat, m \in Nat : /\ k = r.total + Cardinality(Into(E, s))
                                    /\ m = r.done + Cardinality(Into(E, s) \cap Completed(d))
    BY <2>1 DEF Row
  <2>4. PICK y : y = recalculate_readiness(Counters(r, k, m))
    OBVIOUS
  <2>5. row[s] = IF Into(E, s) = {} THEN r ELSE y
    BY <2>2, <2>3, <2>4 DEF Counters
  <2> HIDE DEF row
  <2>6. y \in Row /\ Counts(y, r, k, m)
    BY <2>4, CountsAnew
  <2> QED BY <2>2, <2>3, <2>5, <2>6
<1> HIDE DEF q
<1>4. row \in [Steps -> Row]
  BY <1>3
<1> HIDE DEF row
<1>5. /\ e.row = row /\ e \in Db /\ e.task = d.task /\ e.rec = d.rec /\ e.wiring = d.wiring /\ e.batching = d.batching
      /\ e.edge = d.edge \cup E
  BY <1>2, <1>4 DEF Db
<1> QED BY <1>1, <1>3, <1>5 DEF WiredTo

Clamp(n, total) == IF n > total THEN total ELSE n

\* Edges taken away lower the total; the completions are only clamped to it.
Unwired(e, d, E) ==
  /\ e \in Db /\ e.task = d.task /\ e.rec = d.rec /\ e.wiring = d.wiring /\ e.batching = d.batching
  /\ e.edge = d.edge \ E
  /\ \A s \in Steps :
       LET total == Max0(d.row[s].total - Cardinality(Into(E, s))) IN
       IF Cardinality(Into(E, s)) = 0 THEN e.row[s] = d.row[s]
       ELSE Counts(e.row[s], d.row[s], total, Clamp(d.row[s].done, total))

LEMMA UnwireDoes ==
  ASSUME NEW d \in Db, NEW E \in SUBSET (Steps \X Steps)
  PROVE  Unwired(Unwire(d, E), d, E)
<1> DEFINE t(s) == Max0(d.row[s].total - Cardinality(Into(E, s)))
           q(s) == [d.row[s] EXCEPT !.total = t(s), !.done = IF @ > t(s) THEN t(s) ELSE @]
           row  == [s \in Steps |-> IF Cardinality(Into(E, s)) = 0
                                    THEN d.row[s] ELSE recalculate_readiness(q(s))]
<1>1. PICK e : e = Unwire(d, E)
  OBVIOUS
<1>2. e = [d EXCEPT !.edge = @ \ E, !.row = row]
  BY <1>1 DEF Unwire, Into
<1>3. ASSUME NEW s \in Steps
      PROVE  /\ row[s] \in Row
             /\ IF Cardinality(Into(E, s)) = 0 THEN row[s] = d.row[s]
                ELSE Counts(row[s], d.row[s], t(s), Clamp(d.row[s].done, t(s)))
  <2>1. Cardinality(Into(E, s)) \in Nat
    BY CardIsNat DEF Into
  <2>2. PICK r \in Row : r = d.row[s]
    BY DEF Db
  <2>3. Max0(r.total - Cardinality(Into(E, s))) \in Nat
    BY <2>1 DEF Row, Max0
  <2>4. PICK k \in Nat : k = Max0(r.total - Cardinality(Into(E, s)))
    BY <2>3
  <2>5. Clamp(r.done, k) \in Nat
    BY DEF Row, Clamp
  <2>6. PICK m \in Nat : m = Clamp(r.done, k)
    BY <2>5
  <2>7. PICK y : y = recalculate_readiness(Counters(r, k, m))
    OBVIOUS
  <2>8. row[s] = IF Cardinality(Into(E, s)) = 0 THEN r ELSE y
    <3>1. q(s) = Counters(r, k, m)
      BY <2>2, <2>4, <2>6 DEF Clamp, Counters
    <3> HIDE DEF q
    <3> QED BY <2>2, <2>7, <3>1
  <2> HIDE DEF row
  <2>9. y \in Row /\ Counts(y, r, k, m)
    BY <2>7, CountsAnew
  <2> QED BY <2>2, <2>4, <2>6, <2>8, <2>9
<1> HIDE DEF q
<1>4. row \in [Steps -> Row]
  BY <1>3
<1> HIDE DEF row
<1>5. /\ e.row = row /\ e \in Db /\ e.task = d.task /\ e.rec = d.rec /\ e.wiring = d.wiring /\ e.batching = d.batching
      /\ e.edge = d.edge \ E
  BY <1>2, <1>4 DEF Db
<1> QED BY <1>1, <1>3, <1>5 DEF Unwired

\* A removed step is deleted and SKIPPED; its live dependents lose it from both counters.
Removed(e, d, S) ==
  /\ e \in Db /\ e.wiring = d.wiring /\ e.batching = d.batching /\ e.task.deleted = d.task.deleted
  /\ e.edge = {x \in d.edge : x[1] \notin S /\ x[2] \notin S}
  /\ \A s \in Steps :
       LET gone  == Prereqs(d, s) \cap S
           total == Max0(d.row[s].total - Cardinality(gone))
           done  == Max0(d.row[s].done - Cardinality(gone \cap Completed(d))) IN
       /\ e.rec[s] = IF s \in S THEN NoRec ELSE d.rec[s]
       /\ IF s \in S THEN e.row[s].live = "deleted" /\ e.row[s].state = "SKIPPED"
          ELSE IF s \notin Live(d) \/ gone = {} THEN e.row[s] = d.row[s]
          ELSE Counts(e.row[s], d.row[s], total, Clamp(done, total))

Taken(r) == [r EXCEPT !.state = "SKIPPED", !.live = "deleted"]

LEMMA RemoveDoes ==
  ASSUME NEW d \in Db, NEW S \in SUBSET Steps
  PROVE  \E e \in Db :
           /\ Removed(e, d, S) /\ e.task = d.task
           /\ _remove_task_steps_in_session(d, S) =
                IF Live(e) = {} THEN [e EXCEPT !.task.state = "PENDING"]
                ELSE maybe_evaluate_task_ready(e, FALSE)
<1> DEFINE gone(s)  == Prereqs(d, s) \cap S
           row == _apply_removed_dependency_counts(d, S)
           rec == [s \in Steps |-> IF s \in S THEN NoRec ELSE d.rec[s]]
           edge == {x \in d.edge : x[1] \notin S /\ x[2] \notin S}
<1>1. ASSUME NEW s \in Steps
      PROVE  LET total == Max0(d.row[s].total - Cardinality(gone(s)))
                 done  == Max0(d.row[s].done - Cardinality(gone(s) \cap Completed(d))) IN
             /\ row[s] \in Row
             /\ IF s \in S THEN row[s].live = "deleted" /\ row[s].state = "SKIPPED"
                ELSE IF s \notin Live(d) \/ gone(s) = {} THEN row[s] = d.row[s]
                ELSE Counts(row[s], d.row[s], total, Clamp(done, total))
  <2>1. Cardinality(gone(s)) \in Nat /\ Cardinality(gone(s) \cap Completed(d)) \in Nat
    BY CardIsNat DEF Prereqs
  <2>2. PICK r \in Row : r = d.row[s]
    BY DEF Db
  <2>3. Max0(r.total - Cardinality(gone(s))) \in Nat
    BY <2>1 DEF Row, Max0
  <2>4. PICK k \in Nat : k = Max0(r.total - Cardinality(gone(s)))
    BY <2>3
  <2>5. Max0(r.done - Cardinality(gone(s) \cap Completed(d))) \in Nat
    BY <2>1 DEF Row, Max0
  <2>6. PICK c \in Nat : c = Max0(r.done - Cardinality(gone(s) \cap Completed(d)))
    BY <2>5
  <2>7. PICK m \in Nat : m = Clamp(c, k)
    BY DEF Clamp
  <2>8. PICK y : y = recalculate_readiness(Counters(r, k, m))
    OBVIOUS
  <2>9. row[s] = IF s \in S THEN Taken(r)
                 ELSE IF s \notin Live(d) \/ gone(s) = {} THEN r ELSE y
    BY <2>2, <2>4, <2>6, <2>7, <2>8 DEF _apply_removed_dependency_counts, Counters, Clamp, Taken
  <2> HIDE DEF row, gone
  <2>10. y \in Row /\ Counts(y, r, k, m)
    BY <2>8, CountsAnew
  <2>11. Taken(r) \in Row /\ Taken(r).live = "deleted" /\ Taken(r).state = "SKIPPED"
    BY DEF Row, StepStates, Taken
  <2> QED BY <2>2, <2>4, <2>6, <2>7, <2>9, <2>10, <2>11
<1>2. row \in [Steps -> Row]
  <2>1. row = [s \in Steps |-> row[s]]
    BY DEF _apply_removed_dependency_counts
  <2> HIDE DEF row, gone
  <2> QED BY <1>1, <2>1
<1>3. rec \in [Steps -> Rec] /\ edge \in SUBSET (Steps \X Steps)
  BY DEF Db, Rec, NoRec, People
<1>4. \A s \in Steps : rec[s] = IF s \in S THEN NoRec ELSE d.rec[s]
  OBVIOUS
<1> HIDE DEF row, rec, edge
<1>5. PICK e : e = [d EXCEPT !.row = row, !.rec = rec, !.edge = edge]
  OBVIOUS
<1>6. _remove_task_steps_in_session(d, S) =
        IF Live(e) = {} THEN [e EXCEPT !.task.state = "PENDING"]
        ELSE maybe_evaluate_task_ready(e, FALSE)
  BY <1>5 DEF _remove_task_steps_in_session, row, rec, edge
<1>7. e \in Db /\ e.task = d.task /\ e.wiring = d.wiring /\ e.batching = d.batching /\ e.row = row /\ e.rec = rec /\ e.edge = edge
  BY <1>2, <1>3, <1>5 DEF Db
<1>8. Removed(e, d, S)
  BY <1>1, <1>4, <1>7 DEF Removed, gone, edge
<1> QED BY <1>6, <1>7, <1>8

\* A new step is live, PENDING, free of dependencies and has its record.
Added(e, d, S) ==
  /\ e \in Db /\ e.wiring = d.wiring /\ e.batching = d.batching /\ e.task.deleted = d.task.deleted /\ e.edge = d.edge
  /\ e.task.state = IF d.task.state = "PENDING" THEN "ASSIGNED"
                    ELSE IF d.task.state = "READY" THEN "WORKING" ELSE d.task.state
  /\ \A s \in Steps :
       /\ s \notin S => e.row[s] = d.row[s] /\ e.rec[s] = d.rec[s]
       /\ s \in S => /\ e.row[s].live = "yes" /\ e.row[s].state = "PENDING"
                     /\ e.row[s].total = 0 /\ e.row[s].done = 0 /\ e.row[s].ready = "READY"
                     /\ e.rec[s].state = "PENDING"

NewStep(c, B) == [NewRow EXCEPT !.live = "yes", !.state = "PENDING", !.batch = c \in B]

LEMMA NewStepIs ==
  ASSUME NEW c, NEW B
  PROVE  /\ NewStep(c, B) \in Row /\ NewStep(c, B).live = "yes" /\ NewStep(c, B).state = "PENDING"
         /\ NewStep(c, B).total = 0 /\ NewStep(c, B).done = 0 /\ NewStep(c, B).ready = "READY"
<1>0. (c \in B) \in BOOLEAN
  BY SMT
<1>1. PICK b : b = (c \in B)
  OBVIOUS
<1>2. b \in BOOLEAN
  BY Zenon, <1>0, <1>1
<1>3. PICK q : q = [NewRow EXCEPT !.live = "yes", !.state = "PENDING", !.batch = b]
  OBVIOUS
<1>4. /\ q \in Row /\ q.live = "yes" /\ q.state = "PENDING"
      /\ q.total = 0 /\ q.done = 0 /\ q.ready = "READY"
  BY <1>2, <1>3 DEF NewRow, Row, StepStates
<1>5. q = NewStep(c, B)
  BY Zenon, <1>1, <1>3 DEF NewStep
<1> QED BY Zenon, <1>4, <1>5

LEMMA AddDoes ==
  ASSUME NEW d \in Db, NEW S \in SUBSET Steps
  PROVE  \E e \in Db : /\ Added(e, d, S)
                       /\ AddSteps(d, S) = Wire(e, _compute_dependency_edges(d, S))
<1> DEFINE row == [s \in Steps |-> IF s \in S THEN NewStep(SectionOf[s], d.batching)
                                                ELSE d.row[s]]
           rec == [s \in Steps |-> IF s \in S THEN Record("PENDING", "nobody", "nobody") ELSE d.rec[s]]
<1>1. "PENDING" \in StepStates /\ "nobody" \in People
  BY DEF StepStates, People
<1>2. row \in [Steps -> Row] /\ rec \in [Steps -> Rec]
  <2>1. Record("PENDING", "nobody", "nobody") \in Rec
    BY <1>1, RecordIs
  <2>2. \A s \in Steps : NewStep(SectionOf[s], d.batching) \in Row
    BY NewStepIs
  <2> QED BY <2>1, <2>2 DEF Db
<1>3. \A s \in Steps :
        /\ s \notin S => row[s] = d.row[s] /\ rec[s] = d.rec[s]
        /\ s \in S => /\ row[s].live = "yes" /\ row[s].state = "PENDING"
                      /\ row[s].total = 0 /\ row[s].done = 0 /\ row[s].ready = "READY"
                      /\ rec[s].state = "PENDING"
  <2>1. ASSUME NEW s \in S
        PROVE  /\ row[s].live = "yes" /\ row[s].state = "PENDING"
               /\ row[s].total = 0 /\ row[s].done = 0 /\ row[s].ready = "READY"
    <3>1. row[s] = NewStep(SectionOf[s], d.batching)
      OBVIOUS
    <3> HIDE DEF row
    <3> QED BY <3>1, NewStepIs
  <2>2. \A s \in Steps : /\ s \notin S => row[s] = d.row[s] /\ rec[s] = d.rec[s]
                         /\ s \in S => rec[s].state = "PENDING"
    BY <1>1, RecordIs
  <2> HIDE DEF row, rec
  <2> QED BY <2>1, <2>2
<1> HIDE DEF row, rec
<1>4. PICK e0 : e0 = [d EXCEPT !.row = row, !.rec = rec,
                               !.task.state = IF @ = "PENDING" THEN "ASSIGNED" ELSE @]
  OBVIOUS
<1>5. PICK e : e = maybe_reopen_task_to_working(e0)
  OBVIOUS
<1>6. AddSteps(d, S) = Wire(e, _compute_dependency_edges(d, S))
  BY <1>4, <1>5 DEF AddSteps, NewStep, row, rec
<1>7. /\ e0 \in Db /\ e0.row = row /\ e0.rec = rec /\ e0.edge = d.edge /\ e0.wiring = d.wiring /\ e0.batching = d.batching
      /\ e0.task.deleted = d.task.deleted
      /\ e0.task.state = IF d.task.state = "PENDING" THEN "ASSIGNED" ELSE d.task.state
  BY <1>4, <1>2 DEF Db, TaskStates
<1>8. Looked(e, e0) /\ e.task.state = IF e0.task.state = "READY" THEN "WORKING" ELSE e0.task.state
  BY <1>5, <1>7, ReopenDoes
<1>9. Added(e, d, S)
  <2>1. /\ e \in Db /\ e.row = row /\ e.rec = rec /\ e.edge = d.edge /\ e.wiring = d.wiring /\ e.batching = d.batching
        /\ e.task.deleted = d.task.deleted
    BY <1>7, <1>8 DEF Looked, SameButRows
  <2>2. e.task.state = IF d.task.state = "PENDING" THEN "ASSIGNED"
                       ELSE IF d.task.state = "READY" THEN "WORKING" ELSE d.task.state
    BY <1>7, <1>8
  <2> QED BY <1>3, <2>1, <2>2 DEF Added
<1> QED BY <1>6, <1>8, <1>9 DEF Looked

-----------------------------------------------------------------------------
(* Overlapping transactions.                                                  *)

Plans == [was: Db, new: Db, opens: SUBSET Steps, closes: SUBSET Steps, skew: SUBSET Steps]
Rows  == UNION {[X -> Row] : X \in SUBSET Steps}
Jobs  == [steps: SUBSET Steps, row: Rows, task: [state: TaskStates, deleted: BOOLEAN],
          new: StepStates, by: People, credit: People, after: SUBSET Txns, late: SUBSET Steps]

\* A plan alone tells that a step changes its state only with a record in the new one, and
\* loses its record only with the step itself.
Honest(p) ==
  \A s \in Steps :
    /\ s \in p.opens => /\ p.new.row[s].live = "yes"
                        /\ p.new.row[s].state \in StepStates \ {p.was.row[s].state}
                        /\ p.new.rec[s].state = p.new.row[s].state
    /\ s \notin p.opens => \/ p.new.row[s].live = "deleted" /\ p.was.row[s].live = "yes"
                           \/ /\ p.new.row[s].live = p.was.row[s].live
                              /\ p.new.row[s].state = p.was.row[s].state
                              /\ s \notin p.closes

\* What a state command loaded: live steps that are not yet in the state it asks for, and,
\* unless it forces the task, no other rows and a single step if that is not batch-capable.
Askable(j) ==
  /\ j.steps \subseteq DOMAIN j.row /\ DOMAIN j.row \subseteq Steps
  /\ \A s \in DOMAIN j.row : /\ j.row[s] \in Row /\ j.row[s].live = "yes"
                             /\ s \in j.steps => j.row[s].state # j.new
  /\ j.new # "SKIPPED" => /\ DOMAIN j.row = j.steps
                          /\ \A s \in j.steps : ~j.row[s].batch => j.steps = {s}

\* A step has its record as long as it is live, and is untouched until it is added.
Recorded(d) ==
  \A s \in Steps : /\ d.row[s].done <= d.row[s].total
                   /\ d.row[s].live = "yes" => /\ d.rec[s].state = d.row[s].state
                                               /\ d.row[s].state \in StepStates
                   /\ d.row[s].live = "no" => d.row[s].state = "NONE"

Born(d) == {s \in Steps : d.row[s].live # "no"}

Overlap ==
  /\ db \in Db /\ Recorded(db)
  /\ job \in [Txns -> Jobs \cup {None}] /\ plan \in [Txns -> Plans \cup {None}]
  /\ \A t \in Txns : job[t] # None => Askable(job[t]) /\ DOMAIN job[t].row \subseteq Born(db)
  /\ \A t \in Txns : plan[t] # None => Honest(plan[t]) /\ Born(plan[t].was) \subseteq Born(db)
  /\ edits \in Nat /\ races \in Nat /\ skewed \subseteq Steps /\ excused \subseteq People

LEMMA PlanIs ==
  ASSUME NEW was \in Db, NEW new \in Db, NEW opens \in SUBSET Steps, NEW closes \in SUBSET Steps,
         NEW skew \in SUBSET Steps, NEW p, p = Plan(was, new, opens, closes, skew)
  PROVE  /\ p \in Plans /\ p # None
         /\ p.was = was /\ p.new = new /\ p.opens = opens /\ p.closes = closes /\ p.skew = skew
<1>1. p.was = was /\ p.new = new /\ p.opens = opens /\ p.closes = closes /\ p.skew = skew
  BY DEF Plan
<1>2. p \in Plans
  BY DEF Plan, Plans
<1>3. DOMAIN p # DOMAIN None
  BY DEF Plan, None
<1> QED BY <1>1, <1>2, <1>3

\* What others open costs a plan its own records or some of those it meant to close.
LEMMA OvertakenKeeps ==
  ASSUME NEW p \in Plans, Honest(p), NEW opened \in SUBSET Steps, NEW q, q = Overtaken(p, opened)
  PROVE  q = None \/ (/\ q \in Plans /\ Honest(q) /\ q.was = p.was /\ q.new = p.new
                      /\ q.opens = p.opens /\ q.skew = p.skew /\ q.closes = p.closes \ opened)
<1> SUFFICES ASSUME q # None
             PROVE  /\ q \in Plans /\ Honest(q) /\ q.was = p.was /\ q.new = p.new
                    /\ q.opens = p.opens /\ q.skew = p.skew /\ q.closes = p.closes \ opened
  OBVIOUS
<1>1. q = [p EXCEPT !.closes = @ \ opened]
  BY DEF Overtaken
<1>2. /\ q \in Plans /\ q.was = p.was /\ q.new = p.new /\ q.opens = p.opens /\ q.skew = p.skew
      /\ q.closes = p.closes \ opened
  BY <1>1 DEF Plans
<1>3. Honest(q)
  BY <1>2 DEF Honest
<1> QED BY <1>2, <1>3

LEMMA EndedKeeps ==
  ASSUME job \in [Txns -> Jobs \cup {None}], NEW t \in Txns, NEW opened \in SUBSET Steps,
         NEW u \in Txns, NEW j, j = Ended(t, opened)[u]
  PROVE  \/ j = None
         \/ /\ job[u] # None /\ u # t /\ j \in Jobs /\ j.steps = job[u].steps /\ j.row = job[u].row
            /\ j.task = job[u].task /\ j.new = job[u].new /\ j.by = job[u].by
            /\ j.credit = job[u].credit
<1>1. PICK o : o = job[u]
  OBVIOUS
<1>2. j = IF u = t \/ o = None THEN None
          ELSE IF t \in o.after THEN [o EXCEPT !.after = @ \ {t}]
          ELSE [o EXCEPT !.late = @ \cup opened]
  BY <1>1 DEF Ended
<1>3. o \in Jobs \/ o = None
  BY <1>1
<1>4. CASE o \in Jobs /\ t \in o.after /\ u # t /\ o # None
  BY <1>1, <1>2, <1>4 DEF Jobs
<1>5. CASE o \in Jobs /\ t \notin o.after /\ u # t /\ o # None
  BY <1>1, <1>2, <1>5 DEF Jobs
<1> QED BY <1>2, <1>3, <1>4, <1>5

LEMMA AskableKept ==
  ASSUME NEW i, NEW j, Askable(i), j.steps = i.steps, j.row = i.row, j.new = i.new
  PROVE  Askable(j)
BY DEF Askable

\* The sessions that go on when session t ends, whatever it has opened.
LEMMA OthersKept ==
  ASSUME Overlap, NEW t \in Txns, NEW opened \in SUBSET Steps, job' = Ended(t, opened),
         NEW d, Born(db) \subseteq Born(d)
  PROVE  /\ job' \in [Txns -> Jobs \cup {None}]
         /\ \A u \in Txns : job'[u] # None => Askable(job'[u]) /\ DOMAIN job'[u].row \subseteq Born(d)
<1>1. ASSUME NEW u \in Txns
      PROVE  /\ job'[u] \in Jobs \cup {None}
             /\ job'[u] # None => Askable(job'[u]) /\ DOMAIN job'[u].row \subseteq Born(d)
  <2>1. PICK j : j = Ended(t, opened)[u]
    OBVIOUS
  <2>2. \/ j = None
        \/ /\ job[u] # None /\ j \in Jobs /\ j.steps = job[u].steps /\ j.row = job[u].row
           /\ j.new = job[u].new
    BY <2>1, EndedKeeps DEF Overlap
  <2>3. job[u] # None => Askable(job[u]) /\ DOMAIN job[u].row \subseteq Born(db)
    BY DEF Overlap
  <2>4. j # None => Askable(j)
    BY <2>2, <2>3, AskableKept
  <2> QED BY <2>1, <2>2, <2>3, <2>4
<1>2. job' = [u \in Txns |-> job'[u]]
  BY DEF Ended
<1> QED BY <1>1, <1>2

LEMMA AllPlansKept ==
  ASSUME Overlap, NEW opened \in SUBSET Steps, NEW d, Born(db) \subseteq Born(d),
         NEW f, f = [u \in Txns |-> Overtaken(plan[u], opened)]
  PROVE  /\ f \in [Txns -> Plans \cup {None}]
         /\ \A u \in Txns : f[u] # None => Honest(f[u]) /\ Born(f[u].was) \subseteq Born(d)
<1>1. ASSUME NEW u \in Txns
      PROVE  /\ f[u] \in Plans \cup {None}
             /\ f[u] # None => Honest(f[u]) /\ Born(f[u].was) \subseteq Born(d)
  <2>1. PICK p, q : p = plan[u] /\ q = Overtaken(p, opened)
    OBVIOUS
  <2>2. f[u] = q
    BY <2>1
  <2>3. p = None \/ (p \in Plans /\ Honest(p) /\ Born(p.was) \subseteq Born(db))
    BY <2>1 DEF Overlap
  <2>4. q = None \/ (q \in Plans /\ Honest(q) /\ q.was = p.was)
    <3>1. CASE p = None
      BY <2>1, <3>1 DEF Overtaken
    <3>2. CASE p # None
      BY <2>1, <2>3, <3>2, OvertakenKeeps
    <3> QED BY <3>1, <3>2
  <2>5. q # None => p # None
    BY <2>1 DEF Overtaken
  <2> QED BY <2>2, <2>3, <2>4, <2>5
<1> QED BY <1>1

LEMMA PlansKept ==
  ASSUME Overlap, NEW t \in Txns, NEW opened \in SUBSET Steps, NEW d, Born(db) \subseteq Born(d),
         plan' = [u \in Txns |-> IF u = t THEN None ELSE Overtaken(plan[u], opened)]
  PROVE  /\ plan' \in [Txns -> Plans \cup {None}]
         /\ \A u \in Txns : plan'[u] # None => Honest(plan'[u]) /\ Born(plan'[u].was) \subseteq Born(d)
<1>1. PICK f : f = [u \in Txns |-> Overtaken(plan[u], opened)]
  OBVIOUS
<1>2. /\ f \in [Txns -> Plans \cup {None}]
      /\ \A u \in Txns : f[u] # None => Honest(f[u]) /\ Born(f[u].was) \subseteq Born(d)
  BY <1>1, AllPlansKept
<1>3. \A u \in Txns : plan'[u] = IF u = t THEN None ELSE f[u]
  BY <1>1
<1> QED BY <1>2, <1>3

\* What a commit leaves: an honest plan, written to tables that have moved on.
LEMMA MergeKeeps ==
  ASSUME Overlap, NEW t \in Txns, plan[t] # None, Accepted(plan[t])
  PROVE  Merge(plan[t]) \in Db /\ Recorded(Merge(plan[t])) /\ Born(db) \subseteq Born(Merge(plan[t]))
<1>1. PICK p : p = plan[t]
  OBVIOUS
<1>2. p \in Plans /\ Honest(p) /\ Born(p.was) \subseteq Born(db) /\ Accepted(p)
  BY <1>1 DEF Overlap
<1>3. p.was \in Db /\ p.new \in Db /\ p.opens \subseteq Steps /\ db \in Db
  BY <1>2 DEF Plans, Overlap
<1>4. PICK m : m = Merge(p)
  OBVIOUS
<1> DEFINE row == [s \in Steps |-> MergeRow(db.row[s], p.was.row[s], p.new.row[s])]
           rec == [s \in Steps |-> IF s \in p.opens THEN p.new.rec[s]
                                   ELSE IF s \in p.closes THEN NoRec ELSE db.rec[s]]
<1>5. /\ m.row = row /\ m.rec = rec
      /\ m.task = [state |-> Col(db.task.state, p.was.task.state, p.new.task.state),
                   deleted |-> db.task.deleted]
      /\ m.edge = (db.edge \ (p.was.edge \ p.new.edge)) \cup (p.new.edge \ p.was.edge)
      /\ m.wiring = (db.wiring \ (p.was.wiring \ p.new.wiring)) \cup (p.new.wiring \ p.was.wiring)
      /\ m.batching = (db.batching \ (p.was.batching \ p.new.batching))
                        \cup (p.new.batching \ p.was.batching)
  BY <1>4 DEF Merge
<1>6. ASSUME NEW s \in Steps
      PROVE  /\ row[s] \in Row /\ rec[s] \in Rec
             /\ row[s].live = Col(db.row[s].live, p.was.row[s].live, p.new.row[s].live)
             /\ row[s].state = Col(db.row[s].state, p.was.row[s].state, p.new.row[s].state)
             /\ rec[s] = IF s \in p.opens THEN p.new.rec[s]
                         ELSE IF s \in p.closes THEN NoRec ELSE db.rec[s]
  <2>1. PICK now \in Row, was \in Row, new \in Row :
          now = db.row[s] /\ was = p.was.row[s] /\ new = p.new.row[s]
    BY <1>3 DEF Db
  <2>2. MergeRow(now, was, new) \in Row
    BY DEF MergeRow, Col, Row
  <2>3. NoRec \in Rec
    BY DEF NoRec, Rec, People
  <2>4. p.new.rec[s] \in Rec /\ db.rec[s] \in Rec
    BY <1>3 DEF Db
  <2>5. /\ MergeRow(now, was, new).live = Col(now.live, was.live, new.live)
        /\ MergeRow(now, was, new).state = Col(now.state, was.state, new.state)
    BY DEF MergeRow
  <2> QED BY <2>1, <2>2, <2>3, <2>4, <2>5
<1>7. row \in [Steps -> Row] /\ rec \in [Steps -> Rec]
  BY <1>6
<1> HIDE DEF row, rec
<1>8. m \in Db
  <2>1. m.task \in [state: TaskStates, deleted: BOOLEAN]
    BY <1>3, <1>5 DEF Col, Db
  <2>2. m.edge \subseteq Steps \X Steps
    BY <1>3, <1>5 DEF Db
  <2>3. m.wiring \subseteq Sections \X Sections /\ m.batching \subseteq Sections
    BY <1>3, <1>5 DEF Db
  <2>4. m = [task |-> m.task, row |-> m.row, rec |-> m.rec, edge |-> m.edge, wiring |-> m.wiring,
             batching |-> m.batching]
    BY <1>4 DEF Merge
  <2> QED BY <1>5, <1>7, <2>1, <2>2, <2>3, <2>4 DEF Db
<1>9. ASSUME NEW s \in Steps
      PROVE  /\ m.row[s].done <= m.row[s].total
             /\ m.row[s].live = "yes" => /\ m.rec[s].state = m.row[s].state
                                         /\ m.row[s].state \in StepStates
             /\ m.row[s].live = "no" => m.row[s].state = "NONE"
             /\ db.row[s].live # "no" => m.row[s].live # "no"
  <2>1. /\ m.row[s].live = Col(db.row[s].live, p.was.row[s].live, p.new.row[s].live)
        /\ m.row[s].state = Col(db.row[s].state, p.was.row[s].state, p.new.row[s].state)
        /\ m.rec[s] = IF s \in p.opens THEN p.new.rec[s]
                      ELSE IF s \in p.closes THEN NoRec ELSE db.rec[s]
    BY <1>5, <1>6
  <2>2. m.row[s].done <= m.row[s].total
    <3>1. m.row[s] \in Row
      BY <1>5, <1>6
    <3>2. m.row[s].done \in 0..m.row[s].total
      BY <1>2, <1>4 DEF Accepted
    <3> QED BY <3>1, <3>2 DEF Row
  <2>3. /\ db.row[s].live = "yes" => /\ db.rec[s].state = db.row[s].state
                                     /\ db.row[s].state \in StepStates
        /\ db.row[s].live = "no" => db.row[s].state = "NONE"
    BY DEF Overlap, Recorded
  <2>4. p.was.row[s].live # "no" => db.row[s].live # "no"
    BY <1>2 DEF Born
  <2>5. CASE s \in p.opens
    BY <1>2, <2>1, <2>2, <2>3, <2>4, <2>5 DEF Honest, Col
  <2>6. CASE s \notin p.opens
    BY <1>2, <2>1, <2>2, <2>3, <2>4, <2>6 DEF Honest, Col
  <2> QED BY <2>5, <2>6
<1>10. Recorded(m) /\ Born(db) \subseteq Born(m)
  BY <1>9 DEF Recorded, Born
<1> QED BY <1>1, <1>4, <1>8, <1>10

LEMMA CommitOverlap == ASSUME Overlap, NEW t \in Txns, Commit(t) PROVE Overlap'
<1>1. plan[t] # None /\ Accepted(plan[t]) /\ plan[t] \in Plans
  BY DEF Commit, Overlap
<1>2. db' = Merge(plan[t]) /\ db' \in Db /\ Recorded(db') /\ Born(db) \subseteq Born(db')
  BY <1>1, MergeKeeps DEF Commit
<1>3. plan[t].opens \subseteq Steps /\ plan[t].skew \subseteq Steps
  BY <1>1 DEF Plans
<1>4. /\ job' \in [Txns -> Jobs \cup {None}]
      /\ \A u \in Txns : job'[u] # None => Askable(job'[u]) /\ DOMAIN job'[u].row \subseteq Born(db')
  BY <1>2, <1>3, OthersKept DEF Commit
<1>5. /\ plan' \in [Txns -> Plans \cup {None}]
      /\ \A u \in Txns : plan'[u] # None => Honest(plan'[u]) /\ Born(plan'[u].was) \subseteq Born(db')
  BY <1>2, <1>3, PlansKept DEF Commit
<1>6. edits' \in Nat /\ races' \in Nat /\ skewed' \subseteq Steps /\ excused' \subseteq People
  <2>1. Excuses(plan[t]) \subseteq People
    BY <1>1 DEF Excuses, Alone, AtWork, Live, Plans, Db, Rec
  <2> QED BY <1>3, <2>1 DEF Commit, Overlap
<1> QED BY <1>2, <1>4, <1>5, <1>6 DEF Overlap

LEMMA RollbackOverlap == ASSUME Overlap, NEW t \in Txns, Rollback(t) PROVE Overlap'
<1>1. db' = db /\ edits' = edits /\ races' = races /\ skewed' = skewed /\ excused' = excused
  BY DEF Rollback
<1>2. /\ job' \in [Txns -> Jobs \cup {None}]
      /\ \A u \in Txns : job'[u] # None => Askable(job'[u]) /\ DOMAIN job'[u].row \subseteq Born(db)
  BY OthersKept DEF Rollback
<1>3. plan' = [plan EXCEPT ![t] = None]
  BY DEF Rollback
<1> QED BY <1>1, <1>2, <1>3 DEF Overlap

\* A command that reads the tables and plans a write.
LEMMA ApplyOverlap ==
  ASSUME Overlap, NEW t \in Txns, NEW p \in Plans, Apply(t, p),
         Honest(p), Born(p.was) \subseteq Born(db), edits' \in Nat
  PROVE  Overlap'
<1>1. /\ plan' = [plan EXCEPT ![t] = p] /\ job' = [job EXCEPT ![t] = None]
      /\ db' = db /\ races' = races /\ skewed' = skewed /\ excused' = excused
  BY DEF Apply
<1>2. /\ plan' \in [Txns -> Plans \cup {None}]
      /\ \A u \in Txns : plan'[u] # None => Honest(plan'[u]) /\ Born(plan'[u].was) \subseteq Born(db)
  BY <1>1 DEF Overlap
<1>3. /\ job' \in [Txns -> Jobs \cup {None}]
      /\ \A u \in Txns : job'[u] # None => Askable(job'[u]) /\ DOMAIN job'[u].row \subseteq Born(db)
  BY <1>1 DEF Overlap
<1> QED BY <1>1, <1>2, <1>3 DEF Overlap

\* A plan that moves no step and touches no record.
LEMMA StillIsHonest ==
  ASSUME NEW was \in Db, NEW new \in Db, NEW skew \in SUBSET Steps,
         NEW p, p = Plan(was, new, {}, {}, skew),
         \A s \in Steps : new.row[s].live = was.row[s].live /\ new.row[s].state = was.row[s].state
  PROVE  p \in Plans /\ Honest(p) /\ p.was = was
<1>1. p \in Plans /\ p.was = was /\ p.new = new /\ p.opens = {} /\ p.closes = {}
  BY PlanIs
<1> QED BY <1>1 DEF Honest

LEMMA LoadOverlap ==
  ASSUME Overlap, NEW t \in Txns, NEW S \in SUBSET Steps, NEW rows \in SUBSET Live(db),
         NEW st \in StepStates, NEW by \in People, NEW credit \in People,
         S \subseteq rows, \A s \in S : db.row[s].state # st,
         st # "SKIPPED" => rows = S /\ \A s \in S : ~db.row[s].batch => S = {s},
         Load(t, S, rows, st, by, credit)
  PROVE  Overlap'
<1> DEFINE row == [s \in rows |-> db.row[s]]
           j == [steps |-> S, row |-> row, task |-> db.task, new |-> st, by |-> by,
                 credit |-> credit, after |-> Others(t), late |-> {}]
<1>1. rows \subseteq Steps /\ rows \subseteq Born(db)
  BY DEF Live, Born
<1>2. \A s \in rows : row[s] \in Row /\ row[s].live = "yes" /\ row[s] = db.row[s]
  BY <1>1 DEF Overlap, Db, Live
<1>3. row \in [rows -> Row]
  BY <1>2
<1>4. row \in Rows /\ DOMAIN row = rows
  BY <1>1, <1>3 DEF Rows
<1>5. job' = [job EXCEPT ![t] = j]
  BY DEF Load
<1> HIDE DEF row
<1>6. j \in Jobs
  <2>1. Others(t) \in SUBSET Txns
    BY DEF Others
  <2>2. db.task \in [state: TaskStates, deleted: BOOLEAN]
    BY DEF Overlap, Db
  <2> QED BY <1>1, <1>4, <2>1, <2>2 DEF Jobs
<1>7. Askable(j)
  BY <1>1, <1>2, <1>4 DEF Askable
<1>8. DOMAIN j.row \subseteq Born(db)
  BY <1>1, <1>4
<1> HIDE DEF j
<1>9. /\ job' \in [Txns -> Jobs \cup {None}]
      /\ \A u \in Txns : job'[u] # None => Askable(job'[u]) /\ DOMAIN job'[u].row \subseteq Born(db)
  BY <1>5, <1>6, <1>7, <1>8 DEF Overlap
<1>10. db' = db /\ plan' = plan /\ edits' = edits /\ races' = races /\ skewed' = skewed
       /\ excused' = excused
  BY DEF Load, Overlap
<1> QED BY <1>9, <1>10 DEF Overlap

\* What the session of a state command sees is typed, and live steps are rows it loaded or
\* steps of the committed tables.
LEMMA ViewIs ==
  ASSUME Overlap, NEW t \in Txns, job[t] # None, NEW v, v = View(job[t])
  PROVE  /\ v \in Db /\ v.rec = db.rec /\ v.edge = db.edge /\ v.wiring = db.wiring /\ v.batching = db.batching
         /\ v.task = job[t].task /\ Born(v) \subseteq Born(db)
         /\ \A s \in Steps : v.row[s] = IF s \in DOMAIN job[t].row THEN job[t].row[s] ELSE db.row[s]
<1>1. PICK j : j = job[t]
  OBVIOUS
<1>2. j \in Jobs /\ Askable(j) /\ DOMAIN j.row \subseteq Born(db)
  BY <1>1 DEF Overlap
<1> DEFINE row == [s \in Steps |-> IF s \in DOMAIN j.row THEN j.row[s] ELSE db.row[s]]
<1>3. v = [db EXCEPT !.task = j.task, !.row = row]
  BY <1>1 DEF View
<1>4. j.task \in [state: TaskStates, deleted: BOOLEAN]
  BY <1>2 DEF Jobs
<1>5. \A s \in Steps : row[s] \in Row
  BY <1>2 DEF Askable, Overlap, Db
<1>6. \A s \in Steps : row[s] = IF s \in DOMAIN j.row THEN j.row[s] ELSE db.row[s]
  OBVIOUS
<1>7. row \in [Steps -> Row]
  BY <1>5
<1> HIDE DEF row
<1>8. /\ v \in Db /\ v.rec = db.rec /\ v.edge = db.edge /\ v.wiring = db.wiring /\ v.batching = db.batching
      /\ v.task = j.task /\ v.row = row
  BY <1>3, <1>4, <1>7 DEF Overlap, Db
<1>9. Born(v) \subseteq Born(db)
  BY <1>2, <1>6, <1>8 DEF Born
<1> QED BY <1>1, <1>6, <1>8, <1>9

LEMMA ForceOverlap == ASSUME Overlap, NEW t \in Txns, force_task_ready(t) PROVE Overlap'
<1>1. PICK j, v, m, e : /\ j = job[t] /\ v = View(j)
                        /\ m = _apply_step_transition(v, j.steps, "SKIPPED", j.by, j.credit)
                        /\ e = maybe_evaluate_task_ready(m, TRUE)
  OBVIOUS
<1>2. /\ j # None /\ j.new = "SKIPPED" /\ edits' = edits
      /\ Apply(t, Plan(v, e, j.steps, {}, {}))
  BY <1>1 DEF force_task_ready
<1>3. /\ j \in Jobs /\ Askable(j) /\ "SKIPPED" \in StepStates
      /\ j.steps \in SUBSET Steps /\ j.by \in People /\ j.credit \in People
  BY <1>1, <1>2 DEF Overlap, Jobs, StepStates
<1>4. /\ v \in Db /\ Born(v) \subseteq Born(db)
      /\ \A s \in Steps : v.row[s] = IF s \in DOMAIN j.row THEN j.row[s] ELSE db.row[s]
  BY <1>1, <1>2, ViewIs
<1>5. Moved(m, v, j.steps, "SKIPPED", j.by, j.credit)
  BY <1>1, <1>3, <1>4, TransitionDoes
<1>6. Looked(e, m)
  BY <1>1, <1>5, EvaluateDoes DEF Moved
<1>7. PICK p : p = Plan(v, e, j.steps, {}, {})
  OBVIOUS
<1>8. e \in Db /\ e.row = m.row /\ e.rec = m.rec
  BY <1>6 DEF Looked, SameButRows
<1>9. p \in Plans /\ p.was = v /\ p.new = e /\ p.opens = j.steps /\ p.closes = {}
  BY <1>3, <1>4, <1>7, <1>8, PlanIs
<1>10. Honest(p)
  <2> SUFFICES ASSUME NEW s \in Steps
               PROVE  /\ s \in j.steps => /\ m.row[s].live = "yes"
                                          /\ m.row[s].state \in StepStates \ {v.row[s].state}
                                          /\ m.rec[s].state = m.row[s].state
                      /\ s \notin j.steps => /\ m.row[s].live = v.row[s].live
                                             /\ m.row[s].state = v.row[s].state
    BY <1>8, <1>9 DEF Honest
  <2>1. s \in j.steps => v.row[s].live = "yes" /\ v.row[s].state # "SKIPPED"
    BY <1>2, <1>3, <1>4 DEF Askable
  <2> QED BY <1>3, <1>5, <2>1 DEF Moved
<1> QED BY <1>2, <1>4, <1>7, <1>9, <1>10, ApplyOverlap DEF Overlap

\* The steps a transition pauses are at work in the committed tables and are not among those
\* it moves.
Conflicts(j, v) ==
  IF j.new = "WORKING"
  THEN UNION {fetch_open_user_working_record(v, s, {j.by, j.credit}) :
              s \in {k \in j.steps : ~v.row[k].batch}}
  ELSE {}

LEMMA ConflictsAre ==
  ASSUME Overlap, NEW t \in Txns, job[t] # None, job[t].new # "SKIPPED",
         NEW c \in Conflicts(job[t], View(job[t]))
  PROVE  /\ c \in Steps \ job[t].steps /\ ~View(job[t]).row[c].batch
         /\ View(job[t]).row[c].live = "yes" /\ View(job[t]).row[c].state = "WORKING"
         /\ db.rec[c].by \in {job[t].by, job[t].credit}
<1>1. PICK j, v : j = job[t] /\ v = View(j)
  OBVIOUS
<1>2. Askable(j)
  BY <1>1 DEF Overlap
<1>3. PICK s \in {k \in j.steps : ~v.row[k].batch} :
        c \in fetch_open_user_working_record(v, s, {j.by, j.credit})
  BY <1>1 DEF Conflicts
<1>4. /\ c \in AtWork(v) /\ ~v.row[c].batch /\ c # s /\ v.rec[c].by \in {j.by, j.credit}
  BY <1>3 DEF fetch_open_user_working_record, Alone
<1>5. /\ v.rec = db.rec
      /\ \A r \in Steps : v.row[r] = IF r \in DOMAIN j.row THEN j.row[r] ELSE db.row[r]
  BY <1>1, ViewIs
<1>6. j.steps = {s} /\ DOMAIN j.row = j.steps
  <2>1. s \in DOMAIN j.row /\ s \in Steps /\ s \in j.steps
    BY <1>2, <1>3 DEF Askable
  <2>2. ~j.row[s].batch
    BY <1>3, <1>5, <2>1
  <2> QED BY <1>1, <1>2, <2>1, <2>2 DEF Askable
<1>7. c \in Steps /\ v.row[c] = db.row[c] /\ db.row[c].live = "yes" /\ db.rec[c].state = "WORKING"
  BY <1>4, <1>5, <1>6 DEF AtWork, Live
<1>8. db.row[c].state = "WORKING"
  BY <1>7 DEF Overlap, Recorded
<1> QED BY <1>1, <1>4, <1>5, <1>6, <1>7, <1>8

LEMMA TransitionOverlap == ASSUME Overlap, NEW t \in Txns, transition_step_state(t) PROVE Overlap'
<1>1. PICK j, v : j = job[t] /\ v = View(j)
  OBVIOUS
<1>2. PICK P \in SUBSET Conflicts(j, v) :
        /\ j # None /\ j.new # "SKIPPED" /\ edits' = edits
        /\ Apply(t, Plan(v, _apply_step_transition(Enter(v, P, "PAUSED", j.by, j.by),
                                                   j.steps, j.new, j.by, j.credit),
                         j.steps \cup P, {}, {}))
  BY <1>1 DEF transition_step_state, Conflicts
<1>3. /\ Askable(j) /\ j.new \in StepStates /\ j.steps \in SUBSET Steps
      /\ j.by \in People /\ j.credit \in People /\ "PAUSED" \in StepStates
  BY <1>1, <1>2 DEF Overlap, Jobs, StepStates
<1>4. /\ v \in Db /\ Born(v) \subseteq Born(db)
      /\ \A s \in Steps : v.row[s] = IF s \in DOMAIN j.row THEN j.row[s] ELSE db.row[s]
  BY <1>1, <1>2, ViewIs
<1>5. \A c \in P : c \in Steps \ j.steps /\ v.row[c].live = "yes" /\ v.row[c].state = "WORKING"
  BY <1>1, <1>2, ConflictsAre
<1>6. PICK e0 : e0 = Enter(v, P, "PAUSED", j.by, j.by)
  OBVIOUS
<1>7. Entered(e0, v, P, "PAUSED", j.by, j.by)
  BY <1>3, <1>4, <1>5, <1>6, EnterDoes
<1>8. PICK e : e = _apply_step_transition(e0, j.steps, j.new, j.by, j.credit)
  OBVIOUS
<1>9. Moved(e, e0, j.steps, j.new, j.by, j.credit)
  <2>1. e0 \in Db
    BY <1>7 DEF Entered
  <2> QED BY <1>3, <1>8, <2>1, TransitionDoes
<1>10. e \in Db
  BY <1>9 DEF Moved
<1>11. PICK p : p = Plan(v, e, j.steps \cup P, {}, {})
  OBVIOUS
<1>12. p \in Plans /\ p.was = v /\ p.new = e /\ p.opens = j.steps \cup P /\ p.closes = {}
  BY <1>3, <1>4, <1>5, <1>10, <1>11, PlanIs
<1>13. Honest(p)
  <2> SUFFICES ASSUME NEW s \in Steps
               PROVE  /\ s \in j.steps \cup P =>
                           /\ e.row[s].live = "yes"
                           /\ e.row[s].state \in StepStates \ {v.row[s].state}
                           /\ e.rec[s].state = e.row[s].state
                      /\ s \notin j.steps \cup P => /\ e.row[s].live = v.row[s].live
                                                   /\ e.row[s].state = v.row[s].state
    BY <1>12 DEF Honest
  <2>1. /\ e0.row[s].live = v.row[s].live
        /\ e0.row[s].state = IF s \in P THEN "PAUSED" ELSE v.row[s].state
        /\ s \in P => e0.rec[s].state = "PAUSED"
    BY <1>7 DEF Entered
  <2>2. /\ e.row[s].live = e0.row[s].live
        /\ e.row[s].state = IF s \in j.steps THEN j.new ELSE e0.row[s].state
        /\ s \in j.steps => e.rec[s].state = j.new
        /\ s \notin j.steps => e.rec[s] = e0.rec[s]
    BY <1>9 DEF Moved
  <2>3. s \in j.steps => v.row[s].live = "yes" /\ v.row[s].state # j.new
    BY <1>3, <1>4 DEF Askable
  <2> QED BY <1>3, <1>5, <2>1, <2>2, <2>3
<1> QED BY <1>2, <1>4, <1>6, <1>8, <1>11, <1>12, <1>13, ApplyOverlap DEF Overlap

LEMMA AddOverlap ==
  ASSUME Overlap, NEW t \in Txns, NEW S \in SUBSET Steps, add_task_steps(t, S)
  PROVE  Overlap'
<1>1. db \in Db
  BY DEF Overlap
<1>2. PICK e \in Db : Added(e, db, S) /\ AddSteps(db, S) = Wire(e, _compute_dependency_edges(db, S))
  BY <1>1, AddDoes
<1>3. PICK n : n = AddSteps(db, S)
  OBVIOUS
<1>4. WiredTo(n, e, _compute_dependency_edges(db, S))
  <2>1. _compute_dependency_edges(db, S) \in SUBSET (Steps \X Steps)
    BY DEF _compute_dependency_edges
  <2> QED BY <1>2, <1>3, <2>1, WireDoes
<1>5. n \in Db
  BY <1>4 DEF WiredTo
<1>6. PICK p : p = Plan(db, n, S, {}, {})
  OBVIOUS
<1>7. p \in Plans /\ p.was = db /\ p.new = n /\ p.opens = S /\ p.closes = {}
  BY <1>1, <1>5, <1>6, PlanIs
<1>8. \A s \in S : db.row[s].live = "no"
  BY DEF add_task_steps
<1>9. Honest(p)
  <2> SUFFICES ASSUME NEW s \in Steps
               PROVE  /\ s \in S => /\ n.row[s].live = "yes"
                                    /\ n.row[s].state \in StepStates \ {db.row[s].state}
                                    /\ n.rec[s].state = n.row[s].state
                      /\ s \notin S => /\ n.row[s].live = db.row[s].live
                                       /\ n.row[s].state = db.row[s].state
    BY <1>7 DEF Honest
  <2>1. n.row[s].live = e.row[s].live /\ n.row[s].state = e.row[s].state /\ n.rec = e.rec
    BY <1>4 DEF WiredTo, Counts
  <2>2. CASE s \notin S
    BY <1>2, <2>1, <2>2 DEF Added
  <2>3. CASE s \in S
    <3>1. e.row[s].live = "yes" /\ e.row[s].state = "PENDING"
      BY <1>2, <2>3 DEF Added
    <3>2. e.rec[s].state = "PENDING" /\ "PENDING" \in StepStates
      BY <1>2, <2>3 DEF Added, StepStates
    <3>3. db.row[s].state = "NONE"
      BY <1>8, <2>3 DEF Overlap, Recorded
    <3> QED BY <2>1, <2>3, <3>1, <3>2, <3>3
  <2> QED BY <2>2, <2>3
<1>10. Apply(t, p) /\ edits' = edits
  BY <1>3, <1>6 DEF add_task_steps
<1> QED BY <1>7, <1>9, <1>10, ApplyOverlap DEF Overlap

\* What a removal makes of the rows does not depend on its last look at the task.
LEMMA RemovedIs ==
  ASSUME NEW d \in Db, NEW S \in SUBSET Steps, NEW e, e = _remove_task_steps_in_session(d, S)
  PROVE  /\ Removed(e, d, S)
         /\ Live(e) = {} => e.task.state = "PENDING"
         /\ Live(e) # {} =>
              e.task.state = IF /\ d.task.state \notin TERMINAL_TASK_STATES
                                /\ \A s \in Live(e) : e.row[s].state \in TERMINAL_STEP_STATES
                             THEN "READY" ELSE d.task.state
<1>1. PICK o \in Db : /\ Removed(o, d, S) /\ o.task = d.task
                      /\ e = IF Live(o) = {} THEN [o EXCEPT !.task.state = "PENDING"]
                             ELSE maybe_evaluate_task_ready(o, FALSE)
  BY RemoveDoes
<1>2. CASE Live(o) = {}
  <2>1. e = [o EXCEPT !.task.state = "PENDING"]
    BY <1>1, <1>2
  <2>2. /\ e \in Db /\ e.row = o.row /\ e.rec = o.rec /\ e.edge = o.edge
        /\ e.wiring = o.wiring /\ e.batching = o.batching
        /\ e.task.deleted = o.task.deleted /\ e.task.state = "PENDING"
    BY <2>1 DEF Db, TaskStates
  <2>3. Removed(e, d, S)
    BY <1>1, <2>2 DEF Removed
  <2>4. Live(e) = {}
    BY <1>2, <2>2 DEF Live
  <2> QED BY <2>2, <2>3, <2>4
<1>3. CASE Live(o) # {}
  <2>1. /\ Looked(e, o)
        /\ e.task.state = IF /\ o.task.state \notin TERMINAL_TASK_STATES
                             /\ \A s \in Live(o) : o.row[s].state \in TERMINAL_STEP_STATES
                             /\ Live(o) # {} \/ FALSE
                          THEN "READY" ELSE o.task.state
    BY <1>1, <1>3, EvaluateDoes
  <2>2. e.row = o.row /\ Live(e) = Live(o)
    BY <2>1 DEF Looked, Live
  <2>3. Removed(e, d, S)
    BY <1>1, <2>1, <2>2 DEF Removed, Looked, SameButRows
  <2> QED BY <1>1, <1>3, <2>1, <2>2, <2>3
<1> QED BY <1>2, <1>3

LEMMA RemoveOverlap ==
  ASSUME Overlap, NEW t \in Txns, NEW S \in SUBSET Steps, remove_task_steps(t, S)
  PROVE  Overlap'
<1>1. db \in Db
  BY DEF Overlap
<1>2. PICK n : n = _remove_task_steps_in_session(db, S)
  OBVIOUS
<1>3. Removed(n, db, S)
  BY <1>1, <1>2, RemovedIs
<1>4. n \in Db
  BY <1>3 DEF Removed
<1>5. PICK C \in SUBSET Steps : C = {s \in S : db.rec[s] # NoRec}
  OBVIOUS
<1>6. PICK p : p = Plan(db, n, {}, C, {})
  OBVIOUS
<1>7. p \in Plans /\ p.was = db /\ p.new = n /\ p.opens = {} /\ p.closes = C
  BY <1>1, <1>4, <1>6, PlanIs
<1>8. Honest(p)
  <2> SUFFICES ASSUME NEW s \in Steps
               PROVE  \/ n.row[s].live = "deleted" /\ db.row[s].live = "yes"
                      \/ /\ n.row[s].live = db.row[s].live
                         /\ n.row[s].state = db.row[s].state
                         /\ s \notin C
    BY <1>7 DEF Honest
  <2>1. CASE s \in S
    <3>1. db.row[s].live = "yes"
      BY <2>1 DEF remove_task_steps, Live
    <3> QED BY <1>3, <2>1, <3>1 DEF Removed
  <2>2. CASE s \notin S
    <3>1. n.row[s].live = db.row[s].live /\ n.row[s].state = db.row[s].state
      BY <1>3, <2>2 DEF Removed, Counts
    <3> QED BY <1>5, <2>2, <3>1
  <2> QED BY <2>1, <2>2
<1>9. Apply(t, p) /\ edits' = edits
  BY <1>2, <1>5, <1>6 DEF remove_task_steps
<1> QED BY <1>7, <1>8, <1>9, ApplyOverlap DEF Overlap

\* What an added dependency makes of the tables.
Depended(e, d, s, p) ==
  /\ e \in Db /\ e.task = d.task /\ e.rec = d.rec /\ e.wiring = d.wiring /\ e.batching = d.batching
  /\ e.edge = d.edge \cup {<<s, p>>}
  /\ \A q \in Steps \ {s} : e.row[q] = d.row[q]
  /\ Counts(e.row[s], d.row[s], d.row[s].total + 1, d.row[s].done)

AddEdge(d, s, p) == [d EXCEPT !.edge = @ \cup {<<s, p>>},
                              !.row[s] = recalculate_readiness([d.row[s] EXCEPT !.total = @ + 1])]

LEMMA AddEdgeDoes ==
  ASSUME NEW d \in Db, NEW s \in Steps, NEW p \in Steps
  PROVE  Depended(AddEdge(d, s, p), d, s, p)
<1>1. PICK r \in Row : r = d.row[s]
  BY DEF Db
<1>2. r.total \in Nat /\ r.done \in Nat
  BY DEF Row
<1>3. PICK k \in Nat : k = r.total + 1
  BY <1>2
<1>4. PICK y : y = recalculate_readiness(Counters(r, k, r.done))
  OBVIOUS
<1>5. y \in Row /\ Counts(y, r, k, r.done)
  BY <1>2, <1>4, CountsAnew
<1>6. [r EXCEPT !.total = @ + 1] = Counters(r, k, r.done)
  BY <1>3 DEF Counters, Row
<1>7. PICK e : e = AddEdge(d, s, p)
  OBVIOUS
<1>8. e = [d EXCEPT !.edge = @ \cup {<<s, p>>}, !.row[s] = y]
  BY <1>1, <1>4, <1>6, <1>7 DEF AddEdge
<1>9. /\ e \in Db /\ e.task = d.task /\ e.rec = d.rec /\ e.wiring = d.wiring /\ e.batching = d.batching
      /\ e.edge = d.edge \cup {<<s, p>>} /\ e.row = [d.row EXCEPT ![s] = y]
  <2>1. PICK E, R : E = d.edge \cup {<<s, p>>} /\ R = [d.row EXCEPT ![s] = y]
    OBVIOUS
  <2>2. E \in SUBSET (Steps \X Steps) /\ R \in [Steps -> Row]
    BY <1>5, <2>1 DEF Db
  <2>3. e = [d EXCEPT !.edge = E, !.row = R]
    BY <1>8, <2>1 DEF Db
  <2> QED BY <2>1, <2>2, <2>3 DEF Db
<1>10. e.row[s] = y /\ \A q \in Steps \ {s} : e.row[q] = d.row[q]
  BY <1>9 DEF Db
<1> QED BY <1>1, <1>3, <1>5, <1>7, <1>9, <1>10 DEF Depended

LEMMA AddDependencyOverlap ==
  ASSUME Overlap, NEW t \in Txns, NEW s \in Steps, NEW p \in Steps, add_step_dependency(t, s, p)
  PROVE  Overlap'
<1>1. db \in Db /\ edits' \in Nat
  BY DEF Overlap, add_step_dependency, Edit
<1>2. PICK n, K : n = AddEdge(db, s, p) /\ K = IF p \in Completed(db) THEN {s} ELSE {}
  OBVIOUS
<1>3. Depended(n, db, s, p) /\ K \in SUBSET Steps
  BY <1>1, <1>2, AddEdgeDoes
<1>4. PICK q : q = Plan(db, n, {}, {}, K)
  OBVIOUS
<1>5. q \in Plans /\ Honest(q) /\ q.was = db
  BY <1>1, <1>3, <1>4, StillIsHonest DEF Depended, Counts
<1>6. Apply(t, q)
  BY <1>2, <1>4 DEF add_step_dependency, AddEdge
<1> QED BY <1>1, <1>5, <1>6, ApplyOverlap

LEMMA RemoveDependencyOverlap ==
  ASSUME Overlap, NEW t \in Txns, NEW s \in Steps, NEW p \in Steps, remove_step_dependency(t, s, p)
  PROVE  Overlap'
<1>1. db \in Db /\ edits' \in Nat
  BY DEF Overlap, remove_step_dependency, Edit
<1>2. PICK n, K : n = Unwire(db, {<<s, p>>}) /\ K = IF p \in Completed(db) THEN {s} ELSE {}
  OBVIOUS
<1>3. Unwired(n, db, {<<s, p>>}) /\ K \in SUBSET Steps
  BY <1>1, <1>2, UnwireDoes
<1>4. PICK q : q = Plan(db, n, {}, {}, K)
  OBVIOUS
<1>5. q \in Plans /\ Honest(q) /\ q.was = db
  <2>1. n \in Db /\ \A r \in Steps : n.row[r].live = db.row[r].live /\ n.row[r].state = db.row[r].state
    BY <1>3 DEF Unwired, Counts
  <2> QED BY <1>1, <1>3, <1>4, <2>1, StillIsHonest
<1>6. Apply(t, q)
  BY <1>2, <1>4 DEF remove_step_dependency
<1> QED BY <1>1, <1>5, <1>6, ApplyOverlap

\* The steps of a section, their edges to the sections it no longer depends on, the tables
\* without those, and the edges to the sections it depends on now.
WasWired(c) == {q \in Sections : <<c, q>> \in db.wiring}
OpenSteps(c) == {s \in Live(db) : SectionOf[s] = c /\ db.row[s].state \notin TERMINAL_STEP_STATES}
Lost(c, P) == {x \in db.edge : /\ x[1] \in OpenSteps(c) /\ x[2] \in Live(db)
                               /\ SectionOf[x[2]] \in WasWired(c) \ P}
Gains(c, P, cut) == {x \in OpenSteps(c) \X Live(db) : SectionOf[x[2]] \in P \ WasWired(c)} \ cut.edge
Shaken(c, P) == {x[1] : x \in {y \in Lost(c, P) : y[2] \in Completed(db)}}
Rewiring(c, P) == (db.wiring \ ({c} \X Sections)) \cup ({c} \X P)
Flagged(d, c, flag) == IF flag = "keep" THEN d ELSE sync_step_batch_flag(d, c, flag = "on")

\* Steps are stamped and nothing else of them moves.
Stamped(e, d) ==
  /\ e \in Db /\ e.task = d.task /\ e.rec = d.rec /\ e.edge = d.edge
  /\ \A s \in Steps :
       /\ e.row[s].live = d.row[s].live /\ e.row[s].state = d.row[s].state
       /\ e.row[s].total = d.row[s].total /\ e.row[s].done = d.row[s].done
       /\ e.row[s].ready = d.row[s].ready

LEMMA StampDoes ==
  ASSUME NEW d \in Db, NEW c \in Sections, NEW flag
  PROVE  Stamped(Flagged(d, c, flag), d)
<1>1. CASE flag = "keep"
  BY <1>1 DEF Flagged, Stamped
<1>2. CASE flag # "keep"
  <2>1. PICK on \in BOOLEAN : on = (flag = "on")
    OBVIOUS
  <2> DEFINE row == [s \in Steps |->
                       IF /\ s \in Live(d) /\ SectionOf[s] = c
                          /\ d.row[s].state \notin TERMINAL_STEP_STATES
                       THEN [d.row[s] EXCEPT !.batch = on] ELSE d.row[s]]
             batching == IF on THEN d.batching \cup {c} ELSE d.batching \ {c}
  <2>2. PICK e : e = Flagged(d, c, flag)
    OBVIOUS
  <2>3. e = [d EXCEPT !.batching = batching, !.row = row]
    BY <1>2, <2>1, <2>2 DEF Flagged, sync_step_batch_flag
  <2>4. ASSUME NEW s \in Steps
        PROVE  /\ row[s] \in Row /\ row[s].live = d.row[s].live /\ row[s].state = d.row[s].state
               /\ row[s].total = d.row[s].total /\ row[s].done = d.row[s].done
               /\ row[s].ready = d.row[s].ready
    <3>1. PICK r \in Row : r = d.row[s]
      BY DEF Db
    <3>2. row[s] = [r EXCEPT !.batch = on] \/ row[s] = r
      BY <3>1
    <3> HIDE DEF row
    <3> QED BY <3>1, <3>2 DEF Row
  <2>5. row \in [Steps -> Row] /\ batching \in SUBSET Sections
    BY <2>4 DEF Db
  <2> HIDE DEF row, batching
  <2>6. e \in Db /\ e.task = d.task /\ e.rec = d.rec /\ e.edge = d.edge /\ e.row = row
    BY <2>3, <2>5 DEF Db
  <2> QED BY <2>2, <2>4, <2>6 DEF Stamped
<1> QED BY <1>1, <1>2

LEMMA SectionEdit ==
  ASSUME Overlap, NEW t \in Txns, NEW c \in Sections, NEW P \in SUBSET Sections, NEW flag,
         edit_working_section(t, c, P, flag)
  PROVE  \E cut \in Db, wired \in Db, n \in Db :
           /\ Unwired(cut, db, Lost(c, P)) /\ WiredTo(wired, cut, Gains(c, P, cut))
           /\ Stamped(n, wired)
           /\ Lost(c, P) \in SUBSET (Steps \X Steps) /\ Gains(c, P, cut) \in SUBSET (Steps \X Steps)
           /\ Shaken(c, P) \in SUBSET Steps
           /\ Apply(t, Plan(db, n, {}, {}, Shaken(c, P)))
           /\ edits' \in Nat
<1>1. db \in Db /\ Lost(c, P) \in SUBSET (Steps \X Steps)
  BY DEF Overlap, Db, Lost
<1>2. PICK cut : cut = Unwire(db, Lost(c, P))
  OBVIOUS
<1>3. Unwired(cut, db, Lost(c, P))
  BY <1>1, <1>2, UnwireDoes
<1>4. cut \in Db
  BY <1>3 DEF Unwired
<1>5. Gains(c, P, cut) \in SUBSET (Steps \X Steps)
  BY DEF Gains, OpenSteps, Live
<1>6. PICK wired : wired = Wire(cut, Gains(c, P, cut))
  OBVIOUS
<1>7. WiredTo(wired, cut, Gains(c, P, cut))
  BY <1>4, <1>5, <1>6, WireDoes
<1>8. wired \in Db
  BY <1>7 DEF WiredTo
<1>9. Rewiring(c, P) \in SUBSET (Sections \X Sections)
  BY <1>1 DEF Rewiring, Db
<1>10. PICK new : new = [wired EXCEPT !.wiring = Rewiring(c, P)]
  BY <1>8 DEF Db
<1>11. /\ new \in Db /\ new.row = wired.row /\ new.rec = wired.rec /\ new.edge = wired.edge
       /\ new.task = wired.task
  BY <1>8, <1>9, <1>10 DEF Db
<1>16. PICK n : n = Flagged(new, c, flag)
  OBVIOUS
<1>12. Shaken(c, P) \in SUBSET Steps
  <2>1. ASSUME NEW y \in Lost(c, P) PROVE y[1] \in Steps
    BY DEF Lost, OpenSteps, Live
  <2> QED BY <2>1 DEF Shaken
<1>13. Apply(t, Plan(db, n, {}, {}, Shaken(c, P)))
  <2>1. Apply(t, Plan(db, Flagged([Wire(Unwire(db, Lost(c, P)),
                                        Gains(c, P, Unwire(db, Lost(c, P))))
                                     EXCEPT !.wiring = Rewiring(c, P)], c, flag),
                      {}, {}, Shaken(c, P)))
    BY Zenon DEF edit_working_section, Lost, Gains, Shaken, Rewiring, OpenSteps, WasWired, Flagged
  <2> QED BY <1>2, <1>6, <1>10, <1>16, <2>1
<1>14. edits' \in Nat
  <2>1. Edit
    BY Zenon DEF edit_working_section
  <2> QED BY <2>1 DEF Edit, Overlap
<1>15. n \in Db /\ Stamped(n, wired)
  BY <1>11, <1>16, StampDoes DEF Stamped
<1> QED BY <1>1, <1>3, <1>4, <1>5, <1>7, <1>8, <1>12, <1>13, <1>14, <1>15

LEMMA SectionOverlap ==
  ASSUME Overlap, NEW t \in Txns, NEW c \in Sections, NEW P \in SUBSET Sections,
         NEW flag \in Flags, edit_working_section(t, c, P, flag)
  PROVE  Overlap'
<1>1. PICK cut \in Db, wired \in Db, n \in Db :
        /\ Unwired(cut, db, Lost(c, P)) /\ WiredTo(wired, cut, Gains(c, P, cut))
        /\ Stamped(n, wired)
        /\ Shaken(c, P) \in SUBSET Steps
        /\ Apply(t, Plan(db, n, {}, {}, Shaken(c, P)))
        /\ edits' \in Nat
  BY SectionEdit
<1>2. ASSUME NEW s \in Steps
      PROVE  n.row[s].live = db.row[s].live /\ n.row[s].state = db.row[s].state
  <2>1. cut.row[s].live = db.row[s].live /\ cut.row[s].state = db.row[s].state
    BY <1>1 DEF Unwired, Counts
  <2>2. wired.row[s].live = cut.row[s].live /\ wired.row[s].state = cut.row[s].state
    BY <1>1 DEF WiredTo, Counts
  <2> QED BY <1>1, <2>1, <2>2 DEF Stamped
<1>3. PICK K, q : K = Shaken(c, P) /\ q = Plan(db, n, {}, {}, K)
  OBVIOUS
<1>4. q \in Plans /\ Honest(q) /\ q.was = db
  <2>1. db \in Db /\ K \in SUBSET Steps
    BY <1>1, <1>3 DEF Overlap
  <2> QED BY <1>2, <1>3, <2>1, StillIsHonest
<1> QED BY <1>1, <1>3, <1>4, ApplyOverlap

LEMMA EndOverlap ==
  ASSUME Overlap, NEW t \in Txns, NEW end \in Ends, EndTask(t, end)
  PROVE  Overlap'
<1>1. PICK n : n = [db EXCEPT !.task.state = end]
  OBVIOUS
<1>2. db \in Db /\ n \in Db /\ n.row = db.row
  BY <1>1, StepsAssumption DEF Overlap, Db, TERMINAL_TASK_STATES, TaskStates
<1>3. PICK q : q = Plan(db, n, {}, {}, {})
  OBVIOUS
<1>4. q \in Plans /\ Honest(q) /\ q.was = db
  BY <1>2, <1>3, StillIsHonest
<1>5. Apply(t, q) /\ edits' = edits
  BY <1>1, <1>3 DEF EndTask
<1> QED BY <1>4, <1>5, ApplyOverlap DEF Overlap

LEMMA PauseOverlap ==
  ASSUME Overlap, NEW t \in Txns, NEW deleted \in BOOLEAN,
         pause_task_working_steps_in_session(t, deleted)
  PROVE  Overlap'
<1>1. PICK e : e = Enter(db, AtWork(db), "PAUSED", "nobody", "nobody")
  OBVIOUS
<1>2. AtWork(db) \in SUBSET Steps /\ "PAUSED" \in StepStates /\ "nobody" \in People /\ db \in Db
  BY DEF AtWork, Live, StepStates, People, Overlap
<1>3. Entered(e, db, AtWork(db), "PAUSED", "nobody", "nobody")
  BY <1>1, <1>2, EnterDoes
<1>4. e \in Db
  BY <1>3 DEF Entered
<1>5. db' = [e EXCEPT !.task.deleted = deleted]
  BY <1>1 DEF pause_task_working_steps_in_session
<1>6. db' \in Db /\ db'.row = e.row /\ db'.rec = e.rec
  BY <1>4, <1>5 DEF Db
<1>7. Recorded(db') /\ Born(db) \subseteq Born(db')
  <2>1. ASSUME NEW s \in Steps
        PROVE  /\ e.row[s].done <= e.row[s].total
               /\ e.row[s].live = "yes" => /\ e.rec[s].state = e.row[s].state
                                           /\ e.row[s].state \in StepStates
               /\ e.row[s].live = "no" => e.row[s].state = "NONE"
               /\ db.row[s].live # "no" => e.row[s].live # "no"
    <3>1. /\ e.row[s].live = db.row[s].live
          /\ e.row[s].state = IF s \in AtWork(db) THEN "PAUSED" ELSE db.row[s].state
          /\ e.row[s].total = db.row[s].total /\ e.row[s].done = db.row[s].done
          /\ s \in AtWork(db) => e.rec[s].state = "PAUSED"
          /\ s \notin AtWork(db) => e.rec[s] = db.rec[s]
      BY <1>3 DEF Entered
    <3>2. s \in AtWork(db) => db.row[s].live = "yes"
      BY DEF AtWork, Live
    <3>3. /\ db.row[s].done <= db.row[s].total
          /\ db.row[s].live = "yes" => /\ db.rec[s].state = db.row[s].state
                                       /\ db.row[s].state \in StepStates
          /\ db.row[s].live = "no" => db.row[s].state = "NONE"
      BY DEF Overlap, Recorded
    <3> QED BY <1>2, <3>1, <3>2, <3>3
  <2> QED BY <1>6, <2>1 DEF Recorded, Born
<1>8. /\ job' \in [Txns -> Jobs \cup {None}]
      /\ \A u \in Txns : job'[u] # None => Askable(job'[u]) /\ DOMAIN job'[u].row \subseteq Born(db')
  BY <1>2, <1>7, OthersKept DEF pause_task_working_steps_in_session
<1>9. /\ plan' \in [Txns -> Plans \cup {None}]
      /\ \A u \in Txns : plan'[u] # None => Honest(plan'[u]) /\ Born(plan'[u].was) \subseteq Born(db')
  <2>1. plan' = [u \in Txns |-> Overtaken(plan[u], AtWork(db))]
    BY DEF pause_task_working_steps_in_session
  <2> QED BY <1>2, <1>7, <2>1, AllPlansKept
<1>10. edits' \in Nat /\ races' \in Nat /\ skewed' \subseteq Steps /\ excused' \subseteq People
  BY DEF pause_task_working_steps_in_session, Overlap
<1> QED BY <1>6, <1>7, <1>8, <1>9, <1>10 DEF Overlap

\* An allowed transition leaves the state it starts from.
LEMMA AllowedMoves ==
  ASSUME NEW was \in StepStates, NEW st \in StepStates, st \in _ALLOWED_TRANSITIONS[was]
  PROVE  st # was /\ st # "SKIPPED" /\ was # "COMPLETED" /\ was \notin TERMINAL_STEP_STATES
BY DEF _ALLOWED_TRANSITIONS, StepStates, TERMINAL_STEP_STATES

LEMMA LoadsOverlap ==
  ASSUME Overlap, NEW t \in Txns,
         \/ \E s \in Steps, st \in Asked, by \in People, credit \in People :
              LoadForTransition(t, s, st, by, credit)
         \/ \E S \in SUBSET Steps, st \in Asked, by \in People : LoadForBatch(t, S, st, by)
         \/ LoadForForce(t)
  PROVE  Overlap'
<1>1. Asked \subseteq StepStates
  BY StepsAssumption
<1>2. \A s \in Live(db) : s \in Steps /\ db.row[s].state \in StepStates
  BY DEF Live, Overlap, Recorded
<1>3. ASSUME NEW s \in Steps, NEW st \in Asked, NEW by \in People, NEW credit \in People,
             LoadForTransition(t, s, st, by, credit)
      PROVE  Overlap'
  <2>1. s \in Live(db) /\ st \in _ALLOWED_TRANSITIONS[db.row[s].state] /\ Load(t, {s}, {s}, st, by, credit)
    BY <1>3 DEF LoadForTransition
  <2>2. st \in StepStates /\ db.row[s].state # st
    BY <1>1, <1>2, <2>1, AllowedMoves
  <2>3. /\ {s} \in SUBSET Steps /\ {s} \in SUBSET Live(db) /\ \A r \in {s} : db.row[r].state # st
        /\ \A r \in {s} : {s} = {r}
    BY <2>1, <2>2
  <2> QED BY <2>1, <2>2, <2>3, LoadOverlap
<1>4. ASSUME NEW S \in SUBSET Steps, NEW st \in Asked, NEW by \in People, LoadForBatch(t, S, st, by)
      PROVE  Overlap'
  <2>1. /\ S \subseteq Live(db) /\ Load(t, S, S, st, by, by)
        /\ \A s \in S : db.row[s].batch /\ st \in _ALLOWED_TRANSITIONS[db.row[s].state]
    BY <1>4 DEF LoadForBatch
  <2>2. st \in StepStates /\ \A s \in S : db.row[s].state # st
    BY <1>1, <1>2, <2>1, AllowedMoves
  <2>3. S \in SUBSET Steps /\ S \in SUBSET Live(db) /\ \A s \in S : ~db.row[s].batch => S = {s}
    BY <1>1, <2>1
  <2> QED BY <2>1, <2>2, <2>3, LoadOverlap
<1>5. CASE LoadForForce(t)
  <2>1. PICK S : S = {s \in Live(db) : db.row[s].state \notin TERMINAL_STEP_STATES}
    OBVIOUS
  <2>2. Load(t, S, Live(db), "SKIPPED", "nobody", "nobody")
    BY <1>5, <2>1 DEF LoadForForce
  <2>3. "SKIPPED" \in StepStates /\ "nobody" \in People /\ Live(db) \in SUBSET Live(db)
    BY DEF StepStates, People
  <2>4. S \in SUBSET Steps /\ S \subseteq Live(db) /\ \A s \in S : db.row[s].state # "SKIPPED"
    BY <1>2, <2>1 DEF TERMINAL_STEP_STATES
  <2> QED BY <2>2, <2>3, <2>4, LoadOverlap
<1> QED BY <1>3, <1>4, <1>5

LEMMA InitOverlap == Init => Overlap
<1> SUFFICES ASSUME Init PROVE Overlap
  OBVIOUS
<1>1. \A s \in Steps : db.row[s] = NewRow /\ db.rec[s] = NoRec
  BY DEF Init
<1>2. NewRow \in Row /\ NoRec \in Rec
  BY DEF NewRow, NoRec, Row, Rec, People
<1>3. db \in Db
  BY <1>2, StepsAssumption DEF Init, Db, TaskStates
<1>4. Recorded(db)
  BY <1>1 DEF Recorded, NewRow
<1>5. /\ job \in [Txns -> Jobs \cup {None}] /\ plan \in [Txns -> Plans \cup {None}]
      /\ \A t \in Txns : job[t] = None /\ plan[t] = None
      /\ edits \in Nat /\ races \in Nat /\ skewed \subseteq Steps /\ excused \subseteq People
  BY DEF Init
<1> QED BY <1>3, <1>4, <1>5 DEF Overlap

LEMMA StepOverlap == Overlap /\ [Next]_vars => Overlap'
<1> SUFFICES ASSUME Overlap, [Next]_vars PROVE Overlap'
  OBVIOUS
<1>1. CASE UNCHANGED vars
  BY <1>1 DEF vars, Overlap, Recorded, Born
<1>2. CASE Next
  <2>1. PICK t \in Txns :
          \/ \E s \in Steps, st \in Asked, by \in People, credit \in People :
               LoadForTransition(t, s, st, by, credit)
          \/ \E S \in SUBSET Steps, st \in Asked, by \in People : LoadForBatch(t, S, st, by)
          \/ LoadForForce(t)
          \/ transition_step_state(t)
          \/ force_task_ready(t)
          \/ \E S \in SUBSET Steps : add_task_steps(t, S) \/ remove_task_steps(t, S)
          \/ \E s, p \in Steps : add_step_dependency(t, s, p) \/ remove_step_dependency(t, s, p)
          \/ \E c \in Sections, P \in SUBSET Sections, flag \in Flags :
               edit_working_section(t, c, P, flag)
          \/ \E end \in Ends : EndTask(t, end)
          \/ delete_task(t)
          \/ restore_task(t)
          \/ Commit(t)
          \/ Rollback(t)
    BY <1>2 DEF Next
  <2>2. delete_task(t) => Overlap'
    BY PauseOverlap DEF delete_task
  <2>3. restore_task(t) => Overlap'
    BY PauseOverlap DEF restore_task
  <2> QED BY <2>1, <2>2, <2>3, LoadsOverlap, TransitionOverlap, ForceOverlap, AddOverlap,
             RemoveOverlap, AddDependencyOverlap, RemoveDependencyOverlap, SectionOverlap,
             EndOverlap, CommitOverlap, RollbackOverlap
<1> QED BY <1>1, <1>2

LEMMA AlwaysOverlap == Spec => []Overlap
BY InitOverlap, StepOverlap, PTL DEF Spec

\* Every table, loaded row and planned write keeps its type, and no committed step counts
\* more completions than it has dependencies, whatever the sessions do to one another.
THEOREM TypeCorrect == Spec => []TypeOK
<1>1. Overlap => TypeOK
  <2> SUFFICES ASSUME Overlap PROVE TypeOK
    OBVIOUS
  <2>1. ASSUME NEW t \in Txns, job[t] # None
        PROVE  /\ job[t].steps \subseteq DOMAIN job[t].row /\ DOMAIN job[t].row \subseteq Steps
               /\ \A s \in DOMAIN job[t].row : job[t].row[s] \in Row
               /\ job[t].task \in [state: TaskStates, deleted: BOOLEAN]
               /\ job[t].after \subseteq Txns /\ job[t].late \subseteq Steps
               /\ job[t].new \in StepStates /\ job[t].by \in People /\ job[t].credit \in People
    <3>1. PICK j : j = job[t]
      OBVIOUS
    <3>2. j \in Jobs /\ Askable(j)
      BY <2>1, <3>1 DEF Overlap
    <3>3. /\ j.task \in [state: TaskStates, deleted: BOOLEAN]
          /\ j.after \subseteq Txns /\ j.late \subseteq Steps
          /\ j.new \in StepStates /\ j.by \in People /\ j.credit \in People
      BY <3>2 DEF Jobs
    <3> QED BY <3>1, <3>2, <3>3 DEF Askable
  <2>2. \A t \in Txns : plan[t] # None => plan[t] \in Plans
    BY DEF Overlap
  <2>3. /\ db \in Db /\ \A s \in Steps : db.row[s].done <= db.row[s].total
        /\ edits \in Nat /\ races \in Nat /\ skewed \subseteq Steps /\ excused \subseteq People
    BY DEF Overlap, Recorded
  <2> QED BY <2>1, <2>2, <2>3 DEF TypeOK, Plans
<1> QED BY <1>1, AlwaysOverlap, PTL

\* The step and its record, which transactions load and write apart, agree after every
\* commit of transactions that overlap in any way.
THEOREM RecordsFollow == Spec => []RecordMatchesStep
<1>1. Overlap => RecordMatchesStep
  <2> SUFFICES ASSUME Overlap, NEW s \in Live(db)
               PROVE  db.rec[s] # NoRec /\ db.rec[s].state = db.row[s].state
    BY DEF RecordMatchesStep
  <2>1. db.rec[s].state = db.row[s].state /\ db.row[s].state \in StepStates
    BY DEF Overlap, Recorded, Live
  <2> QED BY <2>1 DEF NoRec, StepStates
<1> QED BY <1>1, AlwaysOverlap, PTL

-----------------------------------------------------------------------------
(* One transaction after the other.                                           *)

\* A dependent counts its prerequisites, P, and the COMPLETED ones among them, C.
Ready(r, P, C) ==
  /\ r.total = Cardinality(P) /\ r.done = Cardinality(C)
  /\ r.ready = IF C = P THEN "READY" ELSE IF C = {} THEN "BLOCKED" ELSE "PARTIAL"

Wellwired(d, skew) ==
  /\ \A x \in d.edge : x[1] \in Live(d) /\ x[2] \in Live(d)
  /\ \A s \in Live(d) \ skew : Ready(d.row[s], Prereqs(d, s), Prereqs(d, s) \cap Completed(d))

Follows(d) ==
  /\ d.task.state = "PENDING" => Live(d) = {}
  /\ d.task.state = "ASSIGNED" => Live(d) # {} /\ \A s \in Live(d) : d.row[s].state = "PENDING"
  /\ d.task.state = "WORKING" => \E s \in Live(d) : d.row[s].state \notin TERMINAL_STEP_STATES
  /\ d.task.state = "READY" => \A s \in Live(d) : d.row[s].state \in TERMINAL_STEP_STATES

\* Nobody but the excused has two steps at work that cannot be worked on together.
Single(d, ex) ==
  \A s, r \in Alone(d) : s # r /\ d.rec[s].by = d.rec[r].by => d.rec[s].by \in ex

Consistent(d, skew) == Wellwired(d, skew) /\ Follows(d)

\* What a state command may move, seen in the tables it acts on.
Movable(j, d) ==
  /\ j.new # "SKIPPED" => /\ j.steps # {}
                          /\ \A s \in j.steps : j.new \in _ALLOWED_TRANSITIONS[d.row[s].state]
  /\ j.new = "SKIPPED" =>
       j.steps = {s \in Live(d) : d.row[s].state \notin TERMINAL_STEP_STATES}

\* The plan is written to the tables it was computed from, and writes all of its own.
Fresh(p) ==
  /\ p.was = db /\ p.new.task.deleted = db.task.deleted
  /\ \A s \in Steps \ p.opens : p.new.rec[s] = IF s \in p.closes THEN NoRec ELSE db.rec[s]

\* It leaves the tables consistent.
Sound(p) == /\ Fresh(p) /\ Consistent(p.new, skewed \cup p.skew)
            /\ Single(p.new, excused \cup Excuses(p))

\* What a session loaded is what the tables still hold.
Current(j) == j.task = db.task /\ \A s \in DOMAIN j.row : j.row[s] = db.row[s]

Serial ==
  ~raced =>
    /\ Consistent(db, skewed) /\ Single(db, excused)
    /\ \A t \in Txns : job[t] # None => Current(job[t]) /\ Movable(job[t], db)
    /\ \A t \in Txns : plan[t] # None => Sound(plan[t])

\* Counting.
LEMMA CardApart ==
  ASSUME NEW A \in SUBSET Steps, NEW B \in SUBSET Steps, A \cap B = {}
  PROVE  Cardinality(A \cup B) = Cardinality(A) + Cardinality(B)
<1>1. IsFiniteSet(A) /\ IsFiniteSet(B) /\ Cardinality(A) \in Nat /\ Cardinality(B) \in Nat
  BY CardIsNat
<1>2. Cardinality(A \cup B) = Cardinality(A) + Cardinality(B) - Cardinality(A \cap B)
  BY <1>1, FS_Union
<1>3. Cardinality(A \cap B) = 0
  BY FS_EmptySet
<1> QED BY <1>1, <1>2, <1>3

LEMMA CardTaken ==
  ASSUME NEW A \in SUBSET Steps, NEW B \in SUBSET A
  PROVE  /\ Cardinality(A \ B) = Cardinality(A) - Cardinality(B)
         /\ Cardinality(B) <= Cardinality(A) /\ Max0(Cardinality(A) - Cardinality(B)) = Cardinality(A \ B)
<1>1. A \cap B = B
  OBVIOUS
<1>2. Cardinality(A \ B) = Cardinality(A) - Cardinality(B)
  <2>1. IsFiniteSet(A)
    BY CardIsNat
  <2>2. Cardinality(A \ B) = Cardinality(A) - Cardinality(A \cap B)
    BY <2>1, FS_Difference
  <2> QED BY <1>1, <2>2
<1>3. /\ Cardinality(A) \in Nat /\ Cardinality(B) \in Nat /\ Cardinality(A \ B) \in Nat
  BY CardIsNat
<1> QED BY <1>2, <1>3 DEF Max0

\* Readiness derived from true counters is true.
LEMMA TrueReadiness ==
  ASSUME NEW x, x = recalculate_readiness(x), NEW P \in SUBSET Steps, NEW C \in SUBSET P,
         x.total = Cardinality(P), x.done = Cardinality(C), x \in Row
  PROVE  Ready(x, P, C)
<1>1. /\ Cardinality(P) = 0 <=> P = {}
      /\ Cardinality(C) = 0 <=> C = {}
      /\ Cardinality(C) = Cardinality(P) <=> C = P
  BY CardIsNat, FS_EmptySet, FS_Subset
<1>2. x.ready = IF x.total = 0 \/ x.done = x.total THEN "READY"
                ELSE IF x.done = 0 THEN "BLOCKED" ELSE "PARTIAL"
  BY ReadinessOf
<1> QED BY <1>1, <1>2 DEF Ready

\* The counters stay true where neither the dependencies nor the COMPLETED steps change.
LEMMA StillWellwired ==
  ASSUME NEW d, NEW e, NEW sk, NEW more, Wellwired(d, sk), sk \subseteq more,
         e.edge = d.edge, Live(e) = Live(d), Completed(e) = Completed(d),
         \A s \in Steps : /\ e.row[s].total = d.row[s].total /\ e.row[s].done = d.row[s].done
                          /\ e.row[s].ready = d.row[s].ready
  PROVE  Wellwired(e, more)
<1>1. \A s \in Steps : Prereqs(e, s) = Prereqs(d, s)
  BY DEF Prereqs
<1>2. ASSUME NEW s \in Live(e) \ more
      PROVE  Ready(e.row[s], Prereqs(e, s), Prereqs(e, s) \cap Completed(e))
  <2>1. s \in Steps /\ s \in Live(d) \ sk
    BY DEF Live
  <2>2. Ready(d.row[s], Prereqs(d, s), Prereqs(d, s) \cap Completed(d))
    BY <2>1 DEF Wellwired
  <2> QED BY <1>1, <2>1, <2>2 DEF Ready
<1> QED BY <1>2 DEF Wellwired

LEMMA WireKeepsTrue ==
  ASSUME NEW d \in Db, NEW sk, Wellwired(d, sk), NEW E \in SUBSET (Live(d) \X Live(d)),
         E \cap d.edge = {}, NEW e, WiredTo(e, d, E)
  PROVE  Wellwired(e, sk)
<1>1. ASSUME NEW s \in Steps PROVE e.row[s].live = d.row[s].live /\ e.row[s].state = d.row[s].state
  BY DEF WiredTo, Counts
<1>2. Live(e) = Live(d) /\ Completed(e) = Completed(d) /\ e.edge = d.edge \cup E /\ e \in Db
  BY <1>1 DEF Live, Completed, WiredTo
<1>3. \A x \in e.edge : x[1] \in Live(e) /\ x[2] \in Live(e)
  BY <1>2 DEF Wellwired
<1>4. ASSUME NEW s \in Live(e) \ sk
      PROVE  Ready(e.row[s], Prereqs(e, s), Prereqs(e, s) \cap Completed(e))
  <2>1. PICK P, N, D : P = Prereqs(d, s) /\ N = Into(E, s) /\ D = Completed(d)
    OBVIOUS
  <2>2. s \in Steps /\ Ready(d.row[s], P, P \cap D)
    BY <1>2, <2>1 DEF Wellwired, Live
  <2>3. Prereqs(e, s) = P \cup N /\ P \cap N = {}
    BY <1>2, <2>1 DEF Prereqs, Into
  <2>4. P \in SUBSET Steps /\ N \in SUBSET Steps /\ D \in SUBSET Steps
    BY <2>1 DEF Prereqs, Into, Completed
  <2>5. CASE N = {}
    BY <1>2, <2>1, <2>2, <2>3, <2>5 DEF WiredTo
  <2>6. CASE N # {}
    <3>1. Counts(e.row[s], d.row[s], d.row[s].total + Cardinality(N),
                 d.row[s].done + Cardinality(N \cap D))
      BY <2>1, <2>2, <2>6 DEF WiredTo
    <3>2. Cardinality(P \cup N) = Cardinality(P) + Cardinality(N)
      BY <2>3, <2>4, CardApart
    <3>3. Cardinality((P \cap D) \cup (N \cap D)) = Cardinality(P \cap D) + Cardinality(N \cap D)
      BY <2>3, <2>4, CardApart
    <3>4. (P \cup N) \cap D = (P \cap D) \cup (N \cap D)
      OBVIOUS
    <3>5. /\ e.row[s] = recalculate_readiness(e.row[s])
          /\ e.row[s].total = Cardinality(P \cup N)
          /\ e.row[s].done = Cardinality((P \cup N) \cap D)
      BY <2>2, <3>1, <3>2, <3>3, <3>4 DEF Counts, Ready
    <3>6. e.row[s] \in Row
      BY <1>2, <2>2 DEF Db
    <3>7. Ready(e.row[s], P \cup N, (P \cup N) \cap D)
      BY <2>4, <3>5, <3>6, TrueReadiness
    <3> QED BY <1>2, <2>1, <2>3, <3>7
  <2> QED BY <2>5, <2>6
<1> QED BY <1>3, <1>4 DEF Wellwired

LEMMA UnwireKeepsTrue ==
  ASSUME NEW d \in Db, NEW sk, Wellwired(d, sk), NEW E \in SUBSET d.edge,
         NEW e, Unwired(e, d, E), NEW more, sk \subseteq more,
         \A x \in E : x[2] \in Completed(d) => x[1] \in more
  PROVE  Wellwired(e, more)
<1>1. ASSUME NEW s \in Steps PROVE e.row[s].live = d.row[s].live /\ e.row[s].state = d.row[s].state
  BY DEF Unwired, Counts
<1>2. Live(e) = Live(d) /\ Completed(e) = Completed(d) /\ e.edge = d.edge \ E /\ e \in Db
  BY <1>1 DEF Live, Completed, Unwired
<1>3. \A x \in e.edge : x[1] \in Live(e) /\ x[2] \in Live(e)
  BY <1>2 DEF Wellwired
<1>4. ASSUME NEW s \in Live(e) \ more
      PROVE  Ready(e.row[s], Prereqs(e, s), Prereqs(e, s) \cap Completed(e))
  <2>1. PICK P, N, D : P = Prereqs(d, s) /\ N = Into(E, s) /\ D = Completed(d)
    OBVIOUS
  <2>2. s \in Steps /\ Ready(d.row[s], P, P \cap D)
    BY <1>2, <2>1 DEF Wellwired, Live
  <2>3. Prereqs(e, s) = P \ N /\ N \subseteq P
    BY <1>2, <2>1 DEF Prereqs, Into
  <2>4. P \in SUBSET Steps /\ N \in SUBSET P /\ D \in SUBSET Steps
    BY <2>1, <2>3 DEF Prereqs, Completed
  <2>5. N \cap D = {}
    <3>1. ASSUME NEW p \in N, p \in D PROVE FALSE
      <4>1. <<s, p>> \in E
        BY <2>1 DEF Into
      <4>2. <<s, p>>[1] = s /\ <<s, p>>[2] = p
        OBVIOUS
      <4> QED BY <2>1, <3>1, <4>1, <4>2
    <3> QED BY <3>1
  <2>6. Cardinality(P \ N) = Cardinality(P) - Cardinality(N) /\ Max0(Cardinality(P) - Cardinality(N)) = Cardinality(P \ N)
    BY <2>4, CardTaken
  <2>7. /\ Cardinality(N) = 0 <=> N = {}
        /\ Cardinality(P \cap D) <= Cardinality(P \ N)
        /\ (P \ N) \cap D = P \cap D
    <3>1. P \cap D \subseteq P \ N /\ P \ N \in SUBSET Steps /\ (P \ N) \cap D = P \cap D
      BY <2>4, <2>5
    <3>2. N \in SUBSET Steps /\ P \cap D \in SUBSET (P \ N)
      BY <2>4, <3>1
    <3> QED BY <3>1, <3>2, CardTaken, CardIsNat, FS_EmptySet
  <2>8. CASE Cardinality(N) = 0
    <3>1. e.row[s] = d.row[s]
      BY <2>1, <2>2, <2>8 DEF Unwired
    <3>2. P \ N = P
      BY <2>7, <2>8
    <3> QED BY <1>2, <2>1, <2>2, <2>3, <3>1, <3>2
  <2>9. CASE Cardinality(N) # 0
    <3>1. PICK total : total = Max0(d.row[s].total - Cardinality(N))
      OBVIOUS
    <3>2. Counts(e.row[s], d.row[s], total, Clamp(d.row[s].done, total))
      BY <2>1, <2>2, <2>9, <3>1 DEF Unwired
    <3>3. total = Cardinality(P \ N) /\ d.row[s].done = Cardinality(P \cap D)
      BY <2>2, <2>6, <3>1 DEF Ready
    <3>4. Cardinality(P \ N) \in Nat /\ Cardinality(P \cap D) \in Nat
      BY <2>4, CardIsNat
    <3>5. Clamp(d.row[s].done, total) = Cardinality(P \cap D)
      BY <2>7, <3>3, <3>4 DEF Clamp
    <3>6. e.row[s] \in Row
      BY <1>2, <2>2 DEF Db
    <3>7. Ready(e.row[s], P \ N, (P \ N) \cap D)
      BY <2>4, <2>7, <3>2, <3>3, <3>5, <3>6, TrueReadiness DEF Counts
    <3> QED BY <1>2, <2>1, <2>3, <3>7
  <2> QED BY <2>8, <2>9
<1> QED BY <1>3, <1>4 DEF Wellwired

\* Live steps and their records in tables a session has not written yet.
Agree(d) == \A s \in Live(d) : d.rec[s].state = d.row[s].state /\ d.row[s].state \in StepStates

LEMMA AgreeAtWork ==
  ASSUME NEW d, Agree(d)
  PROVE  AtWork(d) = {s \in Live(d) : d.row[s].state = "WORKING"}
BY DEF Agree, AtWork

\* Pausing steps that are at work disturbs nothing.
LEMMA PausingKeeps ==
  ASSUME NEW d \in Db, Agree(d), NEW sk, Consistent(d, sk), NEW P \in SUBSET AtWork(d),
         NEW by, NEW credit, NEW e, Entered(e, d, P, "PAUSED", by, credit)
  PROVE  /\ Consistent(e, sk) /\ Agree(e)
         /\ AtWork(e) = AtWork(d) \ P /\ Alone(e) = Alone(d) \ P
         /\ \A s \in AtWork(e) : e.rec[s] = d.rec[s]
<1>1. /\ e.task = d.task /\ e.edge = d.edge
      /\ \A s \in Steps : /\ s \notin P => e.rec[s] = d.rec[s]
                          /\ s \in P => e.rec[s].state = "PAUSED"
                          /\ e.row[s].live = d.row[s].live
                          /\ e.row[s].state = IF s \in P THEN "PAUSED" ELSE d.row[s].state
                          /\ e.row[s].total = d.row[s].total /\ e.row[s].done = d.row[s].done
                          /\ e.row[s].ready = d.row[s].ready /\ e.row[s].batch = d.row[s].batch
  BY DEF Entered
<1>2. \A s \in P : s \in Live(d) /\ s \in Steps /\ d.row[s].state = "WORKING"
  BY AgreeAtWork DEF Live
<1>3. Live(e) = Live(d) /\ Completed(e) = Completed(d)
  BY <1>1, <1>2 DEF Live, Completed
<1>4. Agree(e)
  BY <1>1, <1>3 DEF Agree, Live, StepStates
<1>5. AtWork(e) = AtWork(d) \ P
  BY <1>1, <1>3 DEF AtWork, Live
<1>6. \A s \in AtWork(e) : e.rec[s] = d.rec[s]
  BY <1>1, <1>5 DEF AtWork, Live
<1>7. Wellwired(e, sk)
  BY <1>1, <1>3, StillWellwired DEF Consistent
<1>8. Follows(e)
  <2>1. P # {} => \E s \in Live(d) : d.row[s].state = "WORKING"
    BY <1>2
  <2>2. \A s \in Live(d) : /\ s \in Steps
                           /\ s \notin P => e.row[s].state = d.row[s].state
                           /\ s \in P => e.row[s].state = "PAUSED"
    BY <1>1 DEF Live
  <2> QED BY <1>1, <1>3, <2>1, <2>2 DEF Follows, Consistent, TERMINAL_STEP_STATES
<1>9. Alone(e) = Alone(d) \ P
  BY <1>1, <1>5 DEF Alone, AtWork, Live
<1> QED BY <1>4, <1>5, <1>6, <1>7, <1>8, <1>9 DEF Consistent

\* A transition again: what it does to the counters and to the task.
Counted(e, d, S, st) ==
  /\ st # "COMPLETED" =>
       \A s \in Steps : /\ e.row[s].total = d.row[s].total /\ e.row[s].done = d.row[s].done
                        /\ e.row[s].ready = d.row[s].ready
  /\ st = "COMPLETED" =>
       \A s \in Steps :
         LET n == Cardinality(Prereqs(d, s) \cap S) IN
         /\ e.row[s].total = d.row[s].total
         /\ IF s \in Live(d) /\ n > 0
            THEN e.row[s].done = d.row[s].done + n /\ e.row[s] = recalculate_readiness(e.row[s])
            ELSE e.row[s].done = d.row[s].done /\ e.row[s].ready = d.row[s].ready

TaskMoved(e, d, S, st) ==
  e.task.state =
    IF st = "WORKING" THEN IF d.task.state = "ASSIGNED" THEN "WORKING" ELSE d.task.state
    ELSE IF /\ st \in TERMINAL_STEP_STATES /\ S # {}
            /\ d.task.state \notin TERMINAL_TASK_STATES
            /\ \A s \in Live(d) : e.row[s].state \in TERMINAL_STEP_STATES
            /\ Live(d) # {}
         THEN "READY" ELSE d.task.state

LEMMA TransitionMore ==
  ASSUME NEW d \in Db, NEW S \in SUBSET Steps, NEW st \in StepStates,
         NEW by \in People, NEW credit \in People,
         NEW e, e = _apply_step_transition(d, S, st, by, credit)
  PROVE  Counted(e, d, S, st) /\ TaskMoved(e, d, S, st)
<1>1. PICK e0 : e0 = Enter(d, S, st, by, credit)
  OBVIOUS
<1>2. Entered(e0, d, S, st, by, credit)
  BY <1>1, EnterDoes
<1>3. e0 \in Db /\ e0.task = d.task /\ e0.edge = d.edge
  BY <1>2 DEF Entered
<1>4. PICK r0 : r0 = IF st \in TERMINAL_STEP_STATES /\ S # {}
                     THEN maybe_evaluate_task_ready(e0, FALSE) ELSE e0
  OBVIOUS
<1>5. Live(e0) = Live(d) /\ \A s \in Steps : Prereqs(e0, s) = Prereqs(d, s)
  BY <1>2 DEF Entered, Live, Prereqs
<1>6. /\ Looked(r0, e0)
      /\ r0.task.state = IF /\ st \in TERMINAL_STEP_STATES /\ S # {}
                            /\ d.task.state \notin TERMINAL_TASK_STATES
                            /\ \A s \in Live(d) : e0.row[s].state \in TERMINAL_STEP_STATES
                            /\ Live(d) # {}
                         THEN "READY" ELSE d.task.state
  <2>1. CASE st \in TERMINAL_STEP_STATES /\ S # {}
    <3>1. /\ Looked(r0, e0)
          /\ r0.task.state = IF /\ e0.task.state \notin TERMINAL_TASK_STATES
                                /\ \A s \in Live(e0) : e0.row[s].state \in TERMINAL_STEP_STATES
                                /\ Live(e0) # {} \/ FALSE
                             THEN "READY" ELSE e0.task.state
      BY <1>3, <1>4, <2>1, EvaluateDoes
    <3> QED BY <1>3, <1>5, <2>1, <3>1
  <2>2. CASE ~(st \in TERMINAL_STEP_STATES /\ S # {})
    <3>1. r0 = e0
      BY <1>4, <2>2
    <3> QED BY <1>3, <2>2, <3>1 DEF Looked, SameButRows
  <2> QED BY <2>1, <2>2
<1>7. e = IF st = "WORKING" THEN maybe_advance_task_to_working(e0)
          ELSE IF st = "COMPLETED" THEN cascade_step_completion(r0, S) ELSE r0
  BY <1>1, <1>4 DEF _apply_step_transition
<1>8. \A s \in Steps : /\ e0.row[s].live = d.row[s].live
                       /\ e0.row[s].total = d.row[s].total /\ e0.row[s].done = d.row[s].done
                       /\ e0.row[s].ready = d.row[s].ready
  BY <1>2 DEF Entered
<1>9. \A s \in Live(d) : s \in Steps
  BY DEF Live
<1>10. CASE st = "WORKING"
  <2>1. Looked(e, e0) /\ e.task.state = IF e0.task.state = "ASSIGNED" THEN "WORKING" ELSE e0.task.state
    BY <1>3, <1>7, <1>10, AdvanceDoes
  <2>2. e.row = e0.row
    BY <2>1 DEF Looked
  <2> QED BY <1>3, <1>8, <1>10, <2>1, <2>2 DEF Counted, TaskMoved
<1>11. CASE st = "COMPLETED"
  <2>1. r0 \in Db /\ r0.row = e0.row /\ r0.edge = e0.edge
    BY <1>6 DEF Looked, SameButRows
  <2>2. Cascaded(e, r0, S)
    BY <1>7, <1>11, <2>1, CascadeDoes
  <2>3. Live(r0) = Live(d) /\ \A s \in Steps : Prereqs(r0, s) = Prereqs(d, s)
    BY <1>5, <2>1 DEF Live, Prereqs
  <2>4. e.task = r0.task
    BY <2>2 DEF Cascaded
  <2>5. ASSUME NEW s \in Steps, NEW n, n = Cardinality(Prereqs(d, s) \cap S)
        PROVE  /\ e.row[s].total = d.row[s].total /\ e.row[s].state = e0.row[s].state
               /\ IF s \in Live(d) /\ n > 0
                  THEN e.row[s].done = d.row[s].done + n /\ e.row[s] = recalculate_readiness(e.row[s])
                  ELSE e.row[s].done = d.row[s].done /\ e.row[s].ready = d.row[s].ready
    <3>1. IF s \in Live(d) /\ n > 0
          THEN Counts(e.row[s], r0.row[s], r0.row[s].total, r0.row[s].done + n)
          ELSE e.row[s] = r0.row[s]
      BY <2>2, <2>3, <2>5 DEF Cascaded
    <3> QED BY <1>8, <2>1, <3>1 DEF Counts
  <2>6. e.task.state = IF /\ S # {}
                          /\ d.task.state \notin TERMINAL_TASK_STATES
                          /\ \A s \in Live(d) : e.row[s].state \in TERMINAL_STEP_STATES
                          /\ Live(d) # {}
                       THEN "READY" ELSE d.task.state
    <3>1. \A s \in Live(d) : e.row[s].state = e0.row[s].state
      BY <1>9, <2>5
    <3>2. "COMPLETED" \in TERMINAL_STEP_STATES
      BY DEF TERMINAL_STEP_STATES
    <3> QED BY <1>6, <1>11, <2>4, <3>1, <3>2
  <2>7. "COMPLETED" \in TERMINAL_STEP_STATES
    BY DEF TERMINAL_STEP_STATES
  <2> QED BY <1>11, <2>5, <2>6, <2>7 DEF Counted, TaskMoved
<1>12. CASE st \notin {"WORKING", "COMPLETED"}
  <2>1. e = r0 /\ e.row = e0.row
    BY <1>6, <1>7, <1>12 DEF Looked
  <2> QED BY <1>6, <1>8, <1>12, <2>1 DEF Counted, TaskMoved
<1> QED BY <1>10, <1>11, <1>12

\* A transition keeps the counters true when none of the steps it moves was COMPLETED.
LEMMA TransitionKeepsTrue ==
  ASSUME NEW d \in Db, NEW S \in SUBSET Steps, NEW st \in StepStates,
         NEW by \in People, NEW credit \in People, S \cap Completed(d) = {},
         NEW e, e = _apply_step_transition(d, S, st, by, credit), NEW sk, Wellwired(d, sk)
  PROVE  Wellwired(e, sk)
<1>1. Counted(e, d, S, st)
  BY TransitionMore
<1>2. Moved(e, d, S, st, by, credit)
  BY TransitionDoes
<1>3. /\ e \in Db /\ e.edge = d.edge
      /\ \A s \in Steps : /\ e.row[s].live = d.row[s].live
                          /\ e.row[s].state = IF s \in S THEN st ELSE d.row[s].state
  BY <1>2 DEF Moved
<1>4. Live(e) = Live(d) /\ \A s \in Steps : Prereqs(e, s) = Prereqs(d, s)
  BY <1>3 DEF Live, Prereqs
<1>5. CASE st # "COMPLETED"
  <2>1. Completed(e) = Completed(d)
    BY <1>3, <1>5 DEF Completed
  <2>2. \A s \in Steps : /\ e.row[s].total = d.row[s].total /\ e.row[s].done = d.row[s].done
                         /\ e.row[s].ready = d.row[s].ready
    BY <1>1, <1>5 DEF Counted
  <2> QED BY <1>3, <1>4, <2>1, <2>2, StillWellwired
<1>6. CASE st = "COMPLETED"
  <2>1. Completed(e) = Completed(d) \cup S
    BY <1>3, <1>6 DEF Completed
  <2>2. ASSUME NEW s \in Live(e) \ sk
        PROVE  Ready(e.row[s], Prereqs(e, s), Prereqs(e, s) \cap Completed(e))
    <3>1. PICK P, N, D : P = Prereqs(d, s) /\ N = P \cap S /\ D = P \cap Completed(d)
      OBVIOUS
    <3>2. s \in Steps /\ s \in Live(d) /\ Ready(d.row[s], P, D)
      BY <1>4, <3>1 DEF Wellwired, Live
    <3>3. /\ P \in SUBSET Steps /\ N \in SUBSET Steps /\ D \in SUBSET Steps /\ D \cap N = {}
          /\ Prereqs(e, s) = P /\ P \cap Completed(e) = D \cup N /\ D \cup N \in SUBSET P
      BY <1>4, <2>1, <3>1, <3>2 DEF Prereqs
    <3>4. Cardinality(D \cup N) = Cardinality(D) + Cardinality(N)
      BY <3>3, CardApart
    <3>5. Cardinality(N) \in Nat /\ Cardinality(D) \in Nat /\ (Cardinality(N) = 0 <=> N = {})
      BY <3>3, CardIsNat, FS_EmptySet
    <3>6. /\ e.row[s].total = d.row[s].total
          /\ IF Cardinality(N) > 0
             THEN /\ e.row[s].done = d.row[s].done + Cardinality(N)
                  /\ e.row[s] = recalculate_readiness(e.row[s])
             ELSE e.row[s].done = d.row[s].done /\ e.row[s].ready = d.row[s].ready
      BY <1>1, <1>6, <3>1, <3>2 DEF Counted
    <3>7. CASE N = {}
      <4>1. D \cup N = D
        BY <3>7
      <4>2. Ready(e.row[s], P, D)
        BY <3>2, <3>5, <3>6, <3>7 DEF Ready
      <4> QED BY <3>3, <4>1, <4>2
    <3>8. CASE N # {}
      <4>1. /\ e.row[s] = recalculate_readiness(e.row[s])
            /\ e.row[s].total = Cardinality(P) /\ e.row[s].done = Cardinality(D \cup N)
        BY <3>2, <3>4, <3>5, <3>6, <3>8 DEF Ready
      <4>2. e.row[s] \in Row
        BY <1>3, <3>2 DEF Db
      <4>3. Ready(e.row[s], P, D \cup N)
        BY <3>3, <4>1, <4>2, TrueReadiness
      <4> QED BY <3>3, <4>3
    <3> QED BY <3>7, <3>8
  <2>3. \A x \in e.edge : x[1] \in Live(e) /\ x[2] \in Live(e)
    BY <1>3, <1>4 DEF Wellwired
  <2> QED BY <2>2, <2>3 DEF Wellwired
<1> QED BY <1>5, <1>6

LEMMA Allowed ==
  ASSUME NEW was \in StepStates, NEW st \in StepStates, st \in _ALLOWED_TRANSITIONS[was]
  PROVE  /\ was \in {"PENDING", "WORKING", "PAUSED"}
         /\ st \in {"WORKING", "PAUSED", "COMPLETED", "FAILED", "CANCELLED"}
         /\ st # "WORKING" => was # "PENDING"
         /\ st = "WORKING" => was # "WORKING"
BY DEF _ALLOWED_TRANSITIONS, StepStates

\* The task follows a transition that was allowed.
LEMMA TransitionFollowed ==
  ASSUME NEW d \in Db, Agree(d), Follows(d), NEW S \in SUBSET Live(d), S # {}, NEW st \in StepStates,
         \A s \in S : st \in _ALLOWED_TRANSITIONS[d.row[s].state],
         NEW by \in People, NEW credit \in People,
         NEW e, e = _apply_step_transition(d, S, st, by, credit)
  PROVE  Follows(e)
<1>1. S \in SUBSET Steps /\ \A s \in Live(d) : s \in Steps
  BY DEF Live
<1>2. TaskMoved(e, d, S, st)
  BY <1>1, TransitionMore
<1>3. Moved(e, d, S, st, by, credit)
  BY <1>1, TransitionDoes
<1>4. /\ Live(e) = Live(d)
      /\ \A s \in Live(d) : e.row[s].state = IF s \in S THEN st ELSE d.row[s].state
  BY <1>1, <1>3 DEF Moved, Live
<1>5. PICK s \in S : s \in Live(d)
  OBVIOUS
<1>6. /\ d.row[s].state \in {"PENDING", "WORKING", "PAUSED"}
      /\ st \in {"WORKING", "PAUSED", "COMPLETED", "FAILED", "CANCELLED"}
      /\ st # "WORKING" => d.row[s].state # "PENDING"
  BY <1>5, Allowed DEF Agree
<1>7. d.task.state \notin {"PENDING", "READY"} /\ (st # "WORKING" => d.task.state # "ASSIGNED")
  BY <1>5, <1>6 DEF Follows, TERMINAL_STEP_STATES
<1>8. e.row[s].state = st /\ s \in Live(e)
  BY <1>4, <1>5
<1>9. CASE st = "WORKING"
  BY <1>2, <1>4, <1>7, <1>8, <1>9 DEF Follows, TaskMoved, TERMINAL_STEP_STATES
<1>10. CASE st = "PAUSED"
  BY <1>2, <1>4, <1>7, <1>8, <1>10 DEF Follows, TaskMoved, TERMINAL_STEP_STATES
<1>11. CASE st \in {"COMPLETED", "FAILED", "CANCELLED"}
  <2>1. st \in TERMINAL_STEP_STATES /\ st # "WORKING"
    BY <1>11 DEF TERMINAL_STEP_STATES
  <2>2. e.task.state = IF /\ d.task.state \notin TERMINAL_TASK_STATES
                          /\ \A r \in Live(d) : e.row[r].state \in TERMINAL_STEP_STATES
                       THEN "READY" ELSE d.task.state
    BY <1>2, <1>5, <2>1 DEF TaskMoved
  <2> QED BY <1>4, <1>7, <2>1, <2>2 DEF Follows, TERMINAL_TASK_STATES
<1> QED BY <1>6, <1>9, <1>10, <1>11

\* What a transition leaves at work.
LEMMA TransitionSingle ==
  ASSUME NEW d \in Db, NEW ex, Single(d, ex), NEW S \in SUBSET Live(d), NEW st \in StepStates,
         NEW by \in People, NEW credit \in People,
         \A s \in S : ~d.row[s].batch => S = {s},
         NEW e, e = _apply_step_transition(d, S, st, by, credit),
         \A s \in S \cap Alone(e) : \A r \in Alone(d) \ {s} : d.rec[r].by = by => by \in ex
  PROVE  Single(e, ex)
<1>1. S \in SUBSET Steps
  BY DEF Live
<1>2. Moved(e, d, S, st, by, credit)
  BY <1>1, TransitionDoes
<1>3. \A s \in Steps : /\ e.rec[s] = IF s \in S THEN Record(st, by, credit) ELSE d.rec[s]
                       /\ s \in S => e.rec[s].state = st
                       /\ e.row[s].live = d.row[s].live /\ e.row[s].batch = d.row[s].batch
  BY <1>2 DEF Moved
<1>4. ASSUME NEW s \in Alone(e)
      PROVE  /\ s \in Steps
             /\ \/ s \in S /\ S = {s} /\ e.rec[s].by = by
                \/ s \notin S /\ s \in Alone(d) /\ e.rec[s] = d.rec[s]
  <2>1. /\ s \in Steps /\ e.row[s].live = "yes" /\ e.rec[s].state = "WORKING" /\ ~e.row[s].batch
    BY DEF Alone, AtWork, Live
  <2>2. CASE s \in S
    <3>1. st = "WORKING" /\ e.rec[s] = Record("WORKING", by, credit)
      BY <1>3, <2>1, <2>2
    <3>2. e.rec[s].by = by
      BY <3>1 DEF Record
    <3> QED BY <1>3, <2>1, <2>2, <3>2
  <2>3. CASE s \notin S
    BY <1>3, <2>1, <2>3 DEF Alone, AtWork, Live
  <2> QED BY <2>1, <2>2, <2>3
<1>5. ASSUME NEW s \in Alone(e), NEW r \in Alone(e), s # r, e.rec[s].by = e.rec[r].by
      PROVE  e.rec[s].by \in ex
  <2>1. CASE s \in S
    <3>1. e.rec[s].by = by /\ r \in Alone(d) \ {s} /\ d.rec[r].by = by
      BY <1>4, <1>5, <2>1
    <3> QED BY <2>1, <3>1
  <2>2. CASE r \in S
    <3>1. e.rec[r].by = by /\ s \in Alone(d) \ {r} /\ d.rec[s].by = by
      BY <1>4, <1>5, <2>2
    <3> QED BY <1>5, <2>2, <3>1
  <2>3. CASE s \notin S /\ r \notin S
    BY <1>4, <1>5, <2>3 DEF Single
  <2> QED BY <2>1, <2>2, <2>3
<1> QED BY <1>5 DEF Single

\* A state command that finds the tables as it loaded them leaves them consistent.
LEMMA TransitionConsistent ==
  ASSUME Overlap, Consistent(db, skewed), Single(db, excused), NEW j,
         \A s \in j.steps : ~db.row[s].batch => j.steps = {s},
         j.by \in People, j.credit \in People,
         j.steps \subseteq Live(db), j.new \in StepStates, j.new # "SKIPPED", Movable(j, db),
         NEW P \in SUBSET Conflicts(j, db),
         Conflicts(j, db) # {} => Cardinality(P) = 1,
         NEW e, e = _apply_step_transition(Enter(db, P, "PAUSED", j.by, j.by),
                                           j.steps, j.new, j.by, j.credit),
         NEW p, p.was = db, p.new = e, j.steps \subseteq p.opens
  PROVE  Consistent(e, skewed) /\ Single(e, excused \cup Excuses(p))
<1>1. db \in Db /\ Agree(db)
  BY DEF Overlap, Recorded, Agree, Live
<1>2. PICK d : d = Enter(db, P, "PAUSED", j.by, j.by)
  OBVIOUS
<1>3. /\ j.steps # {} /\ \A s \in j.steps : j.new \in _ALLOWED_TRANSITIONS[db.row[s].state]
  BY DEF Movable
<1>4. /\ P \in SUBSET AtWork(db) /\ P \in SUBSET Alone(db) /\ P \in SUBSET Steps
      /\ P \cap j.steps = {}
  <2>1. ASSUME NEW c \in P
        PROVE  c \in AtWork(db) /\ c \in Alone(db) /\ c \in Steps /\ c \notin j.steps
    <3>0. c \in Conflicts(j, db)
      OBVIOUS
    <3>1. PICK s \in {k \in j.steps : ~db.row[k].batch} :
            c \in fetch_open_user_working_record(db, s, {j.by, j.credit})
      BY <3>0 DEF Conflicts
    <3>2. c \in Alone(db) /\ c # s
      BY <3>1 DEF fetch_open_user_working_record
    <3>3. j.steps = {s}
      BY <3>1
    <3> QED BY <3>2, <3>3 DEF Alone, AtWork, Live
  <2> QED BY <2>1
<1>5. Entered(d, db, P, "PAUSED", j.by, j.by)
  <2>1. "PAUSED" \in StepStates
    BY DEF StepStates
  <2> QED BY <1>1, <1>2, <1>4, <2>1, EnterDoes
<1>6. /\ Consistent(d, skewed) /\ Agree(d)
      /\ AtWork(d) = AtWork(db) \ P /\ Alone(d) = Alone(db) \ P
      /\ \A s \in AtWork(d) : d.rec[s] = db.rec[s]
  BY <1>1, <1>4, <1>5, PausingKeeps
<1>7. /\ d \in Db /\ Live(d) = Live(db) /\ j.steps \in SUBSET Live(d) /\ j.steps \in SUBSET Steps
      /\ \A s \in j.steps : d.row[s].state = db.row[s].state /\ d.row[s].batch = db.row[s].batch
  BY <1>4, <1>5 DEF Entered, Live
<1>8. \A s \in j.steps : j.new \in _ALLOWED_TRANSITIONS[d.row[s].state]
  BY <1>3, <1>7
<1>9. e = _apply_step_transition(d, j.steps, j.new, j.by, j.credit)
  BY <1>2
<1>10. Wellwired(e, skewed)
  <2>1. \A s \in j.steps : d.row[s].state \in {"PENDING", "WORKING", "PAUSED"}
    BY <1>6, <1>7, <1>8, Allowed DEF Agree
  <2>2. j.steps \cap Completed(d) = {}
    BY <2>1 DEF Completed
  <2> QED BY <1>6, <1>7, <1>9, <2>2, TransitionKeepsTrue DEF Consistent
<1>11. Follows(e)
  BY <1>3, <1>6, <1>7, <1>8, <1>9, TransitionFollowed DEF Consistent
<1>12. Single(e, excused \cup Excuses(p))
  <2> DEFINE ex == excused \cup Excuses(p)
  <2>1. Single(d, ex)
    BY <1>6 DEF Single, Alone
  <2>2. Moved(e, d, j.steps, j.new, j.by, j.credit)
    BY <1>7, <1>9, TransitionDoes
  <2>3. ASSUME NEW s \in j.steps \cap Alone(e), NEW r \in Alone(d) \ {s}, d.rec[r].by = j.by
        PROVE  j.by \in ex
    <3>1. s \in Steps /\ e.rec[s].state = "WORKING" /\ ~e.row[s].batch
      BY DEF Alone, AtWork, Live
    <3>2. /\ j.new = "WORKING" /\ ~db.row[s].batch
          /\ e.rec[s].by = j.by /\ e.rec[s].credit = j.credit
      BY <1>7, <2>2, <3>1 DEF Moved, Record
    <3>3. r \in Alone(db) \ P /\ db.rec[r].by = j.by
      BY <1>6, <2>3 DEF Alone
    <3>4. CASE j.by # j.credit
      BY <3>2, <3>4 DEF Excuses
    <3>5. CASE j.by = j.credit
      <4>1. r \in Conflicts(j, db)
        BY <3>2, <3>3 DEF Conflicts, fetch_open_user_working_record
      <4>2. PICK c \in P : TRUE
        BY <4>1, FS_EmptySet
      <4>3. c \in Conflicts(j, db) /\ c \in Alone(db)
        BY <1>4
      <4>4. db.rec[c].by = j.by /\ c # r
        BY <3>3, <3>5, <4>3 DEF Conflicts, fetch_open_user_working_record
      <4> QED BY <3>3, <4>3, <4>4 DEF Single
    <3> QED BY <3>4, <3>5
  <2>4. \A s \in j.steps : ~d.row[s].batch => j.steps = {s}
    BY <1>7
  <2> HIDE DEF ex
  <2>5. Single(e, ex)
    BY <1>7, <1>9, <2>1, <2>3, <2>4, TransitionSingle
  <2> QED BY <2>5 DEF ex
<1> QED BY <1>10, <1>11, <1>12 DEF Consistent

\* Forcing skips every step that is not over, and leaves a task that is READY.
LEMMA ForceConsistent ==
  ASSUME Overlap, Consistent(db, skewed), NEW S \in SUBSET Live(db),
         \A s \in Live(db) : s \in S <=> db.row[s].state \notin TERMINAL_STEP_STATES,
         NEW by \in People, NEW credit \in People,
         NEW m, m = _apply_step_transition(db, S, "SKIPPED", by, credit),
         NEW e, e = maybe_evaluate_task_ready(m, TRUE), e.task.state = "READY"
  PROVE  Consistent(e, skewed) /\ AtWork(e) = {}
<1>1. /\ db \in Db /\ Agree(db) /\ S \in SUBSET Steps /\ S \in SUBSET Live(db)
      /\ "SKIPPED" \in StepStates
  BY DEF Overlap, Recorded, Agree, Live, StepStates
<1>2. S \cap Completed(db) = {}
  BY <1>1 DEF Completed, TERMINAL_STEP_STATES
<1>3. Wellwired(m, skewed) /\ Moved(m, db, S, "SKIPPED", by, credit)
  BY <1>1, <1>2, TransitionKeepsTrue, TransitionDoes DEF Consistent
<1>4. Looked(e, m)
  <2>1. m \in Db
    BY <1>3 DEF Moved
  <2> QED BY <2>1, EvaluateDoes
<1>5. /\ e.row = m.row /\ e.rec = m.rec /\ e.edge = m.edge
      /\ Live(e) = Live(m) /\ Completed(e) = Completed(m)
  BY <1>4 DEF Looked, SameButRows, Live, Completed
<1>6. Wellwired(e, skewed)
  <2>1. Wellwired(m, skewed)
    BY <1>3
  <2>2. \A s \in Steps : Prereqs(e, s) = Prereqs(m, s)
    BY <1>5 DEF Prereqs
  <2>3. \A s \in Live(e) : s \in Steps
    BY DEF Live
  <2> QED BY <1>5, <2>1, <2>2, <2>3 DEF Wellwired
<1>7. Live(m) = Live(db) /\ \A s \in Live(db) : m.row[s].state \in TERMINAL_STEP_STATES
  <2>1. \A s \in Live(db) : s \in Steps
    BY DEF Live
  <2> QED BY <1>3, <2>1 DEF Moved, Live, TERMINAL_STEP_STATES
<1>8. Follows(e)
  BY <1>5, <1>7 DEF Follows
<1>9. AtWork(e) = {}
  <2>1. ASSUME NEW s \in AtWork(e) PROVE FALSE
    <3>1. s \in Steps /\ s \in Live(db) /\ e.rec[s].state = "WORKING"
      BY <1>5, <1>7, <2>1 DEF AtWork, Live
    <3>2. s \in S => e.rec[s].state = "SKIPPED"
      BY <1>3, <1>5, <3>1 DEF Moved
    <3>3. s \notin S => e.rec[s] = db.rec[s] /\ db.row[s].state \in TERMINAL_STEP_STATES
      <4>1. s \notin S => e.rec[s] = db.rec[s]
        <5>1. m.rec[s] = IF s \in S THEN Record("SKIPPED", by, credit) ELSE db.rec[s]
          BY <1>3, <3>1 DEF Moved
        <5> QED BY <1>5, <5>1
      <4> QED BY <3>1, <4>1
    <3>4. db.rec[s].state = db.row[s].state
      BY <1>1, <3>1 DEF Agree
    <3> QED BY <3>1, <3>2, <3>3, <3>4 DEF TERMINAL_STEP_STATES
  <2> QED BY <2>1
<1> QED BY <1>6, <1>8, <1>9 DEF Consistent

\* Who is at work was so before, under the same record.
StillAtWork(n) == \A s \in AtWork(n) : s \in AtWork(db) /\ n.rec[s] = db.rec[s]

\* Nobody who goes on comes to have two steps, unless one of them lost its batch stamp.
LEMMA StillSingle ==
  ASSUME Single(db, excused), NEW n, StillAtWork(n), NEW p, p.was = db, p.new = n
  PROVE  Single(n, excused \cup Excuses(p))
<1> SUFFICES ASSUME NEW s \in Alone(n), NEW r \in Alone(n), s # r, n.rec[s].by = n.rec[r].by,
                    n.rec[s].by \notin Excuses(p)
             PROVE  n.rec[s].by \in excused
  BY DEF Single
<1>1. ~db.row[s].batch /\ ~db.row[r].batch
  BY DEF Excuses
<1>2. /\ s \in Alone(db) /\ r \in Alone(db)
      /\ n.rec[s] = db.rec[s] /\ n.rec[r] = db.rec[r]
  BY <1>1 DEF StillAtWork, Alone
<1> QED BY <1>2 DEF Single

\* New steps are wired to the live ones, are open, and reopen the task.
LEMMA AddConsistent ==
  ASSUME Overlap, Consistent(db, skewed), db.task.state \notin TERMINAL_TASK_STATES,
         NEW S \in SUBSET Steps, S # {}, \A s \in S : db.row[s].live = "no",
         NEW n, n = AddSteps(db, S)
  PROVE  Consistent(n, skewed) /\ StillAtWork(n)
<1>1. db \in Db /\ Agree(db)
  BY DEF Overlap, Recorded, Agree, Live
<1>2. PICK E : E = _compute_dependency_edges(db, S)
  OBVIOUS
<1>3. PICK e \in Db : Added(e, db, S) /\ n = Wire(e, E)
  BY <1>1, <1>2, AddDoes
<1>4. Live(e) = Live(db) \cup S /\ S \cap Live(db) = {}
  BY <1>3 DEF Added, Live
<1>5. E \in SUBSET (Live(e) \X Live(e)) /\ E \cap e.edge = {}
  <2>1. E \in SUBSET (Live(e) \X Live(e))
    BY <1>2, <1>4 DEF _compute_dependency_edges
  <2>2. ASSUME NEW x \in E, x \in e.edge PROVE FALSE
    <3>1. x[1] \in S \/ x[2] \in S
      BY <1>2 DEF _compute_dependency_edges
    <3>2. x[1] \in Live(db) /\ x[2] \in Live(db)
      BY <1>3, <2>2 DEF Added, Consistent, Wellwired
    <3> QED BY <1>4, <3>1, <3>2
  <2> QED BY <2>1, <2>2
<1>6. /\ e.edge = db.edge /\ Completed(e) = Completed(db)
      /\ \A s \in Steps \ S : e.row[s] = db.row[s] /\ e.rec[s] = db.rec[s]
      /\ \A s \in S : /\ e.row[s].live = "yes" /\ e.row[s].state = "PENDING"
                      /\ e.row[s].total = 0 /\ e.row[s].done = 0 /\ e.row[s].ready = "READY"
                      /\ e.rec[s].state = "PENDING"
  <2>1. /\ e.edge = db.edge
        /\ \A s \in Steps \ S : e.row[s] = db.row[s] /\ e.rec[s] = db.rec[s]
        /\ \A s \in S : /\ e.row[s].live = "yes" /\ e.row[s].state = "PENDING"
                        /\ e.row[s].total = 0 /\ e.row[s].done = 0 /\ e.row[s].ready = "READY"
                        /\ e.rec[s].state = "PENDING"
    BY <1>3 DEF Added
  <2>2. \A s \in S : db.row[s].state = "NONE"
    BY DEF Overlap, Recorded
  <2> QED BY <2>1, <2>2 DEF Completed
<1>7. Wellwired(e, skewed)
  <2>1. \A s \in Steps : Prereqs(e, s) = Prereqs(db, s)
    BY <1>6 DEF Prereqs
  <2>2. ASSUME NEW s \in Live(e) \ skewed
        PROVE  Ready(e.row[s], Prereqs(e, s), Prereqs(e, s) \cap Completed(e))
    <3>1. s \in Steps
      BY DEF Live
    <3>2. CASE s \in S
      <4>1. Prereqs(db, s) = {}
        <5>1. ASSUME NEW p \in Prereqs(db, s) PROVE FALSE
          <6>1. <<s, p>> \in db.edge /\ <<s, p>>[1] = s
            BY DEF Prereqs
          <6>2. s \in Live(db)
            BY <6>1 DEF Consistent, Wellwired
          <6> QED BY <1>4, <3>2, <6>2
        <5> QED BY <5>1
      <4>2. Cardinality({}) = 0
        BY FS_EmptySet
      <4> QED BY <1>6, <2>1, <3>1, <3>2, <4>1, <4>2 DEF Ready
    <3>3. CASE s \notin S
      <4>1. s \in Live(db) \ skewed
        BY <1>4, <3>3
      <4> QED BY <1>6, <2>1, <3>1, <3>3, <4>1 DEF Consistent, Wellwired
    <3> QED BY <3>2, <3>3
  <2>3. \A x \in e.edge : x[1] \in Live(e) /\ x[2] \in Live(e)
    BY <1>4, <1>6 DEF Consistent, Wellwired
  <2> QED BY <2>2, <2>3 DEF Wellwired
<1>8. WiredTo(n, e, E)
  <2>1. E \in SUBSET (Steps \X Steps)
    BY <1>2 DEF _compute_dependency_edges
  <2> QED BY <1>3, <2>1, WireDoes
<1>9. Wellwired(n, skewed)
  BY <1>5, <1>7, <1>8, WireKeepsTrue
<1>10. /\ Live(n) = Live(e) /\ n.task = e.task /\ n.rec = e.rec
       /\ \A s \in Steps : n.row[s].state = e.row[s].state
  BY <1>8 DEF WiredTo, Counts, Live
<1>11. Follows(n)
  <2>1. n.task.state = IF db.task.state = "PENDING" THEN "ASSIGNED"
                       ELSE IF db.task.state = "READY" THEN "WORKING" ELSE db.task.state
    BY <1>3, <1>10 DEF Added
  <2>2. \A s \in Live(n) : /\ s \in Steps
                           /\ s \in S => n.row[s].state = "PENDING"
                           /\ s \notin S => s \in Live(db) /\ n.row[s].state = db.row[s].state
    BY <1>4, <1>6, <1>10 DEF Live
  <2>3. PICK s \in S : s \in Live(n) /\ n.row[s].state \notin TERMINAL_STEP_STATES
    BY <1>4, <1>10, <2>2 DEF TERMINAL_STEP_STATES
  <2>4. Live(db) \subseteq Live(n) /\ Follows(db)
    BY <1>4, <1>10 DEF Consistent
  <2> QED BY <2>1, <2>2, <2>3, <2>4 DEF Follows
<1>12. AtWork(n) = AtWork(db) /\ \A s \in AtWork(n) : n.rec[s] = db.rec[s]
  <2>1. ASSUME NEW s \in Steps
        PROVE  /\ s \in AtWork(n) <=> s \in AtWork(db)
               /\ s \in AtWork(n) => n.rec[s] = db.rec[s]
    <3>1. CASE s \in S
      BY <1>4, <1>6, <1>10, <3>1 DEF AtWork
    <3>2. CASE s \notin S
      BY <1>4, <1>6, <1>10, <3>2 DEF AtWork
    <3> QED BY <3>1, <3>2
  <2> QED BY <2>1 DEF AtWork, Live
<1> QED BY <1>9, <1>11, <1>12 DEF Consistent, StillAtWork

\* Removed steps take their edges and what these counted along.
LEMMA RemoveConsistent ==
  ASSUME Overlap, Consistent(db, skewed), NEW S \in SUBSET Live(db), S # {},
         NEW n, n = _remove_task_steps_in_session(db, S)
  PROVE  Consistent(n, skewed) /\ StillAtWork(n)
<1>1. db \in Db /\ Agree(db) /\ S \in SUBSET Steps
  BY DEF Overlap, Recorded, Agree, Live
<1>2. Removed(n, db, S)
  BY <1>1, RemovedIs
<1>3. /\ n \in Db /\ n.edge = {x \in db.edge : x[1] \notin S /\ x[2] \notin S}
      /\ \A s \in Steps : /\ s \in S => n.row[s].live = "deleted" /\ n.row[s].state = "SKIPPED"
                          /\ s \notin S => /\ n.row[s].live = db.row[s].live
                                           /\ n.row[s].state = db.row[s].state
                                           /\ n.rec[s] = db.rec[s]
  BY <1>2 DEF Removed, Counts
<1>4. Live(n) = Live(db) \ S
  BY <1>3 DEF Live
<1>5. Completed(n) = Completed(db) \ S
  BY <1>3 DEF Completed
<1>6. ASSUME NEW s \in Live(n) \ skewed
      PROVE  Ready(n.row[s], Prereqs(n, s), Prereqs(n, s) \cap Completed(n))
  <2>1. PICK P, N, D : P = Prereqs(db, s) /\ N = P \cap S /\ D = Completed(db)
    OBVIOUS
  <2>2. s \in Steps /\ s \notin S /\ s \in Live(db) /\ Ready(db.row[s], P, P \cap D)
    BY <1>4, <2>1 DEF Consistent, Wellwired, Live
  <2>3. Prereqs(n, s) = P \ N
    <3>1. \A p \in Steps : <<s, p>>[1] = s /\ <<s, p>>[2] = p
      OBVIOUS
    <3>2. \A p \in Steps : <<s, p>> \in n.edge <=> <<s, p>> \in db.edge /\ p \notin S
      BY <1>3, <2>2, <3>1
    <3> QED BY <2>1, <3>2 DEF Prereqs
  <2>4. P \in SUBSET Steps /\ N \in SUBSET P /\ N \cap D \in SUBSET (P \cap D) /\ P \cap D \in SUBSET Steps
    BY <2>1 DEF Prereqs
  <2>5. (P \ N) \cap Completed(n) = (P \cap D) \ (N \cap D)
    BY <1>5, <2>1
  <2>6. /\ Max0(Cardinality(P) - Cardinality(N)) = Cardinality(P \ N)
        /\ Max0(Cardinality(P \cap D) - Cardinality(N \cap D)) = Cardinality((P \cap D) \ (N \cap D))
    BY <2>4, CardTaken
  <2>7. CASE N = {}
    <3>1. n.row[s] = db.row[s]
      BY <1>2, <2>1, <2>2, <2>7 DEF Removed
    <3>2. P \ N = P /\ (P \cap D) \ (N \cap D) = P \cap D
      BY <2>7
    <3> QED BY <2>2, <2>3, <2>5, <3>1, <3>2
  <2>8. CASE N # {}
    <3>1. PICK total, done : /\ total = Max0(db.row[s].total - Cardinality(N))
                             /\ done = Max0(db.row[s].done - Cardinality(N \cap D))
      OBVIOUS
    <3>2. Counts(n.row[s], db.row[s], total, Clamp(done, total))
      BY <1>2, <2>1, <2>2, <2>8, <3>1 DEF Removed
    <3>3. total = Cardinality(P \ N) /\ done = Cardinality((P \cap D) \ (N \cap D))
      BY <2>2, <2>6, <3>1 DEF Ready
    <3>4. (P \cap D) \ (N \cap D) \in SUBSET (P \ N) /\ P \ N \in SUBSET Steps
      BY <2>4
    <3>5. /\ done <= total /\ done \in Nat /\ total \in Nat
      BY <3>3, <3>4, CardTaken, CardIsNat
    <3>6. Clamp(done, total) = done
      BY <3>5 DEF Clamp
    <3>7. n.row[s] \in Row
      BY <1>3, <2>2 DEF Db
    <3>8. Ready(n.row[s], P \ N, (P \cap D) \ (N \cap D))
      BY <3>2, <3>3, <3>4, <3>6, <3>7, TrueReadiness DEF Counts
    <3> QED BY <2>3, <2>5, <3>8
  <2> QED BY <2>7, <2>8
<1>7. \A x \in n.edge : x[1] \in Live(n) /\ x[2] \in Live(n)
  BY <1>3, <1>4 DEF Consistent, Wellwired
<1>8. Follows(n)
  <2>1. /\ Live(n) = {} => n.task.state = "PENDING"
        /\ Live(n) # {} =>
             n.task.state = IF /\ db.task.state \notin TERMINAL_TASK_STATES
                               /\ \A s \in Live(n) : n.row[s].state \in TERMINAL_STEP_STATES
                            THEN "READY" ELSE db.task.state
    BY <1>1, RemovedIs
  <2>2. \A s \in Live(n) : s \in Live(db) /\ n.row[s].state = db.row[s].state
    BY <1>3, <1>4 DEF Live
  <2> QED BY <2>1, <2>2 DEF Consistent, Follows, TERMINAL_TASK_STATES
<1>9. AtWork(n) = AtWork(db) \ S /\ \A s \in AtWork(n) : n.rec[s] = db.rec[s]
  BY <1>3, <1>4 DEF AtWork, Live
<1> QED BY <1>6, <1>7, <1>8, <1>9 DEF Consistent, Wellwired, StillAtWork

\* Edits of the graph move no step.
LEMMA StillConsistent ==
  ASSUME NEW d \in Db, NEW e, NEW sk, NEW more, Consistent(d, sk), Wellwired(e, more),
         e.rec = d.rec, e.task.state = d.task.state,
         \A s \in Steps : e.row[s].live = d.row[s].live /\ e.row[s].state = d.row[s].state
  PROVE  Consistent(e, more)
<1>1. Live(e) = Live(d) /\ \A s \in Live(e) : e.row[s].state = d.row[s].state
  BY DEF Live
<1>2. Follows(e)
  BY <1>1 DEF Consistent, Follows
<1> QED BY <1>2 DEF Consistent

LEMMA AddDependencyConsistent ==
  ASSUME db \in Db, Consistent(db, skewed), NEW s \in Live(db), NEW p \in Live(db), <<s, p>> \notin db.edge,
         NEW n, Depended(n, db, s, p), NEW K, p \in Completed(db) => s \in K
  PROVE  Consistent(n, skewed \cup K)
<1>1. s \in Steps /\ p \in Steps
  BY DEF Live
<1>2. /\ n \in Db /\ n.edge = db.edge \cup {<<s, p>>} /\ n.rec = db.rec /\ n.task = db.task
      /\ \A q \in Steps \ {s} : n.row[q] = db.row[q]
      /\ Counts(n.row[s], db.row[s], db.row[s].total + 1, db.row[s].done)
  BY DEF Depended
<1>3. \A q \in Steps : n.row[q].live = db.row[q].live /\ n.row[q].state = db.row[q].state
  BY <1>2 DEF Counts
<1>4. Live(n) = Live(db) /\ Completed(n) = Completed(db)
  BY <1>3 DEF Live, Completed
<1>5. <<s, p>>[1] = s /\ <<s, p>>[2] = p
  OBVIOUS
<1>6. \A x \in n.edge : x[1] \in Live(n) /\ x[2] \in Live(n)
  BY <1>2, <1>4, <1>5 DEF Consistent, Wellwired
<1>7. \A q \in Steps : Prereqs(n, q) = IF q = s THEN Prereqs(db, s) \cup {p} ELSE Prereqs(db, q)
  BY <1>1, <1>2 DEF Prereqs
<1>8. ASSUME NEW q \in Live(n) \ (skewed \cup K)
      PROVE  Ready(n.row[q], Prereqs(n, q), Prereqs(n, q) \cap Completed(n))
  <2>1. q \in Steps /\ Ready(db.row[q], Prereqs(db, q), Prereqs(db, q) \cap Completed(db))
    BY <1>4 DEF Consistent, Wellwired, Live
  <2>2. CASE q # s
    BY <1>2, <1>4, <1>7, <2>1, <2>2
  <2>3. CASE q = s
    <3>1. PICK P, D : P = Prereqs(db, s) /\ D = Completed(db)
      OBVIOUS
    <3>2. P \in SUBSET Steps /\ {p} \in SUBSET Steps /\ P \cap {p} = {} /\ p \notin D
      BY <1>1, <2>3, <3>1 DEF Prereqs
    <3>3. Cardinality(P \cup {p}) = Cardinality(P) + 1
      <4>1. Cardinality(P \cup {p}) = Cardinality(P) + Cardinality({p})
        BY <3>2, CardApart
      <4> QED BY <4>1, FS_Singleton
    <3>4. (P \cup {p}) \cap D = P \cap D
      BY <3>2
    <3>5. /\ n.row[s] = recalculate_readiness(n.row[s]) /\ n.row[s] \in Row
          /\ n.row[s].total = Cardinality(P \cup {p}) /\ n.row[s].done = Cardinality(P \cap D)
      BY <1>1, <1>2, <2>1, <2>3, <3>1, <3>3 DEF Counts, Ready, Db
    <3>6. Ready(n.row[s], P \cup {p}, P \cap D)
      <4>1. P \cup {p} \in SUBSET Steps /\ P \cap D \in SUBSET (P \cup {p})
        BY <3>2
      <4> QED BY <3>5, <4>1, TrueReadiness
    <3> QED BY <1>4, <1>7, <2>1, <2>3, <3>1, <3>4, <3>6
  <2> QED BY <2>2, <2>3
<1>9. Wellwired(n, skewed \cup K)
  BY <1>6, <1>8 DEF Wellwired
<1> QED BY <1>2, <1>3, <1>9, StillConsistent

LEMMA RemoveDependencyConsistent ==
  ASSUME db \in Db, Consistent(db, skewed), NEW s \in Steps, NEW p \in Steps, <<s, p>> \in db.edge,
         NEW n, Unwired(n, db, {<<s, p>>}), NEW K, p \in Completed(db) => s \in K
  PROVE  Consistent(n, skewed \cup K)
<1>1. PICK E : E = {<<s, p>>}
  OBVIOUS
<1>2. E \in SUBSET db.edge /\ \A x \in E : x[2] \in Completed(db) => x[1] \in skewed \cup K
  BY <1>1
<1>3. Unwired(n, db, E) /\ Wellwired(db, skewed) /\ skewed \subseteq skewed \cup K
  BY <1>1 DEF Consistent
<1>4. Wellwired(n, skewed \cup K)
  BY <1>2, <1>3, UnwireKeepsTrue
<1>5. /\ n.rec = db.rec /\ n.task.state = db.task.state
      /\ \A q \in Steps : n.row[q].live = db.row[q].live /\ n.row[q].state = db.row[q].state
  BY DEF Unwired, Counts
<1> QED BY <1>4, <1>5, StillConsistent

LEMMA SectionConsistent ==
  ASSUME db \in Db, Consistent(db, skewed), NEW c \in Sections, NEW P \in SUBSET Sections,
         NEW cut \in Db, NEW wired \in Db, NEW n \in Db,
         Unwired(cut, db, Lost(c, P)), WiredTo(wired, cut, Gains(c, P, cut)),
         Stamped(n, wired)
  PROVE  /\ Consistent(n, skewed \cup Shaken(c, P)) /\ n.task = db.task /\ n.rec = db.rec
         /\ Live(n) = Live(db)
<1>1. PICK E, G, more : E = Lost(c, P) /\ G = Gains(c, P, cut) /\ more = skewed \cup Shaken(c, P)
  OBVIOUS
<1>2. /\ E \in SUBSET db.edge /\ skewed \subseteq more
      /\ \A x \in E : x[2] \in Completed(db) => x[1] \in more
  BY <1>1 DEF Lost, Shaken
<1>3. Wellwired(cut, more)
  <2>1. Unwired(cut, db, E) /\ Wellwired(db, skewed)
    BY <1>1 DEF Consistent
  <2> QED BY <1>2, <2>1, UnwireKeepsTrue
<1>4. /\ cut.rec = db.rec /\ cut.task = db.task
      /\ \A s \in Steps : cut.row[s].live = db.row[s].live /\ cut.row[s].state = db.row[s].state
  BY DEF Unwired, Counts
<1>5. Live(cut) = Live(db)
  BY <1>4 DEF Live
<1>6. G \in SUBSET (Live(cut) \X Live(cut)) /\ G \cap cut.edge = {}
  BY <1>1, <1>5 DEF Gains, OpenSteps
<1>7. WiredTo(wired, cut, G)
  BY <1>1
<1>8. Wellwired(wired, more)
  BY <1>3, <1>6, <1>7, WireKeepsTrue
<1>9. /\ wired.rec = cut.rec /\ wired.task = cut.task
      /\ \A s \in Steps : wired.row[s].live = cut.row[s].live /\ wired.row[s].state = cut.row[s].state
  BY <1>7 DEF WiredTo, Counts
<1>10. /\ n.rec = wired.rec /\ n.edge = wired.edge /\ n.task = wired.task
       /\ \A s \in Steps :
            /\ n.row[s].live = wired.row[s].live /\ n.row[s].state = wired.row[s].state
            /\ n.row[s].total = wired.row[s].total /\ n.row[s].done = wired.row[s].done
            /\ n.row[s].ready = wired.row[s].ready
  BY DEF Stamped
<1>11. Wellwired(n, more)
  <2>1. Live(n) = Live(wired) /\ Completed(n) = Completed(wired) /\ more \subseteq more
    BY <1>10 DEF Live, Completed
  <2> QED BY <1>8, <1>10, <2>1, StillWellwired
<1>12. Consistent(n, more)
  <2>1. /\ n.rec = db.rec /\ n.task.state = db.task.state
        /\ \A s \in Steps : n.row[s].live = db.row[s].live /\ n.row[s].state = db.row[s].state
    BY <1>4, <1>9, <1>10
  <2> QED BY <1>11, <2>1, StillConsistent
<1>13. Live(n) = Live(db)
  BY <1>4, <1>9, <1>10 DEF Live
<1> QED BY <1>1, <1>4, <1>9, <1>10, <1>12, <1>13

\* A plan written to the tables it was computed from becomes the tables.
LEMMA FreshMerge ==
  ASSUME db \in Db, NEW p \in Plans, Fresh(p)
  PROVE  Merge(p) = p.new
<1>1. p.was = db /\ p.new \in Db /\ p.opens \subseteq Steps
  BY DEF Fresh, Plans
<1>2. PICK m, n : m = Merge(p) /\ n = p.new
  OBVIOUS
<1>3. ASSUME NEW s \in Steps PROVE MergeRow(db.row[s], db.row[s], n.row[s]) = n.row[s]
  <2>1. PICK r, q \in Row : r = db.row[s] /\ q = n.row[s]
    BY <1>1, <1>2 DEF Db
  <2>2. MergeRow(r, r, q) = q
    BY DEF MergeRow, Col, Row
  <2> QED BY <2>1, <2>2
<1>4. m.row = n.row
  <2>1. m.row = [s \in Steps |-> MergeRow(db.row[s], p.was.row[s], p.new.row[s])]
    BY <1>2 DEF Merge
  <2>2. \A s \in Steps : m.row[s] = n.row[s]
    BY <1>1, <1>2, <1>3, <2>1
  <2>3. n.row \in [Steps -> Row]
    BY <1>1, <1>2 DEF Db
  <2> QED BY <2>1, <2>2, <2>3
<1>5. m.rec = n.rec
  <2>1. m.rec = [s \in Steps |-> IF s \in p.opens THEN p.new.rec[s]
                                 ELSE IF s \in p.closes THEN NoRec ELSE db.rec[s]]
    BY <1>2 DEF Merge
  <2>2. \A s \in Steps : m.rec[s] = n.rec[s]
    BY <1>2, <2>1 DEF Fresh
  <2>3. n.rec \in [Steps -> Rec]
    BY <1>1, <1>2 DEF Db
  <2> QED BY <2>1, <2>2, <2>3
<1>6. m.task = n.task
  <2>1. m.task = [state |-> Col(db.task.state, p.was.task.state, p.new.task.state),
                  deleted |-> db.task.deleted]
    BY <1>2 DEF Merge
  <2>2. n.task \in [state: TaskStates, deleted: BOOLEAN] /\ n.task.deleted = db.task.deleted
    BY <1>1, <1>2 DEF Db, Fresh
  <2> QED BY <1>1, <1>2, <2>1, <2>2 DEF Col
<1>7. m.edge = n.edge /\ m.wiring = n.wiring /\ m.batching = n.batching
  BY <1>1, <1>2 DEF Merge
<1>8. m = [task |-> m.task, row |-> m.row, rec |-> m.rec, edge |-> m.edge, wiring |-> m.wiring,
             batching |-> m.batching]
  BY <1>2 DEF Merge
<1>9. n = [task |-> n.task, row |-> n.row, rec |-> n.rec, edge |-> n.edge, wiring |-> n.wiring,
             batching |-> n.batching]
  BY <1>1, <1>2 DEF Db
<1> QED BY <1>2, <1>4, <1>5, <1>6, <1>7, <1>8, <1>9

\* A command plans a write; the tables stay as they are.
LEMMA ApplySerial ==
  ASSUME Overlap, Serial, NEW t \in Txns, NEW p, Apply(t, p),
         ~raced => Sound(p)
  PROVE  Serial'
<1> SUFFICES ASSUME ~raced'
             PROVE  /\ Consistent(db, skewed)' /\ Single(db, excused)'
                    /\ \A u \in Txns : job'[u] # None => (Current(job[u]) /\ Movable(job[u], db))'
                    /\ \A u \in Txns : plan'[u] # None => Sound(plan[u])'
  BY DEF Serial
<1>1. /\ plan' = [plan EXCEPT ![t] = p] /\ job' = [job EXCEPT ![t] = None]
      /\ db' = db /\ races' = races /\ skewed' = skewed /\ excused' = excused
  BY DEF Apply
<1>2. ~raced
  BY <1>1 DEF raced
<1>3. Consistent(db, skewed)' /\ Single(db, excused)'
  BY <1>1, <1>2 DEF Serial, Consistent, Single
<1>4. ASSUME NEW u \in Txns, job'[u] # None
      PROVE  (Current(job[u]) /\ Movable(job[u], db))'
  <2>1. job'[u] = job[u]
    BY <1>1, <1>4 DEF Overlap
  <2>2. Current(job[u]) /\ Movable(job[u], db)
    BY <1>2, <1>4, <2>1 DEF Serial
  <2> QED BY <1>1, <2>1, <2>2 DEF Current, Movable
<1>5. ASSUME NEW u \in Txns, plan'[u] # None
      PROVE  Sound(plan[u])'
  <2>1. plan'[u] = IF u = t THEN p ELSE plan[u]
    BY <1>1 DEF Overlap
  <2>2. PICK q : q = plan'[u]
    OBVIOUS
  <2>3. Sound(q)
    BY <1>2, <1>5, <2>1, <2>2 DEF Serial
  <2> QED BY <1>1, <2>2, <2>3 DEF Sound, Fresh, Consistent, Single
<1> QED BY <1>3, <1>4, <1>5

\* A session that commits while others are under way races; alone, it leaves nobody's
\* reading behind.
LEMMA AloneWhenSerial ==
  ASSUME Overlap, NEW t \in Txns, ~raced',
         races' = IF Others(t) # {} THEN races + 1 ELSE races
  PROVE  ~raced /\ \A u \in Txns \ {t} : job[u] = None /\ plan[u] = None
<1>1. races \in Nat /\ ~(races' > 0)
  BY DEF Overlap, raced
<1>2. Others(t) = {} /\ ~raced
  BY <1>1 DEF raced
<1> QED BY <1>2 DEF Others, Busy

LEMMA CommitSerial == ASSUME Overlap, Serial, NEW t \in Txns, Commit(t) PROVE Serial'
<1> SUFFICES ASSUME ~raced'
             PROVE  /\ Consistent(db, skewed)' /\ Single(db, excused)'
                    /\ \A u \in Txns : job'[u] = None /\ plan'[u] = None
  BY DEF Serial
<1>1. ~raced /\ \A u \in Txns \ {t} : job[u] = None /\ plan[u] = None
  BY AloneWhenSerial DEF Commit
<1>2. \A u \in Txns : job'[u] = None /\ plan'[u] = None
  BY <1>1 DEF Commit, Ended, Overtaken
<1>3. PICK p : p = plan[t]
  OBVIOUS
<1>4. p \in Plans /\ Sound(p) /\ db \in Db
  BY <1>1, <1>3 DEF Commit, Serial, Overlap
<1>5. Merge(p) = p.new
  BY <1>4, FreshMerge DEF Sound
<1>6. db' = p.new /\ skewed' = skewed \cup p.skew /\ excused' = excused \cup Excuses(p)
  BY <1>3, <1>5 DEF Commit
<1>7. Consistent(p.new, skewed \cup p.skew) /\ Single(p.new, excused \cup Excuses(p))
  BY <1>4 DEF Sound
<1>8. Consistent(db, skewed)' /\ Single(db, excused)'
  BY <1>6, <1>7 DEF Consistent, Single
<1> QED BY <1>2, <1>8

LEMMA RollbackSerial == ASSUME Overlap, Serial, NEW t \in Txns, Rollback(t) PROVE Serial'
<1> SUFFICES ASSUME ~raced'
             PROVE  /\ Consistent(db, skewed)' /\ Single(db, excused)'
                    /\ \A u \in Txns : job'[u] # None => (Current(job[u]) /\ Movable(job[u], db))'
                    /\ \A u \in Txns : plan'[u] # None => Sound(plan[u])'
  BY DEF Serial
<1>1. /\ plan' = [plan EXCEPT ![t] = None] /\ job' = Ended(t, {})
      /\ db' = db /\ races' = races /\ skewed' = skewed /\ excused' = excused
  BY DEF Rollback
<1>2. ~raced
  BY <1>1 DEF raced
<1>3. Consistent(db, skewed)' /\ Single(db, excused)'
  BY <1>1, <1>2 DEF Serial, Consistent, Single
<1>4. ASSUME NEW u \in Txns, job'[u] # None
      PROVE  (Current(job[u]) /\ Movable(job[u], db))'
  <2>1. PICK i, j : i = job[u] /\ j = job'[u]
    OBVIOUS
  <2>2. /\ i # None /\ j.steps = i.steps /\ j.row = i.row /\ j.task = i.task /\ j.new = i.new
        /\ j.by = i.by /\ j.credit = i.credit
    <3>1. j = Ended(t, {})[u]
      BY <1>1, <2>1
    <3>2. {} \in SUBSET Steps /\ job \in [Txns -> Jobs \cup {None}]
      BY DEF Overlap
    <3> QED BY <1>4, <2>1, <3>1, <3>2, EndedKeeps
  <2>3. Current(i) /\ Movable(i, db)
    BY <1>2, <2>1, <2>2 DEF Serial
  <2>4. Current(j) /\ Movable(j, db)
    BY <2>2, <2>3 DEF Current, Movable
  <2> QED BY <1>1, <2>1, <2>4 DEF Current, Movable
<1>5. ASSUME NEW u \in Txns, plan'[u] # None
      PROVE  Sound(plan[u])'
  <2>1. PICK q : q = plan'[u]
    OBVIOUS
  <2>2. q = plan[u] /\ Sound(q)
    BY <1>1, <1>2, <1>5, <2>1 DEF Serial, Overlap
  <2> QED BY <1>1, <2>1, <2>2 DEF Sound, Fresh, Consistent, Single
<1> QED BY <1>3, <1>4, <1>5

LEMMA PauseSerial ==
  ASSUME Overlap, Serial, NEW t \in Txns, NEW deleted \in BOOLEAN, Free(t),
         pause_task_working_steps_in_session(t, deleted)
  PROVE  Serial'
<1> SUFFICES ASSUME ~raced'
             PROVE  /\ Consistent(db, skewed)' /\ Single(db, excused)'
                    /\ \A u \in Txns : job'[u] = None /\ plan'[u] = None
  BY DEF Serial
<1>1. ~raced /\ \A u \in Txns \ {t} : job[u] = None /\ plan[u] = None
  BY AloneWhenSerial DEF pause_task_working_steps_in_session
<1>2. plan[t] = None /\ job[t] = None
  BY DEF Free, Busy
<1>3. \A u \in Txns : job'[u] = None /\ plan'[u] = None
  BY <1>1, <1>2 DEF pause_task_working_steps_in_session, Ended, Overtaken
<1>4. PICK e : e = Enter(db, AtWork(db), "PAUSED", "nobody", "nobody")
  OBVIOUS
<1>5. /\ AtWork(db) \in SUBSET Steps /\ "PAUSED" \in StepStates /\ "nobody" \in People /\ db \in Db
      /\ AtWork(db) \in SUBSET AtWork(db) /\ Agree(db) /\ Consistent(db, skewed)
  BY <1>1 DEF AtWork, Live, StepStates, People, Overlap, Recorded, Agree, Serial
<1>6. Entered(e, db, AtWork(db), "PAUSED", "nobody", "nobody")
  BY <1>4, <1>5, EnterDoes
<1>7. Consistent(e, skewed) /\ e \in Db /\ AtWork(e) = {}
  <2>1. PICK P \in SUBSET AtWork(db) : P = AtWork(db)
    OBVIOUS
  <2>2. Entered(e, db, P, "PAUSED", "nobody", "nobody")
    BY <1>6, <2>1
  <2>3. Consistent(e, skewed)
    BY <1>5, <2>2, PausingKeeps
  <2>4. AtWork(e) = AtWork(db) \ P
    BY <1>5, <2>2, PausingKeeps
  <2> QED BY <1>6, <2>1, <2>3, <2>4 DEF Entered
<1>8. PICK n : n = [e EXCEPT !.task.deleted = deleted]
  BY <1>7 DEF Db
<1>9. /\ n.row = e.row /\ n.rec = e.rec /\ n.edge = e.edge /\ n.task.state = e.task.state
  BY <1>7, <1>8 DEF Db
<1>10. Consistent(n, skewed)
  <2>1. Wellwired(e, skewed)
    BY <1>7 DEF Consistent
  <2>2. Live(n) = Live(e) /\ Completed(n) = Completed(e) /\ skewed \subseteq skewed
    BY <1>9 DEF Live, Completed
  <2>3. Wellwired(n, skewed)
    BY <1>9, <2>1, <2>2, StillWellwired
  <2> QED BY <1>7, <1>9, <2>3, StillConsistent
<1>11. /\ db' = n /\ skewed' = skewed /\ excused' = excused
  BY <1>4, <1>8 DEF pause_task_working_steps_in_session
<1>12. Consistent(db, skewed)' /\ Single(db, excused)'
  <2>1. AtWork(n) = {}
    BY <1>7, <1>9 DEF AtWork, Live
  <2> QED BY <1>10, <1>11, <2>1 DEF Consistent, Single, Alone
<1> QED BY <1>3, <1>12

\* A state command loads what it is about to move.
LEMMA LoadSerial ==
  ASSUME Overlap, Serial, NEW t \in Txns, NEW S \in SUBSET Steps, NEW rows \in SUBSET Live(db),
         NEW st \in StepStates, NEW by \in People, NEW credit \in People,
         st # "SKIPPED" => S # {} /\ \A s \in S : st \in _ALLOWED_TRANSITIONS[db.row[s].state],
         st = "SKIPPED" => S = {s \in Live(db) : db.row[s].state \notin TERMINAL_STEP_STATES},
         Load(t, S, rows, st, by, credit)
  PROVE  Serial'
<1> DEFINE row == [s \in rows |-> db.row[s]]
           j == [steps |-> S, row |-> row, task |-> db.task, new |-> st, by |-> by,
                 credit |-> credit, after |-> Others(t), late |-> {}]
<1> SUFFICES ASSUME ~raced'
             PROVE  /\ Consistent(db, skewed)' /\ Single(db, excused)'
                    /\ \A u \in Txns : job'[u] # None => (Current(job[u]) /\ Movable(job[u], db))'
                    /\ \A u \in Txns : plan'[u] # None => Sound(plan[u])'
  BY DEF Serial
<1>1. /\ job' = [job EXCEPT ![t] = j]
      /\ db' = db /\ plan' = plan /\ races' = races /\ skewed' = skewed /\ excused' = excused
  BY DEF Load
<1>2. ~raced
  BY <1>1 DEF raced
<1>3. Consistent(db, skewed)' /\ Single(db, excused)'
  BY <1>1, <1>2 DEF Serial, Consistent, Single
<1>4. Current(j)
  BY DEF Current
<1>5. /\ j.new # "SKIPPED" => /\ j.steps # {}
                              /\ \A s \in j.steps : j.new \in _ALLOWED_TRANSITIONS[db.row[s].state]
      /\ j.new = "SKIPPED" =>
           j.steps = {s \in Live(db) : db.row[s].state \notin TERMINAL_STEP_STATES}
  BY <1>1
<1> HIDE DEF row, j
<1>6. ASSUME NEW u \in Txns, job'[u] # None
      PROVE  (Current(job[u]) /\ Movable(job[u], db))'
  <2>1. CASE u = t
    <3>1. job'[u] = j
      BY <1>1, <2>1 DEF Overlap
    <3> QED BY <1>1, <1>4, <1>5, <3>1 DEF Current, Movable
  <2>2. CASE u # t
    <3>1. job'[u] = job[u]
      BY <1>1, <2>2 DEF Overlap
    <3>2. Current(job[u]) /\ Movable(job[u], db)
      BY <1>2, <1>6, <3>1 DEF Serial
    <3> QED BY <1>1, <3>1, <3>2 DEF Current, Movable
  <2> QED BY <2>1, <2>2
<1>7. ASSUME NEW u \in Txns, plan'[u] # None
      PROVE  Sound(plan[u])'
  <2>1. PICK q : q = plan[u]
    OBVIOUS
  <2>2. Sound(q)
    BY <1>1, <1>2, <1>7, <2>1 DEF Serial
  <2> QED BY <1>1, <2>1, <2>2 DEF Sound, Fresh, Consistent, Single
<1> QED BY <1>3, <1>6, <1>7

LEMMA LoadsSerial ==
  ASSUME Overlap, Serial, NEW t \in Txns,
         \/ \E s \in Steps, st \in Asked, by \in People, credit \in People :
              LoadForTransition(t, s, st, by, credit)
         \/ \E S \in SUBSET Steps, st \in Asked, by \in People : LoadForBatch(t, S, st, by)
         \/ LoadForForce(t)
  PROVE  Serial'
<1>1. Asked \subseteq StepStates
  BY StepsAssumption
<1>2. \A s \in Live(db) : s \in Steps /\ db.row[s].state \in StepStates
  BY DEF Live, Overlap, Recorded
<1>3. ASSUME NEW s \in Steps, NEW st \in Asked, NEW by \in People, NEW credit \in People,
             LoadForTransition(t, s, st, by, credit)
      PROVE  Serial'
  <2>1. s \in Live(db) /\ st \in _ALLOWED_TRANSITIONS[db.row[s].state] /\ Load(t, {s}, {s}, st, by, credit)
    BY <1>3 DEF LoadForTransition
  <2>2. st \in StepStates /\ st # "SKIPPED"
    BY <1>1, <1>2, <2>1, AllowedMoves
  <2>3. {s} \in SUBSET Steps /\ {s} \in SUBSET Live(db) /\ {s} # {}
    BY <2>1
  <2> QED BY <2>1, <2>2, <2>3, LoadSerial
<1>4. ASSUME NEW S \in SUBSET Steps, NEW st \in Asked, NEW by \in People, LoadForBatch(t, S, st, by)
      PROVE  Serial'
  <2>1. /\ S # {} /\ S \subseteq Live(db) /\ Load(t, S, S, st, by, by)
        /\ \A s \in S : st \in _ALLOWED_TRANSITIONS[db.row[s].state]
    BY <1>4 DEF LoadForBatch
  <2>2. st \in StepStates /\ st # "SKIPPED"
    BY <1>1, <1>2, <2>1, AllowedMoves
  <2>3. S \in SUBSET Steps /\ S \in SUBSET Live(db)
    BY <1>1, <2>1
  <2> QED BY <2>1, <2>2, <2>3, LoadSerial
<1>5. CASE LoadForForce(t)
  <2>1. PICK S : S = {s \in Live(db) : db.row[s].state \notin TERMINAL_STEP_STATES}
    OBVIOUS
  <2>2. Load(t, S, Live(db), "SKIPPED", "nobody", "nobody")
    BY <1>5, <2>1 DEF LoadForForce
  <2>3. "SKIPPED" \in StepStates /\ "nobody" \in People /\ Live(db) \in SUBSET Live(db)
    BY DEF StepStates, People
  <2>4. S \in SUBSET Steps
    BY <1>2, <2>1
  <2> QED BY <2>1, <2>2, <2>3, <2>4, LoadSerial
<1> QED BY <1>3, <1>4, <1>5

LEMMA ViewIsCommitted ==
  ASSUME Overlap, NEW t \in Txns, job[t] # None, Current(job[t])
  PROVE  View(job[t]) = db
<1>1. PICK v : v = View(job[t])
  OBVIOUS
<1>2. /\ v \in Db /\ v.rec = db.rec /\ v.edge = db.edge /\ v.wiring = db.wiring /\ v.batching = db.batching
      /\ v.task = db.task /\ db \in Db
      /\ \A s \in Steps : v.row[s] = db.row[s]
  BY <1>1, ViewIs DEF Current, Overlap
<1>3. v.row = db.row
  <2>1. v.row \in [Steps -> Row] /\ db.row \in [Steps -> Row]
    BY <1>2 DEF Db
  <2> QED BY <1>2, <2>1
<1>4. v = [task |-> v.task, row |-> v.row, rec |-> v.rec, edge |-> v.edge, wiring |-> v.wiring,
             batching |-> v.batching]
  BY <1>2 DEF Db
<1>5. db = [task |-> db.task, row |-> db.row, rec |-> db.rec, edge |-> db.edge, wiring |-> db.wiring,
              batching |-> db.batching]
  BY <1>2 DEF Db
<1> QED BY <1>1, <1>2, <1>3, <1>4, <1>5

LEMMA SoundPlan ==
  ASSUME db \in Db, NEW n \in Db, NEW opens \in SUBSET Steps, NEW closes \in SUBSET Steps,
         NEW skew \in SUBSET Steps, NEW p, p = Plan(db, n, opens, closes, skew),
         n.task.deleted = db.task.deleted, Consistent(n, skewed \cup skew),
         Single(n, excused \cup Excuses(p)),
         \A s \in Steps \ opens : n.rec[s] = IF s \in closes THEN NoRec ELSE db.rec[s]
  PROVE  Sound(p)
<1>1. p.was = db /\ p.new = n /\ p.opens = opens /\ p.closes = closes /\ p.skew = skew
  BY PlanIs
<1> QED BY <1>1 DEF Sound, Fresh

LEMMA NoMoreSkew == skewed \cup {} = skewed
OBVIOUS

LEMMA TransitionSerial ==
  ASSUME Overlap, Serial, NEW t \in Txns, transition_step_state(t)
  PROVE  Serial'
<1>1. PICK j, v : j = job[t] /\ v = View(j)
  OBVIOUS
<1>2. PICK P \in SUBSET Conflicts(j, v) :
        /\ j # None /\ j.new # "SKIPPED"
        /\ Conflicts(j, v) # {} => Cardinality(P) = 1
        /\ Apply(t, Plan(v, _apply_step_transition(Enter(v, P, "PAUSED", j.by, j.by),
                                                   j.steps, j.new, j.by, j.credit),
                         j.steps \cup P, {}, {}))
  <2>1. /\ job[t] # None /\ job[t].new # "SKIPPED" /\ UNCHANGED edits
        /\ \E P \in SUBSET Conflicts(job[t], View(job[t])) :
             /\ IF Conflicts(job[t], View(job[t])) = {} THEN P = {} ELSE Cardinality(P) = 1
             /\ Closable(job[t], job[t].steps \cup P)
             /\ Apply(t, Plan(View(job[t]),
                              _apply_step_transition(Enter(View(job[t]), P, "PAUSED", job[t].by, job[t].by),
                                                     job[t].steps, job[t].new, job[t].by, job[t].credit),
                              job[t].steps \cup P, {}, {}))
    BY Zenon DEF transition_step_state, Conflicts
  <2> QED BY <1>1, <2>1
<1>3. PICK e0, e, p : /\ e0 = Enter(v, P, "PAUSED", j.by, j.by)
                      /\ e = _apply_step_transition(e0, j.steps, j.new, j.by, j.credit)
                      /\ p = Plan(v, e, j.steps \cup P, {}, {})
  OBVIOUS
<1>4. ASSUME ~raced PROVE Sound(p)
  <2>1. Consistent(db, skewed) /\ Single(db, excused) /\ Current(j) /\ Movable(j, db)
    BY <1>1, <1>2, <1>4 DEF Serial
  <2>2. v = db /\ db \in Db
    BY <1>1, <1>2, <2>1, ViewIsCommitted DEF Overlap
  <2>3. /\ Askable(j) /\ j.new \in StepStates /\ j.steps \in SUBSET Steps
        /\ j.by \in People /\ j.credit \in People /\ "PAUSED" \in StepStates
    BY <1>1, <1>2 DEF Overlap, Jobs, StepStates
  <2>4. j.steps \subseteq Live(db)
    BY <2>1, <2>3 DEF Askable, Current, Live
  <2>5. Consistent(e, skewed) /\ Single(e, excused \cup Excuses(p))
    <3>1. P \in SUBSET Conflicts(j, db) /\ (Conflicts(j, db) # {} => Cardinality(P) = 1)
      BY <1>2, <2>2
    <3>2. e = _apply_step_transition(Enter(db, P, "PAUSED", j.by, j.by), j.steps, j.new,
                                     j.by, j.credit)
      BY <1>3, <2>2
    <3>3. p.was = db /\ p.new = e /\ j.steps \subseteq p.opens
      BY <1>3, <2>2 DEF Plan
    <3>4. \A s \in j.steps : ~db.row[s].batch => j.steps = {s}
      BY <1>2, <2>1, <2>3 DEF Askable, Current
    <3> QED BY <1>2, <2>1, <2>3, <2>4, <3>1, <3>2, <3>3, <3>4, TransitionConsistent
  <2>6. P \in SUBSET Steps
    BY DEF Conflicts, fetch_open_user_working_record, Alone, AtWork, Live
  <2>7. Entered(e0, db, P, "PAUSED", j.by, j.by)
    BY <1>3, <2>2, <2>3, <2>6, EnterDoes
  <2>8. Moved(e, e0, j.steps, j.new, j.by, j.credit)
    <3>1. e0 \in Db
      BY <2>7 DEF Entered
    <3> QED BY <1>3, <2>3, <3>1, TransitionDoes
  <2>9. /\ e \in Db /\ e.task.deleted = db.task.deleted
        /\ \A s \in Steps \ (j.steps \cup P) : e.rec[s] = db.rec[s]
    BY <2>7, <2>8 DEF Entered, Moved
  <2>10. j.steps \cup P \in SUBSET Steps
    BY <2>3, <2>6
  <2> QED BY <1>3, <2>2, <2>5, <2>9, <2>10, SoundPlan, NoMoreSkew
<1> QED BY <1>2, <1>3, <1>4, ApplySerial

LEMMA ForceSerial == ASSUME Overlap, Serial, NEW t \in Txns, force_task_ready(t) PROVE Serial'
<1>1. PICK j, v, m, e : /\ j = job[t] /\ v = View(j)
                        /\ m = _apply_step_transition(v, j.steps, "SKIPPED", j.by, j.credit)
                        /\ e = maybe_evaluate_task_ready(m, TRUE)
  OBVIOUS
<1>2. /\ j # None /\ j.new = "SKIPPED" /\ e.task.state = "READY"
      /\ Apply(t, Plan(v, e, j.steps, {}, {}))
  BY <1>1 DEF force_task_ready
<1>3. PICK p : p = Plan(v, e, j.steps, {}, {})
  OBVIOUS
<1>4. ASSUME ~raced PROVE Sound(p)
  <2>1. Consistent(db, skewed) /\ Single(db, excused) /\ Current(j) /\ Movable(j, db)
    BY <1>1, <1>2, <1>4 DEF Serial
  <2>2. v = db /\ db \in Db
    BY <1>1, <1>2, <2>1, ViewIsCommitted DEF Overlap
  <2>3. /\ "SKIPPED" \in StepStates /\ j.steps \in SUBSET Steps
        /\ j.by \in People /\ j.credit \in People
    BY <1>1, <1>2 DEF Overlap, Jobs, StepStates
  <2>4. /\ j.steps \in SUBSET Live(db)
        /\ \A s \in Live(db) : s \in j.steps <=> db.row[s].state \notin TERMINAL_STEP_STATES
    BY <1>2, <2>1 DEF Movable
  <2>5. Consistent(e, skewed) /\ Single(e, excused \cup Excuses(p))
    <3>1. Consistent(e, skewed) /\ AtWork(e) = {}
      BY <1>1, <1>2, <2>1, <2>2, <2>3, <2>4, ForceConsistent
    <3> QED BY <3>1 DEF Single, Alone
  <2>6. Moved(m, db, j.steps, "SKIPPED", j.by, j.credit)
    BY <1>1, <2>2, <2>3, TransitionDoes
  <2>7. Looked(e, m)
    BY <1>1, <2>6, EvaluateDoes DEF Moved
  <2>8. /\ e \in Db /\ e.task.deleted = db.task.deleted
        /\ \A s \in Steps \ j.steps : e.rec[s] = db.rec[s]
    BY <2>6, <2>7 DEF Moved, Looked, SameButRows
  <2> QED BY <1>3, <2>2, <2>3, <2>5, <2>8, SoundPlan, NoMoreSkew
<1> QED BY <1>2, <1>3, <1>4, ApplySerial

LEMMA AddSerial ==
  ASSUME Overlap, Serial, NEW t \in Txns, NEW S \in SUBSET Steps, add_task_steps(t, S)
  PROVE  Serial'
<1>1. PICK n, p : n = AddSteps(db, S) /\ p = Plan(db, n, S, {}, {})
  OBVIOUS
<1>2. /\ db.task.state \notin TERMINAL_TASK_STATES /\ S # {} /\ \A s \in S : db.row[s].live = "no"
      /\ Apply(t, p)
  BY <1>1 DEF add_task_steps
<1>3. ASSUME ~raced PROVE Sound(p)
  <2>1. Consistent(db, skewed) /\ Single(db, excused) /\ db \in Db
    BY <1>3 DEF Serial, Overlap
  <2>2. Consistent(n, skewed) /\ Single(n, excused \cup Excuses(p))
    <3>1. Consistent(n, skewed) /\ StillAtWork(n)
      BY <1>1, <1>2, <2>1, AddConsistent
    <3>2. p.was = db /\ p.new = n
      BY <1>1 DEF Plan
    <3> QED BY <2>1, <3>1, <3>2, StillSingle
  <2>3. PICK e \in Db : Added(e, db, S) /\ n = Wire(e, _compute_dependency_edges(db, S))
    BY <1>1, <2>1, AddDoes
  <2>4. WiredTo(n, e, _compute_dependency_edges(db, S))
    <3>1. _compute_dependency_edges(db, S) \in SUBSET (Steps \X Steps)
      BY DEF _compute_dependency_edges
    <3> QED BY <2>3, <3>1, WireDoes
  <2>5. n \in Db /\ n.task.deleted = db.task.deleted /\ \A s \in Steps \ S : n.rec[s] = db.rec[s]
    BY <2>3, <2>4 DEF Added, WiredTo
  <2> QED BY <1>1, <2>1, <2>2, <2>5, SoundPlan, NoMoreSkew
<1> QED BY <1>2, <1>3, ApplySerial

LEMMA RemoveSerial ==
  ASSUME Overlap, Serial, NEW t \in Txns, NEW S \in SUBSET Steps, remove_task_steps(t, S)
  PROVE  Serial'
<1>1. PICK n, C, p : /\ n = _remove_task_steps_in_session(db, S)
                     /\ C = {s \in S : db.rec[s] # NoRec}
                     /\ p = Plan(db, n, {}, C, {})
  OBVIOUS
<1>2. S # {} /\ S \in SUBSET Live(db) /\ Apply(t, p)
  BY <1>1 DEF remove_task_steps
<1>3. ASSUME ~raced PROVE Sound(p)
  <2>1. Consistent(db, skewed) /\ Single(db, excused) /\ db \in Db /\ C \in SUBSET Steps
    BY <1>1, <1>3 DEF Serial, Overlap
  <2>2. Consistent(n, skewed) /\ Single(n, excused \cup Excuses(p))
    <3>1. Consistent(n, skewed) /\ StillAtWork(n)
      BY <1>1, <1>2, <2>1, RemoveConsistent
    <3>2. p.was = db /\ p.new = n
      BY <1>1 DEF Plan
    <3> QED BY <2>1, <3>1, <3>2, StillSingle
  <2>3. Removed(n, db, S)
    BY <1>1, <2>1, RemovedIs
  <2>4. \A s \in Steps \ {} : n.rec[s] = IF s \in C THEN NoRec ELSE db.rec[s]
    BY <1>1, <2>3 DEF Removed
  <2>5. n \in Db /\ n.task.deleted = db.task.deleted
    BY <2>3 DEF Removed
  <2>6. {} \in SUBSET Steps
    OBVIOUS
  <2> QED BY <1>1, <2>1, <2>2, <2>4, <2>5, <2>6, SoundPlan, NoMoreSkew
<1> QED BY <1>2, <1>3, ApplySerial

\* A plan that touches no record.
LEMMA StillSound ==
  ASSUME db \in Db, NEW n \in Db, NEW skew \in SUBSET Steps, NEW p, p = Plan(db, n, {}, {}, skew),
         n.task.deleted = db.task.deleted, n.rec = db.rec, Consistent(n, skewed \cup skew),
         Live(n) = Live(db), Single(db, excused)
  PROVE  Sound(p)
<1>1. {} \in SUBSET Steps /\ \A s \in Steps \ {} : n.rec[s] = IF s \in {} THEN NoRec ELSE db.rec[s]
  OBVIOUS
<1>2. Single(n, excused \cup Excuses(p))
  <2>1. StillAtWork(n)
    BY DEF StillAtWork, AtWork
  <2>2. p.was = db /\ p.new = n
    BY DEF Plan
  <2> QED BY <2>1, <2>2, StillSingle
<1> QED BY <1>1, <1>2, SoundPlan

LEMMA AddDependencySerial ==
  ASSUME Overlap, Serial, NEW t \in Txns, NEW s \in Steps, NEW p \in Steps, add_step_dependency(t, s, p)
  PROVE  Serial'
<1>1. PICK n, K, q : /\ n = AddEdge(db, s, p) /\ K = IF p \in Completed(db) THEN {s} ELSE {}
                     /\ q = Plan(db, n, {}, {}, K)
  OBVIOUS
<1>2. /\ s \in Live(db) /\ p \in Live(db) /\ <<s, p>> \notin db.edge
      /\ Apply(t, q)
  BY <1>1 DEF add_step_dependency, AddEdge
<1>3. ASSUME ~raced PROVE Sound(q)
  <2>1. Consistent(db, skewed) /\ Single(db, excused) /\ db \in Db /\ K \in SUBSET Steps
    BY <1>1, <1>3 DEF Serial, Overlap
  <2>2. Depended(n, db, s, p)
    BY <1>1, <2>1, AddEdgeDoes
  <2>3. Consistent(n, skewed \cup K)
    BY <1>1, <1>2, <2>1, <2>2, AddDependencyConsistent
  <2>4. n \in Db /\ n.task.deleted = db.task.deleted /\ n.rec = db.rec /\ Live(n) = Live(db)
    BY <2>2 DEF Depended, Counts, Live
  <2> QED BY <1>1, <2>1, <2>3, <2>4, StillSound
<1> QED BY <1>2, <1>3, ApplySerial

LEMMA RemoveDependencySerial ==
  ASSUME Overlap, Serial, NEW t \in Txns, NEW s \in Steps, NEW p \in Steps, remove_step_dependency(t, s, p)
  PROVE  Serial'
<1>1. PICK n, K, q : /\ n = Unwire(db, {<<s, p>>}) /\ K = IF p \in Completed(db) THEN {s} ELSE {}
                     /\ q = Plan(db, n, {}, {}, K)
  OBVIOUS
<1>2. <<s, p>> \in db.edge /\ Apply(t, q)
  BY <1>1 DEF remove_step_dependency
<1>3. ASSUME ~raced PROVE Sound(q)
  <2>1. Consistent(db, skewed) /\ Single(db, excused) /\ db \in Db /\ K \in SUBSET Steps
    BY <1>1, <1>3 DEF Serial, Overlap
  <2>2. Unwired(n, db, {<<s, p>>})
    BY <1>1, <2>1, UnwireDoes
  <2>3. Consistent(n, skewed \cup K)
    BY <1>1, <1>2, <2>1, <2>2, RemoveDependencyConsistent
  <2>4. n \in Db /\ n.task.deleted = db.task.deleted /\ n.rec = db.rec /\ Live(n) = Live(db)
    BY <2>2 DEF Unwired, Counts, Live
  <2> QED BY <1>1, <2>1, <2>3, <2>4, StillSound
<1> QED BY <1>2, <1>3, ApplySerial

LEMMA SectionSerial ==
  ASSUME Overlap, Serial, NEW t \in Txns, NEW c \in Sections, NEW P \in SUBSET Sections,
         NEW flag \in Flags, edit_working_section(t, c, P, flag)
  PROVE  Serial'
<1>1. PICK cut \in Db, wired \in Db, n \in Db :
        /\ Unwired(cut, db, Lost(c, P)) /\ WiredTo(wired, cut, Gains(c, P, cut))
        /\ Stamped(n, wired)
        /\ Shaken(c, P) \in SUBSET Steps
        /\ Apply(t, Plan(db, n, {}, {}, Shaken(c, P)))
  BY SectionEdit
<1>2. PICK K, q : K = Shaken(c, P) /\ q = Plan(db, n, {}, {}, K)
  OBVIOUS
<1>3. ASSUME ~raced PROVE Sound(q)
  <2>1. Consistent(db, skewed) /\ Single(db, excused) /\ db \in Db /\ K \in SUBSET Steps
    BY <1>1, <1>2, <1>3 DEF Serial, Overlap
  <2>2. Consistent(n, skewed \cup K) /\ n.task = db.task /\ n.rec = db.rec /\ Live(n) = Live(db)
    BY <1>1, <1>2, <2>1, SectionConsistent
  <2> QED BY <1>2, <2>1, <2>2, StillSound
<1> QED BY <1>1, <1>2, <1>3, ApplySerial

LEMMA EndSerial ==
  ASSUME Overlap, Serial, NEW t \in Txns, NEW end \in Ends, EndTask(t, end)
  PROVE  Serial'
<1>1. PICK n : n = [db EXCEPT !.task.state = end]
  OBVIOUS
<1>2. /\ db \in Db /\ n \in Db /\ n.row = db.row /\ n.rec = db.rec /\ n.edge = db.edge
      /\ n.task.deleted = db.task.deleted /\ n.task.state = end
      /\ end \in TERMINAL_TASK_STATES
  BY <1>1, StepsAssumption DEF Overlap, Db, TERMINAL_TASK_STATES, TaskStates
<1>3. PICK q : q = Plan(db, n, {}, {}, {})
  OBVIOUS
<1>4. ASSUME ~raced PROVE Sound(q)
  <2>1. Consistent(db, skewed) /\ Single(db, excused)
    BY <1>4 DEF Serial
  <2>2. Live(n) = Live(db) /\ Completed(n) = Completed(db)
    BY <1>2 DEF Live, Completed
  <2>3. Wellwired(n, skewed)
    <3>1. Wellwired(db, skewed) /\ skewed \subseteq skewed
      BY <2>1 DEF Consistent
    <3> QED BY <1>2, <2>2, <3>1, StillWellwired
  <2>4. Follows(n)
    BY <1>2 DEF Follows, TERMINAL_TASK_STATES
  <2>5. Consistent(n, skewed) /\ {} \in SUBSET Steps
    BY <2>3, <2>4 DEF Consistent
  <2> QED BY <1>2, <1>3, <2>1, <2>2, <2>5, StillSound, NoMoreSkew
<1>5. Apply(t, q)
  BY <1>1, <1>3 DEF EndTask
<1> QED BY <1>4, <1>5, ApplySerial

LEMMA InitSerial == Init => Serial
<1> SUFFICES ASSUME Init PROVE Serial
  OBVIOUS
<1>1. /\ \A s \in Steps : db.row[s].live = "no"
      /\ db.edge = {} /\ db.task.state = "PENDING"
      /\ \A t \in Txns : job[t] = None /\ plan[t] = None
  BY DEF Init, NewRow
<1>2. Live(db) = {} /\ AtWork(db) = {}
  BY <1>1 DEF Live, AtWork
<1>3. Wellwired(db, skewed)
  BY <1>1, <1>2 DEF Wellwired
<1>4. Follows(db)
  BY <1>1, <1>2 DEF Follows
<1>5. Single(db, excused)
  BY <1>2 DEF Single, Alone
<1> QED BY <1>1, <1>3, <1>4, <1>5 DEF Serial, Consistent

LEMMA StepSerial == Overlap /\ Serial /\ [Next]_vars => Serial'
<1> SUFFICES ASSUME Overlap, Serial, [Next]_vars PROVE Serial'
  OBVIOUS
<1>1. CASE UNCHANGED vars
  BY <1>1 DEF vars, Serial, raced, Consistent, Single, Current, Movable, Sound, Fresh
<1>2. CASE Next
  <2>1. PICK t \in Txns :
          \/ \E s \in Steps, st \in Asked, by \in People, credit \in People :
               LoadForTransition(t, s, st, by, credit)
          \/ \E S \in SUBSET Steps, st \in Asked, by \in People : LoadForBatch(t, S, st, by)
          \/ LoadForForce(t)
          \/ transition_step_state(t)
          \/ force_task_ready(t)
          \/ \E S \in SUBSET Steps : add_task_steps(t, S) \/ remove_task_steps(t, S)
          \/ \E s, p \in Steps : add_step_dependency(t, s, p) \/ remove_step_dependency(t, s, p)
          \/ \E c \in Sections, P \in SUBSET Sections, flag \in Flags :
               edit_working_section(t, c, P, flag)
          \/ \E end \in Ends : EndTask(t, end)
          \/ delete_task(t)
          \/ restore_task(t)
          \/ Commit(t)
          \/ Rollback(t)
    BY <1>2 DEF Next
  <2>2. delete_task(t) => Serial'
    BY PauseSerial DEF delete_task
  <2>3. restore_task(t) => Serial'
    BY PauseSerial DEF restore_task
  <2> QED BY <2>1, <2>2, <2>3, LoadsSerial, TransitionSerial, ForceSerial, AddSerial,
             RemoveSerial, AddDependencySerial, RemoveDependencySerial, SectionSerial,
             EndSerial, CommitSerial, RollbackSerial
<1> QED BY <1>1, <1>2

LEMMA AlwaysSerial == Spec => [](Overlap /\ Serial)
<1>1. Init => Overlap /\ Serial
  BY InitOverlap, InitSerial
<1>2. Overlap /\ Serial /\ [Next]_vars => (Overlap /\ Serial)'
  BY StepOverlap, StepSerial
<1> QED BY <1>1, <1>2, PTL DEF Spec

\* Commands one after another, in any order and on any graph of steps and sections: the
\* counters and the readiness of every step that no hand edit skewed say what its
\* prerequisites say.
THEOREM ReadinessFollows == Spec => []ReadinessIsTrue
<1>1. Serial => ReadinessIsTrue
  BY DEF Serial, Consistent, Wellwired, Ready, ReadinessIsTrue
<1> QED BY <1>1, AlwaysSerial, PTL

\* Commands one after another: the task is in the state its steps put it in.
THEOREM TaskFollows == Spec => []TaskFollowsSteps
<1>1. Overlap /\ Serial => TaskFollowsSteps
  <2> SUFFICES ASSUME Overlap, Serial, ~raced,
                      NEW states, states = {db.row[s].state : s \in Live(db)}
               PROVE  /\ db.task.state = "PENDING" => states = {}
                      /\ db.task.state = "ASSIGNED" => states = {"PENDING"}
                      /\ db.task.state = "WORKING" => states \ TERMINAL_STEP_STATES # {}
                      /\ db.task.state = "READY" => states \subseteq TERMINAL_STEP_STATES
    BY DEF TaskFollowsSteps
  <2>1. Follows(db)
    BY DEF Serial, Consistent
  <2> QED BY <2>1 DEF Follows
<1> QED BY <1>1, AlwaysSerial, PTL

LEMMA AtMostOne == ASSUME NEW A, \A r, s \in A : r = s PROVE Cardinality(A) <= 1
<1>1. CASE A = {}
  BY <1>1, FS_EmptySet
<1>2. CASE A # {}
  <2>1. PICK s : A = {s}
    BY <1>2
  <2>2. Cardinality({s}) = 1
    BY FS_Singleton
  <2> QED BY <2>1, <2>2
<1> QED BY <1>1, <1>2

\* Commands one after another, however the steps become batch-capable or cease to be: nobody
\* has started two steps at work that cannot be worked on together, unless he has started one
\* for someone else or a step has lost its batch stamp under him.
THEOREM OneActiveStepEach == Spec => []OneActiveStepWhenSelf
<1>1. Serial => OneActiveStepWhenSelf
  <2> SUFFICES ASSUME Serial, ~raced, NEW u \in Users \ excused
               PROVE  Cardinality({s \in Alone(db) : db.rec[s].by = u}) <= 1
    BY DEF OneActiveStepWhenSelf
  <2>1. Single(db, excused)
    BY DEF Serial
  <2> QED BY <2>1, AtMostOne DEF Single
<1> QED BY <1>1, AlwaysSerial, PTL
=============================================================================
