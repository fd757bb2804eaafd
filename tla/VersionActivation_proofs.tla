------------------------ MODULE VersionActivation_proofs ------------------------
(***************************************************************************)
(* Proofs that scheduler rows and schedule columns stay in step, for any     *)
(* number of versions, rows and runners, any lag and any number of faults.   *)
(*                                                                           *)
(* Inv strengthens the checked invariants by two facts about the runner: a   *)
(* row it holds was due when it read it, and so an ERROR row is due.  They   *)
(* are what keeps _retry_errored_schedulers from bringing a row back to      *)
(* ACTIVE behind the back of the commands.                                   *)
(***************************************************************************)
EXTENDS VersionActivation, FiniteSetTheorems, TLAPS

Linked == RowServesItsDraft /\ NoScheduleIsLost /\ ConstraintsHold
Inv    == TypeOK /\ HeldRowsAreDue /\ ErrorIsDue /\ Linked

\* Canceling keeps the column well typed and takes no row into ACTIVE.
LEMMA CanceledRows ==
  ASSUME NEW S, rowState \in [Rows -> RowStates]
  PROVE  /\ Canceled(S) \in [Rows -> RowStates]
         /\ \A r \in Rows : /\ Canceled(S)[r] = "ACTIVE" <=> (rowState[r] = "ACTIVE" /\ r \notin S)
                            /\ Canceled(S)[r] = "ERROR" <=> rowState[r] = "ERROR"
                            /\ Canceled(S)[r] = "NONE" <=> rowState[r] = "NONE"
BY DEF Canceled, RowStates

\* What every command that touches one version v does to the scheduler rows: the
\* ACTIVE row of v is canceled and, when v gets a date d, one free row serves it.
\* Tasks of other versions are left alone.
LEMMA Rescheduled ==
  ASSUME Inv, NEW v \in Owners, NEW d \in Dates \cup {NoDate},
         Reschedule(v, d), SetPlan(v, d), UNCHANGED <<now, batch, failed>>,
         verState' \in [Owners -> VerStates],
         d # NoDate => verState'[v] = "draft",
         d # NoDate => tasks' = tasks,
         \A x \in Owners \ {v} : verState'[x] = "draft" <=> verState[x] = "draft",
         \A r \in Rows : owner[r] # v => tasks'[r] = tasks[r]
  PROVE  /\ rowState' \in [Rows -> RowStates] /\ owner' \in [Rows -> Owners]
         /\ dueAt' \in [Rows -> 0..MaxTime] /\ firedAt' = firedAt
         /\ planAt' \in [Owners -> Dates \cup {NoDate}] /\ late' \in SUBSET Owners
         /\ HeldRowsAreDue' /\ ErrorIsDue' /\ RowServesItsDraft' /\ NoScheduleIsLost'
         /\ \A x \in Owners : planAt'[x] # NoDate => verState'[x] = "draft"
<1>1. TypeOK /\ SchedTypeOK
  BY DEF Inv, TypeOK
<1>2. /\ planAt' \in [Owners -> Dates \cup {NoDate}] /\ late' \in SUBSET Owners
      /\ planAt'[v] = d /\ \A x \in Owners \ {v} : planAt'[x] = planAt[x]
  BY <1>1 DEF SetPlan, TypeOK
<1>3. \A x \in Owners : planAt'[x] # NoDate => verState'[x] = "draft"
  BY <1>2 DEF Inv, Linked, ConstraintsHold
<1> DEFINE gone == RowsOf(v)
<1>4. gone = {r \in Rows : rowState[r] # "NONE" /\ owner[r] = v}
  BY DEF RowsOf
<1>5. /\ Canceled(gone) \in [Rows -> RowStates]
      /\ \A r \in Rows : /\ Canceled(gone)[r] = "ACTIVE" <=> (rowState[r] = "ACTIVE" /\ r \notin gone)
                         /\ Canceled(gone)[r] = "ERROR" <=> rowState[r] = "ERROR"
                         /\ Canceled(gone)[r] = "NONE" <=> rowState[r] = "NONE"
  BY <1>1, CanceledRows DEF SchedTypeOK
<1> HIDE DEF gone
<1>6. CASE d = NoDate
  <2>1. rowState' = Canceled(gone) /\ owner' = owner /\ dueAt' = dueAt /\ firedAt' = firedAt
    BY <1>6 DEF Reschedule, Cancel, gone, Create
  <2>2. rowState' \in [Rows -> RowStates] /\ owner' \in [Rows -> Owners]
        /\ dueAt' \in [Rows -> 0..MaxTime]
    BY <2>1, <1>1, <1>5 DEF SchedTypeOK
  <2>3. HeldRowsAreDue' /\ ErrorIsDue'
    BY <2>1, <1>1, <1>5 DEF Inv, HeldRowsAreDue, ErrorIsDue, SchedTypeOK
  <2>4. RowServesItsDraft'
    <3>1. \A r \in Rows : rowState'[r] = "ACTIVE" => rowState[r] = "ACTIVE" /\ owner[r] # v
      BY <2>1, <1>4, <1>5
    <3> QED BY <3>1, <2>1, <1>1, <1>2 DEF Inv, Linked, RowServesItsDraft, SchedTypeOK
  <2>5. NoScheduleIsLost'
    <3> SUFFICES ASSUME NEW x \in Owners, planAt'[x] # NoDate
                 PROVE  \E r \in Rows : (r \in RowsOf(x) /\ Serves(r, x))'
      BY DEF NoScheduleIsLost, NoDate, RowsOf
    <3>1. x # v /\ planAt'[x] = planAt[x]
      BY <1>2, <1>6
    <3>2. PICK r \in RowsOf(x) : Serves(r, x)
      BY <3>1 DEF Inv, Linked, NoScheduleIsLost
    <3>3. r \in Rows /\ rowState[r] # "NONE" /\ owner[r] = x
      BY <3>2 DEF RowsOf
    <3>4. r \in RowsOf(x)'
      BY <3>3, <2>1, <1>5 DEF RowsOf
    <3>5. rowState[r] = "ACTIVE" => rowState'[r] = "ACTIVE"
      BY <3>3, <3>1, <2>1, <1>4, <1>5
    <3> QED BY <3>1, <3>2, <3>3, <3>4, <3>5, <2>1 DEF Serves
  <2> QED BY <2>1, <2>2, <2>3, <2>4, <2>5, <1>2, <1>3
<1>7. CASE d # NoDate
  <2>1. PICK n \in Rows : Create(n, v, d, gone)
    BY <1>7 DEF Reschedule, gone
  <2>2. /\ rowState[n] = "NONE"
        /\ rowState' = [Canceled(gone) EXCEPT ![n] = "ACTIVE"]
        /\ owner' = [owner EXCEPT ![n] = v] /\ dueAt' = [dueAt EXCEPT ![n] = d]
        /\ firedAt' = firedAt /\ tasks' = tasks
    BY <2>1, <1>7 DEF Create, FreeRows
  <2>3. rowState' \in [Rows -> RowStates] /\ owner' \in [Rows -> Owners]
        /\ dueAt' \in [Rows -> 0..MaxTime]
    BY <2>2, <1>1, <1>5, <1>7 DEF SchedTypeOK, RowStates, Dates, NoDate
  <2>4. /\ rowState'[n] = "ACTIVE" /\ owner'[n] = v /\ dueAt'[n] = d
        /\ \A r \in Rows \ {n} : /\ rowState'[r] = Canceled(gone)[r]
                                 /\ owner'[r] = owner[r] /\ dueAt'[r] = dueAt[r]
    BY <2>2, <1>1, <1>5 DEF SchedTypeOK
  <2>5. ErrorIsDue'
    BY <2>4, <1>5 DEF Inv, ErrorIsDue
  <2>6. HeldRowsAreDue'
    <3> SUFFICES ASSUME NEW m \in Runners, NEW r \in batch[m]
                 PROVE  rowState'[r] # "NONE" /\ dueAt'[r] <= now
      BY DEF HeldRowsAreDue
    <3>1. r \in Rows /\ rowState[r] # "NONE" /\ dueAt[r] <= now
      BY <1>1 DEF Inv, HeldRowsAreDue, SchedTypeOK
    <3> QED BY <3>1, <2>2, <2>4, <1>5
  <2>7. \A r \in Rows : rowState'[r] = "ACTIVE" =>
           r = n \/ (r # n /\ rowState[r] = "ACTIVE" /\ owner[r] # v)
    BY <2>4, <1>4, <1>5
  <2>8. RowServesItsDraft'
    BY <2>4, <2>7, <1>1, <1>2, <1>7 DEF Inv, Linked, RowServesItsDraft, SchedTypeOK
  <2>9. NoScheduleIsLost'
    <3> SUFFICES ASSUME NEW x \in Owners, planAt'[x] # NoDate
                 PROVE  \E r \in Rows : (r \in RowsOf(x) /\ Serves(r, x))'
      BY DEF NoScheduleIsLost, NoDate, RowsOf
    <3>1. CASE x = v
      <4>1. n \in RowsOf(v)'
        BY <2>4 DEF RowsOf
      <4> QED BY <4>1, <3>1, <2>4, <1>2 DEF Serves
    <3>2. CASE x # v
      <4>1. planAt'[x] = planAt[x]
        BY <3>2, <1>2
      <4>2. PICK r \in RowsOf(x) : Serves(r, x)
        BY <4>1 DEF Inv, Linked, NoScheduleIsLost
      <4>3. r \in Rows \ {n} /\ rowState[r] # "NONE" /\ owner[r] = x
        BY <4>2, <2>2 DEF RowsOf
      <4>4. r \in RowsOf(x)'
        BY <4>3, <2>4, <1>5 DEF RowsOf
      <4>5. rowState[r] = "ACTIVE" => rowState'[r] = "ACTIVE"
        BY <4>3, <3>2, <2>4, <1>4, <1>5
      <4> QED BY <4>1, <4>2, <4>3, <4>4, <4>5, <2>2, <2>4 DEF Serves
    <3> QED BY <3>1, <3>2
  <2> QED BY <2>2, <2>3, <2>5, <2>6, <2>8, <2>9, <1>2, <1>3
<1> QED BY <1>6, <1>7

\* The board stays unique when v is put up.
LEMMA NewBoard ==
  ASSUME verState \in [Owners -> VerStates], NEW v \in Owners, verState' = WithBoard(v)
  PROVE  /\ verState' \in [Owners -> VerStates] /\ verState'[v] = "active"
         /\ \A p, q \in Board' : p = q
         /\ \A x \in Owners \ {v} : verState'[x] = "draft" <=> verState[x] = "draft"
<1>1. \A x \in Owners : verState'[x] = IF x = v THEN "active"
                          ELSE IF verState[x] = "active" THEN "closed" ELSE verState[x]
  BY DEF WithBoard
<1>2. verState' \in [Owners -> VerStates]
  BY DEF WithBoard, VerStates
<1> QED BY <1>1, <1>2 DEF Board

\* Steps that leave rows, plans and version states alone keep the links, if no
\* task is dropped whose date its draft still carries.
LEMMA RowsUntouched ==
  ASSUME Linked, UNCHANGED <<rowState, owner, dueAt, verState, planAt>>,
         \A r \in Rows, v \in Owners :
            /\ verState[v] = "draft" /\ owner[r] = v /\ dueAt[r] = planAt[v]
            /\ tasks[r] > 0 \/ r \in failed
            => tasks'[r] > 0 \/ r \in failed'
  PROVE  Linked'
<1>1. RowServesItsDraft' /\ ConstraintsHold'
  BY DEF Linked, RowServesItsDraft, ConstraintsHold, Board, NoDate
<1>2. NoScheduleIsLost'
  <2> SUFFICES ASSUME NEW x \in Owners, planAt'[x] # NoDate
               PROVE  \E r \in Rows : (r \in RowsOf(x) /\ Serves(r, x))'
    BY DEF NoScheduleIsLost, NoDate, RowsOf
  <2>1. PICK r \in RowsOf(x) : Serves(r, x)
    BY DEF Linked, NoScheduleIsLost
  <2>2. r \in Rows /\ owner[r] = x /\ r \in RowsOf(x)'
    BY <2>1 DEF RowsOf
  <2>3. verState[x] = "draft"
    BY DEF Linked, ConstraintsHold
  <2> QED BY <2>1, <2>2, <2>3 DEF Serves
<1> QED BY <1>1, <1>2 DEF Linked

\* An empty schedule and a version in any legal state.
LEMMA InitInv == Init => Inv
<1> SUFFICES ASSUME Init PROVE Inv
  OBVIOUS
<1> USE SchedulerAssumption DEF Init, SchedInit
<1>1. SchedTypeOK
  <2>1. (CHOOSE o \in Owners : TRUE) \in Owners
    OBVIOUS
  <2> QED BY <2>1 DEF SchedTypeOK, RowStates
<1>2. TypeOK
  BY <1>1 DEF TypeOK, VerStates, NoDate
<1>3. HeldRowsAreDue /\ ErrorIsDue
  BY DEF HeldRowsAreDue, ErrorIsDue
<1>4. Linked
  BY DEF Linked, RowServesItsDraft, NoScheduleIsLost, ConstraintsHold, Board, NoDate
<1> QED BY <1>2, <1>3, <1>4 DEF Inv

\* The runner and the clock.  Only here do HeldRowsAreDue and ErrorIsDue matter.
LEMMA RunnerInv == Inv /\ Runner => Inv'
<1> SUFFICES ASSUME Inv, Runner PROVE Inv'
  OBVIOUS
<1> USE SchedulerAssumption
<1>1. SchedTypeOK /\ TypeOK
  BY DEF Inv, TypeOK
<1>2. UNCHANGED <<verVars, late, failed>>
  BY DEF Runner
<1>3. SchedTypeOK' => TypeOK'
  BY <1>1, <1>2 DEF TypeOK, verVars, Dates, NoDate, VerStates
<1>4. CASE Tick
  <2>1. now' = now + 1 /\ now' \in 0..MaxTime /\ UNCHANGED <<rowVars, runnerVars, tasks, faults, made>>
    BY <1>1, <1>4 DEF Tick, SchedTypeOK
  <2>2. SchedTypeOK'
    BY <2>1, <1>1 DEF SchedTypeOK, rowVars, runnerVars
  <2>3. HeldRowsAreDue' /\ ErrorIsDue'
    <3>1. \A r \in Rows : dueAt[r] <= now => dueAt[r] <= now'
      BY <2>1, <1>1 DEF SchedTypeOK
    <3> QED BY <3>1, <2>1, <1>1 DEF Inv, HeldRowsAreDue, ErrorIsDue, SchedTypeOK, rowVars, runnerVars
  <2>4. Linked'
    BY <2>1, <1>2, RowsUntouched DEF Inv, rowVars, verVars
  <2> QED BY <2>2, <2>3, <2>4, <1>3 DEF Inv
<1>5. CASE \E n \in Runners : ReadDue(n)
  <2>1. PICK n \in Runners : ReadDue(n)
    BY <1>5
  <2>2. PICK b \in SUBSET {r \in Rows : Due(r, now)} : batch' = [batch EXCEPT ![n] = b]
    BY <2>1 DEF ReadDue
  <2>3. UNCHANGED <<now, rowVars, tasks, faults, made>>
    BY <2>1 DEF ReadDue
  <2>4. SchedTypeOK'
    BY <2>1, <2>2, <2>3, <1>1 DEF SchedTypeOK, ReadDue, rowVars
  <2>5. HeldRowsAreDue' /\ ErrorIsDue'
    BY <2>2, <2>3, <1>1 DEF Inv, HeldRowsAreDue, ErrorIsDue, SchedTypeOK, rowVars, Due
  <2>6. Linked'
    BY <2>3, <1>2, RowsUntouched DEF Inv, rowVars, verVars
  <2> QED BY <2>4, <2>5, <2>6, <1>3 DEF Inv
<1>6. CASE \E n \in Runners : RunnerFails(n)
  <2>1. PICK n \in Runners : RunnerFails(n)
    BY <1>6
  <2>2. UNCHANGED <<now, rowVars, tasks, made>> /\ batch' = [batch EXCEPT ![n] = {}]
    BY <2>1 DEF RunnerFails
  <2>3. SchedTypeOK'
    BY <2>1, <1>1 DEF SchedTypeOK, RunnerFails, rowVars
  <2>4. HeldRowsAreDue' /\ ErrorIsDue'
    BY <2>2, <1>1 DEF Inv, HeldRowsAreDue, ErrorIsDue, SchedTypeOK, rowVars
  <2>5. Linked'
    BY <2>2, <1>2, RowsUntouched DEF Inv, rowVars, verVars
  <2> QED BY <2>3, <2>4, <2>5, <1>3 DEF Inv
<1>7. CASE \E n \in Runners : RetryErrored(n)
  <2>1. PICK n \in Runners : RetryErrored(n)
    BY <1>7
  <2>2. {r \in Rows : Retryable(r)} = {}
    BY <1>1 DEF Inv, ErrorIsDue, Retryable, SchedTypeOK
  <2>3. rowState' = [r \in Rows |-> rowState[r]]
    BY <2>1, <2>2 DEF RetryErrored
  <2>4. UNCHANGED <<now, rowState, owner, dueAt, firedAt, batch, readAt, tasks, faults, made>>
    BY <2>1, <2>3, <1>1 DEF RetryErrored, SchedTypeOK
  <2>5. SchedTypeOK'
    BY <2>1, <2>4, <1>1 DEF SchedTypeOK, RetryErrored
  <2>6. HeldRowsAreDue' /\ ErrorIsDue'
    BY <2>4 DEF Inv, HeldRowsAreDue, ErrorIsDue
  <2>7. Linked'
    BY <2>4, <1>2, RowsUntouched DEF Inv, verVars
  <2> QED BY <2>5, <2>6, <2>7, <1>3 DEF Inv
<1>8. CASE \E n \in Runners : FireDue(n)
  <2>1. PICK n \in Runners : FireDue(n)
    BY <1>8
  <2>2. PICK u \in SUBSET batch[n] :
          /\ faults + Cardinality(u) <= MaxFaults /\ faults' = faults + Cardinality(u)
          /\ rowState' = [r \in Rows |-> IF r \in u THEN "ERROR"
                                         ELSE IF r \in batch[n] THEN "FIRED" ELSE rowState[r]]
          /\ firedAt' = [r \in Rows |-> IF r \in batch[n] \ u THEN readAt[n] ELSE firedAt[r]]
    BY <2>1 DEF FireDue
  <2>3. u \in SUBSET Rows /\ batch[n] \in SUBSET Rows
    BY <1>1 DEF SchedTypeOK
  <2>4. faults' \in 0..MaxFaults
    <3>1. Cardinality(u) \in Nat
      BY <2>3, FS_Subset, FS_CardinalityType
    <3> QED BY <3>1, <2>2, <1>1 DEF SchedTypeOK
  <2>5. /\ UNCHANGED <<now, owner, dueAt>>
        /\ batch' = [batch EXCEPT ![n] = {}]
        /\ tasks' = [r \in Rows |-> IF r \in batch[n] THEN tasks[r] + 1 ELSE tasks[r]]
    BY <2>1 DEF FireDue
  <2>6. SchedTypeOK'
    <3>1. rowState' \in [Rows -> RowStates]
      BY <2>2, <1>1 DEF SchedTypeOK, RowStates
    <3>2. firedAt' \in [Rows -> 0..MaxTime]
      BY <2>2, <1>1 DEF SchedTypeOK
    <3>3. tasks' \in [Rows -> Nat] /\ made' \in [Rows -> Nat]
      BY <2>1, <1>1 DEF SchedTypeOK, FireDue
    <3>4. /\ rpc' \in [Runners -> {"poll", "fire", "retry"}]
          /\ batch' \in [Runners -> SUBSET Rows] /\ readAt' \in [Runners -> 0..MaxTime]
      BY <2>1, <1>1 DEF SchedTypeOK, FireDue
    <3> QED BY <3>1, <3>2, <3>3, <3>4, <2>4, <2>5, <1>1 DEF SchedTypeOK
  <2>7. HeldRowsAreDue' /\ ErrorIsDue'
    <3>1. \A r \in batch[n] : dueAt[r] <= now
      BY DEF Inv, HeldRowsAreDue
    <3>2. \A r \in Rows : rowState[r] # "NONE" => rowState'[r] # "NONE"
      BY <2>2
    <3>3. HeldRowsAreDue'
      BY <3>2, <2>5, <1>1 DEF Inv, HeldRowsAreDue, SchedTypeOK
    <3>4. ErrorIsDue'
      BY <3>1, <2>2, <2>5 DEF Inv, ErrorIsDue
    <3> QED BY <3>3, <3>4
  <2>8. \A r \in Rows : /\ rowState'[r] = "ACTIVE" => rowState[r] = "ACTIVE"
                        /\ rowState[r] = "ACTIVE" => rowState'[r] = "ACTIVE" \/ tasks'[r] > 0
                        /\ tasks[r] > 0 => tasks'[r] > 0
                        /\ rowState[r] # "NONE" => rowState'[r] # "NONE"
    BY <2>2, <2>5, <1>1 DEF SchedTypeOK
  <2>9. RowServesItsDraft' /\ ConstraintsHold'
    <3>1. UNCHANGED <<owner, dueAt, verState, planAt>>
      BY <2>5, <1>2 DEF verVars
    <3>2. \A r \in Rows : rowState'[r] = "ACTIVE" => rowState[r] = "ACTIVE"
      BY <2>8
    <3>3. RowServesItsDraft'
      BY <3>1, <3>2 DEF Inv, Linked, RowServesItsDraft
    <3> QED BY <3>1, <3>3 DEF Inv, Linked, ConstraintsHold, Board, NoDate
  <2>10. NoScheduleIsLost'
    <3> SUFFICES ASSUME NEW x \in Owners, planAt'[x] # NoDate
                 PROVE  \E r \in Rows : (r \in RowsOf(x) /\ Serves(r, x))'
      BY DEF NoScheduleIsLost, NoDate, RowsOf
    <3>1. planAt' = planAt /\ failed' = failed
      BY <1>2 DEF verVars
    <3>2. PICK r \in RowsOf(x) : Serves(r, x)
      BY <3>1 DEF Inv, Linked, NoScheduleIsLost
    <3>3. r \in Rows /\ rowState[r] # "NONE" /\ owner[r] = x
      BY <3>2 DEF RowsOf
    <3>4. /\ rowState[r] = "ACTIVE" => rowState'[r] = "ACTIVE" \/ tasks'[r] > 0
          /\ tasks[r] > 0 => tasks'[r] > 0
          /\ rowState'[r] # "NONE"
      BY <3>3, <2>8
    <3>5. r \in RowsOf(x)'
      BY <3>3, <3>4, <2>5 DEF RowsOf
    <3>6. Serves(r, x)'
      BY <3>1, <3>2, <3>4, <2>5 DEF Serves
    <3> QED BY <3>3, <3>5, <3>6
  <2> QED BY <2>6, <2>7, <2>9, <2>10, <1>3 DEF Inv, Linked
<1> QED BY <1>4, <1>5, <1>6, <1>7, <1>8 DEF Runner, RunnerStep

\* A command or task run on one version keeps the whole invariant.
LEMMA OneVersion ==
  ASSUME Inv, NEW v \in Owners, NEW d \in Dates \cup {NoDate},
         Reschedule(v, d), SetPlan(v, d), UNCHANGED <<now, runnerVars, made, failed>>,
         faults' \in 0..MaxFaults, tasks' \in [Rows -> Nat],
         verState' \in [Owners -> VerStates], firedPlan' \in [Owners -> Dates \cup {NoDate}],
         activeAt' \in [Owners -> 0..MaxTime], createdAt' \in [Owners -> 0..MaxTime],
         d # NoDate => verState'[v] = "draft" /\ tasks' = tasks,
         \A x \in Owners \ {v} : verState'[x] = "draft" <=> verState[x] = "draft",
         \A r \in Rows : owner[r] # v => tasks'[r] = tasks[r],
         \A p, q \in Board' : p = q
  PROVE  Inv'
<1>1. SchedTypeOK /\ TypeOK
  BY DEF Inv, TypeOK
<1>2. UNCHANGED <<now, batch, failed, rpc, readAt, made>>
  BY DEF runnerVars
<1>3. /\ rowState' \in [Rows -> RowStates] /\ owner' \in [Rows -> Owners]
      /\ dueAt' \in [Rows -> 0..MaxTime] /\ firedAt' = firedAt
      /\ planAt' \in [Owners -> Dates \cup {NoDate}] /\ late' \in SUBSET Owners
      /\ HeldRowsAreDue' /\ ErrorIsDue' /\ RowServesItsDraft' /\ NoScheduleIsLost'
      /\ \A x \in Owners : planAt'[x] # NoDate => verState'[x] = "draft"
  BY <1>2, Rescheduled
<1>4. ConstraintsHold'
  BY <1>3 DEF ConstraintsHold, NoDate
<1>5. TypeOK'
  BY <1>1, <1>2, <1>3 DEF TypeOK, SchedTypeOK, Dates, NoDate, VerStates, RowStates
<1> QED BY <1>3, <1>4, <1>5 DEF Inv, Linked

\* A version goes live, by hand or by its fire: then the step is a OneVersion step.
LEMMA LiveStep ==
  ASSUME Inv, NEW v \in Owners, NEW s \in Stamps, NEW plan \in Dates \cup {NoDate},
         GoLive(v, s, plan), UNCHANGED <<now, runnerVars, made, failed>>,
         faults' \in 0..MaxFaults, tasks' \in [Rows -> Nat],
         \A r \in Rows : owner[r] # v => tasks'[r] = tasks[r]
  PROVE  Inv'
<1>1. TypeOK /\ s \in 0..MaxTime
  BY SchedulerAssumption DEF Inv, TypeOK, SchedTypeOK, Stamps
<1>2. /\ verState' = WithBoard(v) /\ activeAt' = [activeAt EXCEPT ![v] = s]
      /\ SetPlan(v, NoDate) /\ firedPlan' = [firedPlan EXCEPT ![v] = plan]
      /\ Cancel(RowsOf(v)) /\ createdAt' = createdAt
  BY DEF GoLive
<1>3. /\ verState' \in [Owners -> VerStates] /\ \A p, q \in Board' : p = q
      /\ \A x \in Owners \ {v} : verState'[x] = "draft" <=> verState[x] = "draft"
  BY <1>1, <1>2, NewBoard DEF TypeOK
<1>4. /\ activeAt' \in [Owners -> 0..MaxTime] /\ createdAt' \in [Owners -> 0..MaxTime]
      /\ firedPlan' \in [Owners -> Dates \cup {NoDate}]
  BY <1>1, <1>2 DEF TypeOK
<1>5. Reschedule(v, NoDate)
  BY <1>2 DEF Reschedule
<1> QED BY <1>2, <1>3, <1>4, <1>5, OneVersion

\* Commands of the HTTP routes.
LEMMA CommandInv == Inv /\ Command => Inv'
<1> SUFFICES ASSUME Inv, Command PROVE Inv'
  OBVIOUS
<1>1. SchedTypeOK /\ TypeOK
  BY DEF Inv, TypeOK
<1>2. \A s \in Stamps : s \in 0..MaxTime
  BY <1>1, SchedulerAssumption DEF Stamps, SchedTypeOK
<1>3. \A p, q \in Board : p = q
  BY DEF Inv, Linked, ConstraintsHold
<1>4. ASSUME NEW v \in Owners, NEW s \in Stamps, NEW d \in Dates \cup {NoDate}, CreateDraft(v, s, d)
      PROVE  Inv'
  <2>1. /\ Reschedule(v, d) /\ SetPlan(v, d)
        /\ UNCHANGED <<now, runnerVars, made, failed, tasks, faults, activeAt, firedPlan>>
        /\ verState' = [verState EXCEPT ![v] = "draft"]
        /\ createdAt' = [createdAt EXCEPT ![v] = s]
    BY <1>4 DEF CreateDraft, outside
  <2>2. verState' \in [Owners -> VerStates] /\ createdAt' \in [Owners -> 0..MaxTime]
    BY <2>1, <1>1, <1>2 DEF TypeOK, VerStates
  <2>3. /\ verState'[v] = "draft" /\ \A x \in Owners \ {v} : verState'[x] = verState[x]
        /\ \A p, q \in Board' : p = q
    BY <2>1, <1>1, <1>3 DEF TypeOK, Board
  <2>4. /\ faults' \in 0..MaxFaults /\ tasks' \in [Rows -> Nat]
        /\ activeAt' \in [Owners -> 0..MaxTime] /\ firedPlan' \in [Owners -> Dates \cup {NoDate}]
    BY <2>1, <1>1 DEF TypeOK, SchedTypeOK
  <2> QED BY <2>1, <2>2, <2>3, <2>4, OneVersion
<1>5. ASSUME NEW v \in Owners, NEW s \in Stamps, NEW d \in Dates \cup {NoDate}, UpdateSchedule(v, s, d)
      PROVE  Inv'
  <2>1. /\ Reschedule(v, d) /\ SetPlan(v, d) /\ verState[v] = "draft"
        /\ UNCHANGED <<now, runnerVars, made, failed, tasks, faults>>
        /\ UNCHANGED <<verState, activeAt, createdAt, firedPlan>>
    BY <1>5 DEF UpdateSchedule, outside
  <2>2. /\ faults' \in 0..MaxFaults /\ tasks' \in [Rows -> Nat] /\ verState' \in [Owners -> VerStates]
        /\ activeAt' \in [Owners -> 0..MaxTime] /\ createdAt' \in [Owners -> 0..MaxTime]
        /\ firedPlan' \in [Owners -> Dates \cup {NoDate}] /\ \A p, q \in Board' : p = q
    BY <2>1, <1>1, <1>3 DEF TypeOK, SchedTypeOK, Board
  <2> QED BY <2>1, <2>2, OneVersion
<1>6. ASSUME NEW v \in Owners, DeleteDraft(v)
      PROVE  Inv'
  <2>1. /\ Cancel(RowsOf(v)) /\ SetPlan(v, NoDate)
        /\ verState' = [verState EXCEPT ![v] = "deleted"]
        /\ UNCHANGED <<now, runnerVars, made, failed, tasks, faults, activeAt, createdAt, firedPlan>>
    BY <1>6 DEF DeleteDraft, outside
  <2>2. Reschedule(v, NoDate)
    BY <2>1 DEF Reschedule
  <2>3. /\ verState' \in [Owners -> VerStates] /\ \A p, q \in Board' : p = q
        /\ \A x \in Owners \ {v} : verState'[x] = verState[x]
    BY <2>1, <1>1, <1>3 DEF TypeOK, VerStates, Board
  <2>4. /\ faults' \in 0..MaxFaults /\ tasks' \in [Rows -> Nat]
        /\ activeAt' \in [Owners -> 0..MaxTime] /\ createdAt' \in [Owners -> 0..MaxTime]
        /\ firedPlan' \in [Owners -> Dates \cup {NoDate}]
    BY <2>1, <1>1 DEF TypeOK, SchedTypeOK
  <2> QED BY <2>1, <2>2, <2>3, <2>4, OneVersion
<1>7. ASSUME NEW v \in Owners, NEW s \in Stamps, ActivateByHand(v, s)
      PROVE  Inv'
  <2>1. /\ GoLive(v, s, NoDate)
        /\ UNCHANGED <<now, runnerVars, made, failed, tasks, faults>>
    BY <1>7 DEF ActivateByHand, outside
  <2>2. faults' \in 0..MaxFaults /\ tasks' \in [Rows -> Nat]
    BY <2>1, <1>1 DEF SchedTypeOK
  <2> QED BY <2>1, <2>2, LiveStep
<1>8. ASSUME NEW v \in Owners, NEW s \in Stamps, CreateActive(v, s)
      PROVE  Inv'
  <2>1. /\ verState[v] = "none" /\ verState' = WithBoard(v)
        /\ activeAt' = [activeAt EXCEPT ![v] = s] /\ createdAt' = [createdAt EXCEPT ![v] = s]
        /\ UNCHANGED <<now, runnerVars, made, failed, tasks, faults, rowVars, planAt, firedPlan, late>>
    BY <1>8 DEF CreateActive, outside
  <2>2. /\ verState' \in [Owners -> VerStates] /\ \A p, q \in Board' : p = q
        /\ verState'[v] = "active"
        /\ \A x \in Owners \ {v} : verState'[x] = "draft" <=> verState[x] = "draft"
    BY <2>1, <1>1, NewBoard DEF TypeOK
  <2>3. TypeOK'
    BY <2>1, <2>2, <1>1, <1>2 DEF TypeOK, SchedTypeOK, rowVars, runnerVars, Dates, NoDate, VerStates, RowStates
  <2>4. HeldRowsAreDue' /\ ErrorIsDue'
    BY <2>1 DEF Inv, HeldRowsAreDue, ErrorIsDue, rowVars, runnerVars
  <2>5. \A x \in Owners : verState[x] = "draft" => verState'[x] = "draft"
    BY <2>1, <2>2
  <2>6. UNCHANGED <<rowState, owner, dueAt, planAt, tasks, failed>>
    BY <2>1 DEF rowVars
  <2>7. RowServesItsDraft'
    BY <2>5, <2>6, <1>1 DEF Inv, Linked, RowServesItsDraft, SchedTypeOK
  <2>8. ConstraintsHold'
    BY <2>2, <2>5, <2>6 DEF Inv, Linked, ConstraintsHold, NoDate
  <2>9. NoScheduleIsLost'
    BY <2>6 DEF Inv, Linked, NoScheduleIsLost, NoDate, RowsOf, Serves
  <2> QED BY <2>3, <2>4, <2>7, <2>8, <2>9 DEF Inv, Linked
<1>9. CASE RepairSchedule
  <2>1. Strays = {}
    BY <1>1 DEF Inv, Linked, RowServesItsDraft, Strays, SchedTypeOK
  <2> DEFINE For(row, r) == CHOOSE v \in Unserved : row[v] = r
  <2>2. PICK row \in [Unserved -> FreeRows] :
          /\ \A v, w \in Unserved : row[v] = row[w] => v = w
          /\ rowState' = [r \in Rows |-> IF r \in {row[v] : v \in Unserved}
                                         THEN "ACTIVE" ELSE Canceled(Strays)[r]]
          /\ owner' = [r \in Rows |-> IF r \in {row[v] : v \in Unserved}
                                      THEN For(row, r) ELSE owner[r]]
          /\ dueAt' = [r \in Rows |-> IF r \in {row[v] : v \in Unserved}
                                      THEN planAt[For(row, r)] ELSE dueAt[r]]
    BY <1>9 DEF RepairSchedule
  <2> DEFINE new == {row[v] : v \in Unserved}
  <2>3. UNCHANGED <<now, rpc, batch, readAt, tasks, faults, made, failed, firedAt, late>>
        /\ UNCHANGED <<verState, activeAt, createdAt, planAt, firedPlan>>
    BY <1>9 DEF RepairSchedule, outside, runnerVars, verVars
  <2>4. Unserved \subseteq Owners /\ FreeRows \subseteq Rows
    BY DEF Unserved, FreeRows
  <2>5. \A v \in Unserved : For(row, row[v]) = v
    BY <2>2
  <2> HIDE DEF For
  <2>6. \A r \in Rows : Canceled(Strays)[r] = rowState[r]
    BY <2>1 DEF Canceled
  <2>7. \A v \in Unserved : /\ row[v] \in Rows /\ rowState[row[v]] = "NONE"
                            /\ rowState'[row[v]] = "ACTIVE" /\ owner'[row[v]] = v
                            /\ dueAt'[row[v]] = planAt[v]
    BY <2>2, <2>4, <2>5 DEF FreeRows
  <2>8. \A r \in Rows \ new : /\ rowState'[r] = rowState[r] /\ owner'[r] = owner[r]
                              /\ dueAt'[r] = dueAt[r]
    BY <2>2, <2>6
  <2>9. \A r \in Rows : r \in new \/ r \in Rows \ new
    OBVIOUS
  <2>10. \A r \in new : \E v \in Unserved : r = row[v]
    OBVIOUS
  <2> HIDE DEF new
  <2>11. SchedTypeOK'
    <3>1. \A v \in Unserved : planAt[v] \in 0..MaxTime
      BY <2>4, <1>1, SchedulerAssumption DEF TypeOK, Dates, NoDate
    <3>2. \A r \in Rows : /\ rowState'[r] \in RowStates /\ owner'[r] \in Owners
                          /\ dueAt'[r] \in 0..MaxTime
      BY <3>1, <2>4, <2>7, <2>8, <2>9, <2>10, <1>1 DEF SchedTypeOK, RowStates
    <3>3. DOMAIN rowState' = Rows /\ DOMAIN owner' = Rows /\ DOMAIN dueAt' = Rows
      BY <2>2
    <3>4. /\ rowState' \in [Rows -> RowStates] /\ owner' \in [Rows -> Owners]
          /\ dueAt' \in [Rows -> 0..MaxTime]
      BY <2>2, <3>2
    <3> QED BY <3>4, <2>3, <1>1 DEF SchedTypeOK
  <2>12. TypeOK'
    BY <2>3, <2>11, <1>1 DEF TypeOK, Dates, NoDate, VerStates
  <2>13. HeldRowsAreDue' /\ ErrorIsDue'
    <3>1. \A n \in Runners : \A r \in batch[n] : r \in Rows /\ rowState[r] # "NONE" /\ dueAt[r] <= now
      BY <1>1 DEF Inv, HeldRowsAreDue, SchedTypeOK
    <3>2. \A r \in Rows : rowState[r] # "NONE" => r \in Rows \ new
      BY <2>7, <2>9, <2>10
    <3>3. HeldRowsAreDue'
      BY <3>1, <3>2, <2>3, <2>8 DEF HeldRowsAreDue
    <3>4. ErrorIsDue'
      BY <2>3, <2>7, <2>8, <2>9, <2>10 DEF Inv, ErrorIsDue
    <3> QED BY <3>3, <3>4
  <2>14. \A v \in Unserved : \A r \in Rows \ new : rowState[r] = "ACTIVE" => owner[r] # v
    BY <1>1 DEF Inv, Linked, RowServesItsDraft, Unserved, ActiveRowAt, RowsOf
  <2>15. \A v \in Unserved : verState[v] = "draft"
    BY DEF Unserved
  <2>16. RowServesItsDraft'
    <3>1. ASSUME NEW r \in Rows, rowState'[r] = "ACTIVE"
          PROVE  verState'[owner'[r]] = "draft" /\ planAt'[owner'[r]] = dueAt'[r]
      <4>1. CASE r \in new
        BY <4>1, <2>3, <2>7, <2>10, <2>15
      <4>2. CASE r \in Rows \ new
        BY <4>2, <3>1, <2>3, <2>8 DEF Inv, Linked, RowServesItsDraft
      <4> QED BY <4>1, <4>2, <2>9
    <3>2. ASSUME NEW r \in Rows, NEW q \in Rows, rowState'[r] = "ACTIVE", rowState'[q] = "ACTIVE",
                 owner'[r] = owner'[q]
          PROVE  r = q
      <4>1. CASE r \in new /\ q \in new
        BY <4>1, <3>2, <2>7, <2>10
      <4>2. CASE r \in new /\ q \in Rows \ new
        BY <4>2, <3>2, <2>7, <2>8, <2>10, <2>14
      <4>3. CASE r \in Rows \ new /\ q \in new
        BY <4>3, <3>2, <2>7, <2>8, <2>10, <2>14
      <4>4. CASE r \in Rows \ new /\ q \in Rows \ new
        BY <4>4, <3>2, <2>8 DEF Inv, Linked, RowServesItsDraft
      <4> QED BY <4>1, <4>2, <4>3, <4>4, <2>9
    <3> QED BY <3>1, <3>2 DEF RowServesItsDraft
  <2>17. ConstraintsHold'
    BY <2>3 DEF Inv, Linked, ConstraintsHold, Board, NoDate
  <2>18. NoScheduleIsLost'
    <3> SUFFICES ASSUME NEW x \in Owners, planAt'[x] # NoDate
                 PROVE  \E r \in Rows : (r \in RowsOf(x) /\ Serves(r, x))'
      BY DEF NoScheduleIsLost, NoDate, RowsOf
    <3>1. PICK r \in RowsOf(x) : Serves(r, x)
      BY <2>3 DEF Inv, Linked, NoScheduleIsLost
    <3>2. r \in Rows /\ rowState[r] # "NONE" /\ owner[r] = x
      BY <3>1 DEF RowsOf
    <3>3. r \in Rows \ new
      BY <3>2, <2>7, <2>9, <2>10
    <3> QED BY <3>1, <3>2, <3>3, <2>3, <2>8 DEF RowsOf, Serves
  <2> QED BY <2>12, <2>13, <2>16, <2>17, <2>18 DEF Inv, Linked
<1> QED BY <1>4, <1>5, <1>6, <1>7, <1>8, <1>9 DEF Command

\* A task run ends: counts stay natural and only its own row loses a task.
LEMMA EndedTask ==
  ASSUME SchedTypeOK, NEW r \in Rows, tasks[r] > 0, TaskEnds(r)
  PROVE  /\ faults' \in 0..MaxFaults /\ tasks' \in [Rows -> Nat]
         /\ \A q \in Rows \ {r} : tasks'[q] = tasks[q]
<1>1. CASE tasks' = [tasks EXCEPT ![r] = @ - 1] /\ UNCHANGED faults
  BY <1>1 DEF SchedTypeOK
<1>2. CASE faults < MaxFaults /\ faults' = faults + 1 /\ UNCHANGED tasks
  BY <1>2, SchedulerAssumption DEF SchedTypeOK
<1> QED BY <1>1, <1>2 DEF TaskEnds

\* The worker's side.
LEMMA WorkerInv == ASSUME Inv, NEW r \in Rows, Fire(r) \/ TaskFails(r) PROVE Inv'
<1>1. SchedTypeOK /\ TypeOK /\ owner[r] \in Owners
  BY DEF Inv, TypeOK, SchedTypeOK
<1>2. ASSUME NEW s \in Stamps, FireRefused(r, s) PROVE Inv'
  <2>1. /\ UNCHANGED <<now, rowVars, runnerVars, made, verVars, late, failed>>
        /\ tasks[r] > 0 /\ TaskEnds(r)
        /\ verState[owner[r]] # "draft" \/ planAt[owner[r]] # dueAt[r]
    BY <1>2 DEF FireRefused, TaskRuns, Moved
  <2>2. /\ faults' \in 0..MaxFaults /\ tasks' \in [Rows -> Nat]
        /\ \A q \in Rows \ {r} : tasks'[q] = tasks[q]
    BY <2>1, <1>1, EndedTask
  <2>3. TypeOK'
    BY <2>1, <2>2, <1>1 DEF TypeOK, SchedTypeOK, rowVars, runnerVars, verVars, RowStates, VerStates, Dates, NoDate
  <2>4. HeldRowsAreDue' /\ ErrorIsDue'
    BY <2>1 DEF Inv, HeldRowsAreDue, ErrorIsDue, rowVars, runnerVars
  <2>5. \A q \in Rows, v \in Owners :
          verState[v] = "draft" /\ owner[q] = v /\ dueAt[q] = planAt[v] => tasks'[q] = tasks[q]
    BY <2>1, <2>2
  <2>6. Linked'
    BY <2>1, <2>5, RowsUntouched DEF Inv, rowVars, verVars
  <2> QED BY <2>3, <2>4, <2>6 DEF Inv
<1>3. ASSUME NEW s \in Stamps, FireSkipped(r, s) PROVE Inv'
  <2> DEFINE v == owner[r]
  <2>1. /\ tasks[r] > 0 /\ TaskEnds(r) /\ Cancel(RowsOf(v)) /\ SetPlan(v, NoDate)
        /\ UNCHANGED <<now, runnerVars, made, failed, verState, activeAt, createdAt, firedPlan>>
    BY <1>3 DEF FireSkipped, TaskRuns, Skip
  <2>2. /\ faults' \in 0..MaxFaults /\ tasks' \in [Rows -> Nat]
        /\ \A q \in Rows \ {r} : tasks'[q] = tasks[q]
    BY <2>1, <1>1, EndedTask
  <2>3. \A q \in Rows : owner[q] # v => tasks'[q] = tasks[q]
    BY <2>2
  <2>4. /\ verState' \in [Owners -> VerStates] /\ firedPlan' \in [Owners -> Dates \cup {NoDate}]
        /\ activeAt' \in [Owners -> 0..MaxTime] /\ createdAt' \in [Owners -> 0..MaxTime]
        /\ \A p, q \in Board' : p = q
    BY <2>1, <1>1 DEF TypeOK, Inv, Linked, ConstraintsHold, Board
  <2>5. Reschedule(v, NoDate) /\ v \in Owners
    BY <2>1, <1>1 DEF Reschedule
  <2> QED BY <2>1, <2>2, <2>3, <2>4, <2>5, OneVersion
<1>4. ASSUME NEW s \in Stamps, FirePublishes(r, s) PROVE Inv'
  <2> DEFINE v == owner[r]
  <2>1. /\ tasks[r] > 0 /\ TaskEnds(r) /\ GoLive(v, s, planAt[v])
        /\ UNCHANGED <<now, runnerVars, made, failed>>
    BY <1>4 DEF FirePublishes, TaskRuns
  <2>2. /\ faults' \in 0..MaxFaults /\ tasks' \in [Rows -> Nat]
        /\ \A q \in Rows \ {r} : tasks'[q] = tasks[q]
    BY <2>1, <1>1, EndedTask
  <2>3. \A q \in Rows : owner[q] # v => tasks'[q] = tasks[q]
    BY <2>2
  <2>4. v \in Owners /\ planAt[v] \in Dates \cup {NoDate}
    BY <1>1 DEF TypeOK
  <2> QED BY <2>1, <2>2, <2>3, <2>4, LiveStep
<1>5. CASE TaskFails(r)
  <2>1. /\ UNCHANGED <<now, rowVars, runnerVars, made, verVars, late>>
        /\ tasks[r] > 0 /\ tasks' = [tasks EXCEPT ![r] = @ - 1]
        /\ failed' = failed \cup {r} /\ faults < MaxFaults /\ faults' = faults + 1
    BY <1>5 DEF TaskFails
  <2>2. TypeOK'
    BY <2>1, <1>1, SchedulerAssumption DEF TypeOK, SchedTypeOK, rowVars, runnerVars, verVars, RowStates, VerStates, Dates, NoDate
  <2>3. HeldRowsAreDue' /\ ErrorIsDue'
    BY <2>1 DEF Inv, HeldRowsAreDue, ErrorIsDue, rowVars, runnerVars
  <2>4. \A q \in Rows : tasks[q] > 0 \/ q \in failed => tasks'[q] > 0 \/ q \in failed'
    BY <2>1, <1>1 DEF SchedTypeOK
  <2>5. Linked'
    BY <2>1, <2>4, RowsUntouched DEF Inv, rowVars, verVars
  <2> QED BY <2>2, <2>3, <2>5 DEF Inv
<1> QED BY <1>2, <1>3, <1>4, <1>5 DEF Fire

\* Nothing changes, nothing breaks.
LEMMA StutterInv == Inv /\ UNCHANGED vars => Inv'
<1> SUFFICES ASSUME Inv, UNCHANGED vars PROVE Inv'
  OBVIOUS
<1> USE DEF vars, schedVars, rowVars, runnerVars, verVars
<1>1. TypeOK'
  BY DEF Inv, TypeOK, SchedTypeOK, RowStates, VerStates, Dates, NoDate
<1>2. HeldRowsAreDue' /\ ErrorIsDue'
  BY DEF Inv, HeldRowsAreDue, ErrorIsDue
<1>3. Linked'
  BY RowsUntouched DEF Inv
<1> QED BY <1>1, <1>2, <1>3 DEF Inv

\* Runner, commands, workers and stuttering together.
LEMMA Invariance == Spec => []Inv
<1>1. Inv /\ [Next]_vars => Inv'
  BY RunnerInv, CommandInv, WorkerInv, StutterInv DEF Next
<1> QED BY InitInv, <1>1, PTL DEF Spec

\* Every column keeps the values its table allows, whatever the number of
\* versions, rows, runners and faults.
THEOREM TypeCorrect == Spec => []TypeOK
<1>1. Inv => TypeOK
  BY DEF Inv
<1> QED BY <1>1, Invariance, PTL

\* _version_schedule.py: an ACTIVE scheduler row belongs to a draft that carries
\* its date, and no draft has two - commands, repair, skips, redelivered tasks and
\* runners that overwrite cancellations included.
THEOREM RowsServeDrafts == Spec => []RowServesItsDraft
<1>1. Inv => RowServesItsDraft
  BY DEF Inv, Linked
<1> QED BY <1>1, Invariance, PTL

\* No schedule is lost: a draft's date is served by a row or by an unfinished
\* task, unless a task for it failed for good.
THEOREM SchedulesAreServed == Spec => []NoScheduleIsLost
<1>1. Inv => NoScheduleIsLost
  BY DEF Inv, Linked
<1> QED BY <1>1, Invariance, PTL

\* Commands never run into the two database constraints on versions.
THEOREM ConstraintsAlwaysHold == Spec => []ConstraintsHold
<1>1. Inv => ConstraintsHold
  BY DEF Inv, Linked
<1> QED BY <1>1, Invariance, PTL

-----------------------------------------------------------------------------
(* The order of plans.  What a fire may rely on: a board put up by a fire    *)
(* carries a plan behind it, and each draft whose date it has passed, unless *)
(* that date was late already when it was written, sorts before that plan.   *)

PlansAreOrdered ==
  /\ \A v \in Owners : verState[v] \in {"none", "draft"} => firedPlan[v] = NoDate
  /\ \A v \in Owners : activeAt[v] <= now
  /\ \A p \in Board : firedPlan[p] # NoDate =>
       /\ firedPlan[p] < activeAt[p]
       /\ \A v \in Drafts \ late :
            planAt[v] # NoDate /\ planAt[v] < activeAt[p] => LaterPlan(p, v)

\* No version is touched and the clock does not go back: the order stays.
LEMMA OrderKept ==
  ASSUME TypeOK, PlansAreOrdered, UNCHANGED <<verVars, late>>, now' \in Int, now <= now'
  PROVE  PlansAreOrdered'
BY DEF PlansAreOrdered, TypeOK, SchedTypeOK, verVars, Board, Drafts, LaterPlan

\* One version v that is not on the board gets the date d, or leaves the drafts:
\* a date not yet passed lies after every board, and a passed one is late.
LEMMA OrderOfRescheduled ==
  ASSUME TypeOK, PlansAreOrdered, NEW v \in Owners, NEW d \in Dates \cup {NoDate},
         SetPlan(v, d), verState[v] \in {"none", "draft"},
         UNCHANGED <<now, activeAt, firedPlan>>,
         verState' \in [Owners -> VerStates], verState'[v] \in {"draft", "deleted"},
         \A x \in Owners \ {v} : verState'[x] = verState[x] /\ createdAt'[x] = createdAt[x]
  PROVE  PlansAreOrdered'
<1>1. /\ planAt' \in [Owners -> Dates \cup {NoDate}] /\ planAt'[v] = d
      /\ \A x \in Owners \ {v} : planAt'[x] = planAt[x] /\ (x \in late' <=> x \in late)
      /\ d # NoDate /\ d <= now => v \in late'
  BY DEF SetPlan, TypeOK
<1>2. Board' = Board /\ v \notin Board
  BY DEF Board
<1>3. ASSUME NEW p \in Board, firedPlan[p] # NoDate, NEW x \in Drafts' \ late',
             planAt'[x] # NoDate, planAt'[x] < activeAt[p]
      PROVE  LaterPlan(p, x)'
  <2>1. p \in Owners /\ p # v /\ activeAt[p] \in Int /\ now \in Int /\ activeAt[p] <= now
    BY <1>2 DEF Board, PlansAreOrdered, TypeOK, SchedTypeOK
  <2>2. x # v
    BY <1>1, <1>3, <2>1 DEF Dates, NoDate
  <2>3. x \in Drafts \ late /\ planAt'[x] = planAt[x]
    BY <2>2, <1>1, <1>3 DEF Drafts
  <2>4. LaterPlan(p, x)
    BY <2>3, <1>3 DEF PlansAreOrdered
  <2> QED BY <2>1, <2>2, <2>3, <2>4 DEF LaterPlan, Drafts
<1> QED BY <1>1, <1>2, <1>3 DEF PlansAreOrdered, TypeOK

\* A board put up by a hand has no plan behind it, one put up by a fire has the
\* plan of its version, and drafts of a later plan due by then keep it from that.
LEMMA OrderOfPublished ==
  ASSUME TypeOK, PlansAreOrdered, NEW v \in Owners, NEW s \in Stamps,
         NEW plan \in Dates \cup {NoDate},
         verState' = WithBoard(v), activeAt' = [activeAt EXCEPT ![v] = s],
         firedPlan' = [firedPlan EXCEPT ![v] = plan], now' = now,
         \A x \in Owners \ {v} : /\ planAt'[x] = planAt[x] /\ createdAt'[x] = createdAt[x]
                                 /\ x \in late' <=> x \in late,
         plan # NoDate => /\ plan = planAt[v] /\ createdAt'[v] = createdAt[v]
                          /\ planAt[v] < s /\ ~LaterPlanDue(v, s)
  PROVE  PlansAreOrdered'
<1>1. /\ s \in Nat /\ s <= now /\ now \in Nat
  BY DEF Stamps, TypeOK, SchedTypeOK
<1>2. Board' = {v} /\ Drafts' = Drafts \ {v}
  BY DEF Board, Drafts, WithBoard, TypeOK
<1>3. \A x \in Owners : verState'[x] \in {"none", "draft"} => firedPlan'[x] = NoDate
  BY DEF PlansAreOrdered, WithBoard, TypeOK
<1>4. \A x \in Owners : activeAt'[x] <= now
  BY <1>1 DEF PlansAreOrdered, TypeOK
<1>5. ASSUME plan # NoDate, NEW x \in Drafts' \ late', planAt'[x] # NoDate, planAt'[x] < s
      PROVE  LaterPlan(v, x)'
  <2>1. x \in Owners /\ x # v /\ verState[x] = "draft" /\ planAt[x] # NoDate /\ planAt[x] < s
    BY <1>5, <1>2 DEF Drafts
  <2>2. /\ planAt[x] \in Int /\ planAt[v] \in Int /\ createdAt[x] \in Int /\ createdAt[v] \in Int
        /\ x \in Int /\ v \in Int
    BY <2>1, SchedulerAssumption DEF TypeOK, Dates, NoDate
  <2>3. ~SortsAfter(x, v)
    BY <2>1, <2>2, <1>1, <1>5 DEF LaterPlanDue
  <2>4. firedPlan'[v] = planAt[v] /\ planAt'[x] = planAt[x]
        /\ createdAt'[x] = createdAt[x] /\ createdAt'[v] = createdAt[v]
    BY <2>1, <1>5 DEF TypeOK
  <2> QED BY <2>1, <2>2, <2>3, <2>4, <1>5 DEF LaterPlan, SortsAfter
<1> QED BY <1>1, <1>2, <1>3, <1>4, <1>5 DEF PlansAreOrdered, TypeOK

LEMMA OrderStep == Inv /\ PlansAreOrdered /\ [Next]_vars => PlansAreOrdered'
<1> SUFFICES ASSUME Inv, PlansAreOrdered, [Next]_vars PROVE PlansAreOrdered'
  OBVIOUS
<1>1. TypeOK /\ SchedTypeOK /\ now \in Int /\ \A r \in Rows : owner[r] \in Owners
  BY DEF Inv, TypeOK, SchedTypeOK
<1>2. CASE UNCHANGED vars
  BY <1>1, <1>2, OrderKept DEF vars, schedVars
<1>3. CASE Runner
  <2>1. now' = now \/ now' = now + 1
    BY <1>3 DEF Runner, Tick, RunnerStep, RunnerFails, ReadDue, FireDue, RetryErrored
  <2> QED BY <2>1, <1>1, <1>3, OrderKept DEF Runner
<1>4. CASE RepairSchedule
  BY <1>1, <1>4, OrderKept DEF RepairSchedule, outside
<1>5. ASSUME NEW v \in Owners, NEW s \in Stamps, NEW d \in Dates \cup {NoDate},
             CreateDraft(v, s, d) \/ UpdateSchedule(v, s, d)
      PROVE  PlansAreOrdered'
  <2>1. /\ SetPlan(v, d) /\ UNCHANGED <<now, activeAt, firedPlan>>
        /\ verState[v] \in {"none", "draft"} /\ verState' \in [Owners -> VerStates]
        /\ verState'[v] = "draft"
        /\ \A x \in Owners \ {v} : verState'[x] = verState[x] /\ createdAt'[x] = createdAt[x]
    BY <1>1, <1>5 DEF CreateDraft, UpdateSchedule, outside, TypeOK, VerStates
  <2> QED BY <2>1, <1>1, OrderOfRescheduled
<1>6. ASSUME NEW v \in Owners, DeleteDraft(v) PROVE PlansAreOrdered'
  <2>1. /\ SetPlan(v, NoDate) /\ UNCHANGED <<now, activeAt, firedPlan>>
        /\ verState[v] \in {"none", "draft"} /\ verState' \in [Owners -> VerStates]
        /\ verState'[v] = "deleted"
        /\ \A x \in Owners \ {v} : verState'[x] = verState[x] /\ createdAt'[x] = createdAt[x]
    BY <1>1, <1>6 DEF DeleteDraft, outside, TypeOK, VerStates
  <2> QED BY <2>1, <1>1, OrderOfRescheduled
<1>7. ASSUME NEW r \in Rows, NEW s \in Stamps, FireSkipped(r, s) PROVE PlansAreOrdered'
  <2> DEFINE v == owner[r]
  <2>1. /\ SetPlan(v, NoDate) /\ UNCHANGED <<now, activeAt, firedPlan, verState, createdAt>>
        /\ verState[v] = "draft" /\ v \in Owners
    BY <1>1, <1>7 DEF FireSkipped, Skip
  <2> HIDE DEF v
  <2> QED BY <2>1, <1>1, OrderOfRescheduled DEF TypeOK
<1>8. ASSUME NEW v \in Owners, NEW s \in Stamps, CreateActive(v, s) PROVE PlansAreOrdered'
  <2>1. firedPlan' = [firedPlan EXCEPT ![v] = NoDate]
    BY <1>1, <1>8 DEF CreateActive, PlansAreOrdered, TypeOK
  <2>2. /\ verState' = WithBoard(v) /\ activeAt' = [activeAt EXCEPT ![v] = s] /\ now' = now
        /\ \A x \in Owners \ {v} : /\ planAt'[x] = planAt[x] /\ createdAt'[x] = createdAt[x]
                                   /\ x \in late' <=> x \in late
    BY <1>1, <1>8 DEF CreateActive, outside, TypeOK
  <2> QED BY <2>1, <2>2, <1>1, OrderOfPublished
<1>9. ASSUME NEW v \in Owners, NEW s \in Stamps, NEW plan \in Dates \cup {NoDate},
             GoLive(v, s, plan), now' = now,
             plan # NoDate => plan = planAt[v] /\ planAt[v] < s /\ ~LaterPlanDue(v, s)
      PROVE  PlansAreOrdered'
  <2>1. /\ verState' = WithBoard(v) /\ activeAt' = [activeAt EXCEPT ![v] = s]
        /\ firedPlan' = [firedPlan EXCEPT ![v] = plan]
        /\ \A x \in Owners \ {v} : /\ planAt'[x] = planAt[x] /\ createdAt'[x] = createdAt[x]
                                   /\ x \in late' <=> x \in late
        /\ createdAt'[v] = createdAt[v]
    BY <1>1, <1>9 DEF GoLive, SetPlan, TypeOK
  <2> QED BY <2>1, <1>1, <1>9, OrderOfPublished
<1>10. ASSUME NEW v \in Owners, NEW s \in Stamps, ActivateByHand(v, s) PROVE PlansAreOrdered'
  BY <1>9, <1>10 DEF ActivateByHand, outside
<1>11. ASSUME NEW r \in Rows, NEW s \in Stamps, FirePublishes(r, s) PROVE PlansAreOrdered'
  <2>1. planAt[owner[r]] < s /\ planAt[owner[r]] \in Dates \cup {NoDate} /\ owner[r] \in Owners
        /\ now' = now /\ GoLive(owner[r], s, planAt[owner[r]]) /\ ~LaterPlanDue(owner[r], s)
    BY <1>1, <1>11 DEF FirePublishes, TaskRuns, Moved, TypeOK, SchedTypeOK, Stamps, Dates, NoDate
  <2> QED BY <2>1, <1>9
<1>12. ASSUME NEW r \in Rows, NEW s \in Stamps, FireRefused(r, s) PROVE PlansAreOrdered'
  BY <1>1, <1>12, OrderKept DEF FireRefused
<1>13. ASSUME NEW r \in Rows, TaskFails(r) PROVE PlansAreOrdered'
  BY <1>1, <1>13, OrderKept DEF TaskFails
<1> QED
  BY <1>2, <1>3, <1>4, <1>5, <1>6, <1>7, <1>8, <1>10, <1>11, <1>12, <1>13 DEF Next, Command, Fire

LEMMA OrderInvariance == Spec => []PlansAreOrdered
<1>1. Init => PlansAreOrdered
  BY SchedulerAssumption DEF Init, SchedInit, PlansAreOrdered, Board, NoDate
<1> QED BY <1>1, OrderStep, Invariance, PTL DEF Spec

\* A draft that becomes the board with a plan behind it was published by a fire
\* that found its date unmoved and past, no newer board and no later plan due.
LEMMA PublishedByFire ==
  ASSUME TypeOK, [Next]_vars, NEW v \in Published
  PROVE  /\ v \in Owners /\ planAt[v] \in Nat \ {0} /\ firedPlan'[v] = planAt[v]
         /\ activeAt'[v] \in Int /\ planAt[v] < activeAt'[v] /\ ~HandPublished(v)
<1>1. /\ v \in Owners /\ verState[v] = "draft" /\ verState'[v] = "active" /\ firedPlan'[v] # NoDate
  BY DEF Published, Drafts
<1>2. ~UNCHANGED verState /\ ~UNCHANGED vars /\ ~Runner /\ ~RepairSchedule
  BY <1>1 DEF vars, Runner, RepairSchedule, verVars
<1>3. \A x \in Owners : ~DeleteDraft(x)
  BY <1>1 DEF DeleteDraft, TypeOK
<1>4. \A x \in Owners, s \in Stamps, d \in Dates \cup {NoDate} :
         ~CreateDraft(x, s, d) /\ ~UpdateSchedule(x, s, d)
  BY <1>1 DEF CreateDraft, UpdateSchedule, TypeOK
<1>5. \A x \in Owners, s \in Stamps : ~CreateActive(x, s)
  BY <1>1 DEF CreateActive, WithBoard, TypeOK
<1>6. \A x \in Owners, s \in Stamps : ~ActivateByHand(x, s)
  BY <1>1 DEF ActivateByHand, GoLive, WithBoard, TypeOK
<1>7. \A r \in Rows, s \in Stamps : ~FireRefused(r, s) /\ ~FireSkipped(r, s) /\ ~TaskFails(r)
  BY <1>2 DEF FireRefused, FireSkipped, TaskFails, verVars
<1>8. PICK r \in Rows, s \in Stamps : FirePublishes(r, s)
  BY <1>2, <1>3, <1>4, <1>5, <1>6, <1>7 DEF Next, Command, Fire, TaskFails, verVars
<1>9. v = owner[r]
  BY <1>1, <1>8 DEF FirePublishes, GoLive, WithBoard, TypeOK
<1> QED BY <1>1, <1>8, <1>9 DEF FirePublishes, GoLive, TaskRuns, Moved, TypeOK, SchedTypeOK,
                                Stamps, Dates, NoDate

\* P-5: a fire publishes a draft only at the date the draft carries when it runs,
\* and that date is past: a moved or cleared schedule never activates at its old time.
THEOREM PublishesAtItsDate == Spec => OnlyAtItsDate
<1>1. TypeOK /\ [Next]_vars =>
        [\A v \in Published : firedPlan'[v] = planAt[v] /\ planAt[v] < activeAt'[v]]_vars
  BY PublishedByFire
<1> QED BY <1>1, TypeCorrect, PTL DEF Spec, OnlyAtItsDate

\* Of two plans the later wins in either order and a board put up by hand stands:
\* activation tasks may run late, twice and in any order among commands.
THEOREM LaterPlanAlwaysWins == Spec => LaterPlanWins
<1> DEFINE A == /\ \A v \in Published, p \in Board : ~LaterPlan(p, v) /\ activeAt[p] <= planAt[v]
                /\ \A v \in Superseded \ late :
                     \/ \E p \in Board : activeAt[p] > planAt[v]
                                         /\ (firedPlan[p] = NoDate \/ LaterPlan(p, v))
                     \/ \E o \in Drafts : planAt[o] \in Dates /\ planAt[o] <= now /\ SortsAfter(o, v)
<1>1. ASSUME TypeOK, PlansAreOrdered, [Next]_vars PROVE A
  <2>1. ASSUME NEW v \in Published, NEW p \in Board
        PROVE  ~LaterPlan(p, v) /\ activeAt[p] <= planAt[v]
    <3>1. p \in Owners /\ activeAt[p] \in Int /\ firedPlan[p] \in Int
      BY <1>1 DEF Board, TypeOK, Dates, NoDate
    <3>2. planAt[v] \in Int /\ activeAt[p] <= planAt[v]
      BY <1>1, <3>1, PublishedByFire DEF HandPublished
    <3>3. firedPlan[p] # NoDate => firedPlan[p] < activeAt[p]
      BY <1>1 DEF PlansAreOrdered
    <3> QED BY <3>1, <3>2, <3>3 DEF LaterPlan
  <2>2. ASSUME NEW v \in Superseded \ late
        PROVE  \/ \E p \in Board : activeAt[p] > planAt[v]
                                   /\ (firedPlan[p] = NoDate \/ LaterPlan(p, v))
               \/ \E o \in Drafts : planAt[o] \in Dates /\ planAt[o] <= now /\ SortsAfter(o, v)
    <3>1. v \in Drafts /\ v \in Owners
      BY DEF Superseded, Drafts
    <3>2. PICK r \in RowsOf(v), s \in Stamps : dueAt[r] = planAt[v] /\ FireSkipped(r, s)
      BY <2>2 DEF Superseded
    <3>3. owner[r] = v /\ (HandPublished(v) \/ LaterPlanDue(v, s))
      BY <3>2 DEF RowsOf, FireSkipped
    <3>4. CASE LaterPlanDue(v, s)
      <4>1. s \in Int /\ s <= now /\ now \in Int
        BY <1>1 DEF Stamps, TypeOK, SchedTypeOK
      <4>2. PICK o \in Owners \ {v} : /\ verState[o] = "draft" /\ planAt[o] # NoDate
                                      /\ planAt[o] <= s /\ SortsAfter(o, v)
        BY <3>4 DEF LaterPlanDue
      <4>3. planAt[o] \in Dates /\ planAt[o] \in Int
        BY <4>2, <1>1 DEF TypeOK, Dates, NoDate
      <4> QED BY <4>1, <4>2, <4>3 DEF Drafts
    <3>5. CASE HandPublished(v)
      <4>1. PICK p \in Board : activeAt[p] > planAt[v]
        BY <3>5 DEF HandPublished
      <4>2. /\ p \in Owners /\ activeAt[p] \in Int /\ planAt[v] \in Int
        BY <3>1, <1>1 DEF Board, TypeOK, Dates, NoDate
      <4>3. CASE planAt[v] = NoDate
        BY <4>1, <4>2, <4>3, <1>1 DEF TypeOK, Dates, NoDate, LaterPlan
      <4>4. CASE planAt[v] # NoDate
        BY <4>1, <4>2, <4>4, <3>1, <1>1 DEF PlansAreOrdered
      <4> QED BY <4>1, <4>3, <4>4
    <3> QED BY <3>3, <3>4, <3>5
  <2> QED BY <2>1, <2>2
<1>2. TypeOK /\ PlansAreOrdered /\ [Next]_vars => [A]_vars
  BY <1>1
<1> QED BY <1>2, TypeCorrect, OrderInvariance, PTL DEF Spec, LaterPlanWins

-----------------------------------------------------------------------------
(* Once per row.  With one runner a row it holds has no task yet, nor has a  *)
(* row that is still to be read or inserted.                                 *)

OneRunner  == \A m, n \in Runners : m = n
NotYetMade ==
  /\ \A r \in Rows : made[r] <= 1 /\ (rowState[r] \in {"NONE", "ACTIVE"} => made[r] = 0)
  /\ \A n \in Runners : \A r \in batch[n] : made[r] = 0

\* Commands, tasks and the clock make no task and free or activate no other row.
LEMMA NotMadeByOthers ==
  ASSUME TypeOK, NotYetMade, UNCHANGED <<made, batch>>,
         \A r \in Rows : rowState'[r] \in {"NONE", "ACTIVE"} => rowState[r] \in {"NONE", "ACTIVE"}
  PROVE  NotYetMade'
BY DEF NotYetMade

LEMMA MadeOnceStep == OneRunner /\ Inv /\ NotYetMade /\ [Next]_vars => NotYetMade'
<1> SUFFICES ASSUME OneRunner, Inv, NotYetMade, [Next]_vars PROVE NotYetMade'
  OBVIOUS
<1>1. TypeOK /\ SchedTypeOK
  BY DEF Inv, TypeOK
<1> DEFINE Waiting(s) == s \in {"NONE", "ACTIVE"}
<1>2. \A S : \A r \in Rows : Waiting(Canceled(S)[r]) => Waiting(rowState[r])
  BY <1>1, CanceledRows DEF SchedTypeOK, RowStates, Canceled
<1>3. ASSUME NEW v \in Owners, NEW d, Reschedule(v, d), UNCHANGED <<made, batch>>
      PROVE  NotYetMade'
  <2>1. CASE rowState' = Canceled(RowsOf(v))
    BY <2>1, <1>1, <1>2, <1>3, NotMadeByOthers
  <2>2. CASE \E r \in FreeRows : rowState' = [Canceled(RowsOf(v)) EXCEPT ![r] = "ACTIVE"]
    <3>1. PICK r \in FreeRows : rowState' = [Canceled(RowsOf(v)) EXCEPT ![r] = "ACTIVE"]
      BY <2>2
    <3>2. \A q \in Rows : Waiting(rowState'[q]) => Waiting(rowState[q])
      BY <3>1, <1>2 DEF FreeRows, Canceled
    <3> QED BY <3>2, <1>1, <1>3, NotMadeByOthers
  <2> QED BY <2>1, <2>2, <1>3 DEF Reschedule, Cancel, Create
<1>4. ASSUME NEW v \in Owners, Cancel(RowsOf(v)), UNCHANGED <<made, batch>>
      PROVE  NotYetMade'
  BY <1>3, <1>4 DEF Reschedule
<1>5. ASSUME UNCHANGED <<rowState, made, batch>> PROVE NotYetMade'
  BY <1>1, <1>5, NotMadeByOthers
<1>6. CASE Command
  <2>1. ASSUME NEW v \in Owners, NEW s \in Stamps, NEW d \in Dates \cup {NoDate},
               CreateDraft(v, s, d) \/ UpdateSchedule(v, s, d)
        PROVE  NotYetMade'
    BY <2>1, <1>3 DEF CreateDraft, UpdateSchedule, outside, runnerVars
  <2>2. ASSUME NEW v \in Owners, NEW s \in Stamps, CreateActive(v, s) \/ ActivateByHand(v, s)
        PROVE  NotYetMade'
    BY <2>2, <1>4, <1>5 DEF CreateActive, ActivateByHand, GoLive, outside, runnerVars, rowVars
  <2>3. ASSUME NEW v \in Owners, DeleteDraft(v) PROVE NotYetMade'
    BY <2>3, <1>4 DEF DeleteDraft, outside, runnerVars
  <2>4. CASE RepairSchedule
    <3>1. UNCHANGED <<made, batch>>
      BY <2>4 DEF RepairSchedule, outside, runnerVars
    <3>2. \A r \in Rows : Waiting(rowState'[r]) => Waiting(rowState[r])
      <4>1. PICK row \in [Unserved -> FreeRows] :
              rowState' = [r \in Rows |-> IF r \in {row[v] : v \in Unserved} THEN "ACTIVE"
                                          ELSE Canceled(Strays)[r]]
        BY <2>4 DEF RepairSchedule
      <4> QED BY <4>1, <1>2 DEF FreeRows
    <3> QED BY <3>1, <3>2, <1>1, NotMadeByOthers
  <2> QED BY <1>6, <2>1, <2>2, <2>3, <2>4 DEF Command
<1>7. ASSUME NEW r \in Rows, Fire(r) \/ TaskFails(r) PROVE NotYetMade'
  <2>1. owner[r] \in Owners
    BY <1>1 DEF SchedTypeOK
  <2> QED BY <2>1, <1>4, <1>5, <1>7 DEF Fire, TaskFails, FireRefused, FireSkipped, FirePublishes,
                                        Skip, GoLive, runnerVars, rowVars
<1>8. CASE Runner
  <2>1. CASE Tick
    BY <2>1, <1>5 DEF Tick, rowVars, runnerVars
  <2>2. ASSUME NEW n \in Runners, ReadDue(n) PROVE NotYetMade'
    BY <2>2, <1>1 DEF ReadDue, Due, NotYetMade, rowVars, SchedTypeOK
  <2>3. ASSUME NEW n \in Runners, FireDue(n) PROVE NotYetMade'
    <3>1. /\ batch[n] \subseteq Rows /\ batch' = [batch EXCEPT ![n] = {}]
          /\ made' = [r \in Rows |-> IF r \in batch[n] THEN made[r] + 1 ELSE made[r]]
          /\ \A r \in Rows : /\ r \in batch[n] => ~Waiting(rowState'[r])
                             /\ r \notin batch[n] => rowState'[r] = rowState[r]
      BY <2>3, <1>1 DEF FireDue, SchedTypeOK
    <3>2. \A m \in Runners : batch'[m] = {}
      BY <3>1, <1>1 DEF OneRunner, SchedTypeOK
    <3> QED BY <3>1, <3>2, <1>1 DEF NotYetMade, SchedTypeOK
  <2>4. ASSUME NEW n \in Runners, RunnerFails(n) PROVE NotYetMade'
    BY <2>4, <1>1 DEF RunnerFails, NotYetMade, rowVars, SchedTypeOK
  <2>5. ASSUME NEW n \in Runners, RetryErrored(n) PROVE NotYetMade'
    <3>1. \A r \in Rows : ~Retryable(r)
      BY <1>1 DEF Retryable, Inv, ErrorIsDue, SchedTypeOK
    <3>2. \A r \in Rows : rowState'[r] = rowState[r]
      BY <2>5, <3>1 DEF RetryErrored
    <3> QED BY <3>2, <2>5, <1>1, NotMadeByOthers DEF RetryErrored
  <2> QED BY <1>8, <2>1, <2>2, <2>3, <2>4, <2>5 DEF Runner, RunnerStep
<1>9. CASE UNCHANGED vars
  BY <1>5, <1>9 DEF vars, schedVars, rowVars, runnerVars
<1> QED BY <1>6, <1>7, <1>8, <1>9 DEF Next

\* 37_scheduled_jobs.md:610: a row gives rise to one execution task, through
\* cancellations, repairs, errors and failed polls, as long as one runner is up.
THEOREM OneTaskPerRow == OneRunner => (Spec => []FiresOnce)
<1> SUFFICES ASSUME OneRunner PROVE Spec => []FiresOnce
  OBVIOUS
<1>1. Init => NotYetMade
  BY DEF Init, SchedInit, NotYetMade
<1>2. Inv /\ NotYetMade /\ [Next]_vars => NotYetMade'
  BY MadeOnceStep
<1>3. NotYetMade => FiresOnce
  BY DEF NotYetMade, FiresOnce
<1> QED BY <1>1, <1>2, <1>3, Invariance, PTL DEF Spec
=============================================================================
