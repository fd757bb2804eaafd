------------------------ MODULE RecurringScheduler_proofs ------------------------
(***************************************************************************)
(* Proofs about the recurring scheduler for any jobs, intervals and times,   *)
(* with the one runner process that is deployed.                             *)
(*                                                                           *)
(* That a slot fires once is not inductive.  Two facts make it so: what a    *)
(* poll read is still what the row holds when it commits, as no other runner *)
(* writes (Fresh), and no slot later than last_interval was ever served      *)
(* (Served).  A due row has its grid point after last_interval, so the fire  *)
(* serves a slot that had no task.                                           *)
(***************************************************************************)
EXTENDS RecurringScheduler, FiniteSetTheorems, TLAPS

Fresh  == \A n \in Runners : pc[n] = "fire" => seenLast[n] = last /\ seen[n] \subseteq Active
Served == \A j \in Jobs, t \in Times : fired[j][t] <= 1 /\ (fired[j][t] > 0 => t <= last[j])
Inv    == TypeOK /\ Fresh /\ Served

-----------------------------------------------------------------------------
(* Arithmetic of the grid.                                                   *)

\* a multiple of an interval leaves no remainder

LEMMA Multiple ==
  ASSUME NEW q \in Int, NEW i \in Int, i > 0
  PROVE  (q * i) % i = 0
<1> DEFINE m == q * i
           d == m \div i
           r == m % i
<1>1. m \in Int /\ d \in Int /\ r \in Int /\ m = i * d + r /\ 0 <= r /\ r < i
  OBVIOUS
<1>2. r = i * (q - d)
  BY <1>1
<1> HIDE DEF d, r
<1>3. CASE q - d >= 1
  <2>1. i * (q - d) >= i
    BY <1>1, <1>3
  <2> QED BY <1>1, <1>2, <2>1
<1>4. CASE q - d <= -1
  <2>1. i * (q - d) <= -i
    BY <1>1, <1>4
  <2> QED BY <1>1, <1>2, <2>1
<1>5. CASE q - d = 0
  <2>1. r = 0
    BY <1>1, <1>2, <1>5
  <2> QED BY <2>1 DEF r
<1> QED BY <1>1, <1>3, <1>4, <1>5

\* grid_point is the latest point of the grid at or before t
LEMMA GridPoint ==
  ASSUME NEW a \in Int, NEW i \in Int, HasGrid(i), NEW t \in Int
  PROVE  /\ grid_point(a, i, t) \in Int
         /\ grid_point(a, i, t) <= t
         /\ t < grid_point(a, i, t) + i
         /\ (grid_point(a, i, t) - a) % i = 0
         /\ a <= t => a <= grid_point(a, i, t)
<1> DEFINE q == (t - a) \div i
<1>1. q \in Int /\ i * q <= t - a /\ t - a < i * q + i
  BY DEF HasGrid
<1>2. grid_point(a, i, t) = a + q * i
  BY DEF grid_point
<1>3. q * i = i * q /\ q * i \in Int
  BY <1>1
<1>4. (q * i) % i = 0
  BY <1>1, Multiple DEF HasGrid
<1>5. a <= t => q >= 0
  BY <1>1 DEF HasGrid
<1>6. q >= 0 => q * i >= 0
  BY <1>1 DEF HasGrid
<1> HIDE DEF q
<1> QED BY <1>1, <1>2, <1>3, <1>4, <1>5, <1>6

-----------------------------------------------------------------------------
(* The rows a poll fires.                                                    *)

\* The slot of a row that fires is a time on its grid after last_interval.
LEMMA FiredSlot ==
  ASSUME Inv, NEW n \in Runners, pc[n] = "fire", NEW j \in Slotted(n)
  PROVE  /\ j \in Jobs /\ anchor[j] \in Times /\ interval[j] \in Int /\ interval[j] > 0
         /\ Slot(n, j) \in Times /\ last[j] < Slot(n, j)
         /\ anchor[j] <= Slot(n, j) /\ (Slot(n, j) - anchor[j]) % interval[j] = 0
         /\ clock[n] < Slot(n, j) + interval[j]
<1>1. /\ j \in seen[n] /\ HasGrid(interval[j])
      /\ recurring_is_due(anchor[j], interval[j], seenLast[n][j], clock[n])
  BY DEF Slotted, DueSeen
<1>2. j \in Jobs /\ anchor[j] # Never /\ seenLast[n][j] = last[j]
  BY <1>1 DEF Inv, Fresh, Active
<1>3. /\ anchor[j] \in Times /\ interval[j] \in Int /\ clock[n] \in Times
      /\ last[j] \in {Never} \cup Times
  BY <1>2, RecurringAssumption DEF Inv, TypeOK
<1> DEFINE g == grid_point(anchor[j], interval[j], clock[n])
<1>4. anchor[j] <= clock[n] /\ (last[j] = Never \/ last[j] < g)
  BY <1>1, <1>2 DEF recurring_is_due
<1>5. MaxTime \in Int /\ anchor[j] \in Int /\ clock[n] \in Int
  BY <1>3, RecurringAssumption DEF Times
<1>6. /\ g \in Int /\ g <= clock[n] /\ clock[n] < g + interval[j]
      /\ (g - anchor[j]) % interval[j] = 0 /\ anchor[j] <= g
  BY <1>1, <1>3, <1>4, <1>5, GridPoint
<1>7. Slot(n, j) = g
  BY DEF Slot, SlotServed
<1> HIDE DEF g
<1>8. interval[j] > 0
  BY <1>1 DEF HasGrid
<1> QED BY <1>2, <1>3, <1>4, <1>5, <1>6, <1>7, <1>8 DEF Times, Never

\* What _get_next_run_at returns is a time.
LEMMA NextRunIsTime ==
  ASSUME TypeOK, NEW b \in Selected, NEW t \in NextRunAt(b)
  PROVE  t \in Int
<1>1. CASE NextRuns(b) = {}
  BY <1>1 DEF NextRunAt, Never
<1>2. CASE NextRuns(b) # {}
  <2>1. t \in NextRuns(b)
    BY <1>2 DEF NextRunAt
  <2>2. PICK j \in b : /\ HasGrid(interval[j]) \/ now < anchor[j]
                       /\ t = recurring_next_run_at(anchor[j], interval[j], last[j], now)
    BY <2>1 DEF NextRuns
  <2>3. j \in Jobs
    BY DEF Selected, Active
  <2>4. now \in Times /\ anchor[j] \in {Never} \cup Times /\ interval[j] \in Intervals
    BY <2>3 DEF TypeOK
  <2>5. interval[j] \in Int
    BY <2>4, RecurringAssumption
  <2>6. MaxTime \in Nat
    BY RecurringAssumption
  <2>7. anchor[j] \in Int /\ interval[j] \in Int /\ now \in Int
    BY <2>4, <2>5, <2>6 DEF Times, Never
  <2>8. HasGrid(interval[j]) => grid_point(anchor[j], interval[j], now) \in Int
    BY <2>7, GridPoint
  <2> QED BY <2>2, <2>7, <2>8 DEF recurring_next_run_at
<1> QED BY <1>1, <1>2

\* Asking for the next due time keeps the cache and its history typed.
LEMMA RefreshTypes ==
  ASSUME TypeOK, NEW n \in Runners, RefreshNextDue(n)
  PROVE  nextDue' \in [Runners -> Int] /\ heard' \in [Runners -> SUBSET Jobs]
<1>1. PICK b \in Selected : \E t \in NextRunAt(b) : /\ nextDue' = [nextDue EXCEPT ![n] = t]
                                                     /\ heard' = [heard EXCEPT ![n] = b]
  BY DEF RefreshNextDue
<1>2. b \subseteq Jobs
  BY DEF Selected, Active
<1>3. \A t \in NextRunAt(b) : t \in Int
  BY NextRunIsTime
<1> QED BY <1>1, <1>2, <1>3 DEF TypeOK

-----------------------------------------------------------------------------
(* The invariant.                                                            *)

\* Inv holds before the first poll, legacy rows included.
LEMMA InitInv == Init => Inv
<1> SUFFICES ASSUME Init PROVE Inv
  OBVIOUS
<1>1. MaxTime \in Nat /\ 0 \in Times
  BY RecurringAssumption DEF Times
<1>2. TypeOK
  <2>1. /\ progressOn \in BOOLEAN /\ now \in Times /\ sleeping \in BOOLEAN
        /\ hasError \in SUBSET Jobs
    BY DEF Init
  <2>2. anchor \in [Jobs -> {Never} \cup Times] /\ interval \in [Jobs -> Intervals]
    BY <1>1 DEF Init
  <2>3. last \in [Jobs -> {Never} \cup Times]
    <3>1. 0..now \subseteq Times
      BY <2>1, <1>1 DEF Times
    <3> QED BY <3>1 DEF Init
  <2>4. /\ pc \in [Runners -> {"head", "asleep", "start", "read", "fire", "next"}]
        /\ clock \in [Runners -> Times] /\ seen \in [Runners -> SUBSET Jobs]
    BY <1>1 DEF Init
  <2>5. /\ seenLast \in [Runners -> [Jobs -> {Never} \cup Times]]
        /\ nextDue \in [Runners -> Int]
    BY <1>1 DEF Init, Never
  <2>6. faults \in 0..MaxFaults /\ unslotted \in SUBSET Jobs
    BY RecurringAssumption DEF Init
  <2>7. fired \in [Jobs -> [Times -> Nat]] /\ heard \in [Runners -> SUBSET Jobs]
    BY DEF Init
  <2> QED BY <2>1, <2>2, <2>3, <2>4, <2>5, <2>6, <2>7 DEF TypeOK
<1>3. Fresh
  BY DEF Fresh, Init
<1>4. Served
  BY DEF Served, Init
<1> QED BY <1>2, <1>3, <1>4 DEF Inv

\* A poll that is dropped leaves rows and history alone.
LEMMA DropInv ==
  ASSUME Inv, NEW r, Runners = {r}, NEW n \in Runners, DropPoll(n),
         nextDue' \in [Runners -> Int], heard' \in [Runners -> SUBSET Jobs]
  PROVE  Inv'
<1>1. TypeOK'
  <2>1. 0 \in Times
    BY RecurringAssumption DEF Times
  <2>2. faults' \in 0..MaxFaults
    BY RecurringAssumption DEF DropPoll, Inv, TypeOK
  <2> QED BY <2>1, <2>2 DEF DropPoll, Goto, Inv, TypeOK, jobVars, history, Times, Never
<1>2. Fresh'
  BY DEF DropPoll, Goto, Inv, TypeOK, Fresh, jobVars, Active, Never
<1>3. Served'
  BY DEF DropPoll, Inv, Served, jobVars, history, Times, Never
<1> QED BY <1>1, <1>2, <1>3 DEF Inv

\* The commit of a poll: a slot gets its first task and becomes last_interval.
LEMMA FireInv ==
  ASSUME Inv, NEW r, Runners = {r}, NEW n \in Runners, FireDue(n)
  PROVE  Inv'
<1>2. PICK untouched \in SUBSET Slotted(n) :
        /\ faults + Cardinality(untouched) <= MaxFaults
        /\ faults' = faults + Cardinality(untouched)
        /\ last' = [j \in Jobs |-> IF j \in Slotted(n) THEN Slot(n, j) ELSE last[j]]
        /\ fired' = [j \in Jobs |-> [t \in Times |->
             IF j \in Slotted(n) /\ t = Slot(n, j) THEN fired[j][t] + 1 ELSE fired[j][t]]]
        /\ unslotted' = unslotted \cup Gridless(n)
        /\ hasError' = hasError \cup untouched \cup NoGridSeen(n) \cup Gridless(n)
        /\ sleeping' = (sleeping /\ Slotted(n) \subseteq untouched)
  BY DEF FireDue
<1>3. /\ pc[n] = "fire" /\ pc' = [pc EXCEPT ![n] = "next"]
      /\ seen' = [seen EXCEPT ![n] = {}]
      /\ seenLast' = [seenLast EXCEPT ![n] = [j \in Jobs |-> Never]]
      /\ UNCHANGED <<progressOn, now, anchor, interval, clock, nextDue, heard>>
  BY DEF FireDue, Goto
<1>4. seen[n] \in SUBSET Jobs
  BY DEF Inv, TypeOK
<1>5. /\ DueSeen(n) \subseteq Jobs /\ NoGridSeen(n) \subseteq Jobs /\ Gridless(n) \subseteq Jobs
      /\ Slotted(n) \subseteq Jobs
  BY <1>4 DEF DueSeen, NoGridSeen, Gridless, Slotted
<1>6. \A j \in Slotted(n) : Slot(n, j) \in Times /\ last[j] < Slot(n, j)
  BY <1>3, FiredSlot
<1>7. last' \in [Jobs -> {Never} \cup Times]
  BY <1>2, <1>6 DEF Inv, TypeOK
<1>8. fired' \in [Jobs -> [Times -> Nat]]
  BY <1>2 DEF Inv, TypeOK
<1>9. faults' \in 0..MaxFaults
  <2>1. IsFiniteSet(untouched)
    BY <1>2, <1>5, RecurringAssumption, FS_Subset
  <2>2. Cardinality(untouched) \in Nat
    BY <2>1, FS_CardinalityType
  <2> QED BY <1>2, <2>2, RecurringAssumption DEF Inv, TypeOK
<1>10. TypeOK'
  <2>1. unslotted' \in SUBSET Jobs /\ hasError' \in SUBSET Jobs
    BY <1>2, <1>5 DEF Inv, TypeOK
  <2>2. sleeping' \in BOOLEAN /\ progressOn' \in BOOLEAN
    BY <1>2, <1>3 DEF Inv, TypeOK
  <2>3. /\ seenLast' \in [Runners -> [Jobs -> {Never} \cup Times]]
        /\ seen' \in [Runners -> SUBSET Jobs]
        /\ pc' \in [Runners -> {"head", "asleep", "start", "read", "fire", "next"}]
    BY <1>3 DEF Inv, TypeOK
  <2>4. /\ now' \in Times /\ anchor' \in [Jobs -> {Never} \cup Times]
        /\ interval' \in [Jobs -> Intervals] /\ clock' \in [Runners -> Times]
        /\ nextDue' \in [Runners -> Int] /\ heard' \in [Runners -> SUBSET Jobs]
    BY <1>3 DEF Inv, TypeOK
  <2> QED BY <1>7, <1>8, <1>9, <2>1, <2>2, <2>3, <2>4 DEF TypeOK, Times, Never
<1>11. Fresh'
  BY <1>3 DEF Fresh, Inv, TypeOK
<1>12. Served'
  <2> SUFFICES ASSUME NEW j \in Jobs, NEW t \in Times
               PROVE  fired'[j][t] <= 1 /\ (fired'[j][t] > 0 => t <= last'[j])
    BY DEF Served, Times
  <2>1. /\ fired[j][t] \in Nat /\ fired[j][t] <= 1 /\ (fired[j][t] > 0 => t <= last[j])
        /\ last[j] \in Int /\ t \in Int
    BY RecurringAssumption DEF Inv, TypeOK, Served, Times, Never
  <2>2. CASE j \in Slotted(n)
    <3>1. last'[j] = Slot(n, j) /\ Slot(n, j) \in Int /\ last[j] < Slot(n, j)
      BY <1>2, <1>6, <2>2, RecurringAssumption DEF Times
    <3>2. CASE t = Slot(n, j)
      <4>1. fired'[j][t] = fired[j][t] + 1
        BY <1>2, <2>2, <3>2
      <4>2. fired[j][t] = 0
        BY <2>1, <3>1, <3>2
      <4> QED BY <3>1, <3>2, <4>1, <4>2
    <3>3. CASE t # Slot(n, j)
      <4>1. fired'[j][t] = fired[j][t]
        BY <1>2, <2>2, <3>3
      <4> QED BY <2>1, <3>1, <4>1
    <3> QED BY <3>2, <3>3
  <2>3. CASE j \notin Slotted(n)
    BY <1>2, <2>1, <2>3
  <2> QED BY <2>2, <2>3
<1> QED BY <1>10, <1>11, <1>12 DEF Inv

\* Every step of the runner, of the commands and of the clock keeps Inv.
LEMMA NextInv ==
  ASSUME Inv, NEW r, Runners = {r}, [Next]_vars
  PROVE  Inv'
<1> USE RecurringAssumption
<1>1. ASSUME NEW n \in Runners, LoopHead(n) PROVE Inv'
  BY <1>1 DEF LoopHead, Goto, Inv, TypeOK, Fresh, Served, jobVars, history, Active, Times, Never
<1>2. ASSUME NEW n \in Runners, SleepOn(n) PROVE Inv'
  <2>1. nextDue' \in [Runners -> Int] /\ heard' \in [Runners -> SUBSET Jobs]
    <3>1. CASE progressOn
      BY <1>2, <3>1, RefreshTypes DEF SleepOn, Inv
    <3>2. CASE ~progressOn
      BY <1>2, <3>2 DEF SleepOn, Inv, TypeOK
    <3> QED BY <3>1, <3>2
  <2> QED BY <1>2, <2>1 DEF SleepOn, Goto, Inv, TypeOK, Fresh, Served, jobVars, history, Active, Times, Never
<1>3. ASSUME NEW n \in Runners, AlarmRings(n) PROVE Inv'
  BY <1>3 DEF AlarmRings, Goto, Inv, TypeOK, Fresh, Served, jobVars, history, Active, Times, Never
<1>4. ASSUME NEW n \in Runners, StartPoll(n) PROVE Inv'
  BY <1>4 DEF StartPoll, Goto, Inv, TypeOK, Fresh, Served, jobVars, history, Active, Times, Never
<1>5. ASSUME NEW n \in Runners, ReadJobs(n) PROVE Inv'
  <2>1. PICK b \in Selected : seen' = [seen EXCEPT ![n] = b]
    BY <1>5 DEF ReadJobs
  <2>2. b \subseteq Active /\ b \subseteq Jobs
    BY DEF Selected, Active
  <2> QED BY <1>5, <2>1, <2>2
          DEF ReadJobs, Goto, Inv, TypeOK, Fresh, Served, jobVars, history, Active, Times, Never
<1>6. ASSUME NEW n \in Runners, FireDue(n) PROVE Inv'
  BY <1>6, FireInv
<1>7. ASSUME NEW n \in Runners, CacheNextDue(n) PROVE Inv'
  <2>2. nextDue' \in [Runners -> Int] /\ heard' \in [Runners -> SUBSET Jobs]
    BY <1>7, RefreshTypes DEF CacheNextDue, Inv
  <2>3. 0 \in Times
    BY DEF Times
  <2> QED BY <1>7, <2>2, <2>3
          DEF CacheNextDue, Goto, Inv, TypeOK, Fresh, Served, jobVars, history, Active, Times, Never
<1>8. ASSUME NEW n \in Runners, PollFails(n) PROVE Inv'
  <2>1. nextDue' \in [Runners -> Int] /\ heard' \in [Runners -> SUBSET Jobs]
    BY <1>8 DEF PollFails, Inv, TypeOK
  <2> QED BY <1>8, <2>1, DropInv DEF PollFails
<1>9. ASSUME NEW n \in Runners, RunnerRestarts(n) PROVE Inv'
  <2>1. nextDue' \in [Runners -> Int] /\ heard' \in [Runners -> SUBSET Jobs]
    BY <1>9 DEF RunnerRestarts, Inv, TypeOK, Never
  <2> QED BY <1>9, <2>1, DropInv DEF RunnerRestarts
<1>10. ASSUME NEW j \in Jobs, NEW i \in Intervals, CreateJob(j, i) PROVE Inv'
  BY <1>10 DEF CreateJob, Inv, TypeOK, Fresh, Served, runnerVars, history, Active, Times, Never
<1>11. ASSUME AppSleeps \/ RequestWakes PROVE Inv'
  BY <1>11 DEF AppSleeps, RequestWakes, Inv, TypeOK, Fresh, Served, jobVars, runnerVars, history,
     Active, Times, Never
<1>12. ASSUME Tick PROVE Inv'
  BY <1>12 DEF Tick, Inv, TypeOK, Fresh, Served, jobVars, runnerVars, history, Active, Times, Never
<1>13. ASSUME UNCHANGED vars PROVE Inv'
  BY <1>13 DEF vars, Inv, TypeOK, Fresh, Served, jobVars, runnerVars, history, Active, Times, Never
<1> QED BY <1>1, <1>2, <1>3, <1>4, <1>5, <1>6, <1>7, <1>8, <1>9, <1>10, <1>11, <1>12, <1>13
        DEF Next, RunnerStep

\* With one runner Inv holds in every reachable state.
LEMMA Invariance ==
  ASSUME NEW r, Runners = {r}
  PROVE  Spec => []Inv
<1>1. Inv /\ [Next]_vars => Inv'
  BY NextInv
<1> QED BY <1>1, InitInv, PTL DEF Spec

-----------------------------------------------------------------------------
\* Every variable of the recurring scheduler keeps its type.
THEOREM TypeCorrect ==
  ASSUME NEW r, Runners = {r}
  PROVE  Spec => []TypeOK
<1>1. Inv => TypeOK
  BY DEF Inv
<1> QED BY <1>1, Invariance, PTL

\* One runner creates at most one task for a slot of a job, for any jobs,
\* intervals, batch limit and number of faults (_fire_due_recurring_schedulers).
THEOREM OneTaskPerSlot ==
  ASSUME NEW r, Runners = {r}
  PROVE  Spec => []SlotFiresOnce
<1>1. Inv => SlotFiresOnce
  BY DEF Inv, Served, SlotFiresOnce
<1> QED BY <1>1, Invariance, PTL

\* A fire moves last_interval forward to the grid slot its poll was in, so late
\* fires do not shift the schedule and missed slots collapse into one.
THEOREM NeverDrifts ==
  ASSUME NEW r, Runners = {r}
  PROVE  Spec => NoDrift
<1> DEFINE Step == \A j \in Jobs : last'[j] # last[j] =>
             /\ OnGrid(j, last'[j]) /\ last'[j] > last[j]
             /\ \E n \in Runners : pc[n] = "fire" /\ clock[n] < last'[j] + interval[j]
<1>1. Inv /\ [Next]_vars => [Step]_vars
  <2> SUFFICES ASSUME Inv, Next PROVE Step
    BY DEF vars
  <2>1. ASSUME NEW n \in Runners, FireDue(n) PROVE Step
    <3> SUFFICES ASSUME NEW j \in Jobs, last'[j] # last[j]
                 PROVE  /\ OnGrid(j, last'[j]) /\ last'[j] > last[j]
                        /\ pc[n] = "fire" /\ clock[n] < last'[j] + interval[j]
      OBVIOUS
    <3>1. last' = [k \in Jobs |-> IF k \in Slotted(n) THEN Slot(n, k) ELSE last[k]]
      BY <2>1 DEF FireDue
    <3>2. j \in Slotted(n) /\ last'[j] = Slot(n, j)
      BY <3>1
    <3>3. pc[n] = "fire"
      BY <2>1 DEF FireDue
    <3>4. last[j] \in Int /\ Slot(n, j) \in Int
      <4>1. MaxTime \in Nat
        BY RecurringAssumption
      <4>2. last[j] \in {Never} \cup Times /\ Slot(n, j) \in Times
        BY <3>2, <3>3, FiredSlot DEF Inv, TypeOK
      <4> QED BY <4>1, <4>2 DEF Times, Never
    <3>5. OnGrid(j, last'[j])
      BY <3>2, <3>3, <3>4, FiredSlot, RecurringAssumption DEF OnGrid, Times
    <3> QED BY <3>2, <3>3, <3>4, <3>5, FiredSlot
  <2>2. ASSUME UNCHANGED last PROVE Step
    BY <2>2
  <2>3. ASSUME NEW n \in Runners,
               \/ LoopHead(n) \/ SleepOn(n) \/ AlarmRings(n) \/ StartPoll(n) \/ ReadJobs(n)
               \/ CacheNextDue(n) \/ PollFails(n) \/ RunnerRestarts(n)
        PROVE  Step
    <3>1. UNCHANGED last
      BY <2>3 DEF LoopHead, SleepOn, AlarmRings, StartPoll, ReadJobs, CacheNextDue,
                  PollFails, RunnerRestarts, DropPoll, jobVars
    <3> QED BY <2>2, <3>1
  <2>4. ASSUME \/ \E j \in Jobs, i \in Intervals : CreateJob(j, i)
               \/ AppSleeps \/ RequestWakes \/ Tick
        PROVE  Step
    <3>1. UNCHANGED last
      BY <2>4 DEF CreateJob, AppSleeps, RequestWakes, Tick, jobVars
    <3> QED BY <2>2, <3>1
  <2> QED BY <2>1, <2>3, <2>4 DEF Next, RunnerStep
<1> QED BY <1>1, Invariance, PTL DEF Spec, NoDrift
====
