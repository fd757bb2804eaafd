--------------------------- MODULE WorkerShifts_proofs ---------------------------
(***************************************************************************)
(* Proofs about the working day of a worker, for any number of steps,        *)
(* reasons, days and commands, however late events and reconciles come.      *)
(*                                                                         *)
(* First what each function on the tables does to them, then what it keeps:  *)
(* Sane holds in any order of the instants, Sorted where commands were       *)
(* applied in the order of theirs.                                           *)
(***************************************************************************)
EXTENDS WorkerShifts, FiniteSetTheorems, NaturalsInduction, TLAPS

-----------------------------------------------------------------------------
(* Numbers.                                                                   *)

\* A nonempty set of numbers has a least one, and, if bounded, a greatest.
LEMMA LeastNat ==
  ASSUME NEW T \in SUBSET Nat, T # {}
  PROVE  \E x \in T : \A y \in T : x <= y
<1>1. PICK R : /\ IsWellFoundedOn(R, Nat)
               /\ \A x1, y1 \in Nat : <<x1, y1>> \in R <=> x1 < y1
  <2>1. IsWellFoundedOn({ss \in Nat \X Nat : ss[1] < ss[2]}, Nat)
    BY NatLessThanWellFounded DEF OpToRel
  <2> QED BY <2>1
<1>2. PICK x \in T : \A y \in T : ~ (<<y, x>> \in R)
  <2>1. T \subseteq Nat /\ IsWellFoundedOn(R, Nat)
    BY <1>1
  <2> QED BY <2>1, WFMin, Zenon
<1>3. \A y \in T : y \in Nat /\ x \in Nat /\ ~(y < x)
  BY <1>1, <1>2
<1> QED BY <1>3

LEMMA MinOf ==
  ASSUME NEW S \in SUBSET Nat, S # {}
  PROVE  Min(S) \in S /\ \A y \in S : Min(S) <= y
  BY LeastNat DEF Min

LEMMA MaxOf ==
  ASSUME NEW n \in Nat, NEW S \in SUBSET (0..n), S # {}
  PROVE  Max(S) \in S /\ \A y \in S : Max(S) >= y
<1> DEFINE T == {n - y : y \in S}
<1>1. T \in SUBSET Nat /\ T # {}
  <2>1. \A y \in S : n - y \in Nat
    OBVIOUS
  <2> QED BY <2>1
<1>2. PICK x \in T : \A y \in T : x <= y
  <2> HIDE DEF T
  <2> QED BY <1>1, LeastNat
<1>3. PICK z \in S : x = n - z
  OBVIOUS
<1>4. ASSUME NEW y \in S PROVE z >= y
  <2>1. n - y \in T /\ x <= n - y
    BY <1>2
  <2> QED BY <1>3, <2>1
<1> QED BY <1>4 DEF Max

LEMMA TimesAre == /\ MaxTime \in Nat /\ Open \in Nat /\ \A t \in Times : t \in Nat /\ t <= MaxTime /\ t < Open
                  /\ NoShift \notin Times
  BY ShiftAssumption DEF Times, Open, NoShift

\* A day begins at or before, and ends after, every instant of it.
LEMMA DayIs ==
  ASSUME NEW t \in Nat
  PROVE  /\ work_day_start(t) \in Nat /\ work_day_end(t) \in Nat
         /\ work_day_start(t) <= t /\ t < work_day_end(t)
<1>1. DayLength \in Nat /\ DayLength > 0
  BY ShiftAssumption
<1> DEFINE q == t \div DayLength
<1>2. q \in Int /\ DayLength * q <= t /\ t < DayLength * q + DayLength /\ q >= 0
  BY <1>1
<1>3. work_day_start(t) = q * DayLength /\ work_day_end(t) = q * DayLength + DayLength
  BY DEF work_day_start, work_day_end
<1> HIDE DEF q
<1>4. q * DayLength = DayLength * q /\ q * DayLength \in Int /\ q * DayLength >= 0
  BY <1>1, <1>2
<1> QED BY <1>1, <1>2, <1>3, <1>4

-----------------------------------------------------------------------------
(* The tables.                                                                *)

Segs   == [state: {"working", "in_pause", "idle"}, why: Reasons \cup {"none", "step"},
           entered: Times, exited: 0..Open]
Decls  == [why: Reasons, entered: Times, exited: 0..Open]
Recs   == [step: Steps, state: {"working", "paused"}, shiftEnded: BOOLEAN,
           entered: Times, exited: 0..Open]
Closed == [start: Times, end: Times]
TableSet == [rows: SUBSET Segs, started: SUBSET Times, ended: SUBSET Times,
             declared: SUBSET Decls, steps: SUBSET Recs, outbox: BOOLEAN, shifts: SUBSET Closed]

\* What holds of the tables at the instant m in whatever order commands were applied.
Past(d, m) ==
  /\ \A t \in d.started : t <= m
  /\ \A t \in d.ended : t <= m
  /\ \A x \in d.rows : x.entered <= m
  /\ \A x \in d.declared : x.entered <= m
  /\ \A x \in d.steps : x.entered <= m
  /\ \A h \in d.shifts : h.end <= m
Proper(d) == (\A x \in d.rows : x.entered # x.exited) /\ \A x \in d.steps : x.entered # x.exited
InDay(d)  == \A h \in d.shifts : h.end <= work_day_end(h.start)
Left(d)   == \A x \in OpenWorking(d), h \in d.shifts : x.entered \notin h.start..(h.end - 1)
Sane(d, m) == d \in TableSet /\ Past(d, m) /\ Proper(d) /\ InDay(d) /\ Left(d)

LEMMA LeaveIs ==
  ASSUME NEW S, NEW C, NEW at
  PROVE  \A x \in Leave(S, C, at) :
           \/ x \in S /\ x \notin C
           \/ \E y \in C : y.entered # at /\ x = [y EXCEPT !.exited = at]
  BY DEF Leave

LEMMA LeaveSegs ==
  ASSUME NEW S \in SUBSET Segs, NEW C \in SUBSET S, NEW at \in Times
  PROVE  /\ Leave(S, C, at) \in SUBSET Segs
         /\ \A x \in Leave(S, C, at) :
              \/ x \in S /\ x \notin C
              \/ \E y \in C : /\ y.entered # at /\ x.entered = y.entered /\ x.exited = at
                              /\ x.state = y.state /\ x.why = y.why
<1>1. \A y \in C : LET x == [y EXCEPT !.exited = at] IN
        x \in Segs /\ x.entered = y.entered /\ x.exited = at /\ x.state = y.state /\ x.why = y.why
  BY TimesAre DEF Segs, Times, Open
<1>2. ASSUME NEW x \in Leave(S, C, at)
      PROVE  /\ x \in Segs
             /\ \/ x \in S /\ x \notin C
                \/ \E y \in C : /\ y.entered # at /\ x.entered = y.entered /\ x.exited = at
                                /\ x.state = y.state /\ x.why = y.why
  <2>1. CASE x \in S /\ x \notin C
    BY <2>1
  <2>2. ASSUME NEW y \in C, y.entered # at, x = [y EXCEPT !.exited = at]
        PROVE  /\ x \in Segs /\ y.entered # at /\ x.entered = y.entered /\ x.exited = at
               /\ x.state = y.state /\ x.why = y.why
    BY <1>1, <2>2
  <2> QED BY <2>1, <2>2, LeaveIs
<1> QED BY <1>2

LEMMA LeaveDecls ==
  ASSUME NEW S \in SUBSET Decls, NEW C \in SUBSET S, NEW at \in Times
  PROVE  /\ Leave(S, C, at) \in SUBSET Decls
         /\ \A x \in Leave(S, C, at) :
              \/ x \in S /\ x \notin C
              \/ \E y \in C : y.entered # at /\ x.entered = y.entered /\ x.exited = at /\ x.why = y.why
<1>1. \A y \in C : LET x == [y EXCEPT !.exited = at] IN
        x \in Decls /\ x.entered = y.entered /\ x.exited = at /\ x.why = y.why
  BY TimesAre DEF Decls, Times, Open
<1> QED BY <1>1 DEF Leave

LEMMA LeaveRecs ==
  ASSUME NEW S \in SUBSET Recs, NEW C \in SUBSET S, NEW at \in Times
  PROVE  /\ Leave(S, C, at) \in SUBSET Recs
         /\ \A x \in Leave(S, C, at) :
              \/ x \in S /\ x \notin C
              \/ \E y \in C : /\ y.entered # at /\ x.entered = y.entered /\ x.exited = at
                              /\ x.state = y.state /\ x.shiftEnded = y.shiftEnded
<1>1. \A y \in C : LET x == [y EXCEPT !.exited = at] IN
        /\ x \in Recs /\ x.entered = y.entered /\ x.exited = at
        /\ x.state = y.state /\ x.shiftEnded = y.shiftEnded
  BY TimesAre DEF Recs, Times, Open
<1> QED BY <1>1 DEF Leave

\* Working steps C are closed and paused.
Paused(S, C, at, ends, P) ==
  /\ P \in SUBSET Recs
  /\ \A x \in P :
       \/ x \in S /\ x \notin C
       \/ \E y \in C : /\ y.entered # at /\ x.entered = y.entered /\ x.exited = at
                       /\ x.state = y.state /\ x.shiftEnded = y.shiftEnded
       \/ x.state = "paused" /\ x.entered = at /\ x.exited = Open /\ x.shiftEnded = ends

LEMMA PausesAre ==
  ASSUME NEW S \in SUBSET Recs, NEW C \in SUBSET S, NEW at \in Times, NEW ends, ends \in BOOLEAN,
         NEW P, P = PauseSteps(S, C, at, ends)
  PROVE  Paused(S, C, at, ends, P)
<1>1. \A y \in C : LET x == [step |-> y.step, state |-> "paused", shiftEnded |-> ends,
                             entered |-> at, exited |-> Open] IN
        x \in Recs /\ x.state = "paused" /\ x.entered = at /\ x.exited = Open /\ x.shiftEnded = ends
  BY TimesAre DEF Recs, Times, Open
<1>2. \A x \in P :
        \/ x \in Leave(S, C, at)
        \/ \E y \in C : x = [step |-> y.step, state |-> "paused", shiftEnded |-> ends,
                             entered |-> at, exited |-> Open]
  BY DEF PauseSteps
<1> QED BY <1>1, <1>2, LeaveRecs DEF Paused

-----------------------------------------------------------------------------
(* The rebuild.                                                               *)

\* The end of the run of equal labels that begins at t, and where runs begin.
RunEnd(label, end, t) == Min({u \in (t + 1)..end : u = end \/ label[u] # label[t]})
Heads(label, start, end) == {t \in start..(end - 1) : t = start \/ label[t] # label[t - 1]}

LEMMA SegmentsAre ==
  ASSUME NEW start \in Nat, NEW end \in Nat, NEW label
  PROVE  Segments(label, start, end) =
           {Row(label[t][1], label[t][2], t, RunEnd(label, end, t)) : t \in Heads(label, start, end)}
  BY DEF Segments, RunEnd, Heads

LEMMA RunEndIs ==
  ASSUME NEW end \in Nat, NEW label, NEW t \in Nat, t < end
  PROVE  /\ RunEnd(label, end, t) \in (t + 1)..end
         /\ \A u \in (t + 1)..end : u < RunEnd(label, end, t) => label[u] = label[t]
         /\ \A s \in Nat : (t <= s /\ s < end /\ \A u \in (t + 1)..s : label[u] = label[t])
                             => s < RunEnd(label, end, t)
<1> DEFINE S == {u \in (t + 1)..end : u = end \/ label[u] # label[t]}
<1>1. S \in SUBSET Nat /\ end \in S
  OBVIOUS
<1>2. Min(S) \in S /\ \A y \in S : Min(S) <= y
  <2> HIDE DEF S
  <2> QED BY <1>1, MinOf
<1>3. RunEnd(label, end, t) = Min(S)
  BY DEF RunEnd
<1>4. PICK m : m = RunEnd(label, end, t)
  OBVIOUS
<1>5. m \in S /\ \A y \in S : m <= y
  BY <1>2, <1>3, <1>4
<1>6. m \in (t + 1)..end /\ (m = end \/ label[m] # label[t])
  BY <1>5
<1>7. ASSUME NEW u \in (t + 1)..end, u < m PROVE label[u] = label[t]
  BY <1>5, <1>6, <1>7
<1>8. ASSUME NEW s \in Nat, t <= s, s < end, \A u \in (t + 1)..s : label[u] = label[t]
      PROVE  s < m
  <2>1. m <= s => m \in (t + 1)..s /\ m # end
    BY <1>6, <1>8
  <2> QED BY <1>6, <1>8, <2>1
<1> QED BY <1>4, <1>6, <1>7, <1>8

\* Every instant lies in the run of one head, and shows its label.
LEMMA HeadOf ==
  ASSUME NEW start \in Nat, NEW end \in Nat, NEW label, NEW s \in start..(end - 1)
  PROVE  \E t \in Heads(label, start, end) :
           /\ t <= s /\ s < RunEnd(label, end, t) /\ label[s] = label[t]
           /\ \A v \in Heads(label, start, end) : v <= s /\ s < RunEnd(label, end, v) => v = t
<1> DEFINE H == Heads(label, start, end)
           G == {t \in H : t <= s}
<1>1. \A t \in H : t \in start..(end - 1) /\ t \in Nat /\ t < end
  BY DEF Heads
<1>2. start \in G
  BY DEF Heads
<1>3. PICK t \in G : \A v \in G : t >= v
  <2>1. G \in SUBSET (0..s) /\ G # {} /\ s \in Nat
    BY <1>1, <1>2
  <2> HIDE DEF G
  <2> QED BY <2>1, MaxOf
<1>4. t \in Nat /\ t \in start..(end - 1) /\ t <= s /\ t \in H
  BY <1>1, <1>3
<1> HIDE DEF H
<1>5. \A u \in (t + 1)..s : label[u] = label[t]
  <2> DEFINE B == {u \in (t + 1)..s : label[u] # label[t]}
  <2> SUFFICES ASSUME B # {} PROVE FALSE
    OBVIOUS
  <2>1. PICK u \in B : \A v \in B : u <= v
    <3>1. B \in SUBSET Nat
      BY <1>4
    <3> HIDE DEF B
    <3> QED BY <3>1, LeastNat
  <2>2. u \in (t + 1)..s /\ label[u] # label[t] /\ u - 1 \in Nat /\ u - 1 >= t /\ u - 1 \notin B
    BY <1>4, <2>1
  <2>3. label[u - 1] = label[t]
    BY <1>4, <2>2
  <2>4. u \in start..(end - 1)
    BY <1>4, <2>2
  <2>5. u \in H
    BY <2>2, <2>3, <2>4 DEF H, Heads
  <2> QED BY <1>3, <1>4, <2>2, <2>5
<1>6. s < RunEnd(label, end, t)
  <2>1. s \in Nat /\ s < end /\ t < end
    BY <1>4
  <2> QED BY <1>4, <1>5, <2>1, RunEndIs
<1>7. label[s] = label[t]
  BY <1>4, <1>5
<1>8. ASSUME NEW v \in H, v <= s, s < RunEnd(label, end, v) PROVE v = t
  <2>1. v \in Nat /\ v < end /\ v <= t
    BY <1>1, <1>3, <1>8
  <2>2. \A u \in (v + 1)..end : u < RunEnd(label, end, v) => label[u] = label[v]
    BY <2>1, RunEndIs
  <2>3. RunEnd(label, end, v) \in Nat
    BY <2>1, RunEndIs
  <2>4. CASE v < t
    <3>1. label[t] = label[v]
      BY <1>4, <1>8, <2>1, <2>2, <2>3, <2>4
    <3>2. label[t - 1] = label[v]
      <4>1. CASE t - 1 = v
        BY <4>1
      <4>2. CASE t - 1 # v
        BY <1>4, <1>8, <2>1, <2>2, <2>3, <2>4, <4>2
      <4> QED BY <4>1, <4>2
    <3>3. t # start
      BY <1>1, <1>8, <2>4
    <3> QED BY <1>4, <3>1, <3>2, <3>3 DEF H, Heads
  <2> QED BY <1>4, <2>1, <2>4
<1> QED BY <1>4, <1>6, <1>7, <1>8 DEF H

\* The pause that gives a segment its reason is one of the pauses.
LEMMA OwnerIs ==
  ASSUME NEW P, P # {}, \A p \in P : p.priority \in 0..2 /\ p.from \in Nat
  PROVE  PauseOwner(P) \in P
<1> DEFINE M == {p.priority : p \in P}
<1>1. PICK m \in M : \A n \in M : m >= n
  <2>1. M \in SUBSET (0..2) /\ M # {}
    OBVIOUS
  <2> HIDE DEF M
  <2> QED BY <2>1, MaxOf
<1> DEFINE Q == {p \in P : p.priority = m}
           F == {p.from : p \in Q}
<1>2. PICK f \in F : \A g \in F : f <= g
  <2>1. F \in SUBSET Nat /\ F # {}
    OBVIOUS
  <2> HIDE DEF F
  <2> QED BY <2>1, LeastNat
<1>3. PICK p \in Q : p.from = f
  OBVIOUS
<1>4. ASSUME NEW q \in P
      PROVE  \/ p.priority > q.priority
             \/ p.priority = q.priority /\ p.from <= q.from
  <2>1. p.priority = m /\ m >= q.priority /\ m \in 0..2 /\ q.priority \in 0..2
    BY <1>1, <1>3
  <2>2. q.priority = m => q.from \in F /\ f <= q.from
    BY <1>2
  <2> QED BY <1>3, <2>1, <2>2
<1>5. p \in P
  BY <1>3
<1> HIDE DEF Q, F, M
<1> QED BY <1>4, <1>5 DEF PauseOwner

Labels == {"working", "in_pause", "idle"} \X (Reasons \cup {"none", "step"})

LEMMA IntervalsAre ==
  ASSUME NEW d \in TableSet, NEW start \in Times, NEW end \in Times,
         NEW i \in SweepIntervals(d, start, end)
  PROVE  /\ i.from \in start..(end - 1) /\ i.from \in Nat /\ i.to \in Nat /\ i.from < i.to
         /\ i.priority \in 0..2 /\ i.why \in Reasons \cup {"step"}
<1>1. /\ d.steps \in SUBSET Recs /\ d.declared \in SUBSET Decls /\ d.rows \in SUBSET Segs
      /\ start \in Nat /\ end \in Nat
  BY TimesAre DEF TableSet
<1>2. PICK x, kind, why, priority :
        /\ x.entered \in start..(end - 1) /\ x.exited \in 0..Open
        /\ i = Interval(kind, why, priority, x, end) /\ i.from < i.to
        /\ priority \in 0..2 /\ why \in Reasons \cup {"step"}
  BY <1>1 DEF SweepIntervals, Recs, Decls, Segs
<1>3. x.exited \in Nat
  BY <1>2, TimesAre
<1>4. /\ i.from = x.entered /\ i.to = Min2(x.exited, end)
      /\ i.priority = priority /\ i.why = why
  BY <1>2 DEF Interval
<1> QED BY <1>1, <1>2, <1>3, <1>4 DEF Min2

LEMMA SweepLabels ==
  ASSUME NEW d \in TableSet, NEW start \in Times, NEW end \in Times, NEW t
  PROVE  SweepAt(SweepIntervals(d, start, end), t) \in Labels
<1>1. PICK I : I = SweepIntervals(d, start, end)
  OBVIOUS
<1>2. PICK on : on = {i \in I : i.from <= t /\ t < ActiveEnd(I, i)}
  OBVIOUS
<1>3. PICK paused : paused = {i \in on : i.kind = "paused"}
  OBVIOUS
<1>4. SweepAt(I, t) = IF \E i \in on : i.kind = "working" THEN <<"working", "none">>
                      ELSE IF paused # {} THEN <<"in_pause", PauseOwner(paused).why>>
                      ELSE <<"idle", "none">>
  BY <1>2, <1>3, Zenon DEF SweepAt
<1>5. paused # {} => PauseOwner(paused) \in paused
  <2>1. \A p \in paused : p.priority \in 0..2 /\ p.from \in Nat
    <3>1. \A p \in paused : p \in I
      BY <1>2, <1>3
    <3> QED BY <1>1, <3>1, IntervalsAre
  <2> QED BY <2>1, OwnerIs
<1>6. paused # {} => PauseOwner(paused).why \in Reasons \cup {"step"}
  <2>1. paused # {} => PauseOwner(paused) \in I
    BY <1>2, <1>3, <1>5
  <2> QED BY <1>1, <2>1, IntervalsAre
<1>7. SweepAt(I, t) \in Labels
  BY <1>4, <1>6 DEF Labels
<1> QED BY <1>1, <1>7

-----------------------------------------------------------------------------
(* Closing a shift.                                                           *)

\* The rows a rebuild leaves: those outside the shift, and segments within it.
LEMMA RebuiltIs ==
  ASSUME NEW d \in TableSet, NEW start \in Times, NEW end \in Times,
         NEW e, e = reconstruct_shift_middle(d, start, end)
  PROVE  /\ e = [d EXCEPT !.rows = e.rows] /\ e.rows \in SUBSET Segs
         /\ \A r \in e.rows : \/ r \in d.rows /\ r.entered \notin start..(end - 1)
                              \/ /\ r.entered \in start..(end - 1)
                                 /\ r.entered < r.exited /\ r.exited <= end
<1>1. PICK I : I = SweepIntervals(d, start, end)
  OBVIOUS
<1>2. PICK label : label = [t \in start..(end - 1) |-> SweepAt(I, t)]
  OBVIOUS
<1>3. PICK new : new = Segments(label, start, end)
  OBVIOUS
<1>4. e = [d EXCEPT !.rows = {r \in d.rows : r.entered \notin start..(end - 1)} \cup new]
  BY <1>1, <1>2, <1>3, Zenon DEF reconstruct_shift_middle
<1>5. start \in Nat /\ end \in Nat /\ end <= MaxTime /\ MaxTime \in Nat /\ Open = MaxTime + 1
  BY TimesAre DEF Open
<1>6. \A t \in start..(end - 1) : label[t] \in Labels
  <2>1. \A t : SweepAt(I, t) \in Labels
    BY <1>1, SweepLabels
  <2> QED BY <1>2, <2>1
<1>7. ASSUME NEW r \in new
      PROVE  r \in Segs /\ r.entered \in start..(end - 1) /\ r.entered < r.exited /\ r.exited <= end
  <2>1. PICK t \in Heads(label, start, end) :
          r = Row(label[t][1], label[t][2], t, RunEnd(label, end, t))
    BY <1>3, <1>5, SegmentsAre
  <2>2. t \in start..(end - 1) /\ t \in Nat /\ t < end
    BY <1>5 DEF Heads
  <2>3. PICK u : u = RunEnd(label, end, t)
    OBVIOUS
  <2>4. u \in (t + 1)..end
    BY <1>5, <2>2, <2>3, RunEndIs
  <2>5. label[t][1] \in {"working", "in_pause", "idle"} /\ label[t][2] \in Reasons \cup {"none", "step"}
    BY <1>6, <2>2 DEF Labels
  <2>6. r = [state |-> label[t][1], why |-> label[t][2], entered |-> t, exited |-> u]
    BY <2>1, <2>3 DEF Row
  <2>7. t \in Times /\ u \in 0..Open
    BY <1>5, <2>2, <2>4 DEF Times
  <2>8. r \in Segs
    BY <2>5, <2>6, <2>7 DEF Segs
  <2> QED BY <1>5, <2>2, <2>4, <2>6, <2>8
<1>8. d.rows \in SUBSET Segs /\ e.rows = {r \in d.rows : r.entered \notin start..(end - 1)} \cup new
  BY <1>4 DEF TableSet
<1> QED BY <1>4, <1>7, <1>8

\* What closing the shift [start, at) does to the tables.
Closes(d, start, at, e) ==
  /\ e \in TableSet
  /\ e.started = d.started /\ e.ended = d.ended \cup {at}
  /\ e.shifts = d.shifts \cup {[start |-> start, end |-> at]}
  /\ d.outbox => e.outbox
  /\ \A r \in e.rows : \/ r \in d.rows /\ r.entered < at /\ r.entered \notin start..(at - 1)
                       \/ /\ r.entered \in start..(at - 1)
                          /\ r.entered < r.exited /\ r.exited <= at
  /\ \A x \in e.declared : \/ x \in d.declared /\ x.exited # Open
                           \/ \E y \in d.declared : /\ y.exited = Open /\ x.entered = y.entered
                                                    /\ x.exited = Max2(at, y.entered)
  /\ \A x \in e.steps : \/ x \in d.steps /\ ~(x.exited = Open /\ x.state = "working" /\ x.entered < at)
                        \/ \E y \in d.steps : /\ y.exited = Open /\ y.entered < at
                                              /\ x.entered = y.entered /\ x.exited = at
                        \/ x.state = "paused" /\ x.entered = at /\ x.exited = Open

LEMMA ClampIs ==
  ASSUME NEW d \in TableSet, NEW at \in Times, NEW e, e = ClampDeclared(d, at)
  PROVE  /\ e \in TableSet /\ e = [d EXCEPT !.declared = e.declared]
         /\ \A x \in e.declared :
              \/ x \in d.declared /\ x.exited # Open
              \/ \E y \in d.declared : /\ y.exited = Open /\ x.entered = y.entered
                                       /\ x.exited = Max2(at, y.entered) /\ x.why = y.why
<1>1. \A y \in d.declared : LET x == [y EXCEPT !.exited = Max2(at, y.entered)] IN
        x \in Decls /\ x.entered = y.entered /\ x.exited = Max2(at, y.entered) /\ x.why = y.why
  <2>1. \A y \in d.declared : Max2(at, y.entered) \in 0..Open
    BY TimesAre DEF TableSet, Decls, Max2, Times, Open
  <2> QED BY <2>1 DEF TableSet, Decls
<1>a. ASSUME NEW y \in d.declared, NEW x,
             x = IF y.exited = Open THEN [y EXCEPT !.exited = Max2(at, y.entered)] ELSE y
      PROVE  /\ x \in Decls
             /\ \/ x \in d.declared /\ x.exited # Open
                \/ /\ y.exited = Open /\ x.entered = y.entered
                   /\ x.exited = Max2(at, y.entered) /\ x.why = y.why
  <2>1. y \in Decls
    BY DEF TableSet
  <2>2. CASE y.exited = Open
    BY <1>1, <1>a, <2>2
  <2>3. CASE y.exited # Open
    BY <1>a, <2>1, <2>3
  <2> QED BY <2>2, <2>3
<1>2. e = [d EXCEPT !.declared = {IF x.exited = Open THEN [x EXCEPT !.exited = Max2(at, x.entered)]
                                  ELSE x : x \in d.declared}]
  BY Zenon DEF ClampDeclared
<1>3. PICK S : S = {IF x.exited = Open THEN [x EXCEPT !.exited = Max2(at, x.entered)]
                    ELSE x : x \in d.declared}
  OBVIOUS
<1>4. /\ S \in SUBSET Decls
      /\ \A x \in S :
              \/ x \in d.declared /\ x.exited # Open
              \/ \E y \in d.declared : /\ y.exited = Open /\ x.entered = y.entered
                                       /\ x.exited = Max2(at, y.entered) /\ x.why = y.why
  <2>1. \A x \in S : \E y \in d.declared :
          x = IF y.exited = Open THEN [y EXCEPT !.exited = Max2(at, y.entered)] ELSE y
    BY <1>3
  <2> QED BY <1>a, <2>1
<1>5. e = [d EXCEPT !.declared = S] /\ e.declared = S
  BY <1>2, <1>3 DEF TableSet
<1> QED BY <1>4, <1>5 DEF TableSet

LEMMA Closure ==
  ASSUME NEW d \in TableSet, NEW start \in Times, NEW at \in Times,
         NEW e, e = _close_open_shift(d, start, at)
  PROVE  Closes(d, start, at, e)
<1>1. PICK a : a = ClampDeclared(d, at)
  OBVIOUS
<1>2. PICK b : b = _drop_projections_from(a, at)
  OBVIOUS
<1>3. PICK c : c = reconstruct_shift_middle(b, start, at)
  OBVIOUS
<1>4. PICK W : W = {x \in OpenWorking(d) : x.entered < at}
  OBVIOUS
<1>5. PICK P : P = PauseSteps(c.steps, W, at, TRUE)
  OBVIOUS
<1>6. e = [c EXCEPT !.steps = P, !.outbox = c.outbox \/ W # {}, !.ended = c.ended \cup {at},
                    !.shifts = c.shifts \cup {[start |-> start, end |-> at]}]
  BY <1>1, <1>2, <1>3, <1>4, <1>5, Zenon DEF _close_open_shift
<1>7. /\ a \in TableSet /\ a = [d EXCEPT !.declared = a.declared]
      /\ \A x \in a.declared :
              \/ x \in d.declared /\ x.exited # Open
              \/ \E y \in d.declared : /\ y.exited = Open /\ x.entered = y.entered
                                       /\ x.exited = Max2(at, y.entered) /\ x.why = y.why
  BY <1>1, ClampIs
<1>8. /\ a.rows = d.rows /\ a.started = d.started /\ a.ended = d.ended /\ a.steps = d.steps
      /\ a.outbox = d.outbox /\ a.shifts = d.shifts
  BY <1>7 DEF TableSet
<1>9. /\ b \in TableSet /\ b.rows = {r \in d.rows : r.entered < at} /\ b.declared = a.declared
      /\ b.started = d.started /\ b.ended = d.ended /\ b.steps = d.steps
      /\ b.outbox = d.outbox /\ b.shifts = d.shifts
  BY <1>2, <1>7, <1>8 DEF _drop_projections_from, TableSet
<1>10. /\ c = [b EXCEPT !.rows = c.rows] /\ c.rows \in SUBSET Segs
       /\ \A r \in c.rows : \/ r \in b.rows /\ r.entered \notin start..(at - 1)
                            \/ /\ r.entered \in start..(at - 1)
                               /\ r.entered < r.exited /\ r.exited <= at
  BY <1>3, <1>9, RebuiltIs
<1>11. /\ c \in TableSet /\ c.declared = a.declared
       /\ c.started = d.started /\ c.ended = d.ended /\ c.steps = d.steps
       /\ c.outbox = d.outbox /\ c.shifts = d.shifts
  BY <1>9, <1>10 DEF TableSet
<1>12. W \in SUBSET d.steps /\ \A x \in W : x.exited = Open /\ x.state = "working" /\ x.entered < at
  BY <1>4 DEF OpenWorking, OpenIn
<1>13. /\ P \in SUBSET Recs
       /\ \A x \in P :
            \/ x \in d.steps /\ x \notin W
            \/ \E y \in W : x.entered = y.entered /\ x.exited = at
            \/ x.state = "paused" /\ x.entered = at /\ x.exited = Open
  <2>1. d.steps \in SUBSET Recs
    BY DEF TableSet
  <2>2. P = PauseSteps(d.steps, W, at, TRUE)
    BY <1>5, <1>11
  <2>3. W \in SUBSET d.steps
    BY <1>12
  <2>4. Paused(d.steps, W, at, TRUE, P)
    <3>1. PICK S, ends : S = d.steps /\ ends = TRUE
      OBVIOUS
    <3>2. Paused(S, W, at, ends, P)
      BY <2>1, <2>2, <2>3, <3>1, PausesAre
    <3> QED BY <3>1, <3>2
  <2> QED BY <2>4 DEF Paused
<1>14. \A x \in d.steps \ W : ~(x.exited = Open /\ x.state = "working" /\ x.entered < at)
  BY <1>4 DEF OpenWorking, OpenIn
<1>15. /\ e.rows = c.rows /\ e.started = d.started /\ e.ended = d.ended \cup {at}
       /\ e.declared = a.declared /\ e.steps = P /\ e.outbox = (d.outbox \/ W # {})
       /\ e.shifts = d.shifts \cup {[start |-> start, end |-> at]}
  BY <1>6, <1>11 DEF TableSet
<1>16. [start |-> start, end |-> at] \in Closed
  BY DEF Closed
<1>17. e \in TableSet
  <2>1. /\ c.rows \in SUBSET Segs /\ c.started \in SUBSET Times /\ c.ended \in SUBSET Times
        /\ c.declared \in SUBSET Decls /\ c.shifts \in SUBSET Closed
    BY <1>11 DEF TableSet
  <2>2. PICK B : B = (c.outbox \/ W # {})
    OBVIOUS
  <2>3. B \in BOOLEAN
    BY <2>2
  <2>4. e = [c EXCEPT !.steps = P, !.outbox = B, !.ended = c.ended \cup {at},
                      !.shifts = c.shifts \cup {[start |-> start, end |-> at]}]
    BY <1>6, <2>2
  <2>5. c.ended \cup {at} \in SUBSET Times /\ c.shifts \cup {[start |-> start, end |-> at]} \in SUBSET Closed
    BY <1>16, <2>1
  <2>6. P \in SUBSET Recs
    BY <1>13
  <2> HIDE <1>6, <2>2, <1>13
  <2> QED BY <1>11, <2>3, <2>4, <2>5, <2>6 DEF TableSet
<1>18. \A r \in e.rows : \/ r \in d.rows /\ r.entered < at /\ r.entered \notin start..(at - 1)
                         \/ /\ r.entered \in start..(at - 1)
                            /\ r.entered < r.exited /\ r.exited <= at
  BY <1>9, <1>10, <1>15
<1>19. \A x \in e.steps :
         \/ x \in d.steps /\ ~(x.exited = Open /\ x.state = "working" /\ x.entered < at)
         \/ \E y \in d.steps : /\ y.exited = Open /\ y.entered < at
                               /\ x.entered = y.entered /\ x.exited = at
         \/ x.state = "paused" /\ x.entered = at /\ x.exited = Open
  BY <1>12, <1>13, <1>14, <1>15
<1>20. \A x \in e.declared :
         \/ x \in d.declared /\ x.exited # Open
         \/ \E y \in d.declared : /\ y.exited = Open /\ x.entered = y.entered
                                  /\ x.exited = Max2(at, y.entered)
  BY <1>7, <1>15
<1>21. d.outbox => e.outbox
  BY <1>15
<1> QED BY <1>15, <1>17, <1>18, <1>19, <1>20, <1>21 DEF Closes

-----------------------------------------------------------------------------
(* What holds where commands are applied in the order of their instants.      *)

\* An open row and an open declaration belong to the latest shift begun; while the worker is
\* clocked in no shift has ended since, while he is not one has; closed shifts are apart.
Sorted(d) ==
  /\ \A r \in OpenIn(d.rows), s \in d.started : s <= r.entered
  /\ ClockedIn(d) => d.started # {} /\ \A e \in d.ended : \E s \in d.started : e <= s
  /\ ~ClockedIn(d) => \A s \in d.started : \E e \in d.ended : s <= e
  /\ \A x \in OpenIn(d.declared) : ClockedIn(d) /\ \A s \in d.started : s <= x.entered
  /\ \A h \in d.shifts : h.end \in d.ended
  /\ \A h, k \in d.shifts : h = k \/ h.end <= k.start \/ k.end <= h.start

\* No marker is later than at.
Reached(d, at) == (\A t \in d.started : t <= at) /\ \A t \in d.ended : t <= at
Latest(d, s)   == s \in d.started /\ \A t \in d.started : t <= s

LEMMA StartIs ==
  ASSUME NEW d \in TableSet, ClockedIn(d), NEW at, NEW s, s = ShiftStart(d, at)
  PROVE  s \in Times /\ (Sorted(d) /\ Reached(d, at) => Latest(d, s) /\ s <= at)
<1>1. d.rows \in SUBSET Segs /\ d.started \in SUBSET Times
  BY DEF TableSet
<1>2. PICK M : M = MarkersUpTo(d, at)
  OBVIOUS
<1>3. M \in SUBSET d.started /\ \A t \in M : t <= at
  BY <1>2 DEF MarkersUpTo
<1>4. CASE M # {}
  <2>1. s = Max(M)
    BY <1>2, <1>4, Zenon DEF ShiftStart
  <2>2. MaxTime \in Nat /\ M \in SUBSET (0..MaxTime)
    BY <1>1, <1>3, TimesAre DEF Times
  <2>3. s \in M /\ \A t \in M : s >= t
    BY <1>4, <2>1, <2>2, MaxOf
  <2>4. Reached(d, at) => M = d.started
    BY <1>2 DEF MarkersUpTo, Reached
  <2>5. \A t \in M : t \in Nat
    BY <2>2
  <2> QED BY <1>1, <1>3, <2>3, <2>4, <2>5 DEF Latest
<1>5. CASE M = {}
  <2>1. s = (CHOOSE r \in OpenIn(d.rows) : TRUE).entered
    BY <1>2, <1>5, Zenon DEF ShiftStart
  <2>2. (CHOOSE r \in OpenIn(d.rows) : TRUE) \in OpenIn(d.rows)
    BY DEF ClockedIn
  <2>3. s \in Times
    BY <1>1, <2>1, <2>2 DEF OpenIn, Segs
  <2>4. Sorted(d) /\ Reached(d, at) => M # {}
    BY <1>2 DEF Sorted, Reached, MarkersUpTo
  <2> QED BY <1>5, <2>3, <2>4
<1> QED BY <1>4, <1>5

LEMMA ClosureSane ==
  ASSUME NEW m \in Times, NEW d, Sane(d, m), NEW start \in Times, NEW at \in Times,
         at <= m, at <= work_day_end(start), NEW e, Closes(d, start, at, e)
  PROVE  Sane(e, m) /\ OpenWorking(e) \subseteq OpenWorking(d) /\ OpenIn(e.declared) = {}
<1>1. d \in TableSet /\ e \in TableSet /\ start \in Nat /\ at \in Nat /\ m \in Nat /\ at # Open
  BY TimesAre DEF Sane, Closes
<1>2. /\ \A x \in d.rows : x.entered \in Nat
      /\ \A x \in d.declared : x.entered \in Times
      /\ \A x \in d.steps : x.entered \in Nat
      /\ \A x \in e.rows : x.entered \in Nat
      /\ \A x \in e.steps : x.entered \in Nat
  BY <1>1, TimesAre DEF TableSet, Segs, Decls, Recs
<1>3. Past(e, m)
  <2>1. \A t \in e.started : t <= m
    BY DEF Sane, Past, Closes
  <2>2. \A t \in e.ended : t <= m
    BY DEF Sane, Past, Closes
  <2>3. \A x \in e.rows : x.entered <= m
    <3> SUFFICES ASSUME NEW x \in e.rows PROVE x.entered <= m
      OBVIOUS
    <3>1. \/ x \in d.rows
          \/ x.entered \in start..(at - 1)
      BY DEF Closes
    <3>2. CASE x \in d.rows
      BY <3>2 DEF Sane, Past
    <3>3. CASE x.entered \in start..(at - 1)
      BY <1>1, <1>2, <3>3
    <3> QED BY <3>1, <3>2, <3>3
  <2>4. \A x \in e.declared : x.entered <= m
    BY DEF Sane, Past, Closes
  <2>5. \A x \in e.steps : x.entered <= m
    BY DEF Sane, Past, Closes
  <2>6. \A h \in e.shifts : h.end <= m
    BY DEF Sane, Past, Closes
  <2> QED BY <2>1, <2>2, <2>3, <2>4, <2>5, <2>6 DEF Past
<1>4. Proper(e)
  <2>1. \A x \in e.rows : x.entered # x.exited
    <3> SUFFICES ASSUME NEW x \in e.rows PROVE x.entered # x.exited
      OBVIOUS
    <3>1. x \in d.rows \/ x.entered < x.exited
      BY DEF Closes
    <3> QED BY <1>2, <3>1 DEF Sane, Proper
  <2>2. \A x \in e.steps : x.entered # x.exited
    <3> SUFFICES ASSUME NEW x \in e.steps PROVE x.entered # x.exited
      OBVIOUS
    <3>1. \/ x \in d.steps
          \/ \E y \in d.steps : y.entered < at /\ x.entered = y.entered /\ x.exited = at
          \/ x.entered = at /\ x.exited = Open
      BY DEF Closes
    <3> QED BY <1>1, <1>2, <3>1 DEF Sane, Proper
  <2> QED BY <2>1, <2>2 DEF Proper
<1>5. InDay(e)
  BY DEF Sane, InDay, Closes
<1>6. ASSUME NEW x \in OpenWorking(e) PROVE x \in OpenWorking(d) /\ ~(x.entered < at)
  BY <1>1, <1>6 DEF OpenWorking, OpenIn, Closes
<1>7. Left(e)
  <2> SUFFICES ASSUME NEW x \in OpenWorking(e), NEW h \in e.shifts
               PROVE  x.entered \notin h.start..(h.end - 1)
    BY DEF Left
  <2>1. x.entered \in Nat
    BY <1>2, <1>6 DEF OpenWorking, OpenIn
  <2>2. CASE h \in d.shifts
    BY <1>6, <2>2 DEF Sane, Left
  <2>3. CASE h = [start |-> start, end |-> at]
    BY <1>1, <1>6, <2>1, <2>3
  <2> QED BY <2>2, <2>3 DEF Closes
<1>8. OpenIn(e.declared) = {}
  <2> SUFFICES ASSUME NEW x \in e.declared PROVE x.exited # Open
    BY DEF OpenIn
  <2>1. \/ x.exited # Open
        \/ \E y \in d.declared : x.exited = Max2(at, y.entered)
    BY DEF Closes
  <2>2. \A y \in d.declared : Max2(at, y.entered) \in Times
    BY <1>2 DEF Max2
  <2> QED BY <2>1, <2>2, TimesAre
<1> QED BY <1>1, <1>3, <1>4, <1>5, <1>6, <1>7, <1>8 DEF Sane

LEMMA ClosureSorted ==
  ASSUME NEW m \in Times, NEW d, Sane(d, m), Sorted(d), ClockedIn(d),
         NEW start \in Times, Latest(d, start), NEW at \in Times, start <= at, at <= m,
         at <= work_day_end(start), NEW e, Closes(d, start, at, e)
  PROVE  Sorted(e) /\ ~ClockedIn(e)
<1>1. d \in TableSet /\ start \in Nat /\ at \in Nat /\ at < Open /\ Open \in Nat
  BY TimesAre DEF Sane
<1>2. ~ClockedIn(e)
  <2> SUFFICES ASSUME NEW r \in e.rows PROVE r.exited # Open
    BY DEF ClockedIn, OpenIn
  <2>1. CASE r \in d.rows /\ r.entered < at /\ r.entered \notin start..(at - 1)
    <3>1. r.entered \in Nat
      BY <1>1, <2>1, TimesAre DEF TableSet, Segs
    <3>2. r.entered < start
      BY <1>1, <2>1, <3>1
    <3>3. r.exited = Open => start <= r.entered
      BY <2>1 DEF Sorted, Latest, OpenIn
    <3> QED BY <1>1, <3>1, <3>2, <3>3
  <2>2. CASE r.entered < r.exited /\ r.exited <= at
    BY <1>1, <2>2
  <2> QED BY <2>1, <2>2 DEF Closes
<1>3. OpenIn(e.declared) = {}
  BY ClosureSane
<1>4. \A r \in OpenIn(e.rows), s \in e.started : s <= r.entered
  BY <1>2 DEF ClockedIn
<1>5. at \in e.ended /\ \A s \in e.started : s <= at
  <2>1. e.started = d.started /\ at \in e.ended
    BY DEF Closes
  <2>2. \A s \in d.started : s <= start /\ s \in Nat
    BY <1>1, TimesAre DEF Latest, TableSet
  <2> QED BY <1>1, <2>1, <2>2
<1>6. \A h \in e.shifts : h.end \in e.ended
  BY DEF Closes, Sorted
<1>7. ASSUME NEW h \in d.shifts PROVE h.end <= start
  <2>1. h.end \in d.ended
    BY DEF Sorted
  <2>2. PICK s \in d.started : h.end <= s
    BY <2>1 DEF Sorted
  <2>3. h.end \in Nat /\ s \in Nat /\ s <= start
    BY <1>1, TimesAre DEF TableSet, Closed, Latest
  <2> QED BY <1>1, <2>2, <2>3
<1>8. \A h, k \in e.shifts : h = k \/ h.end <= k.start \/ k.end <= h.start
  <2>1. e.shifts = d.shifts \cup {[start |-> start, end |-> at]}
    BY DEF Closes
  <2>2. \A h, k \in d.shifts : h = k \/ h.end <= k.start \/ k.end <= h.start
    BY DEF Sorted
  <2> QED BY <1>7, <2>1, <2>2
<1> QED BY <1>2, <1>3, <1>4, <1>5, <1>6, <1>8 DEF Sorted

\* What a command at the instant at makes of the tables: sane ones, and sorted ones of sorted.
Keeps(d, at, m, e) ==
  Sane(e, m) /\ (Sorted(d) /\ Reached(d, at) => Sorted(e) /\ Reached(e, at))

\* A stale shift is closed at its own boundary.
LEMMA StaleClosed ==
  ASSUME NEW m \in Times, NEW at \in Times, at <= m, NEW d, Sane(d, m),
         NEW e, e = close_stale_open_shift(d, at)
  PROVE  /\ Keeps(d, at, m, e)
         /\ OpenWorking(e) \subseteq OpenWorking(d) /\ (d.outbox => e.outbox)
         /\ ~Stale(d, at) => e = d
         /\ Stale(d, at) => OpenIn(e.declared) = {}
         /\ Stale(d, at) /\ Sorted(d) /\ Reached(d, at) => ~ClockedIn(e)
<1>1. CASE ~Stale(d, at)
  <2>1. e = d
    BY <1>1, Zenon DEF close_stale_open_shift
  <2> QED BY <1>1, <2>1 DEF Keeps
<1>2. CASE Stale(d, at)
  <2>1. PICK s, b : s = ShiftStart(d, at) /\ b = work_day_end(s)
    OBVIOUS
  <2>2. d \in TableSet /\ ClockedIn(d) /\ b <= at
    BY <1>2, <2>1 DEF Sane, Stale, is_past_work_day_end
  <2>3. s \in Times /\ (Sorted(d) /\ Reached(d, at) => Latest(d, s) /\ s <= at)
    BY <2>1, <2>2, StartIs
  <2>4. s \in Nat /\ at \in Nat /\ m \in Nat /\ at <= MaxTime /\ MaxTime \in Nat
    BY <2>3, TimesAre
  <2>5. b \in Nat /\ s < b
    BY <2>1, <2>4, DayIs
  <2>6. b \in Times /\ b <= m /\ s <= b
    BY <2>2, <2>4, <2>5 DEF Times
  <2>7. e = _close_open_shift(d, s, b)
    BY <1>2, <2>1, Zenon DEF close_stale_open_shift
  <2>8. Closes(d, s, b, e)
    BY <2>2, <2>3, <2>6, <2>7, Closure
  <2>9. b <= work_day_end(s)
    BY <2>1, <2>5
  <2>10. Sane(e, m) /\ OpenWorking(e) \subseteq OpenWorking(d) /\ OpenIn(e.declared) = {}
    BY <2>3, <2>6, <2>8, <2>9, ClosureSane
  <2>11. Sorted(d) /\ Reached(d, at) => Sorted(e) /\ ~ClockedIn(e)
    BY <2>2, <2>3, <2>6, <2>8, <2>9, ClosureSorted
  <2>12. Reached(d, at) => Reached(e, at)
    BY <2>2, <2>8 DEF Reached, Closes
  <2> QED BY <1>2, <2>8, <2>10, <2>11, <2>12 DEF Keeps, Closes
<1> QED BY <1>1, <1>2

-----------------------------------------------------------------------------
(* Clocking in and out.                                                       *)

\* The open segment tells what the worker does.
Live(d) == \A r \in OpenIn(d.rows) :
  LET work == \E x \in OpenWorking(d) : \A s \in d.started : s <= x.entered
  IN  (r.state = "working" <=> work) /\ (r.why \in Reasons <=> ~work /\ OpenIn(d.declared) # {})

Idle(at) == Row("idle", "none", at, Open)

LEMMA IdleIs ==
  ASSUME NEW at \in Times
  PROVE  /\ Idle(at) \in Segs /\ Idle(at).state = "idle" /\ Idle(at).why = "none"
         /\ Idle(at).entered = at /\ Idle(at).exited = Open /\ Idle(at).entered # Idle(at).exited
  BY TimesAre DEF Idle, Row, Segs, Times, Open

LEMMA NoReason == "none" \notin Reasons /\ "step" \notin Reasons
  BY ShiftAssumption

\* A shift begun at the instant s, shown as idle.
Begins(d, s, e) ==
  /\ e \in TableSet
  /\ e.rows = d.rows \cup {Idle(s)} /\ e.started = d.started \cup {s}
  /\ e.ended = d.ended /\ e.declared = d.declared /\ e.steps = d.steps
  /\ e.outbox = d.outbox /\ e.shifts = d.shifts

LEMMA BeginsSane ==
  ASSUME NEW m \in Times, NEW d, Sane(d, m), NEW s \in Times, s <= m, NEW e, Begins(d, s, e)
  PROVE  Sane(e, m) /\ OpenWorking(e) = OpenWorking(d)
<1>1. OpenWorking(e) = OpenWorking(d)
  BY DEF OpenWorking, Begins
<1>2. Past(e, m)
  BY IdleIs DEF Past, Begins, Sane
<1>3. Proper(e)
  BY IdleIs DEF Proper, Begins, Sane
<1>4. InDay(e) /\ Left(e)
  BY <1>1 DEF InDay, Left, Begins, Sane
<1> QED BY <1>1, <1>2, <1>3, <1>4 DEF Begins, Sane

\* It is in order if the worker has none and no marker is later.
LEMMA BeginsSorted ==
  ASSUME NEW m \in Times, NEW d, Sane(d, m), Sorted(d), ~ClockedIn(d),
         NEW s \in Times, NEW at \in Times, s <= at, Reached(d, at), Reached(d, s), NEW e, Begins(d, s, e)
  PROVE  /\ Sorted(e) /\ Reached(e, at) /\ Latest(e, s) /\ ClockedIn(e)
         /\ OpenIn(e.rows) = {Idle(s)} /\ OpenIn(e.declared) = {}
<1>1. OpenIn(e.rows) = {Idle(s)}
  BY IdleIs DEF OpenIn, ClockedIn, Begins
<1>2. ClockedIn(e) /\ OpenIn(e.declared) = {}
  BY <1>1 DEF ClockedIn, Sorted, Begins, OpenIn
<1>3. Latest(e, s) /\ Reached(e, at)
  <2>1. s <= s /\ s \in Nat
    BY TimesAre
  <2> QED BY <2>1 DEF Latest, Reached, Begins
<1>4. \A r \in OpenIn(e.rows), t \in e.started : t <= r.entered
  BY <1>1, <1>3, IdleIs DEF Latest
<1>5. e.started # {} /\ \A t \in e.ended : \E u \in e.started : t <= u
  BY DEF Begins, Reached
<1>6. /\ \A h \in e.shifts : h.end \in e.ended
      /\ \A h, k \in e.shifts : h = k \/ h.end <= k.start \/ k.end <= h.start
  BY DEF Sorted, Begins
<1> QED BY <1>1, <1>2, <1>3, <1>4, <1>5, <1>6 DEF Sorted

LEMMA ClockOutKept ==
  ASSUME NEW m \in Times, NEW at \in Times, at <= m, NEW d, Sane(d, m), ClockedIn(d),
         NEW e, e = clock_out_shift_for_user(d, at)
  PROVE  Keeps(d, at, m, e) /\ (Sorted(d) /\ Reached(d, at) => ~ClockedIn(e))
<1>1. CASE Stale(d, at)
  <2>1. e = close_stale_open_shift(d, at)
    BY <1>1, Zenon DEF clock_out_shift_for_user
  <2> QED BY <1>1, <2>1, StaleClosed
<1>2. CASE ~Stale(d, at)
  <2>1. PICK s : s = ShiftStart(d, at)
    OBVIOUS
  <2>2. d \in TableSet
    BY DEF Sane
  <2>3. s \in Times /\ (Sorted(d) /\ Reached(d, at) => Latest(d, s) /\ s <= at)
    BY <2>1, <2>2, StartIs
  <2>4. ~(work_day_end(s) <= at)
    BY <1>2, <2>1 DEF Stale, is_past_work_day_end
  <2>5. at <= work_day_end(s)
    <3>1. s \in Nat /\ at \in Nat
      BY <2>3, TimesAre
    <3>2. work_day_end(s) \in Nat
      BY <3>1, DayIs
    <3> QED BY <2>4, <3>1, <3>2
  <2>6. e = _close_open_shift(d, s, at)
    BY <1>2, <2>1, Zenon DEF clock_out_shift_for_user
  <2>7. Closes(d, s, at, e)
    BY <2>2, <2>3, <2>6, Closure
  <2>8. Sane(e, m)
    BY <2>3, <2>5, <2>7, ClosureSane
  <2>9. Sorted(d) /\ Reached(d, at) => Sorted(e) /\ ~ClockedIn(e)
    BY <2>3, <2>5, <2>7, ClosureSorted
  <2>10. Reached(d, at) => Reached(e, at)
    <3>1. at <= at
      BY TimesAre
    <3> QED BY <3>1, <2>7 DEF Reached, Closes
  <2> QED BY <2>8, <2>9, <2>10 DEF Keeps
<1> QED BY <1>1, <1>2

LEMMA ClockInBegins ==
  ASSUME NEW d, NEW at \in Times, NEW c \in TableSet, c = close_stale_open_shift(d, at),
         NEW e, e = clock_in_shift_for_user(d, at)
  PROVE  Begins(c, at, e)
<1>1. e = [c EXCEPT !.started = c.started \cup {at}, !.rows = c.rows \cup {Idle(at)}]
  BY Zenon DEF clock_in_shift_for_user, Idle
<1>2. PICK R, T : R = c.rows \cup {Idle(at)} /\ T = c.started \cup {at}
  OBVIOUS
<1>3. R \in SUBSET Segs /\ T \in SUBSET Times
  BY <1>2, IdleIs DEF TableSet
<1>4. e = [c EXCEPT !.started = T, !.rows = R]
  BY <1>1, <1>2
<1>5. /\ e \in TableSet
      /\ e.rows = R /\ e.started = T
      /\ e.ended = c.ended /\ e.declared = c.declared /\ e.steps = c.steps
      /\ e.outbox = c.outbox /\ e.shifts = c.shifts
  BY <1>3, <1>4 DEF TableSet
<1> QED BY <1>2, <1>5 DEF Begins

LEMMA ClockInKept ==
  ASSUME NEW m \in Times, NEW at \in Times, at <= m, NEW d, Sane(d, m), ~ClockedIn(d) \/ Stale(d, at),
         NEW e, e = clock_in_shift_for_user(d, at)
  PROVE  /\ Keeps(d, at, m, e)
         /\ Sorted(d) /\ Reached(d, at) /\ (\A x \in OpenWorking(d) : ~(x.entered >= at)) => Live(e)
<1>1. PICK c : c = close_stale_open_shift(d, at)
  OBVIOUS
<1>2. /\ Keeps(d, at, m, c) /\ OpenWorking(c) \subseteq OpenWorking(d)
      /\ ~Stale(d, at) => c = d
      /\ Stale(d, at) /\ Sorted(d) /\ Reached(d, at) => ~ClockedIn(c)
  BY <1>1, StaleClosed
<1>3. Sorted(d) /\ Reached(d, at) => ~ClockedIn(c)
  BY <1>2
<1>4. Sane(c, m) /\ (Sorted(d) /\ Reached(d, at) => Sorted(c) /\ Reached(c, at))
  BY <1>2 DEF Keeps
<1>6. Begins(c, at, e)
  BY <1>1, <1>4, ClockInBegins DEF Sane
<1>7. Sane(e, m) /\ OpenWorking(e) = OpenWorking(c)
  BY <1>4, <1>6, BeginsSane
<1>8. ASSUME Sorted(d), Reached(d, at)
      PROVE  /\ Sorted(e) /\ Reached(e, at) /\ Latest(e, at)
             /\ OpenIn(e.rows) = {Idle(at)} /\ OpenIn(e.declared) = {}
  <2>1. at <= at
    BY TimesAre
  <2> QED BY <1>3, <1>4, <1>6, <1>8, <2>1, BeginsSorted
<1>9. ASSUME Sorted(d), Reached(d, at), \A x \in OpenWorking(d) : ~(x.entered >= at)
      PROVE  Live(e)
  <2> SUFFICES ASSUME NEW r \in OpenIn(e.rows)
               PROVE  /\ ~(r.state = "working") /\ ~(r.why \in Reasons) /\ OpenIn(e.declared) = {}
                      /\ ~\E x \in OpenWorking(e) : \A s \in e.started : s <= x.entered
    BY Zenon DEF Live
  <2>1. r = Idle(at) /\ OpenIn(e.declared) = {} /\ at \in e.started
    BY <1>8, <1>9 DEF Latest
  <2>2. \A x \in OpenWorking(e) : ~(at <= x.entered)
    <3>1. \A x \in OpenWorking(e) : ~(x.entered >= at)
      BY <1>2, <1>7, <1>9
    <3> QED BY <3>1
  <2> QED BY <2>1, <2>2, IdleIs, NoReason
<1> QED BY <1>7, <1>8, <1>9 DEF Keeps

-----------------------------------------------------------------------------
(* The loop of the reconcile.                                                 *)

LEMMA AutoStartIs ==
  ASSUME NEW d \in TableSet, OpenWorking(d) # {}, NEW s, s = AutoStart(d)
  PROVE  /\ s \in Times /\ \A e \in d.ended : e <= s
         /\ \A m \in Times : (\A e \in d.ended : e <= m) /\ (\E x \in OpenWorking(d) : x.entered <= m) => s <= m
<1>1. PICK W : W = {x.entered : x \in OpenWorking(d)}
  OBVIOUS
<1>2. W \in SUBSET Times /\ W # {} /\ W \in SUBSET Nat
  <2>1. \A x \in OpenWorking(d) : x.entered \in Times
    BY DEF TableSet, Recs, OpenWorking, OpenIn
  <2> QED BY <1>1, <2>1, TimesAre
<1>3. PICK f : f = Min(W)
  OBVIOUS
<1>4. f \in W /\ \A y \in W : f <= y
  BY <1>2, <1>3, MinOf
<1>5. f \in Times /\ f \in Nat /\ \A x \in OpenWorking(d) : f <= x.entered /\ x.entered \in Nat
  <2>1. \A x \in OpenWorking(d) : x.entered \in W
    BY <1>1
  <2> QED BY <1>2, <1>4, <2>1
<1>6. CASE d.ended = {}
  <2>1. s = f
    BY <1>1, <1>3, <1>6, Zenon DEF AutoStart
  <2>2. ASSUME NEW m \in Times, NEW x \in OpenWorking(d), x.entered <= m
        PROVE  s <= m
    BY <1>5, <2>1, <2>2, TimesAre
  <2> QED BY <1>5, <1>6, <2>1, <2>2
<1>7. CASE d.ended # {}
  <2>1. PICK x : x = Max(d.ended)
    OBVIOUS
  <2>2. s = Max2(f, x)
    BY <1>1, <1>3, <1>7, <2>1, Zenon DEF AutoStart
  <2>3. MaxTime \in Nat /\ d.ended \in SUBSET (0..MaxTime)
    BY TimesAre DEF TableSet, Times
  <2>4. x \in d.ended /\ \A y \in d.ended : x >= y
    BY <1>7, <2>1, <2>3, MaxOf
  <2>5. x \in Times /\ x \in Nat /\ \A y \in d.ended : y \in Nat
    BY <2>3, <2>4, TimesAre DEF Times
  <2>6. s \in Times /\ s >= f /\ s >= x /\ (s = f \/ s = x)
    BY <1>5, <2>2, <2>5 DEF Max2
  <2>7. \A e \in d.ended : e <= s
    BY <2>4, <2>5, <2>6, TimesAre
  <2>8. ASSUME NEW m \in Times, \A e \in d.ended : e <= m, NEW y \in OpenWorking(d), y.entered <= m
        PROVE  s <= m
    BY <1>5, <2>4, <2>6, <2>8, TimesAre
  <2> QED BY <2>6, <2>7, <2>8
<1> QED BY <1>6, <1>7

\* The shift that began at s is the worker's current one, whether a segment shows it or not.
Begun(d, s) ==
  /\ Latest(d, s) /\ \A e \in d.ended : e <= s
  /\ \A r \in OpenIn(d.rows) : s <= r.entered
  /\ \A x \in OpenIn(d.declared) : s <= x.entered
  /\ \A h \in d.shifts : h.end \in d.ended
  /\ \A h, k \in d.shifts : h = k \/ h.end <= k.start \/ k.end <= h.start

LEMMA CurrentBegun ==
  ASSUME NEW d \in TableSet, Sorted(d), ClockedIn(d), NEW s \in Times, Latest(d, s)
  PROVE  Begun(d, s)
<1>1. s \in d.started /\ \A t \in d.started : t <= s
  BY DEF Latest
<1>2. ASSUME NEW e \in d.ended PROVE e <= s
  <2>1. PICK u \in d.started : e <= u
    BY DEF Sorted
  <2>2. e \in Nat /\ u \in Nat /\ s \in Nat /\ u <= s
    BY <1>1, TimesAre DEF TableSet
  <2> QED BY <2>1, <2>2
<1>3. ASSUME NEW x \in OpenIn(d.declared) PROVE s <= x.entered
  BY <1>1 DEF Sorted
<1>4. ASSUME NEW r \in OpenIn(d.rows) PROVE s <= r.entered
  BY <1>1 DEF Sorted
<1> QED BY <1>2, <1>3, <1>4 DEF Begun, Sorted

\* A shift begun at the instant s that no segment shows yet.
Opens(d, s, e) ==
  /\ e \in TableSet /\ e.started = d.started \cup {s}
  /\ e.rows = d.rows /\ e.ended = d.ended /\ e.declared = d.declared /\ e.steps = d.steps
  /\ e.outbox = d.outbox /\ e.shifts = d.shifts

LEMMA OpensKept ==
  ASSUME NEW m \in Times, NEW d, Sane(d, m), NEW s \in Times, s <= m, NEW e, Opens(d, s, e)
  PROVE  /\ Sane(e, m) /\ OpenWorking(e) = OpenWorking(d)
         /\ Sorted(d) /\ ~ClockedIn(d) /\ Reached(d, s) => Begun(e, s)
<1>1. OpenWorking(e) = OpenWorking(d)
  BY DEF OpenWorking, Opens
<1>2. Past(e, m)
  BY DEF Past, Opens, Sane
<1>3. Proper(e)
  BY DEF Proper, Opens, Sane
<1>4. InDay(e) /\ Left(e)
  BY <1>1 DEF InDay, Left, Opens, Sane
<1>5. ASSUME Sorted(d), ~ClockedIn(d), Reached(d, s) PROVE Begun(e, s)
  <2>1. Latest(e, s) /\ \A t \in e.ended : t <= s
    <3>1. s <= s
      BY TimesAre
    <3> QED BY <1>5, <3>1 DEF Latest, Reached, Opens
  <2>2. OpenIn(e.rows) = {}
    BY <1>5 DEF ClockedIn, Opens
  <2>3. OpenIn(e.declared) = {}
    BY <1>5 DEF Sorted, Opens
  <2> QED BY <1>5, <2>1, <2>2, <2>3 DEF Begun, Sorted, Opens
<1> QED BY <1>1, <1>2, <1>3, <1>4, <1>5 DEF Opens, Sane

\* What the loop carries from pass to pass.
Laps == [db: TableSet, done: BOOLEAN, start: Times \cup {NoShift}]

\* Where nothing is out of order: the loop goes on with a stale shift only, and ends with the
\* worker clocked out or the start of his current shift in hand.
Tidy(l, at) ==
  /\ Reached(l.db, at)
  /\ ~l.done => l.start = NoShift /\ Sorted(l.db)
  /\ l.done /\ l.start = NoShift => Sorted(l.db) /\ ~ClockedIn(l.db)
  /\ l.done /\ l.start # NoShift => l.start <= at /\ Begun(l.db, l.start)
Ran(l, at) == ~l.done => Stale(l.db, at)
InTime(d, at) == \A x \in OpenWorking(d) : x.entered <= at

\* What becomes of one pass.
Passed(l, at, m, k) ==
  /\ k \in Laps /\ Sane(k.db, m) /\ OpenWorking(k.db) \subseteq OpenWorking(l.db)
  /\ Tidy(l, at) /\ InTime(l.db, at) => Tidy(k, at) /\ Ran(k, at)

LEMMA PassKept ==
  ASSUME NEW m \in Times, NEW at \in Times, at <= m, NEW l \in Laps, Sane(l.db, m),
         NEW k, k = Pass(l, at)
  PROVE  Passed(l, at, m, k)
<1>1. PICK d : d = close_stale_open_shift(l.db, at)
  OBVIOUS
<1>2. PICK s : s = AutoStart(d)
  OBVIOUS
<1>3. PICK o : o = [d EXCEPT !.started = d.started \cup {s}]
  OBVIOUS
<1>4. PICK b : b = [o EXCEPT !.rows = o.rows \cup {Idle(s)}]
  OBVIOUS
<1>5. k = IF l.done THEN l
          ELSE IF ClockedIn(d) THEN [db |-> d, done |-> TRUE, start |-> ShiftStart(d, at)]
          ELSE IF OpenWorking(d) = {} THEN [db |-> d, done |-> TRUE, start |-> NoShift]
          ELSE IF is_past_work_day_end(s, at) THEN [db |-> b, done |-> FALSE, start |-> NoShift]
          ELSE [db |-> o, done |-> TRUE, start |-> s]
  BY <1>1, <1>2, <1>3, <1>4, Zenon DEF Pass, Idle
<1>6. l.db \in TableSet /\ l.done \in BOOLEAN /\ l.start \in Times \cup {NoShift}
  BY DEF Laps
<1>7. /\ Keeps(l.db, at, m, d) /\ OpenWorking(d) \subseteq OpenWorking(l.db)
      /\ ~Stale(l.db, at) => d = l.db
      /\ Stale(l.db, at) /\ Sorted(l.db) /\ Reached(l.db, at) => ~ClockedIn(d)
  BY <1>1, StaleClosed
<1>8. Sane(d, m) /\ d \in TableSet
      /\ (Sorted(l.db) /\ Reached(l.db, at) => Sorted(d) /\ Reached(d, at))
  BY <1>7 DEF Keeps, Sane
<1>9. CASE l.done
  <2>1. k = l
    BY <1>5, <1>9, Zenon
  <2> QED BY <1>9, <2>1 DEF Passed, Ran
<1> DEFINE Ready == ~l.done /\ Tidy(l, at) /\ InTime(l.db, at)
<1>10. Ready => Sorted(d) /\ Reached(d, at) /\ InTime(d, at)
  BY <1>7, <1>8 DEF Tidy, InTime
<1>11. CASE ~l.done /\ ClockedIn(d)
  <2>1. PICK t : t = ShiftStart(d, at)
    OBVIOUS
  <2>2. k = [db |-> d, done |-> TRUE, start |-> t]
    BY <1>5, <1>11, <2>1, Zenon
  <2>3. t \in Times /\ (Sorted(d) /\ Reached(d, at) => Latest(d, t) /\ t <= at)
    BY <1>8, <1>11, <2>1, StartIs
  <2>4. k \in Laps /\ k.db = d /\ k.done = TRUE /\ k.start = t
    BY <1>8, <2>2, <2>3 DEF Laps
  <2>5. Ready => Tidy(k, at) /\ Ran(k, at)
    <3>1. Ready => Begun(d, t) /\ t <= at /\ Reached(d, at)
      BY <1>8, <1>10, <1>11, <2>3, CurrentBegun
    <3>2. t # NoShift
      BY <2>3, TimesAre
    <3> QED BY <2>4, <3>1, <3>2 DEF Tidy, Ran
  <2> QED BY <1>7, <1>8, <1>11, <2>4, <2>5 DEF Passed
<1>12. CASE ~l.done /\ ~ClockedIn(d) /\ OpenWorking(d) = {}
  <2>1. k = [db |-> d, done |-> TRUE, start |-> NoShift]
    BY <1>5, <1>12, Zenon
  <2>2. k \in Laps /\ k.db = d /\ k.done = TRUE /\ k.start = NoShift
    BY <1>8, <2>1 DEF Laps
  <2>3. Ready => Tidy(k, at) /\ Ran(k, at)
    BY <1>10, <1>12, <2>2 DEF Tidy, Ran
  <2> QED BY <1>7, <1>8, <1>12, <2>2, <2>3 DEF Passed
<1> DEFINE Begin == ~l.done /\ ~ClockedIn(d) /\ OpenWorking(d) # {}
<1>13. ASSUME Begin PROVE /\ s \in Times /\ s <= m /\ (\A e \in d.ended : e <= s)
                          /\ Ready => Reached(d, s) /\ s <= at
  <2>1. /\ s \in Times /\ \A e \in d.ended : e <= s
        /\ \A t \in Times : (\A e \in d.ended : e <= t) /\ (\E x \in OpenWorking(d) : x.entered <= t) => s <= t
    BY <1>2, <1>8, <1>13, AutoStartIs
  <2>2. s <= m
    <3>1. \A x \in OpenWorking(d) : x.entered <= m
      BY <1>8 DEF Sane, Past, OpenWorking, OpenIn
    <3>2. \A e \in d.ended : e <= m
      BY <1>8 DEF Sane, Past
    <3> QED BY <1>13, <2>1, <3>1, <3>2
  <2>3. ASSUME Ready PROVE Reached(d, s)
    <3>1. Sorted(d)
      BY <1>10, <2>3
    <3>2. ASSUME NEW t \in d.started PROVE t <= s
      <4>1. PICK e \in d.ended : t <= e
        BY <1>13, <3>1 DEF Sorted
      <4>2. t \in Nat /\ e \in Nat /\ s \in Nat /\ e <= s
        BY <1>8, <2>1, TimesAre DEF TableSet
      <4> QED BY <4>1, <4>2
    <3> QED BY <2>1, <3>2 DEF Reached
  <2>4. ASSUME Ready PROVE s <= at
    BY <1>10, <1>13, <2>1, <2>4 DEF InTime, Reached
  <2> QED BY <2>1, <2>2, <2>3, <2>4
<1>14. ASSUME Begin PROVE Opens(d, s, o)
  <2>1. PICK T : T = d.started \cup {s}
    OBVIOUS
  <2>2. T \in SUBSET Times
    BY <1>8, <1>13, <1>14, <2>1 DEF TableSet
  <2>3. o = [d EXCEPT !.started = T]
    BY <1>3, <2>1
  <2>4. /\ o \in TableSet /\ o.started = T
        /\ o.rows = d.rows /\ o.ended = d.ended /\ o.declared = d.declared /\ o.steps = d.steps
        /\ o.outbox = d.outbox /\ o.shifts = d.shifts
    BY <1>8, <2>2, <2>3 DEF TableSet
  <2> QED BY <2>1, <2>4 DEF Opens
<1>15. CASE Begin /\ is_past_work_day_end(s, at)
  <2>1. k = [db |-> b, done |-> FALSE, start |-> NoShift]
    BY <1>5, <1>15, Zenon
  <2>2. Opens(d, s, o) /\ s \in Times
    BY <1>13, <1>14, <1>15
  <2>3. Begins(d, s, b)
    <3>1. PICK R : R = o.rows \cup {Idle(s)}
      OBVIOUS
    <3>2. R \in SUBSET Segs /\ o \in TableSet
      BY <2>2, <3>1, IdleIs DEF Opens, TableSet
    <3>3. b = [o EXCEPT !.rows = R]
      BY <1>4, <3>1
    <3>4. /\ b \in TableSet /\ b.rows = R
          /\ b.started = o.started /\ b.ended = o.ended /\ b.declared = o.declared /\ b.steps = o.steps
          /\ b.outbox = o.outbox /\ b.shifts = o.shifts
      BY <3>2, <3>3 DEF TableSet
    <3> QED BY <2>2, <3>1, <3>4 DEF Begins, Opens
  <2>4. Sane(b, m) /\ OpenWorking(b) = OpenWorking(d)
    BY <1>8, <1>13, <1>15, <2>2, <2>3, BeginsSane
  <2>5. b \in TableSet
    BY <2>4 DEF Sane
  <2>6. k \in Laps /\ k.db = b /\ k.done = FALSE /\ k.start = NoShift
    BY <2>1, <2>5 DEF Laps
  <2>7. ASSUME Ready PROVE Tidy(k, at) /\ Ran(k, at)
    <3>1. Sorted(b) /\ Reached(b, at) /\ Latest(b, s) /\ ClockedIn(b)
      BY <1>8, <1>10, <1>13, <1>15, <2>2, <2>3, <2>7, BeginsSorted
    <3>2. PICK t : t = ShiftStart(b, at)
      OBVIOUS
    <3>3. t \in Times /\ Latest(b, t)
      BY <2>5, <3>1, <3>2, StartIs
    <3>4. t = s
      <4>1. t <= s /\ s <= t
        BY <3>1, <3>3 DEF Latest
      <4> QED BY <2>2, <3>3, <4>1, TimesAre
    <3>5. Stale(b, at)
      BY <1>15, <3>1, <3>2, <3>4 DEF Stale
    <3> QED BY <2>6, <3>1, <3>5 DEF Tidy, Ran
  <2> QED BY <1>7, <1>15, <2>4, <2>6, <2>7 DEF Passed
<1>16. CASE Begin /\ ~is_past_work_day_end(s, at)
  <2>1. k = [db |-> o, done |-> TRUE, start |-> s]
    BY <1>5, <1>16, Zenon
  <2>2. Opens(d, s, o) /\ s \in Times
    BY <1>13, <1>14, <1>16
  <2>3. /\ Sane(o, m) /\ OpenWorking(o) = OpenWorking(d)
        /\ Sorted(d) /\ ~ClockedIn(d) /\ Reached(d, s) => Begun(o, s)
    BY <1>8, <1>13, <1>16, <2>2, OpensKept
  <2>4. k \in Laps /\ k.db = o /\ k.done = TRUE /\ k.start = s
    <3>1. o \in TableSet
      BY <2>3 DEF Sane
    <3> QED BY <2>1, <2>2, <3>1 DEF Laps
  <2>5. ASSUME Ready PROVE Tidy(k, at) /\ Ran(k, at)
    <3>1. Begun(o, s) /\ s <= at
      BY <1>10, <1>13, <1>16, <2>3, <2>5
    <3>2. Reached(o, at)
      BY <1>10, <2>2, <2>5, <3>1 DEF Reached, Opens
    <3>3. s # NoShift
      BY <2>2, TimesAre
    <3> QED BY <2>4, <3>1, <3>2, <3>3 DEF Tidy, Ran
  <2> QED BY <1>7, <1>16, <2>3, <2>4, <2>5 DEF Passed
<1> QED BY <1>6, <1>9, <1>11, <1>12, <1>15, <1>16

LEMMA PassesAre == Passes \in Nat /\ Passes > 0
<1>1. MaxTime \div DayLength \in Nat
  BY ShiftAssumption
<1> QED BY <1>1 DEF Passes

\* The passes of one reconcile, the first n of them.
Lap(d) == [db |-> d, done |-> FALSE, start |-> NoShift]
Runs(f, n, d, at) == f = [i \in 0..n |-> IF i = 0 THEN Lap(d) ELSE Pass(f[i - 1], at)]
HasRun(n, d, at)  == \E f : Runs(f, n, d, at)

LEMMA RunsExist ==
  ASSUME NEW d, NEW at, NEW n \in Nat
  PROVE  HasRun(n, d, at)
<1> SUFFICES ASSUME ~HasRun(n, d, at) PROVE FALSE
  OBVIOUS
<1>1. PICK T : T = {i \in Nat : ~HasRun(i, d, at)}
  OBVIOUS
<1>2. PICK i \in T : \A j \in T : i <= j
  BY <1>1, LeastNat
<1>3. i \in Nat /\ ~HasRun(i, d, at)
  BY <1>1
<1>4. i # 0
  <2>1. Runs([j \in 0..0 |-> Lap(d)], 0, d, at)
    <3>1. \A j \in 0..0 : j = 0
      OBVIOUS
    <3> QED BY <3>1, Zenon DEF Runs
  <2> QED BY <1>3, <2>1 DEF HasRun
<1>5. i - 1 \in Nat /\ HasRun(i - 1, d, at)
  BY <1>1, <1>2, <1>3, <1>4
<1>6. PICK f : Runs(f, i - 1, d, at)
  BY <1>5 DEF HasRun
<1>7. PICK p : p = Pass(f[i - 1], at)
  OBVIOUS
<1>8. PICK g : g = [j \in 0..i |-> IF j = i THEN p ELSE f[j]]
  OBVIOUS
<1>9. ASSUME NEW j \in 0..i PROVE g[j] = IF j = 0 THEN Lap(d) ELSE Pass(g[j - 1], at)
  <2>1. CASE j = i
    <3>1. g[j] = p /\ g[j - 1] = f[j - 1] /\ j # 0
      BY <1>3, <1>4, <1>8, <2>1
    <3>2. f[j - 1] = f[i - 1]
      BY <2>1
    <3> QED BY <1>7, <3>1, <3>2
  <2>2. CASE j # i
    <3>1. j \in 0..(i - 1) /\ g[j] = f[j]
      BY <1>3, <1>8, <2>2
    <3>2. f[j] = IF j = 0 THEN Lap(d) ELSE Pass(f[j - 1], at)
      BY <1>6, <3>1, Zenon DEF Runs
    <3>3. j # 0 => g[j - 1] = f[j - 1]
      BY <1>3, <1>8, <2>2
    <3> QED BY <3>1, <3>2, <3>3
  <2> QED BY <2>1, <2>2
<1>10. Runs(g, i, d, at)
  <2>1. g = [j \in 0..i |-> g[j]]
    BY <1>8
  <2>2. PICK h : h = [j \in 0..i |-> IF j = 0 THEN Lap(d) ELSE Pass(g[j - 1], at)]
    OBVIOUS
  <2>3. \A j \in 0..i : h[j] = g[j]
    BY <1>9, <2>2, Zenon
  <2>4. h = [j \in 0..i |-> h[j]]
    BY <2>2
  <2>5. h = g
    BY <2>1, <2>3, <2>4
  <2> QED BY <2>2, <2>5, Zenon DEF Runs
<1> QED BY <1>3, <1>10 DEF HasRun

\* Nothing the reconcile finds is later than its instant.
Ordered(d, at) == Sorted(d) /\ Reached(d, at) /\ InTime(d, at)

\* What a reconcile of d has in hand when its loop is over.
Looped(d, at, m, l) ==
  /\ l \in Laps /\ Sane(l.db, m) /\ OpenWorking(l.db) \subseteq OpenWorking(d)
  /\ Ordered(d, at) => Tidy(l, at) /\ Ran(l, at)

\* Its passes one after the other.
Lapping(f, d, at, m) ==
  /\ f[0] = Lap(d) /\ \A i \in 1..Passes : f[i] = Pass(f[i - 1], at)
  /\ \A i \in 0..Passes :
       /\ f[i] \in Laps /\ Sane(f[i].db, m) /\ OpenWorking(f[i].db) \subseteq OpenWorking(d)
       /\ Ordered(d, at) => Tidy(f[i], at) /\ (i # 0 => Ran(f[i], at))

LEMMA LoopRuns ==
  ASSUME NEW m \in Times, NEW at \in Times, at <= m, NEW d, Sane(d, m),
         NEW l, l = ReconcileLoop(d, at)
  PROVE  \E f : Lapping(f, d, at, m) /\ l = f[Passes]
<1>1. PICK f : f = CHOOSE g : Runs(g, Passes, d, at)
  OBVIOUS
<1>2. l = f[Passes]
  BY <1>1, Zenon DEF ReconcileLoop, Runs, Lap
<1>3. Runs(f, Passes, d, at)
  <2>1. \E g : Runs(g, Passes, d, at)
    BY PassesAre, RunsExist DEF HasRun
  <2> QED BY <1>1, <2>1
<1>4. f[0] = Lap(d)
  <2>1. 0 \in 0..Passes
    BY PassesAre
  <2> QED BY <1>3, <2>1, Zenon DEF Runs
<1>5. \A i \in 1..Passes : f[i] = Pass(f[i - 1], at)
  <2>1. \A i \in 1..Passes : i \in 0..Passes /\ i # 0
    BY PassesAre
  <2> QED BY <1>3, <2>1, Zenon DEF Runs
<1> DEFINE Good(i) ==
      /\ f[i] \in Laps /\ Sane(f[i].db, m) /\ OpenWorking(f[i].db) \subseteq OpenWorking(d)
      /\ Ordered(d, at) => Tidy(f[i], at) /\ (i # 0 => Ran(f[i], at))
<1>6. Good(0)
  <2>1. d \in TableSet
    BY DEF Sane
  <2>2. Lap(d) \in Laps /\ Lap(d).db = d /\ Lap(d).done = FALSE /\ Lap(d).start = NoShift
    BY <2>1 DEF Lap, Laps
  <2> QED BY <1>4, <2>2 DEF Tidy, Ordered
<1>7. ASSUME NEW i \in 1..Passes, Good(i - 1) PROVE Good(i)
  <2>1. PICK a, b : a = f[i - 1] /\ b = f[i]
    OBVIOUS
  <2>2. b = Pass(a, at) /\ i # 0
    BY <1>5, <2>1
  <2>3. /\ a \in Laps /\ Sane(a.db, m) /\ OpenWorking(a.db) \subseteq OpenWorking(d)
        /\ Ordered(d, at) => Tidy(a, at)
    BY <1>7, <2>1
  <2>4. Passed(a, at, m, b)
    BY <2>2, <2>3, PassKept
  <2>5. Ordered(d, at) => InTime(a.db, at)
    BY <2>3 DEF Ordered, InTime
  <2>6. /\ b \in Laps /\ Sane(b.db, m) /\ OpenWorking(b.db) \subseteq OpenWorking(d)
        /\ Ordered(d, at) => Tidy(b, at) /\ Ran(b, at)
    BY <2>3, <2>4, <2>5 DEF Passed
  <2> QED BY <2>1, <2>6
<1> HIDE DEF Good
<1>8. \A i \in 0..Passes : Good(i)
  <2> SUFFICES ASSUME NEW k \in 0..Passes, ~Good(k) PROVE FALSE
    OBVIOUS
  <2>1. PICK T : T = {i \in Nat : i <= Passes /\ ~Good(i)}
    OBVIOUS
  <2>2. k \in T /\ T \in SUBSET Nat
    BY <2>1
  <2>3. PICK i \in T : \A j \in T : i <= j
    BY <2>2, LeastNat
  <2>4. i \in Nat /\ i <= Passes /\ ~Good(i) /\ i # 0
    BY <1>6, <2>1
  <2>5. i \in 1..Passes /\ i - 1 \in Nat /\ i - 1 <= Passes /\ ~(i <= i - 1)
    BY <2>4, PassesAre
  <2>6. Good(i - 1)
    BY <2>1, <2>3, <2>5
  <2> QED BY <1>7, <2>4, <2>5, <2>6
<1>9. Lapping(f, d, at, m)
  BY <1>4, <1>5, <1>8 DEF Good, Lapping
<1> QED BY <1>2, <1>9

LEMMA LoopKept ==
  ASSUME NEW m \in Times, NEW at \in Times, at <= m, NEW d, Sane(d, m),
         NEW l, l = ReconcileLoop(d, at)
  PROVE  Looped(d, at, m, l)
<1>1. PICK f : Lapping(f, d, at, m) /\ l = f[Passes]
  BY LoopRuns
<1>2. Passes \in 0..Passes /\ Passes # 0
  BY PassesAre
<1> QED BY <1>1, <1>2 DEF Lapping, Looped

-----------------------------------------------------------------------------
(* The segment a reconcile leaves open.                                       *)

\* It is in the state and for the reason that the records of the shift call for.
Tells(work, decl, state, why) ==
  /\ state \in {"working", "in_pause", "idle"} /\ why \in Reasons \cup {"none", "step"}
  /\ state = "working" <=> work # {}
  /\ why \in Reasons <=> work = {} /\ decl # {}
  /\ why \in Reasons => state = "in_pause" /\ \E x \in decl : why = x.why

Shows(r, state, why) == r.state = state /\ ({why, r.why} \cap Reasons # {} => r.why = why)

\* What Project makes of the shift that began at s.
Projected(d, s, at, e) ==
  LET decl == {x \in OpenIn(d.declared) : x.entered >= s}
      work == {x \in OpenWorking(d) : x.entered >= s}
  IN  \E state, why :
        /\ Tells(work, decl, state, why)
        /\ e.started = d.started /\ e.ended = d.ended /\ e.steps = d.steps
        /\ e.outbox = d.outbox /\ e.shifts = d.shifts
        /\ e.declared = IF state = "working" THEN Leave(d.declared, decl, at) ELSE d.declared
        /\ \/ e.rows = d.rows /\ \E r \in OpenIn(d.rows) : Shows(r, state, why)
           \/ /\ \A r \in OpenIn(d.rows) : ~Shows(r, state, why)
              /\ e.rows = Leave(d.rows, OpenIn(d.rows), at) \cup {Row(state, why, at, Open)}

LEMMA ProjectIs ==
  ASSUME NEW d \in TableSet, NEW s \in Times, NEW at \in Times, NEW e, e = Project(d, s, at)
  PROVE  e \in TableSet /\ Projected(d, s, at, e)
<1>1. PICK decl : decl = {x \in OpenIn(d.declared) : x.entered >= s}
  OBVIOUS
<1>2. PICK work : work = {x \in OpenWorking(d) : x.entered >= s}
  OBVIOUS
<1>3. PICK pause : pause = {x \in OpenIn(d.steps) : x.state = "paused" /\ x.entered >= s}
  OBVIOUS
<1>4. PICK target : target = derive_target_state(work, decl, pause)
  OBVIOUS
<1>5. PICK why : why = IF work = {} /\ decl # {} THEN (CHOOSE x \in decl : TRUE).why
                       ELSE IF target = "in_pause" THEN "step" ELSE "none"
  OBVIOUS
<1>6. PICK source : source = IF target = "working" THEN Leave(d.declared, decl, at) ELSE d.declared
  OBVIOUS
<1>7. PICK kept : kept = {r \in OpenIn(d.rows) : Shows(r, target, why)}
  OBVIOUS
<1>8. PICK R : R = Leave(d.rows, OpenIn(d.rows), at) \cup {Row(target, why, at, Open)}
  OBVIOUS
<1>9. e = IF kept # {} THEN [d EXCEPT !.declared = source]
          ELSE [d EXCEPT !.declared = source, !.rows = R]
  BY <1>1, <1>2, <1>3, <1>4, <1>5, <1>6, <1>7, <1>8, Zenon DEF Project, Shows
<1>10. Tells(work, decl, target, why)
  <2>1. target \in {"working", "in_pause", "idle"} /\ (target = "working" <=> work # {})
    BY <1>4 DEF derive_target_state
  <2>2. CASE work = {} /\ decl # {}
    <3>1. (CHOOSE x \in decl : TRUE) \in decl
      BY <2>2
    <3>2. \A x \in decl : x.why \in Reasons
      BY <1>1 DEF TableSet, Decls, OpenIn
    <3>3. why = (CHOOSE x \in decl : TRUE).why
      BY <1>5, <2>2
    <3>4. target = "in_pause"
      BY <1>4, <2>2 DEF derive_target_state
    <3> QED BY <2>1, <2>2, <3>1, <3>2, <3>3, <3>4 DEF Tells
  <2>3. CASE ~(work = {} /\ decl # {})
    <3>1. why \in {"none", "step"}
      BY <1>5, <2>3
    <3> QED BY <2>1, <2>3, <3>1, NoReason DEF Tells
  <2> QED BY <2>2, <2>3
<1>11. source \in SUBSET Decls
  <2>1. d.declared \in SUBSET Decls /\ decl \in SUBSET d.declared
    BY <1>1 DEF TableSet, OpenIn
  <2> QED BY <1>6, <2>1, LeaveDecls
<1>12. R \in SUBSET Segs
  <2>1. d.rows \in SUBSET Segs /\ OpenIn(d.rows) \in SUBSET d.rows
    BY DEF TableSet, OpenIn
  <2>2. Leave(d.rows, OpenIn(d.rows), at) \in SUBSET Segs
    BY <2>1, LeaveSegs
  <2>3. Row(target, why, at, Open) \in Segs
    BY <1>10, TimesAre DEF Row, Segs, Tells, Times, Open
  <2> QED BY <1>8, <2>2, <2>3
<1>13. PICK Q : Q = IF kept # {} THEN d.rows ELSE R
  OBVIOUS
<1>14. Q \in SUBSET Segs
  BY <1>12, <1>13 DEF TableSet
<1>15. e = [d EXCEPT !.declared = source, !.rows = Q]
  <2>1. CASE kept # {}
    <3>1. e = [d EXCEPT !.declared = source] /\ Q = d.rows
      BY <1>9, <1>13, <2>1
    <3> QED BY <3>1, <1>11 DEF TableSet
  <2>2. CASE kept = {}
    BY <1>9, <1>13, <2>2
  <2> QED BY <2>1, <2>2
<1>16. /\ e \in TableSet /\ e.declared = source /\ e.rows = Q
       /\ e.started = d.started /\ e.ended = d.ended /\ e.steps = d.steps
       /\ e.outbox = d.outbox /\ e.shifts = d.shifts
  BY <1>11, <1>14, <1>15 DEF TableSet
<1>17. \/ e.rows = d.rows /\ \E r \in OpenIn(d.rows) : Shows(r, target, why)
       \/ (\A r \in OpenIn(d.rows) : ~Shows(r, target, why)) /\ e.rows = R
  BY <1>7, <1>13, <1>16
<1> QED BY <1>1, <1>2, <1>6, <1>8, <1>10, <1>16, <1>17, Zenon DEF Projected

\* In whatever order.
LEMMA ProjectSane ==
  ASSUME NEW m \in Times, NEW at \in Times, at <= m, NEW d, Sane(d, m), NEW s \in Times,
         NEW e \in TableSet, Projected(d, s, at, e)
  PROVE  Sane(e, m)
<1>1. PICK decl, work : /\ decl = {x \in OpenIn(d.declared) : x.entered >= s}
                        /\ work = {x \in OpenWorking(d) : x.entered >= s}
  OBVIOUS
<1>2. PICK state, why :
        /\ e.started = d.started /\ e.ended = d.ended /\ e.steps = d.steps
        /\ e.outbox = d.outbox /\ e.shifts = d.shifts
        /\ e.declared = IF state = "working" THEN Leave(d.declared, decl, at) ELSE d.declared
        /\ e.rows = d.rows \/ e.rows = Leave(d.rows, OpenIn(d.rows), at) \cup {Row(state, why, at, Open)}
  BY <1>1, Zenon DEF Projected
<1>3. /\ d \in TableSet /\ d.rows \in SUBSET Segs /\ d.declared \in SUBSET Decls
      /\ OpenIn(d.rows) \in SUBSET d.rows /\ decl \in SUBSET d.declared
  BY <1>1 DEF Sane, TableSet, OpenIn
<1>4. \A x \in e.declared : x.entered <= m
  <2>1. \A x \in Leave(d.declared, decl, at) : \E y \in d.declared : x.entered = y.entered
    BY <1>3, LeaveDecls
  <2> QED BY <1>2, <2>1 DEF Sane, Past
<1>5. \A x \in e.rows : x.entered <= m /\ x.entered # x.exited
  <2>1. \A x \in Leave(d.rows, OpenIn(d.rows), at) :
          x \in d.rows \/ \E y \in d.rows : y.entered # at /\ x.entered = y.entered /\ x.exited = at
    BY <1>3, LeaveSegs
  <2>2. Row(state, why, at, Open).entered = at /\ Row(state, why, at, Open).exited = Open /\ at # Open
    BY TimesAre DEF Row
  <2> QED BY <1>2, <2>1, <2>2 DEF Sane, Past, Proper
<1>6. Past(e, m)
  BY <1>2, <1>4, <1>5 DEF Sane, Past
<1>7. Proper(e)
  BY <1>2, <1>5 DEF Sane, Proper
<1>8. InDay(e) /\ Left(e)
  BY <1>2 DEF Sane, InDay, Left, OpenWorking
<1> QED BY <1>6, <1>7, <1>8 DEF Sane

\* In order, and with at most one open segment, as the unique index has it.
LEMMA ProjectSorted ==
  ASSUME NEW m \in Times, NEW at \in Times, at <= m, NEW d, Sane(d, m), NEW s \in Times,
         Begun(d, s), Reached(d, at), s <= at,
         NEW e \in TableSet, Projected(d, s, at, e), \A r, q \in OpenIn(e.rows) : r = q
  PROVE  Sorted(e) /\ Reached(e, at) /\ Live(e)
<1>1. PICK decl, work : /\ decl = {x \in OpenIn(d.declared) : x.entered >= s}
                        /\ work = {x \in OpenWorking(d) : x.entered >= s}
  OBVIOUS
<1>2. PICK state, why :
        /\ Tells(work, decl, state, why)
        /\ e.started = d.started /\ e.ended = d.ended /\ e.steps = d.steps
        /\ e.outbox = d.outbox /\ e.shifts = d.shifts
        /\ e.declared = IF state = "working" THEN Leave(d.declared, decl, at) ELSE d.declared
        /\ \/ e.rows = d.rows /\ \E r \in OpenIn(d.rows) : Shows(r, state, why)
           \/ e.rows = Leave(d.rows, OpenIn(d.rows), at) \cup {Row(state, why, at, Open)}
  BY <1>1, Zenon DEF Projected
<1>3. /\ d \in TableSet /\ d.rows \in SUBSET Segs /\ d.declared \in SUBSET Decls
      /\ OpenIn(d.rows) \in SUBSET d.rows /\ decl \in SUBSET d.declared
  BY <1>1 DEF Sane, TableSet, OpenIn
<1>4. s \in Nat /\ at \in Nat /\ \A t \in d.started : t \in Nat /\ t <= s
  BY <1>3, TimesAre DEF Begun, Latest, TableSet
<1>5. \A r \in d.rows : r.entered \in Nat
  BY <1>3, TimesAre DEF Segs
<1>6. \A x \in d.declared : x.entered \in Nat
  BY <1>3, TimesAre DEF Decls
<1>7. PICK r \in OpenIn(e.rows) :
        Shows(r, state, why) /\ s <= r.entered /\ r.entered \in Nat
  <2>1. CASE e.rows = d.rows /\ \E r \in OpenIn(d.rows) : Shows(r, state, why)
    BY <1>3, <1>5, <2>1 DEF Begun
  <2>2. CASE e.rows = Leave(d.rows, OpenIn(d.rows), at) \cup {Row(state, why, at, Open)}
    <3>1. PICK r : r = Row(state, why, at, Open)
      OBVIOUS
    <3>2. r.state = state /\ r.why = why /\ r.entered = at /\ r.exited = Open
      BY <3>1 DEF Row
    <3>3. r \in OpenIn(e.rows)
      BY <2>2, <3>1, <3>2 DEF OpenIn
    <3> QED BY <1>4, <3>2, <3>3 DEF Shows
  <2> QED BY <1>2, <2>1, <2>2
<1>8. OpenIn(e.rows) = {r}
  BY <1>7
<1>9. ClockedIn(e)
  BY <1>7 DEF ClockedIn
<1>10. \A q \in OpenIn(e.rows), t \in e.started : t <= q.entered
  BY <1>2, <1>4, <1>7, <1>8
<1>11. e.started # {} /\ \A t \in e.ended : \E u \in e.started : t <= u
  BY <1>2 DEF Begun, Latest
<1>12. OpenIn(e.declared) = IF state = "working" THEN {} ELSE decl
  <2>1. decl = OpenIn(d.declared)
    <3>1. \A x \in OpenIn(d.declared) : x.entered >= s
      BY <1>4, <1>6 DEF Begun, OpenIn
    <3> QED BY <1>1, <3>1
  <2>2. \A x \in Leave(d.declared, decl, at) : x.exited # Open
    <3>1. \A x \in Leave(d.declared, decl, at) :
            \/ x \in d.declared /\ x \notin decl
            \/ x.exited = at
      BY <1>3, LeaveDecls
    <3>2. at # Open
      BY TimesAre
    <3> QED BY <2>1, <3>1, <3>2 DEF OpenIn
  <2> QED BY <1>2, <2>1, <2>2 DEF OpenIn
<1>13. \A x \in OpenIn(e.declared), t \in e.started : t <= x.entered
  <2>1. \A x \in decl : s <= x.entered /\ x.entered \in Nat
    BY <1>1, <1>6 DEF Begun, OpenIn
  <2> QED BY <1>2, <1>4, <1>12, <2>1
<1>14. /\ \A h \in e.shifts : h.end \in e.ended
       /\ \A h, k \in e.shifts : h = k \/ h.end <= k.start \/ k.end <= h.start
  BY <1>2 DEF Begun
<1>15. Sorted(e)
  BY <1>9, <1>10, <1>11, <1>13, <1>14 DEF Sorted
<1>16. Reached(e, at)
  BY <1>2 DEF Reached
<1>17. Live(e)
  <2>1. work # {} <=> \E x \in OpenWorking(e) : \A t \in e.started : t <= x.entered
    <3>1. OpenWorking(e) = OpenWorking(d) /\ e.started = d.started
      BY <1>2 DEF OpenWorking
    <3>2. \A x \in OpenWorking(d) : x.entered \in Nat
      BY <1>3, TimesAre DEF TableSet, Recs, OpenWorking, OpenIn
    <3>3. \A x \in OpenWorking(d) : x.entered >= s <=> \A t \in d.started : t <= x.entered
      BY <1>4, <3>2 DEF Begun, Latest
    <3> QED BY <1>1, <3>1, <3>3
  <2>2. r.state = "working" <=> work # {}
    BY <1>2, <1>7 DEF Tells, Shows
  <2>3. r.why \in Reasons <=> work = {} /\ OpenIn(e.declared) # {}
    <3>1. r.why \in Reasons <=> why \in Reasons
      BY <1>7 DEF Shows
    <3> QED BY <1>2, <1>12, <3>1 DEF Tells
  <2> QED BY <1>8, <2>1, <2>2, <2>3 DEF Live
<1> QED BY <1>15, <1>16, <1>17

\* What a reconcile leaves behind: a worker who is clocked out, a shift past its day, or an
\* open segment that tells the truth.
Settled(e, at) == ~ClockedIn(e) \/ Stale(e, at) \/ Live(e)

LEMMA ReconcileKept ==
  ASSUME NEW m \in Times, NEW at \in Times, at <= m, NEW d, Sane(d, m),
         NEW e, e = reconcile_worker_shift_state(d, at), ChecksHold(e)
  PROVE  Sane(e, m) /\ (Ordered(d, at) => Sorted(e) /\ Reached(e, at) /\ Settled(e, at))
<1>1. PICK l : l = ReconcileLoop(d, at)
  OBVIOUS
<1>2. Looped(d, at, m, l)
  BY <1>1, LoopKept
<1>3. e = IF l.start = NoShift THEN l.db ELSE Project(l.db, l.start, at)
  BY <1>1, Zenon DEF reconcile_worker_shift_state
<1>4. l.start \in Times \cup {NoShift} /\ l.done \in BOOLEAN /\ Sane(l.db, m) /\ l.db \in TableSet
  BY <1>2 DEF Looped, Laps
<1>5. Ordered(d, at) => Tidy(l, at) /\ Ran(l, at)
  BY <1>2 DEF Looped
<1>6. CASE l.start = NoShift
  <2>1. e = l.db
    BY <1>3, <1>6
  <2> QED BY <1>4, <1>5, <1>6, <2>1 DEF Tidy, Ran, Settled
<1>7. CASE l.start # NoShift
  <2>1. PICK b, s : b = l.db /\ s = l.start
    OBVIOUS
  <2>2. e = Project(b, s, at) /\ b \in TableSet /\ s \in Times /\ Sane(b, m)
    BY <1>3, <1>4, <1>7, <2>1
  <2>3. e \in TableSet /\ Projected(b, s, at, e)
    BY <2>2, ProjectIs
  <2>4. Sane(e, m)
    BY <2>2, <2>3, ProjectSane
  <2>5. ASSUME Ordered(d, at) PROVE Sorted(e) /\ Reached(e, at) /\ Live(e)
    <3>1. Begun(b, s) /\ Reached(b, at) /\ s <= at
      BY <1>4, <1>5, <1>7, <2>1, <2>5 DEF Tidy, Ran
    <3>2. \A r, q \in OpenIn(e.rows) : r = q
      BY DEF ChecksHold
    <3> QED BY <2>2, <2>3, <3>1, <3>2, ProjectSorted
  <2> QED BY <2>4, <2>5 DEF Settled
<1> QED BY <1>6, <1>7

-----------------------------------------------------------------------------
(* Declared states.                                                           *)

\* The declarations C of d are left at the instant at, and perhaps one is made.
LEMMA DeclaredKept ==
  ASSUME NEW m \in Times, NEW at \in Times, at <= m, NEW d, Sane(d, m), NEW why \in Reasons,
         NEW e, e = Declared(d, why, at)
  PROVE  Sane(e, m) /\ (Sorted(d) /\ Reached(d, at) /\ ClockedIn(d) => Ordered(e, at))
<1>1. PICK O, W : O = OpenIn(d.declared) /\ W = OpenWorking(d)
  OBVIOUS
<1>2. PICK n : n = [why |-> why, entered |-> at, exited |-> Open]
  OBVIOUS
<1>3. PICK D : D = Leave(d.declared, O, at) \cup {n}
  OBVIOUS
<1>4. PICK P, ends : P = PauseSteps(d.steps, W, at, ends) /\ ends = FALSE
  OBVIOUS
<1>5. PICK B : B = (d.outbox \/ W # {})
  OBVIOUS
<1>6. e = [d EXCEPT !.declared = D, !.steps = P, !.outbox = B]
  BY <1>1, <1>2, <1>3, <1>4, <1>5, Zenon DEF Declared
<1>7. /\ d \in TableSet /\ d.declared \in SUBSET Decls /\ d.steps \in SUBSET Recs /\ d.outbox \in BOOLEAN
      /\ O \in SUBSET d.declared /\ W \in SUBSET d.steps
  BY <1>1 DEF Sane, TableSet, OpenIn, OpenWorking
<1>8. n \in Decls /\ n.entered = at /\ n.exited = Open /\ at # Open
  BY <1>2, TimesAre DEF Decls, Times, Open
<1>9. /\ Leave(d.declared, O, at) \in SUBSET Decls
      /\ \A x \in Leave(d.declared, O, at) :
           \/ x \in d.declared /\ x \notin O
           \/ \E y \in O : x.entered = y.entered /\ x.exited = at
  BY <1>7, LeaveDecls
<1>10. /\ D \in SUBSET Decls
       /\ \A x \in D : \/ x = n
                       \/ x \in d.declared /\ x.exited # Open
                       \/ \E y \in d.declared : x.entered = y.entered /\ x.exited = at
  BY <1>1, <1>3, <1>7, <1>8, <1>9 DEF OpenIn
<1>11. Paused(d.steps, W, at, ends, P)
  <2>1. PICK S : S = d.steps
    OBVIOUS
  <2>2. Paused(S, W, at, ends, P)
    BY <1>4, <1>7, <2>1, PausesAre
  <2> QED BY <2>1, <2>2
<1>12. /\ P \in SUBSET Recs
       /\ \A x \in P : \/ x \in d.steps /\ x \notin W
                       \/ \E y \in d.steps : y.entered # at /\ x.entered = y.entered /\ x.exited = at
                       \/ x.state = "paused" /\ x.entered = at /\ x.exited = Open
  BY <1>7, <1>11 DEF Paused
<1>13. /\ e \in TableSet /\ e.declared = D /\ e.steps = P /\ e.outbox = B
       /\ e.rows = d.rows /\ e.started = d.started /\ e.ended = d.ended /\ e.shifts = d.shifts
  <2>1. B \in BOOLEAN
    BY <1>5
  <2>2. D \in SUBSET Decls /\ P \in SUBSET Recs
    BY <1>10, <1>12
  <2> HIDE <1>5, <1>10, <1>12
  <2> QED BY <1>6, <1>7, <2>1, <2>2 DEF TableSet
<1>14. OpenWorking(e) = {}
  BY <1>1, <1>8, <1>12, <1>13 DEF OpenWorking, OpenIn
<1>15. Sane(e, m)
  <2>1. Past(e, m)
    BY <1>8, <1>10, <1>12, <1>13 DEF Sane, Past
  <2>2. Proper(e)
    BY <1>8, <1>12, <1>13 DEF Sane, Proper
  <2>3. InDay(e) /\ Left(e)
    BY <1>13, <1>14 DEF Sane, InDay, Left
  <2> QED BY <1>13, <2>1, <2>2, <2>3 DEF Sane
<1>16. ASSUME Sorted(d), Reached(d, at), ClockedIn(d) PROVE Ordered(e, at)
  <2>1. ClockedIn(e) /\ OpenIn(e.rows) = OpenIn(d.rows)
    BY <1>13, <1>16 DEF ClockedIn
  <2>2. \A x \in OpenIn(e.declared) : x = n
    BY <1>8, <1>10, <1>13 DEF OpenIn
  <2>3. \A x \in OpenIn(e.declared), t \in e.started : t <= x.entered
    BY <1>8, <1>13, <1>16, <2>2 DEF Reached
  <2>4. Sorted(e)
    BY <1>13, <1>16, <2>1, <2>3 DEF Sorted
  <2> QED BY <1>13, <1>14, <1>16, <2>4 DEF Ordered, Reached, InTime
<1> QED BY <1>15, <1>16

LEMMA WithdrawnKept ==
  ASSUME NEW m \in Times, NEW at \in Times, at <= m, NEW d, Sane(d, m),
         NEW e, e = [d EXCEPT !.declared = Leave(d.declared, OpenIn(d.declared), at)]
  PROVE  Sane(e, m) /\ (Ordered(d, at) => Ordered(e, at))
<1>1. PICK D : D = Leave(d.declared, OpenIn(d.declared), at)
  OBVIOUS
<1>2. d \in TableSet /\ d.declared \in SUBSET Decls /\ OpenIn(d.declared) \in SUBSET d.declared
  BY DEF Sane, TableSet, OpenIn
<1>3. /\ D \in SUBSET Decls
      /\ \A x \in D : \/ x \in d.declared /\ x.exited # Open
                      \/ \E y \in d.declared : x.entered = y.entered /\ x.exited = at
  <2>1. /\ D \in SUBSET Decls
        /\ \A x \in D : \/ x \in d.declared /\ x \notin OpenIn(d.declared)
                        \/ \E y \in OpenIn(d.declared) : x.entered = y.entered /\ x.exited = at
    BY <1>1, <1>2, LeaveDecls
  <2> QED BY <2>1 DEF OpenIn
<1>4. /\ e \in TableSet /\ e.declared = D /\ e.steps = d.steps
      /\ e.rows = d.rows /\ e.started = d.started /\ e.ended = d.ended /\ e.shifts = d.shifts
  BY <1>1, <1>2, <1>3 DEF TableSet
<1>5. OpenWorking(e) = OpenWorking(d) /\ OpenIn(e.declared) = {}
  <2>1. at # Open
    BY TimesAre
  <2> QED BY <1>3, <1>4, <2>1 DEF OpenWorking, OpenIn
<1>6. Past(e, m)
  BY <1>3, <1>4 DEF Sane, Past
<1>7. Proper(e) /\ InDay(e) /\ Left(e)
  BY <1>4, <1>5 DEF Sane, Proper, InDay, Left
<1>8. Ordered(d, at) => Ordered(e, at)
  <2>1. ClockedIn(e) <=> ClockedIn(d)
    BY <1>4 DEF ClockedIn
  <2>2. Sorted(d) => Sorted(e)
    BY <1>4, <1>5, <2>1 DEF Sorted
  <2> QED BY <1>4, <1>5, <2>2 DEF Ordered, Reached, InTime
<1> QED BY <1>4, <1>6, <1>7, <1>8 DEF Sane

-----------------------------------------------------------------------------
(* The invariant.                                                             *)

IInv ==
  /\ now \in Times /\ disorder \in BOOLEAN
  /\ Sane(Tables, now) /\ ChecksHold(Tables)
  /\ disorder \/ (Sorted(Tables) /\ (outbox \/ Settled(Tables, now)))

\* A shift that is stale stays so while no marker is added.
LEMMA StaleLater ==
  ASSUME NEW d \in TableSet, NEW at \in Times, NEW k \in Times, at <= k, Reached(d, at)
  PROVE  Settled(d, at) => Settled(d, k)
<1> SUFFICES ASSUME Stale(d, at) PROVE Stale(d, k)
  BY DEF Settled
<1>1. at \in Nat /\ k \in Nat
  BY TimesAre
<1>2. PICK M : M = d.started
  OBVIOUS
<1>3. MarkersUpTo(d, at) = M
  BY <1>2 DEF Reached, MarkersUpTo
<1>4. MarkersUpTo(d, k) = M
  <2>1. \A t \in d.started : t <= at => t <= k
    BY <1>1, TimesAre DEF TableSet
  <2> QED BY <1>2, <2>1 DEF Reached, MarkersUpTo
<1>5. PICK s : s = ShiftStart(d, at)
  OBVIOUS
<1>6. ShiftStart(d, k) = s
  <2>1. CASE M # {}
    <3>1. s = Max(M)
      BY <1>3, <1>5, <2>1, Zenon DEF ShiftStart
    <3> QED BY <1>4, <2>1, <3>1, Zenon DEF ShiftStart
  <2>2. CASE M = {}
    <3>1. s = (CHOOSE r \in OpenIn(d.rows) : TRUE).entered
      BY <1>3, <1>5, <2>2, Zenon DEF ShiftStart
    <3> QED BY <1>4, <2>2, <3>1, Zenon DEF ShiftStart
  <2> QED BY <2>1, <2>2
<1>7. ClockedIn(d) /\ work_day_end(s) <= at
  BY <1>5 DEF Stale, is_past_work_day_end
<1>8. work_day_end(s) \in Nat
  BY <1>5, <1>7, StartIs, TimesAre, DayIs
<1>9. work_day_end(s) <= k
  BY <1>1, <1>7, <1>8
<1> QED BY <1>6, <1>7, <1>9 DEF Stale, is_past_work_day_end

LEMMA SaneLater ==
  ASSUME NEW d, NEW m \in Times, Sane(d, m), NEW k \in Times, m <= k
  PROVE  Sane(d, k)
<1>1. d \in TableSet /\ m \in Nat /\ k \in Nat
  BY TimesAre DEF Sane
<1>2. \A t \in Times : t <= m => t <= k
  BY <1>1, TimesAre
<1>3. /\ d.started \in SUBSET Times /\ d.ended \in SUBSET Times
      /\ \A x \in d.rows : x.entered \in Times
      /\ \A x \in d.declared : x.entered \in Times
      /\ \A x \in d.steps : x.entered \in Times
      /\ \A h \in d.shifts : h.end \in Times
  BY <1>1 DEF TableSet, Segs, Decls, Recs, Closed
<1>4. Past(d, k)
  BY <1>2, <1>3 DEF Sane, Past
<1> QED BY <1>4 DEF Sane

\* A command or a job whose instant was at, applied.
LEMMA Applied ==
  ASSUME IInv, NEW at \in Times, at <= now, NEW e, Sane(e, now), ChecksHold(e), Tables' = e,
         now' \in {now, now + 1}, now' \in Times, disorder' \in BOOLEAN,
         ~disorder' => Sorted(e) /\ Reached(e, at) /\ Settled(e, at)
  PROVE  IInv'
<1>1. now \in Times /\ now \in Nat
  BY TimesAre DEF IInv
<1>2. now <= now'
  BY <1>1
<1>3. Sane(e, now')
  BY <1>1, <1>2, SaneLater
<1>4. ASSUME ~disorder' PROVE Settled(e, now')
  <2>1. e \in TableSet /\ at <= now'
    <3>1. at \in Nat
      BY TimesAre
    <3> QED BY <1>1, <3>1 DEF Sane
  <2> QED BY <1>4, <2>1, StaleLater
<1> QED BY <1>3, <1>4 DEF IInv

LEMMA CommitIs ==
  ASSUME NEW d, d \in TableSet, Commit(d)
  PROVE  Tables' = d /\ ChecksHold(d)
<1>1. /\ ChecksHold(d) /\ rows' = d.rows /\ started' = d.started /\ ended' = d.ended
      /\ declared' = d.declared /\ steps' = d.steps /\ outbox' = d.outbox /\ shifts' = d.shifts
  BY DEF Commit
<1>2. d = [rows |-> d.rows, started |-> d.started, ended |-> d.ended, declared |-> d.declared,
           steps |-> d.steps, outbox |-> d.outbox, shifts |-> d.shifts]
  BY DEF TableSet
<1> QED BY <1>1, <1>2 DEF Tables

LEMMA Start == Init => IInv
<1> SUFFICES ASSUME Init PROVE IInv
  OBVIOUS
<1>1. /\ Tables \in TableSet /\ Tables.rows = {} /\ Tables.started = {} /\ Tables.ended = {}
      /\ Tables.declared = {} /\ Tables.steps = {} /\ Tables.shifts = {}
  BY DEF Init, Tables, TableSet
<1>2. now \in Times /\ disorder \in BOOLEAN
  <2>1. MaxTime \in Nat /\ now = 0
    BY TimesAre DEF Init
  <2>2. now \in Times
    BY <2>1 DEF Times
  <2> QED BY <2>2 DEF Init
<1>3. Sane(Tables, now)
  BY <1>1 DEF Sane, Past, Proper, InDay, Left
<1>4. ChecksHold(Tables) /\ ~ClockedIn(Tables) /\ OpenIn(Tables.declared) = {}
  BY <1>1 DEF ChecksHold, ClockedIn, OpenIn
<1>5. Sorted(Tables) /\ Settled(Tables, now)
  BY <1>1, <1>4 DEF Sorted, Settled, ClockedIn, OpenIn
<1> QED BY <1>2, <1>3, <1>4, <1>5 DEF IInv

\* The tables at the instant at of a command.
LEMMA Before ==
  ASSUME IInv
  PROVE  /\ now \in Times /\ now \in Nat /\ Tables \in TableSet /\ Sane(Tables, now)
         /\ disorder \in BOOLEAN /\ (disorder \/ Sorted(Tables))
         /\ \A at \in Times : /\ OutOfOrder(at) \/ Reached(Tables, at)
                              /\ Overtaken(at) \/ InTime(Tables, at)
<1>1. now \in Times /\ now \in Nat /\ Tables \in TableSet /\ Sane(Tables, now)
  BY TimesAre DEF IInv, Sane
<1>2. \A at \in Times : OutOfOrder(at) \/ Reached(Tables, at)
  <2>1. Tables.started = started /\ Tables.ended = ended
    BY DEF Tables
  <2>2. started \cup ended \subseteq Times
    BY <1>1, <2>1 DEF TableSet
  <2>3. \A at \in Times : \A t \in started \cup ended : t > at \/ t <= at
    BY <2>2, TimesAre
  <2> QED BY <2>1, <2>3 DEF OutOfOrder, Reached
<1>3. \A at \in Times : Overtaken(at) \/ InTime(Tables, at)
  <2>1. Tables.steps = steps /\ OpenWorking(Tables) \subseteq steps
    BY DEF Tables, OpenWorking, OpenIn
  <2>2. \A x \in steps : x.entered \in Times
    BY <1>1, <2>1 DEF TableSet, Recs
  <2>3. \A at \in Times : \A x \in steps : x.entered > at \/ x.entered <= at
    BY <2>2, TimesAre
  <2> QED BY <2>1, <2>3 DEF Overtaken, InTime
<1> QED BY <1>1, <1>2, <1>3 DEF IInv

LEMMA Instant ==
  ASSUME NEW age, NEW at \in Instants(age)
  PROVE  at \in Times /\ at <= now
  BY DEF Instants

LEMMA Asked ==
  ASSUME IInv, Request
  PROVE  now' \in {now, now + 1} /\ now' \in Times
<1>1. now \in 0..MaxTime /\ now < MaxTime /\ now' = now + 1 /\ MaxTime \in Nat
  BY TimesAre DEF IInv, Request, Times
<1> QED BY <1>1 DEF Times

LEMMA InStep ==
  ASSUME IInv, Request, NEW at \in Times, at <= now, ~ClockedIn(Tables) \/ Stale(Tables, at),
         Commit(clock_in_shift_for_user(Tables, at)), MarkIn(at)
  PROVE  IInv'
<1>1. PICK e : e = clock_in_shift_for_user(Tables, at)
  OBVIOUS
<1>2. PICK d : d = Tables
  OBVIOUS
<1>3. now \in Times /\ Sane(d, now) /\ e = clock_in_shift_for_user(d, at) /\ (~ClockedIn(d) \/ Stale(d, at))
  BY <1>1, <1>2, Before
<1>4. /\ Keeps(d, at, now, e)
      /\ Sorted(d) /\ Reached(d, at) /\ (\A x \in OpenWorking(d) : ~(x.entered >= at)) => Live(e)
  <2>1. PICK m : m = now
    OBVIOUS
  <2>2. m \in Times /\ at <= m /\ Sane(d, m)
    BY <1>3, <2>1
  <2>3. /\ Keeps(d, at, m, e)
        /\ Sorted(d) /\ Reached(d, at) /\ (\A x \in OpenWorking(d) : ~(x.entered >= at)) => Live(e)
    BY <1>3, <2>2, ClockInKept
  <2> QED BY <2>1, <2>3
<1>5. Sane(e, now) /\ e \in TableSet
  BY <1>4 DEF Keeps, Sane
<1>6. Tables' = e /\ ChecksHold(e)
  BY <1>1, <1>5, CommitIs
<1>7. disorder' \in BOOLEAN
  BY DEF MarkIn
<1>8. ASSUME ~disorder' PROVE Sorted(e) /\ Reached(e, at) /\ Settled(e, at)
  <2>1. ~disorder /\ ~OutOfOrder(at) /\ \A x \in OpenWorking(d) : ~(x.entered >= at)
    BY <1>2, <1>8 DEF MarkIn
  <2>2. Sorted(d) /\ Reached(d, at)
    BY <1>2, <2>1, Before
  <2> QED BY <1>4, <2>1, <2>2 DEF Keeps, Settled
<1>9. now' \in {now, now + 1} /\ now' \in Times
  BY Asked
<1> QED BY <1>5, <1>6, <1>7, <1>8, <1>9, Applied

LEMMA OutStep ==
  ASSUME IInv, Request, NEW at \in Times, at <= now, ClockedIn(Tables),
         Commit(clock_out_shift_for_user(Tables, at)), MarkOut(at)
  PROVE  IInv'
<1>1. PICK e : e = clock_out_shift_for_user(Tables, at)
  OBVIOUS
<1>2. PICK d, m : d = Tables /\ m = now
  OBVIOUS
<1>3. m \in Times /\ at <= m /\ Sane(d, m) /\ e = clock_out_shift_for_user(d, at) /\ ClockedIn(d)
  BY <1>1, <1>2, Before
<1>4. Keeps(d, at, m, e) /\ (Sorted(d) /\ Reached(d, at) => ~ClockedIn(e))
  BY <1>3, ClockOutKept
<1>5. Sane(e, now) /\ e \in TableSet
  BY <1>2, <1>4 DEF Keeps, Sane
<1>6. Tables' = e /\ ChecksHold(e)
  BY <1>1, <1>5, CommitIs
<1>7. disorder' \in BOOLEAN
  BY DEF MarkOut
<1>8. ASSUME ~disorder' PROVE Sorted(e) /\ Reached(e, at) /\ Settled(e, at)
  <2>1. ~disorder /\ ~OutOfOrder(at)
    BY <1>8 DEF MarkOut
  <2>2. Sorted(d) /\ Reached(d, at)
    BY <1>2, <2>1, Before
  <2> QED BY <1>4, <2>2 DEF Keeps, Settled
<1>9. now' \in {now, now + 1} /\ now' \in Times
  BY Asked
<1> QED BY <1>5, <1>6, <1>7, <1>8, <1>9, Applied

\* A stale shift closed by a command that is refused.
LEMMA StaleStep ==
  ASSUME IInv, Request, NEW at \in Times, at <= now, Stale(Tables, at),
         Commit(close_stale_open_shift(Tables, at)), MarkReconcile(at)
  PROVE  IInv'
<1>1. PICK e : e = close_stale_open_shift(Tables, at)
  OBVIOUS
<1>2. PICK d, m : d = Tables /\ m = now
  OBVIOUS
<1>3. m \in Times /\ at <= m /\ Sane(d, m) /\ e = close_stale_open_shift(d, at) /\ Stale(d, at)
  BY <1>1, <1>2, Before
<1>4. Keeps(d, at, m, e) /\ (Stale(d, at) /\ Sorted(d) /\ Reached(d, at) => ~ClockedIn(e))
  BY <1>3, StaleClosed
<1>5. Sane(e, now) /\ e \in TableSet
  BY <1>2, <1>4 DEF Keeps, Sane
<1>6. Tables' = e /\ ChecksHold(e)
  BY <1>1, <1>5, CommitIs
<1>7. disorder' \in BOOLEAN
  BY DEF MarkReconcile
<1>8. ASSUME ~disorder' PROVE Sorted(e) /\ Reached(e, at) /\ Settled(e, at)
  <2>1. ~disorder /\ ~OutOfOrder(at)
    BY <1>8 DEF MarkReconcile
  <2>2. Sorted(d) /\ Reached(d, at)
    BY <1>2, <2>1, Before
  <2> QED BY <1>3, <1>4, <2>2 DEF Keeps, Settled
<1>9. now' \in {now, now + 1} /\ now' \in Times
  BY Asked
<1> QED BY <1>5, <1>6, <1>7, <1>8, <1>9, Applied

\* A reconcile of the tables d, which a command has made of those it found.
LEMMA ReconcileStep ==
  ASSUME IInv, NEW at \in Times, at <= now, NEW d, Sane(d, now),
         Ordered(Tables, at) => Ordered(d, at),
         Commit(reconcile_worker_shift_state(d, at)), MarkReconcile(at),
         now' \in {now, now + 1}, now' \in Times
  PROVE  IInv'
<1>1. PICK e : e = reconcile_worker_shift_state(d, at)
  OBVIOUS
<1>2. ChecksHold(e) /\ now \in Times
  BY <1>1, Before DEF Commit
<1>3. Sane(e, now) /\ (Ordered(d, at) => Sorted(e) /\ Reached(e, at) /\ Settled(e, at))
  <2>1. PICK m : m = now
    OBVIOUS
  <2>2. m \in Times /\ at <= m /\ Sane(d, m)
    BY <1>2, <2>1
  <2>3. Sane(e, m) /\ (Ordered(d, at) => Sorted(e) /\ Reached(e, at) /\ Settled(e, at))
    BY <1>1, <1>2, <2>2, ReconcileKept
  <2> QED BY <2>1, <2>3
<1>4. Tables' = e
  BY <1>1, <1>3, CommitIs DEF Sane
<1>5. disorder' \in BOOLEAN
  BY DEF MarkReconcile
<1>6. ASSUME ~disorder' PROVE Ordered(Tables, at)
  <2>1. ~disorder /\ ~OutOfOrder(at) /\ ~Overtaken(at)
    BY <1>6 DEF MarkReconcile
  <2> QED BY <2>1, Before DEF Ordered
<1> QED BY <1>2, <1>3, <1>4, <1>5, <1>6, Applied

LEMMA DeclareStep ==
  ASSUME IInv, declare_worker_state
  PROVE  IInv'
<1>1. PICK at \in Instants(LockWait), why \in Reasons :
        /\ Request /\ ClockedIn(Tables)
        /\ Commit(IF Stale(Tables, at) THEN close_stale_open_shift(Tables, at)
                  ELSE reconcile_worker_shift_state(Declared(Tables, why, at), at))
        /\ MarkReconcile(at)
  BY DEF declare_worker_state
<1>2. at \in Times /\ at <= now /\ now' \in {now, now + 1} /\ now' \in Times
  BY <1>1, Instant, Asked
<1>3. CASE Stale(Tables, at)
  <2>1. Commit(close_stale_open_shift(Tables, at))
    BY <1>1, <1>3, Zenon
  <2> QED BY <1>1, <1>2, <1>3, <2>1, StaleStep
<1>4. CASE ~Stale(Tables, at)
  <2>1. PICK d, m, e : d = Tables /\ m = now /\ e = Declared(d, why, at)
    OBVIOUS
  <2>2. Commit(reconcile_worker_shift_state(e, at))
    BY <1>1, <1>4, <2>1, Zenon
  <2>3. m \in Times /\ at <= m /\ Sane(d, m) /\ ClockedIn(d)
    BY <1>1, <1>2, <2>1, Before
  <2>4. Sane(e, m) /\ (Sorted(d) /\ Reached(d, at) /\ ClockedIn(d) => Ordered(e, at))
    BY <1>1, <1>2, <2>1, <2>3, DeclaredKept
  <2>5. Sane(e, now) /\ (Ordered(Tables, at) => Ordered(e, at))
    BY <2>1, <2>3, <2>4 DEF Ordered
  <2> QED BY <1>1, <1>2, <2>2, <2>5, ReconcileStep
<1> QED BY <1>3, <1>4

LEMMA WithdrawStep ==
  ASSUME IInv, close_declared_worker_state
  PROVE  IInv'
<1>1. PICK at \in Instants(LockWait) :
        /\ Request
        /\ Commit(IF Stale(Tables, at) THEN close_stale_open_shift(Tables, at)
                  ELSE reconcile_worker_shift_state(
                         [Tables EXCEPT !.declared = Leave(@, OpenIn(@), at)], at))
        /\ MarkReconcile(at)
  BY Zenon DEF close_declared_worker_state
<1>2. at \in Times /\ at <= now /\ now' \in {now, now + 1} /\ now' \in Times
  BY <1>1, Instant, Asked
<1>3. CASE Stale(Tables, at)
  <2>1. Commit(close_stale_open_shift(Tables, at))
    BY <1>1, <1>3, Zenon
  <2> QED BY <1>1, <1>2, <1>3, <2>1, StaleStep
<1>4. CASE ~Stale(Tables, at)
  <2>1. PICK d, m, e : /\ d = Tables /\ m = now
                       /\ e = [d EXCEPT !.declared = Leave(d.declared, OpenIn(d.declared), at)]
    OBVIOUS
  <2>2. Commit(reconcile_worker_shift_state(e, at))
    BY <1>1, <1>4, <2>1, Zenon
  <2>3. m \in Times /\ at <= m /\ Sane(d, m)
    BY <1>1, <1>2, <2>1, Before
  <2>4. Sane(e, m) /\ (Ordered(d, at) => Ordered(e, at))
    BY <1>2, <2>1, <2>3, WithdrawnKept
  <2>5. Sane(e, now) /\ (Ordered(Tables, at) => Ordered(e, at))
    BY <2>1, <2>4
  <2> QED BY <1>1, <1>2, <2>2, <2>5, ReconcileStep
<1> QED BY <1>3, <1>4

LEMMA TransitionStep ==
  ASSUME IInv, NEW last \in BOOLEAN, ProcessStepTransition(last)
  PROVE  IInv'
<1>1. PICK at \in Instants(LockWait) :
        /\ Commit(reconcile_worker_shift_state([Tables EXCEPT !.outbox = ~last], at))
        /\ MarkReconcile(at)
  BY DEF ProcessStepTransition
<1>2. at \in Times /\ at <= now /\ now' = now /\ now \in Times /\ Sane(Tables, now)
  BY <1>1, Instant, Before DEF ProcessStepTransition
<1>3. PICK d, e, b : d = Tables /\ e = [d EXCEPT !.outbox = b] /\ b = ~last
  OBVIOUS
<1>4. /\ e \in TableSet /\ e.rows = d.rows /\ e.started = d.started /\ e.ended = d.ended
      /\ e.declared = d.declared /\ e.steps = d.steps /\ e.shifts = d.shifts
  <2>1. b \in BOOLEAN /\ d \in TableSet
    BY <1>2, <1>3 DEF Sane
  <2>2. e = [d EXCEPT !.outbox = b]
    BY <1>3
  <2> HIDE <1>3
  <2> QED BY <2>1, <2>2 DEF TableSet
<1>5. ClockedIn(e) = ClockedIn(d) /\ OpenWorking(e) = OpenWorking(d)
  BY <1>4 DEF ClockedIn, OpenWorking
<1>6. Sane(e, now)
  BY <1>2, <1>3, <1>4, <1>5 DEF Sane, Past, Proper, InDay, Left
<1>7. Ordered(d, at) => Ordered(e, at)
  BY <1>4, <1>5 DEF Ordered, Sorted, Reached, InTime
<1>8. Commit(reconcile_worker_shift_state(e, at))
  BY <1>1, <1>3, Zenon
<1>9. (Ordered(Tables, at) => Ordered(e, at)) /\ now' \in {now, now + 1} /\ now' \in Times
  BY <1>2, <1>3, <1>7
<1> QED BY <1>1, <1>2, <1>6, <1>8, <1>9, ReconcileStep

LEMMA SweepStep ==
  ASSUME IInv, AutoClockOut
  PROVE  IInv'
<1>1. PICK d, m, e : d = Tables /\ m = now /\ e = close_stale_open_shift(d, m)
  OBVIOUS
<1>2. m \in Times /\ m \in Nat /\ Sane(d, m) /\ now' = now
  BY <1>1, Before DEF AutoClockOut
<1>3. Keeps(d, m, m, e) /\ OpenWorking(e) \subseteq OpenWorking(d)
  <2>1. m <= m
    BY <1>2
  <2> QED BY <1>1, <1>2, <2>1, StaleClosed
<1>4. Commit(reconcile_worker_shift_state(e, now)) /\ MarkReconcile(now)
  BY <1>1, Zenon DEF AutoClockOut
<1>5. Sane(e, now) /\ (Ordered(Tables, now) => Ordered(e, now))
  BY <1>1, <1>3 DEF Keeps, Ordered, InTime
<1>6. now \in Times /\ now <= now /\ now' \in {now, now + 1} /\ now' \in Times
  BY <1>1, <1>2
<1> QED BY <1>4, <1>5, <1>6, ReconcileStep

-----------------------------------------------------------------------------
(* The worker's steps.                                                        *)

\* Records of S are left alone or left at the instant n, and some are made then.
Moved(S, n, T) ==
  /\ T \in SUBSET Recs
  /\ \A x \in T :
       \/ x \in S
       \/ \E y \in S : y.entered # n /\ x.entered = y.entered /\ x.exited = n
       \/ x.entered = n /\ x.exited = Open

\* A request that moves the worker's step records.
LEMMA StepsKept ==
  ASSUME IInv, Request, Moved(steps, now, steps'), outbox' = TRUE,
         UNCHANGED <<rows, started, ended, declared, shifts, disorder>>
  PROVE  IInv'
<1>1. PICK d, e, m : d = Tables /\ e = Tables' /\ m = now
  OBVIOUS
<1>2. /\ m \in Times /\ m \in Nat /\ d \in TableSet /\ Sane(d, m) /\ ChecksHold(d)
      /\ disorder \in BOOLEAN /\ (disorder \/ Sorted(d))
  BY <1>1, Before DEF IInv
<1>3. m # Open /\ m <= Open /\ m <= m
  BY <1>2, TimesAre
<1>4. /\ e.rows = d.rows /\ e.started = d.started /\ e.ended = d.ended
      /\ e.declared = d.declared /\ e.shifts = d.shifts
      /\ d.steps = steps /\ e.steps = steps' /\ e.outbox = TRUE
  BY <1>1 DEF Tables
<1>5. Moved(d.steps, m, e.steps)
  BY <1>1, <1>4
<1>6. e \in TableSet
  <2>1. e = [rows |-> d.rows, started |-> d.started, ended |-> d.ended, declared |-> d.declared,
             steps |-> steps', outbox |-> TRUE, shifts |-> d.shifts]
    BY <1>1, <1>4 DEF Tables
  <2>2. steps' \in SUBSET Recs
    BY DEF Moved
  <2> QED BY <1>2, <2>1, <2>2 DEF TableSet
<1>7. \A x \in d.steps : x.entered \in Nat /\ x.entered <= m /\ x.entered # x.exited /\ x.entered <= x.exited
  <2>1. \A x \in d.steps : x.entered \in Nat
    BY <1>2, TimesAre DEF TableSet, Recs
  <2> QED BY <1>2, <2>1 DEF Sane, Past, Proper, ChecksHold
<1>8. \A x \in e.steps : x.entered <= m /\ x.entered # x.exited /\ x.entered <= x.exited
  BY <1>3, <1>5, <1>7 DEF Moved
<1>9. \A x \in OpenWorking(e) : x \in OpenWorking(d) \/ x.entered = m
  BY <1>3, <1>5 DEF Moved, OpenWorking, OpenIn
<1>10. Left(e)
  <2> SUFFICES ASSUME NEW x \in OpenWorking(e), NEW h \in e.shifts
               PROVE  x.entered \notin h.start..(h.end - 1)
    BY DEF Left
  <2>1. CASE x \in OpenWorking(d)
    BY <1>2, <1>4, <2>1 DEF Sane, Left
  <2>2. CASE x.entered = m
    <3>1. h.end <= m /\ h.end \in Nat /\ h.start \in Nat
      <4>1. h \in d.shifts /\ h \in Closed
        BY <1>2, <1>4 DEF TableSet
      <4>2. h.end <= m
        BY <1>2, <4>1 DEF Sane, Past
      <4> QED BY <4>1, <4>2, TimesAre DEF Closed
    <3> QED BY <1>2, <2>2, <3>1
  <2> QED BY <1>9, <2>1, <2>2
<1>11. Sane(e, m)
  BY <1>2, <1>4, <1>6, <1>8, <1>10 DEF Sane, Past, Proper, InDay
<1>12. ChecksHold(e)
  BY <1>2, <1>4, <1>8 DEF ChecksHold
<1>13. now' \in Times /\ m <= now'
  BY <1>1, <1>2, Asked
<1>14. Sane(e, now')
  BY <1>2, <1>11, <1>13, SaneLater
<1>15. disorder' \/ Sorted(e)
  <2>1. Sorted(d) => Sorted(e)
    BY <1>4 DEF Sorted, ClockedIn
  <2> QED BY <1>2, <2>1
<1>16. disorder' \in BOOLEAN /\ outbox' = TRUE
  BY <1>2
<1> QED BY <1>1, <1>12, <1>13, <1>14, <1>15, <1>16 DEF IInv

\* Records left are moved, and so are those left and paused.
LEMMA LeftMoved ==
  ASSUME NEW n \in Times, NEW S \in SUBSET Recs, NEW C \in SUBSET S
  PROVE  Moved(S, n, Leave(S, C, n))
  BY LeaveRecs DEF Moved

LEMMA PausedMoved ==
  ASSUME NEW n \in Times, NEW S \in SUBSET Recs, NEW C \in SUBSET S,
         NEW ends, ends \in BOOLEAN, NEW P, P = PauseSteps(S, C, n, ends)
  PROVE  Moved(S, n, P) /\ \A x \in S \ C : x \in P
<1>1. Paused(S, C, n, ends, P)
  BY PausesAre
<1>2. Moved(S, n, P)
  BY <1>1 DEF Paused, Moved
<1>3. \A x \in S \ C : x \in P
  BY DEF PauseSteps, Leave
<1> QED BY <1>2, <1>3

LEMMA StepsAre ==
  ASSUME IInv
  PROVE  /\ now \in Times /\ steps \in SUBSET Recs
         /\ \A s \in Steps : StepOpen(s) \in SUBSET steps
<1>1. steps = Tables.steps
  BY DEF Tables
<1> QED BY <1>1, Before DEF TableSet, StepOpen, OpenIn

LEMMA PauseStepKept ==
  ASSUME IInv, NEW s \in Steps, PauseStep(s)
  PROVE  IInv'
<1>1. Moved(steps, now, steps')
  <2>1. PICK ends, P : ends = FALSE /\ P = PauseSteps(steps, StepOpen(s), now, ends)
    OBVIOUS
  <2>2. now \in Times /\ steps \in SUBSET Recs /\ StepOpen(s) \in SUBSET steps /\ ends \in BOOLEAN
    BY <2>1, StepsAre
  <2>3. Moved(steps, now, P)
    BY <2>1, <2>2, PausedMoved
  <2> QED BY <2>1, <2>3, Zenon DEF PauseStep
<1> QED BY <1>1, StepsKept DEF PauseStep

LEMMA FinishStepKept ==
  ASSUME IInv, NEW s \in Steps, FinishStep(s)
  PROVE  IInv'
<1>1. Moved(steps, now, steps')
  BY StepsAre, LeftMoved DEF FinishStep
<1> QED BY <1>1, StepsKept DEF FinishStep

LEMMA StartStepKept ==
  ASSUME IInv, NEW s \in Steps, StartStep(s)
  PROVE  IInv'
<1>1. PICK held : held = IF s \in Batch THEN {} ELSE {x \in OpenWorking(Tables) : x.step \notin Batch}
  OBVIOUS
<1>2. PICK ends, P : ends = FALSE /\ P = PauseSteps(steps, held, now, ends)
  OBVIOUS
<1>3. PICK R : R = Leave(P, StepOpen(s), now)
  OBVIOUS
<1>4. PICK n : n = [step |-> s, state |-> "working", shiftEnded |-> FALSE, entered |-> now, exited |-> Open]
  OBVIOUS
<1>5. steps' = R \cup {n} /\ \A x \in StepOpen(s) : x.state = "paused"
  BY <1>1, <1>2, <1>3, <1>4, Zenon DEF StartStep
<1>6. now \in Times /\ steps \in SUBSET Recs /\ StepOpen(s) \in SUBSET steps /\ ends \in BOOLEAN
  BY <1>2, StepsAre
<1>7. held \in SUBSET steps /\ \A x \in held : x.state = "working"
  BY <1>1 DEF OpenWorking, OpenIn, Tables
<1>8. Moved(steps, now, P) /\ \A x \in steps \ held : x \in P
  BY <1>2, <1>6, <1>7, PausedMoved
<1>9. StepOpen(s) \in SUBSET P /\ P \in SUBSET Recs
  BY <1>5, <1>6, <1>7, <1>8 DEF Moved
<1>10. Moved(P, now, R)
  BY <1>3, <1>6, <1>9, LeftMoved
<1>11. n \in Recs /\ n.entered = now /\ n.exited = Open
  BY <1>4, <1>6, TimesAre DEF Recs, Times, Open
<1>12. ASSUME NEW x \in R
       PROVE  \/ x \in steps
              \/ \E y \in steps : y.entered # now /\ x.entered = y.entered /\ x.exited = now
              \/ x.entered = now /\ x.exited = Open
  <2>1. CASE x \in P
    BY <1>8, <2>1 DEF Moved
  <2>2. CASE \E y \in P : y.entered # now /\ x.entered = y.entered /\ x.exited = now
    BY <1>8, <2>2 DEF Moved
  <2>3. CASE x.entered = now /\ x.exited = Open
    BY <2>3
  <2> QED BY <1>10, <2>1, <2>2, <2>3 DEF Moved
<1>13. Moved(steps, now, steps')
  BY <1>5, <1>10, <1>11, <1>12 DEF Moved
<1> QED BY <1>13, StepsKept DEF StartStep

LEMMA TickKept ==
  ASSUME IInv, Tick
  PROVE  IInv'
<1>1. PICK d, m : d = Tables /\ m = now
  OBVIOUS
<1>2. Tables' = d /\ disorder' = disorder /\ outbox' = outbox
  BY <1>1 DEF Tick, Tables
<1>3. m \in Times /\ m \in Nat /\ now' \in Times /\ m <= now' /\ Sane(d, m) /\ d \in TableSet /\ ChecksHold(d)
  BY <1>1, Before, Asked DEF Tick, IInv
<1>4. Sane(d, now')
  BY <1>3, SaneLater
<1>5. Settled(d, m) => Settled(d, now')
  <2>1. Reached(d, m)
    BY <1>3 DEF Sane, Past, Reached
  <2> QED BY <1>3, <2>1, StaleLater
<1>6. disorder \in BOOLEAN /\ (disorder \/ (Sorted(d) /\ (outbox \/ Settled(d, m))))
  BY <1>1 DEF IInv
<1>7. disorder' \in BOOLEAN /\ (disorder' \/ (Sorted(d) /\ (outbox' \/ Settled(d, now'))))
  BY <1>2, <1>5, <1>6
<1> QED BY <1>2, <1>3, <1>4, <1>7 DEF IInv

-----------------------------------------------------------------------------
(* Results.                                                                   *)

LEMMA Step == IInv /\ [Next]_vars => IInv'
<1> SUFFICES ASSUME IInv, [Next]_vars PROVE IInv'
  OBVIOUS
<1>1. CASE UNCHANGED vars
  BY <1>1 DEF vars, IInv, Tables
<1>2. CASE Tick
  BY <1>2, TickKept
<1>3. ASSUME NEW age, NEW at \in Instants(age), ClockIn(at) PROVE IInv'
  BY <1>3, Instant, InStep DEF ClockIn
<1>4. ASSUME NEW age, NEW at \in Instants(age), ClockOut(at) PROVE IInv'
  BY <1>4, Instant, OutStep DEF ClockOut
<1>5. CASE clock_in_worker_shift \/ handle_clock_in
  BY <1>3, <1>5 DEF clock_in_worker_shift, handle_clock_in
<1>6. CASE clock_out_worker_shift \/ handle_clock_out
  BY <1>4, <1>6 DEF clock_out_worker_shift, handle_clock_out
<1>7. CASE toggle_worker_shift
  <2>1. PICK at \in Instants(LockWait) :
          /\ Request
          /\ IF ClockedIn(Tables) /\ ~Stale(Tables, at)
               THEN Commit(clock_out_shift_for_user(Tables, at)) /\ MarkOut(at)
               ELSE Commit(clock_in_shift_for_user(Tables, at)) /\ MarkIn(at)
    BY <1>7 DEF toggle_worker_shift
  <2>2. CASE ClockedIn(Tables) /\ ~Stale(Tables, at)
    BY <2>1, <2>2, Instant, OutStep
  <2>3. CASE ~(ClockedIn(Tables) /\ ~Stale(Tables, at))
    BY <2>1, <2>3, Instant, InStep
  <2> QED BY <2>2, <2>3
<1>8. CASE declare_worker_state
  BY <1>8, DeclareStep
<1>9. CASE close_declared_worker_state
  BY <1>9, WithdrawStep
<1>10. ASSUME NEW s \in Steps, StartStep(s) \/ PauseStep(s) \/ FinishStep(s) PROVE IInv'
  BY <1>10, StartStepKept, PauseStepKept, FinishStepKept
<1>11. ASSUME NEW last \in BOOLEAN, ProcessStepTransition(last) PROVE IInv'
  BY <1>11, TransitionStep
<1>12. CASE AutoClockOut
  BY <1>12, SweepStep
<1> QED
  BY <1>1, <1>2, <1>5, <1>6, <1>7, <1>8, <1>9, <1>10, <1>11, <1>12 DEF Next

LEMMA Invariance == Spec => []IInv
BY Start, Step, PTL DEF Spec

\* What IInv says of each table.
LEMMA TablesAre ==
  ASSUME IInv
  PROVE  /\ now \in Times /\ outbox \in BOOLEAN /\ disorder \in BOOLEAN
         /\ rows \in SUBSET Segs /\ started \in SUBSET Times /\ ended \in SUBSET Times
         /\ declared \in SUBSET Decls /\ steps \in SUBSET Recs /\ shifts \in SUBSET Closed
         /\ Tables.rows = rows /\ Tables.started = started /\ Tables.ended = ended
         /\ Tables.declared = declared /\ Tables.steps = steps /\ Tables.shifts = shifts
<1>1. /\ Tables.rows = rows /\ Tables.started = started /\ Tables.ended = ended
      /\ Tables.declared = declared /\ Tables.steps = steps /\ Tables.shifts = shifts
      /\ Tables.outbox = outbox
  BY DEF Tables
<1>2. PICK d : d = Tables /\ d \in TableSet
  BY Before
<1>3. /\ d.rows \in SUBSET Segs /\ d.started \in SUBSET Times /\ d.ended \in SUBSET Times
      /\ d.declared \in SUBSET Decls /\ d.steps \in SUBSET Recs /\ d.shifts \in SUBSET Closed
      /\ d.outbox \in BOOLEAN
  BY <1>2 DEF TableSet
<1> QED BY <1>1, <1>2, <1>3 DEF IInv

\* A segment or a step record kept is entered before it is left.
LEMMA Lengths ==
  ASSUME IInv
  PROVE  /\ \A r \in rows : r.exited \in (r.entered + 1)..Open
         /\ \A x \in steps : x.exited \in (x.entered + 1)..Open
<1>1. PICK d : d = Tables /\ d.rows = rows /\ d.steps = steps
  BY TablesAre
<1>2. Proper(d) /\ ChecksHold(d)
  BY <1>1 DEF IInv, Sane
<1>3. /\ \A r \in rows : r.entered # r.exited /\ r.entered <= r.exited
      /\ \A x \in steps : x.entered # x.exited /\ x.entered <= x.exited
  BY <1>1, <1>2 DEF Proper, ChecksHold
<1>4. \A r \in rows : r.entered \in Nat /\ r.exited \in 0..Open
  BY TablesAre, TimesAre DEF Segs
<1>5. \A x \in steps : x.entered \in Nat /\ x.exited \in 0..Open
  BY TablesAre, TimesAre DEF Recs
<1>6. Open \in Nat
  BY TimesAre
<1> QED BY <1>3, <1>4, <1>5, <1>6

\* The tables hold what their columns allow; in particular the rebuild of a shift writes no
\* other state than a segment may have, and every segment and step record kept has a length.
THEOREM TypeCorrect == Spec => []TypeOK
<1>1. IInv => TypeOK
  <2> SUFFICES ASSUME IInv PROVE TypeOK
    OBVIOUS
  <2>1. \A r \in rows : /\ r.state \in {"working", "in_pause", "idle"}
                        /\ r.why \in Reasons \cup {"none", "step"}
                        /\ r.entered \in Times /\ r.exited \in (r.entered + 1)..Open
    BY TablesAre, Lengths DEF Segs
  <2>2. \A x \in declared : x.why \in Reasons /\ x.entered \in Times
    BY TablesAre DEF Decls
  <2>3. \A x \in steps : /\ x.step \in Steps /\ x.state \in {"working", "paused"}
                         /\ x.entered \in Times /\ x.exited \in (x.entered + 1)..Open
    BY TablesAre, Lengths DEF Recs
  <2>4. \A h \in shifts : h.start \in Times /\ h.end \in Times
    BY TablesAre DEF Closed
  <2>5. now \in Times /\ outbox \in BOOLEAN /\ disorder \in BOOLEAN
    BY TablesAre
  <2>6. started \subseteq Times /\ ended \subseteq Times
    BY TablesAre
  <2> QED BY <2>1, <2>2, <2>3, <2>4, <2>5, <2>6 DEF TypeOK
<1> QED BY <1>1, Invariance, PTL

\* No shift outlives its work day, whoever closes it and however late; and where commands are
\* applied in the order of their instants closed shifts do not overlap.
THEOREM ShiftsStayInPlace == Spec => []ShiftsInPlace
<1>1. IInv => ShiftsInPlace
  <2> SUFFICES ASSUME IInv PROVE ShiftsInPlace
    OBVIOUS
  <2>1. PICK d : d = Tables /\ d.shifts = shifts
    BY TablesAre
  <2>2. InDay(d) /\ (disorder \/ Sorted(d))
    BY <2>1 DEF IInv, Sane
  <2> QED BY <2>1, <2>2 DEF InDay, Sorted, ShiftsInPlace
<1> QED BY <1>1, Invariance, PTL

\* The latest STARTED marker.
LEMMA LatestMarker ==
  ASSUME IInv, started # {}
  PROVE  /\ Max(started) \in started /\ Max(started) \in Nat
         /\ \A n \in Nat : (\A s \in started : s <= n) <=> Max(started) <= n
<1>1. MaxTime \in Nat /\ started \in SUBSET (0..MaxTime)
  BY TablesAre, TimesAre DEF Times
<1>2. PICK x : x = Max(started)
  OBVIOUS
<1>3. x \in started /\ \A s \in started : x >= s
  BY <1>1, <1>2, MaxOf
<1>4. x \in Nat /\ \A s \in started : s \in Nat
  BY <1>1, <1>3
<1>5. \A n \in Nat : (\A s \in started : s <= n) <=> x <= n
  BY <1>3, <1>4
<1> QED BY <1>2, <1>3, <1>4, <1>5

\* What is open belongs to the shift that is open: the open segment and an open declaration
\* follow the latest STARTED marker, after which no shift has ended; and no step is still
\* worked that was taken up inside a shift now closed.
THEOREM OpenBelongsToCurrent == Spec => []OpenInCurrentShift
<1>1. IInv => OpenInCurrentShift
  <2> SUFFICES ASSUME IInv, ~disorder
               PROVE  /\ \A r \in OpenIn(rows) : /\ started # {} /\ Max(started) <= r.entered
                                                 /\ \A e \in ended : e <= Max(started)
                      /\ \A x \in OpenIn(declared) : ClockedIn(Tables) /\ x.entered >= Max(started)
                      /\ \A x \in OpenWorking(Tables), h \in shifts : x.entered \notin h.start..(h.end - 1)
    BY DEF OpenInCurrentShift
  <2>1. PICK d : /\ d = Tables /\ d.rows = rows /\ d.started = started /\ d.ended = ended
                 /\ d.declared = declared /\ d.shifts = shifts
    BY TablesAre
  <2>2. Left(d) /\ Sorted(d)
    BY <2>1 DEF IInv, Sane
  <2>3. /\ \A r \in rows : r.entered \in Nat
        /\ \A x \in declared : x.entered \in Nat
        /\ \A e \in ended : e \in Nat
        /\ \A s \in started : s \in Nat
    BY TablesAre, TimesAre DEF Segs, Decls
  <2>4. ClockedIn(d) => /\ started # {}
                        /\ \A e \in ended : e <= Max(started)
    <3>1. ClockedIn(d) => started # {} /\ \A e \in ended : \E s \in started : e <= s
      BY <2>1, <2>2 DEF Sorted
    <3>2. ASSUME ClockedIn(d), NEW e \in ended PROVE e <= Max(started)
      <4>1. PICK s \in started : e <= s
        BY <3>1, <3>2
      <4>2. Max(started) \in Nat /\ s <= Max(started)
        <5>1. Max(started) \in Nat /\ Max(started) <= Max(started)
          BY <4>1, LatestMarker
        <5> QED BY <5>1, LatestMarker, <4>1
      <4> QED BY <2>3, <4>1, <4>2
    <3> QED BY <3>1, <3>2
  <2>5. ASSUME NEW r \in OpenIn(rows)
        PROVE  started # {} /\ Max(started) <= r.entered /\ \A e \in ended : e <= Max(started)
    <3>1. ClockedIn(d) /\ r.entered \in Nat /\ \A s \in started : s <= r.entered
      BY <2>1, <2>2, <2>3, <2>5 DEF ClockedIn, Sorted, OpenIn
    <3> QED BY <2>4, <3>1, LatestMarker
  <2>6. ASSUME NEW x \in OpenIn(declared)
        PROVE  ClockedIn(Tables) /\ x.entered >= Max(started)
    <3>1. ClockedIn(d) /\ x.entered \in Nat /\ \A s \in started : s <= x.entered
      BY <2>1, <2>2, <2>3, <2>6 DEF Sorted, OpenIn
    <3>2. Max(started) <= x.entered /\ Max(started) \in Nat
      BY <2>4, <3>1, LatestMarker
    <3> QED BY <2>1, <3>1, <3>2
  <2> QED BY <2>1, <2>2, <2>5, <2>6 DEF Left
<1> QED BY <1>1, Invariance, PTL

\* Once the queue is drained the open segment of a current shift shows working exactly when a
\* step of the shift is worked, and a declared pause exactly when one is declared and nothing
\* is worked, however often reconciles ran and whoever closed the shift before.
THEOREM LiveStateTrue == Spec => []LiveStateAgrees
<1>1. IInv => LiveStateAgrees
  <2> SUFFICES ASSUME IInv, ~disorder, ~outbox, ~Stale(Tables, now), NEW r \in OpenIn(rows)
               PROVE  LET work == \E x \in OpenWorking(Tables) : x.entered >= Max(started)
                      IN  /\ r.state = "working" <=> work
                          /\ r.why \in Reasons <=> ~work /\ OpenIn(declared) # {}
    BY Zenon DEF LiveStateAgrees
  <2>1. PICK d : d = Tables /\ d.rows = rows /\ d.started = started /\ d.declared = declared /\ d.steps = steps
    BY TablesAre
  <2>2. Sorted(d) /\ Settled(d, now) /\ ~Stale(d, now) /\ ClockedIn(d)
    BY <2>1 DEF IInv, ClockedIn
  <2>3. Live(d) /\ started # {}
    BY <2>1, <2>2 DEF Settled, Sorted
  <2>4. \A x \in OpenWorking(d) : x.entered \in Nat
    BY <2>1, TablesAre, TimesAre DEF Recs, OpenWorking, OpenIn
  <2>5. \A x \in OpenWorking(d) : (\A s \in started : s <= x.entered) <=> x.entered >= Max(started)
    BY <2>3, <2>4, LatestMarker
  <2>6. PICK w : w = \E x \in OpenWorking(d) : \A s \in started : s <= x.entered
    OBVIOUS
  <2>7. (r.state = "working" <=> w) /\ (r.why \in Reasons <=> ~w /\ OpenIn(declared) # {})
    BY <2>1, <2>3, <2>6, Zenon DEF Live
  <2>8. w <=> \E x \in OpenWorking(d) : x.entered >= Max(started)
    BY <2>5, <2>6, Zenon
  <2> QED BY <2>1, <2>7, <2>8, Zenon
<1> QED BY <1>1, Invariance, PTL

-----------------------------------------------------------------------------
(* The timeline of a closed shift.                                            *)

\* What the sources in d say of the instant t, for a shift begun at s.
Taken(x, s, t) == s <= x.entered /\ x.entered <= t /\ t < x.exited
Worked(d, s, t) == \E x \in d.steps : x.state = "working" /\ Taken(x, s, t)
Resumed(d, s, p, t) ==
  \E x \in d.steps : x.state = "working" /\ s <= x.entered /\ p < x.entered /\ x.entered <= t
StepHalts(d, s, t) ==
  \E p \in d.steps : /\ p.state = "paused" /\ ~p.shiftEnded
                     /\ Taken(p, s, t) /\ ~Resumed(d, s, p.entered, t)
DeclHalts(d, s, t) == \E p \in d.declared : Taken(p, s, t) /\ ~Resumed(d, s, p.entered, t)
Says(d, s, t, state) ==
  /\ state \in {"working", "in_pause", "idle"}
  /\ state = "working" <=> Worked(d, s, t)
  /\ state = "in_pause" <=> ~Worked(d, s, t) /\ (StepHalts(d, s, t) \/ DeclHalts(d, s, t))

\* One segment covers the instant t of the shift h, lies within it and shows what the sources say.
Covers(r, t) == r.entered <= t /\ t < r.exited
ToldAt(d, h, t) ==
  \E r \in d.rows : /\ Covers(r, t) /\ h.start <= r.entered /\ r.exited <= h.end
                    /\ Says(d, h.start, t, r.state)
                    /\ \A q \in d.rows : Covers(q, t) => q = r
Told(d) == \A h \in d.shifts : \A t \in h.start..(h.end - 1) : ToldAt(d, h, t)

\* What was recorded before the instant n is kept: the same records, left at the same instant or
\* both not before n, and the same segments.
LikeStep(x, y, n) == /\ x.entered = y.entered /\ x.state = y.state /\ x.shiftEnded = y.shiftEnded
                     /\ (x.exited = y.exited \/ (n <= x.exited /\ n <= y.exited))
LikeDecl(x, y, n) == /\ x.entered = y.entered
                     /\ (x.exited = y.exited \/ (n <= x.exited /\ n <= y.exited))
KeptSteps(S, n, T) ==
  /\ \A x \in T : x.entered < n => \E y \in S : LikeStep(x, y, n)
  /\ \A y \in S : y.entered < n => \E x \in T : LikeStep(x, y, n)
KeptDecls(S, n, T) ==
  /\ \A x \in T : x.entered < n => \E y \in S : LikeDecl(x, y, n)
  /\ \A y \in S : y.entered < n => \E x \in T : LikeDecl(x, y, n)
KeptRows(S, n, T) ==
  /\ \A x \in T : x.entered < n => x \in S
  /\ \A x \in S : x.entered < n => x \in T
Upholds(d, n, e) ==
  /\ KeptSteps(d.steps, n, e.steps) /\ KeptDecls(d.declared, n, e.declared) /\ KeptRows(d.rows, n, e.rows)

LEMMA FieldsAre ==
  ASSUME NEW d \in TableSet
  PROVE  /\ d.rows \in SUBSET Segs /\ d.declared \in SUBSET Decls /\ d.steps \in SUBSET Recs
         /\ d.started \in SUBSET Times /\ d.ended \in SUBSET Times /\ d.shifts \in SUBSET Closed
         /\ \A x \in d.rows : x.entered \in Nat /\ x.exited \in Nat /\ x.exited <= Open
         /\ \A x \in d.declared : x.entered \in Nat /\ x.exited \in Nat /\ x.exited <= Open
         /\ \A x \in d.steps : x.entered \in Nat /\ x.exited \in Nat /\ x.exited <= Open
         /\ \A t \in d.started : t \in Nat
         /\ \A t \in d.ended : t \in Nat
         /\ \A h \in d.shifts : h.start \in Nat /\ h.end \in Nat
<1>1. /\ d.rows \in SUBSET Segs /\ d.declared \in SUBSET Decls /\ d.steps \in SUBSET Recs
      /\ d.started \in SUBSET Times /\ d.ended \in SUBSET Times /\ d.shifts \in SUBSET Closed
  BY DEF TableSet
<1>2. \A x \in 0..Open : x \in Nat /\ x <= Open
  BY TimesAre
<1>3. \A x \in d.rows : x.entered \in Nat /\ x.exited \in Nat /\ x.exited <= Open
  BY <1>1, <1>2, TimesAre DEF Segs
<1>4. \A x \in d.declared : x.entered \in Nat /\ x.exited \in Nat /\ x.exited <= Open
  BY <1>1, <1>2, TimesAre DEF Decls
<1>5. \A x \in d.steps : x.entered \in Nat /\ x.exited \in Nat /\ x.exited <= Open
  BY <1>1, <1>2, TimesAre DEF Recs
<1>6. \A h \in d.shifts : h.start \in Nat /\ h.end \in Nat
  BY <1>1, TimesAre DEF Closed
<1> QED BY <1>1, <1>3, <1>4, <1>5, <1>6, TimesAre

\* The sources then say of an instant before n what they said.
LEMMA SaysKept ==
  ASSUME NEW d \in TableSet, NEW e \in TableSet, NEW n \in Nat,
         KeptSteps(d.steps, n, e.steps), KeptDecls(d.declared, n, e.declared),
         NEW s \in Nat, NEW t \in Nat, t < n, NEW state
  PROVE  Says(d, s, t, state) <=> Says(e, s, t, state)
<1>1. /\ \A x \in d.steps : x.entered \in Nat /\ x.exited \in Nat
      /\ \A x \in e.steps : x.entered \in Nat /\ x.exited \in Nat
      /\ \A x \in d.declared : x.entered \in Nat /\ x.exited \in Nat
      /\ \A x \in e.declared : x.entered \in Nat /\ x.exited \in Nat
  BY FieldsAre
<1>2. /\ \A x \in e.steps : x.entered <= t => \E y \in d.steps : LikeStep(x, y, n)
      /\ \A y \in d.steps : y.entered <= t => \E x \in e.steps : LikeStep(x, y, n)
      /\ \A x \in e.declared : x.entered <= t => \E y \in d.declared : LikeDecl(x, y, n)
      /\ \A y \in d.declared : y.entered <= t => \E x \in e.declared : LikeDecl(x, y, n)
  BY <1>1 DEF KeptSteps, KeptDecls
<1>3. ASSUME NEW x, NEW y, x.entered \in Nat, x.exited \in Nat, y.entered \in Nat, y.exited \in Nat,
             LikeDecl(x, y, n)
      PROVE  Taken(x, s, t) <=> Taken(y, s, t)
  BY <1>3 DEF LikeDecl, Taken
<1>4. \A x, y : LikeStep(x, y, n) => LikeDecl(x, y, n)
  BY DEF LikeStep, LikeDecl
<1>5. \A x, u : Taken(x, u, t) => x.entered <= t
  BY DEF Taken
<1>6. Worked(d, s, t) <=> Worked(e, s, t)
  <2>1. ASSUME Worked(d, s, t) PROVE Worked(e, s, t)
    <3>1. PICK y \in d.steps : y.state = "working" /\ Taken(y, s, t)
      BY <2>1 DEF Worked
    <3>2. PICK x \in e.steps : LikeStep(x, y, n)
      BY <1>2, <1>5, <3>1
    <3>3. Taken(x, s, t)
      BY <1>1, <1>3, <1>4, <3>1, <3>2
    <3> QED BY <3>1, <3>2, <3>3 DEF Worked, LikeStep
  <2>2. ASSUME Worked(e, s, t) PROVE Worked(d, s, t)
    <3>1. PICK x \in e.steps : x.state = "working" /\ Taken(x, s, t)
      BY <2>2 DEF Worked
    <3>2. PICK y \in d.steps : LikeStep(x, y, n)
      BY <1>2, <1>5, <3>1
    <3>3. Taken(y, s, t)
      BY <1>1, <1>3, <1>4, <3>1, <3>2
    <3> QED BY <3>1, <3>2, <3>3 DEF Worked, LikeStep
  <2> QED BY <2>1, <2>2
<1>7. ASSUME NEW p PROVE Resumed(d, s, p, t) <=> Resumed(e, s, p, t)
  BY <1>2 DEF Resumed, LikeStep
<1>8. StepHalts(d, s, t) <=> StepHalts(e, s, t)
  <2>1. ASSUME StepHalts(d, s, t) PROVE StepHalts(e, s, t)
    <3>1. PICK y \in d.steps : /\ y.state = "paused" /\ ~y.shiftEnded
                               /\ Taken(y, s, t) /\ ~Resumed(d, s, y.entered, t)
      BY <2>1 DEF StepHalts
    <3>2. PICK x \in e.steps : LikeStep(x, y, n)
      BY <1>2, <1>5, <3>1
    <3>3. Taken(x, s, t) /\ x.entered = y.entered /\ x.state = y.state /\ x.shiftEnded = y.shiftEnded
      BY <1>1, <1>3, <1>4, <3>1, <3>2 DEF LikeStep
    <3>4. ~Resumed(e, s, x.entered, t)
      BY <1>7, <3>1, <3>3
    <3> QED BY <3>1, <3>3, <3>4 DEF StepHalts
  <2>2. ASSUME StepHalts(e, s, t) PROVE StepHalts(d, s, t)
    <3>1. PICK x \in e.steps : /\ x.state = "paused" /\ ~x.shiftEnded
                               /\ Taken(x, s, t) /\ ~Resumed(e, s, x.entered, t)
      BY <2>2 DEF StepHalts
    <3>2. PICK y \in d.steps : LikeStep(x, y, n)
      BY <1>2, <1>5, <3>1
    <3>3. Taken(y, s, t) /\ x.entered = y.entered /\ x.state = y.state /\ x.shiftEnded = y.shiftEnded
      BY <1>1, <1>3, <1>4, <3>1, <3>2 DEF LikeStep
    <3>4. ~Resumed(d, s, y.entered, t)
      BY <1>7, <3>1, <3>3
    <3> QED BY <3>1, <3>3, <3>4 DEF StepHalts
  <2> QED BY <2>1, <2>2
<1>9. DeclHalts(d, s, t) <=> DeclHalts(e, s, t)
  <2>1. ASSUME DeclHalts(d, s, t) PROVE DeclHalts(e, s, t)
    <3>1. PICK y \in d.declared : Taken(y, s, t) /\ ~Resumed(d, s, y.entered, t)
      BY <2>1 DEF DeclHalts
    <3>2. PICK x \in e.declared : LikeDecl(x, y, n)
      BY <1>2, <1>5, <3>1
    <3>3. Taken(x, s, t) /\ x.entered = y.entered
      BY <1>1, <1>3, <3>1, <3>2 DEF LikeDecl
    <3> QED BY <1>7, <3>1, <3>3 DEF DeclHalts
  <2>2. ASSUME DeclHalts(e, s, t) PROVE DeclHalts(d, s, t)
    <3>1. PICK x \in e.declared : Taken(x, s, t) /\ ~Resumed(e, s, x.entered, t)
      BY <2>2 DEF DeclHalts
    <3>2. PICK y \in d.declared : LikeDecl(x, y, n)
      BY <1>2, <1>5, <3>1
    <3>3. Taken(y, s, t) /\ x.entered = y.entered
      BY <1>1, <1>3, <3>1, <3>2 DEF LikeDecl
    <3> QED BY <1>7, <3>1, <3>3 DEF DeclHalts
  <2> QED BY <2>1, <2>2
<1> QED BY <1>6, <1>8, <1>9 DEF Says

\* A closed shift is told as it was.
LEMMA ToldKept ==
  ASSUME NEW d \in TableSet, NEW e \in TableSet, NEW h \in Closed, Upholds(d, h.end, e),
         NEW t \in h.start..(h.end - 1), ToldAt(d, h, t)
  PROVE  ToldAt(e, h, t)
<1>1. h.start \in Nat /\ h.end \in Nat /\ t \in Nat /\ h.start <= t /\ t < h.end
  BY TimesAre DEF Closed
<1>2. KeptSteps(d.steps, h.end, e.steps) /\ KeptDecls(d.declared, h.end, e.declared)
      /\ KeptRows(d.rows, h.end, e.rows)
  BY DEF Upholds
<1>3. PICK r \in d.rows : /\ Covers(r, t) /\ h.start <= r.entered /\ r.exited <= h.end
                          /\ Says(d, h.start, t, r.state)
                          /\ \A q \in d.rows : Covers(q, t) => q = r
  BY DEF ToldAt
<1>4. Says(e, h.start, t, r.state)
  BY <1>1, <1>2, <1>3, SaysKept
<1>5. \A x \in e.rows : x.entered \in Nat
  BY FieldsAre
<1>6. \A x \in d.rows : x.entered \in Nat
  BY FieldsAre
<1>7. r \in e.rows
  BY <1>1, <1>2, <1>3, <1>6 DEF KeptRows, Covers
<1>8. ASSUME NEW q \in e.rows, Covers(q, t) PROVE q = r
  <2>1. q \in d.rows
    BY <1>1, <1>2, <1>5, <1>8 DEF KeptRows, Covers
  <2> QED BY <1>3, <1>8, <2>1
<1> QED BY <1>3, <1>4, <1>7, <1>8 DEF ToldAt

-----------------------------------------------------------------------------
(* What the sweep makes of an instant.                                        *)

\* A pause counts until it is left or work begins after it.
LEMMA ActiveIs ==
  ASSUME NEW I, \A i \in I : i.from \in Nat /\ i.to \in Nat, NEW i \in I, NEW t \in Nat
  PROVE  t < ActiveEnd(I, i) <=>
           /\ t < i.to
           /\ i.kind = "paused" => \A w \in I : w.kind = "working" /\ w.from > i.from => t < w.from
<1>1. PICK R : R = {w.from : w \in {x \in I : x.kind = "working" /\ x.from > i.from}}
  OBVIOUS
<1>2. ActiveEnd(I, i) = IF i.kind # "paused" \/ R = {} THEN i.to ELSE Min2(i.to, Min(R))
  BY <1>1, Zenon DEF ActiveEnd
<1>3. \A n : n \in R <=> \E w \in I : w.kind = "working" /\ w.from > i.from /\ n = w.from
  BY <1>1
<1>4. CASE i.kind # "paused"
  BY <1>2, <1>4
<1>5. CASE i.kind = "paused" /\ R = {}
  BY <1>2, <1>3, <1>5
<1>6. CASE i.kind = "paused" /\ R # {}
  <2>1. PICK m : m = Min(R)
    OBVIOUS
  <2>2. R \in SUBSET Nat
    BY <1>3
  <2>3. m \in R /\ \A y \in R : m <= y
    BY <1>6, <2>1, <2>2, MinOf
  <2>4. ActiveEnd(I, i) = Min2(i.to, m)
    BY <1>2, <1>6, <2>1
  <2>5. m \in Nat /\ \A y \in R : y \in Nat
    BY <2>2, <2>3
  <2>6. t < Min2(i.to, m) <=> t < i.to /\ t < m
    BY <2>5 DEF Min2
  <2>7. t < m <=> \A y \in R : t < y
    BY <2>3, <2>5
  <2>8. (\A y \in R : t < y) <=> \A w \in I : w.kind = "working" /\ w.from > i.from => t < w.from
    BY <1>3
  <2> QED BY <1>6, <2>4, <2>6, <2>7, <2>8
<1> QED BY <1>4, <1>5, <1>6

OnWork(I, t)  == \E i \in I : i.kind = "working" /\ i.from <= t /\ t < i.to
OnPause(I, t) ==
  \E i \in I : /\ i.kind = "paused" /\ i.from <= t /\ t < i.to
               /\ \A w \in I : w.kind = "working" /\ w.from > i.from => t < w.from

LEMMA SweepIs ==
  ASSUME NEW I, \A i \in I : i.from \in Nat /\ i.to \in Nat, NEW t \in Nat,
         NEW state, state = SweepAt(I, t)[1]
  PROVE  /\ state \in {"working", "in_pause", "idle"}
         /\ state = "working" <=> OnWork(I, t)
         /\ state = "in_pause" <=> ~OnWork(I, t) /\ OnPause(I, t)
<1>1. PICK on : on = {i \in I : i.from <= t /\ t < ActiveEnd(I, i)}
  OBVIOUS
<1>2. PICK paused : paused = {i \in on : i.kind = "paused"}
  OBVIOUS
<1>3. PICK label : label = SweepAt(I, t)
  OBVIOUS
<1>4. PICK why : why = PauseOwner(paused).why
  OBVIOUS
<1>5. label = IF \E i \in on : i.kind = "working" THEN <<"working", "none">>
              ELSE IF paused # {} THEN <<"in_pause", why>>
              ELSE <<"idle", "none">>
  BY <1>1, <1>2, <1>3, <1>4, Zenon DEF SweepAt
<1>6. \A i \in I : t < ActiveEnd(I, i) <=>
           /\ t < i.to
           /\ i.kind = "paused" => \A w \in I : w.kind = "working" /\ w.from > i.from => t < w.from
  BY ActiveIs
<1>7. (\E i \in on : i.kind = "working") <=> OnWork(I, t)
  BY <1>1, <1>6 DEF OnWork
<1>8. paused # {} <=> OnPause(I, t)
  <2>1. \A i : i \in paused <=> i \in I /\ i.from <= t /\ t < ActiveEnd(I, i) /\ i.kind = "paused"
    BY <1>1, <1>2
  <2>2. paused # {} <=> \E i \in I : i.from <= t /\ t < ActiveEnd(I, i) /\ i.kind = "paused"
    BY <2>1
  <2> QED BY <1>6, <2>2 DEF OnPause
<1>9. CASE OnWork(I, t)
  BY <1>3, <1>5, <1>7, <1>9
<1>10. CASE ~OnWork(I, t) /\ OnPause(I, t)
  BY <1>3, <1>5, <1>7, <1>8, <1>10
<1>11. CASE ~OnWork(I, t) /\ ~OnPause(I, t)
  BY <1>3, <1>5, <1>7, <1>8, <1>11
<1> QED BY <1>9, <1>10, <1>11

\* The intervals of work and of pause, and the records they come from.
Spans(x, start, end) == x.entered \in start..(end - 1) /\ x.entered < Min2(x.exited, end)
Within(i, x, start, end) ==
  /\ x.entered \in start..(end - 1)
  /\ i.from = x.entered /\ i.to = Min2(x.exited, end) /\ i.from < i.to

PauseOf(d, i, start, end) ==
  \/ \E x \in d.steps : x.state = "paused" /\ ~x.shiftEnded /\ Within(i, x, start, end)
  \/ \E x \in d.declared : Within(i, x, start, end)
  \/ \E x \in d.rows : x.why \in Reasons /\ Within(i, x, start, end)

\* Only a pause is marked as the end of a shift, and no record of work is empty.
Whole(S) == \A x \in S : x.entered < x.exited /\ (x.shiftEnded => x.state = "paused")

LEMMA IntervalIs ==
  ASSUME NEW kind, NEW why, NEW priority, NEW x, NEW end, NEW i, i = Interval(kind, why, priority, x, end)
  PROVE  i.kind = kind /\ i.from = x.entered /\ i.to = Min2(x.exited, end)
  BY DEF Interval

LEMMA SourcesAre ==
  ASSUME NEW d \in TableSet, Whole(d.steps), NEW start \in Times, NEW end \in Times,
         NEW I, I = SweepIntervals(d, start, end)
  PROVE  /\ \A i \in I : i.from \in Nat /\ i.to \in Nat
         /\ \A i \in I : i.kind = "working" =>
              \E x \in d.steps : x.state = "working" /\ Within(i, x, start, end)
         /\ \A i \in I : i.kind = "paused" => PauseOf(d, i, start, end)
         /\ \A x \in d.steps : x.state = "working" /\ Spans(x, start, end) =>
              \E i \in I : i.kind = "working" /\ Within(i, x, start, end)
         /\ \A x \in d.steps : x.state = "paused" /\ ~x.shiftEnded /\ Spans(x, start, end) =>
              \E i \in I : i.kind = "paused" /\ Within(i, x, start, end)
         /\ \A x \in d.declared : Spans(x, start, end) =>
              \E i \in I : i.kind = "paused" /\ Within(i, x, start, end)
<1> DEFINE In(S) == {x \in S : x.entered \in start..(end - 1)}
           Of(x) == IF x.shiftEnded THEN "ended_shift" ELSE x.state
<1>1. PICK A : A = {Interval(Of(x), "step", 0, x, end) : x \in In(d.steps)}
  OBVIOUS
<1>2. PICK B : B = {Interval("paused", x.why, 2, x, end) : x \in In(d.declared)}
  OBVIOUS
<1>3. PICK C : C = {Interval("paused", r.why, 1, r, end) : r \in {y \in In(d.rows) : y.why \in Reasons}}
  OBVIOUS
<1>4. I = {i \in A \cup B \cup C : i.from < i.to}
  BY <1>1, <1>2, <1>3, Zenon DEF SweepIntervals
<1>5. \A x \in d.steps : x.state \in {"working", "paused"} /\ (x.shiftEnded => x.state = "paused")
  BY FieldsAre DEF Whole, Recs
<1>6. \A i \in A : \E x \in d.steps :
        x.entered \in start..(end - 1) /\ i.kind = Of(x) /\ i.from = x.entered /\ i.to = Min2(x.exited, end)
  BY <1>1, IntervalIs
<1>7. \A i \in B : \E x \in d.declared :
        x.entered \in start..(end - 1) /\ i.kind = "paused" /\ i.from = x.entered /\ i.to = Min2(x.exited, end)
  BY <1>2, IntervalIs
<1>8. \A i \in C : \E x \in d.rows : /\ x.why \in Reasons /\ x.entered \in start..(end - 1) /\ i.kind = "paused"
                                     /\ i.from = x.entered /\ i.to = Min2(x.exited, end)
  BY <1>3, IntervalIs
<1>9. \A x \in d.steps : x.entered \in start..(end - 1) =>
        \E i \in A : i.kind = Of(x) /\ i.from = x.entered /\ i.to = Min2(x.exited, end)
  <2> SUFFICES ASSUME NEW x \in d.steps, x.entered \in start..(end - 1)
               PROVE  \E i \in A : i.kind = Of(x) /\ i.from = x.entered /\ i.to = Min2(x.exited, end)
    OBVIOUS
  <2>1. PICK i : i = Interval(Of(x), "step", 0, x, end)
    OBVIOUS
  <2>2. i \in A
    BY <1>1, <2>1
  <2> QED BY <2>1, <2>2, IntervalIs
<1>10. \A x \in d.declared : x.entered \in start..(end - 1) =>
        \E i \in B : i.kind = "paused" /\ i.from = x.entered /\ i.to = Min2(x.exited, end)
  <2> SUFFICES ASSUME NEW x \in d.declared, x.entered \in start..(end - 1)
               PROVE  \E i \in B : i.kind = "paused" /\ i.from = x.entered /\ i.to = Min2(x.exited, end)
    OBVIOUS
  <2>1. PICK i : i = Interval("paused", x.why, 2, x, end)
    OBVIOUS
  <2>2. i \in B
    BY <1>2, <2>1
  <2> QED BY <2>1, <2>2, IntervalIs
<1>11. \A i \in I : i.from \in Nat /\ i.to \in Nat
  BY IntervalsAre
<1>12. \A x : /\ Of(x) = "working" => ~x.shiftEnded /\ x.state = "working"
              /\ Of(x) = "paused" => ~x.shiftEnded /\ x.state = "paused"
              /\ ~x.shiftEnded => Of(x) = x.state
  OBVIOUS
<1> HIDE DEF Of, In
<1>13. ASSUME NEW i \in I, i.kind = "working"
       PROVE  \E x \in d.steps : x.state = "working" /\ Within(i, x, start, end)
  <2>1. i \in A /\ i.from < i.to
    BY <1>4, <1>7, <1>8, <1>13
  <2> QED BY <1>6, <1>12, <1>13, <2>1 DEF Within
<1>14. ASSUME NEW i \in I, i.kind = "paused"
       PROVE  PauseOf(d, i, start, end)
  <2>1. i.from < i.to /\ (i \in A \/ i \in B \/ i \in C)
    BY <1>4
  <2>2. CASE i \in A
    BY <1>6, <1>12, <1>14, <2>1, <2>2 DEF Within, PauseOf
  <2>3. CASE i \in B
    BY <1>7, <2>1, <2>3 DEF Within, PauseOf
  <2>4. CASE i \in C
    BY <1>8, <2>1, <2>4 DEF Within, PauseOf
  <2> QED BY <2>1, <2>2, <2>3, <2>4
<1>15. ASSUME NEW x \in d.steps, Spans(x, start, end), ~x.shiftEnded
       PROVE  \E i \in I : i.kind = x.state /\ Within(i, x, start, end)
  <2>1. PICK i \in A : i.kind = Of(x) /\ i.from = x.entered /\ i.to = Min2(x.exited, end)
    BY <1>9, <1>15 DEF Spans
  <2>2. i \in I
    BY <1>4, <1>15, <2>1 DEF Spans
  <2> QED BY <1>12, <1>15, <2>1, <2>2 DEF Within, Spans
<1>16. ASSUME NEW x \in d.declared, Spans(x, start, end)
       PROVE  \E i \in I : i.kind = "paused" /\ Within(i, x, start, end)
  <2>1. PICK i \in B : i.kind = "paused" /\ i.from = x.entered /\ i.to = Min2(x.exited, end)
    BY <1>10, <1>16 DEF Spans
  <2>2. i \in I
    BY <1>4, <1>16, <2>1 DEF Spans
  <2> QED BY <1>16, <2>1, <2>2 DEF Within, Spans
<1>17. \A x \in d.steps : x.state = "working" => ~x.shiftEnded
  BY <1>5
<1> QED BY <1>11, <1>13, <1>14, <1>15, <1>16, <1>17

\* A segment that carries a declaration ran while one was open.
Backed(d, r, t) == \E x \in d.declared : r.entered <= x.entered /\ x.entered <= t /\ t < x.exited
RowsBacked(d, start, end) ==
  \A r \in d.rows : r.why \in Reasons /\ r.entered \in start..(end - 1) =>
    \A t \in start..(end - 1) : Covers(r, t) => Backed(d, r, t)

\* The sweep shows what the sources say.
LEMMA SweepSays ==
  ASSUME NEW d \in TableSet, Whole(d.steps), NEW start \in Times, NEW end \in Times,
         RowsBacked(d, start, end), NEW t \in start..(end - 1),
         NEW state, state = SweepAt(SweepIntervals(d, start, end), t)[1]
  PROVE  Says(d, start, t, state)
<1>1. PICK I : I = SweepIntervals(d, start, end)
  OBVIOUS
<1>2. start \in Nat /\ end \in Nat /\ t \in Nat /\ start <= t /\ t < end
  BY TimesAre
<1>3. /\ \A x \in d.steps : x.entered \in Nat /\ x.exited \in Nat /\ x.entered < x.exited
      /\ \A x \in d.declared : x.entered \in Nat /\ x.exited \in Nat
      /\ \A x \in d.rows : x.entered \in Nat /\ x.exited \in Nat
  BY FieldsAre DEF Whole
<1>4. /\ \A i \in I : i.from \in Nat /\ i.to \in Nat
      /\ \A i \in I : i.kind = "working" =>
           \E x \in d.steps : x.state = "working" /\ Within(i, x, start, end)
      /\ \A i \in I : i.kind = "paused" => PauseOf(d, i, start, end)
      /\ \A x \in d.steps : x.state = "working" /\ Spans(x, start, end) =>
           \E i \in I : i.kind = "working" /\ Within(i, x, start, end)
      /\ \A x \in d.steps : x.state = "paused" /\ ~x.shiftEnded /\ Spans(x, start, end) =>
           \E i \in I : i.kind = "paused" /\ Within(i, x, start, end)
      /\ \A x \in d.declared : Spans(x, start, end) =>
           \E i \in I : i.kind = "paused" /\ Within(i, x, start, end)
  BY <1>1, SourcesAre
<1>5. ASSUME NEW x, x.entered \in Nat, x.exited \in Nat, NEW i, i.from \in Nat, i.to \in Nat, Within(i, x, start, end)
      PROVE  /\ i.from = x.entered /\ start <= x.entered
             /\ (i.from <= t /\ t < i.to) <=> Taken(x, start, t)
  BY <1>2, <1>5 DEF Within, Taken, Min2
<1>6. ASSUME NEW x, x.entered \in Nat, x.exited \in Nat, Taken(x, start, t)
      PROVE  Spans(x, start, end)
  BY <1>2, <1>6 DEF Spans, Taken, Min2
<1>7. OnWork(I, t) <=> Worked(d, start, t)
  <2>1. ASSUME OnWork(I, t) PROVE Worked(d, start, t)
    <3>1. PICK i \in I : i.kind = "working" /\ i.from <= t /\ t < i.to
      BY <2>1 DEF OnWork
    <3>2. PICK x \in d.steps : x.state = "working" /\ Within(i, x, start, end)
      BY <1>4, <3>1
    <3>3. Taken(x, start, t)
      BY <1>3, <1>4, <1>5, <3>1, <3>2
    <3> QED BY <3>2, <3>3 DEF Worked
  <2>2. ASSUME Worked(d, start, t) PROVE OnWork(I, t)
    <3>1. PICK x \in d.steps : x.state = "working" /\ Taken(x, start, t)
      BY <2>2 DEF Worked
    <3>2. PICK i \in I : i.kind = "working" /\ Within(i, x, start, end)
      BY <1>3, <1>4, <1>6, <3>1
    <3>3. i.from <= t /\ t < i.to
      BY <1>3, <1>4, <1>5, <3>1, <3>2
    <3> QED BY <3>2, <3>3 DEF OnWork
  <2> QED BY <2>1, <2>2
<1>8. ASSUME NEW p \in Nat
      PROVE  (\E w \in I : w.kind = "working" /\ w.from > p /\ w.from <= t) <=> Resumed(d, start, p, t)
  <2>1. ASSUME NEW w \in I, w.kind = "working", w.from > p, w.from <= t PROVE Resumed(d, start, p, t)
    <3>1. PICK x \in d.steps : x.state = "working" /\ Within(w, x, start, end)
      BY <1>4, <2>1
    <3>2. w.from = x.entered /\ start <= x.entered
      BY <1>3, <1>4, <1>5, <3>1
    <3>3. x.entered \in Nat
      BY <1>3
    <3> QED BY <1>2, <2>1, <3>1, <3>2, <3>3 DEF Resumed
  <2>2. ASSUME Resumed(d, start, p, t)
        PROVE  \E w \in I : w.kind = "working" /\ w.from > p /\ w.from <= t
    <3>1. PICK x \in d.steps : x.state = "working" /\ start <= x.entered /\ p < x.entered /\ x.entered <= t
      BY <2>2 DEF Resumed
    <3>2. Spans(x, start, end)
      BY <1>2, <1>3, <3>1 DEF Spans, Min2
    <3>3. PICK w \in I : w.kind = "working" /\ Within(w, x, start, end)
      BY <1>4, <3>1, <3>2
    <3>4. w.from = x.entered
      BY <3>3 DEF Within
    <3> QED BY <3>1, <3>3, <3>4, <1>3
  <2> QED BY <2>1, <2>2
<1>9. ASSUME NEW i \in I
      PROVE  (\A w \in I : w.kind = "working" /\ w.from > i.from => t < w.from)
                <=> ~Resumed(d, start, i.from, t)
  <2>1. i.from \in Nat /\ \A w \in I : w.from \in Nat
    BY <1>4
  <2>2. (\A w \in I : w.kind = "working" /\ w.from > i.from => t < w.from)
          <=> ~(\E w \in I : w.kind = "working" /\ w.from > i.from /\ w.from <= t)
    BY <1>2, <2>1
  <2> QED BY <1>8, <2>1, <2>2
<1>10. ASSUME OnPause(I, t) PROVE StepHalts(d, start, t) \/ DeclHalts(d, start, t)
  <2>1. PICK i \in I : /\ i.kind = "paused" /\ i.from <= t /\ t < i.to
                       /\ \A w \in I : w.kind = "working" /\ w.from > i.from => t < w.from
    BY <1>10 DEF OnPause
  <2>2. ~Resumed(d, start, i.from, t) /\ PauseOf(d, i, start, end) /\ i.from \in Nat /\ i.to \in Nat
    BY <1>4, <1>9, <2>1
  <2>3. ASSUME NEW x \in d.steps, x.state = "paused", ~x.shiftEnded, Within(i, x, start, end)
        PROVE  StepHalts(d, start, t)
    <3>1. i.from = x.entered /\ Taken(x, start, t)
      BY <1>3, <1>5, <2>1, <2>2, <2>3
    <3> QED BY <2>2, <2>3, <3>1 DEF StepHalts
  <2>4. ASSUME NEW x \in d.declared, Within(i, x, start, end)
        PROVE  DeclHalts(d, start, t)
    <3>1. i.from = x.entered /\ Taken(x, start, t)
      BY <1>3, <1>5, <2>1, <2>2, <2>4
    <3> QED BY <2>2, <3>1 DEF DeclHalts
  <2>5. ASSUME NEW r \in d.rows, r.why \in Reasons, Within(i, r, start, end)
        PROVE  DeclHalts(d, start, t)
    <3>1. i.from = r.entered /\ start <= r.entered /\ Taken(r, start, t)
      BY <1>3, <1>5, <2>1, <2>2, <2>5
    <3>2. r.entered \in start..(end - 1)
      BY <2>5 DEF Within
    <3>3. Backed(d, r, t)
      BY <2>5, <3>1, <3>2 DEF RowsBacked, Covers, Taken
    <3>4. PICK x \in d.declared : r.entered <= x.entered /\ x.entered <= t /\ t < x.exited
      BY <3>3 DEF Backed
    <3>5. r.entered \in Nat /\ x.entered \in Nat
      BY <1>3
    <3>6. Taken(x, start, t)
      BY <1>2, <3>1, <3>4, <3>5 DEF Taken
    <3>7. ~Resumed(d, start, x.entered, t)
      <4>1. \A y \in d.steps : x.entered < y.entered => r.entered < y.entered
        BY <1>3, <3>4, <3>5
      <4>2. Resumed(d, start, x.entered, t) => Resumed(d, start, r.entered, t)
        BY <4>1 DEF Resumed
      <4> QED BY <2>2, <3>1, <4>2
    <3> QED BY <3>6, <3>7 DEF DeclHalts
  <2> QED BY <2>2, <2>3, <2>4, <2>5 DEF PauseOf
<1>11. ASSUME NEW x, x.entered \in Nat, x.exited \in Nat, Taken(x, start, t),
              ~Resumed(d, start, x.entered, t),
              NEW i \in I, i.kind = "paused", Within(i, x, start, end)
       PROVE  OnPause(I, t)
  <2>1. i.from = x.entered /\ i.from <= t /\ t < i.to
    BY <1>4, <1>5, <1>11
  <2>2. \A w \in I : w.kind = "working" /\ w.from > i.from => t < w.from
    BY <1>9, <1>11, <2>1
  <2> QED BY <1>11, <2>1, <2>2 DEF OnPause
<1>12. ASSUME StepHalts(d, start, t) PROVE OnPause(I, t)
  <2>1. PICK x \in d.steps : /\ x.state = "paused" /\ ~x.shiftEnded
                             /\ Taken(x, start, t) /\ ~Resumed(d, start, x.entered, t)
    BY <1>12 DEF StepHalts
  <2>2. PICK i \in I : i.kind = "paused" /\ Within(i, x, start, end)
    BY <1>3, <1>4, <1>6, <2>1
  <2> QED BY <1>3, <1>11, <2>1, <2>2
<1>13. ASSUME DeclHalts(d, start, t) PROVE OnPause(I, t)
  <2>1. PICK x \in d.declared : Taken(x, start, t) /\ ~Resumed(d, start, x.entered, t)
    BY <1>13 DEF DeclHalts
  <2>2. PICK i \in I : i.kind = "paused" /\ Within(i, x, start, end)
    BY <1>3, <1>4, <1>6, <2>1
  <2> QED BY <1>3, <1>11, <2>1, <2>2
<1>14. /\ state \in {"working", "in_pause", "idle"}
       /\ state = "working" <=> OnWork(I, t)
       /\ state = "in_pause" <=> ~OnWork(I, t) /\ OnPause(I, t)
  BY <1>1, <1>2, <1>4, SweepIs
<1> QED BY <1>7, <1>10, <1>12, <1>13, <1>14 DEF Says

\* After a rebuild one segment tells each instant of the shift, if nothing recorded before the
\* shift reaches into it and nothing was derived for a later instant.
LEMMA RebuiltTells ==
  ASSUME NEW d \in TableSet, Whole(d.steps), NEW start \in Times, NEW end \in Times,
         RowsBacked(d, start, end), \A r \in d.rows : r.entered < end,
         \A r \in d.rows : r.entered < start => r.exited <= start,
         NEW e, e = reconstruct_shift_middle(d, start, end), NEW t \in start..(end - 1)
  PROVE  \E r \in e.rows : /\ Covers(r, t) /\ start <= r.entered /\ r.exited <= end
                           /\ Says(d, start, t, r.state)
                           /\ \A q \in e.rows : Covers(q, t) => q = r
<1>1. PICK I : I = SweepIntervals(d, start, end)
  OBVIOUS
<1>2. PICK label : label = [u \in start..(end - 1) |-> SweepAt(I, u)]
  OBVIOUS
<1>3. PICK new : new = Segments(label, start, end)
  OBVIOUS
<1>4. e = [d EXCEPT !.rows = {r \in d.rows : r.entered \notin start..(end - 1)} \cup new]
  BY <1>1, <1>2, <1>3, Zenon DEF reconstruct_shift_middle
<1>5. e.rows = {r \in d.rows : r.entered \notin start..(end - 1)} \cup new
  BY <1>4 DEF TableSet
<1>6. start \in Nat /\ end \in Nat /\ t \in Nat /\ start <= t /\ t < end
  BY TimesAre
<1>7. PICK H : H = Heads(label, start, end)
  OBVIOUS
<1>8. PICK g : g = [u \in H |-> RunEnd(label, end, u)]
  OBVIOUS
<1>9. new = {Row(label[u][1], label[u][2], u, g[u]) : u \in H}
  BY <1>3, <1>6, <1>7, <1>8, SegmentsAre
<1>10. PICK v \in H : /\ v <= t /\ t < g[v] /\ label[t] = label[v]
                      /\ \A u \in H : u <= t /\ t < g[u] => u = v
  BY <1>6, <1>7, <1>8, HeadOf
<1>11. \A u \in H : u \in start..(end - 1) /\ u \in Nat /\ u < end
  BY <1>6, <1>7 DEF Heads
<1>12. \A u \in H : g[u] \in (u + 1)..end
  BY <1>6, <1>8, <1>11, RunEndIs
<1>13. PICK r : r = Row(label[v][1], label[v][2], v, g[v])
  OBVIOUS
<1>14. r \in e.rows /\ r.state = label[v][1] /\ r.entered = v /\ r.exited = g[v]
  <2>1. r \in new
    BY <1>9, <1>13
  <2> QED BY <1>5, <1>13, <2>1 DEF Row
<1>15. Covers(r, t) /\ start <= r.entered /\ r.exited <= end
  BY <1>10, <1>11, <1>12, <1>14 DEF Covers
<1>16. r.state = SweepAt(I, t)[1]
  <2>1. label[t] = SweepAt(I, t)
    BY <1>2
  <2> QED BY <1>10, <1>14, <2>1
<1>17. Says(d, start, t, r.state)
  BY <1>1, <1>16, SweepSays
<1>18. ASSUME NEW q \in e.rows, Covers(q, t) PROVE q = r
  <2>1. CASE q \in d.rows /\ q.entered \notin start..(end - 1)
    <3>1. q.entered \in Nat /\ q.exited \in Nat /\ q.entered < end
      BY <2>1, FieldsAre
    <3>2. q.entered < start
      BY <1>6, <2>1, <3>1
    <3>3. q.exited <= start
      BY <2>1, <3>2
    <3> QED BY <1>6, <1>18, <3>1, <3>3 DEF Covers
  <2>2. CASE q \in new
    <3>1. PICK u \in H : q = Row(label[u][1], label[u][2], u, g[u])
      BY <1>9, <2>2
    <3>2. q.entered = u /\ q.exited = g[u]
      BY <3>1 DEF Row
    <3>3. u = v
      BY <1>10, <1>18, <3>2 DEF Covers
    <3> QED BY <1>13, <3>1, <3>3
  <2> QED BY <1>5, <2>1, <2>2
<1> QED BY <1>14, <1>15, <1>17, <1>18

-----------------------------------------------------------------------------
(* What is kept of the records and segments when some are left.               *)

LEMMA PausesKept ==
  ASSUME NEW S \in SUBSET Recs, NEW C \in SUBSET OpenIn(S), NEW at \in Times,
         NEW ends, ends \in BOOLEAN, NEW P, P = PauseSteps(S, C, at, ends), NEW n \in Nat, n <= at
  PROVE  KeptSteps(S, n, P)
<1>1. at \in Nat /\ Open \in Nat /\ at < Open
  BY TimesAre
<1>2. C \in SUBSET S /\ \A y \in C : y.exited = Open
  BY DEF OpenIn
<1>3. Paused(S, C, at, ends, P)
  BY <1>2, PausesAre
<1>4. ASSUME NEW x \in P, x.entered < n PROVE \E y \in S : LikeStep(x, y, n)
  BY <1>1, <1>2, <1>3, <1>4 DEF Paused, LikeStep
<1>5. ASSUME NEW y \in S, y.entered < n PROVE \E x \in P : LikeStep(x, y, n)
  <2>1. CASE y \notin C
    <3>1. y \in P
      BY <2>1 DEF PauseSteps, Leave
    <3> QED BY <3>1 DEF LikeStep
  <2>2. CASE y \in C
    <3>1. PICK x : x = [y EXCEPT !.exited = at]
      OBVIOUS
    <3>2. y \in Recs /\ y.entered \in Nat
      BY TimesAre DEF Recs
    <3>3. /\ x.entered = y.entered /\ x.state = y.state /\ x.shiftEnded = y.shiftEnded /\ x.exited = at
      BY <3>1, <3>2 DEF Recs
    <3>4. y.entered # at
      BY <1>1, <1>5, <3>2
    <3>5. x \in P
      BY <2>2, <3>1, <3>4 DEF PauseSteps, Leave
    <3> QED BY <1>1, <1>2, <2>2, <3>3, <3>5 DEF LikeStep
  <2> QED BY <2>1, <2>2
<1> QED BY <1>4, <1>5 DEF KeptSteps

LEMMA PausesWhole ==
  ASSUME NEW S \in SUBSET Recs, NEW C \in SUBSET S, NEW at \in Times, \A y \in C : y.entered <= at,
         NEW ends, ends \in BOOLEAN, NEW P, P = PauseSteps(S, C, at, ends), Whole(S)
  PROVE  Whole(P)
<1>1. Paused(S, C, at, ends, P)
  BY PausesAre
<1>2. at \in Nat /\ at < Open /\ \A y \in S : y.entered \in Nat
  BY TimesAre DEF Recs
<1> SUFFICES ASSUME NEW x \in P PROVE x.entered < x.exited /\ (x.shiftEnded => x.state = "paused")
  BY DEF Whole
<1>3. CASE x \in S
  BY <1>3 DEF Whole
<1>4. ASSUME NEW y \in C, y.entered # at, x.entered = y.entered, x.exited = at,
             x.state = y.state, x.shiftEnded = y.shiftEnded
      PROVE  x.entered < x.exited /\ (x.shiftEnded => x.state = "paused")
  BY <1>2, <1>4 DEF Whole
<1>5. CASE x.state = "paused" /\ x.entered = at /\ x.exited = Open
  BY <1>2, <1>5
<1> QED BY <1>1, <1>3, <1>4, <1>5 DEF Paused

LEMMA LeftDeclsKept ==
  ASSUME NEW S \in SUBSET Decls, NEW C \in SUBSET OpenIn(S), NEW at \in Times, NEW n \in Nat, n <= at
  PROVE  KeptDecls(S, n, Leave(S, C, at))
<1>1. at \in Nat /\ Open \in Nat /\ at < Open
  BY TimesAre
<1>2. C \in SUBSET S /\ \A y \in C : y.exited = Open
  BY DEF OpenIn
<1>3. \A x \in Leave(S, C, at) :
        \/ x \in S /\ x \notin C
        \/ \E y \in C : y.entered # at /\ x.entered = y.entered /\ x.exited = at /\ x.why = y.why
  BY <1>2, LeaveDecls
<1>4. ASSUME NEW x \in Leave(S, C, at), x.entered < n PROVE \E y \in S : LikeDecl(x, y, n)
  BY <1>1, <1>2, <1>3, <1>4 DEF LikeDecl
<1>5. ASSUME NEW y \in S, y.entered < n PROVE \E x \in Leave(S, C, at) : LikeDecl(x, y, n)
  <2>1. CASE y \notin C
    BY <2>1 DEF Leave, LikeDecl
  <2>2. CASE y \in C
    <3>1. PICK x : x = [y EXCEPT !.exited = at]
      OBVIOUS
    <3>2. y \in Decls /\ y.entered \in Nat
      BY TimesAre DEF Decls
    <3>3. x.entered = y.entered /\ x.exited = at
      BY <3>1, <3>2 DEF Decls
    <3>4. y.entered # at
      BY <1>1, <1>5, <3>2
    <3>5. x \in Leave(S, C, at)
      BY <2>2, <3>1, <3>4 DEF Leave
    <3> QED BY <1>1, <1>2, <2>2, <3>3, <3>5 DEF LikeDecl
  <2> QED BY <2>1, <2>2
<1> QED BY <1>4, <1>5 DEF KeptDecls

LEMMA ClampKept ==
  ASSUME NEW d \in TableSet, NEW at \in Times, NEW e, e = ClampDeclared(d, at), NEW n \in Nat, n <= at
  PROVE  KeptDecls(d.declared, n, e.declared)
<1>1. at \in Nat /\ Open \in Nat /\ at < Open
  BY TimesAre
<1>2. \A x \in d.declared : x.entered \in Nat
  BY FieldsAre
<1>3. \A x \in e.declared :
        \/ x \in d.declared /\ x.exited # Open
        \/ \E y \in d.declared : /\ y.exited = Open /\ x.entered = y.entered
                                 /\ x.exited = Max2(at, y.entered) /\ x.why = y.why
  BY ClampIs
<1>4. \A y \in d.declared : n <= Max2(at, y.entered)
  BY <1>1, <1>2 DEF Max2
<1>5. ASSUME NEW x \in e.declared PROVE \E y \in d.declared : LikeDecl(x, y, n)
  BY <1>1, <1>3, <1>4 DEF LikeDecl
<1>6. e.declared = {IF x.exited = Open THEN [x EXCEPT !.exited = Max2(at, x.entered)] ELSE x : x \in d.declared}
  <2>1. PICK S : S = {IF x.exited = Open THEN [x EXCEPT !.exited = Max2(at, x.entered)] ELSE x : x \in d.declared}
    OBVIOUS
  <2>2. e = [d EXCEPT !.declared = S]
    BY <2>1, Zenon DEF ClampDeclared
  <2>3. e.declared = S
    BY <2>2 DEF TableSet
  <2> QED BY <2>1, <2>3
<1>7. ASSUME NEW y \in d.declared PROVE \E x \in e.declared : LikeDecl(x, y, n)
  <2>1. CASE y.exited = Open
    <3>1. PICK x : x = [y EXCEPT !.exited = Max2(at, y.entered)]
      OBVIOUS
    <3>2. y \in Decls
      BY DEF TableSet
    <3>3. x.entered = y.entered /\ x.exited = Max2(at, y.entered)
      BY <3>1, <3>2 DEF Decls
    <3>4. x \in e.declared
      BY <1>6, <2>1, <3>1
    <3> QED BY <1>1, <1>4, <2>1, <3>3, <3>4 DEF LikeDecl
  <2>2. CASE y.exited # Open
    <3>1. y \in e.declared
      BY <1>6, <2>2
    <3> QED BY <3>1 DEF LikeDecl
  <2> QED BY <2>1, <2>2
<1> QED BY <1>5, <1>7 DEF KeptDecls

\* Open segments that began at n or later are left, and one may begin.
LEMMA LeftRowsKept ==
  ASSUME NEW S \in SUBSET Segs, NEW at \in Times, NEW n \in Nat, n <= at,
         \A r \in OpenIn(S) : n <= r.entered, NEW N, \A r \in N : r.entered = at
  PROVE  KeptRows(S, n, Leave(S, OpenIn(S), at) \cup N)
<1>1. at \in Nat /\ \A r \in S : r.entered \in Nat
  BY TimesAre DEF Segs
<1>2. OpenIn(S) \in SUBSET S
  BY DEF OpenIn
<1>3. \A x \in Leave(S, OpenIn(S), at) :
        \/ x \in S /\ x \notin OpenIn(S)
        \/ \E y \in OpenIn(S) : x.entered = y.entered /\ x.exited = at
  BY <1>2, LeaveSegs
<1>4. \A x \in Leave(S, OpenIn(S), at) \cup N : x.entered < n => x \in S
  BY <1>1, <1>2, <1>3
<1>5. \A x \in S : x.entered < n => x \in Leave(S, OpenIn(S), at)
  BY <1>1, <1>2 DEF Leave
<1> QED BY <1>4, <1>5 DEF KeptRows

LEMMA RebuiltKeeps ==
  ASSUME NEW d \in TableSet, NEW start \in Times, NEW end \in Times,
         NEW e, e = reconstruct_shift_middle(d, start, end)
  PROVE  \A r \in d.rows : r.entered \notin start..(end - 1) => r \in e.rows
<1>1. PICK I : I = SweepIntervals(d, start, end)
  OBVIOUS
<1>2. PICK label : label = [t \in start..(end - 1) |-> SweepAt(I, t)]
  OBVIOUS
<1>3. PICK R : R = {r \in d.rows : r.entered \notin start..(end - 1)} \cup Segments(label, start, end)
  OBVIOUS
<1>4. e = [d EXCEPT !.rows = R]
  BY <1>1, <1>2, <1>3, Zenon DEF reconstruct_shift_middle
<1>5. e.rows = R
  BY <1>4 DEF TableSet
<1> QED BY <1>3, <1>5

-----------------------------------------------------------------------------
(* Closing a shift, with its timeline.                                        *)

\* Nothing recorded before a shift reaches into it, and nothing outlasts the end of the last.
Placed(d) ==
  /\ \A r \in d.rows, s \in d.started : r.entered < s => r.exited <= s
  /\ ~ClockedIn(d) => \A r \in d.rows : \E e \in d.ended : r.exited <= e

\* The segments of the shift that is open: no marker is later.  Each that was left was followed
\* by another, and while one carried a declaration one was open.
Current(d, r) == Reached(d, r.entered)
Chained(d) == \A r \in d.rows : Current(d, r) /\ r.exited # Open => \E q \in d.rows : r.exited <= q.entered
Echo(d) ==
  \A r \in d.rows : r.why \in Reasons /\ Current(d, r) =>
    \A t \in Times : Covers(r, t) => Backed(d, r, t)
EchoTo(d, at) ==
  \A r \in d.rows : r.why \in Reasons /\ Current(d, r) =>
    \A t \in Times : t < at /\ Covers(r, t) => Backed(d, r, t)

Timely(d) == Placed(d) /\ Chained(d) /\ Whole(d.steps) /\ Told(d)

\* The tables b that the rebuild of the shift [start, at) works on.
Swept(d, at, b) ==
  /\ b \in TableSet /\ b.rows = {r \in d.rows : r.entered < at}
  /\ b.declared = ClampDeclared(d, at).declared /\ b.steps = d.steps

Rebuilt(d, start, at, e) ==
  \E b, c : /\ Swept(d, at, b) /\ c = reconstruct_shift_middle(b, start, at)
            /\ e.rows = c.rows /\ e.declared = b.declared
            /\ e.steps = PauseSteps(d.steps, {x \in OpenWorking(d) : x.entered < at}, at, TRUE)

LEMMA ClosureParts ==
  ASSUME NEW d \in TableSet, NEW start \in Times, NEW at \in Times,
         NEW e, e = _close_open_shift(d, start, at)
  PROVE  Rebuilt(d, start, at, e)
<1>1. PICK a : a = ClampDeclared(d, at)
  OBVIOUS
<1>2. PICK b : b = _drop_projections_from(a, at)
  OBVIOUS
<1>3. PICK c : c = reconstruct_shift_middle(b, start, at)
  OBVIOUS
<1>4. PICK W : W = {x \in OpenWorking(d) : x.entered < at}
  OBVIOUS
<1>5. PICK P : P = PauseSteps(c.steps, W, at, TRUE)
  OBVIOUS
<1>6. PICK B, E, H : /\ B = (c.outbox \/ W # {}) /\ E = c.ended \cup {at}
                     /\ H = c.shifts \cup {[start |-> start, end |-> at]}
  OBVIOUS
<1>7. e = [c EXCEPT !.steps = P, !.outbox = B, !.ended = E, !.shifts = H]
  BY <1>1, <1>2, <1>3, <1>4, <1>5, <1>6, Zenon DEF _close_open_shift
<1>8. a \in TableSet /\ a = [d EXCEPT !.declared = a.declared]
  BY <1>1, ClampIs
<1>9. a.rows = d.rows /\ a.steps = d.steps
  BY <1>8 DEF TableSet
<1>10. /\ b \in TableSet /\ b.rows = {r \in d.rows : r.entered < at} /\ b.declared = a.declared
       /\ b.steps = d.steps
  BY <1>2, <1>8, <1>9 DEF _drop_projections_from, TableSet
<1>11. c = [b EXCEPT !.rows = c.rows] /\ c.rows \in SUBSET Segs
  BY <1>3, <1>10, RebuiltIs
<1>12. c \in TableSet /\ c.declared = b.declared /\ c.steps = b.steps
  BY <1>10, <1>11 DEF TableSet
<1>13. e.rows = c.rows /\ e.declared = c.declared /\ e.steps = P
  <2> HIDE <1>6, <1>5, <1>4
  <2> QED BY <1>7, <1>12 DEF TableSet
<1>14. Swept(d, at, b)
  BY <1>1, <1>10 DEF Swept
<1>15. P = PauseSteps(d.steps, {x \in OpenWorking(d) : x.entered < at}, at, TRUE)
  BY <1>4, <1>5, <1>10, <1>12
<1> QED BY <1>3, <1>12, <1>13, <1>14, <1>15 DEF Rebuilt

LEMMA ClosureTimely ==
  ASSUME NEW m \in Times, NEW d, Sane(d, m), Sorted(d), ClockedIn(d), Timely(d),
         NEW start \in Times, Latest(d, start), NEW at \in Times, start <= at, EchoTo(d, at),
         NEW e, e = _close_open_shift(d, start, at)
  PROVE  Timely(e) /\ \A r \in e.rows : ~Current(e, r) /\ r.entered < at
<1>1. d \in TableSet /\ Closes(d, start, at, e)
  BY Closure DEF Sane
<1>2. /\ e \in TableSet /\ e.started = d.started /\ e.ended = d.ended \cup {at}
      /\ e.shifts = d.shifts \cup {[start |-> start, end |-> at]}
  BY <1>1 DEF Closes
<1>3. PICK b, c : /\ Swept(d, at, b) /\ c = reconstruct_shift_middle(b, start, at)
                  /\ e.rows = c.rows /\ e.declared = b.declared
                  /\ e.steps = PauseSteps(d.steps, {x \in OpenWorking(d) : x.entered < at}, at, TRUE)
  <2>1. Rebuilt(d, start, at, e)
    BY <1>1, ClosureParts
  <2> QED BY <2>1, Zenon DEF Rebuilt
<1>4. /\ b \in TableSet /\ b.rows = {r \in d.rows : r.entered < at} /\ b.steps = d.steps
      /\ b.declared = ClampDeclared(d, at).declared
  BY <1>3 DEF Swept
<1>5. start \in Nat /\ at \in Nat /\ at < Open
  BY TimesAre
<1>6. Begun(d, start)
  BY <1>1, CurrentBegun
<1>7. /\ \A t \in d.started : t <= start /\ t \in Nat
      /\ \A t \in d.ended : t <= start /\ t \in Nat
      /\ start \in d.started
  BY <1>1, <1>6, FieldsAre DEF Begun, Latest
<1>8. /\ \A r \in d.rows : r.entered \in Nat /\ r.exited \in Nat
      /\ \A r \in e.rows : r.entered \in Nat /\ r.exited \in Nat
  BY <1>1, <1>2, FieldsAre
<1>9. PICK W, ends, P : /\ W = {x \in OpenWorking(d) : x.entered < at} /\ ends = TRUE
                        /\ P = PauseSteps(d.steps, W, at, ends) /\ e.steps = P
  BY <1>3
<1>10. /\ d.steps \in SUBSET Recs /\ ends \in BOOLEAN /\ W \in SUBSET OpenIn(d.steps) /\ W \in SUBSET d.steps
       /\ \A y \in W : y.entered <= at
  <2>1. W \in SUBSET OpenIn(d.steps) /\ W \in SUBSET d.steps /\ \A y \in W : y.entered < at
    BY <1>9 DEF OpenWorking, OpenIn
  <2>2. \A y \in W : y.entered \in Nat
    BY <1>1, <2>1, FieldsAre
  <2> QED BY <1>1, <1>5, <1>9, <2>1, <2>2, FieldsAre
<1>11. Whole(d.steps) /\ Told(d) /\ Placed(d)
  BY DEF Timely
<1>12. Whole(e.steps)
  BY <1>9, <1>10, <1>11, PausesWhole
<1>13. ASSUME NEW n \in Nat, n <= at
       PROVE  KeptSteps(d.steps, n, e.steps) /\ KeptDecls(d.declared, n, e.declared)
  <2>1. KeptSteps(d.steps, n, e.steps)
    BY <1>9, <1>10, <1>13, PausesKept
  <2>2. KeptDecls(d.declared, n, ClampDeclared(d, at).declared)
    <3>1. PICK a : a = ClampDeclared(d, at)
      OBVIOUS
    <3>2. KeptDecls(d.declared, n, a.declared)
      BY <1>1, <1>13, <3>1, ClampKept
    <3> QED BY <3>1, <3>2
  <2> QED BY <1>3, <1>4, <2>1, <2>2
<1>14. ASSUME NEW r \in e.rows
       PROVE  \/ r \in d.rows /\ r.entered < start /\ r.exited <= start
              \/ r.entered \in start..(at - 1) /\ r.exited <= at
  <2>1. \/ r \in d.rows /\ r.entered < at /\ r.entered \notin start..(at - 1)
        \/ r.entered \in start..(at - 1) /\ r.exited <= at
    BY <1>1 DEF Closes
  <2>2. CASE r \in d.rows /\ r.entered < at /\ r.entered \notin start..(at - 1)
    <3>1. r.entered < start
      BY <1>5, <1>8, <2>2
    <3> QED BY <1>7, <1>11, <2>2, <3>1 DEF Placed
  <2> QED BY <2>1, <2>2
<1>15. \A r \in e.rows : r.entered < at /\ r.exited <= at
  BY <1>5, <1>8, <1>14
<1>16. \A r \in e.rows : ~Current(e, r)
  <2>1. at \in e.ended
    BY <1>2
  <2> QED BY <1>5, <1>8, <1>15, <2>1 DEF Current, Reached
<1>17. Placed(e)
  <2>1. ASSUME NEW r \in e.rows, NEW s \in e.started, r.entered < s PROVE r.exited <= s
    <3>1. s \in d.started /\ s <= start /\ s \in Nat
      BY <1>2, <1>7
    <3>2. CASE r \in d.rows
      BY <1>11, <2>1, <3>1, <3>2 DEF Placed
    <3>3. CASE r.entered \in start..(at - 1)
      BY <1>5, <2>1, <3>1, <3>3
    <3> QED BY <1>14, <3>2, <3>3
  <2>2. \A r \in e.rows : \E t \in e.ended : r.exited <= t
    BY <1>2, <1>15
  <2> QED BY <2>1, <2>2 DEF Placed
<1>18. Chained(e)
  BY <1>16 DEF Chained
<1>19. ASSUME NEW h \in d.shifts, NEW t \in h.start..(h.end - 1)
       PROVE  ToldAt(e, h, t)
  <2>1. h \in Closed /\ h.end \in Nat /\ h.end <= start
    BY <1>1, <1>6, <1>7, FieldsAre DEF Begun
  <2>2. KeptRows(d.rows, h.end, e.rows)
    <3>1. ASSUME NEW r \in e.rows, r.entered < h.end PROVE r \in d.rows
      BY <1>5, <1>8, <1>14, <2>1, <3>1
    <3>2. ASSUME NEW r \in d.rows, r.entered < h.end PROVE r \in e.rows
      <4>1. r \in b.rows /\ r.entered \notin start..(at - 1)
        BY <1>4, <1>5, <1>8, <2>1, <3>2
      <4> QED BY <1>3, <1>4, <4>1, RebuiltKeeps
    <3> QED BY <3>1, <3>2 DEF KeptRows
  <2>3. Upholds(d, h.end, e)
    BY <1>5, <1>13, <2>1, <2>2 DEF Upholds
  <2>4. ToldAt(d, h, t)
    BY <1>11 DEF Told
  <2> QED BY <1>1, <1>2, <2>1, <2>3, <2>4, ToldKept
<1>20. RowsBacked(b, start, at)
  <2> SUFFICES ASSUME NEW r \in b.rows, r.why \in Reasons, r.entered \in start..(at - 1),
                      NEW t \in start..(at - 1), Covers(r, t)
               PROVE  Backed(b, r, t)
    BY DEF RowsBacked
  <2>1. r \in d.rows /\ t \in Times /\ t < at /\ t \in Nat
    <3>1. start \in 0..MaxTime /\ at \in 0..MaxTime /\ MaxTime \in Nat
      BY TimesAre DEF Times
    <3> QED BY <1>4, <3>1 DEF Times
  <2>2. Current(d, r)
    BY <1>5, <1>7 DEF Current, Reached
  <2>3. PICK x \in d.declared : r.entered <= x.entered /\ x.entered <= t /\ t < x.exited
    BY <2>1, <2>2 DEF EchoTo, Backed
  <2>4. x.entered \in Nat /\ x.exited \in Nat /\ \A y \in e.declared : y.exited \in Nat
    BY <1>1, <1>2, FieldsAre
  <2>5. KeptDecls(d.declared, at, e.declared)
    BY <1>5, <1>13
  <2>6. PICK y \in e.declared : LikeDecl(y, x, at)
    BY <1>5, <2>1, <2>3, <2>4, <2>5 DEF KeptDecls
  <2>7. r.entered <= y.entered /\ y.entered <= t /\ t < y.exited
    BY <1>5, <2>1, <2>3, <2>4, <2>6 DEF LikeDecl
  <2> QED BY <1>3, <2>7 DEF Backed
<1>21. ASSUME NEW t \in start..(at - 1)
       PROVE  ToldAt(e, [start |-> start, end |-> at], t)
  <2>1. Whole(b.steps)
    BY <1>4, <1>11
  <2>2. \A r \in b.rows : r.entered < at /\ (r.entered < start => r.exited <= start)
    BY <1>4, <1>7, <1>11 DEF Placed
  <2>3. PICK r \in c.rows : /\ Covers(r, t) /\ start <= r.entered /\ r.exited <= at
                            /\ Says(b, start, t, r.state)
                            /\ \A q \in c.rows : Covers(q, t) => q = r
    BY <1>3, <1>4, <1>20, <2>1, <2>2, RebuiltTells
  <2>4. Says(e, start, t, r.state)
    <3>1. KeptSteps(b.steps, at, e.steps)
      BY <1>4, <1>5, <1>13
    <3>2. KeptDecls(b.declared, at, e.declared)
      BY <1>3 DEF KeptDecls, LikeDecl
    <3>3. t \in Nat /\ t < at
      BY <1>5
    <3> QED BY <1>2, <1>4, <1>5, <2>3, <3>1, <3>2, <3>3, SaysKept
  <2> QED BY <1>3, <2>3, <2>4 DEF ToldAt
<1>22. Told(e)
  BY <1>2, <1>19, <1>21 DEF Told
<1> QED BY <1>12, <1>15, <1>16, <1>17, <1>18, <1>22 DEF Timely

-----------------------------------------------------------------------------
(* The segments behind a reconcile.                                           *)

\* An open declaration is what the open segment shows.
Shown(d) ==
  \A y \in OpenIn(d.declared), r \in OpenIn(d.rows) : r.state = "in_pause" /\ r.why = y.why
Faithful(d) == Timely(d) /\ Echo(d) /\ Shown(d)

\* Nothing is later than at; and what a command has made of the declarations, for the reconcile
\* that follows it at its instant.
AllIn(d, at) ==
  /\ \A x \in d.rows : x.entered <= at
  /\ \A x \in d.declared : x.entered <= at
  /\ \A x \in d.steps : x.entered <= at
Neat(d, at) ==
  /\ Timely(d) /\ EchoTo(d, at) /\ AllIn(d, at)
  /\ OpenIn(d.declared) # {} => ClockedIn(d)
  /\ \/ Echo(d) /\ Shown(d)
     \/ \A y \in OpenIn(d.declared) : y.entered = at

LEMMA EchoUpTo ==
  ASSUME NEW d, NEW at \in Times, NEW b \in Times, b <= at, EchoTo(d, at)
  PROVE  EchoTo(d, b)
<1>1. \A t \in Times : t < b => t < at
  BY TimesAre
<1> QED BY <1>1 DEF EchoTo

LEMMA EchoWhole ==
  ASSUME NEW d, NEW at, Echo(d)
  PROVE  EchoTo(d, at)
  BY DEF Echo, EchoTo

\* What holds up to an instant holds beyond it, if an open segment with a declaration has one
\* behind it from then on.
LEMMA EchoFull ==
  ASSUME NEW d \in TableSet, NEW at \in Times, EchoTo(d, at), Chained(d), \A r \in d.rows : r.entered <= at,
         \A r \in OpenIn(d.rows) : r.why \in Reasons => \E x \in OpenIn(d.declared) : x.entered = at
  PROVE  Echo(d)
<1> SUFFICES ASSUME NEW r \in d.rows, r.why \in Reasons, Current(d, r), NEW t \in Times, Covers(r, t)
             PROVE  Backed(d, r, t)
  BY DEF Echo
<1>1. at \in Nat /\ t \in Nat /\ t < Open /\ r.entered \in Nat /\ r.exited \in Nat
  BY FieldsAre, TimesAre
<1>2. CASE t < at
  BY <1>2 DEF EchoTo
<1>3. CASE at <= t
  <2>1. r.exited = Open
    <3>1. ASSUME r.exited # Open PROVE FALSE
      <4>1. PICK q \in d.rows : r.exited <= q.entered
        BY <3>1 DEF Chained
      <4>2. q.entered \in Nat /\ q.entered <= at
        BY <4>1, FieldsAre
      <4> QED BY <1>1, <1>3, <4>1, <4>2 DEF Covers
    <3> QED BY <3>1
  <2>2. PICK x \in OpenIn(d.declared) : x.entered = at
    BY <2>1 DEF OpenIn
  <2>3. x \in d.declared /\ x.exited = Open
    BY <2>2 DEF OpenIn
  <2> QED BY <1>1, <1>3, <2>2, <2>3 DEF Backed
<1> QED BY <1>1, <1>2, <1>3

LEMMA SameSteps ==
  ASSUME NEW S, NEW n
  PROVE  KeptSteps(S, n, S)
  BY DEF KeptSteps, LikeStep

LEMMA SameDecls ==
  ASSUME NEW S, NEW n
  PROVE  KeptDecls(S, n, S)
  BY DEF KeptDecls, LikeDecl

LEMMA SameRows ==
  ASSUME NEW S, NEW n
  PROVE  KeptRows(S, n, S)
  BY DEF KeptRows

\* The closed shifts stay told if what was recorded before their ends is kept.
LEMMA ToldStays ==
  ASSUME NEW d \in TableSet, NEW e \in TableSet, e.shifts = d.shifts, Told(d),
         \A h \in d.shifts : Upholds(d, h.end, e)
  PROVE  Told(e)
<1> SUFFICES ASSUME NEW h \in d.shifts, NEW t \in h.start..(h.end - 1) PROVE ToldAt(e, h, t)
  BY DEF Told
<1>1. h \in Closed /\ ToldAt(d, h, t)
  BY FieldsAre DEF Told
<1> QED BY <1>1, ToldKept

\* A worker who is clocked out, whatever a command has done.
LEMMA OffFaithful ==
  ASSUME NEW d \in TableSet, NEW at \in Times, Neat(d, at), ~ClockedIn(d)
  PROVE  Faithful(d)
<1>1. Timely(d) /\ EchoTo(d, at) /\ AllIn(d, at) /\ OpenIn(d.declared) = {} /\ OpenIn(d.rows) = {}
  BY DEF Neat, ClockedIn
<1>2. Echo(d)
  <2>1. Chained(d) /\ \A r \in d.rows : r.entered <= at
    BY <1>1 DEF Timely, AllIn
  <2> QED BY <1>1, <2>1, EchoFull
<1> QED BY <1>1, <1>2 DEF Faithful, Shown

\* A closure leaves no segment of a shift that is open.
LEMMA ClosedFaithful ==
  ASSUME NEW e, Timely(e), \A r \in e.rows : ~Current(e, r), OpenIn(e.declared) = {}
  PROVE  Faithful(e)
  BY DEF Faithful, Echo, Shown

LEMMA StaleTimely ==
  ASSUME NEW m \in Times, NEW at \in Times, at <= m, NEW d, Sane(d, m), Sorted(d), Reached(d, at),
         Stale(d, at), Timely(d), EchoTo(d, at), NEW e, e = close_stale_open_shift(d, at)
  PROVE  Faithful(e) /\ (AllIn(d, at) => Neat(e, at))
<1>1. PICK s, b : s = ShiftStart(d, at) /\ b = work_day_end(s)
  OBVIOUS
<1>2. d \in TableSet /\ ClockedIn(d) /\ b <= at
  BY <1>1 DEF Sane, Stale, is_past_work_day_end
<1>3. s \in Times /\ Latest(d, s) /\ s <= at
  BY <1>1, <1>2, StartIs
<1>4. s \in Nat /\ at \in Nat /\ at <= MaxTime /\ MaxTime \in Nat
  BY <1>3, TimesAre
<1>5. b \in Nat /\ s < b
  BY <1>1, <1>4, DayIs
<1>6. b \in Times /\ s <= b
  BY <1>2, <1>4, <1>5 DEF Times
<1>7. e = _close_open_shift(d, s, b)
  BY <1>1, Zenon DEF close_stale_open_shift
<1>8. EchoTo(d, b)
  BY <1>2, <1>6, EchoUpTo
<1>9. Timely(e) /\ \A r \in e.rows : ~Current(e, r) /\ r.entered < b
  BY <1>2, <1>3, <1>6, <1>7, <1>8, ClosureTimely
<1>10. OpenIn(e.declared) = {} /\ Sane(e, m)
  BY StaleClosed DEF Keeps
<1>11. Faithful(e)
  BY <1>9, <1>10, ClosedFaithful
<1>12. Closes(d, s, b, e) /\ e \in TableSet
  BY <1>2, <1>3, <1>6, <1>7, <1>10, Closure DEF Sane
<1>13. ASSUME AllIn(d, at) PROVE AllIn(e, at)
  <2>1. \A x \in e.rows : x.entered <= at
    <3>1. \A x \in e.rows : x.entered \in Nat
      BY <1>12, FieldsAre
    <3> QED BY <1>2, <1>4, <1>5, <1>9, <3>1
  <2>2. \A x \in e.declared : x.entered <= at
    BY <1>12, <1>13 DEF Closes, AllIn
  <2>3. \A x \in e.steps : x.entered <= at
    BY <1>2, <1>12, <1>13 DEF Closes, AllIn
  <2> QED BY <2>1, <2>2, <2>3 DEF AllIn
<1>14. EchoTo(e, at)
  BY <1>9 DEF EchoTo
<1> QED BY <1>10, <1>11, <1>13, <1>14 DEF Neat, Faithful

\* The same for whoever looks for a stale shift, whether he finds one or not.
LEMMA CloseNeat ==
  ASSUME NEW m \in Times, NEW at \in Times, at <= m, NEW d, Sane(d, m), Sorted(d), Reached(d, at),
         Neat(d, at), NEW e, e = close_stale_open_shift(d, at)
  PROVE  Neat(e, at)
<1>1. CASE Stale(d, at)
  BY <1>1, StaleTimely DEF Neat
<1>2. CASE ~Stale(d, at)
  BY <1>2, StaleClosed
<1> QED BY <1>1, <1>2

\* A shift begun, shown as idle or not yet.
Starts(d, s, e) == Opens(d, s, e) \/ Begins(d, s, e)

LEMMA StartsTimely ==
  ASSUME NEW d \in TableSet, Sorted(d), ~ClockedIn(d), NEW s \in Times, Reached(d, s), Faithful(d),
         NEW e, Starts(d, s, e)
  PROVE  Faithful(e) /\ \A at \in Times : s <= at /\ AllIn(d, at) => Neat(e, at)
<1>1. /\ e \in TableSet /\ e.rows \in {d.rows, d.rows \cup {Idle(s)}} /\ e.started = d.started \cup {s}
      /\ e.ended = d.ended /\ e.declared = d.declared /\ e.steps = d.steps /\ e.shifts = d.shifts
  BY DEF Starts, Opens, Begins
<1>2. PICK i : i = Idle(s)
  OBVIOUS
<1>3. /\ i.why \notin Reasons /\ i.entered = s /\ i.exited = Open
      /\ \A r \in e.rows : r \in d.rows \/ r = i
      /\ d.rows \subseteq e.rows
  BY <1>1, <1>2, IdleIs, NoReason
<1>4. s \in Nat /\ Timely(d) /\ Echo(d) /\ OpenIn(d.declared) = {} /\ OpenIn(d.rows) = {}
  BY TimesAre DEF Faithful, Sorted, ClockedIn
<1>5. /\ \A r \in d.rows : r.entered \in Nat /\ r.exited \in Nat
      /\ \A t \in d.started : t \in Nat /\ t <= s
      /\ \A t \in d.ended : t \in Nat /\ t <= s
      /\ \A h \in d.shifts : h.end <= s /\ h.end \in Nat
  BY FieldsAre DEF Reached, Sorted
<1>6. Placed(e)
  <2>1. \A r \in d.rows : \E t \in d.ended : r.exited <= t
    BY <1>4 DEF Timely, Placed
  <2>2. ASSUME NEW r \in e.rows, NEW u \in e.started, r.entered < u PROVE r.exited <= u
    <3>1. r \in d.rows
      BY <1>1, <1>3, <1>4, <1>5, <2>2
    <3>2. CASE u \in d.started
      BY <1>4, <2>2, <3>1, <3>2 DEF Timely, Placed
    <3>3. CASE u = s
      BY <1>4, <1>5, <2>1, <3>1, <3>3
    <3> QED BY <1>1, <3>2, <3>3
  <2>3. ASSUME ~ClockedIn(e), NEW r \in e.rows PROVE \E t \in e.ended : r.exited <= t
    <3>1. r # i
      BY <1>3, <2>3 DEF ClockedIn, OpenIn
    <3> QED BY <1>1, <1>3, <2>1, <3>1
  <2> QED BY <2>2, <2>3 DEF Placed
<1>7. \A r : Current(e, r) => Current(d, r)
  BY <1>1 DEF Current, Reached
<1>8. Chained(e)
  <2> SUFFICES ASSUME NEW r \in e.rows, Current(e, r), r.exited # Open
               PROVE  \E q \in e.rows : r.exited <= q.entered
    BY DEF Chained
  <2>1. r \in d.rows /\ Current(d, r)
    BY <1>3, <1>7
  <2> QED BY <1>3, <1>4, <2>1 DEF Timely, Chained
<1>9. Told(e)
  <2>1. ASSUME NEW h \in d.shifts PROVE Upholds(d, h.end, e)
    <3>1. KeptRows(d.rows, h.end, e.rows)
      <4>1. ASSUME NEW r \in e.rows, r.entered < h.end PROVE r \in d.rows
        <5>1. r # i
          BY <1>3, <1>4, <1>5, <4>1
        <5> QED BY <1>3, <5>1
      <4> QED BY <1>3, <4>1 DEF KeptRows
    <3> QED BY <1>1, <3>1, SameSteps, SameDecls DEF Upholds
  <2> QED BY <1>1, <1>4, <2>1, ToldStays DEF Timely
<1>10. Timely(e)
  BY <1>1, <1>4, <1>6, <1>8, <1>9 DEF Timely
<1>11. Echo(e)
  <2> SUFFICES ASSUME NEW r \in e.rows, r.why \in Reasons, Current(e, r), NEW t \in Times, Covers(r, t)
               PROVE  Backed(e, r, t)
    BY DEF Echo
  <2>1. r \in d.rows /\ Current(d, r)
    BY <1>3, <1>7
  <2>2. Backed(d, r, t)
    BY <1>4, <2>1 DEF Echo
  <2> QED BY <1>1, <2>2 DEF Backed
<1>12. OpenIn(e.declared) = {}
  BY <1>1, <1>4
<1>13. Faithful(e)
  BY <1>10, <1>11, <1>12 DEF Faithful, Shown
<1>14. ASSUME NEW at \in Times, s <= at, AllIn(d, at) PROVE Neat(e, at)
  <2>1. AllIn(e, at)
    BY <1>1, <1>3, <1>14 DEF AllIn
  <2> QED BY <1>11, <1>12, <1>13, <2>1, EchoWhole DEF Neat, Faithful
<1> QED BY <1>13, <1>14

\* Where the reconcile starts a shift for work that has none.
LEMMA AutoStartReached ==
  ASSUME NEW d \in TableSet, Sorted(d), ~ClockedIn(d), NEW at \in Times, Reached(d, at), InTime(d, at),
         OpenWorking(d) # {}, NEW s, s = AutoStart(d)
  PROVE  s \in Times /\ s <= at /\ Reached(d, s)
<1>1. /\ s \in Times /\ \A e \in d.ended : e <= s
      /\ \A t \in Times : (\A e \in d.ended : e <= t) /\ (\E x \in OpenWorking(d) : x.entered <= t) => s <= t
  BY AutoStartIs
<1>2. s <= at
  BY <1>1 DEF InTime, Reached
<1>3. ASSUME NEW t \in d.started PROVE t <= s
  <2>1. PICK e \in d.ended : t <= e
    BY DEF Sorted
  <2>2. t \in Nat /\ e \in Nat /\ s \in Nat /\ e <= s
    BY <1>1, FieldsAre, TimesAre
  <2> QED BY <2>1, <2>2
<1> QED BY <1>1, <1>2, <1>3 DEF Reached

LEMMA OpensIs ==
  ASSUME NEW d \in TableSet, NEW s \in Times, NEW o, o = [d EXCEPT !.started = d.started \cup {s}]
  PROVE  Opens(d, s, o)
<1>1. PICK T : T = d.started \cup {s}
  OBVIOUS
<1>2. T \in SUBSET Times /\ o = [d EXCEPT !.started = T]
  BY <1>1 DEF TableSet
<1>3. /\ o \in TableSet /\ o.started = T
      /\ o.rows = d.rows /\ o.ended = d.ended /\ o.declared = d.declared /\ o.steps = d.steps
      /\ o.outbox = d.outbox /\ o.shifts = d.shifts
  BY <1>2 DEF TableSet
<1> QED BY <1>1, <1>3 DEF Opens

LEMMA OpensBegins ==
  ASSUME NEW d, NEW s \in Times, NEW o, Opens(d, s, o), NEW b, b = [o EXCEPT !.rows = o.rows \cup {Idle(s)}]
  PROVE  Begins(d, s, b)
<1>1. PICK R : R = o.rows \cup {Idle(s)}
  OBVIOUS
<1>2. R \in SUBSET Segs /\ o \in TableSet /\ b = [o EXCEPT !.rows = R]
  BY <1>1, IdleIs DEF Opens, TableSet
<1>3. /\ b \in TableSet /\ b.rows = R
      /\ b.started = o.started /\ b.ended = o.ended /\ b.declared = o.declared /\ b.steps = o.steps
      /\ b.outbox = o.outbox /\ b.shifts = o.shifts
  BY <1>2 DEF TableSet
<1> QED BY <1>1, <1>3 DEF Begins, Opens

\* The pass of a loop that is not over, after the stale shift it found is closed in d.
PassMade(d, at, k) ==
  \/ ClockedIn(d) /\ k.db = d /\ k.start # NoShift
  \/ ~ClockedIn(d) /\ k.db = d
  \/ ~ClockedIn(d) /\ OpenWorking(d) # {} /\ Starts(d, AutoStart(d), k.db)

LEMMA PassIs ==
  ASSUME NEW l \in Laps, ~l.done, NEW at \in Times, NEW d \in TableSet, d = close_stale_open_shift(l.db, at),
         NEW k, k = Pass(l, at)
  PROVE  PassMade(d, at, k)
<1>1. PICK s : s = AutoStart(d)
  OBVIOUS
<1>2. PICK o : o = [d EXCEPT !.started = d.started \cup {s}]
  OBVIOUS
<1>3. PICK b : b = [o EXCEPT !.rows = o.rows \cup {Idle(s)}]
  OBVIOUS
<1>4. PICK t : t = ShiftStart(d, at)
  OBVIOUS
<1>5. k = IF l.done THEN l
          ELSE IF ClockedIn(d) THEN [db |-> d, done |-> TRUE, start |-> t]
          ELSE IF OpenWorking(d) = {} THEN [db |-> d, done |-> TRUE, start |-> NoShift]
          ELSE IF is_past_work_day_end(s, at) THEN [db |-> b, done |-> FALSE, start |-> NoShift]
          ELSE [db |-> o, done |-> TRUE, start |-> s]
  BY <1>1, <1>2, <1>3, <1>4, Zenon DEF Pass, Idle
<1>6. CASE ClockedIn(d)
  <2>1. t \in Times /\ k = [db |-> d, done |-> TRUE, start |-> t]
    BY <1>4, <1>5, <1>6, StartIs
  <2> QED BY <1>6, <2>1, TimesAre DEF PassMade
<1>7. CASE ~ClockedIn(d) /\ OpenWorking(d) = {}
  <2>1. k = [db |-> d, done |-> TRUE, start |-> NoShift]
    BY <1>5, <1>7
  <2> QED BY <1>7, <2>1 DEF PassMade
<1>8. CASE ~ClockedIn(d) /\ OpenWorking(d) # {}
  <2>1. s \in Times
    BY <1>1, <1>8, AutoStartIs
  <2>2. Opens(d, s, o)
    BY <1>2, <2>1, OpensIs
  <2>3. Begins(d, s, b)
    BY <1>3, <2>1, <2>2, OpensBegins
  <2>4. k.db = b \/ k.db = o
    BY <1>5, <1>8
  <2> QED BY <1>1, <1>8, <2>2, <2>3, <2>4 DEF PassMade, Starts
<1> QED BY <1>6, <1>7, <1>8

\* What the loop carries from pass to pass: after the first one, the closed shifts are told
\* even if no segment remains to be projected.
Neatly(l, at) == Neat(l.db, at) /\ (l.start = NoShift => Faithful(l.db))

LEMMA PassNeat ==
  ASSUME NEW m \in Times, NEW at \in Times, at <= m, NEW l \in Laps, Sane(l.db, m),
         Tidy(l, at), InTime(l.db, at), Neat(l.db, at), l.done => Neatly(l, at),
         NEW k, k = Pass(l, at)
  PROVE  Neatly(k, at)
<1>1. CASE l.done
  BY <1>1, Zenon DEF Pass
<1>2. CASE ~l.done
  <2>1. PICK a, d : a = l.db /\ d = close_stale_open_shift(a, at)
    OBVIOUS
  <2>2. Sane(a, m) /\ Sorted(a) /\ Reached(a, at) /\ Neat(a, at) /\ InTime(a, at)
    BY <1>2, <2>1 DEF Tidy
  <2>3. Keeps(a, at, m, d) /\ OpenWorking(d) \subseteq OpenWorking(a)
    BY <2>1, <2>2, StaleClosed
  <2>4. d \in TableSet /\ Sorted(d) /\ Reached(d, at) /\ InTime(d, at)
    BY <2>2, <2>3 DEF Keeps, Sane, InTime
  <2>5. Neat(d, at)
    BY <2>1, <2>2, CloseNeat
  <2>6. PassMade(d, at, k)
    BY <1>2, <2>1, <2>4, PassIs
  <2>7. CASE ClockedIn(d) /\ k.db = d /\ k.start # NoShift
    BY <2>5, <2>7 DEF Neatly
  <2>8. CASE ~ClockedIn(d) /\ k.db = d
    BY <2>4, <2>5, <2>8, OffFaithful DEF Neatly
  <2>9. CASE ~ClockedIn(d) /\ OpenWorking(d) # {} /\ Starts(d, AutoStart(d), k.db)
    <3>1. PICK s, e : s = AutoStart(d) /\ e = k.db
      OBVIOUS
    <3>2. s \in Times /\ s <= at /\ Reached(d, s)
      BY <2>4, <2>9, <3>1, AutoStartReached
    <3>3. Faithful(d) /\ Starts(d, s, e)
      BY <2>4, <2>5, <2>9, <3>1, OffFaithful
    <3>4. AllIn(d, at)
      BY <2>5 DEF Neat
    <3>5. Faithful(e) /\ Neat(e, at)
      BY <2>4, <2>9, <3>2, <3>3, <3>4, StartsTimely
    <3> QED BY <3>1, <3>5 DEF Neatly
  <2> QED BY <2>6, <2>7, <2>8, <2>9 DEF PassMade
<1> QED BY <1>1, <1>2

LEMMA LoopNeat ==
  ASSUME NEW m \in Times, NEW at \in Times, at <= m, NEW d, Sane(d, m), Ordered(d, at), Neat(d, at),
         NEW l, l = ReconcileLoop(d, at)
  PROVE  Neatly(l, at)
<1>1. PICK f : Lapping(f, d, at, m) /\ l = f[Passes]
  BY LoopRuns
<1>2. /\ f[0] = Lap(d) /\ \A i \in 1..Passes : f[i] = Pass(f[i - 1], at)
      /\ \A i \in 0..Passes : /\ f[i] \in Laps /\ Sane(f[i].db, m) /\ Tidy(f[i], at)
                              /\ OpenWorking(f[i].db) \subseteq OpenWorking(d)
  BY <1>1 DEF Lapping
<1> DEFINE Good(i) == Neat(f[i].db, at) /\ (i # 0 \/ f[i].done => Neatly(f[i], at))
<1>3. Good(0)
  <2>1. Lap(d).db = d /\ Lap(d).done = FALSE
    BY DEF Lap
  <2> QED BY <1>2, <2>1
<1>4. ASSUME NEW i \in 1..Passes, Good(i - 1) PROVE Good(i)
  <2>1. PICK a, b : a = f[i - 1] /\ b = f[i]
    OBVIOUS
  <2>2. b = Pass(a, at) /\ i - 1 \in 0..Passes
    BY <1>2, <2>1, PassesAre
  <2>3. a \in Laps /\ Sane(a.db, m) /\ Tidy(a, at) /\ InTime(a.db, at)
    BY <1>2, <2>1, <2>2 DEF Ordered, InTime
  <2>4. Neat(a.db, at) /\ (a.done => Neatly(a, at))
    BY <1>4, <2>1
  <2>5. Neatly(b, at)
    BY <2>2, <2>3, <2>4, PassNeat
  <2> QED BY <2>1, <2>5 DEF Neatly
<1> HIDE DEF Good
<1>5. \A i \in 0..Passes : Good(i)
  <2> SUFFICES ASSUME NEW k \in 0..Passes, ~Good(k) PROVE FALSE
    OBVIOUS
  <2>1. PICK T : T = {i \in Nat : i <= Passes /\ ~Good(i)}
    OBVIOUS
  <2>2. k \in T /\ T \in SUBSET Nat
    BY <2>1
  <2>3. PICK i \in T : \A j \in T : i <= j
    BY <2>2, LeastNat
  <2>4. i \in Nat /\ i <= Passes /\ ~Good(i) /\ i # 0
    BY <1>3, <2>1
  <2>5. i \in 1..Passes /\ i - 1 \in Nat /\ i - 1 <= Passes /\ ~(i <= i - 1)
    BY <2>4, PassesAre
  <2>6. Good(i - 1)
    BY <2>1, <2>3, <2>5
  <2> QED BY <1>4, <2>4, <2>5, <2>6
<1>6. Passes \in 0..Passes /\ Passes # 0
  BY PassesAre
<1> QED BY <1>1, <1>5, <1>6 DEF Good

\* What Project writes, with the reason it gives.
Writes(d, at, state, why, e) ==
  /\ e.started = d.started /\ e.ended = d.ended /\ e.steps = d.steps /\ e.shifts = d.shifts
  /\ e.declared = IF state = "working" THEN Leave(d.declared, OpenIn(d.declared), at) ELSE d.declared
  /\ \/ e.rows = d.rows /\ \E r \in OpenIn(d.rows) : Shows(r, state, why)
     \/ /\ \A r \in OpenIn(d.rows) : ~Shows(r, state, why)
        /\ e.rows = Leave(d.rows, OpenIn(d.rows), at) \cup {Row(state, why, at, Open)}
  /\ why \in Reasons => state = "in_pause" /\ \E x \in OpenIn(d.declared) : why = x.why
  /\ why \notin Reasons => state = "working" \/ OpenIn(d.declared) = {}

LEMMA ProjectWrites ==
  ASSUME NEW d \in TableSet, NEW s \in Times, Begun(d, s), NEW at \in Times,
         NEW e, Projected(d, s, at, e)
  PROVE  \E state, why : Writes(d, at, state, why, e)
<1>1. PICK decl, work : /\ decl = {x \in OpenIn(d.declared) : x.entered >= s}
                        /\ work = {x \in OpenWorking(d) : x.entered >= s}
  OBVIOUS
<1>2. PICK state, why :
        /\ Tells(work, decl, state, why)
        /\ e.started = d.started /\ e.ended = d.ended /\ e.steps = d.steps
        /\ e.outbox = d.outbox /\ e.shifts = d.shifts
        /\ e.declared = IF state = "working" THEN Leave(d.declared, decl, at) ELSE d.declared
        /\ \/ e.rows = d.rows /\ \E r \in OpenIn(d.rows) : Shows(r, state, why)
           \/ /\ \A r \in OpenIn(d.rows) : ~Shows(r, state, why)
              /\ e.rows = Leave(d.rows, OpenIn(d.rows), at) \cup {Row(state, why, at, Open)}
  BY <1>1, Zenon DEF Projected
<1>3. decl = OpenIn(d.declared)
  <2>1. \A x \in OpenIn(d.declared) : x.entered \in Nat /\ s \in Nat
    BY FieldsAre, TimesAre DEF OpenIn
  <2>2. \A x \in OpenIn(d.declared) : x.entered >= s
    BY <2>1 DEF Begun
  <2> QED BY <1>1, <2>2
<1>4. /\ why \in Reasons => state = "in_pause" /\ \E x \in decl : why = x.why
      /\ why \notin Reasons => state = "working" \/ decl = {}
  BY <1>2 DEF Tells
<1> QED BY <1>2, <1>3, <1>4 DEF Writes

\* The declarations and the segments after it, up to the instants it leaves alone.
LEMMA WritesKeep ==
  ASSUME NEW d \in TableSet, NEW s \in Times, Begun(d, s), NEW at \in Times, s <= at,
         NEW state, NEW why, NEW e, Writes(d, at, state, why, e)
  PROVE  /\ \A n \in Nat : n <= at => KeptDecls(d.declared, n, e.declared)
         /\ \A n \in Nat : n <= s => Upholds(d, n, e)
<1>1. d.declared \in SUBSET Decls /\ d.rows \in SUBSET Segs /\ s \in Nat /\ at \in Nat
  BY FieldsAre, TimesAre
<1>2. ASSUME NEW n \in Nat, n <= at PROVE KeptDecls(d.declared, n, e.declared)
  <2>1. KeptDecls(d.declared, n, Leave(d.declared, OpenIn(d.declared), at))
    <3>1. PICK S, C : S = d.declared /\ C = OpenIn(S)
      OBVIOUS
    <3>2. KeptDecls(S, n, Leave(S, C, at))
      BY <1>1, <1>2, <3>1, LeftDeclsKept
    <3> QED BY <3>1, <3>2
  <2> QED BY <2>1, SameDecls DEF Writes
<1>3. ASSUME NEW n \in Nat, n <= s PROVE KeptRows(d.rows, n, e.rows)
  <2>1. \A r \in OpenIn(d.rows) : n <= r.entered
    <3>1. \A r \in OpenIn(d.rows) : s <= r.entered /\ r.entered \in Nat
      BY FieldsAre DEF Begun, OpenIn
    <3> QED BY <1>1, <1>3, <3>1
  <2>2. PICK N : N = {Row(state, why, at, Open)}
    OBVIOUS
  <2>3. \A r \in N : r.entered = at
    BY <2>2 DEF Row
  <2>4. KeptRows(d.rows, n, Leave(d.rows, OpenIn(d.rows), at) \cup N)
    <3>1. n <= at
      BY <1>1, <1>3
    <3>2. PICK S : S = d.rows
      OBVIOUS
    <3>3. KeptRows(S, n, Leave(S, OpenIn(S), at) \cup N)
      BY <1>1, <2>1, <2>3, <3>1, <3>2, LeftRowsKept
    <3> QED BY <3>2, <3>3
  <2> QED BY <2>2, <2>4, SameRows DEF Writes
<1>4. ASSUME NEW n \in Nat, n <= s PROVE Upholds(d, n, e)
  <2>1. n <= at
    BY <1>1, <1>4
  <2>2. KeptSteps(d.steps, n, e.steps)
    BY SameSteps DEF Writes
  <2> QED BY <1>2, <1>3, <1>4, <2>1, <2>2 DEF Upholds
<1> QED BY <1>2, <1>4

\* Where its segments come from.
LEMMA WritesRows ==
  ASSUME NEW d \in TableSet, NEW at \in Times, AllIn(d, at),
         NEW state, NEW why, NEW e \in TableSet, Writes(d, at, state, why, e)
  PROVE  /\ ClockedIn(e) /\ \E r \in OpenIn(e.rows) : Shows(r, state, why)
         /\ \A r \in e.rows :
              \/ r \in d.rows /\ (r.exited # Open \/ e.rows = d.rows)
              \/ /\ r.exited = at
                 /\ \E y \in OpenIn(d.rows) : y.entered = r.entered /\ y.why = r.why
              \/ r.entered = at /\ r.exited = Open /\ r.why = why
         /\ e.rows = d.rows \/ \E r \in e.rows : r.entered = at
         /\ \A r \in e.rows : r.entered <= at
<1>1. d.rows \in SUBSET Segs /\ OpenIn(d.rows) \in SUBSET d.rows /\ at \in Nat
  BY FieldsAre, TimesAre DEF OpenIn
<1>2. CASE e.rows = d.rows /\ \E r \in OpenIn(d.rows) : Shows(r, state, why)
  BY <1>2 DEF ClockedIn, AllIn
<1>3. CASE e.rows = Leave(d.rows, OpenIn(d.rows), at) \cup {Row(state, why, at, Open)}
  <2>1. PICK i : i = Row(state, why, at, Open)
    OBVIOUS
  <2>2. i.state = state /\ i.why = why /\ i.entered = at /\ i.exited = Open /\ i \in e.rows
    BY <1>3, <2>1 DEF Row
  <2>3. i \in OpenIn(e.rows) /\ Shows(i, state, why)
    BY <2>2 DEF OpenIn, Shows
  <2>4. \A x \in Leave(d.rows, OpenIn(d.rows), at) :
          \/ x \in d.rows /\ x \notin OpenIn(d.rows)
          \/ \E y \in OpenIn(d.rows) : y.entered # at /\ x.entered = y.entered /\ x.exited = at
                                        /\ x.state = y.state /\ x.why = y.why
    BY <1>1, LeaveSegs
  <2>5. ASSUME NEW r \in e.rows
        PROVE  \/ r \in d.rows /\ r.exited # Open
               \/ /\ r.exited = at
                  /\ \E y \in OpenIn(d.rows) : y.entered = r.entered /\ y.why = r.why
               \/ r.entered = at /\ r.exited = Open /\ r.why = why
    <3>1. r = i \/ r \in Leave(d.rows, OpenIn(d.rows), at)
      BY <1>3, <2>1
    <3> QED BY <2>2, <2>4, <3>1 DEF OpenIn
  <2>6. \A r \in e.rows : r.entered <= at
    BY <1>1, <2>5 DEF AllIn
  <2> QED BY <2>2, <2>3, <2>5, <2>6 DEF ClockedIn
<1> QED BY <1>2, <1>3 DEF Writes

LEMMA WritesPlaced ==
  ASSUME NEW d \in TableSet, NEW s \in Times, Begun(d, s), NEW at \in Times, s <= at,
         Neat(d, at), NEW state, NEW why, NEW e \in TableSet, Writes(d, at, state, why, e)
  PROVE  Placed(e) /\ Chained(e)
<1>1. /\ ClockedIn(e)
      /\ \A r \in e.rows :
           \/ r \in d.rows /\ (r.exited # Open \/ e.rows = d.rows)
           \/ /\ r.exited = at
              /\ \E y \in OpenIn(d.rows) : y.entered = r.entered /\ y.why = r.why
           \/ r.entered = at /\ r.exited = Open /\ r.why = why
      /\ e.rows = d.rows \/ \E r \in e.rows : r.entered = at
  BY WritesRows DEF Neat
<1>2. e.started = d.started /\ e.ended = d.ended
  BY DEF Writes
<1>3. /\ s \in Nat /\ at \in Nat
      /\ \A r \in d.rows : r.entered \in Nat /\ r.exited \in Nat /\ r.entered <= at
      /\ \A r \in OpenIn(d.rows) : s <= r.entered /\ r \in d.rows
      /\ \A u \in d.started : u \in Nat /\ u <= s
  BY FieldsAre, TimesAre DEF Begun, Latest, Neat, AllIn, OpenIn
<1>4. Placed(d) /\ Chained(d)
  BY DEF Neat, Timely
<1>5. ASSUME NEW r \in e.rows, NEW u \in e.started, r.entered < u PROVE r.exited <= u
  <2>1. u \in d.started /\ u \in Nat /\ u <= s
    BY <1>2, <1>3
  <2>2. CASE r \in d.rows
    BY <1>4, <1>5, <2>1, <2>2 DEF Placed
  <2>3. ASSUME NEW y \in OpenIn(d.rows), y.entered = r.entered PROVE FALSE
    BY <1>3, <1>5, <2>1, <2>3
  <2>4. ASSUME r.entered = at PROVE FALSE
    BY <1>3, <1>5, <2>1, <2>4
  <2> QED BY <1>1, <2>2, <2>3, <2>4
<1>6. ASSUME NEW r \in e.rows, Current(e, r), r.exited # Open PROVE \E q \in e.rows : r.exited <= q.entered
  <2>1. CASE e.rows = d.rows
    <3>1. Current(d, r) /\ r \in d.rows
      BY <1>2, <1>6, <2>1 DEF Current, Reached
    <3> QED BY <1>4, <1>6, <2>1, <3>1 DEF Chained
  <2>2. ASSUME NEW q \in e.rows, q.entered = at PROVE r.exited <= q.entered
    <3>1. CASE r \in d.rows
      <4>1. Current(d, r)
        BY <1>2, <1>6 DEF Current, Reached
      <4>2. PICK p \in d.rows : r.exited <= p.entered
        BY <1>4, <1>6, <3>1, <4>1 DEF Chained
      <4> QED BY <1>3, <2>2, <3>1, <4>2
    <3>2. CASE r.exited = at
      BY <1>3, <2>2, <3>2
    <3> QED BY <1>1, <1>6, <3>1, <3>2
  <2> QED BY <1>1, <2>1, <2>2
<1> QED BY <1>1, <1>5, <1>6 DEF Placed, Chained

LEMMA WritesEcho ==
  ASSUME NEW d \in TableSet, NEW s \in Times, Begun(d, s), NEW at \in Times, s <= at,
         Neat(d, at), NEW state, NEW why, NEW e \in TableSet, Writes(d, at, state, why, e)
  PROVE  EchoTo(e, at)
<1> SUFFICES ASSUME NEW r \in e.rows, r.why \in Reasons, Current(e, r), NEW t \in Times, t < at, Covers(r, t)
             PROVE  Backed(e, r, t)
  BY DEF EchoTo
<1>1. /\ t \in Nat /\ at \in Nat /\ t < Open /\ Open \in Nat
      /\ \A x \in d.declared : x.entered \in Nat /\ x.exited \in Nat
      /\ \A x \in e.declared : x.entered \in Nat /\ x.exited \in Nat
      /\ \A x \in d.rows : x.entered \in Nat /\ x.exited \in Nat
      /\ \A x \in e.rows : x.entered \in Nat /\ x.exited \in Nat
  BY FieldsAre, TimesAre
<1>2. PICK y \in d.rows : y.entered = r.entered /\ y.why = r.why /\ Covers(y, t)
  <2>1. CASE r \in d.rows
    BY <2>1
  <2>2. ASSUME NEW y \in OpenIn(d.rows), y.entered = r.entered, y.why = r.why
        PROVE  y \in d.rows /\ Covers(y, t)
    BY <1>1, <2>2 DEF Covers, OpenIn
  <2>3. ASSUME r.entered = at PROVE FALSE
    BY <1>1, <2>3 DEF Covers
  <2>4. \/ r \in d.rows
        \/ \E y \in OpenIn(d.rows) : y.entered = r.entered /\ y.why = r.why
        \/ r.entered = at
    BY WritesRows DEF Neat
  <2> QED BY <2>1, <2>2, <2>3, <2>4
<1>3. Current(d, y)
  BY <1>2 DEF Writes, Current, Reached
<1>4. PICK x \in d.declared : r.entered <= x.entered /\ x.entered <= t /\ t < x.exited
  BY <1>2, <1>3 DEF Neat, EchoTo, Backed
<1>5. KeptDecls(d.declared, at, e.declared)
  <2>1. at <= at
    BY <1>1
  <2> QED BY <1>1, <2>1, WritesKeep
<1>6. PICK z \in e.declared : LikeDecl(z, x, at)
  BY <1>1, <1>4, <1>5 DEF KeptDecls
<1>7. r.entered <= z.entered /\ z.entered <= t /\ t < z.exited
  BY <1>1, <1>4, <1>6 DEF LikeDecl
<1> QED BY <1>7 DEF Backed

LEMMA ProjectTimely ==
  ASSUME NEW d \in TableSet, NEW s \in Times, Begun(d, s), NEW at \in Times, s <= at, Neat(d, at),
         NEW e \in TableSet, Projected(d, s, at, e), ChecksHold(e)
  PROVE  Faithful(e)
<1>1. PICK state, why : Writes(d, at, state, why, e)
  BY ProjectWrites
<1>2. Placed(e) /\ Chained(e) /\ EchoTo(e, at)
  BY <1>1, WritesPlaced, WritesEcho
<1>3. PICK r \in OpenIn(e.rows) : Shows(r, state, why)
  BY <1>1, WritesRows DEF Neat
<1>4. \A q \in OpenIn(e.rows) : q = r
  BY <1>3 DEF ChecksHold
<1>5. \A q \in e.rows : q.entered <= at
  BY <1>1, WritesRows DEF Neat
<1>6. Told(e)
  <2>1. \A h \in d.shifts : h.end \in Nat /\ h.end <= s
    BY FieldsAre DEF Begun
  <2>2. \A h \in d.shifts : Upholds(d, h.end, e)
    BY <1>1, <2>1, WritesKeep
  <2> QED BY <1>1, <2>2, ToldStays DEF Writes, Neat, Timely
<1>7. Timely(e)
  BY <1>1, <1>2, <1>6 DEF Timely, Neat, Writes
<1>8. CASE why \notin Reasons
  <2>1. OpenIn(e.declared) = {}
    <3>1. CASE state = "working"
      <4>1. PICK S, C, T : S = d.declared /\ C = OpenIn(S) /\ T = Leave(S, C, at)
        OBVIOUS
      <4>2. S \in SUBSET Decls /\ C \in SUBSET S
        BY <4>1, FieldsAre DEF OpenIn
      <4>3. \A x \in T : (x \in S /\ x \notin C) \/ x.exited = at
        BY <4>1, <4>2, LeaveDecls
      <4>4. \A x \in T : x.exited # Open
        BY <4>1, <4>3, TimesAre DEF OpenIn
      <4>5. e.declared = T
        BY <1>1, <3>1, <4>1 DEF Writes
      <4> QED BY <4>4, <4>5 DEF OpenIn
    <3>2. CASE state # "working"
      BY <1>1, <1>8, <3>2 DEF Writes
    <3> QED BY <3>1, <3>2
  <2>2. r.why \notin Reasons
    BY <1>3, <1>8 DEF Shows
  <2>3. Echo(e)
    BY <1>2, <1>4, <1>5, <2>2, EchoFull
  <2> QED BY <1>7, <2>1, <2>3 DEF Faithful, Shown
<1>9. CASE why \in Reasons
  <2>1. PICK x \in OpenIn(d.declared) : why = x.why
    BY <1>1, <1>9 DEF Writes
  <2>2. state = "in_pause" /\ e.declared = d.declared
    BY <1>1, <1>9 DEF Writes
  <2>3. \A y \in OpenIn(e.declared) : y = x
    BY <2>1, <2>2 DEF ChecksHold
  <2>4. Shown(e)
    BY <1>3, <1>4, <1>9, <2>1, <2>2, <2>3 DEF Shown, Shows
  <2>5. Echo(e)
    <3>1. CASE Echo(d) /\ Shown(d)
      <4>1. PICK q \in OpenIn(d.rows) : TRUE
        BY <2>1 DEF Neat, ClockedIn
      <4>2. Shows(q, state, why)
        BY <1>9, <2>1, <2>2, <3>1, <4>1 DEF Shown, Shows
      <4>3. e.rows = d.rows
        BY <1>1, <4>2 DEF Writes
      <4>4. \A p : Current(e, p) => Current(d, p)
        BY <1>1 DEF Writes, Current, Reached
      <4> QED BY <2>2, <3>1, <4>3, <4>4 DEF Echo, Backed
    <3>2. CASE \A y \in OpenIn(d.declared) : y.entered = at
      <4>1. x \in OpenIn(e.declared) /\ x.entered = at
        BY <2>1, <2>2, <3>2
      <4> QED BY <1>2, <1>5, <4>1, EchoFull
    <3> QED BY <3>1, <3>2 DEF Neat
  <2> QED BY <1>7, <2>4, <2>5 DEF Faithful
<1> QED BY <1>8, <1>9

LEMMA ReconcileTimely ==
  ASSUME NEW m \in Times, NEW at \in Times, at <= m, NEW d, Sane(d, m), Ordered(d, at), Neat(d, at),
         NEW e, e = reconcile_worker_shift_state(d, at), ChecksHold(e)
  PROVE  Faithful(e)
<1>1. PICK l : l = ReconcileLoop(d, at)
  OBVIOUS
<1>2. Looped(d, at, m, l) /\ Neatly(l, at)
  BY <1>1, LoopKept, LoopNeat
<1>3. e = IF l.start = NoShift THEN l.db ELSE Project(l.db, l.start, at)
  BY <1>1, Zenon DEF reconcile_worker_shift_state
<1>4. CASE l.start = NoShift
  BY <1>2, <1>3, <1>4 DEF Neatly
<1>5. CASE l.start # NoShift
  <2>1. PICK b, s : b = l.db /\ s = l.start
    OBVIOUS
  <2>2. e = Project(b, s, at) /\ b \in TableSet /\ s \in Times /\ Neat(b, at)
    BY <1>2, <1>3, <1>5, <2>1 DEF Looped, Laps, Neatly
  <2>3. Begun(b, s) /\ s <= at
    BY <1>2, <1>5, <2>1 DEF Looped, Laps, Tidy, Ran
  <2>4. e \in TableSet /\ Projected(b, s, at, e)
    BY <2>2, ProjectIs
  <2> QED BY <2>2, <2>3, <2>4, ProjectTimely
<1> QED BY <1>4, <1>5

-----------------------------------------------------------------------------
(* The segments behind the other commands.                                    *)

\* Whatever moves only step records, none of them from before m.
LEMMA StepsTimely ==
  ASSUME NEW d \in TableSet, NEW e \in TableSet, Faithful(d),
         e.rows = d.rows, e.started = d.started, e.ended = d.ended, e.declared = d.declared,
         e.shifts = d.shifts, NEW m \in Nat, \A h \in d.shifts : h.end <= m, Whole(e.steps),
         \A n \in Nat : n <= m => KeptSteps(d.steps, n, e.steps)
  PROVE  Faithful(e)
<1>1. Told(e)
  <2>1. ASSUME NEW h \in d.shifts PROVE Upholds(d, h.end, e)
    <3>1. h.end \in Nat /\ h.end <= m
      BY FieldsAre
    <3> QED BY <3>1, SameDecls, SameRows DEF Upholds
  <2> QED BY <2>1, ToldStays DEF Faithful, Timely
<1>2. (\A r : Current(e, r) <=> Current(d, r)) /\ (ClockedIn(e) <=> ClockedIn(d))
  BY DEF Current, Reached, ClockedIn
<1>3. Placed(e)
  BY <1>2 DEF Placed, Faithful, Timely
<1>4. Chained(e)
  BY <1>2 DEF Chained, Faithful, Timely
<1>5. Echo(e)
  BY <1>2 DEF Echo, Backed, Faithful
<1>6. Shown(e)
  BY DEF Shown, Faithful
<1> QED BY <1>1, <1>3, <1>4, <1>5, <1>6 DEF Faithful, Timely

\* A declaration made or withdrawn at the instant at, before the reconcile.
LEMMA RedeclaredNeat ==
  ASSUME NEW d \in TableSet, NEW e \in TableSet, Sorted(d), NEW at \in Times, Reached(d, at), Faithful(d),
         e.rows = d.rows, e.started = d.started, e.ended = d.ended, e.shifts = d.shifts,
         \A n \in Nat : n <= at => KeptSteps(d.steps, n, e.steps) /\ KeptDecls(d.declared, n, e.declared),
         Whole(e.steps), AllIn(e, at), OpenIn(e.declared) # {} => ClockedIn(e),
         \A y \in OpenIn(e.declared) : y.entered = at
  PROVE  Neat(e, at)
<1>1. Told(e)
  <2>1. ASSUME NEW h \in d.shifts PROVE Upholds(d, h.end, e)
    <3>1. h.end \in Nat /\ h.end <= at
      BY FieldsAre DEF Sorted, Reached
    <3> QED BY <3>1, SameRows DEF Upholds
  <2> QED BY <2>1, ToldStays DEF Faithful, Timely
<1>2. (\A r : Current(e, r) <=> Current(d, r)) /\ (ClockedIn(e) <=> ClockedIn(d))
  BY DEF Current, Reached, ClockedIn
<1>3. Placed(e)
  BY <1>2 DEF Placed, Faithful, Timely
<1>4. Chained(e)
  BY <1>2 DEF Chained, Faithful, Timely
<1>5. EchoTo(e, at)
  <2> SUFFICES ASSUME NEW r \in e.rows, r.why \in Reasons, Current(e, r), NEW t \in Times, t < at, Covers(r, t)
               PROVE  Backed(e, r, t)
    BY DEF EchoTo
  <2>1. /\ t \in Nat /\ at \in Nat /\ at <= at
        /\ \A x \in d.declared : x.entered \in Nat /\ x.exited \in Nat
        /\ \A x \in e.declared : x.entered \in Nat /\ x.exited \in Nat
    BY FieldsAre, TimesAre
  <2>2. PICK x \in d.declared : r.entered <= x.entered /\ x.entered <= t /\ t < x.exited
    BY <1>2 DEF Faithful, Echo, Backed
  <2>3. PICK z \in e.declared : LikeDecl(z, x, at)
    BY <2>1, <2>2 DEF KeptDecls
  <2>4. r.entered <= z.entered /\ z.entered <= t /\ t < z.exited
    BY <2>1, <2>2, <2>3 DEF LikeDecl
  <2> QED BY <2>4 DEF Backed
<1> QED BY <1>1, <1>3, <1>4, <1>5 DEF Neat, Timely

LEMMA DeclaredNeat ==
  ASSUME NEW m \in Times, NEW at \in Times, at <= m, NEW d, Sane(d, m), Sorted(d), Reached(d, at),
         ClockedIn(d), Faithful(d), AllIn(d, at), NEW why \in Reasons, NEW e, e = Declared(d, why, at)
  PROVE  Neat(e, at)
<1>1. PICK S, O, R, W : /\ S = d.declared /\ O = OpenIn(S) /\ R = d.steps /\ W = OpenWorking(d)
  OBVIOUS
<1>2. PICK n : n = [why |-> why, entered |-> at, exited |-> Open]
  OBVIOUS
<1>3. PICK D : D = Leave(S, O, at) \cup {n}
  OBVIOUS
<1>4. PICK P, ends : P = PauseSteps(R, W, at, ends) /\ ends = FALSE
  OBVIOUS
<1>5. PICK B : B = (d.outbox \/ W # {})
  OBVIOUS
<1>6. e = [d EXCEPT !.declared = D, !.steps = P, !.outbox = B]
  BY <1>1, <1>2, <1>3, <1>4, <1>5, Zenon DEF Declared
<1>7. /\ d \in TableSet /\ S \in SUBSET Decls /\ R \in SUBSET Recs /\ ends \in BOOLEAN
      /\ O \in SUBSET S /\ W \in SUBSET OpenIn(R) /\ W \in SUBSET R
      /\ \A x \in S : x.entered <= at
      /\ \A x \in R : x.entered <= at
  BY <1>1, <1>4, FieldsAre DEF Sane, OpenIn, OpenWorking, AllIn
<1>8. n.entered = at /\ n.exited = Open /\ at \in Nat /\ at # Open /\ at <= at
  BY <1>2, TimesAre
<1>9. e \in TableSet
  BY DeclaredKept DEF Sane
<1>10. /\ e.declared = D /\ e.steps = P
       /\ e.rows = d.rows /\ e.started = d.started /\ e.ended = d.ended /\ e.shifts = d.shifts
  <2> HIDE <1>5, <1>3, <1>4
  <2> QED BY <1>6, <1>7 DEF TableSet
<1>11. ASSUME NEW k \in Nat, k <= at PROVE KeptSteps(R, k, P) /\ KeptDecls(S, k, D)
  <2>1. KeptSteps(R, k, P)
    BY <1>4, <1>7, <1>11, PausesKept
  <2>2. KeptDecls(S, k, Leave(S, O, at))
    BY <1>1, <1>7, <1>11, LeftDeclsKept
  <2>3. ~(n.entered < k)
    BY <1>8, <1>11
  <2>4. KeptDecls(S, k, D)
    BY <1>3, <2>2, <2>3 DEF KeptDecls
  <2> QED BY <2>1, <2>4
<1>12. Whole(P)
  BY <1>1, <1>4, <1>7, PausesWhole DEF Faithful, Timely
<1>13. /\ \A x \in Leave(S, O, at) : x.exited # Open /\ x.entered <= at
  <2>1. \A x \in Leave(S, O, at) :
           \/ x \in S /\ x \notin O
           \/ \E y \in O : y.entered # at /\ x.entered = y.entered /\ x.exited = at
    BY <1>7, LeaveDecls
  <2> QED BY <1>1, <1>7, <1>8, <2>1 DEF OpenIn
<1>14. \A x \in P : x.entered <= at
  <2>1. Paused(R, W, at, ends, P)
    BY <1>4, <1>7, PausesAre
  <2> QED BY <1>7, <1>8, <2>1 DEF Paused
<1>15. AllIn(e, at)
  BY <1>3, <1>8, <1>10, <1>13, <1>14 DEF AllIn
<1>16. \A y \in OpenIn(e.declared) : y.entered = at
  BY <1>3, <1>8, <1>10, <1>13 DEF OpenIn
<1>17. ClockedIn(e)
  BY <1>10 DEF ClockedIn
<1>18. \A k \in Nat : k <= at => KeptSteps(d.steps, k, e.steps) /\ KeptDecls(d.declared, k, e.declared)
  BY <1>1, <1>10, <1>11
<1> QED BY <1>7, <1>9, <1>10, <1>12, <1>15, <1>16, <1>17, <1>18, RedeclaredNeat

LEMMA WithdrawnNeat ==
  ASSUME NEW m \in Times, NEW at \in Times, at <= m, NEW d, Sane(d, m), Sorted(d), Reached(d, at),
         Faithful(d), AllIn(d, at),
         NEW e, e = [d EXCEPT !.declared = Leave(d.declared, OpenIn(d.declared), at)]
  PROVE  Neat(e, at)
<1>1. PICK S, O, D : S = d.declared /\ O = OpenIn(S) /\ D = Leave(S, O, at)
  OBVIOUS
<1>2. /\ d \in TableSet /\ S \in SUBSET Decls /\ O \in SUBSET S /\ at \in Nat /\ at # Open
      /\ \A x \in S : x.entered <= at
  BY <1>1, FieldsAre, TimesAre DEF Sane, OpenIn, AllIn
<1>3. \A x \in D : x.exited # Open /\ x.entered <= at
  <2>1. \A x \in D : \/ x \in S /\ x \notin O
                     \/ \E y \in O : y.entered # at /\ x.entered = y.entered /\ x.exited = at
    BY <1>1, <1>2, LeaveDecls
  <2> QED BY <1>1, <1>2, <2>1 DEF OpenIn
<1>4. e \in TableSet
  BY WithdrawnKept DEF Sane
<1>5. /\ e.declared = D /\ e.steps = d.steps
      /\ e.rows = d.rows /\ e.started = d.started /\ e.ended = d.ended /\ e.shifts = d.shifts
  BY <1>1, <1>2 DEF TableSet
<1>6. ASSUME NEW k \in Nat, k <= at PROVE KeptSteps(d.steps, k, e.steps) /\ KeptDecls(d.declared, k, e.declared)
  <2>1. KeptDecls(S, k, D)
    BY <1>1, <1>2, <1>6, LeftDeclsKept
  <2> QED BY <1>1, <1>5, <2>1, SameSteps
<1>7. AllIn(e, at) /\ OpenIn(e.declared) = {}
  BY <1>3, <1>5 DEF AllIn, OpenIn
<1>8. Whole(e.steps)
  BY <1>5 DEF Faithful, Timely
<1> QED BY <1>2, <1>4, <1>5, <1>6, <1>7, <1>8, RedeclaredNeat

\* Step records of S that are left or paused at the instant m, or later.
Carries(S, m, T) ==
  /\ T \in SUBSET Recs
  /\ \A n \in Nat : n <= m => KeptSteps(S, n, T)
  /\ Whole(S) => Whole(T)

LEMMA CarriesOn ==
  ASSUME NEW m, NEW S, NEW R, NEW T, Carries(S, m, R), Carries(R, m, T)
  PROVE  Carries(S, m, T)
<1>1. ASSUME NEW n \in Nat, n <= m PROVE KeptSteps(S, n, T)
  <2>1. KeptSteps(S, n, R) /\ KeptSteps(R, n, T)
    BY <1>1 DEF Carries
  <2>2. ASSUME NEW x, NEW y, NEW z, LikeStep(x, y, n), LikeStep(y, z, n) PROVE LikeStep(x, z, n)
    BY <2>2 DEF LikeStep
  <2>3. ASSUME NEW x \in T, x.entered < n PROVE \E z \in S : LikeStep(x, z, n)
    <3>1. PICK y \in R : LikeStep(x, y, n)
      BY <2>1, <2>3 DEF KeptSteps
    <3>2. PICK z \in S : LikeStep(y, z, n)
      BY <2>1, <2>3, <3>1 DEF KeptSteps, LikeStep
    <3> QED BY <2>2, <3>1, <3>2
  <2>4. ASSUME NEW z \in S, z.entered < n PROVE \E x \in T : LikeStep(x, z, n)
    <3>1. PICK y \in R : LikeStep(y, z, n)
      BY <2>1, <2>4 DEF KeptSteps
    <3>2. PICK x \in T : LikeStep(x, y, n)
      BY <2>1, <2>4, <3>1 DEF KeptSteps, LikeStep
    <3> QED BY <2>2, <3>1, <3>2
  <2> QED BY <2>3, <2>4 DEF KeptSteps
<1> QED BY <1>1 DEF Carries

LEMMA PausedCarries ==
  ASSUME NEW m \in Times, NEW S \in SUBSET Recs, NEW C \in SUBSET OpenIn(S), \A y \in S : y.entered <= m,
         NEW ends, ends \in BOOLEAN, NEW P, P = PauseSteps(S, C, m, ends)
  PROVE  Carries(S, m, P)
<1>1. C \in SUBSET S /\ \A y \in C : y.entered <= m
  BY DEF OpenIn
<1>2. \A n \in Nat : n <= m => KeptSteps(S, n, P)
  BY PausesKept
<1>3. Whole(S) => Whole(P)
  BY <1>1, PausesWhole
<1>4. P \in SUBSET Recs
  BY <1>1, PausesAre DEF Paused
<1> QED BY <1>2, <1>3, <1>4 DEF Carries

LEMMA LeftCarries ==
  ASSUME NEW m \in Times, NEW S \in SUBSET Recs, NEW C \in SUBSET OpenIn(S), \A y \in S : y.entered <= m
  PROVE  Carries(S, m, Leave(S, C, m))
<1>1. m \in Nat /\ m < Open /\ Open \in Nat
  BY TimesAre
<1>2. C \in SUBSET S /\ \A y \in C : y.exited = Open
  BY DEF OpenIn
<1>3. PICK T : T = Leave(S, C, m)
  OBVIOUS
<1>4. T \in SUBSET Recs
  BY <1>2, <1>3, LeaveRecs
<1>5. \A x \in T :
        \/ x \in S /\ x \notin C
        \/ \E y \in C : /\ y.entered # m /\ x.entered = y.entered /\ x.exited = m
                        /\ x.state = y.state /\ x.shiftEnded = y.shiftEnded
  BY <1>2, <1>3, LeaveRecs
<1>6. \A y \in S : y \in Recs /\ y.entered \in Nat
  BY TimesAre DEF Recs
<1>7. ASSUME NEW n \in Nat, n <= m PROVE KeptSteps(S, n, T)
  <2>1. ASSUME NEW x \in T, x.entered < n PROVE \E y \in S : LikeStep(x, y, n)
    BY <1>1, <1>2, <1>5, <1>7, <2>1 DEF LikeStep
  <2>2. ASSUME NEW y \in S, y.entered < n PROVE \E x \in T : LikeStep(x, y, n)
    <3>1. CASE y \notin C
      BY <1>3, <3>1 DEF Leave, LikeStep
    <3>2. CASE y \in C
      <4>1. PICK x : x = [y EXCEPT !.exited = m]
        OBVIOUS
      <4>2. x.entered = y.entered /\ x.exited = m /\ x.state = y.state /\ x.shiftEnded = y.shiftEnded
        BY <1>6, <4>1 DEF Recs
      <4>3. y.entered # m
        BY <1>1, <1>6, <1>7, <2>2
      <4>4. x \in T
        BY <1>3, <3>2, <4>1, <4>3 DEF Leave
      <4> QED BY <1>1, <1>2, <1>7, <3>2, <4>2, <4>4 DEF LikeStep
    <3> QED BY <3>1, <3>2
  <2> QED BY <2>1, <2>2 DEF KeptSteps
<1>8. ASSUME Whole(S) PROVE Whole(T)
  <2> SUFFICES ASSUME NEW x \in T PROVE x.entered < x.exited /\ (x.shiftEnded => x.state = "paused")
    BY DEF Whole
  <2>1. CASE x \in S
    BY <1>8, <2>1 DEF Whole
  <2>2. ASSUME NEW y \in C, y.entered # m, x.entered = y.entered, x.exited = m,
               x.state = y.state, x.shiftEnded = y.shiftEnded
        PROVE  x.entered < x.exited /\ (x.shiftEnded => x.state = "paused")
    <3>1. y \in S /\ y.entered \in Nat /\ y.entered <= m
      BY <1>2, <1>6
    <3> QED BY <1>1, <1>8, <2>2, <3>1 DEF Whole
  <2> QED BY <1>5, <2>1, <2>2
<1> QED BY <1>3, <1>4, <1>7, <1>8 DEF Carries

\* A step record made at m.
LEMMA AddedCarries ==
  ASSUME NEW m \in Times, NEW S, NEW T, Carries(S, m, T), NEW x \in Recs,
         x.entered = m, x.exited = Open, ~x.shiftEnded
  PROVE  Carries(S, m, T \cup {x})
<1>1. m \in Nat /\ m < Open
  BY TimesAre
<1>2. ASSUME NEW n \in Nat, n <= m PROVE KeptSteps(S, n, T \cup {x})
  <2>1. KeptSteps(S, n, T) /\ ~(x.entered < n)
    BY <1>1, <1>2 DEF Carries
  <2> QED BY <2>1 DEF KeptSteps
<1>3. Whole(S) => Whole(T \cup {x})
  BY <1>1 DEF Carries, Whole
<1> QED BY <1>2, <1>3 DEF Carries

-----------------------------------------------------------------------------
(* Each action, with its segments.                                            *)

TInv == disorder \/ Faithful(Tables)

LEMMA InTold ==
  ASSUME IInv, TInv, NEW at \in Times, at <= now, ~ClockedIn(Tables) \/ Stale(Tables, at),
         Commit(clock_in_shift_for_user(Tables, at)), MarkIn(at)
  PROVE  TInv'
<1>1. PICK d, m, e, c : /\ d = Tables /\ m = now /\ e = clock_in_shift_for_user(d, at)
                        /\ c = close_stale_open_shift(d, at)
  OBVIOUS
<1>2. m \in Times /\ at <= m /\ Sane(d, m) /\ (~ClockedIn(d) \/ Stale(d, at))
  BY <1>1, Before
<1>3. Keeps(d, at, m, e)
  BY <1>1, <1>2, ClockInKept
<1>4. e \in TableSet /\ Tables' = e
  BY <1>1, <1>3, CommitIs DEF Keeps, Sane
<1>5. ASSUME ~disorder' PROVE Faithful(e)
  <2>1. ~disorder /\ ~OutOfOrder(at)
    BY <1>5 DEF MarkIn
  <2>2. Sorted(d) /\ Reached(d, at) /\ Faithful(d)
    BY <1>1, <2>1, Before DEF TInv
  <2>3. Sane(c, m) /\ Sorted(c) /\ Reached(c, at) /\ ~ClockedIn(c) /\ (~Stale(d, at) => c = d)
    BY <1>1, <1>2, <2>2, StaleClosed DEF Keeps
  <2>4. Faithful(c)
    <3>1. CASE Stale(d, at)
      BY <1>1, <1>2, <2>2, <3>1, EchoWhole, StaleTimely DEF Faithful
    <3> QED BY <2>2, <2>3, <3>1
  <2>5. c \in TableSet /\ Begins(c, at, e)
    BY <1>1, <2>3, ClockInBegins DEF Sane
  <2> QED BY <2>3, <2>4, <2>5, StartsTimely DEF Starts
<1> QED BY <1>4, <1>5 DEF TInv

LEMMA OutTold ==
  ASSUME IInv, TInv, NEW at \in Times, at <= now, ClockedIn(Tables),
         Commit(clock_out_shift_for_user(Tables, at)), MarkOut(at)
  PROVE  TInv'
<1>1. PICK d, m, e, s : /\ d = Tables /\ m = now /\ e = clock_out_shift_for_user(d, at)
                        /\ s = ShiftStart(d, at)
  OBVIOUS
<1>2. m \in Times /\ at <= m /\ Sane(d, m) /\ ClockedIn(d) /\ d \in TableSet
  BY <1>1, Before
<1>3. Keeps(d, at, m, e)
  BY <1>1, <1>2, ClockOutKept
<1>4. e \in TableSet /\ Tables' = e
  BY <1>1, <1>3, CommitIs DEF Keeps, Sane
<1>5. ASSUME ~disorder' PROVE Faithful(e)
  <2>1. ~disorder /\ ~OutOfOrder(at)
    BY <1>5 DEF MarkOut
  <2>2. Sorted(d) /\ Reached(d, at) /\ Faithful(d)
    BY <1>1, <2>1, Before DEF TInv
  <2>3. EchoTo(d, at) /\ Timely(d)
    BY <2>2, EchoWhole DEF Faithful
  <2>4. CASE Stale(d, at)
    <3>1. e = close_stale_open_shift(d, at)
      BY <1>1, <2>4, Zenon DEF clock_out_shift_for_user
    <3> QED BY <1>2, <2>2, <2>3, <2>4, <3>1, StaleTimely
  <2>5. CASE ~Stale(d, at)
    <3>1. e = _close_open_shift(d, s, at)
      BY <1>1, <2>5, Zenon DEF clock_out_shift_for_user
    <3>2. s \in Times /\ Latest(d, s) /\ s <= at
      BY <1>1, <1>2, <2>2, StartIs
    <3>3. Timely(e) /\ \A r \in e.rows : ~Current(e, r)
      BY <1>2, <2>2, <2>3, <3>1, <3>2, ClosureTimely
    <3>4. at <= work_day_end(s)
      <4>1. ~(work_day_end(s) <= at)
        BY <1>1, <1>2, <2>5 DEF Stale, is_past_work_day_end
      <4>2. s \in Nat /\ at \in Nat
        BY <3>2, TimesAre
      <4>3. work_day_end(s) \in Nat
        BY <4>2, DayIs
      <4> QED BY <4>1, <4>2, <4>3
    <3>5. OpenIn(e.declared) = {}
      <4>1. Closes(d, s, at, e)
        BY <1>2, <3>1, <3>2, Closure
      <4> QED BY <1>2, <3>2, <3>4, <4>1, ClosureSane
    <3> QED BY <3>3, <3>5, ClosedFaithful
  <2> QED BY <2>4, <2>5
<1> QED BY <1>4, <1>5 DEF TInv

LEMMA StaleTold ==
  ASSUME IInv, TInv, NEW at \in Times, at <= now, Stale(Tables, at),
         Commit(close_stale_open_shift(Tables, at)), MarkReconcile(at)
  PROVE  TInv'
<1>1. PICK d, m, e : d = Tables /\ m = now /\ e = close_stale_open_shift(d, at)
  OBVIOUS
<1>2. m \in Times /\ at <= m /\ Sane(d, m) /\ Stale(d, at)
  BY <1>1, Before
<1>3. Keeps(d, at, m, e)
  BY <1>1, <1>2, StaleClosed
<1>4. e \in TableSet /\ Tables' = e
  BY <1>1, <1>3, CommitIs DEF Keeps, Sane
<1>5. ASSUME ~disorder' PROVE Faithful(e)
  <2>1. ~disorder /\ ~OutOfOrder(at)
    BY <1>5 DEF MarkReconcile
  <2>2. Sorted(d) /\ Reached(d, at) /\ Faithful(d)
    BY <1>1, <2>1, Before DEF TInv
  <2> QED BY <1>1, <1>2, <2>2, EchoWhole, StaleTimely DEF Faithful
<1> QED BY <1>4, <1>5 DEF TInv

\* A reconcile of the tables d, which a command has made of those it found.
LEMMA ReconcileTold ==
  ASSUME IInv, TInv, NEW at \in Times, at <= now, NEW d, Sane(d, now),
         Ordered(Tables, at) /\ Faithful(Tables) /\ AllIn(Tables, at) => Ordered(d, at) /\ Neat(d, at),
         Commit(reconcile_worker_shift_state(d, at)), MarkReconcile(at)
  PROVE  TInv'
<1>1. PICK m, e : m = now /\ e = reconcile_worker_shift_state(d, at)
  OBVIOUS
<1>2. ChecksHold(e) /\ m \in Times /\ at <= m /\ Sane(d, m)
  BY <1>1, Before DEF Commit
<1>3. Tables' = e
  <2>1. Sane(e, m)
    BY <1>1, <1>2, ReconcileKept
  <2> QED BY <1>1, <2>1, CommitIs DEF Sane
<1>4. ASSUME ~disorder' PROVE Faithful(e)
  <2>1. ~disorder /\ ~OutOfOrder(at) /\ ~Overtaken(at)
    BY <1>4 DEF MarkReconcile
  <2>2. Ordered(Tables, at) /\ Faithful(Tables)
    BY <2>1, Before DEF Ordered, TInv
  <2>3. AllIn(Tables, at)
    <3>1. PICK b : /\ b = Tables /\ b \in TableSet /\ b.rows = rows /\ b.declared = declared /\ b.steps = steps
      BY Before DEF Tables
    <3>2. \A x \in rows \cup declared \cup steps : x.entered \in Nat /\ ~(x.entered > at)
      BY <2>1, <3>1, FieldsAre DEF Overtaken
    <3>3. at \in Nat
      BY TimesAre
    <3> QED BY <3>1, <3>2, <3>3 DEF AllIn
  <2> QED BY <1>1, <1>2, <2>2, <2>3, ReconcileTimely
<1> QED BY <1>3, <1>4 DEF TInv

LEMMA DeclareTold ==
  ASSUME IInv, TInv, declare_worker_state
  PROVE  TInv'
<1>1. PICK at \in Instants(LockWait), why \in Reasons :
        /\ Request /\ ClockedIn(Tables)
        /\ Commit(IF Stale(Tables, at) THEN close_stale_open_shift(Tables, at)
                  ELSE reconcile_worker_shift_state(Declared(Tables, why, at), at))
        /\ MarkReconcile(at)
  BY DEF declare_worker_state
<1>2. at \in Times /\ at <= now
  BY <1>1, Instant
<1>3. CASE Stale(Tables, at)
  <2>1. Commit(close_stale_open_shift(Tables, at))
    BY <1>1, <1>3, Zenon
  <2> QED BY <1>1, <1>2, <1>3, <2>1, StaleTold
<1>4. CASE ~Stale(Tables, at)
  <2>1. PICK d, m, e : d = Tables /\ m = now /\ e = Declared(d, why, at)
    OBVIOUS
  <2>2. Commit(reconcile_worker_shift_state(e, at))
    BY <1>1, <1>4, <2>1, Zenon
  <2>3. m \in Times /\ at <= m /\ Sane(d, m) /\ ClockedIn(d)
    BY <1>1, <1>2, <2>1, Before
  <2>4. Sane(e, m) /\ (Sorted(d) /\ Reached(d, at) /\ ClockedIn(d) => Ordered(e, at))
    BY <1>1, <1>2, <2>1, <2>3, DeclaredKept
  <2>5. Sorted(d) /\ Reached(d, at) /\ Faithful(d) /\ AllIn(d, at) => Neat(e, at)
    BY <1>1, <1>2, <2>1, <2>3, DeclaredNeat
  <2>6. /\ Sane(e, now)
        /\ Ordered(Tables, at) /\ Faithful(Tables) /\ AllIn(Tables, at) => Ordered(e, at) /\ Neat(e, at)
    BY <2>1, <2>3, <2>4, <2>5 DEF Ordered
  <2> QED BY <1>1, <1>2, <2>2, <2>6, ReconcileTold
<1> QED BY <1>3, <1>4

LEMMA WithdrawTold ==
  ASSUME IInv, TInv, close_declared_worker_state
  PROVE  TInv'
<1>1. PICK at \in Instants(LockWait) :
        /\ Request
        /\ Commit(IF Stale(Tables, at) THEN close_stale_open_shift(Tables, at)
                  ELSE reconcile_worker_shift_state(
                         [Tables EXCEPT !.declared = Leave(@, OpenIn(@), at)], at))
        /\ MarkReconcile(at)
  BY Zenon DEF close_declared_worker_state
<1>2. at \in Times /\ at <= now
  BY <1>1, Instant
<1>3. CASE Stale(Tables, at)
  <2>1. Commit(close_stale_open_shift(Tables, at))
    BY <1>1, <1>3, Zenon
  <2> QED BY <1>1, <1>2, <1>3, <2>1, StaleTold
<1>4. CASE ~Stale(Tables, at)
  <2>1. PICK d, m, e : /\ d = Tables /\ m = now
                       /\ e = [d EXCEPT !.declared = Leave(d.declared, OpenIn(d.declared), at)]
    OBVIOUS
  <2>2. Commit(reconcile_worker_shift_state(e, at))
    BY <1>1, <1>4, <2>1, Zenon
  <2>3. m \in Times /\ at <= m /\ Sane(d, m)
    BY <1>1, <1>2, <2>1, Before
  <2>4. Sane(e, m) /\ (Ordered(d, at) => Ordered(e, at))
    BY <1>2, <2>1, <2>3, WithdrawnKept
  <2>5. Sorted(d) /\ Reached(d, at) /\ Faithful(d) /\ AllIn(d, at) => Neat(e, at)
    BY <1>2, <2>1, <2>3, WithdrawnNeat
  <2>6. /\ Sane(e, now)
        /\ Ordered(Tables, at) /\ Faithful(Tables) /\ AllIn(Tables, at) => Ordered(e, at) /\ Neat(e, at)
    BY <2>1, <2>4, <2>5 DEF Ordered
  <2> QED BY <1>1, <1>2, <2>2, <2>6, ReconcileTold
<1> QED BY <1>3, <1>4

LEMMA TransitionTold ==
  ASSUME IInv, TInv, NEW last \in BOOLEAN, ProcessStepTransition(last)
  PROVE  TInv'
<1>1. PICK at \in Instants(LockWait) :
        /\ Commit(reconcile_worker_shift_state([Tables EXCEPT !.outbox = ~last], at))
        /\ MarkReconcile(at)
  BY DEF ProcessStepTransition
<1>2. at \in Times /\ at <= now /\ now \in Times /\ Sane(Tables, now)
  BY <1>1, Instant, Before
<1>3. PICK d, e, b : d = Tables /\ e = [d EXCEPT !.outbox = b] /\ b = ~last
  OBVIOUS
<1>4. /\ e \in TableSet /\ e.rows = d.rows /\ e.started = d.started /\ e.ended = d.ended
      /\ e.declared = d.declared /\ e.steps = d.steps /\ e.shifts = d.shifts
  <2>1. b \in BOOLEAN /\ d \in TableSet
    BY <1>2, <1>3 DEF Sane
  <2>2. e = [d EXCEPT !.outbox = b]
    BY <1>3
  <2> HIDE <1>3
  <2> QED BY <2>1, <2>2 DEF TableSet
<1>5. ClockedIn(e) = ClockedIn(d) /\ OpenWorking(e) = OpenWorking(d)
  BY <1>4 DEF ClockedIn, OpenWorking
<1>6. Sane(e, now)
  BY <1>2, <1>3, <1>4, <1>5 DEF Sane, Past, Proper, InDay, Left
<1>7. Ordered(d, at) => Ordered(e, at)
  BY <1>4, <1>5 DEF Ordered, Sorted, Reached, InTime
<1>8. Commit(reconcile_worker_shift_state(e, at))
  BY <1>1, <1>3, Zenon
<1>9. ASSUME Ordered(d, at), Faithful(d), AllIn(d, at) PROVE Neat(e, at)
  <2>1. Faithful(e)
    <3>1. d \in TableSet /\ at \in Nat /\ \A h \in d.shifts : h.end <= at
      BY <1>2, <1>3, <1>9, TimesAre DEF Sane, Ordered, Sorted, Reached
    <3>2. Whole(e.steps) /\ \A n \in Nat : n <= at => KeptSteps(d.steps, n, e.steps)
      BY <1>4, <1>9, SameSteps DEF Faithful, Timely
    <3> QED BY <1>4, <1>9, <3>1, <3>2, StepsTimely
  <2>2. AllIn(e, at) /\ (OpenIn(e.declared) # {} => ClockedIn(e))
    BY <1>4, <1>5, <1>9 DEF AllIn, Ordered, Sorted
  <2> QED BY <2>1, <2>2, EchoWhole DEF Neat, Faithful
<1>10. Ordered(Tables, at) /\ Faithful(Tables) /\ AllIn(Tables, at) => Ordered(e, at) /\ Neat(e, at)
  BY <1>3, <1>7, <1>9
<1> QED BY <1>1, <1>2, <1>6, <1>8, <1>10, ReconcileTold

LEMMA SweepTold ==
  ASSUME IInv, TInv, AutoClockOut
  PROVE  TInv'
<1>1. PICK d, m, e : d = Tables /\ m = now /\ e = close_stale_open_shift(d, m)
  OBVIOUS
<1>2. m \in Times /\ m \in Nat /\ m <= m /\ Sane(d, m) /\ Stale(d, m)
  BY <1>1, Before DEF AutoClockOut
<1>3. Keeps(d, m, m, e) /\ OpenWorking(e) \subseteq OpenWorking(d)
  BY <1>1, <1>2, StaleClosed
<1>4. Commit(reconcile_worker_shift_state(e, now)) /\ MarkReconcile(now)
  BY <1>1, Zenon DEF AutoClockOut
<1>5. Sane(e, now) /\ (Ordered(Tables, now) => Ordered(e, now))
  BY <1>1, <1>3 DEF Keeps, Ordered, InTime
<1>6. Ordered(d, m) /\ Faithful(d) /\ AllIn(d, m) => Neat(e, m)
  <2>1. Faithful(d) => Timely(d) /\ EchoTo(d, m)
    BY EchoWhole DEF Faithful
  <2> QED BY <1>1, <1>2, <2>1, StaleTimely DEF Ordered
<1>7. Ordered(Tables, now) /\ Faithful(Tables) /\ AllIn(Tables, now) => Ordered(e, now) /\ Neat(e, now)
  BY <1>1, <1>5, <1>6
<1>8. now \in Times /\ now <= now
  BY <1>1, <1>2
<1> QED BY <1>4, <1>5, <1>7, <1>8, ReconcileTold

\* A request that moves the worker's step records.
LEMMA StepsTold ==
  ASSUME IInv, TInv, Carries(steps, now, steps'), outbox' = TRUE,
         UNCHANGED <<rows, started, ended, declared, shifts, disorder>>
  PROVE  TInv'
<1>1. PICK d, e, m : d = Tables /\ e = Tables' /\ m = now
  OBVIOUS
<1>2. m \in Times /\ m \in Nat /\ d \in TableSet /\ Sane(d, m)
  BY <1>1, Before
<1>3. /\ e.rows = d.rows /\ e.started = d.started /\ e.ended = d.ended
      /\ e.declared = d.declared /\ e.shifts = d.shifts
      /\ d.steps = steps /\ e.steps = steps'
  BY <1>1 DEF Tables
<1>4. e \in TableSet
  <2>1. e = [rows |-> d.rows, started |-> d.started, ended |-> d.ended, declared |-> d.declared,
             steps |-> steps', outbox |-> TRUE, shifts |-> d.shifts]
    BY <1>1, <1>3 DEF Tables
  <2>2. steps' \in SUBSET Recs
    BY DEF Carries
  <2> QED BY <1>2, <2>1, <2>2 DEF TableSet
<1>5. ASSUME Faithful(d) PROVE Faithful(e)
  <2>1. \A h \in d.shifts : h.end <= m
    BY <1>2 DEF Sane, Past
  <2>2. Whole(e.steps) /\ \A n \in Nat : n <= m => KeptSteps(d.steps, n, e.steps)
    BY <1>1, <1>3, <1>5 DEF Carries, Faithful, Timely
  <2> QED BY <1>2, <1>3, <1>4, <1>5, <2>1, <2>2, StepsTimely
<1> QED BY <1>1, <1>5 DEF TInv

LEMMA StepsIn ==
  ASSUME IInv
  PROVE  /\ now \in Times /\ steps \in SUBSET Recs /\ \A x \in steps : x.entered <= now
         /\ \A s \in Steps : StepOpen(s) \in SUBSET OpenIn(steps)
<1>1. steps = Tables.steps /\ Sane(Tables, now)
  BY Before DEF Tables
<1>2. \A x \in steps : x.entered <= now
  BY <1>1 DEF Sane, Past
<1> QED BY <1>2, StepsAre DEF StepOpen

LEMMA PauseStepTold ==
  ASSUME IInv, TInv, NEW s \in Steps, PauseStep(s)
  PROVE  TInv'
<1>1. PICK ends, P, S, C, m : /\ ends = FALSE /\ S = steps /\ C = StepOpen(s) /\ m = now
                              /\ P = PauseSteps(S, C, m, ends)
  OBVIOUS
<1>2. /\ m \in Times /\ S \in SUBSET Recs /\ C \in SUBSET OpenIn(S) /\ ends \in BOOLEAN
      /\ \A x \in S : x.entered <= m
  BY <1>1, StepsIn
<1>3. Carries(S, m, P)
  BY <1>1, <1>2, PausedCarries
<1>4. Carries(steps, now, steps')
  BY <1>1, <1>3, Zenon DEF PauseStep
<1> QED BY <1>4, StepsTold DEF PauseStep

LEMMA FinishStepTold ==
  ASSUME IInv, TInv, NEW s \in Steps, FinishStep(s)
  PROVE  TInv'
<1>1. PICK S, C, m : S = steps /\ C = StepOpen(s) /\ m = now
  OBVIOUS
<1>2. m \in Times /\ S \in SUBSET Recs /\ C \in SUBSET OpenIn(S) /\ \A x \in S : x.entered <= m
  BY <1>1, StepsIn
<1>3. Carries(S, m, Leave(S, C, m))
  BY <1>2, LeftCarries
<1>4. Carries(steps, now, steps')
  BY <1>1, <1>3, Zenon DEF FinishStep
<1> QED BY <1>4, StepsTold DEF FinishStep

LEMMA StartStepTold ==
  ASSUME IInv, TInv, NEW s \in Steps, StartStep(s)
  PROVE  TInv'
<1>1. PICK held : held = IF s \in Batch THEN {} ELSE {x \in OpenWorking(Tables) : x.step \notin Batch}
  OBVIOUS
<1>2. PICK ends, P, S, C, m : /\ ends = FALSE /\ S = steps /\ C = StepOpen(s) /\ m = now
                              /\ P = PauseSteps(S, held, m, ends)
  OBVIOUS
<1>3. PICK R : R = Leave(P, C, m)
  OBVIOUS
<1>4. PICK n : n = [step |-> s, state |-> "working", shiftEnded |-> FALSE, entered |-> m, exited |-> Open]
  OBVIOUS
<1>5. steps' = R \cup {n} /\ \A x \in C : x.state = "paused"
  BY <1>1, <1>2, <1>3, <1>4, Zenon DEF StartStep
<1>6. /\ m \in Times /\ S \in SUBSET Recs /\ C \in SUBSET OpenIn(S) /\ ends \in BOOLEAN
      /\ \A x \in S : x.entered <= m
  BY <1>2, StepsIn
<1>7. held \in SUBSET OpenIn(S) /\ \A x \in held : x.state = "working"
  BY <1>1, <1>2 DEF OpenWorking, OpenIn, Tables
<1>8. held \in SUBSET S /\ m <= m
  BY <1>6, <1>7, TimesAre DEF OpenIn
<1>9. Carries(S, m, P)
  BY <1>2, <1>6, <1>7, PausedCarries
<1>10. Paused(S, held, m, ends, P) /\ \A x \in S \ held : x \in P
  BY <1>2, <1>6, <1>8, PausesAre, PausedMoved
<1>11. P \in SUBSET Recs /\ \A x \in P : x.entered <= m
  BY <1>6, <1>8, <1>10 DEF Paused
<1>12. C \in SUBSET OpenIn(P)
  <2>1. \A x \in C : x \in S /\ x.exited = Open /\ x \notin held
    BY <1>5, <1>6, <1>7 DEF OpenIn
  <2> QED BY <1>10, <2>1 DEF OpenIn
<1>13. Carries(P, m, R)
  BY <1>3, <1>6, <1>11, <1>12, LeftCarries
<1>14. Carries(S, m, R)
  BY <1>9, <1>13, CarriesOn
<1>15. n \in Recs /\ n.entered = m /\ n.exited = Open /\ ~n.shiftEnded
  BY <1>4, <1>6, TimesAre DEF Recs, Times, Open
<1>16. Carries(S, m, R \cup {n})
  BY <1>6, <1>14, <1>15, AddedCarries
<1>17. Carries(steps, now, steps')
  BY <1>2, <1>5, <1>16
<1> QED BY <1>17, StepsTold DEF StartStep

LEMMA StillTold ==
  ASSUME TInv, UNCHANGED <<rows, started, ended, declared, steps, outbox, shifts, disorder>>
  PROVE  TInv'
<1>1. Tables' = Tables /\ disorder' = disorder
  BY DEF Tables
<1> QED BY <1>1 DEF TInv

LEMMA StartTold == Init => TInv
<1> SUFFICES ASSUME Init PROVE Faithful(Tables)
  BY DEF TInv
<1>1. /\ Tables.rows = {} /\ Tables.declared = {} /\ Tables.steps = {} /\ Tables.shifts = {}
  BY DEF Init, Tables
<1>2. OpenIn(Tables.declared) = {}
  BY <1>1 DEF OpenIn
<1> QED BY <1>1, <1>2 DEF Faithful, Timely, Placed, Chained, Whole, Told, Echo, Shown

LEMMA StepTold == IInv /\ TInv /\ [Next]_vars => TInv'
<1> SUFFICES ASSUME IInv, TInv, [Next]_vars PROVE TInv'
  OBVIOUS
<1>1. CASE UNCHANGED vars
  BY <1>1, StillTold DEF vars
<1>2. CASE Tick
  BY <1>2, StillTold DEF Tick
<1>3. ASSUME NEW age, NEW at \in Instants(age), ClockIn(at) PROVE TInv'
  BY <1>3, Instant, InTold DEF ClockIn
<1>4. ASSUME NEW age, NEW at \in Instants(age), ClockOut(at) PROVE TInv'
  BY <1>4, Instant, OutTold DEF ClockOut
<1>5. CASE clock_in_worker_shift \/ handle_clock_in
  BY <1>3, <1>5 DEF clock_in_worker_shift, handle_clock_in
<1>6. CASE clock_out_worker_shift \/ handle_clock_out
  BY <1>4, <1>6 DEF clock_out_worker_shift, handle_clock_out
<1>7. CASE toggle_worker_shift
  <2>1. PICK at \in Instants(LockWait) :
          IF ClockedIn(Tables) /\ ~Stale(Tables, at)
            THEN Commit(clock_out_shift_for_user(Tables, at)) /\ MarkOut(at)
            ELSE Commit(clock_in_shift_for_user(Tables, at)) /\ MarkIn(at)
    BY <1>7 DEF toggle_worker_shift
  <2>2. CASE ClockedIn(Tables) /\ ~Stale(Tables, at)
    BY <2>1, <2>2, Instant, OutTold
  <2>3. CASE ~(ClockedIn(Tables) /\ ~Stale(Tables, at))
    BY <2>1, <2>3, Instant, InTold
  <2> QED BY <2>2, <2>3
<1>8. CASE declare_worker_state
  BY <1>8, DeclareTold
<1>9. CASE close_declared_worker_state
  BY <1>9, WithdrawTold
<1>10. ASSUME NEW s \in Steps, StartStep(s) \/ PauseStep(s) \/ FinishStep(s) PROVE TInv'
  BY <1>10, StartStepTold, PauseStepTold, FinishStepTold
<1>11. ASSUME NEW last \in BOOLEAN, ProcessStepTransition(last) PROVE TInv'
  BY <1>11, TransitionTold
<1>12. CASE AutoClockOut
  BY <1>12, SweepTold
<1> QED
  BY <1>1, <1>2, <1>5, <1>6, <1>7, <1>8, <1>9, <1>10, <1>11, <1>12 DEF Next

\* What the sources say is what the property reads from them.
LEMMA SaysIs ==
  ASSUME NEW d, d.steps = steps, d.declared = declared, NEW h, NEW t, NEW state, Says(d, h.start, t, state),
         \A x \in steps : x.entered \in Nat /\ (x.shiftEnded => x.state = "paused"),
         \A x \in declared : x.entered \in Nat, h.start \in Nat, t \in Nat
  PROVE  state = SourceState(h, t)
<1>1. PICK work, pause : /\ work = {x \in steps : x.state = "working" /\ x.entered >= h.start}
                         /\ pause = declared \cup {x \in steps : x.state = "paused" /\ ~x.shiftEnded}
  OBVIOUS
<1>2. SourceState(h, t) =
        IF \E x \in work : h.start <= x.entered /\ x.entered <= t /\ t < x.exited THEN "working"
        ELSE IF \E p \in pause : /\ h.start <= p.entered /\ p.entered <= t /\ t < p.exited
                                 /\ \A x \in work : x.entered \notin (p.entered + 1)..t
             THEN "in_pause"
        ELSE "idle"
  BY <1>1, Zenon DEF SourceState
<1>3. (\E x \in work : h.start <= x.entered /\ x.entered <= t /\ t < x.exited) <=> Worked(d, h.start, t)
  BY <1>1 DEF Worked, Taken
<1>4. ASSUME NEW p, p.entered \in Nat
      PROVE  (\A x \in work : x.entered \notin (p.entered + 1)..t) <=> ~Resumed(d, h.start, p.entered, t)
  BY <1>1, <1>4 DEF Resumed
<1>5. (\E p \in pause : /\ h.start <= p.entered /\ p.entered <= t /\ t < p.exited
                        /\ \A x \in work : x.entered \notin (p.entered + 1)..t)
        <=> StepHalts(d, h.start, t) \/ DeclHalts(d, h.start, t)
  <2>1. \A p \in pause : p.entered \in Nat
    BY <1>1
  <2>2. (\E p \in pause : /\ h.start <= p.entered /\ p.entered <= t /\ t < p.exited
                          /\ \A x \in work : x.entered \notin (p.entered + 1)..t)
          <=> \E p \in pause : Taken(p, h.start, t) /\ ~Resumed(d, h.start, p.entered, t)
    BY <1>4, <2>1 DEF Taken
  <2>3. (\E p \in pause : Taken(p, h.start, t) /\ ~Resumed(d, h.start, p.entered, t))
          <=> StepHalts(d, h.start, t) \/ DeclHalts(d, h.start, t)
    BY <1>1 DEF StepHalts, DeclHalts
  <2> QED BY <2>2, <2>3
<1>6. CASE Worked(d, h.start, t)
  BY <1>2, <1>3, <1>6 DEF Says
<1>7. CASE ~Worked(d, h.start, t) /\ (StepHalts(d, h.start, t) \/ DeclHalts(d, h.start, t))
  BY <1>2, <1>3, <1>5, <1>7 DEF Says
<1>8. CASE ~Worked(d, h.start, t) /\ ~(StepHalts(d, h.start, t) \/ DeclHalts(d, h.start, t))
  BY <1>2, <1>3, <1>5, <1>8 DEF Says
<1> QED BY <1>6, <1>7, <1>8

\* The segments of a closed shift cover every instant of it once, none reaches out of it, and
\* each shows what the sources say, whatever the live reconcile had written, whoever closed
\* the shift and however late, and whatever has been recorded since.
THEOREM ClosedShiftsAreTold == Spec => []ClosedTimeline
<1>1. IInv /\ TInv => ClosedTimeline
  <2> SUFFICES ASSUME IInv, TInv, ~disorder, NEW h \in shifts, NEW t \in h.start..(h.end - 1)
               PROVE  /\ Cardinality(Covering(t)) = 1
                      /\ \A r \in Covering(t) : /\ r.state = SourceState(h, t)
                                                /\ h.start <= r.entered /\ r.exited <= h.end
    BY DEF ClosedTimeline
  <2>1. PICK d : /\ d = Tables /\ d \in TableSet /\ d.rows = rows /\ d.steps = steps
                 /\ d.declared = declared /\ d.shifts = shifts
    BY Before, TablesAre
  <2>2. Told(d) /\ Whole(d.steps)
    BY <2>1 DEF TInv, Faithful, Timely
  <2>3. PICK r \in rows : /\ Covers(r, t) /\ h.start <= r.entered /\ r.exited <= h.end
                          /\ Says(d, h.start, t, r.state)
                          /\ \A q \in rows : Covers(q, t) => q = r
    BY <2>1, <2>2 DEF Told, ToldAt
  <2>4. Covering(t) = {r}
    BY <2>3 DEF Covering, Covers
  <2>5. Cardinality(Covering(t)) = 1
    BY <2>4, FS_Singleton
  <2>6. h.start \in Nat /\ h.end \in Nat /\ t \in Nat
    BY <2>1, FieldsAre
  <2>7. /\ \A x \in steps : x.entered \in Nat /\ (x.shiftEnded => x.state = "paused")
        /\ \A x \in declared : x.entered \in Nat
    BY <2>1, <2>2, FieldsAre DEF Whole
  <2>8. r.state = SourceState(h, t)
    <3>1. PICK state : state = r.state
      OBVIOUS
    <3>2. state = SourceState(h, t)
      BY <2>1, <2>3, <2>6, <2>7, <3>1, SaysIs
    <3> QED BY <3>1, <3>2
  <2> QED BY <2>3, <2>4, <2>5, <2>8
<1> QED BY <1>1, StartTold, StepTold, Invariance, PTL DEF Spec

=================================================================================
