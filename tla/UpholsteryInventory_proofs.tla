------------------------ MODULE UpholsteryInventory_proofs ------------------------
(***************************************************************************)
(* Proofs about fabric, for any number of items, fabrics, requirements,      *)
(* orders and meters.                                                        *)
(*                                                                         *)
(* First sums: Meters and the folds of the allocation are recursive          *)
(* functions, so that they exist and what they are worth is shown by least   *)
(* counterexamples.  Then what each rule does to the sums of a fabric, and   *)
(* that each command keeps the tables sound.                                 *)
(***************************************************************************)
EXTENDS UpholsteryInventory, FiniteSetTheorems, SequenceTheorems, TLAPS

-----------------------------------------------------------------------------
(* Sums and folds.                                                            *)

\* Of subsets of a finite set that have a property, one is smallest.
LEMMA LeastSet ==
  ASSUME NEW S, IsFiniteSet(S), NEW T \in SUBSET (SUBSET S), T # {}
  PROVE  \E x \in T : \A y \in T : y \subseteq x => y = x
<1>1. PICK R : /\ IsWellFoundedOn(R, SUBSET S)
               /\ \A x1, y1 \in SUBSET S : <<x1, y1>> \in R <=> x1 \subseteq y1 /\ x1 # y1
  <2>1. FiniteSubsetsOf(S) = SUBSET S
    BY FS_FiniteSubsetsOfFinite
  <2>2. IsWellFoundedOn(StrictSubsetOrdering(S), SUBSET S)
    BY <2>1, FS_StrictSubsetOrderingWellFounded
  <2>3. \A x1, y1 \in SUBSET S : <<x1, y1>> \in StrictSubsetOrdering(S)
                                  <=> x1 \subseteq y1 /\ x1 # y1
    BY DEF StrictSubsetOrdering
  <2> QED BY <2>2, <2>3
<1>2. PICK x \in T : \A y \in T : ~ (<<y, x>> \in R)
  <2>1. T \subseteq SUBSET S
    OBVIOUS
  <2>2. IsWellFoundedOn(R, SUBSET S)
    BY <1>1
  <2> QED BY <2>1, <2>2, WFMin, Zenon
<1> QED BY <1>1, <1>2

\* A nonempty set of numbers has a least one.
LEMMA LeastNat ==
  ASSUME NEW T \in SUBSET Nat, T # {}
  PROVE  \E x \in T : \A y \in T : x <= y
<1>1. PICK R : /\ IsWellFoundedOn(R, Nat)
               /\ \A x1, y1 \in Nat : <<x1, y1>> \in R <=> x1 < y1
  <2>1. IsWellFoundedOn({ss \in Nat \X Nat : ss[1] < ss[2]}, Nat)
    BY NatLessThanWellFounded DEF OpToRel
  <2> QED BY <2>1
<1>2. PICK x \in T : \A y \in T : ~ (<<y, x>> \in R)
  <2>1. T \subseteq Nat /\ IsWellFoundedOn(R, Nat)
    BY <1>1
  <2> QED BY <2>1, WFMin, Zenon
<1>3. \A y \in T : y \in Nat /\ x \in Nat /\ ~(y < x)
  BY <1>1, <1>2
<1> QED BY <1>3

\* A recursion that takes one element off a finite set has a solution.
Recurs(S, A, b, choice, h, g) ==
  /\ g \in [SUBSET S -> A]
  /\ \A s \in SUBSET S : g[s] = IF s = {} THEN b ELSE h[<<g[s \ {choice[s]}], choice[s]>>]

LEMMA Recursion ==
  ASSUME NEW S, IsFiniteSet(S), NEW A, NEW b \in A, NEW choice \in [(SUBSET S) \ {{}} -> S],
         \A s \in (SUBSET S) \ {{}} : choice[s] \in s,
         NEW h \in [A \X S -> A]
  PROVE  \E g : Recurs(S, A, b, choice, h, g)
<1> DEFINE Level(n) == {s \in SUBSET S : Cardinality(s) <= n}
           Solves(n, g) == /\ g \in [Level(n) -> A]
                           /\ \A s \in Level(n) :
                                g[s] = IF s = {} THEN b
                                       ELSE h[<<g[s \ {choice[s]}], choice[s]>>]
           Unsolved == {n \in Nat : ~ \E g : Solves(n, g)}
<1>1. \A s \in SUBSET S : /\ IsFiniteSet(s) /\ Cardinality(s) \in Nat
                          /\ Cardinality(s) <= Cardinality(S)
                          /\ Cardinality(s) = 0 <=> s = {}
  BY FS_Subset, FS_CardinalityType, FS_EmptySet
<1>2. \A s \in (SUBSET S) \ {{}} : /\ s \ {choice[s]} \in SUBSET S
                                   /\ Cardinality(s \ {choice[s]}) = Cardinality(s) - 1
  BY <1>1, FS_RemoveElement
<1>3. 0 \notin Unsolved
  <2>1. Level(0) = {{}}
    BY <1>1
  <2> DEFINE g == [s \in Level(0) |-> b]
  <2>2. Solves(0, g)
    BY <2>1
  <2> QED BY <2>2
<1>4. ASSUME NEW n \in Nat, n + 1 \in Unsolved, n \notin Unsolved
      PROVE  FALSE
  <2> DEFINE E == Level(n)
             F == Level(n + 1)
  <2>1. PICK g : Solves(n, g)
    BY <1>4
  <2>2. E \subseteq F /\ {} \in E /\ F \subseteq SUBSET S
    BY <1>1
  <2>3. \A s \in F \ {{}} : s \ {choice[s]} \in E
    BY <1>1, <1>2
  <2>4. \A s \in E : s # {} => s \ {choice[s]} \in E
    BY <1>1, <1>2
  <2>5. /\ g \in [E -> A]
        /\ \A s \in E : g[s] = IF s = {} THEN b ELSE h[<<g[s \ {choice[s]}], choice[s]>>]
    BY <2>1
  <2>6. ~ \E k : Solves(n + 1, k)
    BY <1>4
  <2>7. \A s \in F \ {{}} : choice[s] \in S
    BY <2>2
  <2> HIDE DEF E
  <2>8. PICK k : k = [s \in F |-> IF s \in E THEN g[s] ELSE h[<<g[s \ {choice[s]}], choice[s]>>]]
    OBVIOUS
  <2> HIDE DEF F
  <2>9. k \in [F -> A]
    <3> SUFFICES ASSUME NEW s \in F, s \notin E PROVE h[<<g[s \ {choice[s]}], choice[s]>>] \in A
      BY <2>5, <2>8
    <3>1. g[s \ {choice[s]}] \in A /\ choice[s] \in S
      BY <2>2, <2>3, <2>5, <2>7
    <3> QED BY <3>1
  <2>10. \A s \in E : k[s] = g[s]
    BY <2>2, <2>8
  <2>11. ASSUME NEW s \in F
         PROVE  k[s] = IF s = {} THEN b ELSE h[<<k[s \ {choice[s]}], choice[s]>>]
    <3>1. CASE s = {}
      BY <3>1, <2>2, <2>5, <2>10
    <3>2. CASE s # {}
      <4>1. k[s] = h[<<g[s \ {choice[s]}], choice[s]>>]
        BY <3>2, <2>5, <2>8
      <4>2. k[s \ {choice[s]}] = g[s \ {choice[s]}]
        BY <3>2, <2>3, <2>10
      <4>3. k[s] = h[<<k[s \ {choice[s]}], choice[s]>>]
        BY <4>1, <4>2
      <4> HIDE <2>8
      <4> QED BY <4>3, <3>2
    <3> QED BY <3>1, <3>2
  <2>12. Solves(n + 1, k)
    BY <2>9, <2>11 DEF F
  <2> QED BY <2>6, <2>12
<1>5. Unsolved = {}
  <2> SUFFICES ASSUME Unsolved # {} PROVE FALSE
    OBVIOUS
  <2>1. Unsolved \in SUBSET Nat
    OBVIOUS
  <2>2. PICK m \in Unsolved : \A y \in Unsolved : m <= y
    <3> HIDE DEF Unsolved
    <3> QED BY <2>1, LeastNat
  <2>3. m \in Nat /\ m # 0
    BY <1>3
  <2>4. m - 1 \in Nat /\ (m - 1) + 1 = m
    BY <2>3
  <2>5. m - 1 \notin Unsolved
    <3> HIDE DEF Unsolved
    <3> QED BY <2>2, <2>3, <2>4
  <2> HIDE DEF Unsolved
  <2> QED BY <1>4, <2>2, <2>4, <2>5
<1>6. PICK g : Solves(Cardinality(S), g)
  <2>1. Cardinality(S) \in Nat
    BY <1>1
  <2> QED BY <1>5, <2>1
<1>7. Level(Cardinality(S)) = SUBSET S
  BY <1>1
<1> HIDE DEF Level
<1> QED BY <1>6, <1>7 DEF Recurs

\* Two functions that agree on a set as soon as they agree on it without an element.
Agree(R, choice, k, g) ==
  /\ k[{}] = g[{}]
  /\ \A s \in (SUBSET R) \ {{}} : /\ choice[s] \in s
                                  /\ k[s \ {choice[s]}] = g[s \ {choice[s]}] => k[s] = g[s]

LEMMA Agreement ==
  ASSUME NEW R, IsFiniteSet(R), NEW choice, NEW g, NEW k, Agree(R, choice, k, g)
  PROVE  \A s \in SUBSET R : k[s] = g[s]
<1> DEFINE T == {s \in SUBSET R : k[s] # g[s]}
<1> SUFFICES ASSUME T # {} PROVE FALSE
  OBVIOUS
<1>1. T \in SUBSET (SUBSET R)
  OBVIOUS
<1>2. PICK x \in T : \A y \in T : y \subseteq x => y = x
  <2> HIDE DEF T
  <2> QED BY <1>1, LeastSet
<1>3. x # {}
  BY <1>1 DEF Agree
<1>4. x \ {choice[x]} \in SUBSET R /\ choice[x] \in x
  BY <1>1, <1>3 DEF Agree
<1>5. k[x \ {choice[x]}] = g[x \ {choice[x]}]
  BY <1>2, <1>4
<1> QED BY <1>1, <1>3, <1>5 DEF Agree

\* The meters of a set of requirements.
Metered(d) == \A k \in Slots : d.req[k].amount \in Nat

LEMMA MetersExist ==
  ASSUME NEW d, Metered(d)
  PROVE  \E m : /\ m \in [SUBSET Slots -> Nat] /\ m[{}] = 0
                /\ \A s \in SUBSET Slots : \A x \in s : m[s] = d.req[x].amount + m[s \ {x}]
                /\ \A s \in SUBSET Slots : Meters(d, s) = m[s]
<1>0. PICK a : a = [k \in Slots |-> d.req[k].amount]
  OBVIOUS
<1>a. a \in [Slots -> Nat] /\ \A k \in Slots : a[k] = d.req[k].amount
  BY <1>0 DEF Metered
<1>1. PICK choice : choice = [s \in (SUBSET Slots) \ {{}} |-> CHOOSE x \in s : TRUE]
  OBVIOUS
<1>2. /\ choice \in [(SUBSET Slots) \ {{}} -> Slots]
      /\ \A s \in (SUBSET Slots) \ {{}} : choice[s] = (CHOOSE x \in s : TRUE) /\ choice[s] \in s
  BY <1>1
<1>3. PICK h : h = [p \in Nat \X Slots |-> a[p[2]] + p[1]]
  OBVIOUS
<1>4. h \in [Nat \X Slots -> Nat] /\ \A n \in Nat, k \in Slots : h[<<n, k>>] = a[k] + n
  BY <1>3, <1>a
<1>5. PICK m : Recurs(Slots, Nat, 0, choice, h, m)
  <2>1. IsFiniteSet(Slots) /\ 0 \in Nat
    BY UpholsteryAssumption
  <2>2. choice \in [(SUBSET Slots) \ {{}} -> Slots] /\ h \in [Nat \X Slots -> Nat]
    BY <1>2, <1>4
  <2>3. \A s \in (SUBSET Slots) \ {{}} : choice[s] \in s
    BY <1>2
  <2> QED BY <2>1, <2>2, <2>3, Recursion, Zenon
<1>6. /\ m \in [SUBSET Slots -> Nat] /\ m[{}] = 0
      /\ \A s \in (SUBSET Slots) \ {{}} : m[s] = a[choice[s]] + m[s \ {choice[s]}]
  BY <1>2, <1>4, <1>5 DEF Recurs
<1>7. ASSUME NEW R \in SUBSET Slots
      PROVE  Meters(d, R) = m[R]
  <2> DEFINE I(k) == k = [s \in SUBSET R |-> IF s = {} THEN 0
                            ELSE d.req[CHOOSE x \in s : TRUE].amount
                                   + k[s \ {CHOOSE x \in s : TRUE}]]
  <2>1. I([s \in SUBSET R |-> m[s]])
    <3> SUFFICES ASSUME NEW s \in SUBSET R, s # {}
                 PROVE  m[s] = d.req[CHOOSE x \in s : TRUE].amount
                                 + [t \in SUBSET R |-> m[t]][s \ {CHOOSE x \in s : TRUE}]
      BY <1>6
    <3>1. choice[s] = (CHOOSE x \in s : TRUE) /\ choice[s] \in s /\ choice[s] \in Slots
      BY <1>2
    <3>2. m[s] = a[choice[s]] + m[s \ {choice[s]}] /\ s \ {choice[s]} \in SUBSET R
      BY <1>6
    <3> QED BY <1>a, <3>1, <3>2
  <2>2. PICK k : k = CHOOSE i : I(i)
    OBVIOUS
  <2>3. I(k)
    <3>1. \E i : I(i)
      BY <2>1
    <3> HIDE DEF I
    <3>2. I(CHOOSE i : I(i))
      BY <3>1, Zenon
    <3> QED BY <2>2, <3>2
  <2>4. Meters(d, R) = k[R]
    BY <2>2 DEF Meters, MapThenSumSet, MapThenFoldSet
  <2> HIDE DEF I
  <2>5. k[{}] = 0
    BY <2>3 DEF I
  <2>6. ASSUME NEW s \in (SUBSET R) \ {{}}, k[s \ {choice[s]}] = m[s \ {choice[s]}]
        PROVE  k[s] = m[s]
    <3>1. s \in (SUBSET Slots) \ {{}} /\ s \in SUBSET R
      OBVIOUS
    <3>2. choice[s] = (CHOOSE x \in s : TRUE) /\ a[choice[s]] = d.req[choice[s]].amount
      BY <3>1, <1>2, <1>a
    <3>3. k[s] = a[choice[s]] + k[s \ {choice[s]}]
      BY <3>1, <3>2, <2>3 DEF I
    <3> QED BY <3>1, <3>3, <1>6, <2>6
  <2>7. IsFiniteSet(R) /\ R \in SUBSET R
    BY FS_Subset, UpholsteryAssumption
  <2>8. \A s \in (SUBSET R) \ {{}} : choice[s] \in s
    BY <1>2
  <2>9. \A s \in SUBSET R : k[s] = m[s]
    <3>1. k[{}] = m[{}]
      BY <2>5, <1>6
    <3>2. \A s \in (SUBSET R) \ {{}} : /\ choice[s] \in s
                                       /\ k[s \ {choice[s]}] = m[s \ {choice[s]}] => k[s] = m[s]
      BY <2>6, <2>8
    <3>3. Agree(R, choice, k, m)
      BY <3>1, <3>2 DEF Agree
    <3> QED BY <2>7, <3>3, Agreement
  <2> QED BY <2>4, <2>7, <2>9
\* The order in which the elements are taken off does not matter.
<1>8. \A s \in SUBSET Slots : \A x \in s : m[s] = a[x] + m[s \ {x}]
  <2> DEFINE T == {s \in SUBSET Slots : \E x \in s : m[s] # a[x] + m[s \ {x}]}
  <2> SUFFICES ASSUME T # {} PROVE FALSE
    BY Zenon
  <2>1. T \in SUBSET (SUBSET Slots)
    OBVIOUS
  <2>2. PICK s \in T : \A y \in T : y \subseteq s => y = s
    <3>1. IsFiniteSet(Slots)
      BY UpholsteryAssumption
    <3> HIDE DEF T
    <3> QED BY <2>1, <3>1, LeastSet
  <2>3. PICK x \in s : m[s] # a[x] + m[s \ {x}]
    BY <2>1
  <2>4. PICK c \in s : c = choice[s] /\ m[s] = a[c] + m[s \ {c}]
    BY <1>2, <1>6
  <2>5. c # x /\ s \in SUBSET Slots
    BY <2>3, <2>4
  <2>6. s \ {c} \notin T /\ s \ {x} \notin T
    BY <2>2, <2>5
  <2>7. m[s \ {c}] = a[x] + m[(s \ {c}) \ {x}] /\ m[s \ {x}] = a[c] + m[(s \ {x}) \ {c}]
    BY <2>5, <2>6
  <2>8. (s \ {c}) \ {x} = (s \ {x}) \ {c} /\ m[(s \ {x}) \ {c}] \in Nat
    BY <1>6, <2>5
  <2>9. a[c] \in Nat /\ a[x] \in Nat
    BY <2>5, <1>a
  <2> HIDE DEF T
  <2>10. a[x] + (a[c] + m[(s \ {x}) \ {c}]) = a[c] + (a[x] + m[(s \ {x}) \ {c}])
    BY <2>8, <2>9
  <2>11. m[s] = a[c] + (a[x] + m[(s \ {x}) \ {c}])
    BY <2>4, <2>7, <2>8
  <2>12. m[s] # a[x] + (a[c] + m[(s \ {x}) \ {c}])
    BY <2>3, <2>7
  <2> QED BY <2>10, <2>11, <2>12
<1>9. \A s \in SUBSET Slots : \A x \in s : a[x] = d.req[x].amount
  BY <1>a
<1>10. ASSUME NEW s \in SUBSET Slots, NEW x \in s
       PROVE  m[s] = d.req[x].amount + m[s \ {x}]
  <2>1. m[s] = a[x] + m[s \ {x}]
    BY <1>8
  <2>2. a[x] = d.req[x].amount
    BY <1>9
  <2> QED BY <2>1, <2>2
<1> QED BY <1>6, <1>7, <1>10

LEMMA MetersAre ==
  ASSUME NEW d, Metered(d)
  PROVE  /\ Meters(d, {}) = 0
         /\ \A R \in SUBSET Slots :
              /\ Meters(d, R) \in Nat
              /\ \A k \in R : Meters(d, R) = d.req[k].amount + Meters(d, R \ {k})
         /\ \A k \in Slots : Meters(d, {k}) = d.req[k].amount
<1>1. PICK m : /\ m \in [SUBSET Slots -> Nat] /\ m[{}] = 0
               /\ \A s \in SUBSET Slots : \A x \in s : m[s] = d.req[x].amount + m[s \ {x}]
               /\ \A s \in SUBSET Slots : Meters(d, s) = m[s]
  BY MetersExist
<1>2. \A R \in SUBSET Slots : Meters(d, R) \in Nat
  BY <1>1
<1>3. ASSUME NEW R \in SUBSET Slots, NEW k \in R
      PROVE  Meters(d, R) = d.req[k].amount + Meters(d, R \ {k})
  <2>1. R \ {k} \in SUBSET Slots
    OBVIOUS
  <2> QED BY <1>1, <2>1
<1>4. Meters(d, {}) = 0
  BY <1>1
<1>5. ASSUME NEW k \in Slots PROVE Meters(d, {k}) = d.req[k].amount
  <2>1. {k} \in SUBSET Slots /\ {k} \ {k} = {} /\ k \in {k}
    OBVIOUS
  <2>2. Meters(d, {k}) = d.req[k].amount + Meters(d, {k} \ {k})
    BY <1>3, <2>1
  <2> QED BY <1>4, <2>1, <2>2 DEF Metered
<1> QED BY <1>2, <1>3, <1>4, <1>5

LEMMA MetersApart ==
  ASSUME NEW d, Metered(d), NEW A \in SUBSET Slots, NEW B \in SUBSET Slots, A \cap B = {}
  PROVE  Meters(d, A \cup B) = Meters(d, A) + Meters(d, B)
<1> DEFINE T == {X \in SUBSET B : Meters(d, A \cup X) # Meters(d, A) + Meters(d, X)}
<1> SUFFICES ASSUME T # {} PROVE FALSE
  <2>1. B \in SUBSET B
    OBVIOUS
  <2> QED BY <2>1
<1>1. T \in SUBSET (SUBSET Slots) /\ IsFiniteSet(Slots)
  BY UpholsteryAssumption
<1>2. PICK X \in T : \A Y \in T : Y \subseteq X => Y = X
  <2> HIDE DEF T
  <2> QED BY <1>1, LeastSet
<1>3. X # {}
  <2> SUFFICES ASSUME X = {} PROVE FALSE
    OBVIOUS
  <2>1. A \cup X = A /\ Meters(d, X) = 0 /\ Meters(d, A) \in Nat
    BY MetersAre
  <2> QED BY <2>1
<1>4. PICK k \in X : k \notin A /\ k \in Slots
  BY <1>3
<1>5. X \ {k} \in SUBSET B /\ X \ {k} # X /\ X \ {k} \subseteq X
  BY <1>4
<1>6. Meters(d, A \cup (X \ {k})) = Meters(d, A) + Meters(d, X \ {k})
  <2>1. X \ {k} \notin T
    BY <1>2, <1>5
  <2> QED BY <1>5, <2>1
<1>7. (A \cup X) \ {k} = A \cup (X \ {k}) /\ k \in A \cup X /\ A \cup X \in SUBSET Slots
      /\ X \in SUBSET Slots /\ X \ {k} \in SUBSET Slots
  BY <1>4
<1>8. /\ Meters(d, A \cup X) = d.req[k].amount + Meters(d, A \cup (X \ {k}))
      /\ Meters(d, X) = d.req[k].amount + Meters(d, X \ {k})
      /\ Meters(d, A) \in Nat /\ Meters(d, X \ {k}) \in Nat
  <2>1. \A R \in SUBSET Slots :
          /\ Meters(d, R) \in Nat
          /\ \A i \in R : Meters(d, R) = d.req[i].amount + Meters(d, R \ {i})
    BY MetersAre
  <2> HIDE DEF T
  <2>2. Meters(d, A \cup X) = d.req[k].amount + Meters(d, (A \cup X) \ {k})
    BY <2>1, <1>7
  <2>3. Meters(d, X) = d.req[k].amount + Meters(d, X \ {k})
    BY <2>1, <1>7
  <2>4. Meters(d, A) \in Nat /\ Meters(d, X \ {k}) \in Nat
    BY <2>1, <1>7
  <2> QED BY <2>2, <2>3, <2>4, <1>7
<1>9. d.req[k].amount \in Nat
  BY <1>4 DEF Metered
<1>10. Meters(d, A \cup X) # Meters(d, A) + Meters(d, X)
  OBVIOUS
<1> HIDE DEF T
<1> QED BY <1>6, <1>8, <1>9, <1>10

LEMMA MetersWithin ==
  ASSUME NEW d, Metered(d), NEW B \in SUBSET Slots, NEW A \in SUBSET B
  PROVE  /\ Meters(d, A) <= Meters(d, B) /\ Meters(d, B \ A) = Meters(d, B) - Meters(d, A)
         /\ Meters(d, A) \in Nat /\ Meters(d, B) \in Nat /\ Meters(d, B \ A) \in Nat
<1>1. A \cup (B \ A) = B /\ A \cap (B \ A) = {} /\ A \in SUBSET Slots /\ B \ A \in SUBSET Slots
  OBVIOUS
<1>2. Meters(d, B) = Meters(d, A) + Meters(d, B \ A)
  BY <1>1, MetersApart
<1> QED BY <1>1, <1>2, MetersAre

LEMMA MetersSame ==
  ASSUME NEW d, Metered(d), NEW e, Metered(e), NEW R \in SUBSET Slots,
         \A k \in R : e.req[k].amount = d.req[k].amount
  PROVE  Meters(e, R) = Meters(d, R)
<1> DEFINE T == {X \in SUBSET R : Meters(e, X) # Meters(d, X)}
<1> SUFFICES ASSUME T # {} PROVE FALSE
  <2>1. R \in SUBSET R
    OBVIOUS
  <2> QED BY <2>1
<1>1. T \in SUBSET (SUBSET Slots) /\ IsFiniteSet(Slots)
  BY UpholsteryAssumption
<1>2. PICK X \in T : \A Y \in T : Y \subseteq X => Y = X
  <2> HIDE DEF T
  <2> QED BY <1>1, LeastSet
<1>3. X # {}
  BY MetersAre
<1>4. PICK k \in X : k \in Slots
  BY <1>3
<1>5. X \ {k} \in SUBSET R /\ X \ {k} # X /\ X \ {k} \subseteq X /\ X \in SUBSET Slots
  BY <1>4
<1>6. Meters(e, X \ {k}) = Meters(d, X \ {k})
  BY <1>2, <1>5
<1>7. /\ Meters(d, X) = d.req[k].amount + Meters(d, X \ {k})
      /\ Meters(e, X) = e.req[k].amount + Meters(e, X \ {k})
      /\ e.req[k].amount = d.req[k].amount
  BY <1>4, <1>5, MetersAre
<1> QED BY <1>6, <1>7

\* The accumulators of a fold over 1..n, the latest index taken off first.
Latest(n) == [s \in (SUBSET (1..n)) \ {{}} |-> CHOOSE x \in s : \A y \in s : x >= y]

LEMMA LatestIs ==
  ASSUME NEW n \in Nat
  PROVE  /\ Latest(n) \in [(SUBSET (1..n)) \ {{}} -> 1..n]
         /\ \A s \in (SUBSET (1..n)) \ {{}} :
              /\ Latest(n)[s] = Max(s)
              /\ Latest(n)[s] \in s /\ \A y \in s : Latest(n)[s] >= y
<1>1. ASSUME NEW s \in (SUBSET (1..n)) \ {{}}
      PROVE  \E x \in s : \A y \in s : x >= y
  <2>1. PICK T : T = {i \in 0..n : n - i \in s}
    OBVIOUS
  <2>2. T \in SUBSET Nat /\ T # {}
    <3>1. PICK x : x \in s
      OBVIOUS
    <3>2. n - x \in 0..n /\ n - (n - x) = x
      BY <3>1
    <3>3. n - x \in T
      BY <2>1, <3>1, <3>2
    <3> QED BY <2>1, <3>3
  <2>3. PICK l \in T : \A y \in T : l <= y
    BY <2>2, LeastNat
  <2>4. n - l \in s
    BY <2>1
  <2>5. ASSUME NEW y \in s PROVE n - l >= y
    <3>1. n - y \in 0..n /\ n - (n - y) = y
      OBVIOUS
    <3>2. n - y \in T
      BY <2>1, <3>1
    <3>3. l <= n - y /\ l \in Nat
      BY <2>2, <2>3, <3>2
    <3> QED BY <3>3
  <2> QED BY <2>4, <2>5
<1>2. ASSUME NEW s \in (SUBSET (1..n)) \ {{}}
      PROVE  /\ Latest(n)[s] = Max(s)
             /\ Latest(n)[s] \in s /\ \A y \in s : Latest(n)[s] >= y
  <2>1. Latest(n)[s] = (CHOOSE x \in s : \A y \in s : x >= y)
    BY DEF Latest
  <2>2. /\ (CHOOSE x \in s : \A y \in s : x >= y) \in s
        /\ \A y \in s : (CHOOSE x \in s : \A z \in s : x >= z) >= y
    BY <1>1
  <2> QED BY <2>1, <2>2 DEF Max
<1> QED BY <1>2 DEF Latest

\* What a fold does step by step.
Runs(n, A, b, h, m) ==
  /\ m \in [SUBSET (1..n) -> A]
  /\ m[{}] = b /\ m[1..0] = b
  /\ \A s \in (SUBSET (1..n)) \ {{}} : m[s] = h[<<m[s \ {Max(s)}], Max(s)>>]
  /\ \A i \in 1..n : m[1..i] = h[<<m[1..(i - 1)], i>>]

LEMMA Running ==
  ASSUME NEW n \in Nat, NEW A, NEW b \in A, NEW h \in [A \X (1..n) -> A]
  PROVE  \E m : Runs(n, A, b, h, m)
<1>1. IsFiniteSet(1..n)
  BY FS_Interval
<1>2. PICK choice : choice = Latest(n)
  OBVIOUS
<1>3. /\ choice \in [(SUBSET (1..n)) \ {{}} -> 1..n]
      /\ \A s \in (SUBSET (1..n)) \ {{}} : choice[s] \in s
  BY <1>2, LatestIs
<1>4. PICK m : Recurs(1..n, A, b, choice, h, m)
  BY <1>1, <1>3, Recursion, Zenon
<1>5. \A s \in (SUBSET (1..n)) \ {{}} : m[s] = h[<<m[s \ {Max(s)}], Max(s)>>]
  BY <1>2, <1>4, LatestIs DEF Recurs
<1>6. m \in [SUBSET (1..n) -> A] /\ m[{}] = b
  BY <1>4 DEF Recurs
<1>7. 1..0 = {}
  OBVIOUS
<1>8. ASSUME NEW i \in 1..n PROVE m[1..i] = h[<<m[1..(i - 1)], i>>]
  <2>1. 1..i \in (SUBSET (1..n)) \ {{}} /\ i \in 1..i
    OBVIOUS
  <2>2. Max(1..i) \in 1..i /\ Max(1..i) >= i
    <3> DEFINE s == 1..i
    <3>1. s \in (SUBSET (1..n)) \ {{}} /\ i \in s
      BY <2>1
    <3> HIDE DEF s
    <3>2. Latest(n)[s] = Max(s) /\ Latest(n)[s] \in s /\ \A y \in s : Latest(n)[s] >= y
      BY <3>1, LatestIs
    <3>3. Max(s) \in s /\ Max(s) >= i
      BY <3>1, <3>2
    <3> QED BY <3>3 DEF s
  <2>3. Max(1..i) = i
    BY <2>2
  <2>4. (1..i) \ {i} = 1..(i - 1)
    OBVIOUS
  <2> QED BY <1>5, <2>1, <2>3, <2>4
<1> QED BY <1>5, <1>6, <1>7, <1>8 DEF Runs

LEMMA MaxIs ==
  ASSUME NEW n \in Nat, NEW s \in (SUBSET (1..n)) \ {{}}
  PROVE  Max(s) \in s /\ Latest(n)[s] = Max(s)
<1>1. \A t \in (SUBSET (1..n)) \ {{}} :
        /\ Latest(n)[t] = Max(t)
        /\ Latest(n)[t] \in t /\ \A y \in t : Latest(n)[t] >= y
  BY LatestIs
<1>2. Latest(n)[s] = Max(s) /\ Latest(n)[s] \in s
  BY <1>1
<1> QED BY <1>2

\* Another solution of the recursion ends in the same accumulator.
Follows(n, A, b, h, k) ==
  /\ k[{}] = b
  /\ \A s \in (SUBSET (1..n)) \ {{}} :
       k[s \ {Max(s)}] \in A => k[s] = h[<<k[s \ {Max(s)}], Max(s)>>]

LEMMA Unfolds ==
  ASSUME NEW n \in Nat, NEW A, NEW b, NEW h, NEW m, Runs(n, A, b, h, m), NEW k,
         Follows(n, A, b, h, k)
  PROVE  k[1..n] = m[1..n]
<1>1. PICK D : D = 1..n
  OBVIOUS
<1>2. PICK choice : choice = Latest(n)
  OBVIOUS
<1>3. \A s \in (SUBSET D) \ {{}} : Max(s) \in s /\ choice[s] = Max(s)
  BY <1>1, <1>2, MaxIs
<1>4. /\ m[{}] = b
      /\ \A s \in (SUBSET D) \ {{}} : /\ m[s] = h[<<m[s \ {Max(s)}], Max(s)>>]
                                      /\ m[s \ {Max(s)}] \in A
  BY <1>1 DEF Runs
<1>5. \A s \in (SUBSET D) \ {{}} :
        k[s \ {Max(s)}] \in A => k[s] = h[<<k[s \ {Max(s)}], Max(s)>>]
  BY <1>1 DEF Follows
<1>6. ASSUME NEW s \in (SUBSET D) \ {{}}, k[s \ {choice[s]}] = m[s \ {choice[s]}]
      PROVE  k[s] = m[s]
  <2>1. choice[s] = Max(s)
    BY <1>3
  <2>2. k[s \ {Max(s)}] = m[s \ {Max(s)}]
    BY <1>6, <2>1
  <2>3. m[s \ {Max(s)}] \in A /\ m[s] = h[<<m[s \ {Max(s)}], Max(s)>>]
    BY <1>4
  <2>4. k[s] = h[<<k[s \ {Max(s)}], Max(s)>>]
    BY <1>5, <2>2, <2>3
  <2> QED BY <2>2, <2>3, <2>4
<1>7. Agree(D, choice, k, m)
  BY <1>3, <1>4, <1>6 DEF Agree, Follows
<1>8. IsFiniteSet(D) /\ D \in SUBSET D
  BY <1>1, FS_Interval
<1>9. \A s \in SUBSET D : k[s] = m[s]
  BY <1>7, <1>8, Agreement
<1> QED BY <1>1, <1>8, <1>9

-----------------------------------------------------------------------------
(* The tables and their totals.                                               *)

Shelves    == [stored: Nat, need: Nat, use: Nat, ordered: Nat, low: Nat,
               cond: {"NONE", "AVAILABLE", "LOW_STOCK", "OUT_OF_STOCK"}, stale: BOOLEAN]
Coverings  == [live: BOOLEAN, source: Sources, fabric: Fabrics \cup {None}, amount: Nat,
               active: Slots \cup {None}]
Needs      == [item: Items \cup {None}, cur: BOOLEAN, fabric: Fabrics \cup {None},
               amount: Nat, state: RequirementStates, byTask: BOOLEAN]
Placements == [fabric: Fabrics \cup {None}, left: Nat]
Db == [inv: [Fabrics -> Shelves], iup: [Items -> Coverings], req: [Slots -> Needs],
       order: [Orders -> Placements], gone: SUBSET Items]

Waiting == {"ORDERED", "NEEDS_ORDERING"}
Total(d, f, S) == Meters(d, OfFabric(d, f, S))

\* An active requirement is its item's own; what waits for fabric names it, what has no
\* quantity does not; an open order names its fabric.
Own(d)    == \A i \in Items : d.iup[i].active # None => d.req[d.iup[i].active].item = i
Placed(d) == \A k \in Slots : /\ d.req[k].state \in Waiting => d.req[k].fabric \in Fabrics
                              /\ d.req[k].state = "MISSING_QUANTITY" => d.req[k].fabric = None
Sent(d)   == \A o \in Orders : d.order[o].left # 0 => d.order[o].fabric \in Fabrics

\* The amounts of one fabric are those of its requirements, and what is promised is there;
\* a fabric without a row has neither.
Balanced(d, f) ==
  LET v == d.inv[f] IN
  /\ v.need = Total(d, f, DEMAND_REQUIREMENT_STATES)
  /\ v.use = Total(d, f, {"IN_USE"})
  /\ v.stale \/ v.cond = evaluate_inventory_condition(v)
  /\ Total(d, f, {"AVAILABLE"}) <= v.stored
  /\ v.cond = "NONE" => v.need = 0 /\ v.use = 0

Sound(d) == /\ d \in Db /\ Own(d) /\ Placed(d) /\ Sent(d)
            /\ \A f \in Fabrics : Balanced(d, f)

LEMMA DbMetered == ASSUME NEW d \in Db PROVE Metered(d)
BY DEF Db, Needs, Metered

LEMMA OfFabricIs ==
  ASSUME NEW d, NEW f, NEW S
  PROVE  /\ OfFabric(d, f, S) \in SUBSET Slots
         /\ \A k \in Slots : k \in OfFabric(d, f, S) <=> d.req[k].fabric = f /\ d.req[k].state \in S
BY DEF OfFabric

\* What changes within X changes the total by what X holds after and held before.
Outside(d, e, X, f, S) ==
  \A k \in Slots \ X :
    /\ k \in OfFabric(e, f, S) <=> k \in OfFabric(d, f, S)
    /\ k \in OfFabric(d, f, S) => e.req[k].amount = d.req[k].amount

Shifts(d, e, X, f, S) ==
  /\ Total(e, f, S) = Total(d, f, S) - Meters(d, OfFabric(d, f, S) \cap X)
                        + Meters(e, OfFabric(e, f, S) \cap X)
  /\ Total(e, f, S) \in Nat /\ Total(d, f, S) \in Nat
  /\ Meters(d, OfFabric(d, f, S) \cap X) \in Nat
  /\ Meters(e, OfFabric(e, f, S) \cap X) \in Nat
  /\ Meters(d, OfFabric(d, f, S) \cap X) <= Total(d, f, S)

LEMMA Moved ==
  ASSUME NEW d \in Db, NEW e \in Db, NEW X \in SUBSET Slots, NEW f, NEW S, Outside(d, e, X, f, S)
  PROVE  Shifts(d, e, X, f, S)
<1> DEFINE A == OfFabric(d, f, S)
           B == OfFabric(e, f, S)
<1>1. A \in SUBSET Slots /\ B \in SUBSET Slots /\ Metered(d) /\ Metered(e)
  BY OfFabricIs, DbMetered
<1>2. A \cap X \in SUBSET A /\ B \cap X \in SUBSET B
  OBVIOUS
<1>3. A \ (A \cap X) = B \ (B \cap X) /\ A \ (A \cap X) \in SUBSET Slots
  BY <1>1 DEF Outside
<1>4. \A k \in A \ (A \cap X) : e.req[k].amount = d.req[k].amount
  BY <1>1 DEF Outside
<1>5. Total(d, f, S) = Meters(d, A) /\ Total(e, f, S) = Meters(e, B)
  BY DEF Total
<1> HIDE DEF A, B
<1>6. Meters(e, A \ (A \cap X)) = Meters(d, A \ (A \cap X))
  BY <1>1, <1>3, <1>4, MetersSame
<1>7. /\ Meters(d, A \ (A \cap X)) = Meters(d, A) - Meters(d, A \cap X)
      /\ Meters(d, A) \in Nat /\ Meters(d, A \cap X) \in Nat /\ Meters(d, A \cap X) <= Meters(d, A)
  BY <1>1, <1>2, MetersWithin
<1>8. /\ Meters(e, B \ (B \cap X)) = Meters(e, B) - Meters(e, B \cap X)
      /\ Meters(e, B) \in Nat /\ Meters(e, B \cap X) \in Nat
  BY <1>1, <1>2, MetersWithin
<1>9. Meters(e, B) - Meters(e, B \cap X) = Meters(d, A) - Meters(d, A \cap X)
  BY <1>3, <1>6, <1>7, <1>8
<1>10. Meters(e, B) = Meters(d, A) - Meters(d, A \cap X) + Meters(e, B \cap X)
  BY <1>7, <1>8, <1>9
<1> QED BY <1>5, <1>7, <1>8, <1>10 DEF A, B, Shifts

\* Nothing of the kind changes.
LEMMA Unmoved ==
  ASSUME NEW d \in Db, NEW e \in Db, NEW f, NEW S,
         \A k \in Slots :
           /\ k \in OfFabric(e, f, S) <=> k \in OfFabric(d, f, S)
           /\ k \in OfFabric(d, f, S) => e.req[k].amount = d.req[k].amount
  PROVE  OfFabric(e, f, S) = OfFabric(d, f, S) /\ Total(e, f, S) = Total(d, f, S)
<1>1. OfFabric(e, f, S) = OfFabric(d, f, S) /\ OfFabric(d, f, S) \in SUBSET Slots
  BY OfFabricIs
<1>2. \A k \in OfFabric(d, f, S) : e.req[k].amount = d.req[k].amount
  BY <1>1
<1>3. Meters(e, OfFabric(d, f, S)) = Meters(d, OfFabric(d, f, S))
  BY <1>1, <1>2, MetersSame, DbMetered
<1> QED BY <1>1, <1>3 DEF Total

\* Demand is what is AVAILABLE and what waits.
LEMMA DemandIs ==
  ASSUME NEW d \in Db, NEW f
  PROVE  /\ Total(d, f, DEMAND_REQUIREMENT_STATES) = Total(d, f, {"AVAILABLE"}) + Total(d, f, Waiting)
         /\ Total(d, f, {"AVAILABLE"}) \in Nat /\ Total(d, f, Waiting) \in Nat
         /\ Total(d, f, DEMAND_REQUIREMENT_STATES) \in Nat
<1> DEFINE A == OfFabric(d, f, {"AVAILABLE"})
           W == OfFabric(d, f, Waiting)
           D == OfFabric(d, f, DEMAND_REQUIREMENT_STATES)
<1>1. D = A \cup W /\ A \cap W = {} /\ A \in SUBSET Slots /\ W \in SUBSET Slots /\ D \in SUBSET Slots
  BY DEF OfFabric, DEMAND_REQUIREMENT_STATES, Waiting
<1>2. Metered(d)
  BY DbMetered
<1> HIDE DEF A, W, D
<1>3. Meters(d, D) = Meters(d, A) + Meters(d, W)
  BY <1>1, <1>2, MetersApart
<1>4. Meters(d, A) \in Nat /\ Meters(d, W) \in Nat /\ Meters(d, D) \in Nat
  BY <1>1, <1>2, MetersAre
<1> QED BY <1>3, <1>4 DEF Total, A, W, D

\* Some requirements enter a state; nothing else changes.
Relabel(d, R, target) ==
  [d EXCEPT !.req = [k \in Slots |-> IF k \in R THEN [@[k] EXCEPT !.state = target] ELSE @[k]]]

Relabels(d, R, target, e) ==
  /\ e \in Db /\ e.inv = d.inv /\ e.iup = d.iup /\ e.order = d.order /\ e.gone = d.gone
  /\ \A k \in Slots : /\ e.req[k].item = d.req[k].item /\ e.req[k].cur = d.req[k].cur
                      /\ e.req[k].fabric = d.req[k].fabric /\ e.req[k].amount = d.req[k].amount
                      /\ e.req[k].byTask = d.req[k].byTask
                      /\ k \in R => e.req[k].state = target
                      /\ k \notin R => e.req[k] = d.req[k]

LEMMA Relabelled ==
  ASSUME NEW d \in Db, NEW R \in SUBSET Slots, NEW target \in RequirementStates,
         NEW e, e = Relabel(d, R, target)
  PROVE  Relabels(d, R, target, e)
<1>1. e = [d EXCEPT !.req = [k \in Slots |-> IF k \in R THEN [d.req[k] EXCEPT !.state = target]
                                             ELSE d.req[k]]]
  BY DEF Relabel, Db
<1>2. e.inv = d.inv /\ e.iup = d.iup /\ e.order = d.order /\ e.gone = d.gone
  BY <1>1 DEF Db
<1>3. ASSUME NEW k \in Slots
      PROVE  /\ e.req[k] \in Needs
             /\ e.req[k].item = d.req[k].item /\ e.req[k].cur = d.req[k].cur
             /\ e.req[k].fabric = d.req[k].fabric /\ e.req[k].amount = d.req[k].amount
             /\ e.req[k].byTask = d.req[k].byTask
             /\ k \in R => e.req[k].state = target
             /\ k \notin R => e.req[k] = d.req[k]
  <2>1. d.req[k] \in Needs
    BY DEF Db
  <2>2. e.req[k] = IF k \in R THEN [d.req[k] EXCEPT !.state = target] ELSE d.req[k]
    BY <1>1 DEF Db
  <2> QED BY <2>1, <2>2 DEF Needs
<1>4. e \in Db
  <2>1. e.req = [k \in Slots |-> e.req[k]]
    BY <1>1 DEF Db
  <2>2. e.req \in [Slots -> Needs]
    BY <2>1, <1>3
  <2>3. e = [d EXCEPT !.req = e.req]
    BY <1>1 DEF Db
  <2> QED BY <2>2, <2>3 DEF Db
<1> QED BY <1>2, <1>3, <1>4 DEF Relabels

\* Requirements of f in demand enter another state of demand.
Reserved(d, f, R, target, e) ==
  /\ \A g : /\ Total(e, g, DEMAND_REQUIREMENT_STATES) = Total(d, g, DEMAND_REQUIREMENT_STATES)
            /\ Total(e, g, {"IN_USE"}) = Total(d, g, {"IN_USE"})
  /\ \A g : g # f => Total(e, g, {"AVAILABLE"}) = Total(d, g, {"AVAILABLE"})
  /\ Total(e, f, {"AVAILABLE"}) =
       Total(d, f, {"AVAILABLE"}) - Meters(d, OfFabric(d, f, {"AVAILABLE"}) \cap R)
         + (IF target = "AVAILABLE" THEN Meters(d, R) ELSE 0)
  /\ Own(d) => Own(e)
  /\ Placed(d) => Placed(e)
  /\ Sent(d) => Sent(e)

LEMMA Serves ==
  ASSUME NEW d \in Db, NEW f \in Fabrics, NEW target \in DEMAND_REQUIREMENT_STATES,
         NEW R \in SUBSET OfFabric(d, f, DEMAND_REQUIREMENT_STATES),
         NEW e, Relabels(d, R, target, e)
  PROVE  Reserved(d, f, R, target, e)
<1>0. e \in Db /\ R \in SUBSET Slots /\ Metered(d) /\ Metered(e)
  BY DbMetered, OfFabricIs DEF Relabels
<1>1. ASSUME NEW g
      PROVE  Total(e, g, DEMAND_REQUIREMENT_STATES) = Total(d, g, DEMAND_REQUIREMENT_STATES)
  <2>1. ASSUME NEW k \in Slots
        PROVE  /\ k \in OfFabric(e, g, DEMAND_REQUIREMENT_STATES)
                    <=> k \in OfFabric(d, g, DEMAND_REQUIREMENT_STATES)
               /\ e.req[k].amount = d.req[k].amount
    BY DEF OfFabric, Relabels
  <2> QED BY <1>0, <2>1, Unmoved
<1>2. ASSUME NEW g
      PROVE  Total(e, g, {"IN_USE"}) = Total(d, g, {"IN_USE"})
  <2>1. ASSUME NEW k \in Slots
        PROVE  /\ k \in OfFabric(e, g, {"IN_USE"}) <=> k \in OfFabric(d, g, {"IN_USE"})
               /\ e.req[k].amount = d.req[k].amount
    BY DEF OfFabric, Relabels, DEMAND_REQUIREMENT_STATES
  <2> QED BY <1>0, <2>1, Unmoved
<1>3. ASSUME NEW g, g # f
      PROVE  Total(e, g, {"AVAILABLE"}) = Total(d, g, {"AVAILABLE"})
  <2>1. ASSUME NEW k \in Slots
        PROVE  /\ k \in OfFabric(e, g, {"AVAILABLE"}) <=> k \in OfFabric(d, g, {"AVAILABLE"})
               /\ e.req[k].amount = d.req[k].amount
    BY <1>3 DEF OfFabric, Relabels
  <2> QED BY <1>0, <2>1, Unmoved
<1>4. Total(e, f, {"AVAILABLE"}) =
        Total(d, f, {"AVAILABLE"}) - Meters(d, OfFabric(d, f, {"AVAILABLE"}) \cap R)
          + (IF target = "AVAILABLE" THEN Meters(d, R) ELSE 0)
  <2>1. Outside(d, e, R, f, {"AVAILABLE"})
    BY DEF OfFabric, Relabels, Outside
  <2>2. Total(e, f, {"AVAILABLE"}) =
          Total(d, f, {"AVAILABLE"}) - Meters(d, OfFabric(d, f, {"AVAILABLE"}) \cap R)
            + Meters(e, OfFabric(e, f, {"AVAILABLE"}) \cap R)
    <3>1. Shifts(d, e, R, f, {"AVAILABLE"})
      BY <1>0, <2>1, Moved
    <3> QED BY <3>1 DEF Shifts
  <2>3. OfFabric(e, f, {"AVAILABLE"}) \cap R = IF target = "AVAILABLE" THEN R ELSE {}
    BY DEF OfFabric, Relabels
  <2>4. Meters(e, R) = Meters(d, R)
    <3>1. \A k \in R : e.req[k].amount = d.req[k].amount
      BY <1>0 DEF Relabels
    <3> QED BY <1>0, <3>1, MetersSame
  <2>5. Meters(e, {}) = 0
    BY <1>0, MetersAre
  <2> QED BY <2>2, <2>3, <2>4, <2>5
<1>5. Own(d) => Own(e)
  <2> SUFFICES ASSUME Own(d), NEW i \in Items, e.iup[i].active # None
               PROVE  e.req[e.iup[i].active].item = i
    BY DEF Own
  <2>1. e.iup[i].active = d.iup[i].active /\ d.iup[i].active \in Slots
    BY DEF Relabels, Db, Coverings
  <2> QED BY <2>1 DEF Relabels, Own
<1>6. Placed(d) => Placed(e)
  <2> SUFFICES ASSUME Placed(d), NEW k \in Slots
               PROVE  /\ e.req[k].state \in Waiting => e.req[k].fabric \in Fabrics
                      /\ e.req[k].state = "MISSING_QUANTITY" => e.req[k].fabric = None
    BY DEF Placed
  <2>1. CASE k \in R
    <3>1. e.req[k].fabric = f /\ e.req[k].state = target
      BY <2>1 DEF Relabels, OfFabric
    <3> QED BY <3>1 DEF DEMAND_REQUIREMENT_STATES
  <2>2. CASE k \notin R
    BY <2>2 DEF Placed, Relabels
  <2> QED BY <2>1, <2>2
<1>7. Sent(d) => Sent(e)
  BY DEF Sent, Relabels
<1> QED BY <1>1, <1>2, <1>3, <1>4, <1>5, <1>6, <1>7 DEF Reserved

\* The tables stay sound as long as the stock covers what is AVAILABLE.
LEMMA ServesSoundly ==
  ASSUME NEW d, Sound(d), NEW f \in Fabrics, NEW target \in DEMAND_REQUIREMENT_STATES,
         NEW R \in SUBSET OfFabric(d, f, DEMAND_REQUIREMENT_STATES),
         NEW e, e = Relabel(d, R, target), Total(e, f, {"AVAILABLE"}) <= d.inv[f].stored
  PROVE  Sound(e) /\ Relabels(d, R, target, e) /\ Reserved(d, f, R, target, e)
<1>1. Relabels(d, R, target, e)
  <2>1. d \in Db /\ R \in SUBSET Slots /\ target \in RequirementStates
    BY OfFabricIs DEF Sound, RequirementStates, UNFINISHED_REQUIREMENT_STATES
  <2> QED BY <2>1, Relabelled
<1>2. Reserved(d, f, R, target, e)
  <2>1. d \in Db
    BY DEF Sound
  <2> QED BY <1>1, <2>1, Serves
<1>3. ASSUME NEW g \in Fabrics PROVE Balanced(e, g)
  <2>1. e.inv[g] = d.inv[g] /\ Balanced(d, g)
    BY <1>1 DEF Relabels, Sound
  <2>2. Total(e, g, {"AVAILABLE"}) <= d.inv[g].stored
    BY <1>2, <2>1 DEF Balanced, Reserved
  <2> QED BY <1>2, <2>1, <2>2 DEF Balanced, Reserved
<1> QED BY <1>1, <1>2, <1>3 DEF Sound, Relabels, Reserved

-----------------------------------------------------------------------------
(* The folds.                                                                 *)

\* A sequence that lists a set, each element once.
Lists(seq, C, n) ==
  /\ n \in Nat /\ seq \in [1..n -> C]
  /\ \A i, j \in 1..n : i # j => seq[i] # seq[j]
  /\ \A c \in C : \E i \in 1..n : seq[i] = c

LEMMA ListedOnce ==
  ASSUME NEW C, IsFiniteSet(C), NEW seq \in SetToSeqs(C)
  PROVE  Lists(seq, C, Cardinality(C))
<1> DEFINE n == Cardinality(C)
<1>1. n \in Nat
  BY FS_CardinalityType
<1>2. seq \in [1..n -> C] /\ \A i, j \in 1..n : i # j => seq[i] # seq[j]
  BY DEF SetToSeqs
<1>3. IsFiniteSet(1..n) /\ Cardinality(1..n) = n
  BY <1>1, FS_Interval
<1> HIDE DEF n
<1>4. seq \in Injection(1..n, C)
  BY <1>2 DEF Injection, IsInjective
<1>5. seq \in Surjection(1..n, C)
  BY <1>3, <1>4, FS_Injection DEF n
<1>6. \A c \in C : \E i \in 1..n : seq[i] = c
  BY <1>5 DEF Surjection
<1> QED BY <1>1, <1>2, <1>6 DEF Lists, n

LEMMA ListedSet ==
  ASSUME NEW C, NEW seq, NEW n, Lists(seq, C, n)
  PROVE  ToSet(seq) = C /\ DOMAIN seq = 1..n
BY DEF Lists, ToSet

\* What an allocation serves: what fits, as long as anything fits.
Allocates(d, C, pool, R) ==
  /\ R \in SUBSET C
  /\ R = {} \/ Meters(d, R) <= pool
  /\ \A k \in C \ R : d.req[k].amount > pool - Meters(d, R)

LEMMA Allocation ==
  ASSUME NEW d \in Db, NEW C \in SUBSET Slots, NEW seq, NEW n, Lists(seq, C, n),
         NEW pool \in Int, NEW target
  PROVE  \E R : /\ Allocates(d, C, pool, R)
                /\ run_skip_and_continue_allocation(d, seq, pool, target) = Relabel(d, R, target)
<1> DEFINE A == [pool : Int, R : SUBSET C]
           Step(acc, k) == IF acc.pool - d.req[k].amount < 0 THEN acc
                           ELSE [pool |-> acc.pool - d.req[k].amount, R |-> acc.R \cup {k}]
           b == [pool |-> pool, R |-> {}]
<1>0. Metered(d) /\ n \in Nat /\ seq \in [1..n -> C] /\ DOMAIN seq = 1..n
  BY DbMetered, ListedSet DEF Lists
<1>1. b \in A
  OBVIOUS
<1>2. ASSUME NEW acc \in A, NEW k \in C PROVE Step(acc, k) \in A
  <2>1. d.req[k].amount \in Nat
    BY <1>0 DEF Metered
  <2> QED BY <2>1
<1>3. PICK h : h = [p \in A \X (1..n) |-> Step(p[1], seq[p[2]])]
  OBVIOUS
<1> HIDE DEF A, Step, b
<1>4. h \in [A \X (1..n) -> A] /\ \A acc \in A, i \in 1..n : h[<<acc, i>>] = Step(acc, seq[i])
  BY <1>0, <1>2, <1>3
<1>5. PICK m : Runs(n, A, b, h, m)
  BY <1>0, <1>1, <1>4, Running
<1>6. FoldLeft(Step, b, seq) = m[1..n]
  <2> DEFINE I(k) == k = [s \in SUBSET DOMAIN seq |->
                            IF s = {} THEN b ELSE Step(k[s \ {Max(s)}], seq[Max(s)])]
  <2>1. ASSUME NEW s \in (SUBSET (1..n)) \ {{}}
        PROVE  m[s] = Step(m[s \ {Max(s)}], seq[Max(s)]) /\ Max(s) \in 1..n
    <3>1. Max(s) \in s
      BY <1>0, MaxIs
    <3>2. m[s \ {Max(s)}] \in A /\ m[s] = h[<<m[s \ {Max(s)}], Max(s)>>]
      BY <1>5 DEF Runs
    <3>3. Max(s) \in 1..n
      BY <3>1
    <3> QED BY <1>4, <3>2, <3>3
  <2>2. I([s \in SUBSET DOMAIN seq |-> m[s]])
    <3> SUFFICES ASSUME NEW s \in SUBSET (1..n)
                 PROVE  m[s] = IF s = {} THEN b
                               ELSE Step([t \in SUBSET (1..n) |-> m[t]][s \ {Max(s)}], seq[Max(s)])
      BY <1>0
    <3>1. m[{}] = b
      BY <1>5 DEF Runs
    <3>2. [t \in SUBSET (1..n) |-> m[t]][s \ {Max(s)}] = m[s \ {Max(s)}]
      OBVIOUS
    <3> QED BY <2>1, <3>1, <3>2
  <2>3. PICK k : k = CHOOSE i : I(i)
    OBVIOUS
  <2>4. I(k)
    <3>1. \E i : I(i)
      BY <2>2
    <3> HIDE DEF I
    <3>2. I(CHOOSE i : I(i))
      BY <3>1, Zenon
    <3> QED BY <2>3, <3>2
  <2>5. FoldLeft(Step, b, seq) = k[DOMAIN seq]
    BY <2>3 DEF FoldLeft, MapThenFoldSet
  <2>6. k = [s \in SUBSET (1..n) |-> IF s = {} THEN b ELSE Step(k[s \ {Max(s)}], seq[Max(s)])]
    BY <1>0, <2>4
  <2> HIDE DEF I
  <2>7. k[{}] = b
    BY <2>6
  <2>8. ASSUME NEW s \in (SUBSET (1..n)) \ {{}}, k[s \ {Max(s)}] \in A
        PROVE  k[s] = h[<<k[s \ {Max(s)}], Max(s)>>]
    <3>1. k[s] = Step(k[s \ {Max(s)}], seq[Max(s)])
      BY <2>6
    <3> QED BY <1>4, <2>1, <2>8, <3>1
  <2>9. Follows(n, A, b, h, k)
    BY <2>7, <2>8 DEF Follows
  <2>10. k[1..n] = m[1..n]
    BY <1>0, <1>5, <2>9, Unfolds
  <2> QED BY <1>0, <2>5, <2>10
<1>a. PICK R : R = FoldLeft(Step, b, seq).R
  OBVIOUS
<1>b. run_skip_and_continue_allocation(d, seq, pool, target) = Relabel(d, R, target)
  <2>1. run_skip_and_continue_allocation(d, seq, pool, target)
          = Relabel(d, FoldLeft(Step, b, seq).R, target)
    BY Zenon DEF run_skip_and_continue_allocation, Relabel, Step, b
  <2> QED BY <1>a, <2>1
<1>7. PICK acc : acc = [i \in 0..n |-> m[1..i]]
  OBVIOUS
<1>8. /\ acc \in [0..n -> A] /\ acc[0] = b
      /\ \A i \in 1..n : acc[i] = Step(acc[i - 1], seq[i])
  <2>1. \A i \in 0..n : acc[i] = m[1..i] /\ 1..i \in SUBSET (1..n)
    BY <1>0, <1>7
  <2>2. \A i \in 0..n : m[1..i] \in A
    BY <2>1, <1>5 DEF Runs
  <2>3. acc[0] = b
    BY <2>1, <1>0, <1>5 DEF Runs
  <2>4. ASSUME NEW i \in 1..n PROVE acc[i] = Step(acc[i - 1], seq[i])
    <3>1. m[1..i] = h[<<m[1..(i - 1)], i>>]
      BY <1>5 DEF Runs
    <3>2. i \in 0..n /\ i - 1 \in 0..n
      BY <1>0
    <3> QED BY <1>4, <2>1, <2>2, <3>1, <3>2
  <2> QED BY <1>7, <2>1, <2>2, <2>3, <2>4
<1> DEFINE Q(i) ==
             /\ acc[i].R \in SUBSET C /\ \A k \in acc[i].R : \E j \in 1..i : seq[j] = k
             /\ acc[i].pool = pool - Meters(d, acc[i].R)
             /\ acc[i].R = {} \/ acc[i].pool >= 0
             /\ \A j \in 1..i : seq[j] \notin acc[i].R => d.req[seq[j]].amount > acc[i].pool
<1>9. Q(0)
  BY <1>0, <1>8, MetersAre DEF b
<1>10. ASSUME NEW i \in 1..n, Q(i - 1) PROVE Q(i)
  <2> DEFINE a == acc[i - 1]
             k == seq[i]
  <2>1. a \in A /\ i - 1 \in 0..n /\ acc[i] = Step(a, k) /\ k \in C /\ i \in 1..i
    BY <1>0, <1>8
  <2>2. a.pool \in Int /\ a.R \in SUBSET C /\ d.req[k].amount \in Nat
    BY <1>0, <2>1 DEF A, Metered
  <2>3. k \notin a.R
    <3> SUFFICES ASSUME k \in a.R PROVE FALSE
      OBVIOUS
    <3>1. PICK j \in 1..(i - 1) : seq[j] = k
      BY <1>10
    <3>2. j \in 1..n /\ j # i
      BY <1>0
    <3> QED BY <3>1, <3>2 DEF Lists
  <2>4. /\ \A l \in a.R : \E j \in 1..(i - 1) : seq[j] = l
        /\ a.pool = pool - Meters(d, a.R)
        /\ a.R = {} \/ a.pool >= 0
        /\ \A j \in 1..(i - 1) : seq[j] \notin a.R => d.req[seq[j]].amount > a.pool
    BY <1>10
  <2>5. \A j \in 1..i : j = i \/ j \in 1..(i - 1)
    BY <1>0
  <2>6. \A j \in 1..(i - 1) : j \in 1..i /\ j \in 1..n /\ d.req[seq[j]].amount \in Nat
    BY <1>0 DEF Metered
  <2> HIDE DEF a, k
  <2>7. CASE a.pool - d.req[k].amount < 0
    <3>1. acc[i] = a
      BY <2>1, <2>7 DEF Step
    <3>2. d.req[k].amount > a.pool
      BY <2>2, <2>7
    <3>3. \A l \in a.R : \E j \in 1..i : seq[j] = l
      BY <2>4, <2>6
    <3>4. \A j \in 1..i : seq[j] \notin a.R => d.req[seq[j]].amount > a.pool
      BY <2>4, <2>5, <3>2 DEF k
    <3> QED BY <2>2, <2>4, <3>1, <3>3, <3>4
  <2>8. CASE ~(a.pool - d.req[k].amount < 0)
    <3>1. acc[i].pool = a.pool - d.req[k].amount /\ acc[i].R = a.R \cup {k}
      BY <2>1, <2>8 DEF Step
    <3>2. Meters(d, a.R \cup {k}) = Meters(d, a.R) + d.req[k].amount /\ Meters(d, a.R) \in Nat
      <4>1. a.R \in SUBSET Slots /\ {k} \in SUBSET Slots /\ a.R \cap {k} = {} /\ k \in Slots
        BY <2>1, <2>2, <2>3
      <4>2. Meters(d, a.R \cup {k}) = Meters(d, a.R) + Meters(d, {k})
        BY <1>0, <4>1, MetersApart
      <4>3. Meters(d, {k}) = d.req[k].amount /\ Meters(d, a.R) \in Nat
        BY <1>0, <4>1, MetersAre
      <4> QED BY <4>2, <4>3
    <3>a. acc[i].pool >= 0
      BY <2>2, <2>8, <3>1
    <3>3. acc[i].pool = pool - Meters(d, a.R \cup {k})
      BY <2>2, <2>4, <3>1, <3>2
    <3>4. \A l \in a.R \cup {k} : \E j \in 1..i : seq[j] = l
      BY <2>1, <2>4, <2>6 DEF k
    <3>5. \A j \in 1..i : seq[j] \notin a.R \cup {k} => d.req[seq[j]].amount > acc[i].pool
      <4> SUFFICES ASSUME NEW j \in 1..i, seq[j] \notin a.R \cup {k}
                   PROVE  d.req[seq[j]].amount > acc[i].pool
        OBVIOUS
      <4>1. j \in 1..(i - 1)
        BY <2>5 DEF k
      <4>2. d.req[seq[j]].amount > a.pool /\ d.req[seq[j]].amount \in Nat
        BY <2>4, <2>6, <4>1
      <4> QED BY <2>2, <3>1, <4>2
    <3>6. a.R \cup {k} \in SUBSET C
      BY <2>1, <2>2
    <3> QED BY <3>1, <3>a, <3>3, <3>4, <3>5, <3>6
  <2> QED BY <2>7, <2>8
<1>11. Q(n)
  <2> DEFINE T == {i \in 0..n : ~Q(i)}
  <2> SUFFICES ASSUME T # {} PROVE FALSE
    BY <1>0
  <2>1. T \in SUBSET Nat
    BY <1>0
  <2> HIDE DEF Q
  <2>2. PICK i \in T : \A j \in T : i <= j
    <3> HIDE DEF T
    <3> QED BY <2>1, LeastNat
  <2>3. i \in 1..n /\ i - 1 \in 0..n
    BY <1>0, <1>9
  <2>4. Q(i - 1)
    <3>1. i - 1 \notin T
      <4> HIDE DEF T
      <4> QED BY <2>2, <2>3
    <3> QED BY <2>3, <3>1
  <2> QED BY <1>10, <2>2, <2>3, <2>4
<1>12. R = acc[n].R
  BY <1>0, <1>6, <1>7, <1>a
<1>13. n \in 0..n /\ acc[n] \in A /\ acc[n] = m[1..n]
  BY <1>0, <1>7, <1>8
<1>14. Allocates(d, C, pool, R)
  <2>1. /\ acc[n].pool \in Int /\ R \in SUBSET C /\ acc[n].pool = pool - Meters(d, R)
        /\ R = {} \/ acc[n].pool >= 0
    BY <1>11, <1>12, <1>13 DEF A
  <2>2. Meters(d, R) \in Nat
    BY <1>0, <2>1, MetersAre
  <2>3. \A k \in C \ R : d.req[k].amount > pool - Meters(d, R)
    <3> SUFFICES ASSUME NEW k \in C \ R PROVE d.req[k].amount > acc[n].pool
      BY <2>1
    <3>1. PICK j \in 1..n : seq[j] = k
      BY DEF Lists
    <3> QED BY <1>11, <1>12, <3>1
  <2> QED BY <2>1, <2>2, <2>3 DEF Allocates
<1> QED BY <1>14, <1>b

\* What gives way to the stock: as much as it takes to cover the rest.
LEMMA Demotion ==
  ASSUME NEW d \in Db, NEW f \in Fabrics, NEW C \in SUBSET Slots, NEW seq, NEW n,
         Lists(seq, C, n)
  PROVE  \E R : /\ R \in SUBSET C /\ Meters(d, C \ R) <= d.inv[f].stored
                /\ _demote_available_requirements(d, f, seq) = Relabel(d, R, "NEEDS_ORDERING")
<1> DEFINE deficit == Max0(Meters(d, ToSet(seq)) - d.inv[f].stored)
           A == [out : Nat, R : SUBSET C]
           Step(acc, k) == IF acc.out >= deficit THEN acc
                           ELSE [out |-> acc.out + d.req[k].amount, R |-> acc.R \cup {k}]
           b == [out |-> 0, R |-> {}]
<1>0. Metered(d) /\ n \in Nat /\ seq \in [1..n -> C] /\ DOMAIN seq = 1..n
  BY DbMetered, ListedSet DEF Lists
<1>1. b \in A
  OBVIOUS
<1>2. ASSUME NEW acc \in A, NEW k \in C PROVE Step(acc, k) \in A
  <2>1. d.req[k].amount \in Nat
    BY <1>0 DEF Metered
  <2> QED BY <2>1
<1>3. PICK h : h = [p \in A \X (1..n) |-> Step(p[1], seq[p[2]])]
  OBVIOUS
<1> HIDE DEF A, Step, b, deficit
<1>4. h \in [A \X (1..n) -> A] /\ \A acc \in A, i \in 1..n : h[<<acc, i>>] = Step(acc, seq[i])
  BY <1>0, <1>2, <1>3
<1>5. PICK m : Runs(n, A, b, h, m)
  BY <1>0, <1>1, <1>4, Running
<1>6. FoldLeft(Step, b, seq) = m[1..n]
  <2> DEFINE I(k) == k = [s \in SUBSET DOMAIN seq |->
                            IF s = {} THEN b ELSE Step(k[s \ {Max(s)}], seq[Max(s)])]
  <2>1. ASSUME NEW s \in (SUBSET (1..n)) \ {{}}
        PROVE  m[s] = Step(m[s \ {Max(s)}], seq[Max(s)]) /\ Max(s) \in 1..n
    <3>1. Max(s) \in s
      BY <1>0, MaxIs
    <3>2. m[s \ {Max(s)}] \in A /\ m[s] = h[<<m[s \ {Max(s)}], Max(s)>>]
      BY <1>5 DEF Runs
    <3>3. Max(s) \in 1..n
      BY <3>1
    <3> QED BY <1>4, <3>2, <3>3
  <2>2. I([s \in SUBSET DOMAIN seq |-> m[s]])
    <3> SUFFICES ASSUME NEW s \in SUBSET (1..n)
                 PROVE  m[s] = IF s = {} THEN b
                               ELSE Step([t \in SUBSET (1..n) |-> m[t]][s \ {Max(s)}], seq[Max(s)])
      BY <1>0
    <3>1. m[{}] = b
      BY <1>5 DEF Runs
    <3>2. [t \in SUBSET (1..n) |-> m[t]][s \ {Max(s)}] = m[s \ {Max(s)}]
      OBVIOUS
    <3> QED BY <2>1, <3>1, <3>2
  <2>3. PICK k : k = CHOOSE i : I(i)
    OBVIOUS
  <2>4. I(k)
    <3>1. \E i : I(i)
      BY <2>2
    <3> HIDE DEF I
    <3>2. I(CHOOSE i : I(i))
      BY <3>1, Zenon
    <3> QED BY <2>3, <3>2
  <2>5. FoldLeft(Step, b, seq) = k[DOMAIN seq]
    BY <2>3 DEF FoldLeft, MapThenFoldSet
  <2>6. k = [s \in SUBSET (1..n) |-> IF s = {} THEN b ELSE Step(k[s \ {Max(s)}], seq[Max(s)])]
    BY <1>0, <2>4
  <2> HIDE DEF I
  <2>7. k[{}] = b
    BY <2>6
  <2>8. ASSUME NEW s \in (SUBSET (1..n)) \ {{}}, k[s \ {Max(s)}] \in A
        PROVE  k[s] = h[<<k[s \ {Max(s)}], Max(s)>>]
    <3>1. k[s] = Step(k[s \ {Max(s)}], seq[Max(s)])
      BY <2>6
    <3> QED BY <1>4, <2>1, <2>8, <3>1
  <2>9. Follows(n, A, b, h, k)
    BY <2>7, <2>8 DEF Follows
  <2>10. k[1..n] = m[1..n]
    BY <1>0, <1>5, <2>9, Unfolds
  <2> QED BY <1>0, <2>5, <2>10
<1>a. PICK R : R = FoldLeft(Step, b, seq).R
  OBVIOUS
<1>b. _demote_available_requirements(d, f, seq) = Relabel(d, R, "NEEDS_ORDERING")
  <2>1. _demote_available_requirements(d, f, seq)
          = Relabel(d, FoldLeft(Step, b, seq).R, "NEEDS_ORDERING")
    BY Zenon DEF _demote_available_requirements, Relabel, Step, b, deficit
  <2> QED BY <1>a, <2>1
<1>7. PICK acc : acc = [i \in 0..n |-> m[1..i]]
  OBVIOUS
<1>8. /\ acc \in [0..n -> A] /\ acc[0] = b
      /\ \A i \in 1..n : acc[i] = Step(acc[i - 1], seq[i])
  <2>1. \A i \in 0..n : acc[i] = m[1..i] /\ 1..i \in SUBSET (1..n)
    BY <1>0, <1>7
  <2>2. \A i \in 0..n : m[1..i] \in A
    BY <2>1, <1>5 DEF Runs
  <2>3. acc[0] = b
    BY <2>1, <1>0, <1>5 DEF Runs
  <2>4. ASSUME NEW i \in 1..n PROVE acc[i] = Step(acc[i - 1], seq[i])
    <3>1. m[1..i] = h[<<m[1..(i - 1)], i>>]
      BY <1>5 DEF Runs
    <3>2. i \in 0..n /\ i - 1 \in 0..n
      BY <1>0
    <3> QED BY <1>4, <2>1, <2>2, <3>1, <3>2
  <2> QED BY <1>7, <2>1, <2>2, <2>3, <2>4
<1> DEFINE Q(i) == /\ acc[i].R \in SUBSET C /\ \A k \in acc[i].R : \E j \in 1..i : seq[j] = k
                   /\ acc[i].out = Meters(d, acc[i].R)
                   /\ acc[i].out >= deficit \/ \A j \in 1..i : seq[j] \in acc[i].R
<1>9. Q(0)
  BY <1>0, <1>8, MetersAre DEF b
<1>10. ASSUME NEW i \in 1..n, Q(i - 1) PROVE Q(i)
  <2> DEFINE a == acc[i - 1]
             k == seq[i]
  <2>1. a \in A /\ i - 1 \in 0..n /\ acc[i] = Step(a, k) /\ k \in C /\ i \in 1..i
    BY <1>0, <1>8
  <2>2. a.out \in Nat /\ a.R \in SUBSET C /\ d.req[k].amount \in Nat
    BY <1>0, <2>1 DEF A, Metered
  <2>3. k \notin a.R
    <3> SUFFICES ASSUME k \in a.R PROVE FALSE
      OBVIOUS
    <3>1. PICK j \in 1..(i - 1) : seq[j] = k
      BY <1>10
    <3>2. j \in 1..n /\ j # i
      BY <1>0
    <3> QED BY <3>1, <3>2 DEF Lists
  <2>4. /\ \A l \in a.R : \E j \in 1..(i - 1) : seq[j] = l
        /\ a.out = Meters(d, a.R)
        /\ a.out >= deficit \/ \A j \in 1..(i - 1) : seq[j] \in a.R
    BY <1>10
  <2>5. \A j \in 1..i : j = i \/ j \in 1..(i - 1)
    BY <1>0
  <2>6. \A j \in 1..(i - 1) : j \in 1..i
    BY <1>0
  <2> HIDE DEF a, k
  <2>7. CASE a.out >= deficit
    <3>1. acc[i] = a
      BY <2>1, <2>7 DEF Step
    <3>2. \A l \in a.R : \E j \in 1..i : seq[j] = l
      BY <2>4, <2>6
    <3> QED BY <2>2, <2>4, <2>7, <3>1, <3>2
  <2>8. CASE ~(a.out >= deficit)
    <3>1. acc[i].out = a.out + d.req[k].amount /\ acc[i].R = a.R \cup {k}
      BY <2>1, <2>8 DEF Step
    <3>2. Meters(d, a.R \cup {k}) = Meters(d, a.R) + d.req[k].amount
      <4>1. a.R \in SUBSET Slots /\ {k} \in SUBSET Slots /\ a.R \cap {k} = {} /\ k \in Slots
        BY <2>1, <2>2, <2>3
      <4>2. Meters(d, a.R \cup {k}) = Meters(d, a.R) + Meters(d, {k})
        BY <1>0, <4>1, MetersApart
      <4>3. Meters(d, {k}) = d.req[k].amount
        BY <1>0, <4>1, MetersAre
      <4> QED BY <4>2, <4>3
    <3>3. acc[i].out = Meters(d, a.R \cup {k})
      BY <2>4, <3>1, <3>2
    <3>4. \A l \in a.R \cup {k} : \E j \in 1..i : seq[j] = l
      BY <2>1, <2>4, <2>6 DEF k
    <3>5. \A j \in 1..i : seq[j] \in a.R \cup {k}
      BY <2>4, <2>5, <2>8 DEF k
    <3>6. a.R \cup {k} \in SUBSET C
      BY <2>1, <2>2
    <3> QED BY <3>1, <3>3, <3>4, <3>5, <3>6
  <2> QED BY <2>7, <2>8
<1>11. Q(n)
  <2> DEFINE T == {i \in 0..n : ~Q(i)}
  <2> SUFFICES ASSUME T # {} PROVE FALSE
    BY <1>0
  <2>1. T \in SUBSET Nat
    BY <1>0
  <2> HIDE DEF Q
  <2>2. PICK i \in T : \A j \in T : i <= j
    <3> HIDE DEF T
    <3> QED BY <2>1, LeastNat
  <2>3. i \in 1..n /\ i - 1 \in 0..n
    BY <1>0, <1>9
  <2>4. Q(i - 1)
    <3>1. i - 1 \notin T
      <4> HIDE DEF T
      <4> QED BY <2>2, <2>3
    <3> QED BY <2>3, <3>1
  <2> QED BY <1>10, <2>2, <2>3, <2>4
<1>12. R = acc[n].R
  BY <1>0, <1>6, <1>7, <1>a
<1>13. R \in SUBSET C /\ (Meters(d, R) >= deficit \/ \A j \in 1..n : seq[j] \in R)
  BY <1>11, <1>12
<1>14. /\ Meters(d, C \ R) = Meters(d, C) - Meters(d, R)
       /\ Meters(d, C) \in Nat /\ Meters(d, R) \in Nat /\ d.inv[f].stored \in Nat
  BY <1>0, <1>13, MetersWithin DEF Db, Shelves
<1>15. ToSet(seq) = C
  BY ListedSet
<1>16. Meters(d, C \ R) <= d.inv[f].stored
  <2>1. CASE Meters(d, R) >= deficit
    BY <1>14, <1>15, <2>1 DEF deficit, Max0
  <2>2. CASE \A j \in 1..n : seq[j] \in R
    <3>1. C \ R = {}
      BY <2>2 DEF Lists
    <3>2. Meters(d, C \ R) = 0
      BY <1>0, <3>1, MetersAre
    <3> QED BY <1>14, <3>2
  <2> QED BY <1>13, <2>1, <2>2
<1> QED BY <1>13, <1>16, <1>b

-----------------------------------------------------------------------------
(* The rules.                                                                 *)

LEMMA EvaluationIs ==
  ASSUME NEW v
  PROVE  evaluate_inventory_condition(v) \in {"AVAILABLE", "LOW_STOCK", "OUT_OF_STOCK"}
BY DEF evaluate_inventory_condition

LEMMA EvaluatedIs ==
  ASSUME NEW v \in Shelves, NEW w, w = Evaluated(v)
  PROVE  /\ w \in Shelves /\ w.cond = evaluate_inventory_condition(w) /\ w.stale = FALSE
         /\ w.cond # "NONE"
         /\ w.stored = v.stored /\ w.need = v.need /\ w.use = v.use /\ w.ordered = v.ordered
         /\ w.low = v.low
<1>1. evaluate_inventory_condition(v) \in {"AVAILABLE", "LOW_STOCK", "OUT_OF_STOCK"}
  BY EvaluationIs
<1>2. /\ w \in Shelves /\ w.cond = evaluate_inventory_condition(v) /\ w.stale = FALSE
      /\ w.stored = v.stored /\ w.need = v.need /\ w.use = v.use /\ w.ordered = v.ordered
      /\ w.low = v.low
  BY <1>1 DEF Evaluated, Shelves
<1>3. evaluate_inventory_condition(w) = evaluate_inventory_condition(v)
  BY <1>2 DEF evaluate_inventory_condition
<1> QED BY <1>1, <1>2, <1>3

\* The row of one fabric changes.
Shelved(d, f, v, e) ==
  /\ e \in Db /\ e.req = d.req /\ e.iup = d.iup /\ e.order = d.order /\ e.gone = d.gone
  /\ e.inv[f] = v /\ \A g \in Fabrics \ {f} : e.inv[g] = d.inv[g]

LEMMA ShelvedIs ==
  ASSUME NEW d \in Db, NEW f \in Fabrics, NEW v \in Shelves, NEW e, e = [d EXCEPT !.inv[f] = v]
  PROVE  Shelved(d, f, v, e)
BY DEF Db, Shelved

LEMMA SameRequirements ==
  ASSUME NEW d, NEW e, e.req = d.req
  PROVE  \A f, S : OfFabric(e, f, S) = OfFabric(d, f, S) /\ Total(e, f, S) = Total(d, f, S)
<1>1. \A f, S : OfFabric(e, f, S) = OfFabric(d, f, S)
  BY DEF OfFabric
<1>2. \A R : Meters(e, R) = Meters(d, R)
  BY DEF Meters
<1> QED BY <1>1, <1>2 DEF Total

\* One requirement changes.
Part(d, k, f, S) ==
  IF d.req[k].fabric = f /\ d.req[k].state \in S THEN d.req[k].amount ELSE 0

LEMMA OneMoved ==
  ASSUME NEW d \in Db, NEW e \in Db, NEW k \in Slots,
         \A l \in Slots \ {k} : e.req[l] = d.req[l],
         NEW f, NEW S
  PROVE  /\ Total(e, f, S) = Total(d, f, S) - Part(d, k, f, S) + Part(e, k, f, S)
         /\ Total(e, f, S) \in Nat /\ Total(d, f, S) \in Nat /\ Part(d, k, f, S) \in Nat
         /\ Part(e, k, f, S) \in Nat /\ Part(d, k, f, S) <= Total(d, f, S)
<1>1. Outside(d, e, {k}, f, S)
  BY DEF OfFabric, Outside
<1>2. {k} \in SUBSET Slots
  OBVIOUS
<1>3. Shifts(d, e, {k}, f, S)
  BY <1>1, <1>2, Moved
<1>4. ASSUME NEW c \in Db PROVE Meters(c, OfFabric(c, f, S) \cap {k}) = Part(c, k, f, S)
  <2>1. Metered(c) /\ Meters(c, {k}) = c.req[k].amount /\ Meters(c, {}) = 0
    BY DbMetered, MetersAre
  <2>2. OfFabric(c, f, S) \cap {k} = IF c.req[k].fabric = f /\ c.req[k].state \in S THEN {k} ELSE {}
    BY DEF OfFabric
  <2> QED BY <2>1, <2>2 DEF Part
<1> QED BY <1>3, <1>4 DEF Shifts

\* A row nobody's requirement is written to.
Unused(d, k) == d.req[k].item = None /\ d.req[k].state = "FAILED"

LEMMA UnusedIs ==
  ASSUME NEW d, Own(d), NEW k \in Slots, Unused(d, k), NEW i \in Items
  PROVE  d.iup[i].active # k
<1> SUFFICES ASSUME d.iup[i].active = k PROVE FALSE
  OBVIOUS
<1>1. d.req[k].item = i
  BY UpholsteryAssumption DEF Own
<1> QED BY <1>1, UpholsteryAssumption DEF Unused

\* A fabric is given another amount in need, and is evaluated.
NeedIs(d, f, n, e) ==
  /\ Shelved(d, f, e.inv[f], e)
  /\ e.inv[f].need = n /\ e.inv[f].stored = d.inv[f].stored /\ e.inv[f].use = d.inv[f].use
  /\ e.inv[f].cond = evaluate_inventory_condition(e.inv[f])

LEMMA NeedSet ==
  ASSUME NEW d \in Db, NEW f \in Fabrics, NEW n \in Nat,
         NEW e, e = [d EXCEPT !.inv[f] = Evaluated([d.inv[f] EXCEPT !.need = n])]
  PROVE  NeedIs(d, f, n, e)
<1>1. PICK v : v = [d.inv[f] EXCEPT !.need = n]
  OBVIOUS
<1>2. v \in Shelves /\ v.need = n /\ v.stored = d.inv[f].stored /\ v.use = d.inv[f].use
  BY <1>1 DEF Db, Shelves
<1>3. PICK w : w = Evaluated(v)
  OBVIOUS
<1>4. /\ w \in Shelves /\ w.cond = evaluate_inventory_condition(w)
      /\ w.stored = v.stored /\ w.need = v.need /\ w.use = v.use
  BY <1>2, <1>3, EvaluatedIs
<1>5. e = [d EXCEPT !.inv[f] = w]
  BY <1>1, <1>3
<1>6. Shelved(d, f, w, e)
  BY <1>4, <1>5, ShelvedIs
<1>7. e.inv[f] = w
  BY <1>6 DEF Shelved
<1> QED BY <1>2, <1>4, <1>6, <1>7 DEF NeedIs

LEMMA Injected ==
  ASSUME NEW d \in Db, NEW f \in Fabrics, NEW q \in Nat, NEW e, e = check_and_inject_need(d, f, q)
  PROVE  NeedIs(d, f, d.inv[f].need + q, e)
<1>1. d.inv[f].need \in Nat
  BY DEF Db, Shelves
<1>2. e = [d EXCEPT !.inv[f] = Evaluated([d.inv[f] EXCEPT !.need = d.inv[f].need + q])]
  BY DEF check_and_inject_need, Db
<1> QED BY <1>1, <1>2, NeedSet

LEMMA Adjusted ==
  ASSUME NEW d \in Db, NEW f \in Fabrics, NEW q \in Int, NEW e, e = adjust_need(d, f, q)
  PROVE  NeedIs(d, f, Max0(d.inv[f].need + q), e)
<1>1. Max0(d.inv[f].need + q) \in Nat
  BY DEF Db, Shelves, Max0
<1>2. e = [d EXCEPT !.inv[f] = Evaluated([d.inv[f] EXCEPT !.need = Max0(d.inv[f].need + q)])]
  BY DEF adjust_need, Db
<1> QED BY <1>1, <1>2, NeedSet

\* A new requirement of an item, in a slot that is not used, balances.
Initials(d, k, e) ==
  /\ e \in Db /\ \A l \in Slots \ {k} : e.req[l] = d.req[l]
  /\ Sound(d) /\ Unused(d, k) => Sound(e)

LEMMA Initially ==
  ASSUME NEW d \in Db, NEW i \in Items, NEW k \in Slots,
         d.iup[i].amount # 0 /\ d.iup[i].source # "CUSTOMER" => d.iup[i].fabric \in Fabrics,
         NEW e, e = _create_initial_requirement(d, i, k)
  PROVE  Initials(d, k, e)
<1> DEFINE u == d.iup[i]
           ours == u.amount # 0 /\ u.source # "CUSTOMER"
           inject == IF ours THEN check_and_inject_need(d, u.fabric, u.amount) ELSE d
<1>1. PICK c : c = inject
  OBVIOUS
<1> DEFINE state == IF ours THEN IF sufficient(c.inv[u.fabric]) THEN "AVAILABLE" ELSE "NEEDS_ORDERING"
                    ELSE IF u.amount = 0 THEN "MISSING_QUANTITY" ELSE "AVAILABLE"
           r == [item |-> i, cur |-> TRUE, fabric |-> IF ours THEN u.fabric ELSE None,
                 amount |-> u.amount, state |-> state, byTask |-> FALSE]
<1>2. d \in Db /\ u \in Coverings /\ u.amount \in Nat
  BY DEF Db, Coverings
<1>3. ours => u.fabric \in Fabrics /\ NeedIs(d, u.fabric, d.inv[u.fabric].need + u.amount, c)
  BY <1>1, <1>2, Injected
<1>4. c \in Db /\ c.req = d.req /\ c.iup = d.iup /\ c.order = d.order /\ c.gone = d.gone
  BY <1>1, <1>2, <1>3 DEF NeedIs, Shelved
<1>5. e = [c EXCEPT !.iup[i].active = k, !.req[k] = r]
  BY <1>1 DEF _create_initial_requirement
<1> HIDE DEF inject
<1>6. r \in Needs
  BY <1>2, <1>3 DEF Needs, RequirementStates, UNFINISHED_REQUIREMENT_STATES, DEMAND_REQUIREMENT_STATES
<1>7. /\ e \in Db /\ e.inv = c.inv /\ e.order = d.order /\ e.req[k] = r
      /\ \A l \in Slots \ {k} : e.req[l] = d.req[l]
      /\ e.iup[i].active = k /\ \A j \in Items \ {i} : e.iup[j] = d.iup[j]
  <2>1. [c.iup[i] EXCEPT !.active = k] \in Coverings /\ [c.iup[i] EXCEPT !.active = k].active = k
    BY <1>2, <1>4 DEF Coverings
  <2> HIDE DEF r
  <2>2. PICK w : w = [c.iup[i] EXCEPT !.active = k]
    OBVIOUS
  <2>3. w \in Coverings /\ w.active = k
    BY <2>1, <2>2
  <2>4. e = [[c EXCEPT !.iup[i] = w] EXCEPT !.req[k] = r]
    BY <1>5, <2>2
  <2> HIDE <2>2
  <2>5. /\ e.inv = c.inv /\ e.order = c.order /\ e.gone = c.gone
        /\ e.iup = [c.iup EXCEPT ![i] = w] /\ e.req = [c.req EXCEPT ![k] = r]
        /\ e = [inv |-> e.inv, iup |-> e.iup, req |-> e.req, order |-> e.order, gone |-> e.gone]
    BY <1>4, <2>4 DEF Db
  <2> QED BY <2>3, <2>5, <1>4, <1>6 DEF Db
<1> SUFFICES ASSUME Sound(d), Unused(d, k) PROVE Sound(e)
  <2> HIDE DEF r
  <2> QED BY <1>7 DEF Initials
<1>8. Own(e)
  <2> SUFFICES ASSUME NEW j \in Items, e.iup[j].active # None
               PROVE  e.req[e.iup[j].active].item = j
    BY DEF Own
  <2>1. CASE j = i
    BY <1>7, <2>1
  <2>2. CASE j # i
    <3>1. Own(d)
      BY DEF Sound
    <3>2. e.iup[j] = d.iup[j] /\ d.iup[j].active # k
      BY <1>7, <2>2, <3>1, UnusedIs
    <3>3. d.iup[j].active \in Slots \ {k}
      BY <3>2, <1>2 DEF Db, Coverings
    <3> QED BY <1>7, <3>1, <3>2, <3>3 DEF Own
  <2> QED BY <2>1, <2>2
<1>9. Placed(e)
  BY <1>3, <1>7 DEF Placed, Sound, Waiting
<1>10. Sent(e)
  BY <1>7 DEF Sent, Sound
<1>11. ASSUME NEW f \in Fabrics PROVE Balanced(e, f)
  <2> HIDE DEF r
  <2>1. ASSUME NEW S, "FAILED" \notin S
        PROVE  /\ Total(e, f, S) = Total(d, f, S) + Part(e, k, f, S)
               /\ Total(d, f, S) \in Nat /\ Part(e, k, f, S) \in Nat
    <3>1. Part(d, k, f, S) = 0
      BY <2>1 DEF Part, Unused
    <3> QED BY <1>2, <1>7, <3>1, OneMoved
  <2>2. Balanced(d, f)
    BY DEF Sound
  <2>3. /\ Total(e, f, DEMAND_REQUIREMENT_STATES)
             = Total(d, f, DEMAND_REQUIREMENT_STATES) + Part(e, k, f, DEMAND_REQUIREMENT_STATES)
        /\ Total(e, f, {"IN_USE"}) = Total(d, f, {"IN_USE"}) + Part(e, k, f, {"IN_USE"})
        /\ Total(e, f, {"AVAILABLE"}) = Total(d, f, {"AVAILABLE"}) + Part(e, k, f, {"AVAILABLE"})
        /\ Total(d, f, {"AVAILABLE"}) \in Nat /\ Total(d, f, {"IN_USE"}) \in Nat
        /\ Total(d, f, DEMAND_REQUIREMENT_STATES) \in Nat
    BY <2>1 DEF DEMAND_REQUIREMENT_STATES
  <2>4. /\ r.fabric = IF ours THEN u.fabric ELSE None
        /\ r.amount = u.amount /\ r.state = state
    BY DEF r
  <2>5. CASE ~(ours /\ f = u.fabric)
    <3>1. e.inv[f] = d.inv[f]
      BY <1>1, <1>3, <1>7, <2>5 DEF NeedIs, Shelved, inject
    <3>2. \A S : Part(e, k, f, S) = 0
      BY <1>7, <2>4, <2>5, UpholsteryAssumption DEF Part
    <3> QED BY <2>2, <2>3, <3>1, <3>2 DEF Balanced
  <2>6. CASE ours /\ f = u.fabric
    <3>1. /\ e.inv[f].need = d.inv[f].need + u.amount /\ e.inv[f].stored = d.inv[f].stored
          /\ e.inv[f].use = d.inv[f].use /\ c.inv[f] = e.inv[f]
          /\ e.inv[f].cond = evaluate_inventory_condition(e.inv[f])
      BY <1>3, <1>7, <2>6 DEF NeedIs
    <3>2. r.state \in {"AVAILABLE", "NEEDS_ORDERING"}
      BY <2>4, <2>6
    <3>3. /\ Part(e, k, f, DEMAND_REQUIREMENT_STATES) = u.amount
          /\ Part(e, k, f, {"IN_USE"}) = 0
          /\ Part(e, k, f, {"AVAILABLE"}) = IF r.state = "AVAILABLE" THEN u.amount ELSE 0
      BY <1>7, <2>4, <2>6, <3>2 DEF Part, DEMAND_REQUIREMENT_STATES
    <3>4. Total(e, f, {"AVAILABLE"}) <= e.inv[f].stored
      <4>1. CASE r.state = "AVAILABLE"
        <5>1. e.inv[f].stored - e.inv[f].need >= 0
          BY <2>4, <2>6, <3>1, <4>1 DEF sufficient
        <5>2. Total(d, f, DEMAND_REQUIREMENT_STATES) = Total(d, f, {"AVAILABLE"}) + Total(d, f, Waiting)
              /\ Total(d, f, Waiting) \in Nat
          BY <1>2, DemandIs
        <5>3. d.inv[f].need = Total(d, f, DEMAND_REQUIREMENT_STATES) /\ d.inv[f].stored \in Nat
          BY <2>2, <1>2 DEF Balanced, Db, Shelves
        <5> QED BY <1>2, <2>3, <3>1, <3>3, <4>1, <5>1, <5>2, <5>3
      <4>2. CASE r.state # "AVAILABLE"
        BY <2>2, <2>3, <3>1, <3>3, <4>2 DEF Balanced
      <4> QED BY <4>1, <4>2
    <3>5. e.inv[f].cond # "NONE"
      BY <3>1, EvaluationIs
    <3> QED BY <2>2, <2>3, <3>1, <3>3, <3>4, <3>5 DEF Balanced
  <2> QED BY <2>5, <2>6
<1> QED BY <1>7, <1>8, <1>9, <1>10, <1>11 DEF Sound

LEMMA InitialSound ==
  ASSUME NEW d, Sound(d), NEW i \in Items, NEW k \in Slots, Unused(d, k),
         d.iup[i].amount # 0 /\ d.iup[i].source # "CUSTOMER" => d.iup[i].fabric \in Fabrics,
         NEW e, e = _create_initial_requirement(d, i, k)
  PROVE  Sound(e)
<1>1. d \in Db
  BY DEF Sound
<1>2. Initials(d, k, e)
  BY <1>1, Initially
<1> QED BY <1>2 DEF Initials

\* A table that differs from a sound one only in what no total counts.
Alike(d, e) ==
  /\ e \in Db /\ e.inv = d.inv /\ Own(e) /\ Placed(e) /\ Sent(e)
  /\ \A k \in Slots : /\ e.req[k].fabric = d.req[k].fabric /\ e.req[k].amount = d.req[k].amount
                         /\ e.req[k].state = d.req[k].state
                      \/ /\ e.req[k].state \notin UNFINISHED_REQUIREMENT_STATES
                         /\ d.req[k].state \notin UNFINISHED_REQUIREMENT_STATES

LEMMA AlikeTotals ==
  ASSUME NEW d \in Db, NEW e, Alike(d, e), NEW S \in SUBSET UNFINISHED_REQUIREMENT_STATES
  PROVE  \A f : OfFabric(e, f, S) = OfFabric(d, f, S) /\ Total(e, f, S) = Total(d, f, S)
<1> SUFFICES ASSUME NEW f
             PROVE  OfFabric(e, f, S) = OfFabric(d, f, S) /\ Total(e, f, S) = Total(d, f, S)
  OBVIOUS
<1>1. e \in Db
  BY DEF Alike
<1>2. ASSUME NEW k \in Slots
      PROVE  /\ k \in OfFabric(e, f, S) <=> k \in OfFabric(d, f, S)
             /\ k \in OfFabric(d, f, S) => e.req[k].amount = d.req[k].amount
  BY DEF OfFabric, Alike
<1> QED BY <1>1, <1>2, Unmoved

LEMMA AlikeSound ==
  ASSUME NEW d, Sound(d), NEW e, Alike(d, e)
  PROVE  Sound(e)
<1>1. d \in Db /\ \A f \in Fabrics : Balanced(d, f)
  BY DEF Sound
<1>2. /\ DEMAND_REQUIREMENT_STATES \in SUBSET UNFINISHED_REQUIREMENT_STATES
      /\ {"IN_USE"} \in SUBSET UNFINISHED_REQUIREMENT_STATES
      /\ {"AVAILABLE"} \in SUBSET UNFINISHED_REQUIREMENT_STATES
  BY DEF UNFINISHED_REQUIREMENT_STATES, DEMAND_REQUIREMENT_STATES
<1>3. \A f : /\ Total(e, f, DEMAND_REQUIREMENT_STATES) = Total(d, f, DEMAND_REQUIREMENT_STATES)
             /\ Total(e, f, {"IN_USE"}) = Total(d, f, {"IN_USE"})
             /\ Total(e, f, {"AVAILABLE"}) = Total(d, f, {"AVAILABLE"})
  BY <1>1, <1>2, AlikeTotals
<1>4. \A f \in Fabrics : Balanced(e, f)
  BY <1>1, <1>3 DEF Balanced, Alike
<1> QED BY <1>4 DEF Sound, Alike

LEMMA DroppedSound ==
  ASSUME NEW d, Sound(d), NEW i \in Items, NEW e, e = Dropped(d, i)
  PROVE  /\ Sound(e) /\ e.inv = d.inv /\ \A k \in Slots : Unused(d, k) => Unused(e, k)
<1>1. d \in Db /\ NoUpholstery \in Coverings /\ NoUpholstery.active = None
  BY DEF Sound, NoUpholstery, Coverings, Sources
<1>2. e = [d EXCEPT !.iup[i] = NoUpholstery,
                    !.req = [k \in Slots |-> IF d.req[k].item = i THEN [d.req[k] EXCEPT !.cur = FALSE]
                                             ELSE d.req[k]]]
  BY DEF Dropped
<1> HIDE DEF NoUpholstery
<1>3. /\ e.inv = d.inv /\ e.order = d.order /\ e.gone = d.gone
      /\ e.iup = [d.iup EXCEPT ![i] = NoUpholstery]
      /\ e.req = [k \in Slots |-> IF d.req[k].item = i THEN [d.req[k] EXCEPT !.cur = FALSE]
                                  ELSE d.req[k]]
      /\ e = [inv |-> e.inv, iup |-> e.iup, req |-> e.req, order |-> e.order, gone |-> e.gone]
  BY <1>1, <1>2 DEF Db
<1>4. ASSUME NEW k \in Slots
      PROVE  /\ e.req[k] \in Needs /\ e.req[k].item = d.req[k].item
             /\ e.req[k].fabric = d.req[k].fabric /\ e.req[k].amount = d.req[k].amount
             /\ e.req[k].state = d.req[k].state
  <2>1. d.req[k] \in Needs
    BY <1>1 DEF Db
  <2>2. e.req[k] = IF d.req[k].item = i THEN [d.req[k] EXCEPT !.cur = FALSE] ELSE d.req[k]
    BY <1>3
  <2> HIDE <1>3
  <2> QED BY <2>1, <2>2 DEF Needs
<1>5. e \in Db
  <2>1. e.req = [k \in Slots |-> e.req[k]]
    BY <1>3
  <2>2. e.req \in [Slots -> Needs]
    BY <2>1, <1>4
  <2> QED BY <1>1, <1>3, <2>2 DEF Db
<1>6. Own(e)
  <2> SUFFICES ASSUME NEW j \in Items, e.iup[j].active # None
               PROVE  e.req[e.iup[j].active].item = j
    BY DEF Own
  <2>1. j # i /\ e.iup[j] = d.iup[j] /\ d.iup[j].active \in Slots
    BY <1>1, <1>3 DEF Db, Coverings
  <2> QED BY <1>4, <2>1 DEF Own, Sound
<1>7. Placed(e) /\ Sent(e)
  BY <1>3, <1>4 DEF Placed, Sent, Sound
<1>8. Alike(d, e)
  BY <1>3, <1>4, <1>5, <1>6, <1>7 DEF Alike
<1> QED BY <1>3, <1>4, <1>8, AlikeSound DEF Unused

LEMMA TidySound ==
  ASSUME NEW d, Sound(d), NEW e, e = Tidy(d)
  PROVE  Sound(e) /\ Alike(d, e) /\ e.inv = d.inv
<1>1. d \in Db /\ NoRequirement \in Needs /\ NoRequirement.state = "FAILED"
  BY DEF Sound, NoRequirement, Needs, RequirementStates
<1> DEFINE gone(k) == d.req[k].state \in {"COMPLETED", "FAILED"} /\ \A i \in Items : d.iup[i].active # k
<1>2. e = [d EXCEPT !.req = [k \in Slots |-> IF gone(k) THEN NoRequirement ELSE d.req[k]]]
  BY DEF Tidy
<1> HIDE DEF NoRequirement, gone
<1>3. /\ e.inv = d.inv /\ e.order = d.order /\ e.gone = d.gone /\ e.iup = d.iup
      /\ e.req = [k \in Slots |-> IF gone(k) THEN NoRequirement ELSE d.req[k]]
      /\ e = [inv |-> e.inv, iup |-> e.iup, req |-> e.req, order |-> e.order, gone |-> e.gone]
  BY <1>1, <1>2 DEF Db
<1>4. e \in Db
  BY <1>1, <1>3 DEF Db
<1>5. Own(e)
  <2> SUFFICES ASSUME NEW j \in Items, e.iup[j].active # None
               PROVE  e.req[e.iup[j].active].item = j
    BY DEF Own
  <2>1. e.iup[j] = d.iup[j] /\ d.iup[j].active \in Slots
    BY <1>1, <1>3 DEF Db, Coverings
  <2>2. ~ gone(d.iup[j].active)
    BY DEF gone
  <2>3. e.req[d.iup[j].active] = d.req[d.iup[j].active]
    BY <1>3, <2>1, <2>2
  <2> QED BY <2>1, <2>3 DEF Own, Sound
<1>6. Placed(e) /\ Sent(e)
  BY <1>1, <1>3 DEF Placed, Sent, Sound, Waiting
<1>7. ASSUME NEW k \in Slots, gone(k)
      PROVE  /\ e.req[k].state \notin UNFINISHED_REQUIREMENT_STATES
             /\ d.req[k].state \notin UNFINISHED_REQUIREMENT_STATES
  BY <1>1, <1>3, <1>7 DEF gone, UNFINISHED_REQUIREMENT_STATES, DEMAND_REQUIREMENT_STATES
<1>8. Alike(d, e)
  BY <1>3, <1>4, <1>5, <1>6, <1>7 DEF Alike
<1> QED BY <1>3, <1>8, AlikeSound

\* A slot given away is one nobody uses.
LEMMA FreshIs ==
  ASSUME NEW n \in Fresh
  PROVE  n \in Slots /\ Unused(db, n)
BY DEF Fresh, Unused, NoRequirement

LEMMA Creation ==
  ASSUME NEW d \in Db, NEW i \in Items, NEW k \in Slots,
         NEW s \in Sources, NEW f \in Fabrics \cup {None}, NEW q \in Nat,
         NEW e, e = _create_item_upholstery(d, i, s, f, q, k)
  PROVE  Initials(d, k, e)
<1>1. PICK c : c = [d EXCEPT !.iup[i] = [live |-> TRUE, source |-> s, fabric |-> f, amount |-> q,
                                         active |-> None]]
  OBVIOUS
<1>2. e = IF should_defer_requirement_creation(s, f, q) THEN c ELSE _create_initial_requirement(c, i, k)
  BY <1>1 DEF _create_item_upholstery
<1>4. PICK w : w = [live |-> TRUE, source |-> s, fabric |-> f, amount |-> q, active |-> None]
  OBVIOUS
<1>5. w \in Coverings /\ w.active = None /\ w.source = s /\ w.fabric = f /\ w.amount = q
  BY <1>4 DEF Coverings
<1>6. c = [d EXCEPT !.iup[i] = w]
  BY <1>1, <1>4
<1>7. /\ c \in Db /\ c.inv = d.inv /\ c.order = d.order /\ c.req = d.req
      /\ c.iup[i] = w /\ \A j \in Items \ {i} : c.iup[j] = d.iup[j]
  BY <1>5, <1>6 DEF Db
<1>8. Sound(d) => Sound(c)
  <2> SUFFICES ASSUME Sound(d) PROVE Sound(c)
    OBVIOUS
  <2>1. Own(c)
    <3> SUFFICES ASSUME NEW j \in Items, c.iup[j].active # None
                 PROVE  c.req[c.iup[j].active].item = j
      BY DEF Own
    <3>1. c.iup[j] = d.iup[j]
      BY <1>5, <1>7
    <3> QED BY <1>7, <3>1 DEF Own, Sound
  <2>2. Placed(c) /\ Sent(c)
    BY <1>7 DEF Placed, Sent, Sound
  <2>3. Alike(d, c)
    BY <1>7, <2>1, <2>2 DEF Alike
  <2> QED BY <2>3, AlikeSound
<1>9. Unused(d, k) => Unused(c, k)
  BY <1>7 DEF Unused
<1>10. CASE should_defer_requirement_creation(s, f, q)
  <2>1. e = c
    BY <1>2, <1>10
  <2> QED BY <1>7, <1>8, <2>1 DEF Initials
<1>11. CASE ~ should_defer_requirement_creation(s, f, q)
  <2>1. c.iup[i].amount # 0 /\ c.iup[i].source # "CUSTOMER" => c.iup[i].fabric \in Fabrics
    BY <1>5, <1>7, <1>11 DEF should_defer_requirement_creation, Sources
  <2>2. e = _create_initial_requirement(c, i, k)
    BY <1>2, <1>11
  <2>3. Initials(c, k, e)
    BY <1>7, <2>1, <2>2, Initially
  <2> QED BY <1>7, <1>8, <1>9, <2>3 DEF Initials
<1> QED BY <1>10, <1>11

LEMMA CreatedSound ==
  ASSUME NEW d, Sound(d), NEW i \in Items, NEW k \in Slots, Unused(d, k),
         NEW s \in Sources, NEW f \in Fabrics \cup {None}, NEW q \in Nat,
         NEW e, e = _create_item_upholstery(d, i, s, f, q, k)
  PROVE  Sound(e)
<1>1. d \in Db
  BY DEF Sound
<1>2. Initials(d, k, e)
  BY <1>1, Creation
<1> QED BY <1>2 DEF Initials

\* Unfinished requirements fail: the tables stay sound, whatever they held.
Cancels(d, R, e) ==
  /\ Sound(e) /\ e.iup = d.iup /\ e.order = d.order /\ e.gone = d.gone
  /\ \A k \in Slots : Unused(d, k) => Unused(e, k)

LEMMA Cancellation ==
  ASSUME NEW d, Sound(d), NEW R \in SUBSET Slots, NEW byTask \in BOOLEAN,
         NEW e, e = cancel_requirements_in_session(d, R, byTask)
  PROVE  Cancels(d, R, e)
<1> DEFINE Held(f) == OfFabric(d, f, DEMAND_REQUIREMENT_STATES) \cap R
           Due(f) == Meters(d, Held(f))
           Back(f, v) ==
             IF Due(f) = 0 /\ InUse(d, f, R) = 0 THEN v
             ELSE Evaluated([v EXCEPT !.need = Max0(v.need - Due(f)),
                                      !.stored = v.stored + InUse(d, f, R),
                                      !.use = v.use - InUse(d, f, R)])
           ends(k) == k \in R /\ d.req[k].state \in UNFINISHED_REQUIREMENT_STATES
           Ended(r) == [r EXCEPT !.state = "FAILED", !.byTask = byTask]
<1>1. d \in Db /\ Metered(d) /\ \A f \in Fabrics : Balanced(d, f)
  BY DbMetered DEF Sound
<1>2. e = [d EXCEPT !.inv = [f \in Fabrics |-> Back(f, d.inv[f])],
                    !.req = [k \in Slots |-> IF ends(k) THEN Ended(d.req[k]) ELSE d.req[k]]]
  BY Zenon DEF cancel_requirements_in_session
<1> HIDE DEF Back, ends, Ended
<1>3. /\ e.iup = d.iup /\ e.order = d.order /\ e.gone = d.gone
      /\ e.inv = [f \in Fabrics |-> Back(f, d.inv[f])]
      /\ e.req = [k \in Slots |-> IF ends(k) THEN Ended(d.req[k]) ELSE d.req[k]]
      /\ e = [inv |-> e.inv, iup |-> e.iup, req |-> e.req, order |-> e.order, gone |-> e.gone]
  BY <1>1, <1>2 DEF Db
<1>4. ASSUME NEW k \in Slots
      PROVE  /\ e.req[k] \in Needs /\ e.req[k].item = d.req[k].item
             /\ e.req[k].fabric = d.req[k].fabric /\ e.req[k].amount = d.req[k].amount
             /\ ends(k) => e.req[k].state = "FAILED"
             /\ ~ends(k) => e.req[k] = d.req[k]
  <2>1. d.req[k] \in Needs
    BY <1>1 DEF Db
  <2>2. e.req[k] = IF ends(k) THEN Ended(d.req[k]) ELSE d.req[k]
    BY <1>3
  <2>3. PICK r : r = d.req[k]
    OBVIOUS
  <2>4. r \in Needs /\ e.req[k] = IF ends(k) THEN Ended(r) ELSE r
    BY <2>1, <2>2, <2>3
  <2>5. /\ Ended(r) \in Needs /\ Ended(r).item = r.item /\ Ended(r).fabric = r.fabric
        /\ Ended(r).amount = r.amount /\ Ended(r).state = "FAILED"
    <3> HIDE <1>3, <2>2, <2>3
    <3> QED BY <2>4 DEF Needs, Ended, RequirementStates
  <2> QED BY <2>3, <2>4, <2>5
<1>5. ASSUME NEW f \in Fabrics
      PROVE  /\ Due(f) \in Nat /\ InUse(d, f, R) \in Nat
             /\ Due(f) <= d.inv[f].need /\ InUse(d, f, R) <= d.inv[f].use
             /\ d.inv[f] \in Shelves
  <2>1. \A S : OfFabric(d, f, S) \cap R \in SUBSET OfFabric(d, f, S)
               /\ OfFabric(d, f, S) \in SUBSET Slots
    BY OfFabricIs
  <2>2. \A S : /\ Meters(d, OfFabric(d, f, S) \cap R) \in Nat
               /\ Meters(d, OfFabric(d, f, S) \cap R) <= Meters(d, OfFabric(d, f, S))
    BY <1>1, <2>1, MetersWithin
  <2>3. d.inv[f] \in Shelves
    BY <1>1 DEF Db
  <2>4. /\ d.inv[f].need = Meters(d, OfFabric(d, f, DEMAND_REQUIREMENT_STATES))
        /\ d.inv[f].use = Meters(d, OfFabric(d, f, {"IN_USE"}))
    BY <1>1 DEF Balanced, Total
  <2> QED BY <2>2, <2>3, <2>4 DEF InUse
<1>6. ASSUME NEW f \in Fabrics
      PROVE  /\ e.inv[f] \in Shelves /\ e.inv[f].need = d.inv[f].need - Due(f)
             /\ e.inv[f].use = d.inv[f].use - InUse(d, f, R)
             /\ e.inv[f].stored >= d.inv[f].stored
             /\ e.inv[f].stale \/ e.inv[f].cond = evaluate_inventory_condition(e.inv[f])
             /\ e.inv[f].cond = "NONE" => e.inv[f] = d.inv[f]
  <2>1. e.inv[f] = Back(f, d.inv[f])
    BY <1>3
  <2>2. /\ Due(f) \in Nat /\ InUse(d, f, R) \in Nat
        /\ Due(f) <= d.inv[f].need /\ InUse(d, f, R) <= d.inv[f].use
        /\ d.inv[f] \in Shelves
    BY <1>5
  <2> HIDE DEF Due
  <2>3. CASE Due(f) = 0 /\ InUse(d, f, R) = 0
    <3>1. e.inv[f] = d.inv[f]
      BY <2>1, <2>3 DEF Back
    <3> QED BY <1>1, <2>2, <2>3, <3>1 DEF Balanced, Shelves
  <2>4. CASE ~(Due(f) = 0 /\ InUse(d, f, R) = 0)
    <3>1. PICK v : v = [d.inv[f] EXCEPT !.need = Max0(d.inv[f].need - Due(f)),
                                        !.stored = d.inv[f].stored + InUse(d, f, R),
                                        !.use = d.inv[f].use - InUse(d, f, R)]
      OBVIOUS
    <3>2. e.inv[f] = Evaluated(v)
      BY <2>1, <2>4, <3>1 DEF Back
    <3>3. /\ v \in Shelves /\ v.need = d.inv[f].need - Due(f)
          /\ v.use = d.inv[f].use - InUse(d, f, R) /\ v.stored >= d.inv[f].stored
      <4>1. PICK a, m, n : a = d.inv[f] /\ m = Due(f) /\ n = InUse(d, f, R)
        OBVIOUS
      <4>2. /\ a \in Shelves /\ m \in Nat /\ n \in Nat /\ m <= a.need /\ n <= a.use
            /\ v = [a EXCEPT !.need = Max0(a.need - m), !.stored = a.stored + n, !.use = a.use - n]
        BY <2>2, <3>1, <4>1
      <4>3. Max0(a.need - m) = a.need - m /\ a.need - m \in Nat /\ a.use - n \in Nat
            /\ a.stored + n \in Nat /\ a.stored + n >= a.stored
        BY <4>2 DEF Shelves, Max0
      <4>4. /\ v \in Shelves /\ v.need = a.need - m /\ v.use = a.use - n /\ v.stored = a.stored + n
        BY <4>2, <4>3 DEF Shelves
      <4> QED BY <4>1, <4>3, <4>4
    <3>4. PICK w : w = Evaluated(v)
      OBVIOUS
    <3>5. /\ w \in Shelves /\ w.cond = evaluate_inventory_condition(w) /\ w.cond # "NONE"
          /\ w.stored = v.stored /\ w.need = v.need /\ w.use = v.use
      BY <3>3, <3>4, EvaluatedIs
    <3> QED BY <3>2, <3>3, <3>4, <3>5
  <2> QED BY <2>3, <2>4
<1>7. e \in Db
  <2>1. e.req = [k \in Slots |-> e.req[k]] /\ e.inv = [f \in Fabrics |-> e.inv[f]]
    BY <1>3
  <2>2. e.req \in [Slots -> Needs] /\ e.inv \in [Fabrics -> Shelves]
    BY <2>1, <1>4, <1>6
  <2> QED BY <1>1, <1>3, <2>2 DEF Db
<1>8. Own(e)
  <2> SUFFICES ASSUME NEW j \in Items, e.iup[j].active # None
               PROVE  e.req[e.iup[j].active].item = j
    BY DEF Own
  <2>1. e.iup[j] = d.iup[j] /\ d.iup[j].active \in Slots
    BY <1>1, <1>3 DEF Db, Coverings
  <2> QED BY <1>4, <2>1 DEF Own, Sound
<1>9. Placed(e) /\ Sent(e)
  BY <1>3, <1>4 DEF Placed, Sent, Sound, Waiting
<1>10. ASSUME NEW f \in Fabrics, NEW S \in SUBSET UNFINISHED_REQUIREMENT_STATES
       PROVE  /\ Total(e, f, S) = Total(d, f, S) - Meters(d, OfFabric(d, f, S) \cap R)
              /\ Meters(d, OfFabric(d, f, S) \cap R) \in Nat
              /\ Total(d, f, S) \in Nat
  <2>1. Outside(d, e, R, f, S)
    BY <1>4 DEF Outside, OfFabric, ends
  <2>2. Shifts(d, e, R, f, S)
    BY <1>1, <1>7, <2>1, Moved
  <2>3. OfFabric(e, f, S) \cap R = {}
    <3> SUFFICES ASSUME NEW k \in Slots, k \in R, e.req[k].state \in S PROVE FALSE
      BY DEF OfFabric
    <3>1. "FAILED" \notin S
      BY DEF UNFINISHED_REQUIREMENT_STATES, DEMAND_REQUIREMENT_STATES
    <3> QED BY <1>4, <3>1 DEF ends
  <2>4. Meters(e, {}) = 0
    BY <1>7, DbMetered, MetersAre
  <2> QED BY <2>2, <2>3, <2>4 DEF Shifts
<1>11. ASSUME NEW f \in Fabrics PROVE Balanced(e, f)
  <2>1. /\ DEMAND_REQUIREMENT_STATES \in SUBSET UNFINISHED_REQUIREMENT_STATES
        /\ {"IN_USE"} \in SUBSET UNFINISHED_REQUIREMENT_STATES
        /\ {"AVAILABLE"} \in SUBSET UNFINISHED_REQUIREMENT_STATES
    BY DEF UNFINISHED_REQUIREMENT_STATES, DEMAND_REQUIREMENT_STATES
  <2>2. /\ Total(e, f, DEMAND_REQUIREMENT_STATES) = Total(d, f, DEMAND_REQUIREMENT_STATES) - Due(f)
        /\ Total(e, f, {"IN_USE"}) = Total(d, f, {"IN_USE"}) - InUse(d, f, R)
        /\ Total(e, f, {"AVAILABLE"}) <= Total(d, f, {"AVAILABLE"})
        /\ Total(e, f, {"AVAILABLE"}) \in Int /\ Total(d, f, {"AVAILABLE"}) \in Nat
    <3>1. \A S \in SUBSET UNFINISHED_REQUIREMENT_STATES :
            /\ Total(e, f, S) = Total(d, f, S) - Meters(d, OfFabric(d, f, S) \cap R)
            /\ Meters(d, OfFabric(d, f, S) \cap R) \in Nat
            /\ Total(d, f, S) \in Nat
      BY <1>10
    <3>2. /\ Total(e, f, {"AVAILABLE"})
               = Total(d, f, {"AVAILABLE"}) - Meters(d, OfFabric(d, f, {"AVAILABLE"}) \cap R)
          /\ Meters(d, OfFabric(d, f, {"AVAILABLE"}) \cap R) \in Nat
          /\ Total(d, f, {"AVAILABLE"}) \in Nat
      BY <2>1, <3>1
    <3>3. Total(e, f, DEMAND_REQUIREMENT_STATES) = Total(d, f, DEMAND_REQUIREMENT_STATES) - Due(f)
      BY <2>1, <3>1
    <3>4. Total(e, f, {"IN_USE"}) = Total(d, f, {"IN_USE"}) - InUse(d, f, R)
      BY <2>1, <3>1 DEF InUse
    <3> QED BY <3>2, <3>3, <3>4
  <2>3. Balanced(d, f) /\ d.inv[f].stored \in Nat
    BY <1>1 DEF Db, Shelves
  <2>4. e.inv[f].stored \in Nat
    BY <1>6 DEF Shelves
  <2> HIDE DEF Due
  <2> QED BY <1>6, <2>2, <2>3, <2>4 DEF Balanced
<1>12. ASSUME NEW k \in Slots, Unused(d, k) PROVE Unused(e, k)
  BY <1>4, <1>12 DEF Unused
<1> QED BY <1>3, <1>7, <1>8, <1>9, <1>11, <1>12 DEF Cancels, Sound

\* What is promised goes into use, or what is promised or in use is completed.
Promotes(d, R, target) ==
  \/ target = "IN_USE" /\ \A k \in R : d.req[k].state = "AVAILABLE"
  \/ target = "COMPLETED" /\ \A k \in R : d.req[k].state \in {"AVAILABLE", "IN_USE"}

LEMMA Promotion ==
  ASSUME NEW d, Sound(d), NEW R \in SUBSET Slots, NEW target, Promotes(d, R, target),
         NEW e, e = Promote(d, R, target)
  PROVE  Sound(e)
<1> DEFINE After(f, v) == [v EXCEPT !.stored = v.stored - Ready(d, f, R),
                                    !.use = v.use + Taken(d, f, R, target),
                                    !.need = Max0(v.need - Ready(d, f, R))]
           Moves(r) == [r EXCEPT !.state = target]
<1>1. d \in Db /\ Metered(d) /\ \A f \in Fabrics : Balanced(d, f)
  BY DbMetered DEF Sound
<1>2. e = [d EXCEPT !.inv = [f \in Fabrics |-> After(f, d.inv[f])],
                    !.req = [k \in Slots |-> IF k \in R THEN Moves(d.req[k]) ELSE d.req[k]]]
  BY Zenon DEF Promote
<1> HIDE DEF After, Moves
<1>3. /\ e.iup = d.iup /\ e.order = d.order /\ e.gone = d.gone
      /\ e.inv = [f \in Fabrics |-> After(f, d.inv[f])]
      /\ e.req = [k \in Slots |-> IF k \in R THEN Moves(d.req[k]) ELSE d.req[k]]
      /\ e = [inv |-> e.inv, iup |-> e.iup, req |-> e.req, order |-> e.order, gone |-> e.gone]
  BY <1>1, <1>2 DEF Db
<1>4. ASSUME NEW k \in Slots
      PROVE  /\ e.req[k] \in Needs /\ e.req[k].item = d.req[k].item
             /\ e.req[k].fabric = d.req[k].fabric /\ e.req[k].amount = d.req[k].amount
             /\ k \in R => e.req[k].state = target
             /\ k \notin R => e.req[k] = d.req[k]
  <2>1. d.req[k] \in Needs
    BY <1>1 DEF Db
  <2>2. e.req[k] = IF k \in R THEN Moves(d.req[k]) ELSE d.req[k]
    BY <1>3
  <2>3. PICK r : r = d.req[k]
    OBVIOUS
  <2>4. r \in Needs /\ e.req[k] = IF k \in R THEN Moves(r) ELSE r
    BY <2>1, <2>2, <2>3
  <2>5. /\ Moves(r) \in Needs /\ Moves(r).item = r.item /\ Moves(r).fabric = r.fabric
        /\ Moves(r).amount = r.amount /\ Moves(r).state = target
    <3>1. target \in RequirementStates
      BY DEF Promotes, RequirementStates, UNFINISHED_REQUIREMENT_STATES
    <3> HIDE <1>3, <2>2, <2>3
    <3> QED BY <2>4, <3>1 DEF Needs, Moves
  <2> QED BY <2>3, <2>4, <2>5
\* What each fabric gives and takes.
<1>5. ASSUME NEW f \in Fabrics
      PROVE  /\ Ready(d, f, R) \in Nat /\ InUse(d, f, R) \in Nat
             /\ Ready(d, f, R) <= Total(d, f, {"AVAILABLE"})
             /\ Ready(d, f, R) <= d.inv[f].stored /\ Ready(d, f, R) <= d.inv[f].need
             /\ InUse(d, f, R) <= d.inv[f].use /\ d.inv[f] \in Shelves
  <2>1. \A S : OfFabric(d, f, S) \cap R \in SUBSET OfFabric(d, f, S)
               /\ OfFabric(d, f, S) \in SUBSET Slots
    BY OfFabricIs
  <2>2. \A S : /\ Meters(d, OfFabric(d, f, S) \cap R) \in Nat
               /\ Meters(d, OfFabric(d, f, S) \cap R) <= Meters(d, OfFabric(d, f, S))
    BY <1>1, <2>1, MetersWithin
  <2>3. d.inv[f] \in Shelves /\ d.inv[f].stored \in Nat
    BY <1>1 DEF Db, Shelves
  <2>4. /\ Ready(d, f, R) \in Nat /\ InUse(d, f, R) \in Nat
        /\ Ready(d, f, R) <= Total(d, f, {"AVAILABLE"}) /\ InUse(d, f, R) <= Total(d, f, {"IN_USE"})
    BY <2>2 DEF Total, Ready, InUse
  <2>5. /\ d.inv[f].need = Total(d, f, DEMAND_REQUIREMENT_STATES)
        /\ d.inv[f].use = Total(d, f, {"IN_USE"})
        /\ Total(d, f, {"AVAILABLE"}) <= d.inv[f].stored
    BY <1>1 DEF Balanced
  <2>6. /\ Total(d, f, DEMAND_REQUIREMENT_STATES) = Total(d, f, {"AVAILABLE"}) + Total(d, f, Waiting)
        /\ Total(d, f, {"AVAILABLE"}) \in Nat /\ Total(d, f, Waiting) \in Nat
    BY <1>1, DemandIs
  <2> QED BY <2>3, <2>4, <2>5, <2>6
<1>6. ASSUME NEW f \in Fabrics
      PROVE  /\ e.inv[f] \in Shelves /\ e.inv[f].need = d.inv[f].need - Ready(d, f, R)
             /\ e.inv[f].use = d.inv[f].use + Taken(d, f, R, target)
             /\ e.inv[f].stored = d.inv[f].stored - Ready(d, f, R)
             /\ e.inv[f].stale \/ e.inv[f].cond = evaluate_inventory_condition(e.inv[f])
             /\ e.inv[f].cond = d.inv[f].cond
  <2>1. PICK v, m, n : v = d.inv[f] /\ m = Ready(d, f, R) /\ n = Taken(d, f, R, target)
    OBVIOUS
  <2>2. /\ v \in Shelves /\ m \in Nat /\ n \in Int /\ m <= v.need /\ m <= v.stored
        /\ v.use + n >= 0
        /\ v.stale \/ v.cond = evaluate_inventory_condition(v)
    <3>1. v.stale \/ v.cond = evaluate_inventory_condition(v)
      BY <1>1, <2>1 DEF Balanced
    <3>2. /\ v \in Shelves /\ v.use \in Nat /\ m \in Nat /\ m <= v.need /\ m <= v.stored
          /\ InUse(d, f, R) \in Nat /\ InUse(d, f, R) <= v.use
      BY <1>5, <2>1 DEF Shelves
    <3>3. n = IF target = "IN_USE" THEN m ELSE -InUse(d, f, R)
      BY <2>1 DEF Taken
    <3> QED BY <3>1, <3>2, <3>3
  <2>3. PICK w : w = [v EXCEPT !.stored = v.stored - m, !.use = v.use + n, !.need = Max0(v.need - m)]
    OBVIOUS
  <2>4. e.inv[f] = w
    <3>1. e.inv[f] = After(f, v)
      BY <1>3, <2>1
    <3>2. After(f, v) = w
      BY <2>1, <2>3, Zenon DEF After
    <3> QED BY <3>1, <3>2
  <2>5. Max0(v.need - m) = v.need - m /\ v.need - m \in Nat /\ v.stored - m \in Nat /\ v.use + n \in Nat
    BY <2>2 DEF Shelves, Max0
  <2> HIDE <2>1
  <2>6. /\ w \in Shelves /\ w.need = v.need - m /\ w.use = v.use + n /\ w.stored = v.stored - m
        /\ w.low = v.low /\ w.cond = v.cond /\ w.stale = v.stale
    BY <2>2, <2>3, <2>5 DEF Shelves
  <2>7. w.stored - w.need = v.stored - v.need
    BY <2>2, <2>6 DEF Shelves
  <2>8. evaluate_inventory_condition(w) = evaluate_inventory_condition(v)
    BY <2>6, <2>7 DEF evaluate_inventory_condition
  <2> QED BY <2>1, <2>2, <2>4, <2>6, <2>8
<1>7. e \in Db
  <2>1. e.req = [k \in Slots |-> e.req[k]] /\ e.inv = [f \in Fabrics |-> e.inv[f]]
    BY <1>3
  <2>2. e.req \in [Slots -> Needs] /\ e.inv \in [Fabrics -> Shelves]
    BY <2>1, <1>4, <1>6
  <2> QED BY <1>1, <1>3, <2>2 DEF Db
<1>8. Own(e)
  <2> SUFFICES ASSUME NEW j \in Items, e.iup[j].active # None
               PROVE  e.req[e.iup[j].active].item = j
    BY DEF Own
  <2>1. e.iup[j] = d.iup[j] /\ d.iup[j].active \in Slots
    BY <1>1, <1>3 DEF Db, Coverings
  <2> QED BY <1>4, <2>1 DEF Own, Sound
<1>9. Placed(e) /\ Sent(e)
  BY <1>3, <1>4 DEF Placed, Sent, Sound, Waiting, Promotes
<1>10. ASSUME NEW f \in Fabrics, NEW S
       PROVE  /\ Total(e, f, S) = Total(d, f, S) - Meters(d, OfFabric(d, f, S) \cap R)
                                    + Meters(e, OfFabric(e, f, S) \cap R)
              /\ Total(d, f, S) \in Nat
  <2>1. Outside(d, e, R, f, S)
    BY <1>4 DEF Outside, OfFabric
  <2>2. Shifts(d, e, R, f, S)
    BY <1>1, <1>7, <2>1, Moved
  <2> QED BY <2>2 DEF Shifts
<1>11. ASSUME NEW f \in Fabrics PROVE Balanced(e, f)
  <2>1. /\ OfFabric(d, f, DEMAND_REQUIREMENT_STATES) \cap R = OfFabric(d, f, {"AVAILABLE"}) \cap R
        /\ OfFabric(e, f, DEMAND_REQUIREMENT_STATES) \cap R = {}
        /\ OfFabric(e, f, {"AVAILABLE"}) \cap R = {}
    BY <1>4 DEF Promotes, OfFabric, DEMAND_REQUIREMENT_STATES
  <2>2. Meters(e, {}) = 0 /\ Meters(d, {}) = 0
    BY <1>1, <1>7, DbMetered, MetersAre
  <2>3. Total(e, f, DEMAND_REQUIREMENT_STATES)
          = Total(d, f, DEMAND_REQUIREMENT_STATES) - Ready(d, f, R)
    <3>1. Total(e, f, DEMAND_REQUIREMENT_STATES)
            = Total(d, f, DEMAND_REQUIREMENT_STATES) - Ready(d, f, R) + 0
      BY <1>10, <2>1, <2>2 DEF Ready
    <3>2. Total(d, f, DEMAND_REQUIREMENT_STATES) \in Nat
      BY <1>10
    <3> QED BY <1>5, <3>1, <3>2
  <2>4. Total(e, f, {"AVAILABLE"}) = Total(d, f, {"AVAILABLE"}) - Ready(d, f, R)
    <3>1. Total(e, f, {"AVAILABLE"}) = Total(d, f, {"AVAILABLE"}) - Ready(d, f, R) + 0
      BY <1>10, <2>1, <2>2 DEF Ready
    <3>2. Total(d, f, {"AVAILABLE"}) \in Nat
      BY <1>10
    <3> QED BY <1>5, <3>1, <3>2
  <2>5. Total(e, f, {"IN_USE"}) = Total(d, f, {"IN_USE"}) + Taken(d, f, R, target)
    <3>1. /\ Total(e, f, {"IN_USE"}) = Total(d, f, {"IN_USE"}) - InUse(d, f, R)
                                         + Meters(e, OfFabric(e, f, {"IN_USE"}) \cap R)
          /\ Total(d, f, {"IN_USE"}) \in Nat
      BY <1>10 DEF InUse
    <3>2. CASE target = "IN_USE"
      <4>1. OfFabric(d, f, {"IN_USE"}) \cap R = {}
        BY <3>2 DEF Promotes, OfFabric
      <4>2. OfFabric(e, f, {"IN_USE"}) \cap R = OfFabric(d, f, {"AVAILABLE"}) \cap R
        BY <1>4, <3>2 DEF Promotes, OfFabric
      <4>3. Meters(e, OfFabric(d, f, {"AVAILABLE"}) \cap R) = Ready(d, f, R)
        <5> DEFINE X == OfFabric(d, f, {"AVAILABLE"}) \cap R
        <5>1. X \in SUBSET Slots /\ \A k \in X : e.req[k].amount = d.req[k].amount
          BY <1>4
        <5> HIDE DEF X
        <5>2. Meters(e, X) = Meters(d, X)
          BY <1>1, <1>7, <5>1, DbMetered, MetersSame
        <5> QED BY <5>2 DEF X, Ready
      <4>4. InUse(d, f, R) = 0
        BY <4>1, <2>2 DEF InUse
      <4>5. Ready(d, f, R) \in Nat /\ Taken(d, f, R, target) = Ready(d, f, R)
        BY <1>5, <3>2 DEF Taken
      <4>6. Meters(e, OfFabric(e, f, {"IN_USE"}) \cap R) = Ready(d, f, R)
        BY <4>2, <4>3
      <4> HIDE <4>2, <4>3
      <4> QED BY <3>1, <4>4, <4>5, <4>6
    <3>3. CASE target # "IN_USE"
      <4>1. OfFabric(e, f, {"IN_USE"}) \cap R = {}
        BY <1>4, <3>3 DEF OfFabric
      <4>2. InUse(d, f, R) \in Nat /\ Taken(d, f, R, target) = -InUse(d, f, R)
        BY <1>5, <3>3 DEF Taken
      <4> QED BY <2>2, <3>1, <4>1, <4>2
    <3> QED BY <3>2, <3>3
  <2>6. Balanced(d, f) /\ d.inv[f].stored \in Nat
    BY <1>1 DEF Db, Shelves
  <2>7. Total(d, f, {"AVAILABLE"}) \in Nat
    BY <1>10
  <2>8. e.inv[f].cond = "NONE" => e.inv[f].need = 0 /\ e.inv[f].use = 0
    <3> SUFFICES ASSUME e.inv[f].cond = "NONE" PROVE e.inv[f].need = 0 /\ e.inv[f].use = 0
      OBVIOUS
    <3>1. d.inv[f].need = 0 /\ d.inv[f].use = 0
      BY <1>6, <2>6 DEF Balanced
    <3>2. /\ Ready(d, f, R) \in Nat /\ InUse(d, f, R) \in Nat /\ Ready(d, f, R) <= 0
          /\ e.inv[f].use \in Nat
      BY <1>5, <1>6, <3>1 DEF Shelves
    <3>3. Taken(d, f, R, target) \in Int /\ Taken(d, f, R, target) <= Ready(d, f, R)
      BY <3>2 DEF Taken
    <3> QED BY <1>6, <3>1, <3>2, <3>3
  <2> QED BY <1>5, <1>6, <2>3, <2>4, <2>5, <2>6, <2>7, <2>8 DEF Balanced
<1> QED BY <1>7, <1>8, <1>9, <1>11 DEF Sound

\* The columns of an item upholstery are set.
Covers(d, i, w, e) ==
  /\ w \in Coverings /\ w.active \in {None, d.iup[i].active}
  /\ e = [d EXCEPT !.iup[i] = w]

Recovered(d, i, w, e) ==
  /\ Sound(e) /\ e.inv = d.inv /\ e.req = d.req /\ e.iup[i] = w
  /\ \A k \in Slots : Unused(d, k) => Unused(e, k)

LEMMA CoveringSet ==
  ASSUME NEW d, Sound(d), NEW i \in Items, NEW w, NEW e, Covers(d, i, w, e)
  PROVE  Recovered(d, i, w, e)
<1>1. d \in Db
  BY DEF Sound
<1>2. /\ e \in Db /\ e.inv = d.inv /\ e.order = d.order /\ e.req = d.req
      /\ e.iup[i] = w /\ \A j \in Items \ {i} : e.iup[j] = d.iup[j]
  BY <1>1 DEF Db, Covers
<1>3. Own(e)
  <2> SUFFICES ASSUME NEW j \in Items, e.iup[j].active # None
               PROVE  e.req[e.iup[j].active].item = j
    BY DEF Own
  <2>1. e.iup[j].active = d.iup[j].active
    BY <1>2 DEF Covers
  <2> QED BY <1>2, <2>1 DEF Own, Sound
<1>4. Placed(e) /\ Sent(e)
  BY <1>2 DEF Placed, Sent, Sound
<1>5. Alike(d, e)
  BY <1>2, <1>3, <1>4 DEF Alike
<1> QED BY <1>2, <1>5, AlikeSound DEF Unused, Recovered

\* A requirement that is not in use comes to require q of fabric f: what is in need follows,
\* and the requirement is promised the fabric only if there is enough of it for everyone.
Requires(d, k, f, q, c, e) ==
  /\ NeedIs(d, f, d.inv[f].need - Part(d, k, f, DEMAND_REQUIREMENT_STATES) + q, c)
  /\ d.req[k].fabric \in {f, None} /\ d.req[k].state # "IN_USE"
  /\ e \in Db /\ e.inv = c.inv /\ \A l \in Slots \ {k} : e.req[l] = d.req[l]
  /\ e.req[k].fabric = f /\ e.req[k].amount = q
  /\ e.req[k].state = IF sufficient(c.inv[f]) THEN "AVAILABLE" ELSE "NEEDS_ORDERING"

LEMMA RequiredBalance ==
  ASSUME NEW d, Sound(d), NEW k \in Slots, NEW f \in Fabrics, NEW q \in Nat, NEW c, NEW e,
         Requires(d, k, f, q, c, e), NEW g \in Fabrics
  PROVE  Balanced(e, g)
<1>1. d \in Db /\ e \in Db /\ Balanced(d, g) /\ d.inv[g] \in Shelves
  BY DEF Sound, Db, Requires
<1>2. ASSUME NEW S
      PROVE  /\ Total(e, g, S) = Total(d, g, S) - Part(d, k, g, S) + Part(e, k, g, S)
             /\ Total(d, g, S) \in Nat /\ Part(d, k, g, S) \in Nat
             /\ Part(e, k, g, S) \in Nat /\ Part(d, k, g, S) <= Total(d, g, S)
  <2>1. \A l \in Slots \ {k} : e.req[l] = d.req[l]
    BY DEF Requires
  <2> QED BY <1>1, <2>1, OneMoved
<1>3. CASE g # f
  <2>1. e.inv[g] = d.inv[g]
    BY <1>3 DEF Requires, NeedIs, Shelved
  <2>2. \A S : Part(d, k, g, S) = 0 /\ Part(e, k, g, S) = 0
    BY <1>3, UpholsteryAssumption DEF Part, Requires
  <2>3. \A S : Total(e, g, S) = Total(d, g, S)
    BY <1>2, <2>2
  <2> QED BY <1>1, <2>1, <2>3 DEF Balanced
<1>4. CASE g = f
  <2>1. /\ e.inv[g].need = d.inv[g].need - Part(d, k, g, DEMAND_REQUIREMENT_STATES) + q
        /\ e.inv[g].stored = d.inv[g].stored /\ e.inv[g].use = d.inv[g].use
        /\ e.inv[g].cond = evaluate_inventory_condition(e.inv[g])
    BY <1>4 DEF Requires, NeedIs
  <2>2. /\ Part(e, k, g, DEMAND_REQUIREMENT_STATES) = q /\ Part(e, k, g, {"IN_USE"}) = 0
        /\ Part(d, k, g, {"IN_USE"}) = 0
    BY <1>4 DEF Requires, Part, DEMAND_REQUIREMENT_STATES
  <2>3. Total(e, g, DEMAND_REQUIREMENT_STATES) = e.inv[g].need
    <3>1. Total(e, g, DEMAND_REQUIREMENT_STATES)
            = Total(d, g, DEMAND_REQUIREMENT_STATES) - Part(d, k, g, DEMAND_REQUIREMENT_STATES) + q
      BY <1>2, <2>2
    <3> QED BY <1>1, <2>1, <3>1 DEF Balanced
  <2>4. Total(e, g, {"IN_USE"}) = e.inv[g].use
    <3>1. Total(e, g, {"IN_USE"}) = Total(d, g, {"IN_USE"}) - 0 + 0 /\ Total(d, g, {"IN_USE"}) \in Nat
      BY <1>2, <2>2
    <3> QED BY <1>1, <2>1, <3>1 DEF Balanced
  <2>5. Total(e, g, {"AVAILABLE"}) <= e.inv[g].stored
    <3>0. d.inv[g].stored \in Nat /\ e.inv[g] \in Shelves /\ Total(d, g, {"AVAILABLE"}) <= d.inv[g].stored
      BY <1>1 DEF Shelves, Balanced, Db
    <3>1. CASE sufficient(e.inv[g])
      <4>1. e.inv[g].stored - e.inv[g].need >= 0
        BY <3>1 DEF sufficient
      <4>2. /\ Total(e, g, DEMAND_REQUIREMENT_STATES) = Total(e, g, {"AVAILABLE"}) + Total(e, g, Waiting)
            /\ Total(e, g, {"AVAILABLE"}) \in Nat /\ Total(e, g, Waiting) \in Nat
        BY <1>1, DemandIs
      <4>3. e.inv[g].need \in Nat /\ e.inv[g].stored \in Nat
        BY <3>0 DEF Shelves
      <4> QED BY <2>3, <4>1, <4>2, <4>3
    <3>2. CASE ~ sufficient(e.inv[g])
      <4>1. Part(e, k, g, {"AVAILABLE"}) = 0
        BY <1>4, <3>2 DEF Part, Requires
      <4>2. /\ Total(e, g, {"AVAILABLE"}) = Total(d, g, {"AVAILABLE"}) - Part(d, k, g, {"AVAILABLE"}) + 0
            /\ Total(d, g, {"AVAILABLE"}) \in Nat /\ Part(d, k, g, {"AVAILABLE"}) \in Nat
        BY <1>2, <4>1
      <4> QED BY <2>1, <3>0, <4>2
    <3> QED BY <3>1, <3>2
  <2>6. e.inv[g].cond # "NONE"
    BY <2>1, EvaluationIs
  <2> QED BY <2>1, <2>3, <2>4, <2>5, <2>6 DEF Balanced
<1> QED BY <1>3, <1>4

\* A quantity for the active requirement keeps the tables sound.
LEMMA QuantitySound ==
  ASSUME NEW d, Sound(d), NEW i \in Items, NEW q \in Nat, MayRequire(d, i, q),
         NEW e, e = _update_quantity(d, i, q)
  PROVE  Sound(e)
<1> DEFINE u == d.iup[i]
           k == u.active
           r == d.req[k]
           Fitting(b, f) == IF f = None \/ sufficient(b.inv[f]) THEN "AVAILABLE" ELSE "NEEDS_ORDERING"
           Require(b, f) == [b EXCEPT !.req[k] = [b.req[k] EXCEPT !.amount = q, !.fabric = f,
                                                                  !.state = Fitting(b, f)]]
<1>1. d \in Db /\ u \in Coverings
  BY DEF Sound, Db
<1>2. PICK w : w = [u EXCEPT !.amount = q]
  OBVIOUS
<1>3. w \in Coverings /\ w.active = u.active /\ w.fabric = u.fabric
  BY <1>1, <1>2 DEF Coverings
<1>4. PICK c : c = [d EXCEPT !.iup[i] = w]
  OBVIOUS
<1>5. Sound(c) /\ c.inv = d.inv /\ c.req = d.req /\ c.iup[i] = w
  <2>1. Covers(d, i, w, c)
    BY <1>3, <1>4 DEF Covers
  <2>2. Recovered(d, i, w, c)
    BY <2>1, CoveringSet
  <2> QED BY <2>2 DEF Recovered
<1>6. c = [d EXCEPT !.iup[i].amount = q]
  BY <1>1, <1>2, <1>4 DEF Db
<1>7. /\ k = None => e = c
      /\ k # None /\ r.fabric = None /\ u.fabric = None => e = Require(c, None)
      /\ k # None /\ ~(r.fabric = None /\ u.fabric = None) /\ r.state = "MISSING_QUANTITY"
           => e = Require(check_and_inject_need(c, u.fabric, q), u.fabric)
      /\ k # None /\ ~(r.fabric = None /\ u.fabric = None) /\ r.state # "MISSING_QUANTITY"
           => e = IF q = r.amount THEN c ELSE Require(adjust_need(c, r.fabric, q - r.amount), r.fabric)
  <2>1. e = IF k = None THEN c
            ELSE IF r.fabric = None /\ u.fabric = None THEN Require(c, None)
            ELSE IF r.state = "MISSING_QUANTITY"
            THEN Require(check_and_inject_need(c, u.fabric, q), u.fabric)
            ELSE IF q = r.amount THEN c
            ELSE Require(adjust_need(c, r.fabric, q - r.amount), r.fabric)
    BY <1>6, Zenon DEF _update_quantity
  <2> HIDE DEF Require, u, k, r
  <2> QED BY <2>1
<1>8. k # None => /\ k \in Slots /\ r \in Needs /\ r.item = i /\ r.state \in MUTABLE_STATES
                  /\ r.state = "MISSING_QUANTITY" => r.fabric = None
                  /\ r.fabric = None /\ u.fabric # None => r.state = "MISSING_QUANTITY"
  BY <1>1 DEF MayRequire, Db, Coverings, Sound, Own, Placed
<1>a. r = d.req[k] /\ u.fabric \in Fabrics \cup {None}
  BY <1>1 DEF Coverings
<1> HIDE DEF Fitting, u, k, r
\* What Require does to tables b that have the requirements of c.
<1>9. ASSUME k # None, NEW b \in Db, b.req = c.req, b.iup = c.iup, b.order = c.order,
             NEW f \in Fabrics \cup {None}, NEW o, o = Require(b, f)
      PROVE  /\ o \in Db /\ o.inv = b.inv /\ Own(o) /\ Placed(o) /\ Sent(o)
             /\ \A l \in Slots \ {k} : o.req[l] = c.req[l]
             /\ o.req[k].fabric = f /\ o.req[k].amount = q /\ o.req[k].state = Fitting(b, f)
  <2>1. PICK s : s = [b.req[k] EXCEPT !.amount = q, !.fabric = f, !.state = Fitting(b, f)]
    OBVIOUS
  <2>2. b.req[k] = r /\ k \in Slots /\ r \in Needs
    BY <1>5, <1>8, <1>9, <1>a
  <2>3. Fitting(b, f) \in {"AVAILABLE", "NEEDS_ORDERING"} /\ (f = None => Fitting(b, f) = "AVAILABLE")
    BY DEF Fitting
  <2>4. /\ s \in Needs /\ s.fabric = f /\ s.amount = q /\ s.state = Fitting(b, f)
        /\ s.item = r.item
    BY <2>1, <2>2, <2>3
       DEF Needs, RequirementStates, UNFINISHED_REQUIREMENT_STATES, DEMAND_REQUIREMENT_STATES
  <2>5. o = [b EXCEPT !.req[k] = s]
    BY <1>9, <2>1
  <2>6. /\ o.inv = b.inv /\ o.iup = b.iup /\ o.order = b.order /\ o \in Db /\ o.req[k] = s
        /\ \A l \in Slots \ {k} : o.req[l] = b.req[l]
    BY <2>2, <2>4, <2>5 DEF Db
  <2>7. Own(o)
    <3> SUFFICES ASSUME NEW j \in Items, o.iup[j].active # None
                 PROVE  o.req[o.iup[j].active].item = j
      BY DEF Own
    <3>1. c.iup[j].active \in Slots /\ o.iup[j] = c.iup[j]
      BY <1>5, <1>9, <2>6 DEF Sound, Db, Coverings
    <3>2. c.req[c.iup[j].active].item = j
      BY <1>5, <3>1 DEF Sound, Own
    <3> QED BY <1>9, <2>2, <2>4, <2>6, <3>1, <3>2
  <2>8. Placed(o)
    <3> SUFFICES ASSUME NEW l \in Slots
                 PROVE  /\ o.req[l].state \in Waiting => o.req[l].fabric \in Fabrics
                        /\ o.req[l].state = "MISSING_QUANTITY" => o.req[l].fabric = None
      BY DEF Placed
    <3>1. CASE l = k
      BY <2>3, <2>4, <2>6, <3>1 DEF Waiting
    <3>2. CASE l # k
      <4>1. o.req[l] = c.req[l]
        BY <1>9, <2>6, <3>2
      <4> QED BY <1>5, <4>1 DEF Sound, Placed
    <3> QED BY <3>1, <3>2
  <2>9. Sent(o)
    BY <1>5, <1>9, <2>6 DEF Sound, Sent
  <2> QED BY <1>9, <2>4, <2>6, <2>7, <2>8, <2>9
<1>10. CASE k = None \/ (r.state # "MISSING_QUANTITY" /\ q = r.amount
                         /\ ~(r.fabric = None /\ u.fabric = None))
  <2> HIDE DEF Require
  <2> QED BY <1>5, <1>7, <1>10
<1> HIDE DEF Require
<1>11. CASE k # None /\ r.fabric = None /\ u.fabric = None
  <2>1. e = Require(c, None)
    BY <1>7, <1>11
  <2>2. c \in Db
    BY <1>5 DEF Sound
  <2>3. /\ e \in Db /\ e.inv = c.inv /\ Own(e) /\ Placed(e) /\ Sent(e)
        /\ \A l \in Slots \ {k} : e.req[l] = c.req[l]
        /\ e.req[k].fabric = None
    BY <1>9, <1>11, <2>1, <2>2
  <2>4. ASSUME NEW f \in Fabrics PROVE Balanced(e, f)
    <3>1. \A S : Part(c, k, f, S) = 0 /\ Part(e, k, f, S) = 0
      BY <1>5, <1>11, <1>a, <2>3, UpholsteryAssumption DEF Part
    <3>2. \A S : Total(e, f, S) = Total(c, f, S) - Part(c, k, f, S) + Part(e, k, f, S)
                 /\ Total(c, f, S) \in Nat
      BY <1>8, <1>11, <2>2, <2>3, OneMoved
    <3>3. \A S : Total(e, f, S) = Total(c, f, S)
      BY <3>1, <3>2
    <3> QED BY <1>5, <2>3, <3>3 DEF Balanced, Sound
  <2> QED BY <2>3, <2>4 DEF Sound
<1>12. CASE k # None /\ ~(r.fabric = None /\ u.fabric = None)
            /\ ~(r.state # "MISSING_QUANTITY" /\ q = r.amount)
  <2>1. PICK f : /\ r.state = "MISSING_QUANTITY" => f = u.fabric
                 /\ r.state # "MISSING_QUANTITY" => f = r.fabric
    OBVIOUS
  <2>a. PICK n : n = d.inv[f].need - Part(d, k, f, DEMAND_REQUIREMENT_STATES) + q
    OBVIOUS
  <2>2. PICK b : /\ r.state = "MISSING_QUANTITY" => b = check_and_inject_need(c, f, q)
                 /\ r.state # "MISSING_QUANTITY" => b = adjust_need(c, f, q - r.amount)
    OBVIOUS
  <2>3. e = Require(b, f)
    BY <1>7, <1>12, <2>1, <2>2
  <2>4. f \in Fabrics /\ r.fabric \in {f, None} /\ r.amount \in Nat
    BY <1>8, <1>12, <1>a, <2>1 DEF Needs
  <2>5. c \in Db /\ c.inv[f] = d.inv[f] /\ d.inv[f].need \in Nat
    BY <1>1, <1>5, <2>4 DEF Sound, Db, Shelves
  <2>6. NeedIs(c, f, n, b)
    <3>1. CASE r.state = "MISSING_QUANTITY"
      <4>1. Part(d, k, f, DEMAND_REQUIREMENT_STATES) = 0
        BY <1>a, <3>1 DEF Part, DEMAND_REQUIREMENT_STATES
      <4>2. n = d.inv[f].need + q
        BY <2>a, <2>5, <4>1
      <4> QED BY <2>2, <2>4, <2>5, <3>1, <4>2, Injected
    <3>2. CASE r.state # "MISSING_QUANTITY"
      <4>1. r.fabric = f /\ r.state \in DEMAND_REQUIREMENT_STATES
        BY <1>8, <1>12, <2>1, <3>2 DEF MUTABLE_STATES, DEMAND_REQUIREMENT_STATES
      <4>2. Part(d, k, f, DEMAND_REQUIREMENT_STATES) = r.amount
        BY <1>a, <4>1 DEF Part
      <4>3. r.amount <= d.inv[f].need
        <5>1. Part(d, k, f, DEMAND_REQUIREMENT_STATES) <= Total(d, f, DEMAND_REQUIREMENT_STATES)
          <6>1. k \in Slots /\ \A l \in Slots \ {k} : d.req[l] = d.req[l]
            BY <1>8, <1>12
          <6> QED BY <1>1, <6>1, OneMoved
        <5> QED BY <2>4, <4>2, <5>1 DEF Sound, Balanced
      <4>4. n = Max0(c.inv[f].need + (q - r.amount)) /\ q - r.amount \in Int
        BY <2>a, <2>4, <2>5, <4>2, <4>3 DEF Max0
      <4> QED BY <2>2, <2>4, <2>5, <3>2, <4>4, Adjusted
    <3> QED BY <3>1, <3>2
  <2>7. b \in Db /\ b.req = c.req /\ b.iup = c.iup /\ b.order = c.order
    BY <2>6 DEF NeedIs, Shelved
  <2>8. /\ e \in Db /\ e.inv = b.inv /\ Own(e) /\ Placed(e) /\ Sent(e)
        /\ \A l \in Slots \ {k} : e.req[l] = c.req[l]
        /\ e.req[k].fabric = f /\ e.req[k].amount = q /\ e.req[k].state = Fitting(b, f)
    BY <1>9, <1>12, <2>3, <2>4, <2>7
  <2>9. Requires(c, k, f, q, b, e)
    <3>1. Part(c, k, f, DEMAND_REQUIREMENT_STATES) = Part(d, k, f, DEMAND_REQUIREMENT_STATES)
          /\ c.req[k] = r
      BY <1>5, <1>a DEF Part
    <3>2. f # None
      BY <2>4, UpholsteryAssumption
    <3>3. r.state # "IN_USE"
      BY <1>8, <1>12 DEF MUTABLE_STATES
    <3>4. e.req[k].state = IF sufficient(b.inv[f]) THEN "AVAILABLE" ELSE "NEEDS_ORDERING"
      BY <2>8, <3>2 DEF Fitting
    <3> QED BY <2>a, <2>4, <2>5, <2>6, <2>8, <3>1, <3>3, <3>4 DEF Requires
  <2>10. \A g \in Fabrics : Balanced(e, g)
    BY <1>5, <1>8, <1>12, <2>4, <2>9, RequiredBalance
  <2> QED BY <2>8, <2>10 DEF Sound
<1> QED BY <1>10, <1>11, <1>12

\* So does another source, fabric or amount for the current item upholstery.
LEMMA UpdateSound ==
  ASSUME NEW d, Sound(d), NEW i \in Items, NEW s \in Sources, NEW f \in Fabrics \cup {None},
         NEW q \in Nat, MayUpdate(d, i, s, f, q), NEW n \in Slots, Unused(d, n),
         NEW e, e = _update_item_upholstery(d, i, s, f, q, n)
  PROVE  Sound(e)
<1> DEFINE u == d.iup[i]
           set == [u EXCEPT !.source = s, !.fabric = f, !.amount = q]
           Back == cancel_requirements_in_session(d, {u.active}, FALSE)
<1>1. d \in Db /\ u \in Coverings
  BY DEF Sound, Db
<1>2. /\ ~Swaps(d, i, s, f) => e = [d EXCEPT !.iup[i].amount = q]
      /\ Swaps(d, i, s, f) /\ u.active = None /\ s = "INTERNAL" /\ f # None
           => e = _create_initial_requirement([d EXCEPT !.iup[i] = set], i, n)
      /\ Swaps(d, i, s, f) /\ u.active = None /\ ~(s = "INTERNAL" /\ f # None)
           => e = [d EXCEPT !.iup[i] = set]
      /\ Swaps(d, i, s, f) /\ u.active # None
           => e = _create_initial_requirement([Back EXCEPT !.iup[i] = set], i, n)
  <2>1. e = IF ~Swaps(d, i, s, f) THEN [d EXCEPT !.iup[i].amount = q]
            ELSE IF u.active = None
            THEN IF s = "INTERNAL" /\ f # None
                 THEN _create_initial_requirement([d EXCEPT !.iup[i] = set], i, n)
                 ELSE [d EXCEPT !.iup[i] = set]
            ELSE _create_initial_requirement([Back EXCEPT !.iup[i] = set], i, n)
    BY Zenon DEF _update_item_upholstery
  <2> HIDE DEF u, set, Back
  <2> QED BY <2>1
<1>3. Swaps(d, i, s, f) /\ u.active # None => ~(s # "CUSTOMER" /\ f = None)
  BY DEF MayUpdate
<1>4. PICK w : w = set
  OBVIOUS
<1>5. /\ w \in Coverings /\ w.active = u.active /\ w.source = s /\ w.fabric = f /\ w.amount = q
  BY <1>1, <1>4 DEF Coverings
<1>6. PICK b : b = Back
  OBVIOUS
<1>7. u = d.iup[i] /\ u.active \in Slots \cup {None}
  BY <1>1 DEF Coverings
<1>8. CASE ~Swaps(d, i, s, f)
  <2>1. PICK v : v = [u EXCEPT !.amount = q]
    OBVIOUS
  <2>2. v \in Coverings /\ v.active = u.active
    BY <1>1, <2>1 DEF Coverings
  <2>3. e = [d EXCEPT !.iup[i] = v]
    <3>1. e = [d EXCEPT !.iup[i].amount = q]
      BY <1>2, <1>8
    <3> HIDE <1>2, <1>8
    <3> QED BY <1>1, <2>1, <3>1 DEF Db
  <2>4. Covers(d, i, v, e)
    BY <2>2, <2>3 DEF Covers
  <2>5. Recovered(d, i, v, e)
    BY <2>4, CoveringSet
  <2> QED BY <2>5 DEF Recovered
<1> HIDE DEF u, set, Back
<1>9. ASSUME NEW c, Sound(c), c.iup[i].active = u.active, Unused(c, n),
             q # 0 /\ s # "CUSTOMER" => f \in Fabrics,
             NEW o, o = [c EXCEPT !.iup[i] = w]
      PROVE  Sound(o) /\ Sound(_create_initial_requirement(o, i, n))
  <2>1. Covers(c, i, w, o)
    BY <1>5, <1>9 DEF Covers
  <2>2. Recovered(c, i, w, o)
    BY <1>9, <2>1, CoveringSet
  <2>3. Sound(o) /\ Unused(o, n) /\ o.iup[i] = w
    BY <1>9, <2>2 DEF Recovered
  <2>4. o.iup[i].amount # 0 /\ o.iup[i].source # "CUSTOMER" => o.iup[i].fabric \in Fabrics
    BY <1>5, <1>9, <2>3
  <2>5. PICK a : a = _create_initial_requirement(o, i, n)
    OBVIOUS
  <2>6. Sound(a)
    BY <2>3, <2>4, <2>5, InitialSound
  <2> QED BY <2>3, <2>5, <2>6
<1>10. CASE Swaps(d, i, s, f) /\ u.active = None
  <2>1. PICK o : o = [d EXCEPT !.iup[i] = w]
    OBVIOUS
  <2>2. Recovered(d, i, w, o)
    <3>1. Covers(d, i, w, o)
      BY <1>5, <1>7, <2>1 DEF Covers
    <3> QED BY <3>1, CoveringSet
  <2>3. CASE s = "INTERNAL" /\ f # None
    <3>1. f \in Fabrics /\ d.iup[i].active = u.active
      BY <1>7, <2>3
    <3>2. Sound(_create_initial_requirement(o, i, n))
      BY <1>9, <2>1, <3>1
    <3>3. e = _create_initial_requirement(o, i, n)
      BY <1>2, <1>4, <1>10, <2>1, <2>3
    <3> QED BY <3>2, <3>3
  <2>4. CASE ~(s = "INTERNAL" /\ f # None)
    <3>1. e = o
      BY <1>2, <1>4, <1>10, <2>1, <2>4
    <3> QED BY <2>2, <3>1 DEF Recovered
  <2> QED BY <2>3, <2>4
<1>11. CASE Swaps(d, i, s, f) /\ u.active # None
  <2>1. Cancels(d, {u.active}, b)
    <3>1. {u.active} \in SUBSET Slots /\ FALSE \in BOOLEAN
      BY <1>7, <1>11
    <3>2. b = cancel_requirements_in_session(d, {u.active}, FALSE)
      BY <1>6 DEF Back
    <3> QED BY <3>1, <3>2, Cancellation
  <2>2. Sound(b) /\ b.iup[i].active = u.active /\ Unused(b, n)
    BY <1>7, <2>1 DEF Cancels
  <2>3. s # "CUSTOMER" => f \in Fabrics
    BY <1>3, <1>11
  <2>4. PICK o : o = [b EXCEPT !.iup[i] = w]
    OBVIOUS
  <2>5. Sound(_create_initial_requirement(o, i, n))
    BY <1>9, <2>2, <2>3, <2>4
  <2>6. e = _create_initial_requirement(o, i, n)
    BY <1>2, <1>4, <1>6, <1>11, <2>4
  <2> QED BY <2>5, <2>6
<1> QED BY <1>8, <1>10, <1>11

\* The row of a fabric is written to, its amounts in need and in use left alone.
Restocks(d, f, v, e) ==
  /\ v \in Shelves /\ v.need = d.inv[f].need /\ v.use = d.inv[f].use
  /\ v.stale \/ v.cond = evaluate_inventory_condition(v)
  /\ v.cond = "NONE" => d.inv[f].cond = "NONE"
  /\ e = [d EXCEPT !.inv[f] = v]

LEMMA Restocked ==
  ASSUME NEW d, Sound(d), NEW f \in Fabrics, NEW v, NEW e, Restocks(d, f, v, e),
         Total(d, f, {"AVAILABLE"}) <= v.stored
  PROVE  Sound(e) /\ Shelved(d, f, v, e)
<1>1. d \in Db /\ v \in Shelves /\ e = [d EXCEPT !.inv[f] = v]
  BY DEF Sound, Restocks
<1>2. Shelved(d, f, v, e)
  BY <1>1, ShelvedIs
<1>3. \A g, S : Total(e, g, S) = Total(d, g, S)
  <2>1. e.req = d.req
    BY <1>2 DEF Shelved
  <2> QED BY <2>1, SameRequirements
<1>4. ASSUME NEW g \in Fabrics PROVE Balanced(e, g)
  <2>1. Balanced(d, g)
    BY DEF Sound
  <2>2. CASE g = f
    <3>1. e.inv[g] = v
      BY <1>2, <2>2 DEF Shelved
    <3> QED BY <1>3, <2>1, <2>2, <3>1 DEF Balanced, Restocks
  <2>3. CASE g # f
    <3>1. e.inv[g] = d.inv[g]
      BY <1>2, <2>3 DEF Shelved
    <3> QED BY <1>3, <2>1, <3>1 DEF Balanced
  <2> QED BY <2>2, <2>3
<1>5. Own(e) /\ Placed(e) /\ Sent(e)
  BY <1>2 DEF Own, Placed, Sent, Sound, Shelved
<1> QED BY <1>2, <1>4, <1>5 DEF Sound, Shelved

\* The stock and what is ordered are written to and the row is evaluated.
Stocks(d, f, n, m, e) ==
  e = [d EXCEPT !.inv[f] = Evaluated([d.inv[f] EXCEPT !.ordered = m, !.stored = n])]

LEMMA Stocked ==
  ASSUME NEW d \in Db, NEW f \in Fabrics, NEW n \in Nat, NEW m \in Nat, NEW e,
         Stocks(d, f, n, m, e)
  PROVE  \E v : Restocks(d, f, v, e) /\ v.stored = n
<1>1. PICK a : a = d.inv[f]
  OBVIOUS
<1>2. PICK w : w = [a EXCEPT !.ordered = m, !.stored = n]
  OBVIOUS
<1>3. w \in Shelves /\ w.stored = n /\ w.need = a.need /\ w.use = a.use
  <2>1. a \in Shelves
    BY <1>1 DEF Db
  <2> QED BY <1>2, <2>1 DEF Shelves
<1>4. PICK v : v = Evaluated(w)
  OBVIOUS
<1>5. /\ v \in Shelves /\ v.cond = evaluate_inventory_condition(v) /\ v.cond # "NONE"
      /\ v.stored = w.stored /\ v.need = w.need /\ v.use = w.use
  BY <1>3, <1>4, EvaluatedIs
<1>6. e = [d EXCEPT !.inv[f] = v]
  BY <1>1, <1>2, <1>4 DEF Stocks
<1> QED BY <1>1, <1>3, <1>5, <1>6 DEF Restocks

LEMMA SurplusStocks ==
  ASSUME NEW d \in Db, NEW f \in Fabrics, NEW q \in Nat, NEW e, e = add_stored_surplus(d, f, q)
  PROVE  Stocks(d, f, d.inv[f].stored + q, d.inv[f].ordered, e)
<1>1. PICK v : v = d.inv[f] /\ v \in Shelves
  BY DEF Db
<1>2. [v EXCEPT !.stored = v.stored + q] = [v EXCEPT !.ordered = v.ordered, !.stored = v.stored + q]
  <2>1. PICK n, m : n = v.stored + q /\ m = v.ordered
    OBVIOUS
  <2>2. [v EXCEPT !.stored = n] = [v EXCEPT !.ordered = m, !.stored = n]
    BY <1>1, <2>1 DEF Shelves
  <2> QED BY <2>1, <2>2
<1>3. e = [d EXCEPT !.inv[f] = Evaluated([v EXCEPT !.stored = v.stored + q])]
  BY <1>1 DEF add_stored_surplus
<1> QED BY <1>1, <1>2, <1>3 DEF Stocks

\* Fabric given to a requirement that waits is stock and promise at once: first the stock.
Roomy(c, k, q) ==
  LET f == c.req[k].fabric IN
  /\ Sound(c) /\ k \in Slots /\ q \in Nat /\ f \in Fabrics /\ c.req[k].state \in Waiting
  /\ q <= c.req[k].amount /\ Total(c, f, {"AVAILABLE"}) + q <= c.inv[f].stored

LEMMA Given ==
  ASSUME NEW d, Sound(d), NEW k \in Slots, NEW q \in Nat,
         d.req[k].state \in Waiting, q <= d.req[k].amount,
         NEW c, c = add_stored_surplus(d, d.req[k].fabric, q)
  PROVE  Roomy(c, k, q) /\ c.req = d.req
<1>1. PICK f : f = d.req[k].fabric
  OBVIOUS
<1>2. d \in Db /\ f \in Fabrics /\ Balanced(d, f) /\ d.inv[f] \in Shelves
  BY <1>1 DEF Sound, Placed, Db
<1>3. d.inv[f].stored \in Nat /\ d.inv[f].ordered \in Nat /\ Total(d, f, {"AVAILABLE"}) \in Nat
  <2>1. Total(d, f, {"AVAILABLE"}) \in Nat
    BY <1>2, DemandIs
  <2> QED BY <1>2, <2>1 DEF Shelves
<1>4. PICK v : Restocks(d, f, v, c) /\ v.stored = d.inv[f].stored + q
  <2>1. c = add_stored_surplus(d, f, q)
    BY <1>1
  <2>2. Stocks(d, f, d.inv[f].stored + q, d.inv[f].ordered, c)
    BY <1>2, <2>1, SurplusStocks
  <2>3. d.inv[f].stored + q \in Nat
    BY <1>3
  <2> QED BY <1>2, <1>3, <2>2, <2>3, Stocked
<1>5. Total(d, f, {"AVAILABLE"}) <= d.inv[f].stored
  BY <1>2 DEF Balanced
<1>6. Sound(c) /\ Shelved(d, f, v, c)
  <2>1. Total(d, f, {"AVAILABLE"}) <= v.stored
    BY <1>3, <1>4, <1>5
  <2> QED BY <1>2, <1>4, <2>1, Restocked
<1>7. c.req = d.req /\ c.inv[f].stored = d.inv[f].stored + q
  BY <1>4, <1>6 DEF Shelved
<1>8. Total(c, f, {"AVAILABLE"}) = Total(d, f, {"AVAILABLE"})
  BY <1>7, SameRequirements
<1> QED BY <1>1, <1>2, <1>3, <1>5, <1>6, <1>7, <1>8 DEF Roomy

\* Then the promise, where it is all the requirement waits for.
Whole(c, k) == [c EXCEPT !.req[k].state = "AVAILABLE"]

LEMMA WholeSound ==
  ASSUME NEW c, NEW k, NEW q, Roomy(c, k, q), q = c.req[k].amount, NEW e, e = Whole(c, k)
  PROVE  Sound(e)
<1>1. PICK f : f = c.req[k].fabric
  OBVIOUS
<1>2. /\ Sound(c) /\ c \in Db /\ k \in Slots /\ q \in Nat /\ f \in Fabrics
      /\ c.req[k].state \in Waiting /\ Total(c, f, {"AVAILABLE"}) + q <= c.inv[f].stored
  BY <1>1 DEF Roomy, Sound
<1>3. e = Relabel(c, {k}, "AVAILABLE")
  <2>1. c.req \in [Slots -> Needs]
    BY <1>2 DEF Db
  <2>2. [c.req EXCEPT ![k].state = "AVAILABLE"]
          = [l \in Slots |-> IF l \in {k} THEN [c.req[l] EXCEPT !.state = "AVAILABLE"] ELSE c.req[l]]
    BY <2>1
  <2>3. e = [c EXCEPT !.req = [c.req EXCEPT ![k].state = "AVAILABLE"]]
    BY DEF Whole
  <2> QED BY <2>2, <2>3, Zenon DEF Relabel
<1>4. {k} \in SUBSET OfFabric(c, f, DEMAND_REQUIREMENT_STATES) /\ {k} \in SUBSET Slots
  BY <1>1, <1>2 DEF OfFabric, DEMAND_REQUIREMENT_STATES, Waiting
<1>5. "AVAILABLE" \in DEMAND_REQUIREMENT_STATES /\ "AVAILABLE" \in RequirementStates
  BY DEF DEMAND_REQUIREMENT_STATES, RequirementStates, UNFINISHED_REQUIREMENT_STATES
<1>6. Relabels(c, {k}, "AVAILABLE", e)
  BY <1>2, <1>3, <1>4, <1>5, Relabelled
<1>7. Total(e, f, {"AVAILABLE"}) <= c.inv[f].stored
  <2>1. /\ e \in Db /\ \A l \in Slots \ {k} : e.req[l] = c.req[l]
        /\ e.req[k].fabric = f /\ e.req[k].amount = q /\ e.req[k].state = "AVAILABLE"
    BY <1>1, <1>2, <1>6 DEF Relabels
  <2>2. Part(c, k, f, {"AVAILABLE"}) = 0
    BY <1>2 DEF Part, Waiting
  <2>3. Part(e, k, f, {"AVAILABLE"}) = q
    BY <2>1 DEF Part
  <2>4. /\ Total(e, f, {"AVAILABLE"}) = Total(c, f, {"AVAILABLE"}) - 0 + q
        /\ Total(c, f, {"AVAILABLE"}) \in Nat
    BY <1>2, <2>1, <2>2, <2>3, OneMoved
  <2> QED BY <1>2, <2>4
<1> QED BY <1>2, <1>3, <1>4, <1>5, <1>7, ServesSoundly

\* Or where it is a part of it: the requirement is split.
Split(c, k, n, q) ==
  [c EXCEPT !.req[k].amount = @ - q, !.req[n] = [c.req[k] EXCEPT !.amount = q, !.state = "AVAILABLE"]]

Splits(c, k, n, q, e) ==
  LET r == c.req[k] IN
  /\ e \in Db /\ e.inv = c.inv /\ e.iup = c.iup /\ e.order = c.order
  /\ \A l \in Slots \ {k, n} : e.req[l] = c.req[l]
  /\ e.req[k].item = r.item /\ e.req[k].fabric = r.fabric /\ e.req[k].state = r.state
  /\ e.req[k].amount = r.amount - q
  /\ e.req[n].item = r.item /\ e.req[n].fabric = r.fabric /\ e.req[n].state = "AVAILABLE"
  /\ e.req[n].amount = q

LEMMA SplitIs ==
  ASSUME NEW c \in Db, NEW k \in Slots, NEW n \in Slots \ {k}, NEW q \in Nat, q <= c.req[k].amount,
         NEW e, e = Split(c, k, n, q)
  PROVE  Splits(c, k, n, q, e)
<1>1. PICK r : r = c.req[k] /\ r \in Needs /\ r.amount - q \in Nat
  BY DEF Db, Needs
<1>2. PICK s, t : s = [r EXCEPT !.amount = r.amount - q] /\ t = [r EXCEPT !.amount = q, !.state = "AVAILABLE"]
  OBVIOUS
<1>3. /\ s \in Needs /\ s.item = r.item /\ s.fabric = r.fabric /\ s.amount = r.amount - q
      /\ s.state = r.state
      /\ t \in Needs /\ t.item = r.item /\ t.fabric = r.fabric /\ t.amount = q
      /\ t.state = "AVAILABLE"
  BY <1>1, <1>2
     DEF Needs, RequirementStates, UNFINISHED_REQUIREMENT_STATES, DEMAND_REQUIREMENT_STATES
<1>4. PICK b : b = [c EXCEPT !.req[k] = s]
  OBVIOUS
<1>5. e = [b EXCEPT !.req[n] = t]
  <2>1. e = [[c EXCEPT !.req[k].amount = c.req[k].amount - q] EXCEPT !.req[n] = t]
    BY <1>1, <1>2, Zenon DEF Split
  <2>2. [c EXCEPT !.req[k].amount = c.req[k].amount - q] = b
    BY <1>1, <1>2, <1>4
  <2> QED BY <2>1, <2>2
<1>6. /\ b \in Db /\ b.inv = c.inv /\ b.iup = c.iup /\ b.order = c.order /\ b.req[k] = s
      /\ \A l \in Slots \ {k} : b.req[l] = c.req[l]
  BY <1>3, <1>4 DEF Db
<1>7. /\ e \in Db /\ e.inv = b.inv /\ e.iup = b.iup /\ e.order = b.order /\ e.req[n] = t
      /\ \A l \in Slots \ {n} : e.req[l] = b.req[l]
  BY <1>3, <1>5, <1>6 DEF Db
<1> QED BY <1>1, <1>3, <1>6, <1>7 DEF Splits

LEMMA SplitSound ==
  ASSUME NEW c, NEW k, NEW q, Roomy(c, k, q), NEW n \in Slots, Unused(c, n), c.req[k].item # None,
         NEW e, e = Split(c, k, n, q)
  PROVE  Sound(e)
<1>1. PICK f, a : f = c.req[k].fabric /\ a = c.req[k].amount
  OBVIOUS
<1>2. /\ Sound(c) /\ c \in Db /\ k \in Slots /\ q \in Nat /\ f \in Fabrics /\ q <= a /\ a \in Nat
      /\ c.req[k].state \in Waiting /\ Total(c, f, {"AVAILABLE"}) + q <= c.inv[f].stored
  BY <1>1 DEF Roomy, Sound, Db, Needs
<1>3. n # k
  BY DEF Unused
<1>4. Splits(c, k, n, q, e)
  BY <1>1, <1>2, <1>3, SplitIs
<1>5. /\ e \in Db /\ e.inv = c.inv /\ e.iup = c.iup /\ e.order = c.order
      /\ \A l \in Slots \ {k, n} : e.req[l] = c.req[l]
  BY <1>4 DEF Splits
<1>6. /\ e.req[k].item = c.req[k].item /\ e.req[k].fabric = f /\ e.req[k].state = c.req[k].state
      /\ e.req[k].amount = a - q
      /\ e.req[n].item = c.req[k].item /\ e.req[n].fabric = f /\ e.req[n].state = "AVAILABLE"
      /\ e.req[n].amount = q
  BY <1>1, <1>4 DEF Splits
\* The two rows are one place where the totals change.
<1>7. ASSUME NEW g, NEW S, "FAILED" \notin S
      PROVE  /\ Total(e, g, S) = Total(c, g, S) - Part(c, k, g, S) + Part(e, k, g, S) + Part(e, n, g, S)
             /\ Total(c, g, S) \in Nat
  <2>1. PICK X : X = {k, n} /\ X \in SUBSET Slots
    BY <1>2
  <2>2. Shifts(c, e, X, g, S)
    <3>1. Outside(c, e, X, g, S)
      BY <1>5, <2>1 DEF Outside, OfFabric
    <3> QED BY <1>2, <1>5, <2>1, <3>1, Moved
  <2>3. Meters(c, OfFabric(c, g, S) \cap X) = Part(c, k, g, S)
    <3>1. OfFabric(c, g, S) \cap X = IF c.req[k].fabric = g /\ c.req[k].state \in S THEN {k} ELSE {}
      BY <1>2, <1>7, <2>1 DEF OfFabric, Unused
    <3>2. Meters(c, {k}) = c.req[k].amount /\ Meters(c, {}) = 0
      BY <1>2, DbMetered, MetersAre
    <3> QED BY <3>1, <3>2 DEF Part
  <2>4. Meters(e, OfFabric(e, g, S) \cap X) = Part(e, k, g, S) + Part(e, n, g, S)
    <3>1. PICK A, B : A = OfFabric(e, g, S) \cap {k} /\ B = OfFabric(e, g, S) \cap {n}
      OBVIOUS
    <3>2. /\ OfFabric(e, g, S) \cap X = A \cup B /\ A \cap B = {}
          /\ A \in SUBSET Slots /\ B \in SUBSET Slots
      BY <1>2, <1>3, <2>1, <3>1
    <3>3. Meters(e, A \cup B) = Meters(e, A) + Meters(e, B)
      BY <1>5, <3>2, DbMetered, MetersApart
    <3>4. /\ A = IF e.req[k].fabric = g /\ e.req[k].state \in S THEN {k} ELSE {}
          /\ B = IF e.req[n].fabric = g /\ e.req[n].state \in S THEN {n} ELSE {}
      BY <1>2, <3>1 DEF OfFabric
    <3>5. Meters(e, {k}) = e.req[k].amount /\ Meters(e, {n}) = e.req[n].amount /\ Meters(e, {}) = 0
      BY <1>2, <1>5, DbMetered, MetersAre
    <3>6. Meters(e, A) = Part(e, k, g, S) /\ Meters(e, B) = Part(e, n, g, S)
      BY <3>4, <3>5 DEF Part
    <3> QED BY <3>2, <3>3, <3>6
  <2>5. Part(e, k, g, S) \in Nat /\ Part(e, n, g, S) \in Nat /\ Part(c, k, g, S) \in Nat
    BY <1>1, <1>2, <1>6 DEF Part
  <2> QED BY <2>2, <2>3, <2>4, <2>5 DEF Shifts
<1>8. ASSUME NEW g \in Fabrics PROVE Balanced(e, g)
  <2>1. Balanced(c, g) /\ e.inv[g] = c.inv[g]
    BY <1>2, <1>5 DEF Sound
  <2>2. CASE g # f
    <3>1. \A S : Part(c, k, g, S) = 0 /\ Part(e, k, g, S) = 0 /\ Part(e, n, g, S) = 0
      BY <1>1, <1>6, <2>2 DEF Part
    <3>2. \A S : "FAILED" \notin S => Total(e, g, S) = Total(c, g, S)
      BY <1>7, <3>1
    <3>3. /\ Total(e, g, DEMAND_REQUIREMENT_STATES) = Total(c, g, DEMAND_REQUIREMENT_STATES)
          /\ Total(e, g, {"IN_USE"}) = Total(c, g, {"IN_USE"})
          /\ Total(e, g, {"AVAILABLE"}) = Total(c, g, {"AVAILABLE"})
      BY <3>2 DEF DEMAND_REQUIREMENT_STATES
    <3> QED BY <2>1, <3>3 DEF Balanced
  <2>3. CASE g = f
    <3>1. /\ Part(c, k, g, DEMAND_REQUIREMENT_STATES) = a
          /\ Part(e, k, g, DEMAND_REQUIREMENT_STATES) = a - q
          /\ Part(e, n, g, DEMAND_REQUIREMENT_STATES) = q
          /\ Part(c, k, g, {"IN_USE"}) = 0 /\ Part(e, k, g, {"IN_USE"}) = 0
          /\ Part(e, n, g, {"IN_USE"}) = 0
          /\ Part(c, k, g, {"AVAILABLE"}) = 0 /\ Part(e, k, g, {"AVAILABLE"}) = 0
          /\ Part(e, n, g, {"AVAILABLE"}) = q
      BY <1>1, <1>2, <1>6, <2>3 DEF Part, DEMAND_REQUIREMENT_STATES, Waiting
    <3>2. \A S : "FAILED" \notin S =>
            /\ Total(e, g, S) = Total(c, g, S) - Part(c, k, g, S) + Part(e, k, g, S) + Part(e, n, g, S)
            /\ Total(c, g, S) \in Nat
      BY <1>7
    <3>3. /\ "FAILED" \notin DEMAND_REQUIREMENT_STATES /\ "FAILED" \notin {"IN_USE"}
          /\ "FAILED" \notin {"AVAILABLE"}
      BY DEF DEMAND_REQUIREMENT_STATES
    <3>4. /\ Total(e, g, DEMAND_REQUIREMENT_STATES)
               = Total(c, g, DEMAND_REQUIREMENT_STATES) - a + (a - q) + q
          /\ Total(c, g, DEMAND_REQUIREMENT_STATES) \in Nat
      BY <3>1, <3>2, <3>3
    <3>5. Total(e, g, {"IN_USE"}) = Total(c, g, {"IN_USE"}) - 0 + 0 + 0 /\ Total(c, g, {"IN_USE"}) \in Nat
      BY <3>1, <3>2, <3>3
    <3>6. Total(e, g, {"AVAILABLE"}) = Total(c, g, {"AVAILABLE"}) - 0 + 0 + q
          /\ Total(c, g, {"AVAILABLE"}) \in Nat
      BY <3>1, <3>2, <3>3
    <3>7. /\ Total(e, g, DEMAND_REQUIREMENT_STATES) = Total(c, g, DEMAND_REQUIREMENT_STATES)
          /\ Total(e, g, {"IN_USE"}) = Total(c, g, {"IN_USE"})
          /\ Total(e, g, {"AVAILABLE"}) <= c.inv[g].stored
      BY <1>2, <2>3, <3>4, <3>5, <3>6
    <3> QED BY <2>1, <3>7 DEF Balanced
  <2> QED BY <2>2, <2>3
<1>9. Own(e)
  <2> SUFFICES ASSUME NEW j \in Items, e.iup[j].active # None
               PROVE  e.req[e.iup[j].active].item = j
    BY DEF Own
  <2>1. PICK l : l = e.iup[j].active
    OBVIOUS
  <2>2. l = c.iup[j].active /\ l # None
    BY <1>5, <2>1
  <2>3. l \in Slots /\ c.req[l].item = j
    BY <1>2, <2>2 DEF Sound, Own, Db, Coverings
  <2>4. l # n
    BY <2>3, UpholsteryAssumption DEF Unused
  <2>5. e.req[l].item = c.req[l].item
    BY <1>5, <1>6, <2>3, <2>4
  <2> QED BY <2>1, <2>3, <2>5
<1>10. Placed(e)
  <2> SUFFICES ASSUME NEW l \in Slots
               PROVE  /\ e.req[l].state \in Waiting => e.req[l].fabric \in Fabrics
                      /\ e.req[l].state = "MISSING_QUANTITY" => e.req[l].fabric = None
    BY DEF Placed
  <2>1. CASE l \in {k, n}
    BY <1>2, <1>6, <2>1 DEF Waiting
  <2>2. CASE l \notin {k, n}
    <3>1. e.req[l] = c.req[l]
      BY <1>5, <2>2
    <3> QED BY <1>2, <3>1 DEF Sound, Placed
  <2> QED BY <2>1, <2>2
<1>11. Sent(e)
  BY <1>2, <1>5 DEF Sound, Sent
<1> QED BY <1>5, <1>8, <1>9, <1>10, <1>11 DEF Sound

-----------------------------------------------------------------------------
(* Distributions.                                                             *)

\* No waiting requirement of f could be served by what is free of its stock.
Served(d, f) ==
  \A k \in OfFabric(d, f, Waiting) : d.req[k].amount > d.inv[f].stored - Total(d, f, {"AVAILABLE"})

LEMMA AlikeServed ==
  ASSUME NEW d \in Db, NEW e, Alike(d, e), NEW f \in Fabrics, Served(d, f)
  PROVE  Served(e, f)
<1>1. Waiting \in SUBSET UNFINISHED_REQUIREMENT_STATES /\ {"AVAILABLE"} \in SUBSET UNFINISHED_REQUIREMENT_STATES
  BY DEF Waiting, UNFINISHED_REQUIREMENT_STATES, DEMAND_REQUIREMENT_STATES
<1>2. OfFabric(e, f, Waiting) = OfFabric(d, f, Waiting) /\ Total(e, f, {"AVAILABLE"}) = Total(d, f, {"AVAILABLE"})
  BY <1>1, AlikeTotals
<1>3. ASSUME NEW k \in OfFabric(d, f, Waiting) PROVE e.req[k].amount = d.req[k].amount
  BY DEF OfFabric, Alike, Waiting, UNFINISHED_REQUIREMENT_STATES, DEMAND_REQUIREMENT_STATES
<1>4. e.inv = d.inv
  BY DEF Alike
<1> QED BY <1>2, <1>3, <1>4 DEF Served

\* What is free of the stock, after what is promised, goes to those that wait.
LEMMA Resupplied ==
  ASSUME NEW d, Sound(d), NEW f \in Fabrics, NEW seq, NEW n, Lists(seq, OfFabric(d, f, Waiting), n),
         NEW e, e = allocate_pooled_requirements(d, f, seq, "AVAILABLE")
  PROVE  Sound(e) /\ Served(e, f)
<1> DEFINE C == OfFabric(d, f, Waiting)
           pool == calculate_pooled_requirement_pool(d, f, C, FALSE)
<1>1. d \in Db /\ C \in SUBSET Slots /\ Balanced(d, f) /\ ToSet(seq) = C
  BY OfFabricIs, ListedSet DEF Sound
<1>2. /\ Total(d, f, DEMAND_REQUIREMENT_STATES) = Total(d, f, {"AVAILABLE"}) + Meters(d, C)
      /\ Total(d, f, {"AVAILABLE"}) \in Nat /\ Meters(d, C) \in Nat
      /\ d.inv[f].stored \in Nat /\ Total(d, f, {"AVAILABLE"}) <= d.inv[f].stored
      /\ d.inv[f].need = Total(d, f, DEMAND_REQUIREMENT_STATES)
  <2>1. d.inv[f] \in Shelves
    BY <1>1 DEF Db
  <2> QED BY <1>1, <2>1, DemandIs DEF Total, Shelves, Balanced
<1>3. pool = d.inv[f].stored - Total(d, f, {"AVAILABLE"}) /\ pool \in Nat
  <2>1. pool = d.inv[f].stored + 0 - (d.inv[f].need - Meters(d, C))
    BY DEF calculate_pooled_requirement_pool
  <2> HIDE DEF C, pool
  <2> QED BY <1>2, <2>1
<1>4. e = run_skip_and_continue_allocation(d, seq, pool, "AVAILABLE")
  BY <1>1 DEF allocate_pooled_requirements
<1> HIDE DEF pool
<1>5. PICK R : /\ Allocates(d, C, pool, R)
               /\ run_skip_and_continue_allocation(d, seq, pool, "AVAILABLE") = Relabel(d, R, "AVAILABLE")
  BY <1>1, <1>3, Allocation
<1>6. R \in SUBSET C /\ Meters(d, R) <= pool /\ Meters(d, R) \in Nat
      /\ \A k \in C \ R : d.req[k].amount > pool - Meters(d, R)
  <2>1. R \in SUBSET C /\ R \in SUBSET Slots
    BY <1>1, <1>5 DEF Allocates
  <2>2. Meters(d, R) \in Nat /\ Meters(d, {}) = 0
    BY <1>1, <2>1, DbMetered, MetersAre
  <2>3. Meters(d, R) <= pool
    <3>1. R = {} \/ Meters(d, R) <= pool
      BY <1>5 DEF Allocates
    <3>2. CASE R = {}
      BY <1>3, <2>2, <3>2
    <3> QED BY <3>1, <3>2
  <2>4. \A k \in C \ R : d.req[k].amount > pool - Meters(d, R)
    BY <1>5, Zenon DEF Allocates
  <2> HIDE DEF C
  <2> QED BY <2>1, <2>2, <2>3, <2>4
<1>7. e = Relabel(d, R, "AVAILABLE")
  BY <1>4, <1>5
<1>8. "AVAILABLE" \in DEMAND_REQUIREMENT_STATES /\ "AVAILABLE" \in RequirementStates
  BY DEF DEMAND_REQUIREMENT_STATES, RequirementStates, UNFINISHED_REQUIREMENT_STATES
<1>9. R \in SUBSET OfFabric(d, f, DEMAND_REQUIREMENT_STATES) /\ R \in SUBSET Slots
  BY <1>1, <1>6 DEF OfFabric, Waiting, DEMAND_REQUIREMENT_STATES
<1>10. Relabels(d, R, "AVAILABLE", e)
  BY <1>1, <1>7, <1>8, <1>9, Relabelled
<1>11. Reserved(d, f, R, "AVAILABLE", e)
  BY <1>1, <1>8, <1>9, <1>10, Serves
<1>12. Total(e, f, {"AVAILABLE"}) = Total(d, f, {"AVAILABLE"}) + Meters(d, R)
  <2>1. OfFabric(d, f, {"AVAILABLE"}) \cap R = {}
    BY <1>6 DEF OfFabric, Waiting
  <2>2. Meters(d, {}) = 0
    BY <1>1, DbMetered, MetersAre
  <2>3. Total(e, f, {"AVAILABLE"}) = Total(d, f, {"AVAILABLE"}) - 0 + Meters(d, R)
    BY <1>11, <2>1, <2>2 DEF Reserved
  <2> QED BY <1>2, <1>6, <2>3
<1>13. Total(e, f, {"AVAILABLE"}) <= d.inv[f].stored
  BY <1>2, <1>3, <1>6, <1>12
<1>14. Sound(e)
  BY <1>7, <1>8, <1>9, <1>13, ServesSoundly
<1>15. Served(e, f)
  <2> SUFFICES ASSUME NEW k \in OfFabric(e, f, Waiting)
               PROVE  e.req[k].amount > e.inv[f].stored - Total(e, f, {"AVAILABLE"})
    BY DEF Served
  <2>1. k \in C \ R /\ e.req[k].amount = d.req[k].amount /\ e.inv[f] = d.inv[f]
    BY <1>10 DEF OfFabric, Relabels, Waiting
  <2>2. d.req[k].amount > pool - Meters(d, R)
    BY <1>6, <2>1
  <2> HIDE DEF C
  <2> QED BY <1>2, <1>3, <1>6, <1>12, <2>1, <2>2
<1> QED BY <1>14, <1>15

\* What is on order is spoken for: nothing is promised.
LEMMA SpokenFor ==
  ASSUME NEW d, Sound(d), NEW f \in Fabrics, NEW seq, NEW n,
         Lists(seq, OfFabric(d, f, {"NEEDS_ORDERING"}), n), NEW pool \in Int,
         NEW e, e = run_skip_and_continue_allocation(d, seq, pool, "ORDERED")
  PROVE  Sound(e)
<1> DEFINE C == OfFabric(d, f, {"NEEDS_ORDERING"})
<1>1. d \in Db /\ C \in SUBSET Slots /\ Balanced(d, f)
  BY OfFabricIs DEF Sound
<1>2. PICK R : /\ Allocates(d, C, pool, R)
               /\ run_skip_and_continue_allocation(d, seq, pool, "ORDERED") = Relabel(d, R, "ORDERED")
  BY <1>1, Allocation
<1>3. e = Relabel(d, R, "ORDERED") /\ R \in SUBSET C
  BY <1>2 DEF Allocates
<1>4. "ORDERED" \in DEMAND_REQUIREMENT_STATES /\ "ORDERED" \in RequirementStates
  BY DEF DEMAND_REQUIREMENT_STATES, RequirementStates, UNFINISHED_REQUIREMENT_STATES
<1>5. R \in SUBSET OfFabric(d, f, DEMAND_REQUIREMENT_STATES) /\ R \in SUBSET Slots
  BY <1>1, <1>3 DEF OfFabric, DEMAND_REQUIREMENT_STATES
<1>6. Relabels(d, R, "ORDERED", e)
  BY <1>1, <1>3, <1>4, <1>5, Relabelled
<1>7. Reserved(d, f, R, "ORDERED", e)
  BY <1>1, <1>4, <1>5, <1>6, Serves
<1>8. Total(e, f, {"AVAILABLE"}) <= d.inv[f].stored
  <2>1. OfFabric(d, f, {"AVAILABLE"}) \cap R = {}
    BY <1>3 DEF OfFabric
  <2>2. Meters(d, {}) = 0 /\ Total(d, f, {"AVAILABLE"}) \in Nat
    BY <1>1, DbMetered, MetersAre, DemandIs
  <2>3. Total(e, f, {"AVAILABLE"}) = Total(d, f, {"AVAILABLE"}) - 0 + 0
    BY <1>7, <2>1, <2>2 DEF Reserved
  <2>4. Total(d, f, {"AVAILABLE"}) <= d.inv[f].stored
    BY <1>1 DEF Balanced
  <2> QED BY <2>2, <2>3, <2>4
<1> QED BY <1>3, <1>4, <1>5, <1>8, ServesSoundly

\* What donors give up serves those that need ordering.
Donated(d, G) ==
  [d EXCEPT !.req = [k \in Slots |->
     IF k \in G THEN [d.req[k] EXCEPT !.state = "NEEDS_ORDERING"] ELSE d.req[k]]]

LEMMA DonatedSound ==
  ASSUME NEW d, Sound(d), NEW f \in Fabrics, NEW G \in SUBSET OfFabric(d, f, {"AVAILABLE"}),
         NEW c, c = Donated(d, G), NEW seq, NEW n, Lists(seq, OfFabric(c, f, {"NEEDS_ORDERING"}), n),
         NEW e, e = run_skip_and_continue_allocation(c, seq, Meters(d, G), "AVAILABLE")
  PROVE  Sound(e)
<1>1. d \in Db /\ G \in SUBSET Slots /\ Balanced(d, f)
  BY OfFabricIs DEF Sound
<1>2. Meters(d, G) \in Nat /\ Meters(d, {}) = 0
  BY <1>1, DbMetered, MetersAre
<1>3. c = Relabel(d, G, "NEEDS_ORDERING")
  BY DEF Donated, Relabel
<1>4. /\ "NEEDS_ORDERING" \in DEMAND_REQUIREMENT_STATES /\ "NEEDS_ORDERING" \in RequirementStates
      /\ "AVAILABLE" \in DEMAND_REQUIREMENT_STATES /\ "AVAILABLE" \in RequirementStates
  BY DEF DEMAND_REQUIREMENT_STATES, RequirementStates, UNFINISHED_REQUIREMENT_STATES
<1>5. G \in SUBSET OfFabric(d, f, DEMAND_REQUIREMENT_STATES)
  BY DEF OfFabric, DEMAND_REQUIREMENT_STATES
<1>6. Relabels(d, G, "NEEDS_ORDERING", c)
  BY <1>1, <1>3, <1>4, Relabelled
<1>7. Reserved(d, f, G, "NEEDS_ORDERING", c)
  BY <1>1, <1>4, <1>5, <1>6, Serves
<1>8. /\ Total(c, f, {"AVAILABLE"}) = Total(d, f, {"AVAILABLE"}) - Meters(d, G)
      /\ Total(d, f, {"AVAILABLE"}) <= d.inv[f].stored
      /\ Total(d, f, {"AVAILABLE"}) \in Nat /\ d.inv[f].stored \in Nat
  <2>1. OfFabric(d, f, {"AVAILABLE"}) \cap G = G
    OBVIOUS
  <2>2. Total(c, f, {"AVAILABLE"}) = Total(d, f, {"AVAILABLE"}) - Meters(d, G) + 0
    BY <1>7, <2>1 DEF Reserved
  <2>3. d.inv[f] \in Shelves /\ Total(d, f, {"AVAILABLE"}) \in Nat
    BY <1>1, DemandIs DEF Db
  <2> QED BY <1>1, <1>2, <2>2, <2>3 DEF Balanced, Shelves
<1>9. Sound(c)
  <2>1. Total(c, f, {"AVAILABLE"}) <= d.inv[f].stored
    BY <1>2, <1>8
  <2> QED BY <1>3, <1>4, <1>5, <2>1, ServesSoundly
<1>10. c \in Db /\ c.inv = d.inv /\ OfFabric(c, f, {"NEEDS_ORDERING"}) \in SUBSET Slots
  BY <1>6, OfFabricIs DEF Relabels
<1>11. PICK R : /\ Allocates(c, OfFabric(c, f, {"NEEDS_ORDERING"}), Meters(d, G), R)
                /\ run_skip_and_continue_allocation(c, seq, Meters(d, G), "AVAILABLE")
                     = Relabel(c, R, "AVAILABLE")
  <2>1. PICK C, pool : C = OfFabric(c, f, {"NEEDS_ORDERING"}) /\ pool = Meters(d, G)
    OBVIOUS
  <2>2. C \in SUBSET Slots /\ pool \in Int /\ Lists(seq, C, n)
    BY <1>2, <1>10, <2>1
  <2>3. \E R : /\ Allocates(c, C, pool, R)
               /\ run_skip_and_continue_allocation(c, seq, pool, "AVAILABLE") = Relabel(c, R, "AVAILABLE")
    BY <1>10, <2>2, Allocation
  <2> QED BY <2>1, <2>3
<1>12. e = Relabel(c, R, "AVAILABLE") /\ R \in SUBSET OfFabric(c, f, {"NEEDS_ORDERING"})
       /\ (R = {} \/ Meters(c, R) <= Meters(d, G))
  BY <1>11 DEF Allocates
<1>13. Meters(c, R) \in Nat /\ Meters(c, R) <= Meters(d, G)
  <2>1. R \in SUBSET Slots
    BY <1>10, <1>12
  <2>2. Meters(c, R) \in Nat /\ Meters(c, {}) = 0
    BY <1>10, <2>1, DbMetered, MetersAre
  <2> QED BY <1>2, <1>12, <2>2
<1>14. R \in SUBSET OfFabric(c, f, DEMAND_REQUIREMENT_STATES) /\ R \in SUBSET Slots
  BY <1>12 DEF OfFabric, DEMAND_REQUIREMENT_STATES
<1>15. Relabels(c, R, "AVAILABLE", e)
  BY <1>4, <1>10, <1>12, <1>14, Relabelled
<1>16. Reserved(c, f, R, "AVAILABLE", e)
  BY <1>4, <1>10, <1>14, <1>15, Serves
<1>17. Total(e, f, {"AVAILABLE"}) <= c.inv[f].stored
  <2>1. OfFabric(c, f, {"AVAILABLE"}) \cap R = {}
    BY <1>12 DEF OfFabric
  <2>2. Meters(c, {}) = 0
    BY <1>10, DbMetered, MetersAre
  <2>3. Total(e, f, {"AVAILABLE"}) = Total(c, f, {"AVAILABLE"}) - 0 + Meters(c, R)
    BY <1>16, <2>1, <2>2 DEF Reserved
  <2> QED BY <1>2, <1>8, <1>10, <1>13, <2>3
<1> QED BY <1>4, <1>9, <1>12, <1>14, <1>17, ServesSoundly

\* Two lists of different things, one after the other.
LEMMA ListedTogether ==
  ASSUME NEW A, NEW B, A \cap B = {}, NEW s, NEW m, Lists(s, A, m), NEW t, NEW n, Lists(t, B, n)
  PROVE  Lists(s \o t, A \cup B, m + n)
<1>1. PICK C : C = A \cup B
  OBVIOUS
<1>2. m \in Nat /\ n \in Nat /\ s \in [1..m -> C] /\ t \in [1..n -> C]
  BY <1>1 DEF Lists
<1>3. s \in Seq(C) /\ t \in Seq(C) /\ Len(s) = m /\ Len(t) = n
  <2>1. Seq(C) = UNION {[1..i -> C] : i \in Nat}
    BY SeqDef
  <2>2. s \in Seq(C) /\ t \in Seq(C)
    BY <1>2, <2>1
  <2> QED BY <1>2, <2>2
<1>4. PICK u : u = s \o t
  OBVIOUS
<1>5. /\ u \in Seq(C) /\ Len(u) = m + n
      /\ \A i \in 1..(m + n) : u[i] = IF i <= m THEN s[i] ELSE t[i - m]
  BY <1>3, <1>4, ConcatProperties
<1>6. u \in [1..(m + n) -> C]
  BY <1>5
<1>7. ASSUME NEW i \in 1..(m + n)
      PROVE  \/ i \in 1..m /\ u[i] = s[i] /\ u[i] \in A /\ u[i] \notin B
             \/ i \notin 1..m /\ i - m \in 1..n /\ u[i] = t[i - m] /\ u[i] \in B /\ u[i] \notin A
  <2>1. CASE i <= m
    <3>1. i \in 1..m /\ u[i] = s[i]
      BY <1>2, <1>5, <2>1
    <3> QED BY <3>1 DEF Lists
  <2>2. CASE ~(i <= m)
    <3>1. i \notin 1..m /\ i - m \in 1..n /\ u[i] = t[i - m]
      BY <1>2, <1>5, <2>2
    <3> QED BY <3>1 DEF Lists
  <2> QED BY <2>1, <2>2
<1>8. ASSUME NEW i \in 1..(m + n), NEW j \in 1..(m + n), i # j
      PROVE  u[i] # u[j]
  <2>1. CASE i \in 1..m /\ j \in 1..m
    <3>1. u[i] = s[i] /\ u[j] = s[j]
      BY <1>7, <2>1
    <3> QED BY <1>8, <2>1, <3>1 DEF Lists
  <2>2. CASE i \notin 1..m /\ j \notin 1..m
    <3>1. i - m \in 1..n /\ u[i] = t[i - m] /\ j - m \in 1..n /\ u[j] = t[j - m]
      BY <1>7, <2>2
    <3>2. i - m # j - m
      BY <1>2, <1>8
    <3> QED BY <3>1, <3>2 DEF Lists
  <2>3. CASE i \in 1..m /\ j \notin 1..m
    BY <1>7, <2>3
  <2>4. CASE i \notin 1..m /\ j \in 1..m
    BY <1>7, <2>4
  <2> QED BY <2>1, <2>2, <2>3, <2>4
<1>9. ASSUME NEW c \in C PROVE \E i \in 1..(m + n) : u[i] = c
  <2>1. CASE c \in A
    <3>1. PICK i \in 1..m : s[i] = c
      BY <2>1 DEF Lists
    <3>2. i \in 1..(m + n) /\ i <= m
      BY <1>2
    <3>3. u[i] = c
      BY <1>5, <3>1, <3>2
    <3> QED BY <3>2, <3>3
  <2>2. CASE c \in B
    <3>1. PICK i \in 1..n : t[i] = c
      BY <2>2 DEF Lists
    <3>2. m + i \in 1..(m + n) /\ ~(m + i <= m) /\ (m + i) - m = i
      BY <1>2
    <3>3. u[m + i] = c
      BY <1>5, <3>1, <3>2
    <3> QED BY <3>2, <3>3
  <2> QED BY <1>1, <2>1, <2>2
<1>10. m + n \in Nat
  BY <1>2
<1> QED BY <1>1, <1>4, <1>6, <1>8, <1>9, <1>10 DEF Lists

\* Stock is counted: promises beyond it are taken back.
Counted(d, f, n) == [d EXCEPT !.inv[f] = Evaluated([@ EXCEPT !.stored = n])]

LEMMA CountedSound ==
  ASSUME NEW d, Sound(d), NEW f \in Fabrics, NEW n \in Nat, NEW c, c = Counted(d, f, n),
         NEW seq, NEW l, Lists(seq, OfFabric(d, f, {"AVAILABLE"}), l),
         NEW e, e = _demote_available_requirements(c, f, seq)
  PROVE  Sound(e)
<1>1. d \in Db
  BY DEF Sound
<1>2. PICK v : Restocks(d, f, v, c) /\ v.stored = n
  <2>1. PICK a : a = d.inv[f] /\ a \in Shelves
    BY <1>1 DEF Db
  <2>2. [a EXCEPT !.stored = n] = [a EXCEPT !.ordered = a.ordered, !.stored = n]
    BY <2>1 DEF Shelves
  <2>3. c = [d EXCEPT !.inv[f] = Evaluated([a EXCEPT !.stored = n])]
    BY <1>1, <2>1 DEF Counted, Db
  <2>4. Stocks(d, f, n, a.ordered, c) /\ a.ordered \in Nat
    BY <2>1, <2>2, <2>3 DEF Stocks, Shelves
  <2> QED BY <1>1, <2>4, Stocked
<1>3. Shelved(d, f, v, c)
  BY <1>1, <1>2, ShelvedIs DEF Restocks
<1>4. /\ c \in Db /\ c.req = d.req /\ c.inv[f] = v /\ \A g \in Fabrics \ {f} : c.inv[g] = d.inv[g]
      /\ Own(c) /\ Placed(c) /\ Sent(c)
  BY <1>3 DEF Shelved, Sound, Own, Placed, Sent
<1>5. \A g, S : OfFabric(c, g, S) = OfFabric(d, g, S) /\ Total(c, g, S) = Total(d, g, S)
  BY <1>4, SameRequirements
<1>6. PICK C : C = OfFabric(c, f, {"AVAILABLE"}) /\ C \in SUBSET Slots /\ Lists(seq, C, l)
  BY <1>5, OfFabricIs
<1>7. PICK R : /\ R \in SUBSET C /\ Meters(c, C \ R) <= c.inv[f].stored
               /\ _demote_available_requirements(c, f, seq) = Relabel(c, R, "NEEDS_ORDERING")
  BY <1>4, <1>6, Demotion
<1>8. e = Relabel(c, R, "NEEDS_ORDERING") /\ R \in SUBSET Slots
  BY <1>6, <1>7
<1>9. "NEEDS_ORDERING" \in DEMAND_REQUIREMENT_STATES /\ "NEEDS_ORDERING" \in RequirementStates
  BY DEF DEMAND_REQUIREMENT_STATES, RequirementStates, UNFINISHED_REQUIREMENT_STATES
<1>10. R \in SUBSET OfFabric(c, f, DEMAND_REQUIREMENT_STATES)
  BY <1>6, <1>7 DEF OfFabric, DEMAND_REQUIREMENT_STATES
<1>11. Relabels(c, R, "NEEDS_ORDERING", e)
  BY <1>4, <1>8, <1>9, Relabelled
<1>12. Reserved(c, f, R, "NEEDS_ORDERING", e)
  BY <1>4, <1>9, <1>10, <1>11, Serves
<1>13. Total(e, f, {"AVAILABLE"}) <= n
  <2>1. C \cap R = R
    BY <1>7
  <2>2. /\ Meters(c, C \ R) = Meters(c, C) - Meters(c, R)
        /\ Meters(c, C) \in Nat /\ Meters(c, R) \in Nat
    BY <1>4, <1>6, <1>7, MetersWithin, DbMetered
  <2>3. Total(e, f, {"AVAILABLE"}) = Meters(c, C) - Meters(c, R) + 0
    BY <1>6, <1>12, <2>1 DEF Reserved, Total
  <2>4. Meters(c, C \ R) <= n
    BY <1>2, <1>4, <1>7
  <2> QED BY <2>2, <2>3, <2>4
<1>14. ASSUME NEW g \in Fabrics PROVE Balanced(e, g)
  <2>1. e.inv[g] = c.inv[g] /\ Balanced(d, g)
    BY <1>11 DEF Relabels, Sound
  <2>2. /\ Total(e, g, DEMAND_REQUIREMENT_STATES) = Total(d, g, DEMAND_REQUIREMENT_STATES)
        /\ Total(e, g, {"IN_USE"}) = Total(d, g, {"IN_USE"})
    BY <1>5, <1>12 DEF Reserved
  <2>3. CASE g = f
    BY <1>2, <1>4, <1>13, <2>1, <2>2, <2>3 DEF Balanced, Restocks
  <2>4. CASE g # f
    <3>1. Total(e, g, {"AVAILABLE"}) = Total(d, g, {"AVAILABLE"})
      BY <1>5, <1>12, <2>4 DEF Reserved
    <3> QED BY <1>4, <2>1, <2>2, <2>4, <3>1 DEF Balanced
  <2> QED BY <2>3, <2>4
<1> QED BY <1>4, <1>11, <1>12, <1>14 DEF Sound, Relabels, Reserved

\* Orders, thresholds and tasks.
LEMMA OrderSet ==
  ASSUME NEW d, Sound(d), NEW o \in Orders, NEW p \in Placements, p.left # 0 => p.fabric \in Fabrics,
         NEW e, e = [d EXCEPT !.order[o] = p]
  PROVE  Sound(e) /\ e.inv = d.inv /\ e.req = d.req
<1>1. d \in Db
  BY DEF Sound
<1>2. /\ e \in Db /\ e.inv = d.inv /\ e.iup = d.iup /\ e.req = d.req
      /\ e.order[o] = p /\ \A r \in Orders \ {o} : e.order[r] = d.order[r]
  BY <1>1 DEF Db
<1>3. Own(e) /\ Placed(e)
  BY <1>2 DEF Own, Placed, Sound
<1>4. Sent(e)
  BY <1>2 DEF Sent, Sound
<1>5. Alike(d, e)
  BY <1>2, <1>3, <1>4 DEF Alike
<1> QED BY <1>2, <1>5, AlikeSound

LEMMA GoneSet ==
  ASSUME NEW d, Sound(d), NEW G \in SUBSET Items, NEW e, e = [d EXCEPT !.gone = G]
  PROVE  Sound(e) /\ e.iup = d.iup /\ e.req = d.req
<1>1. d \in Db
  BY DEF Sound
<1>2. e \in Db /\ e.inv = d.inv /\ e.iup = d.iup /\ e.req = d.req /\ e.order = d.order
  BY <1>1 DEF Db
<1>3. Alike(d, e)
  BY <1>2 DEF Alike, Own, Placed, Sent, Sound
<1> QED BY <1>2, <1>3, AlikeSound

LEMMA OrderedMore ==
  ASSUME NEW d, Sound(d), NEW f \in Fabrics, NEW q \in Nat, NEW e, e = add_ordered(d, f, q)
  PROVE  Sound(e) /\ e.req = d.req
<1>1. d \in Db
  BY DEF Sound
<1>2. PICK a, m : a = d.inv[f] /\ a \in Shelves /\ m = a.ordered + q /\ m \in Nat
  BY <1>1 DEF Db, Shelves
<1>3. PICK v : v = [a EXCEPT !.ordered = m]
  OBVIOUS
<1>4. /\ v \in Shelves /\ v.need = a.need /\ v.use = a.use /\ v.stored = a.stored /\ v.low = a.low
      /\ v.cond = a.cond /\ v.stale = a.stale
  BY <1>2, <1>3 DEF Shelves
<1>5. evaluate_inventory_condition(v) = evaluate_inventory_condition(a)
  BY <1>4 DEF evaluate_inventory_condition
<1>6. Balanced(d, f)
  BY DEF Sound
<1>7. e = [d EXCEPT !.inv[f] = v]
  <2>1. [d.inv EXCEPT ![f].ordered = d.inv[f].ordered + q] = [d.inv EXCEPT ![f] = v]
    BY <1>2, <1>3
  <2> QED BY <2>1 DEF add_ordered
<1>8. Restocks(d, f, v, e)
  BY <1>2, <1>4, <1>5, <1>6, <1>7 DEF Restocks, Balanced
<1>9. Total(d, f, {"AVAILABLE"}) <= v.stored
  BY <1>2, <1>4, <1>6 DEF Balanced
<1> QED BY <1>8, <1>9, Restocked DEF Shelved

Warned(d, f, n) == [d EXCEPT !.inv[f].low = n, !.inv[f].stale = TRUE]

LEMMA ThresholdSound ==
  ASSUME NEW d, Sound(d), NEW f \in Fabrics, NEW n \in Nat,
         NEW e, e = Warned(d, f, n)
  PROVE  Sound(e)
<1>1. d \in Db
  BY DEF Sound
<1>2. PICK a : a = d.inv[f] /\ a \in Shelves
  BY <1>1 DEF Db
<1>3. PICK v : v = [a EXCEPT !.low = n, !.stale = TRUE]
  OBVIOUS
<1>4. /\ v \in Shelves /\ v.need = a.need /\ v.use = a.use /\ v.stored = a.stored /\ v.stale
      /\ v.cond = a.cond
  BY <1>2, <1>3 DEF Shelves
<1>5. e = [d EXCEPT !.inv[f] = v]
  BY <1>1, <1>2, <1>3 DEF Db, Warned
<1>6. Restocks(d, f, v, e)
  BY <1>2, <1>4, <1>5 DEF Restocks
<1>7. Total(d, f, {"AVAILABLE"}) <= v.stored
  BY <1>2, <1>4 DEF Balanced, Sound
<1> QED BY <1>6, <1>7, Restocked

Listed(d, f, n) == [d EXCEPT !.inv[f] = [NoRow EXCEPT !.low = n, !.cond = "AVAILABLE"]]

LEMMA ListedSound ==
  ASSUME NEW d, Sound(d), NEW f \in Fabrics, d.inv[f].cond = "NONE", NEW n \in Nat,
         NEW e, e = Listed(d, f, n)
  PROVE  Sound(e)
<1>1. d \in Db /\ Balanced(d, f)
  BY DEF Sound
<1>2. PICK a : a = d.inv[f] /\ a \in Shelves /\ a.need = 0 /\ a.use = 0
  BY <1>1 DEF Db, Balanced
<1>3. PICK v : v = [NoRow EXCEPT !.low = n, !.cond = "AVAILABLE"]
  OBVIOUS
<1>4. v \in Shelves /\ v.need = 0 /\ v.use = 0 /\ v.stored = 0 /\ v.stale /\ v.cond = "AVAILABLE"
  BY <1>3 DEF Shelves, NoRow
<1>5. e = [d EXCEPT !.inv[f] = v]
  BY <1>3 DEF Listed
<1>6. Restocks(d, f, v, e)
  BY <1>2, <1>4, <1>5 DEF Restocks
<1>7. Total(d, f, {"AVAILABLE"}) <= v.stored
  <2>1. /\ Total(d, f, {"AVAILABLE"}) \in Nat /\ Total(d, f, DEMAND_REQUIREMENT_STATES) \in Nat
        /\ Total(d, f, {"AVAILABLE"}) <= Total(d, f, DEMAND_REQUIREMENT_STATES)
    BY <1>1, DemandIs
  <2> QED BY <1>1, <1>2, <1>4, <2>1 DEF Balanced
<1> QED BY <1>6, <1>7, Restocked

LEMMA ArrivedSound ==
  ASSUME NEW d, Sound(d), NEW f \in Fabrics, NEW q \in Nat, q <= d.inv[f].ordered,
         NEW e, e = confirm_ordered_to_stock(d, f, q)
  PROVE  Sound(e) /\ e.req = d.req
<1>1. d \in Db /\ Balanced(d, f) /\ d.inv[f] \in Shelves
  BY DEF Sound, Db
<1>2. PICK n, m : /\ n = d.inv[f].stored + q /\ m = d.inv[f].ordered - q
                  /\ n \in Nat /\ m \in Nat /\ n >= d.inv[f].stored
  <2>1. d.inv[f].stored \in Nat /\ d.inv[f].ordered \in Nat
    BY <1>1 DEF Shelves
  <2>2. d.inv[f].stored + q \in Nat /\ d.inv[f].ordered - q \in Nat
        /\ d.inv[f].stored + q >= d.inv[f].stored
    BY <2>1
  <2> QED BY <2>2
<1>3. Stocks(d, f, n, m, e)
  BY <1>1, <1>2 DEF confirm_ordered_to_stock, Stocks
<1>4. PICK v : Restocks(d, f, v, e) /\ v.stored = n
  BY <1>1, <1>2, <1>3, Stocked
<1>5. Total(d, f, {"AVAILABLE"}) <= v.stored
  <2>1. Total(d, f, {"AVAILABLE"}) \in Nat /\ d.inv[f].stored \in Nat
    BY <1>1, DemandIs DEF Shelves
  <2> QED BY <1>1, <1>2, <1>4, <2>1 DEF Balanced
<1> QED BY <1>4, <1>5, Restocked DEF Shelved

-----------------------------------------------------------------------------
(* The first tables.                                                          *)

Shelf(listed, stored, f) == IF f \in listed THEN create_upholstery(stored[f]) ELSE NoRow

NoneYet(listed, stored) ==
  [inv |-> [f \in Fabrics |-> Shelf(listed, stored, f)],
   iup |-> [i \in Items |-> NoUpholstery],
   req |-> [k \in Slots |-> NoRequirement],
   order |-> [o \in Orders |-> [fabric |-> None, left |-> 0]], gone |-> {}]

LEMMA NoneYetSound ==
  ASSUME NEW listed, NEW stored \in [Fabrics -> 0..MaxStock], NEW d, d = NoneYet(listed, stored)
  PROVE  Sound(d) /\ \A k \in Slots : Unused(d, k)
<1>1. /\ NoUpholstery \in Coverings /\ NoUpholstery.active = None
      /\ NoRequirement \in Needs /\ NoRequirement.state = "FAILED" /\ NoRequirement.item = None
  BY DEF NoUpholstery, Coverings, Sources, NoRequirement, Needs, RequirementStates
<1>2. ASSUME NEW f \in Fabrics, NEW v, v = Shelf(listed, stored, f)
      PROVE  /\ v \in Shelves /\ v.need = 0 /\ v.use = 0 /\ v.stored \in Nat
             /\ v.stale \/ v.cond = evaluate_inventory_condition(v)
  <2>1. NoRow \in Shelves /\ NoRow.need = 0 /\ NoRow.use = 0 /\ NoRow.stored \in Nat /\ NoRow.stale
    BY DEF NoRow, Shelves
  <2>2. CASE f \notin listed
    BY <1>2, <2>1, <2>2 DEF Shelf
  <2>3. CASE f \in listed
    <3>1. PICK u : u = [NoRow EXCEPT !.stored = stored[f]]
      OBVIOUS
    <3>2. stored[f] \in Nat
      BY UpholsteryAssumption
    <3>3. u \in Shelves /\ u.need = 0 /\ u.use = 0 /\ u.stored \in Nat
      BY <3>1, <3>2 DEF NoRow, Shelves
    <3>4. v = Evaluated(u)
      BY <1>2, <2>3, <3>1 DEF Shelf, create_upholstery
    <3> QED BY <3>3, <3>4, EvaluatedIs
  <2> QED BY <2>2, <2>3
<1>3. [fabric |-> None, left |-> 0] \in Placements
  BY DEF Placements
<1> HIDE DEF NoUpholstery, NoRequirement
<1>4. /\ d.inv = [f \in Fabrics |-> Shelf(listed, stored, f)] /\ d.iup = [i \in Items |-> NoUpholstery]
      /\ d.req = [k \in Slots |-> NoRequirement]
      /\ d.order = [o \in Orders |-> [fabric |-> None, left |-> 0]] /\ d.gone = {}
      /\ d = [inv |-> d.inv, iup |-> d.iup, req |-> d.req, order |-> d.order, gone |-> d.gone]
  BY DEF NoneYet
<1>5. d \in Db
  <2>1. /\ d.inv \in [Fabrics -> Shelves] /\ d.iup \in [Items -> Coverings]
        /\ d.req \in [Slots -> Needs] /\ d.order \in [Orders -> Placements] /\ d.gone \in SUBSET Items
    BY <1>1, <1>2, <1>3, <1>4
  <2> QED BY <1>4, <2>1 DEF Db
<1>6. Own(d) /\ Placed(d) /\ Sent(d)
  BY <1>1, <1>4 DEF Own, Placed, Sent, Waiting
<1>7. ASSUME NEW f \in Fabrics PROVE Balanced(d, f)
  <2>1. \A S : "FAILED" \notin S => OfFabric(d, f, S) = {}
    BY <1>1, <1>4 DEF OfFabric
  <2>2. Meters(d, {}) = 0
    BY <1>5, DbMetered, MetersAre
  <2>3. \A S : "FAILED" \notin S => Total(d, f, S) = 0
    BY <2>1, <2>2 DEF Total
  <2>4. /\ Total(d, f, DEMAND_REQUIREMENT_STATES) = 0 /\ Total(d, f, {"IN_USE"}) = 0
        /\ Total(d, f, {"AVAILABLE"}) = 0
    BY <2>3 DEF DEMAND_REQUIREMENT_STATES
  <2>5. PICK v : v = Shelf(listed, stored, f)
    OBVIOUS
  <2>6. /\ d.inv[f] = v /\ v.need = 0 /\ v.use = 0 /\ v.stored >= 0
        /\ v.stale \/ v.cond = evaluate_inventory_condition(v)
    BY <1>2, <1>4, <2>5
  <2> QED BY <2>4, <2>6 DEF Balanced
<1>8. \A k \in Slots : Unused(d, k)
  BY <1>1, <1>4 DEF Unused
<1> QED BY <1>5, <1>6, <1>7, <1>8 DEF Sound

Tables(want, fabric, slot, none, seq) ==
  LET Created(d, i) ==
        IF want[i] = None THEN d
        ELSE _create_item_upholstery(d, i, "INTERNAL", fabric[i], want[i], slot[i])
  IN  FoldLeft(Created, none, seq)

\* The requirements created one after the other keep the tables sound.
LEMMA FirstTables ==
  ASSUME NEW none, Sound(none), \A k \in Slots : Unused(none, k),
         NEW want \in [Items -> Amounts \cup {0, None}], NEW fabric \in [Items -> Fabrics],
         NEW slot \in Injection(Items, Slots), NEW seq, NEW n, Lists(seq, Items, n),
         NEW b, b = Tables(want, fabric, slot, none, seq)
  PROVE  Sound(b)
<1> DEFINE Created(d, i) ==
      IF want[i] = None THEN d
      ELSE _create_item_upholstery(d, i, "INTERNAL", fabric[i], want[i], slot[i])
<1>f. b = FoldLeft(Created, none, seq)
  BY Zenon DEF Tables
<1>0. /\ n \in Nat /\ seq \in [1..n -> Items] /\ DOMAIN seq = 1..n /\ none \in Db
      /\ \A i, j \in 1..n : i # j => seq[i] # seq[j]
  BY ListedSet DEF Lists, Sound
<1>s. slot \in [Items -> Slots] /\ \A i, j \in Items : slot[i] = slot[j] => i = j
  BY DEF Injection, IsInjective
<1>2. ASSUME NEW d \in Db, NEW i \in Items
      PROVE  /\ Created(d, i) \in Db
             /\ Sound(d) /\ Unused(d, slot[i]) => Sound(Created(d, i))
             /\ \A l \in Slots \ {slot[i]} : Unused(d, l) => Unused(Created(d, i), l)
  <2>1. CASE want[i] = None
    BY <2>1
  <2>2. CASE want[i] # None
    <3>1. PICK c, k, f, q : /\ c = Created(d, i) /\ k = slot[i] /\ f = fabric[i] /\ q = want[i]
      OBVIOUS
    <3>2. k \in Slots /\ f \in Fabrics \cup {None} /\ q \in Nat /\ "INTERNAL" \in Sources
      <4> HIDE DEF Created
      <4>1. k \in Slots /\ f \in Fabrics
        BY <1>s, <3>1
      <4>2. q \in Amounts \cup {0, None} /\ q # None
        BY <2>2, <3>1
      <4>3. q \in Nat
        BY <4>2, UpholsteryAssumption
      <4>4. "INTERNAL" \in Sources
        BY DEF Sources
      <4> QED BY <4>1, <4>3, <4>4
    <3>3. c = _create_item_upholstery(d, i, "INTERNAL", f, q, k)
      BY <2>2, <3>1
    <3>4. Initials(d, k, c)
      BY <3>2, <3>3, Creation
    <3> QED BY <3>1, <3>4 DEF Initials, Unused
  <2> QED BY <2>1, <2>2
<1> HIDE DEF Created
<1>3. PICK h : h = [p \in Db \X (1..n) |-> Created(p[1], seq[p[2]])]
  OBVIOUS
<1>4. h \in [Db \X (1..n) -> Db] /\ \A d \in Db, i \in 1..n : h[<<d, i>>] = Created(d, seq[i])
  BY <1>0, <1>2, <1>3
<1>5. PICK m : Runs(n, Db, none, h, m)
  BY <1>0, <1>4, Running
<1>6. FoldLeft(Created, none, seq) = m[1..n]
  <2> DEFINE I(k) == k = [s \in SUBSET DOMAIN seq |->
                            IF s = {} THEN none ELSE Created(k[s \ {Max(s)}], seq[Max(s)])]
  <2>1. ASSUME NEW s \in (SUBSET (1..n)) \ {{}}
        PROVE  m[s] = Created(m[s \ {Max(s)}], seq[Max(s)]) /\ Max(s) \in 1..n
    <3>1. Max(s) \in s
      BY <1>0, MaxIs
    <3>2. m[s \ {Max(s)}] \in Db /\ m[s] = h[<<m[s \ {Max(s)}], Max(s)>>]
      BY <1>5 DEF Runs
    <3>3. Max(s) \in 1..n
      BY <3>1
    <3> QED BY <1>4, <3>2, <3>3
  <2>2. I([s \in SUBSET DOMAIN seq |-> m[s]])
    <3> SUFFICES ASSUME NEW s \in SUBSET (1..n)
                 PROVE  m[s] = IF s = {} THEN none
                               ELSE Created([t \in SUBSET (1..n) |-> m[t]][s \ {Max(s)}], seq[Max(s)])
      BY <1>0
    <3>1. m[{}] = none
      BY <1>5 DEF Runs
    <3>2. [t \in SUBSET (1..n) |-> m[t]][s \ {Max(s)}] = m[s \ {Max(s)}]
      OBVIOUS
    <3> QED BY <2>1, <3>1, <3>2
  <2>3. PICK k : k = CHOOSE i : I(i)
    OBVIOUS
  <2>4. I(k)
    <3>1. \E i : I(i)
      BY <2>2
    <3> HIDE DEF I
    <3>2. I(CHOOSE i : I(i))
      BY <3>1, Zenon
    <3> QED BY <2>3, <3>2
  <2>5. FoldLeft(Created, none, seq) = k[DOMAIN seq]
    BY <2>3 DEF FoldLeft, MapThenFoldSet
  <2>6. k = [s \in SUBSET (1..n) |-> IF s = {} THEN none ELSE Created(k[s \ {Max(s)}], seq[Max(s)])]
    BY <1>0, <2>4
  <2> HIDE DEF I
  <2>7. k[{}] = none
    BY <2>6
  <2>8. ASSUME NEW s \in (SUBSET (1..n)) \ {{}}, k[s \ {Max(s)}] \in Db
        PROVE  k[s] = h[<<k[s \ {Max(s)}], Max(s)>>]
    <3>1. k[s] = Created(k[s \ {Max(s)}], seq[Max(s)])
      BY <2>6
    <3> QED BY <1>4, <2>1, <2>8, <3>1
  <2>9. Follows(n, Db, none, h, k)
    BY <2>7, <2>8 DEF Follows
  <2>10. k[1..n] = m[1..n]
    BY <1>0, <1>5, <2>9, Unfolds
  <2> QED BY <1>0, <2>5, <2>10
<1>7. PICK acc : acc = [i \in 0..n |-> m[1..i]]
  OBVIOUS
<1>8. /\ acc \in [0..n -> Db] /\ acc[0] = none
      /\ \A i \in 1..n : acc[i] = Created(acc[i - 1], seq[i])
  <2>1. \A i \in 0..n : acc[i] = m[1..i] /\ 1..i \in SUBSET (1..n)
    BY <1>0, <1>7
  <2>2. \A i \in 0..n : m[1..i] \in Db
    BY <2>1, <1>5 DEF Runs
  <2>3. acc[0] = none
    BY <2>1, <1>0, <1>5 DEF Runs
  <2>4. ASSUME NEW i \in 1..n PROVE acc[i] = Created(acc[i - 1], seq[i])
    <3>1. m[1..i] = h[<<m[1..(i - 1)], i>>]
      BY <1>5 DEF Runs
    <3>2. i \in 0..n /\ i - 1 \in 0..n
      BY <1>0
    <3> QED BY <1>4, <2>1, <2>2, <3>1, <3>2
  <2> QED BY <1>7, <2>1, <2>2, <2>3, <2>4
\* Items not yet done still have their slots free.
<1> DEFINE Q(i) == Sound(acc[i]) /\ \A j \in 1..n : j > i => Unused(acc[i], slot[seq[j]])
<1>9. Q(0)
  BY <1>0, <1>s, <1>8
<1>10. ASSUME NEW i \in 1..n, Q(i - 1) PROVE Q(i)
  <2>1. PICK d, e, t : d = acc[i - 1] /\ e = acc[i] /\ t = seq[i]
    OBVIOUS
  <2>2. d \in Db /\ t \in Items /\ e = Created(d, t) /\ Sound(d) /\ Unused(d, slot[t])
    <3>1. i - 1 \in 0..n /\ i > i - 1
      BY <1>0
    <3> QED BY <1>0, <1>8, <1>10, <2>1, <3>1
  <2>3. Sound(e) /\ \A l \in Slots \ {slot[t]} : Unused(d, l) => Unused(e, l)
    BY <1>2, <2>2
  <2>4. ASSUME NEW j \in 1..n, j > i PROVE Unused(e, slot[seq[j]])
    <3>1. Unused(d, slot[seq[j]])
      <4>1. j > i - 1
        BY <1>0, <2>4
      <4> QED BY <1>10, <2>1, <4>1
    <3>2. seq[j] # t /\ seq[j] \in Items
      BY <1>0, <2>1, <2>4
    <3>3. slot[seq[j]] \in Slots \ {slot[t]}
      BY <1>s, <2>2, <3>2
    <3> QED BY <2>3, <3>1, <3>3
  <2> QED BY <2>1, <2>3, <2>4
<1>11. Q(n)
  <2> DEFINE T == {i \in 0..n : ~Q(i)}
  <2> SUFFICES ASSUME T # {} PROVE FALSE
    BY <1>0
  <2>1. T \in SUBSET Nat
    BY <1>0
  <2> HIDE DEF Q
  <2>2. PICK i \in T : \A j \in T : i <= j
    <3> HIDE DEF T
    <3> QED BY <2>1, LeastNat
  <2>3. i \in 1..n /\ i - 1 \in 0..n
    BY <1>0, <1>9
  <2>4. Q(i - 1)
    <3>1. i - 1 \notin T
      <4> HIDE DEF T
      <4> QED BY <2>2, <2>3
    <3> QED BY <2>3, <3>1
  <2> QED BY <1>10, <2>2, <2>3, <2>4
<1>12. acc[n] = m[1..n]
  BY <1>0, <1>7
<1>13. b = acc[n]
  BY <1>f, <1>6, <1>12, Zenon
<1> QED BY <1>11, <1>13

LEMMA InitSound == Init => Sound(db) /\ steps = 0 /\ served = None
<1> SUFFICES ASSUME Init PROVE Sound(db) /\ steps = 0 /\ served = None
  OBVIOUS
<1>1. PICK listed \in SUBSET Fabrics, stored \in [Fabrics -> 0..MaxStock], seq \in SetToSeqs(Items),
           want \in [Items -> Amounts \cup {0, None}], fabric \in [Items -> Fabrics],
           slot \in Injection(Items, Slots) :
        db = Tables(want, fabric, slot, NoneYet(listed, stored), seq)
  BY Zenon DEF Init, NoneYet, Shelf, Tables
<1> DEFINE Created(d, i) ==
      IF want[i] = None THEN d
      ELSE _create_item_upholstery(d, i, "INTERNAL", fabric[i], want[i], slot[i])
<1>2. PICK none, e : none = NoneYet(listed, stored) /\ e = Tables(want, fabric, slot, none, seq)
  OBVIOUS
<1>3. Sound(none) /\ \A k \in Slots : Unused(none, k)
  BY <1>2, NoneYetSound
<1>4. Lists(seq, Items, Cardinality(Items))
  BY UpholsteryAssumption, ListedOnce
<1>5. Sound(e)
  BY <1>2, <1>3, <1>4, FirstTables
<1>6. db = e
  BY <1>1, <1>2
<1>7. steps = 0 /\ served = None
  BY Zenon DEF Init
<1> QED BY <1>5, <1>6, <1>7

-----------------------------------------------------------------------------
(* The commands.                                                              *)

\* What a command leaves behind.
Kept ==
  /\ Sound(db') /\ steps < MaxSteps /\ steps' = steps + 1
  /\ served' \in Fabrics \cup {None} /\ (served' # None => Served(db', served'))

LEMMA Serving ==
  ASSUME NEW e, Sound(e), NEW f \in Fabrics, Served(e, f), CommitServing(e, f)
  PROVE  Kept
<1>1. db' = Tidy(e) /\ steps < MaxSteps /\ steps' = steps + 1 /\ served' = f
  BY Zenon DEF CommitServing
<1>2. PICK t : t = Tidy(e)
  OBVIOUS
<1>3. Sound(t) /\ Alike(e, t)
  BY <1>2, TidySound
<1>4. Served(t, f)
  BY <1>3, AlikeServed DEF Sound
<1> QED BY <1>1, <1>2, <1>3, <1>4 DEF Kept

LEMMA Committed ==
  ASSUME NEW e, Sound(e), Commit(e)
  PROVE  Kept
<1>1. db' = Tidy(e) /\ steps < MaxSteps /\ steps' = steps + 1 /\ served' = None
  BY Zenon DEF Commit, CommitServing
<1>2. PICK t : t = Tidy(e)
  OBVIOUS
<1>3. Sound(t)
  BY <1>2, TidySound
<1> QED BY <1>1, <1>2, <1>3 DEF Kept

LEMMA FreshUnused == \A n \in Fresh : n \in Slots /\ Unused(db, n)
  BY DEF Fresh, Unused, NoRequirement

LEMMA Queued ==
  ASSUME NEW d, NEW f, NEW S, NEW seq \in SetToSeqs(OfFabric(d, f, S))
  PROVE  Lists(seq, OfFabric(d, f, S), Cardinality(OfFabric(d, f, S)))
<1>1. OfFabric(d, f, S) \subseteq Slots
  BY DEF OfFabric
<1>2. IsFiniteSet(OfFabric(d, f, S))
  BY <1>1, UpholsteryAssumption, FS_Subset
<1> QED BY <1>2, ListedOnce

LEMMA CreateKept ==
  ASSUME Sound(db), NEW i \in Items, NEW s \in Sources, NEW f \in Fabrics \cup {None}, NEW q \in Nat,
         create_item_upholstery(i, s, f, q)
  PROVE  Kept
<1>1. PICK n \in Fresh :
        \/ Commit(_create_item_upholstery(Dropped(db, i), i, s, f, q, n))
        \/ /\ MayUpdate(db, i, s, f, q)
           /\ \E e : /\ e = _update_item_upholstery(db, i, s, f, q, n)
                     /\ \/ Commit(e)
                        \/ MayRequire(e, i, q) /\ Commit(_update_quantity(e, i, q))
  BY Zenon DEF create_item_upholstery
<1>2. n \in Slots /\ Unused(db, n)
  BY FreshUnused
<1>3. CASE Commit(_create_item_upholstery(Dropped(db, i), i, s, f, q, n))
  <2>1. PICK d : d = Dropped(db, i)
    OBVIOUS
  <2>2. Sound(d) /\ Unused(d, n)
    BY <1>2, <2>1, DroppedSound
  <2>3. PICK e : e = _create_item_upholstery(d, i, s, f, q, n)
    OBVIOUS
  <2>4. Sound(e)
    BY <1>2, <2>2, <2>3, CreatedSound
  <2>5. Commit(e)
    BY <1>3, <2>1, <2>3
  <2> QED BY <2>4, <2>5, Committed
<1>4. ASSUME MayUpdate(db, i, s, f, q), NEW e, e = _update_item_upholstery(db, i, s, f, q, n),
             \/ Commit(e)
             \/ MayRequire(e, i, q) /\ Commit(_update_quantity(e, i, q))
      PROVE  Kept
  <2>1. Sound(e)
    BY <1>2, <1>4, UpdateSound
  <2>2. CASE Commit(e)
    BY <2>1, <2>2, Committed
  <2>3. CASE MayRequire(e, i, q) /\ Commit(_update_quantity(e, i, q))
    <3>1. PICK c : c = _update_quantity(e, i, q)
      OBVIOUS
    <3>2. Sound(c)
      BY <2>1, <2>3, <3>1, QuantitySound
    <3>3. Commit(c)
      BY <2>3, <3>1
    <3> QED BY <3>2, <3>3, Committed
  <2> QED BY <1>4, <2>2, <2>3
<1> QED BY <1>1, <1>3, <1>4

LEMMA UpdateKept ==
  ASSUME Sound(db), NEW i \in Items, NEW s \in Sources, NEW f \in Fabrics \cup {None}, NEW q \in Nat,
         update_item_upholstery(i, s, f, q)
  PROVE  Kept
<1>1. PICK n \in Fresh : Commit(_update_item_upholstery(db, i, s, f, q, n))
  BY Zenon DEF update_item_upholstery
<1>2. MayUpdate(db, i, s, f, q)
  BY Zenon DEF update_item_upholstery
<1>3. n \in Slots /\ Unused(db, n)
  BY FreshUnused
<1>4. PICK e : e = _update_item_upholstery(db, i, s, f, q, n)
  OBVIOUS
<1>5. Sound(e)
  BY <1>2, <1>3, <1>4, UpdateSound
<1>6. Commit(e)
  BY <1>1, <1>4
<1> QED BY <1>5, <1>6, Committed

LEMMA DeleteKept ==
  ASSUME Sound(db), NEW i \in Items, delete_item_upholstery(i)
  PROVE  Kept
<1>1. PICK R : /\ R = {db.iup[i].active} \ {None}
               /\ Commit(Dropped(cancel_requirements_in_session(db, R, FALSE), i))
  BY Zenon DEF delete_item_upholstery
<1>2. R \in SUBSET Slots
  BY <1>1 DEF Sound, Db, Coverings
<1>3. PICK d : d = cancel_requirements_in_session(db, R, FALSE)
  OBVIOUS
<1>4. Sound(d)
  BY <1>2, <1>3, Cancellation DEF Cancels
<1>5. PICK e : e = Dropped(d, i)
  OBVIOUS
<1>6. Sound(e)
  BY <1>4, <1>5, DroppedSound
<1>7. Commit(e)
  BY <1>1, <1>3, <1>5
<1> QED BY <1>6, <1>7, Committed

LEMMA QuantityKept ==
  ASSUME Sound(db), NEW i \in Items, NEW q \in Nat, update_requirement_quantity(i, q)
  PROVE  Kept
<1>1. MayRequire(db, i, q) /\ Commit(_update_quantity(db, i, q))
  BY Zenon DEF update_requirement_quantity
<1>2. PICK e : e = _update_quantity(db, i, q)
  OBVIOUS
<1>3. Sound(e)
  BY <1>1, <1>2, QuantitySound
<1>4. Commit(e)
  BY <1>1, <1>2
<1> QED BY <1>3, <1>4, Committed

\* What a surplus in full, or in part, leaves of the tables c.
Partly(c, k, n, q) ==
  [c EXCEPT !.req[k].amount = @ - q, !.req[n] = [db.req[k] EXCEPT !.amount = q, !.state = "AVAILABLE"]]
Surplus(c, k, q) ==
  \/ q = db.req[k].amount /\ Commit(Whole(c, k))
  \/ \E n \in Fresh : Commit(Partly(c, k, n, q))

LEMMA SurplusKept ==
  ASSUME Sound(db), NEW i \in Items, NEW q \in Nat, apply_surplus_to_requirement(i, q)
  PROVE  Kept
<1>1. PICK k, f, c :
        /\ k = db.iup[i].active /\ f = db.req[k].fabric /\ c = add_stored_surplus(db, f, q)
        /\ k # None /\ db.req[k].state \in Waiting /\ q <= db.req[k].amount
        /\ Surplus(c, k, q)
  <2>1. Waiting = {"NEEDS_ORDERING", "ORDERED"}
    BY DEF Waiting
  <2> QED BY <2>1, Zenon DEF apply_surplus_to_requirement, Surplus, Partly, Whole
<1>2. k \in Slots /\ db.req[k].item = i /\ i # None /\ f \in Fabrics
  <2>1. k \in Slots
    BY <1>1 DEF Sound, Db, Coverings
  <2>2. db.req[k].item = i /\ f \in Fabrics
    BY <1>1, <2>1 DEF Sound, Own, Placed
  <2> QED BY <2>1, <2>2, UpholsteryAssumption
<1>3. Roomy(c, k, q) /\ c.req = db.req
  <2>1. /\ db.req[k].state \in Waiting /\ q <= db.req[k].amount
        /\ c = add_stored_surplus(db, db.req[k].fabric, q)
    BY <1>1
  <2> HIDE <1>1
  <2> QED BY <1>2, <2>1, Given
<1>4. CASE q = db.req[k].amount /\ Commit(Whole(c, k))
  <2>1. PICK e : e = Whole(c, k)
    OBVIOUS
  <2>2. Sound(e)
    BY <1>3, <1>4, <2>1, WholeSound
  <2>3. Commit(e)
    BY <1>4, <2>1
  <2> QED BY <2>2, <2>3, Committed
<1>5. ASSUME NEW n \in Fresh, Commit(Partly(c, k, n, q)) PROVE Kept
  <2>1. n \in Slots /\ Unused(c, n)
    BY <1>3, FreshUnused DEF Unused
  <2>2. PICK e : e = Split(c, k, n, q)
    OBVIOUS
  <2>3. Sound(e)
    BY <1>2, <1>3, <2>1, <2>2, SplitSound
  <2>4. Split(c, k, n, q) = Partly(c, k, n, q)
    BY <1>3, Zenon DEF Split, Partly
  <2> QED BY <1>5, <2>2, <2>3, <2>4, Committed
<1>6. Surplus(c, k, q)
  BY <1>1
<1> QED BY <1>4, <1>5, <1>6, Zenon DEF Surplus

LEMMA PromoteKept ==
  ASSUME Sound(db), NEW R \in SUBSET Slots, NEW target, Promotes(db, R, target),
         Commit(Promote(db, R, target))
  PROVE  Kept
<1>1. PICK e : e = Promote(db, R, target)
  OBVIOUS
<1>2. Sound(e)
  BY <1>1, Promotion
<1> QED BY <1>1, <1>2, Committed

LEMMA InUseKept ==
  ASSUME Sound(db), NEW i \in Items, mark_requirements_in_use(i)
  PROVE  Kept
<1>1. PICK R : R = {k \in OfItem(db, i) : db.req[k].state = "AVAILABLE"}
  OBVIOUS
<1>2. Commit(Promote(db, R, "IN_USE"))
  BY <1>1, Zenon DEF mark_requirements_in_use
<1>3. R \in SUBSET Slots /\ Promotes(db, R, "IN_USE")
  BY <1>1 DEF OfItem, Promotes
<1> QED BY <1>2, <1>3, PromoteKept

LEMMA CompletedKept ==
  ASSUME Sound(db), NEW i \in Items, mark_requirements_completed(i)
  PROVE  Kept
<1>1. PICK R : R = {k \in OfItem(db, i) : db.req[k].state \in {"AVAILABLE", "IN_USE"}}
  OBVIOUS
<1>2. Commit(Promote(db, R, "COMPLETED"))
  BY <1>1, Zenon DEF mark_requirements_completed
<1>3. R \in SUBSET Slots /\ Promotes(db, R, "COMPLETED")
  BY <1>1 DEF OfItem, Promotes
<1> QED BY <1>2, <1>3, PromoteKept

LEMMA SingleKept ==
  ASSUME Sound(db), NEW k \in Slots, complete_single_requirement(k)
  PROVE  Kept
<1>1. db.req[k].state = "IN_USE" /\ Commit(Promote(db, {k}, "COMPLETED"))
  BY Zenon DEF complete_single_requirement
<1>2. {k} \in SUBSET Slots /\ Promotes(db, {k}, "COMPLETED")
  BY <1>1 DEF Promotes
<1> QED BY <1>1, <1>2, PromoteKept

LEMMA ReallocateKept ==
  ASSUME Sound(db), NEW f \in Fabrics, NEW D \in SUBSET Items, reallocate_stock(f, D)
  PROVE  Kept
<1>1. PICK G : G = {k \in OfFabric(db, f, {"AVAILABLE"}) : db.req[k].cur /\ db.req[k].item \in D}
  OBVIOUS
<1>2. PICK c : c = [db EXCEPT !.req = [k \in Slots |->
                     IF k \in G THEN [@[k] EXCEPT !.state = "NEEDS_ORDERING"] ELSE @[k]]]
  OBVIOUS
<1>3. PICK seq \in SetToSeqs(OfFabric(c, f, {"NEEDS_ORDERING"})) :
        Commit(run_skip_and_continue_allocation(c, seq, Meters(db, G), "AVAILABLE"))
  BY <1>1, <1>2, Zenon DEF reallocate_stock
<1>4. c = Donated(db, G)
  BY <1>2, Zenon DEF Donated
<1>5. G \in SUBSET OfFabric(db, f, {"AVAILABLE"})
  BY <1>1
<1>6. PICK n : Lists(seq, OfFabric(c, f, {"NEEDS_ORDERING"}), n)
  BY Queued
<1>7. PICK e : e = run_skip_and_continue_allocation(c, seq, Meters(db, G), "AVAILABLE")
  OBVIOUS
<1> HIDE <1>1, <1>2
<1>8. Sound(e)
  BY <1>4, <1>5, <1>6, <1>7, DonatedSound
<1>9. Commit(e)
  BY <1>3, <1>7
<1> QED BY <1>8, <1>9, Committed

LEMMA OrderedKept ==
  ASSUME Sound(db), NEW f \in Fabrics, NEW q \in Nat, mark_requirements_ordered(f, q)
  PROVE  Kept
<1>1. PICK seq \in SetToSeqs(OfFabric(db, f, {"NEEDS_ORDERING"})) :
        Commit(run_skip_and_continue_allocation(db, seq, q, "ORDERED"))
  BY Zenon DEF mark_requirements_ordered
<1>2. PICK n : Lists(seq, OfFabric(db, f, {"NEEDS_ORDERING"}), n)
  BY Queued
<1>3. PICK e : e = run_skip_and_continue_allocation(db, seq, q, "ORDERED")
  OBVIOUS
<1>4. q \in Int
  OBVIOUS
<1>5. Sound(e)
  BY <1>2, <1>3, <1>4, SpokenFor
<1> QED BY <1>1, <1>3, <1>5, Committed

LEMMA ResolveKept ==
  ASSUME Sound(db), NEW f \in Fabrics, resolve_requirements_after_stock(f)
  PROVE  Kept
<1>1. PICK seq \in SetToSeqs(OfFabric(db, f, Waiting)) :
        CommitServing(allocate_pooled_requirements(db, f, seq, "AVAILABLE"), f)
  BY Zenon DEF resolve_requirements_after_stock, Waiting
<1>2. PICK n : Lists(seq, OfFabric(db, f, Waiting), n)
  BY Queued
<1>3. PICK e : e = allocate_pooled_requirements(db, f, seq, "AVAILABLE")
  OBVIOUS
<1>4. Sound(e) /\ Served(e, f)
  BY <1>2, <1>3, Resupplied
<1> QED BY <1>1, <1>3, <1>4, Serving

\* What is ordered is spoken for by those that wait, in the pool it makes.
LEMMA PooledOrder ==
  ASSUME NEW d, Sound(d), NEW f \in Fabrics, NEW seq, NEW n,
         Lists(seq, OfFabric(d, f, {"NEEDS_ORDERING"}), n),
         NEW e, e = allocate_pooled_requirements(d, f, seq, "ORDERED")
  PROVE  Sound(e)
<1>1. ToSet(seq) \in SUBSET Slots
  <2>1. ToSet(seq) = OfFabric(d, f, {"NEEDS_ORDERING"})
    BY ListedSet
  <2> QED BY <2>1 DEF OfFabric
<1>2. PICK v : v = d.inv[f]
  OBVIOUS
<1>3. v.stored \in Nat /\ v.ordered \in Nat /\ v.need \in Nat
  BY <1>2 DEF Sound, Db, Shelves
<1>4. PICK m : m = Meters(d, ToSet(seq))
  OBVIOUS
<1>5. m \in Nat
  BY <1>1, <1>4, DbMetered, MetersAre DEF Sound
<1>6. PICK pool : pool = calculate_pooled_requirement_pool(d, f, ToSet(seq), TRUE)
  OBVIOUS
<1>7. pool = v.stored + v.ordered - (v.need - m)
  BY <1>2, <1>4, <1>6 DEF calculate_pooled_requirement_pool
<1>8. pool \in Int
  BY <1>3, <1>5, <1>7
<1>9. e = run_skip_and_continue_allocation(d, seq, pool, "ORDERED")
  BY <1>6, Zenon DEF allocate_pooled_requirements
<1> QED BY <1>8, <1>9, SpokenFor

LEMMA PlaceKept ==
  ASSUME Sound(db), NEW o \in Orders, NEW f \in Fabrics, NEW q \in Nat,
         create_upholstery_order(o, f, q)
  PROVE  Kept
<1>1. PICK p, a : p = [fabric |-> f, left |-> q] /\ a = add_ordered(db, f, q)
  OBVIOUS
<1>2. PICK c : c = [a EXCEPT !.order[o] = p]
  OBVIOUS
<1>3. PICK seq \in SetToSeqs(OfFabric(c, f, {"NEEDS_ORDERING"})) :
        Commit(allocate_pooled_requirements(c, f, seq, "ORDERED"))
  BY <1>1, <1>2, Zenon DEF create_upholstery_order
<1>4. p \in Placements /\ p.fabric \in Fabrics
  BY <1>1 DEF Placements
<1>5. Sound(a)
  BY <1>1, OrderedMore
<1>6. Sound(c)
  BY <1>2, <1>4, <1>5, OrderSet
<1>7. PICK n : Lists(seq, OfFabric(c, f, {"NEEDS_ORDERING"}), n)
  BY Queued
<1>8. PICK e : e = allocate_pooled_requirements(c, f, seq, "ORDERED")
  OBVIOUS
<1>9. Sound(e)
  BY <1>6, <1>7, <1>8, PooledOrder
<1> QED BY <1>3, <1>8, <1>9, Committed

LEMMA ReceiveKept ==
  ASSUME Sound(db), NEW o \in Orders, NEW q \in Nat \ {0}, receive_upholstery_order(o, q)
  PROVE  Kept
<1>1. PICK f, a, c :
        /\ f = db.order[o].fabric /\ a = [db EXCEPT !.order[o].left = @ - q]
        /\ c = confirm_ordered_to_stock(a, f, q)
  OBVIOUS
<1>2. /\ q <= db.order[o].left /\ Confirmable(db.inv[f], q)
      /\ \E seq \in SetToSeqs(OfFabric(db, f, Waiting)) :
           CommitServing(allocate_pooled_requirements(c, f, seq, "AVAILABLE"), f)
  BY <1>1, Zenon DEF receive_upholstery_order, Waiting
<1>3. PICK seq \in SetToSeqs(OfFabric(db, f, Waiting)) :
        CommitServing(allocate_pooled_requirements(c, f, seq, "AVAILABLE"), f)
  BY <1>2
<1>4. PICK w : w = db.order[o]
  OBVIOUS
<1>5. q <= w.left
  BY <1>2, <1>4
<1>6. w \in Placements /\ w.left \in Nat /\ f \in Fabrics
  <2>1. w \in Placements /\ (w.left # 0 => w.fabric \in Fabrics)
    BY <1>4 DEF Sound, Db, Sent
  <2>2. w.left \in Nat
    BY <2>1 DEF Placements
  <2>3. f = w.fabric
    BY <1>1, <1>4
  <2> QED BY <1>5, <2>1, <2>2, <2>3
<1>7. PICK p : p = [w EXCEPT !.left = @ - q]
  OBVIOUS
<1>8. p \in Placements /\ p.fabric \in Fabrics
  <2>1. w.left - q \in Nat
    BY <1>5, <1>6
  <2>2. w = [fabric |-> w.fabric, left |-> w.left] /\ w.fabric = f
    BY <1>1, <1>4, <1>6 DEF Placements
  <2>3. p = [fabric |-> f, left |-> w.left - q]
    BY <1>7, <2>2
  <2> QED BY <1>6, <2>1, <2>3 DEF Placements
<1>9. a = [db EXCEPT !.order[o] = p]
  BY <1>1, <1>4, <1>7
<1> HIDE <1>1
<1>10. Sound(a) /\ a.inv = db.inv /\ a.req = db.req
  BY <1>8, <1>9, OrderSet
<1>11. q <= a.inv[f].ordered
  <2>1. PICK v : v = db.inv[f]
    OBVIOUS
  <2>2. v.ordered \in Nat
    BY <1>6, <2>1 DEF Sound, Db, Shelves
  <2>3. v.ordered - q >= 0
    BY <1>2, <2>1 DEF Confirmable
  <2> QED BY <1>10, <2>1, <2>2, <2>3
<1>12. c = confirm_ordered_to_stock(a, f, q)
  BY <1>1
<1>13. Sound(c) /\ c.req = db.req
  BY <1>6, <1>10, <1>11, <1>12, ArrivedSound
<1>14. OfFabric(db, f, Waiting) = OfFabric(c, f, Waiting)
  BY <1>13 DEF OfFabric
<1>15. PICK n : Lists(seq, OfFabric(c, f, Waiting), n)
  BY <1>14, Queued
<1>16. PICK e : e = allocate_pooled_requirements(c, f, seq, "AVAILABLE")
  OBVIOUS
<1>17. Sound(e) /\ Served(e, f)
  BY <1>6, <1>13, <1>15, <1>16, Resupplied
<1> QED BY <1>3, <1>6, <1>16, <1>17, Serving

LEMMA AddKept ==
  ASSUME Sound(db), NEW f \in Fabrics, NEW q \in Nat, add_ordered_to_inventory(f, q)
  PROVE  Kept
<1>1. Commit(add_ordered(db, f, q))
  BY Zenon DEF add_ordered_to_inventory
<1>2. PICK e : e = add_ordered(db, f, q)
  OBVIOUS
<1>3. Sound(e)
  BY <1>2, OrderedMore
<1> QED BY <1>1, <1>2, <1>3, Committed

LEMMA ConfirmKept ==
  ASSUME Sound(db), NEW f \in Fabrics, NEW q \in Nat, confirm_ordered_to_stock_inventory(f, q)
  PROVE  Kept
<1>1. Confirmable(db.inv[f], q) /\ Commit(confirm_ordered_to_stock(db, f, q))
  BY Zenon DEF confirm_ordered_to_stock_inventory
<1>2. PICK v : v = db.inv[f]
  OBVIOUS
<1>3. v.ordered \in Nat /\ v.ordered - q >= 0
  BY <1>1, <1>2 DEF Sound, Db, Shelves, Confirmable
<1>4. q <= db.inv[f].ordered
  BY <1>2, <1>3
<1>5. PICK e : e = confirm_ordered_to_stock(db, f, q)
  OBVIOUS
<1>6. Sound(e)
  BY <1>4, <1>5, ArrivedSound
<1> QED BY <1>1, <1>5, <1>6, Committed

LEMMA CountKept ==
  ASSUME Sound(db), NEW f \in Fabrics, NEW n \in Nat, set_current_stored_amount(f, n)
  PROVE  Kept
<1>1. PICK c : c = Counted(db, f, n)
  OBVIOUS
<1>2. \E down \in SetToSeqs(OfFabric(db, f, {"AVAILABLE"})) :
        \E b : /\ b = _demote_available_requirements(c, f, down)
               /\ \E first \in SetToSeqs(OfFabric(b, f, {"ORDERED"})),
                     rest  \in SetToSeqs(OfFabric(b, f, {"NEEDS_ORDERING"})) :
                    CommitServing(allocate_pooled_requirements(b, f, first \o rest, "AVAILABLE"), f)
  BY <1>1, Zenon DEF set_current_stored_amount, Counted
<1>3a. PICK down \in SetToSeqs(OfFabric(db, f, {"AVAILABLE"})) :
        \E b : /\ b = _demote_available_requirements(c, f, down)
               /\ \E first \in SetToSeqs(OfFabric(b, f, {"ORDERED"})),
                     rest  \in SetToSeqs(OfFabric(b, f, {"NEEDS_ORDERING"})) :
                    CommitServing(allocate_pooled_requirements(b, f, first \o rest, "AVAILABLE"), f)
  BY <1>2, Zenon
<1>3. PICK b :
        /\ b = _demote_available_requirements(c, f, down)
        /\ \E first \in SetToSeqs(OfFabric(b, f, {"ORDERED"})),
              rest  \in SetToSeqs(OfFabric(b, f, {"NEEDS_ORDERING"})) :
             CommitServing(allocate_pooled_requirements(b, f, first \o rest, "AVAILABLE"), f)
  BY <1>3a, Zenon
<1>4. PICK first \in SetToSeqs(OfFabric(b, f, {"ORDERED"})),
           rest \in SetToSeqs(OfFabric(b, f, {"NEEDS_ORDERING"})) :
        CommitServing(allocate_pooled_requirements(b, f, first \o rest, "AVAILABLE"), f)
  BY <1>3, Zenon
<1>5. PICK l : Lists(down, OfFabric(db, f, {"AVAILABLE"}), l)
  BY Queued
<1>6. Sound(b)
  <2>1. b = _demote_available_requirements(c, f, down)
    BY <1>3
  <2> HIDE <1>2, <1>3a, <1>3, <1>4
  <2> QED BY <1>1, <1>5, <2>1, CountedSound
<1>7. PICK j : Lists(first, OfFabric(b, f, {"ORDERED"}), j)
  BY Queued
<1>8. PICK k : Lists(rest, OfFabric(b, f, {"NEEDS_ORDERING"}), k)
  BY Queued
<1>9. /\ OfFabric(b, f, {"ORDERED"}) \cap OfFabric(b, f, {"NEEDS_ORDERING"}) = {}
      /\ OfFabric(b, f, {"ORDERED"}) \cup OfFabric(b, f, {"NEEDS_ORDERING"}) = OfFabric(b, f, Waiting)
  BY DEF OfFabric, Waiting
<1>10. PICK seq : seq = first \o rest
  OBVIOUS
<1>11. Lists(seq, OfFabric(b, f, Waiting), j + k)
  BY <1>7, <1>8, <1>9, <1>10, ListedTogether
<1>12. PICK e : e = allocate_pooled_requirements(b, f, seq, "AVAILABLE")
  OBVIOUS
<1>13. Sound(e) /\ Served(e, f)
  BY <1>6, <1>11, <1>12, Resupplied
<1>14. CommitServing(e, f)
  BY <1>4, <1>10, <1>12
<1> QED BY <1>13, <1>14, Serving

LEMMA ThresholdKept ==
  ASSUME Sound(db), NEW f \in Fabrics, NEW n \in Nat, update_upholstery_inventory(f, n)
  PROVE  Kept
<1>1. PICK e : e = Warned(db, f, n)
  OBVIOUS
<1>2. Commit(e)
  BY <1>1, Zenon DEF update_upholstery_inventory, Warned
<1>3. Sound(e)
  BY <1>1, ThresholdSound
<1> QED BY <1>2, <1>3, Committed

LEMMA ListedKept ==
  ASSUME Sound(db), NEW f \in Fabrics, NEW n \in Nat, create_upholstery_inventory(f, n)
  PROVE  Kept
<1>1. PICK e : e = Listed(db, f, n)
  OBVIOUS
<1>2. Commit(e) /\ db.inv[f].cond = "NONE"
  BY <1>1, Zenon DEF create_upholstery_inventory, Listed, HasRow
<1>3. Sound(e)
  BY <1>1, <1>2, ListedSound
<1> QED BY <1>2, <1>3, Committed

LEMMA DeletionKept ==
  ASSUME Sound(db), NEW i \in Items, delete_task(i)
  PROVE  Kept
<1>1. PICK R : R = OfItem(db, i)
  OBVIOUS
<1>2. PICK d : d = cancel_requirements_in_session(db, R, TRUE)
  OBVIOUS
<1>3. Commit([d EXCEPT !.gone = @ \cup {i}])
  BY <1>1, <1>2, Zenon DEF delete_task
<1>4. R \in SUBSET Slots
  BY <1>1 DEF OfItem
<1>5. Sound(d)
  BY <1>2, <1>4, Cancellation DEF Cancels
<1>6. d.gone \cup {i} \in SUBSET Items
  BY <1>5 DEF Sound, Db
<1>7. PICK e : e = [d EXCEPT !.gone = d.gone \cup {i}]
  OBVIOUS
<1>8. Sound(e)
  BY <1>5, <1>6, <1>7, GoneSet
<1>9. Commit(e)
  BY <1>3, <1>7
<1> QED BY <1>8, <1>9, Committed

LEMMA RestoreKept ==
  ASSUME Sound(db), NEW i \in Items, restore_task(i)
  PROVE  Kept
<1>1. PICK d : d = [db EXCEPT !.gone = db.gone \ {i}]
  OBVIOUS
<1>2. PICK u : u = d.iup[i]
  OBVIOUS
<1>3. PICK r : r = d.req[u.active]
  OBVIOUS
<1>4. \/ /\ u.active # None
         /\ \E n \in Fresh :
              Commit(_create_item_upholstery(Dropped(d, i), i, u.source, u.fabric, r.amount, n))
      \/ Commit(d)
  BY <1>1, <1>2, <1>3, Zenon DEF restore_task
<1>5. Sound(d) /\ d.req = db.req
  <2>1. db.gone \ {i} \in SUBSET Items
    BY DEF Sound, Db
  <2> QED BY <1>1, <2>1, GoneSet
<1> HIDE <1>1
<1>6. ASSUME u.active # None, NEW n \in Fresh,
             Commit(_create_item_upholstery(Dropped(d, i), i, u.source, u.fabric, r.amount, n))
      PROVE  Kept
  <2>1. u \in Coverings
    BY <1>2, <1>5 DEF Sound, Db
  <2>2. r \in Needs
    <3>1. u.active \in Slots
      BY <1>6, <2>1 DEF Coverings
    <3> QED BY <1>3, <1>5, <3>1 DEF Sound, Db
  <2>3. PICK s, f, q : s = u.source /\ f = u.fabric /\ q = r.amount
    OBVIOUS
  <2>4. s \in Sources /\ f \in Fabrics \cup {None}
    BY <2>1, <2>3 DEF Coverings
  <2>5. q \in Nat
    BY <2>2, <2>3 DEF Needs
  <2>6. n \in Slots /\ Unused(d, n)
    BY <1>5, FreshUnused DEF Unused
  <2>7. PICK c : c = Dropped(d, i)
    OBVIOUS
  <2>8. Sound(c) /\ Unused(c, n)
    BY <1>5, <2>6, <2>7, DroppedSound
  <2>9. PICK e : e = _create_item_upholstery(c, i, s, f, q, n)
    OBVIOUS
  <2>10. Sound(e)
    BY <2>4, <2>5, <2>6, <2>8, <2>9, CreatedSound
  <2>11. Commit(e)
    BY <1>6, <2>3, <2>7, <2>9
  <2> QED BY <2>10, <2>11, Committed
<1>7. CASE Commit(d)
  BY <1>5, <1>7, Committed
<1> QED BY <1>4, <1>6, <1>7

-----------------------------------------------------------------------------
(* The theorems.                                                              *)

IInv ==
  /\ Sound(db) /\ steps \in 0..MaxSteps
  /\ served \in Fabrics \cup {None} /\ (served # None => Served(db, served))

LEMMA InitInv == Init => IInv
  BY InitSound, UpholsteryAssumption DEF IInv

LEMMA OfAnItem ==
  ASSUME IInv, NEW i \in Items,
         \/ \E c \in Selections, q \in Amounts \cup {0} :
              create_item_upholstery(i, c[1], c[2], q) \/ update_item_upholstery(i, c[1], c[2], q)
         \/ \E q \in Amounts :
              update_requirement_quantity(i, q) \/ apply_surplus_to_requirement(i, q)
         \/ delete_item_upholstery(i) \/ delete_task(i) \/ restore_task(i)
         \/ mark_requirements_in_use(i) \/ mark_requirements_completed(i)
  PROVE  Kept
<1>1. Sound(db)
  BY DEF IInv
<1>2. ASSUME NEW c \in Selections, NEW q \in Amounts \cup {0},
             create_item_upholstery(i, c[1], c[2], q) \/ update_item_upholstery(i, c[1], c[2], q)
      PROVE  Kept
  <2>1. c[1] \in Sources /\ c[2] \in Fabrics \cup {None} /\ q \in Nat
    BY UpholsteryAssumption
  <2>2. CASE create_item_upholstery(i, c[1], c[2], q)
    BY <1>1, <2>1, <2>2, CreateKept
  <2>3. CASE update_item_upholstery(i, c[1], c[2], q)
    BY <1>1, <2>1, <2>3, UpdateKept
  <2> QED BY <1>2, <2>2, <2>3
<1>3. ASSUME NEW q \in Amounts,
             update_requirement_quantity(i, q) \/ apply_surplus_to_requirement(i, q)
      PROVE  Kept
  <2>1. q \in Nat
    BY UpholsteryAssumption
  <2> QED BY <1>1, <1>3, <2>1, QuantityKept, SurplusKept
<1>4. CASE delete_item_upholstery(i)
  BY <1>1, <1>4, DeleteKept
<1>5. CASE delete_task(i)
  BY <1>1, <1>5, DeletionKept
<1>6. CASE restore_task(i)
  BY <1>1, <1>6, RestoreKept
<1>7. CASE mark_requirements_in_use(i)
  BY <1>1, <1>7, InUseKept
<1>8. CASE mark_requirements_completed(i)
  BY <1>1, <1>8, CompletedKept
<1> QED BY <1>2, <1>3, <1>4, <1>5, <1>6, <1>7, <1>8

LEMMA OfAFabric ==
  ASSUME IInv, NEW f \in Fabrics,
         \/ \E D \in SUBSET Items : reallocate_stock(f, D)
         \/ \E q \in Amounts :
              \/ mark_requirements_ordered(f, q)
              \/ add_ordered_to_inventory(f, q) \/ confirm_ordered_to_stock_inventory(f, q)
              \/ \E o \in Orders : create_upholstery_order(o, f, q)
         \/ resolve_requirements_after_stock(f)
         \/ \E n \in Thresholds \cup {0} : create_upholstery_inventory(f, n)
         \/ \E n \in Thresholds : update_upholstery_inventory(f, n)
         \/ \E n \in 0..MaxStock : set_current_stored_amount(f, n)
  PROVE  Kept
<1>1. Sound(db)
  BY DEF IInv
<1>2. ASSUME NEW D \in SUBSET Items, reallocate_stock(f, D) PROVE Kept
  BY <1>1, <1>2, ReallocateKept
<1>3. ASSUME NEW q \in Amounts,
             \/ mark_requirements_ordered(f, q)
             \/ add_ordered_to_inventory(f, q) \/ confirm_ordered_to_stock_inventory(f, q)
             \/ \E o \in Orders : create_upholstery_order(o, f, q)
      PROVE  Kept
  <2>1. q \in Nat
    BY UpholsteryAssumption
  <2> QED BY <1>1, <1>3, <2>1, OrderedKept, AddKept, ConfirmKept, PlaceKept
<1>4. CASE resolve_requirements_after_stock(f)
  BY <1>1, <1>4, ResolveKept
<1>5. ASSUME NEW n \in Thresholds, update_upholstery_inventory(f, n) PROVE Kept
  <2>1. n \in Nat
    BY UpholsteryAssumption
  <2> QED BY <1>1, <1>5, <2>1, ThresholdKept
<1>6. ASSUME NEW n \in 0..MaxStock, set_current_stored_amount(f, n) PROVE Kept
  <2>1. n \in Nat
    OBVIOUS
  <2> QED BY <1>1, <1>6, <2>1, CountKept
<1>7. ASSUME NEW n \in Thresholds \cup {0}, create_upholstery_inventory(f, n) PROVE Kept
  <2>1. n \in Nat
    BY UpholsteryAssumption
  <2> QED BY <1>1, <1>7, <2>1, ListedKept
<1> QED BY <1>2, <1>3, <1>4, <1>5, <1>6, <1>7

LEMMA NextInv == IInv /\ [Next]_vars => IInv'
<1> SUFFICES ASSUME IInv, [Next]_vars PROVE IInv'
  OBVIOUS
<1>1. CASE UNCHANGED vars
  <2>1. db' = db /\ steps' = steps /\ served' = served
    BY <1>1 DEF vars
  <2> QED BY <2>1 DEF IInv
<1>2. CASE Next
  <2>1. Kept
    <3>1. Sound(db)
      BY DEF IInv
    <3>2. ASSUME NEW o \in Orders, NEW q \in Amounts, receive_upholstery_order(o, q) PROVE Kept
      <4>1. q \in Nat \ {0}
        BY UpholsteryAssumption
      <4> QED BY <3>1, <3>2, <4>1, ReceiveKept
    <3>3. ASSUME NEW k \in Slots, complete_single_requirement(k) PROVE Kept
      BY <3>1, <3>3, SingleKept
    <3> QED BY <1>2, <3>2, <3>3, OfAnItem, OfAFabric, Zenon DEF Next
  <2>2. steps' \in 0..MaxSteps
    BY <2>1, UpholsteryAssumption DEF Kept, IInv
  <2> QED BY <2>1, <2>2 DEF Kept, IInv
<1> QED BY <1>1, <1>2

LEMMA Invariance == Spec => []IInv
  BY InitInv, NextInv, PTL DEF Spec

\* The columns keep their types: no amount ever falls below zero, whatever the commands do to
\* it, and an active requirement is its item's own (models/tables/upholstery).
THEOREM TypeCorrect == Spec => []TypeOK
<1>1. IInv => TypeOK
  <2> SUFFICES ASSUME IInv PROVE TypeOK
    OBVIOUS
  <2>1. Sound(db) /\ db \in Db
    BY DEF IInv, Sound
  <2>2. db.inv \in [Fabrics -> Shelves] /\ db.gone \in SUBSET Items /\ steps \in 0..MaxSteps
    BY <2>1 DEF Db, IInv
  <2>3. ASSUME NEW i \in Items
        PROVE  /\ db.iup[i].active \in Slots \cup {None}
               /\ db.iup[i].active # None => db.req[db.iup[i].active].item = i
    <3>1. db.iup[i] \in Coverings
      BY <2>1 DEF Db
    <3> QED BY <2>1, <3>1 DEF Coverings, Sound, Own
  <2>4. ASSUME NEW k \in Slots PROVE db.req[k].state \in RequirementStates /\ db.req[k].amount \in Nat
    <3>1. db.req[k] \in Needs
      BY <2>1 DEF Db
    <3> QED BY <3>1 DEF Needs
  <2>5. ASSUME NEW o \in Orders PROVE db.order[o].left \in Nat
    <3>1. db.order[o] \in Placements
      BY <2>1 DEF Db
    <3> QED BY <3>1 DEF Placements
  <2> QED BY <2>2, <2>3, <2>4, <2>5 DEF TypeOK, Shelves
<1> QED BY <1>1, Invariance, PTL

\* The amounts of every inventory row are the sums of the requirements behind them, after any
\* sequence of creating, swapping, splitting, promoting, cancelling and reviving them
\* (inventory_mutations.py and the commands that call it).
THEOREM AmountsBalance == Spec => []AmountsAddUp
<1>1. IInv => AmountsAddUp
  BY DEF IInv, Sound, Balanced, Total, AmountsAddUp
<1> QED BY <1>1, Invariance, PTL

\* The AVAILABLE requirements of a fabric never exceed its stock: neither skipping what does not
\* fit, nor demoting for a lower count, nor reallocating between tasks promises a meter twice
\* (requirement_allocation.py).
THEOREM PromisesCovered == Spec => []AvailableIsCovered
<1>1. IInv => AvailableIsCovered
  BY DEF IInv, Sound, Balanced, Total, AvailableIsCovered
<1> QED BY <1>1, Invariance, PTL

\* After stock has been distributed, no waiting requirement is left that the free stock could
\* serve (allocate_pooled_requirements with its two tiers).
THEOREM NothingLeftIdle == Spec => []NothingIdle
<1>1. IInv => NothingIdle
  BY DEF IInv, Served, Total, NothingIdle, Waiting
<1> QED BY <1>1, Invariance, PTL
=================================================================================
