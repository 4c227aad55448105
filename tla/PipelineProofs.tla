--------------------------- MODULE PipelineProofs ---------------------------
(***************************************************************************)
(* Proofs about Pipeline for all models: what a stage works on in a cycle  *)
(* belongs to one micro-batch, each stage works through all of them in     *)
(* order, and the anchors return them in order.                            *)
(***************************************************************************)
EXTENDS Pipeline, FiniteSetTheorems, WellFoundedInduction, TLAPS

(* Induction over the natural numbers, for sets. *)
LEMMA InductionOverSet ==
  ASSUME NEW S, 0 \in S, \A n \in Nat : n \in S => n + 1 \in S
  PROVE  Nat \subseteq S
<1> SUFFICES ASSUME Nat \ S # {} PROVE FALSE
  OBVIOUS
<1>1. IsWellFoundedOn(OpToRel(<, Nat), Nat)
  BY NatLessThanWellFounded
<1>2. PICK x \in Nat \ S :
        \A y \in Nat \ S : ~ (<< y, x >> \in OpToRel(<, Nat))
  BY <1>1, WFMin
<1>3. x \in Nat /\ x \notin S
  BY Zenon
<1>4. x # 0
  BY <1>3
<1>5. x - 1 \in Nat /\ x - 1 < x
  BY <1>3, <1>4
<1>6. x - 1 \in S
  BY <1>2, <1>3, <1>5 DEF OpToRel
<1>7. (x - 1) + 1 = x
  BY <1>3
<1> QED
  BY <1>3, <1>5, <1>6, <1>7

(***************************************************************************)
(* Stages.                                                                 *)
(***************************************************************************)
(* A numbering of the stages below n that may stay or go up by one.        *)
Numbering(w, n) ==
    /\ n \in Nat \ {0} /\ w \in [0 .. n - 1 -> Nat] /\ w[0] = 0
    /\ \A s \in 1 .. n - 1 : w[s] = w[s - 1] \/ w[s] = w[s - 1] + 1

LEMMA NumberingMonotone ==
  ASSUME NEW w, NEW n, Numbering(w, n), NEW a \in 0 .. n - 1, NEW b \in 0 .. n - 1, a <= b
  PROVE  w[a] \in Nat /\ w[b] \in Nat /\ w[a] <= w[b] /\ w[b] - w[a] <= b - a
<1> DEFINE S == {k \in Nat : a + k <= n - 1 => w[a] <= w[a + k] /\ w[a + k] - w[a] <= k}
<1>0. n \in Nat \ {0} /\ a \in Nat /\ b \in Nat /\ \A s \in 0 .. n - 1 : w[s] \in Nat
  BY DEF Numbering
<1>1. 0 \in S
  BY <1>0
<1>2. ASSUME NEW k \in Nat, k \in S PROVE k + 1 \in S
  <2> SUFFICES ASSUME a + (k + 1) <= n - 1
               PROVE  w[a] <= w[a + (k + 1)] /\ w[a + (k + 1)] - w[a] <= k + 1
    OBVIOUS
  <2>1. a + k <= n - 1 /\ a + k \in 0 .. n - 1 /\ a + (k + 1) \in 1 .. n - 1
        /\ (a + (k + 1)) - 1 = a + k
    BY <1>0
  <2>2. w[a + (k + 1)] = w[a + k] \/ w[a + (k + 1)] = w[a + k] + 1
    BY <2>1 DEF Numbering
  <2>3. w[a] <= w[a + k] /\ w[a + k] - w[a] <= k
    BY <1>2, <2>1
  <2>4. w[a] \in Nat /\ w[a + k] \in Nat
    BY <1>0, <2>1
  <2> HIDE DEF S
  <2> QED
    BY <2>2, <2>3, <2>4
<1>3. Nat \subseteq S
  <2> HIDE DEF S
  <2> QED
    BY <1>1, <1>2, InductionOverSet
<1>4. b - a \in Nat /\ a + (b - a) = b
  BY <1>0
<1>5. b - a \in S
  BY <1>3, <1>4
<1> QED
  BY <1>0, <1>4, <1>5

(* It leaves out no number.                                                *)
LEMMA NumberingOnto ==
  ASSUME NEW w, NEW n, Numbering(w, n), NEW a \in 0 .. n - 1, NEW b \in 0 .. n - 1, a <= b
  PROVE  {w[s] : s \in a .. b} = w[a] .. w[b]
<1> DEFINE S == {k \in Nat : a + k <= n - 1 => w[a] .. w[a + k] \subseteq {w[s] : s \in a .. a + k}}
<1>0. n \in Nat \ {0} /\ a \in Nat /\ b \in Nat /\ \A s \in 0 .. n - 1 : w[s] \in Nat
  BY DEF Numbering
<1>1. 0 \in S
  <2>1. w[a] .. w[a + 0] = {w[a]} /\ a \in a .. a + 0
    BY <1>0
  <2> QED
    BY <2>1
<1>2. ASSUME NEW k \in Nat, k \in S PROVE k + 1 \in S
  <2> SUFFICES ASSUME a + (k + 1) <= n - 1, NEW x \in w[a] .. w[a + (k + 1)]
               PROVE  \E s \in a .. a + (k + 1) : x = w[s]
    OBVIOUS
  <2>1. a + k <= n - 1 /\ a + k \in 0 .. n - 1 /\ a + (k + 1) \in 1 .. n - 1
        /\ (a + (k + 1)) - 1 = a + k /\ a + (k + 1) \in a .. a + (k + 1)
    BY <1>0
  <2>2. w[a + (k + 1)] = w[a + k] \/ w[a + (k + 1)] = w[a + k] + 1
    BY <2>1 DEF Numbering
  <2>3. w[a] \in Nat /\ w[a + k] \in Nat
    BY <1>0, <2>1
  <2>4. x \in w[a] .. w[a + k] \/ x = w[a + (k + 1)]
    BY <2>2, <2>3
  <2>5. CASE x \in w[a] .. w[a + k]
    <3>1. PICK s \in a .. a + k : x = w[s]
      BY <1>2, <2>1, <2>5
    <3>2. s \in a .. a + (k + 1)
      BY <1>0
    <3> QED
      BY <3>1, <3>2
  <2>6. CASE x = w[a + (k + 1)]
    BY <2>1, <2>6
  <2> QED
    BY <2>4, <2>5, <2>6
<1>3. Nat \subseteq S
  <2> HIDE DEF S
  <2> QED
    BY <1>1, <1>2, InductionOverSet
<1>4. b - a \in Nat /\ a + (b - a) = b
  BY <1>0
<1>5. b - a \in S
  BY <1>3, <1>4
<1>6. w[a] .. w[b] \subseteq {w[s] : s \in a .. b}
  BY <1>0, <1>4, <1>5
<1>7. ASSUME NEW s \in a .. b PROVE w[s] \in w[a] .. w[b]
  <2>1. s \in 0 .. n - 1 /\ a <= s /\ s <= b
    BY <1>0
  <2> QED
    BY <2>1, NumberingMonotone
<1> QED
  BY <1>6, <1>7

LEMMA IndependentStages ==
  ASSUME NEW q, Numbering(q.with, q.stages),
         NEW a \in 0 .. q.stages - 1, NEW b \in 0 .. q.stages - 1, a <= b
  PROVE  numIndependentStages(q, a, b + 1) = q.with[b] - q.with[a] + 1
<1>1. q.with[a] \in Nat /\ q.with[b] \in Nat /\ q.with[a] <= q.with[b]
  BY NumberingMonotone
<1>2. (b + 1) - 1 = b
  <2>1. b \in Int
    OBVIOUS
  <2> QED
    BY <2>1
<1>3. {q.with[s] : s \in a .. (b + 1) - 1} = q.with[a] .. q.with[b]
  BY <1>2, NumberingOnto
<1>4. Cardinality(q.with[a] .. q.with[b]) = q.with[b] - q.with[a] + 1
  <2>1. \A x, y \in Nat : x <= y => Cardinality(x .. y) = y - x + 1
    <3> TAKE x, y \in Nat
    <3>1. Cardinality(x .. y) = IF x > y THEN 0 ELSE y - x + 1
      BY FS_Interval
    <3> QED
      BY <3>1
  <2> QED
    BY <1>1, <2>1
<1> QED
  BY <1>3, <1>4 DEF numIndependentStages

(* Numbers below a bound have a greatest.                                  *)
LEMMA HasGreatest ==
  ASSUME NEW n \in Nat, NEW T \in SUBSET (0 .. n), T # {}
  PROVE  \E m \in T : \A x \in T : x <= m
<1> DEFINE S == {k \in Nat : \A U \in SUBSET (0 .. k) :
                                U # {} => \E m \in U : \A x \in U : x <= m}
<1>1. 0 \in S
  <2>1. ASSUME NEW U \in SUBSET (0 .. 0), U # {} PROVE \E m \in U : \A x \in U : x <= m
    <3>1. \A x \in U : x = 0
      OBVIOUS
    <3>2. \A x, y \in U : x <= y
      BY <3>1
    <3>3. PICK m \in U : TRUE
      BY <2>1
    <3> QED
      BY <3>2, <3>3
  <2> QED
    BY <2>1
<1>2. ASSUME NEW k \in Nat, k \in S PROVE k + 1 \in S
  <2> SUFFICES ASSUME NEW U \in SUBSET (0 .. k + 1), U # {}
               PROVE  \E m \in U : \A x \in U : x <= m
    OBVIOUS
  <2>1. CASE k + 1 \in U
    <3>1. \A x \in U : x <= k + 1
      OBVIOUS
    <3> QED
      BY <2>1, <3>1
  <2>2. CASE k + 1 \notin U
    <3>1. \A x \in U : x \in 0 .. k
      BY <2>2
    <3>2. U \in SUBSET (0 .. k)
      BY <3>1
    <3> QED
      BY <1>2, <3>2
  <2> QED
    BY <2>1, <2>2
<1>3. Nat \subseteq S
  <2> HIDE DEF S
  <2> QED
    BY <1>1, <1>2, InductionOverSet
<1> QED
  BY <1>3

(***************************************************************************)
(* What Pipeline::apply establishes: q is a pipeline made of the model p.  *)
(***************************************************************************)
Good(p, q) ==
    /\ Numbering(q.with, q.stages)
    /\ q.restores \subseteq Stages(q) \X Stages(q)
    /\ \A r \in q.restores : r[1] < r[2]
    /\ p.fwdOnly => q.stages % 2 = 0

LEMMA TransformedIsGood ==
  ASSUME NEW p \in Pipelines, NEW w \in [Stages(p) -> Stages(p)], IsWithStages(p, w)
  PROVE  Good(p, Transformed(p, w))
<1>1. p.stages \in Nat \ {0} /\ p.reads \subseteq Stages(p) \X Stages(p)
      /\ (\A r \in p.reads : r[1] < r[2]) /\ p.fwdOnly \in BOOLEAN
      /\ (p.fwdOnly => p.stages % 2 = 0)
  BY PipelinesAssumption
<1>2. Numbering(w, p.stages)
  <2>1. w[0] = 0 /\ \A s \in 1 .. p.stages - 1 : w[s] = w[s - 1] \/ w[s] = w[s - 1] + 1
    BY <1>1 DEF IsWithStages, Stages
  <2>2. w \in [0 .. p.stages - 1 -> Nat]
    BY <1>1 DEF Stages
  <2> QED
    BY <1>1, <2>1, <2>2 DEF Numbering
<1>3. CASE p.fwdOnly
  <2>1. \A r \in p.reads : r \in Stages(p) \X Stages(p) /\ r[1] < r[2]
    BY <1>1
  <2>2. Transformed(p, w) = Unmerged(p, w)
    BY <1>3 DEF Transformed
  <2>3. Unmerged(p, w).stages = p.stages /\ Unmerged(p, w).with = w
        /\ Unmerged(p, w).restores \subseteq p.reads
    BY DEF Unmerged
  <2> QED
    BY <1>1, <1>2, <2>1, <2>2, <2>3 DEF Good, Stages
<1>4. CASE ~p.fwdOnly
  <2> DEFINE q == Merged(p, w)
  <2>1. q.stages = w[p.stages - 1] + 1 /\ q.with = [s \in 0 .. w[p.stages - 1] |-> s]
        /\ q.restores = {r \in {<<w[x[1]], w[x[2]]>> : x \in p.reads} : r[1] # r[2]}
    BY DEF Merged
  <2>2. p.stages - 1 \in 0 .. p.stages - 1 /\ w[p.stages - 1] \in Nat
    BY <1>1, <1>2 DEF Numbering
  <2>3. Numbering(q.with, q.stages)
    <3>1. q.stages \in Nat \ {0} /\ q.stages - 1 = w[p.stages - 1]
      BY <2>1, <2>2
    <3>2. q.with \in [0 .. q.stages - 1 -> Nat] /\ q.with[0] = 0
      BY <2>1, <2>2, <3>1
    <3>3. \A s \in 1 .. q.stages - 1 : q.with[s] = q.with[s - 1] + 1
      BY <2>1, <2>2, <3>1
    <3> HIDE DEF q
    <3> QED
      BY <3>1, <3>2, <3>3 DEF Numbering
  <2>4. ASSUME NEW r \in q.restores
        PROVE  r \in Stages(q) \X Stages(q) /\ r[1] < r[2]
    <3>1. PICK x \in p.reads : r = <<w[x[1]], w[x[2]]>> /\ r[1] # r[2]
      BY <2>1
    <3>2. x[1] \in 0 .. p.stages - 1 /\ x[2] \in 0 .. p.stages - 1 /\ x[1] < x[2]
      BY <1>1 DEF Stages
    <3>3. w[x[1]] \in Nat /\ w[x[2]] \in Nat /\ w[x[1]] <= w[x[2]]
      BY <1>1, <1>2, <3>2, NumberingMonotone
    <3>4. w[x[2]] <= w[p.stages - 1]
      <4>1. x[2] <= p.stages - 1
        BY <1>1, <3>2
      <4> QED
        BY <1>2, <2>2, <3>2, <4>1, NumberingMonotone
    <3>5. r[1] < r[2] /\ r[1] \in Stages(q) /\ r[2] \in Stages(q)
      BY <2>1, <2>2, <3>1, <3>3, <3>4 DEF Stages
    <3> QED
      BY <3>1, <3>5
  <2>5. Transformed(p, w) = q
    BY <1>4 DEF Transformed
  <2> HIDE DEF q
  <2> QED
    BY <1>4, <2>3, <2>4, <2>5 DEF Good
<1> QED
  BY <1>1, <1>3, <1>4

LEMMA MicroBatchesType ==
  ASSUME NEW p \in Pipelines
  PROVE  MicroBatches(p) \in Nat \ {0} /\ OuterLoops(p) \in Nat \ {0}
BY PipelinesAssumption DEF MicroBatches, OuterLoops

(* The number of cycles that fill a pipeline of n stages.                  *)
LEMMA FillCycles ==
  ASSUME NEW q, Numbering(q.with, q.stages), NEW n \in 1 .. q.stages
  PROVE  /\ fillFlushPhaseCycles(q, n) = q.with[n - 1]
         /\ q.with[n - 1] \in Nat /\ q.with[n - 1] <= n - 1
<1>1. q.stages \in Nat \ {0} /\ q.with[0] = 0
  BY DEF Numbering
<1>2. 0 \in 0 .. q.stages - 1 /\ n - 1 \in 0 .. q.stages - 1 /\ 0 <= n - 1
  BY <1>1
<1>3. numIndependentStages(q, 0, (n - 1) + 1) = q.with[n - 1] - q.with[0] + 1
  BY <1>2, IndependentStages
<1>4. (n - 1) + 1 = n
  BY <1>1
<1>5. q.with[n - 1] \in Nat /\ q.with[n - 1] - q.with[0] <= (n - 1) - 0
  BY <1>2, NumberingMonotone
<1>6. numIndependentStages(q, 0, n) = q.with[n - 1] + 1
  BY <1>1, <1>3, <1>4, <1>5
<1> QED
  BY <1>1, <1>5, <1>6 DEF fillFlushPhaseCycles

(* A stash has room for every stage that restores from it.                 *)
LEMMA StashSizes ==
  ASSUME NEW p, NEW q, Good(p, q), NEW r \in q.restores
  PROVE  /\ r[1] \in Stages(q) /\ r[2] \in Stages(q) /\ r[1] < r[2]
         /\ r[1] \in Stashed(q)
         /\ q.with[r[1]] \in Nat /\ q.with[r[2]] \in Nat /\ q.with[r[1]] <= q.with[r[2]]
         /\ getStashSize(q, r[1]) \in Nat \ {0}
         /\ q.with[r[2]] - q.with[r[1]] + 1 <= getStashSize(q, r[1])
<1> DEFINE T == RestoreStages(q, r[1])
           b == MaxRestoreStage(q, r[1])
<1>1. /\ r[1] \in Stages(q) /\ r[2] \in Stages(q) /\ r[1] < r[2]
      /\ q.stages \in Nat \ {0} /\ Numbering(q.with, q.stages)
  BY DEF Good, Numbering
<1>2. T \in SUBSET (0 .. q.stages - 1) /\ r[2] \in T
  BY DEF RestoreStages, Good, Stages
<1>3. q.stages - 1 \in Nat /\ T # {}
  BY <1>1, <1>2
<1>4. \E m \in T : \A x \in T : x <= m
  <2> HIDE DEF T
  <2> QED
    BY <1>2, <1>3, HasGreatest
<1>5. b \in T /\ \A x \in T : x <= b
  <2>1. b = CHOOSE m \in T : \A x \in T : x <= m
    BY DEF MaxRestoreStage
  <2> HIDE DEF b, T
  <2> QED
    BY <1>4, <2>1
<1>6. b \in 0 .. q.stages - 1 /\ r[2] <= b
  <2> HIDE DEF b, T
  <2> QED
    BY <1>2, <1>5
<1>7. r[1] \in 0 .. q.stages - 1 /\ r[2] \in 0 .. q.stages - 1
      /\ r[1] <= b /\ r[1] <= r[2]
  <2> HIDE DEF b, T
  <2> QED
    BY <1>1, <1>6 DEF Stages
<1> HIDE DEF b, T
<1>8. getStashSize(q, r[1]) = q.with[b] - q.with[r[1]] + 1
  BY <1>1, <1>6, <1>7, IndependentStages DEF getStashSize, b
<1>9. /\ q.with[r[1]] \in Nat /\ q.with[r[2]] \in Nat /\ q.with[r[1]] <= q.with[r[2]]
      /\ q.with[b] \in Nat /\ q.with[r[2]] <= q.with[b]
  BY <1>1, <1>6, <1>7, NumberingMonotone
<1>10. r[1] \in Stashed(q)
  BY DEF Stashed
<1> QED
  BY <1>1, <1>8, <1>9, <1>10

(* What a program of the pipeline q can rely on.                           *)
Shape(p, q, prog) ==
    /\ q.stages \in Nat \ {0} /\ MicroBatches(p) \in Nat \ {0}
    /\ NumStages(q, prog) \in 1 .. q.stages
    /\ LET f == fillFlushPhaseCycles(q, NumStages(q, prog))
       IN  /\ f \in Nat /\ f < MicroBatches(p)
           /\ \A s \in 0 .. NumStages(q, prog) - 1 : q.with[s] <= f
    /\ \A s \in Stages(q) : q.with[s] \in Nat
    /\ q.with[0] = 0
    /\ \A s \in 1 .. q.stages - 1 : q.with[s] = q.with[s - 1] \/ q.with[s] = q.with[s - 1] + 1
    /\ \A r \in q.restores :
          /\ r[1] \in Stages(q) /\ r[2] \in Stages(q) /\ r[1] < r[2]
          /\ r[1] \in Stashed(q) /\ r = <<r[1], r[2]>>
          /\ q.with[r[1]] <= q.with[r[2]]
          /\ q.with[r[2]] - q.with[r[1]] + 1 <= getStashSize(q, r[1])
    /\ \A a \in Stashed(q) : a \in Stages(q) /\ getStashSize(q, a) \in Nat \ {0}

LEMMA ShapeOfPrograms ==
  ASSUME NEW p \in Pipelines, NEW q, NEW prog, Good(p, q), MicroBatches(p) >= q.stages,
         prog = "fwd" => p.fwdOnly
  PROVE  Shape(p, q, prog)
<1>1. q.stages \in Nat \ {0} /\ MicroBatches(p) \in Nat \ {0} /\ Numbering(q.with, q.stages)
  BY MicroBatchesType DEF Good, Numbering
<1>2. NumStages(q, prog) \in 1 .. q.stages
  <2>1. CASE prog = "fwd"
    <3>1. q.stages % 2 = 0
      BY <2>1 DEF Good
    <3>2. q.stages \div 2 \in 1 .. q.stages
      BY <1>1, <3>1
    <3> QED
      BY <2>1, <3>2 DEF NumStages
  <2>2. CASE prog # "fwd"
    BY <1>1, <2>2 DEF NumStages
  <2> QED
    BY <2>1, <2>2
<1> DEFINE n == NumStages(q, prog)
<1>3. /\ fillFlushPhaseCycles(q, n) = q.with[n - 1]
      /\ q.with[n - 1] \in Nat /\ q.with[n - 1] <= n - 1
  BY <1>1, <1>2, FillCycles
<1>4. q.with[n - 1] < MicroBatches(p)
  <2> HIDE DEF n
  <2>1. n \in 1 .. q.stages
    BY <1>2 DEF n
  <2> QED
    BY <1>1, <2>1, <1>3
<1>5. \A s \in 0 .. n - 1 : q.with[s] <= q.with[n - 1]
  <2> SUFFICES ASSUME NEW s \in 0 .. n - 1 PROVE q.with[s] <= q.with[n - 1]
    OBVIOUS
  <2> HIDE DEF n
  <2>1. n \in 1 .. q.stages
    BY <1>2 DEF n
  <2>2. s \in 0 .. q.stages - 1 /\ n - 1 \in 0 .. q.stages - 1 /\ s <= n - 1
    BY <1>1, <2>1
  <2> QED
    BY <1>1, <2>2, NumberingMonotone
<1>6. /\ \A s \in Stages(q) : q.with[s] \in Nat
      /\ q.with[0] = 0
      /\ \A s \in 1 .. q.stages - 1 : q.with[s] = q.with[s - 1] \/ q.with[s] = q.with[s - 1] + 1
  BY <1>1 DEF Numbering, Stages
<1>7. ASSUME NEW r \in q.restores
      PROVE  /\ r[1] \in Stages(q) /\ r[2] \in Stages(q) /\ r[1] < r[2]
             /\ r[1] \in Stashed(q) /\ r = <<r[1], r[2]>>
             /\ q.with[r[1]] <= q.with[r[2]]
             /\ q.with[r[2]] - q.with[r[1]] + 1 <= getStashSize(q, r[1])
  <2>1. r \in Stages(q) \X Stages(q)
    BY DEF Good
  <2>2. r = <<r[1], r[2]>>
    BY <2>1
  <2> QED
    BY <2>2, StashSizes
<1>8. ASSUME NEW a \in Stashed(q)
      PROVE  a \in Stages(q) /\ getStashSize(q, a) \in Nat \ {0}
  <2>1. PICK r \in q.restores : a = r[1]
    BY DEF Stashed
  <2> QED
    BY <2>1, StashSizes
<1> QED
  BY <1>1, <1>2, <1>3, <1>4, <1>5, <1>6, <1>7, <1>8 DEF Shape

(***************************************************************************)
(* The indices of a stash.                                                 *)
(***************************************************************************)
(* d places before place i of a stash.                                     *)
Back(size, i, d) == IF i - d >= 0 THEN i - d ELSE i - d + size

LEMMA NextIndexWraps ==
  ASSUME NEW size \in Nat \ {0}, NEW i \in 0 .. size - 1
  PROVE  NextIndex(size, i) = IF i + 1 = size THEN 0 ELSE i + 1
<1>1. CASE i + 1 = size
  <2>1. size % size = 0
    OBVIOUS
  <2> QED
    BY <1>1, <2>1 DEF NextIndex
<1>2. CASE i + 1 < size
  <2>1. \A j \in Nat : j < size => j % size = j
    OBVIOUS
  <2> QED
    BY <1>2, <2>1 DEF NextIndex
<1> QED
  BY <1>1, <1>2

LEMMA BackMoves ==
  ASSUME NEW size \in Nat \ {0}, NEW i \in 0 .. size - 1, NEW d \in 0 .. size
  PROVE  /\ NextIndex(size, i) \in 0 .. size - 1
         /\ Back(size, i, d) \in 0 .. size - 1
         /\ Back(size, i, 0) = i
         /\ Back(size, NextIndex(size, i), 1) = i
         /\ d < size => Back(size, NextIndex(size, i), d + 1) = Back(size, i, d)
         /\ 0 < d => NextIndex(size, Back(size, i, d)) = Back(size, i, d - 1)
         /\ 0 < d /\ d < size => Back(size, i, d) # i
<1>1. NextIndex(size, i) = IF i + 1 = size THEN 0 ELSE i + 1
  BY NextIndexWraps
<1>2. Back(size, i, d) \in 0 .. size - 1
  BY DEF Back
<1>3. NextIndex(size, Back(size, i, d))
         = IF Back(size, i, d) + 1 = size THEN 0 ELSE Back(size, i, d) + 1
  BY <1>2, NextIndexWraps
<1> QED
  BY <1>1, <1>2, <1>3 DEF Back

(***************************************************************************)
(* The models and their stages do not change after the transform.          *)
(***************************************************************************)
Static ==
    /\ user \in Pipelines
    /\ status \in {"built", "refused", "idle", "running"}
    /\ program \in {"train", "fwd"} /\ (program = "fwd" => user.fwdOnly)
    /\ status = "built" => stage = 0
    /\ status # "built" => Good(user, pl)
    /\ status \in {"idle", "running"} => MicroBatches(user) >= pl.stages

LEMMA InitStatic == Init => Static
BY DEF Init, Static

LEMMA StaticStep == Static /\ [Next]_vars => Static'
<1> SUFFICES ASSUME Static, [Next]_vars PROVE Static'
  OBVIOUS
<1>1. CASE Transform
  <2>1. PICK w \in [Stages(user) -> Stages(user)] :
           LET q == Transformed(user, w)
           IN  /\ IsWithStages(user, w)
               /\ pl' = q
               /\ status' = IF ~DeepEnough(user, q) \/ RecomputeRefused(user, q)
                            THEN "refused"
                            ELSE IF mainCyclesTooFew(user, q) THEN "broken" ELSE "idle"
    BY <1>1 DEF Transform
  <2>2. Good(user, pl') /\ user' = user /\ program' = program /\ user \in Pipelines
    BY <1>1, <2>1, TransformedIsGood DEF Transform, Static
  <2>3. MicroBatches(user) \in Nat /\ Numbering(pl'.with, pl'.stages)
    BY <2>2, MicroBatchesType DEF Good
  <2>4. pl'.stages \in Nat \ {0}
    BY <2>3 DEF Numbering
  <2>5. ASSUME MicroBatches(user) >= pl'.stages PROVE ~mainCyclesTooFew(user, pl')
    <3>1. pl'.stages \in 1 .. pl'.stages
      BY <2>4
    <3>2. /\ fillFlushPhaseCycles(pl', pl'.stages) \in Nat
          /\ fillFlushPhaseCycles(pl', pl'.stages) <= pl'.stages - 1
      BY <2>3, <3>1, FillCycles
    <3> QED
      BY <2>3, <2>4, <2>5, <3>2 DEF mainCyclesTooFew
  <2>6. status' \in {"refused", "idle"} /\ (status' = "idle" => MicroBatches(user) >= pl'.stages)
    BY <2>1, <2>5 DEF DeepEnough
  <2> QED
    BY <2>2, <2>6 DEF Static
<1>2. CASE UNCHANGED <<user, pl>> /\ status # "built"
           /\ status' \in {"idle", "running"} /\ status \in {"idle", "running"}
           /\ program' \in {"train", "fwd"} /\ (program' = "fwd" => user.fwdOnly)
  BY <1>2 DEF Static
<1>3. CASE \E prog \in {"train", "fwd"} : StartRun(prog)
  BY <1>2, <1>3 DEF StartRun
<1>4. CASE ToDevice
  BY <1>2, <1>4 DEF ToDevice, Static
<1>5. CASE Main
  BY <1>2, <1>5 DEF Main, Static
<1>6. CASE SkipMain
  BY <1>2, <1>6 DEF SkipMain, Static
<1>7. CASE ToHost
  BY <1>2, <1>7 DEF ToHost, Static
<1>8. CASE EndCycle
  <2>1. UNCHANGED <<user, pl, program>> /\ status = "running"
    BY <1>8 DEF EndCycle, Copies
  <2>2. status' \in {"idle", "running"}
    BY <1>8, <2>1 DEF EndCycle, NextCycle, NextLoop, Return
  <2> QED
    BY <1>2, <2>1, <2>2 DEF Static
<1>9. CASE UNCHANGED vars
  BY <1>9 DEF vars, place, Static
<1> QED
  BY <1>1, <1>3, <1>4, <1>5, <1>6, <1>7, <1>8, <1>9 DEF Next

(* A model that passes the check of Pipeline::apply is deep enough for     *)
(* PipelineInfo, however its stages share virtual graphs.                  *)
THEOREM DepthCheck == Spec => []DepthCheckSuffices
<1>1. Static => DepthCheckSuffices
  BY DEF Static, DepthCheckSuffices
<1> QED
  BY <1>1, InitStatic, StaticStep, PTL DEF Spec

(***************************************************************************)
(* Where each stage is in the inner loop: the turns that it had, and the   *)
(* micro-batch that it works on in this cycle.                             *)
(***************************************************************************)
Within(t) == IF t < 0 THEN 0 ELSE IF t > N THEN N ELSE t
Turns(s) == IF s < NS THEN Within(cycle + (IF s < stage THEN 1 ELSE 0) - pl.with[s]) ELSE 0
Returns(s) == IF s < NS /\ s \in pl.anchored
              THEN Within(cycle + (IF phase = "copies" THEN 1 ELSE 0) - pl.with[s]) ELSE 0
Works(s) == s < NS /\ pl.with[s] <= cycle /\ cycle < pl.with[s] + N
Present(s) == first + cycle - pl.with[s] + 1

(* Before its turn a stage has its activation once it was streamed, copied *)
(* or left by the stage before, after its turn until it is overwritten.    *)
Received(s) == IF s = 0 THEN phase # "toDevice"
               ELSE pl.with[s] # pl.with[s - 1] \/ s <= stage
HasActivation(s) == IF stage <= s THEN Received(s) ELSE ~isInplace(user, pl, s)

PlaceInv ==
    /\ cycle \in 0 .. LastCycle /\ phase \in {"toDevice", "main", "copies"}
    /\ phase = "toDevice" => stage = 0
    /\ phase = "copies" => stage = pl.stages
DoneInv == \A s \in Stages(pl) : Len(done[s]) = Turns(s) /\ InOrder(done[s])
ReturnedInv == \A s \in Stages(pl) : Len(returned[s]) = Returns(s) /\ InOrder(returned[s])
TensorsInv ==
    \A s \in Stages(pl) : Works(s) =>
       /\ HasActivation(s) => act[s] = Present(s)
       /\ s < stage => out[s] = Present(s)
       /\ phase # "toDevice" /\ s \in pl.streamed => label[s] = Present(s)
Size(a) == getStashSize(pl, a)
StashInv ==
    \A a \in Stashed(pl) : \A d \in 1 .. Size(a) :
       d <= Len(done[a]) =>
         stash[a][Back(Size(a), stashIndex[a], d)] = first + Len(done[a]) - d + 1
RestoreInv ==
    \A r \in pl.restores : r[2] < NS =>
       restoreIndex[r] = Back(Size(r[1]), stashIndex[r[1]], Len(done[r[1]]) - Len(done[r[2]]))
InputsInv == \A x, y \in inputs : x = y
IdleInv == ~user.fwdOnly => \A r \in pl.restores : restoreIndex[r] = stashIndex[r[1]]

RunInv == PlaceInv /\ DoneInv /\ ReturnedInv /\ TensorsInv /\ StashInv /\ RestoreInv

IInv == /\ TypeOK /\ Static /\ InputsInv
        /\ status = "idle" => IdleInv
        /\ status = "running" => RunInv

LEMMA ShapeNow ==
  ASSUME Static, status \in {"idle", "running"}
  PROVE  Shape(user, pl, program)
BY ShapeOfPrograms DEF Static

(* The program of the repeated cycle is that of every cycle it stands for. *)
LEMMA DoesIffWorks ==
  ASSUME Static, status = "running", PlaceInv, NEW s \in Stages(pl)
  PROVE  Does(s) <=> Works(s)
<1>1. Shape(user, pl, program)
  BY ShapeNow
<1>2. /\ N \in Nat \ {0} /\ NS \in 1 .. pl.stages /\ Fill \in Nat /\ Fill < N
      /\ pl.with[s] \in Nat /\ (s < NS => pl.with[s] <= Fill) /\ s \in Nat
  BY <1>1 DEF Shape, N, NS, Fill, Stages
<1>3. cycle \in Nat
  BY <1>2 DEF PlaceInv, LastCycle
<1>4. ProgramCycle(cycle) = IF Fill <= cycle /\ cycle < N THEN Fill ELSE cycle
  BY <1>2, <1>3 DEF ProgramCycle
<1> QED
  BY <1>2, <1>3, <1>4 DEF Does, doStage, Works

LEMMA TurnsMove ==
  ASSUME Static, status = "running", PlaceInv, NEW s \in Stages(pl)
  PROVE  /\ Turns(s) \in 0 .. N
         /\ Works(s) => Turns(s) = cycle - pl.with[s] + (IF s < stage THEN 1 ELSE 0)
         /\ ~Works(s) /\ s < NS =>
              \A t \in {0, 1} : Within(cycle + t - pl.with[s]) = Turns(s)
<1>1. Shape(user, pl, program)
  BY ShapeNow
<1>2. /\ N \in Nat \ {0} /\ NS \in 1 .. pl.stages /\ pl.with[s] \in Nat /\ s \in Nat
      /\ Fill \in Nat
  BY <1>1 DEF Shape, N, NS, Fill, Stages
<1>3. cycle \in Nat
  BY <1>2 DEF PlaceInv, LastCycle
<1>4. Works(s) \in BOOLEAN
  BY DEF Works
<1> QED
  BY <1>2, <1>3, <1>4 DEF Turns, Within, Works

(* How far the stage that restores is behind the one that stashes.         *)
LEMMA RestoreDistance ==
  ASSUME Static, status = "running", PlaceInv, stage \in Nat,
         NEW r \in pl.restores, r[2] < NS
  PROVE  /\ Turns(r[1]) - Turns(r[2]) \in 0 .. Size(r[1])
         /\ stage = r[1] /\ Works(r[1]) => Turns(r[1]) - Turns(r[2]) < Size(r[1])
         /\ stage = r[2] /\ Works(r[2]) => 0 < Turns(r[1]) - Turns(r[2])
<1>1. Shape(user, pl, program)
  BY ShapeNow
<1>2. /\ N \in Nat \ {0} /\ NS \in 1 .. pl.stages /\ Fill \in Nat
      /\ r[1] \in Nat /\ r[2] \in Nat /\ r[1] < r[2]
      /\ pl.with[r[1]] \in Nat /\ pl.with[r[2]] \in Nat
      /\ pl.with[r[1]] <= pl.with[r[2]] /\ Size(r[1]) \in Nat \ {0}
      /\ pl.with[r[2]] - pl.with[r[1]] + 1 <= Size(r[1])
  BY <1>1 DEF Shape, N, NS, Fill, Stages, Size
<1>3. cycle \in Nat
  BY <1>2 DEF PlaceInv, LastCycle
<1> DEFINE x == pl.with[r[1]]
           y == pl.with[r[2]]
<1>4. /\ Turns(r[1]) = Within(cycle + (IF r[1] < stage THEN 1 ELSE 0) - x)
      /\ Turns(r[2]) = Within(cycle + (IF r[2] < stage THEN 1 ELSE 0) - y)
  BY <1>2 DEF Turns
<1>5. x \in Nat /\ y \in Nat /\ x <= y /\ y - x + 1 <= Size(r[1])
  BY <1>2
<1> HIDE DEF x, y
<1>6. CASE r[2] < stage
  BY <1>2, <1>3, <1>4, <1>5, <1>6 DEF Within
<1>7. CASE stage = r[2]
  <2>1. Works(r[2]) => y <= cycle /\ cycle < y + N
    BY DEF Works, x, y
  <2> QED
    BY <1>2, <1>3, <1>4, <1>5, <1>7, <2>1 DEF Within
<1>8. CASE r[1] < stage /\ stage < r[2]
  BY <1>2, <1>3, <1>4, <1>5, <1>8 DEF Within
<1>9. CASE stage <= r[1]
  <2>1. Works(r[1]) => x <= cycle /\ cycle < x + N
    BY DEF Works, x, y
  <2> QED
    BY <1>2, <1>3, <1>4, <1>5, <1>9, <2>1 DEF Within
<1> QED
  BY <1>2, <1>6, <1>7, <1>8, <1>9

(***************************************************************************)
(* The ops of a stage.                                                     *)
(***************************************************************************)
LEMMA RunningTypes ==
  ASSUME IInv, status = "running"
  PROVE  /\ RunInv /\ Shape(user, pl, program) /\ Static
         /\ stage \in 0 .. pl.stages /\ stage \in Nat /\ cycle \in Nat /\ first \in Nat
         /\ act \in [Stages(pl) -> Nat] /\ out \in [Stages(pl) -> Nat]
         /\ label \in [Stages(pl) -> Nat]
         /\ stashIndex \in [Stashed(pl) -> Nat] /\ restoreIndex \in [pl.restores -> Nat]
         /\ DOMAIN stash = Stashed(pl)
         /\ \A a \in Stashed(pl) : /\ Size(a) \in Nat \ {0}
                                   /\ stash[a] \in [0 .. Size(a) - 1 -> Nat]
                                   /\ stashIndex[a] \in 0 .. Size(a) - 1
         /\ \A r \in pl.restores : restoreIndex[r] \in 0 .. Size(r[1]) - 1
         /\ done \in [Stages(pl) -> Seq(Nat)] /\ returned \in [Stages(pl) -> Seq(Nat)]
         /\ \A s \in Stages(pl) : Len(done[s]) \in Nat /\ Len(returned[s]) \in Nat
<1>1. RunInv /\ Shape(user, pl, program) /\ Static /\ TypeOK /\ pl.stages \in Nat
  BY ShapeNow DEF IInv, Shape
<1>2. \A a \in Stashed(pl) : /\ Size(a) \in Nat \ {0}
                             /\ stash[a] \in [0 .. Size(a) - 1 -> Nat]
                             /\ stashIndex[a] \in 0 .. Size(a) - 1
  BY <1>1 DEF TypeOK, Shape, Size
<1>3. \A r \in pl.restores : restoreIndex[r] \in 0 .. Size(r[1]) - 1
  BY <1>1, <1>2 DEF TypeOK, Shape
<1>4. \A s \in Stages(pl) : Len(done[s]) \in Nat /\ Len(returned[s]) \in Nat
  <2> SUFFICES ASSUME NEW s \in Stages(pl)
               PROVE  Len(done[s]) \in Nat /\ Len(returned[s]) \in Nat
    OBVIOUS
  <2>1. done[s] \in Seq(Nat) /\ returned[s] \in Seq(Nat)
    BY <1>1 DEF TypeOK
  <2> QED
    BY <2>1
<1> QED
  BY <1>1, <1>2, <1>3, <1>4 DEF TypeOK

LEMMA MainStep == ASSUME IInv, Main PROVE IInv'
<1>1. /\ status = "running" /\ phase = "main" /\ stage < pl.stages /\ Does(stage)
      /\ UNCHANGED <<user, pl, status, program, steps, loop, cycle, phase, first, label, returned>>
      /\ stage' = stage + 1
  BY DEF Main
<1>2. /\ RunInv /\ Shape(user, pl, program) /\ Static
      /\ stage \in 0 .. pl.stages /\ stage \in Nat /\ cycle \in Nat /\ first \in Nat
      /\ act \in [Stages(pl) -> Nat] /\ out \in [Stages(pl) -> Nat]
      /\ label \in [Stages(pl) -> Nat]
      /\ stashIndex \in [Stashed(pl) -> Nat] /\ restoreIndex \in [pl.restores -> Nat]
      /\ DOMAIN stash = Stashed(pl)
      /\ \A a \in Stashed(pl) : /\ Size(a) \in Nat \ {0}
                                /\ stash[a] \in [0 .. Size(a) - 1 -> Nat]
                                /\ stashIndex[a] \in 0 .. Size(a) - 1
      /\ \A r \in pl.restores : restoreIndex[r] \in 0 .. Size(r[1]) - 1
      /\ done \in [Stages(pl) -> Seq(Nat)] /\ returned \in [Stages(pl) -> Seq(Nat)]
      /\ \A s \in Stages(pl) : Len(done[s]) \in Nat /\ Len(returned[s]) \in Nat
  BY <1>1, RunningTypes
<1>3. /\ stage \in Stages(pl) /\ Works(stage) /\ stage < NS
      /\ PlaceInv /\ DoneInv /\ ReturnedInv /\ TensorsInv /\ StashInv /\ RestoreInv
  <2>1. stage \in Stages(pl) /\ PlaceInv
    BY <1>1, <1>2 DEF Stages, Shape, RunInv
  <2>2. Works(stage)
    BY <1>1, <1>2, <2>1, DoesIffWorks
  <2> QED
    BY <1>2, <2>1, <2>2 DEF RunInv, Works
<1>4. NS' = NS /\ N' = N /\ Fill' = Fill /\ LastCycle' = LastCycle
      /\ \A a \in Stashed(pl) : Size(a)' = Size(a)
  BY <1>1 DEF NS, N, Fill, LastCycle, Size
<1>5. /\ N \in Nat \ {0} /\ NS \in 1 .. pl.stages
      /\ \A s \in Stages(pl) : s \in Nat /\ pl.with[s] \in Nat
      /\ \A r \in pl.restores : /\ r[1] \in Stages(pl) /\ r[2] \in Stages(pl) /\ r[1] < r[2]
                                /\ r[1] \in Stashed(pl) /\ r = <<r[1], r[2]>> /\ r[1] # r[2]
      /\ Stashed(pl) \subseteq Stages(pl)
  <2>1. \A x, y \in Nat : x < y => x # y
    OBVIOUS
  <2>2. \A s \in Stages(pl) : s \in Nat
    BY DEF Stages
  <2> QED
    BY <1>2, <2>1, <2>2 DEF Shape, N, NS, Stages
<1>6. act[stage] = Present(stage) /\ Present(stage) \in Nat
  <2>1. stage # 0 => pl.with[stage] # pl.with[stage - 1] \/ stage <= stage
    BY <1>2
  <2>2. HasActivation(stage)
    BY <1>1, <1>2, <2>1 DEF HasActivation, Received
  <2> QED
    BY <1>2, <1>3, <2>2 DEF TensorsInv
<1>7. /\ Len(done[stage]) = cycle - pl.with[stage]
      /\ Present(stage) = first + Len(done[stage]) + 1
  <2>1. Turns(stage) = cycle - pl.with[stage] + (IF stage < stage THEN 1 ELSE 0)
    BY <1>1, <1>2, <1>3, TurnsMove
  <2>2. pl.with[stage] \in Nat /\ Len(done[stage]) = Turns(stage)
    BY <1>3, <1>5 DEF DoneInv
  <2>3. cycle \in Nat /\ first \in Nat /\ stage \in Nat
    BY <1>2
  <2>4. Turns(stage) = cycle - pl.with[stage]
    BY <2>1, <2>2, <2>3
  <2>5. \A f, c, w \in Nat : f + c - w + 1 = f + (c - w) + 1
    OBVIOUS
  <2>6. Present(stage) = first + (cycle - pl.with[stage]) + 1
    BY <2>2, <2>3, <2>5 DEF Present
  <2> QED
    BY <2>2, <2>4, <2>6
<1>8. \A s \in Stages(pl) : Turns(s)' = IF s = stage THEN Turns(s) + 1 ELSE Turns(s)
  <2> SUFFICES ASSUME NEW s \in Stages(pl)
               PROVE  Turns(s)' = IF s = stage THEN Turns(s) + 1 ELSE Turns(s)
    OBVIOUS
  <2>1. Turns(s)' = IF s < NS THEN Within(cycle + (IF s < stage + 1 THEN 1 ELSE 0) - pl.with[s]) ELSE 0
    BY <1>1, <1>4 DEF Turns, Within
  <2>2. Turns(s) = IF s < NS THEN Within(cycle + (IF s < stage THEN 1 ELSE 0) - pl.with[s]) ELSE 0
    BY DEF Turns
  <2>3. CASE s = stage
    <3>1. pl.with[s] \in Nat /\ pl.with[s] <= cycle /\ cycle < pl.with[s] + N /\ s < NS
      BY <1>3, <1>5, <2>3 DEF Works
    <3>2. Turns(s) = Within(cycle - pl.with[s]) /\ Turns(s)' = Within(cycle - pl.with[s] + 1)
      BY <1>2, <2>1, <2>2, <2>3, <3>1
    <3>3. cycle \in Nat /\ N \in Nat
      BY <1>2, <1>5
    <3>4. cycle - pl.with[s] \in 0 .. N - 1
      BY <3>1, <3>3
    <3>5. \A t \in 0 .. N - 1 : Within(t) = t /\ Within(t + 1) = t + 1
      BY <3>3 DEF Within
    <3> QED
      BY <2>3, <3>2, <3>4, <3>5
  <2>4. CASE s # stage
    <3>1. (s < stage + 1) <=> (s < stage)
      BY <1>2, <1>5, <2>4
    <3> QED
      BY <2>1, <2>2, <2>4, <3>1
  <2> QED
    BY <2>3, <2>4
<1>9. /\ done' \in [Stages(pl) -> Seq(Nat)]
      /\ \A s \in Stages(pl) : Len(done'[s]) = IF s = stage THEN Len(done[s]) + 1 ELSE Len(done[s])
      /\ \A s \in Stages(pl) : s # stage => done'[s] = done[s]
      /\ done'[stage] = Append(done[stage], act[stage])
  <2>1. done' = [done EXCEPT ![stage] = Append(@, act[stage])]
    BY DEF Main
  <2>2. done[stage] \in Seq(Nat) /\ act[stage] \in Nat
    BY <1>2, <1>3
  <2>3. Append(done[stage], act[stage]) \in Seq(Nat)
        /\ Len(Append(done[stage], act[stage])) = Len(done[stage]) + 1
    BY <2>2
  <2> QED
    BY <1>2, <1>3, <2>1, <2>3
<1>10. DoneInv'
  <2>1. \A s \in Stages(pl) : Len(done'[s]) = Turns(s)'
    BY <1>3, <1>8, <1>9 DEF DoneInv
  <2>2. ASSUME NEW s \in Stages(pl), NEW k \in 1 .. Len(done'[s])
        PROVE  done'[s][k] = first + k
    <3>1. CASE s # stage
      BY <1>3, <1>9, <2>2, <3>1 DEF DoneInv, InOrder
    <3>2. CASE s = stage
      <4>1. done[stage] \in Seq(Nat) /\ k \in 1 .. Len(done[stage]) + 1
        BY <1>2, <1>3, <1>9, <2>2, <3>2
      <4>2. CASE k = Len(done[stage]) + 1
        <5>1. done'[s][k] = act[stage]
          BY <1>3, <1>9, <3>2, <4>1, <4>2
        <5> QED
          <6>1. Len(done[stage]) \in Nat
            BY <1>2, <1>3
          <6>2. first + k = first + Len(done[stage]) + 1
            BY <1>2, <4>2, <6>1
          <6> QED
            BY <1>6, <1>7, <5>1, <6>2
      <4>3. CASE k \in 1 .. Len(done[stage])
        <5>1. Append(done[stage], act[stage])[k] = done[stage][k]
          BY <4>1, <4>3
        <5>2. done[stage][k] = first + k
          BY <1>3, <4>3 DEF DoneInv, InOrder
        <5> QED
          BY <1>9, <3>2, <5>1, <5>2
      <4> QED
        BY <4>1, <4>2, <4>3
    <3> QED
      BY <3>1, <3>2
  <2> QED
    BY <1>1, <2>1, <2>2 DEF DoneInv, InOrder, Stages

<1>11. ReturnedInv'
  <2>1. \A s \in Stages(pl) : Returns(s)' = Returns(s)
    BY <1>1, <1>4 DEF Returns, Within
  <2> QED
    BY <1>1, <1>3, <2>1 DEF ReturnedInv, InOrder, Stages
<1>12. PlaceInv'
  <2>1. phase' = "main" /\ cycle' = cycle /\ LastCycle' = LastCycle
    BY <1>1, <1>4
  <2> QED
    BY <1>3, <2>1 DEF PlaceInv
<1>13. /\ \A r \in RestoredBy(stage) : Restored(r) = Present(stage)
       /\ \A r \in pl.restores : Len(done[r[1]]) = Turns(r[1]) /\ Len(done[r[2]]) = Turns(r[2])
  <2>1. \A r \in pl.restores : Len(done[r[1]]) = Turns(r[1]) /\ Len(done[r[2]]) = Turns(r[2])
    BY <1>3, <1>5 DEF DoneInv
  <2>2. ASSUME NEW r \in pl.restores, r[2] = stage PROVE Restored(r) = Present(stage)
    <3> DEFINE d == Len(done[r[1]]) - Len(done[stage])
    <3>1. d \in 0 .. Size(r[1]) /\ 0 < d
      BY <1>1, <1>2, <1>3, <2>1, <2>2, RestoreDistance
    <3>2. r[1] \in Stashed(pl) /\ r[1] \in Stages(pl) /\ Size(r[1]) \in Nat
          /\ Len(done[r[1]]) \in Nat /\ Len(done[stage]) \in Nat
      BY <1>2, <1>3, <1>5
    <3>3. d \in 1 .. Size(r[1]) /\ d <= Len(done[r[1]])
      <4>1. \A x, y \in Nat : x - y <= x
        OBVIOUS
      <4>2. d <= Len(done[r[1]])
        BY <3>2, <4>1
      <4> HIDE DEF d
      <4>3. \A x, y \in Nat : x \in 0 .. y /\ 0 < x => x \in 1 .. y
        OBVIOUS
      <4> QED
        BY <3>1, <3>2, <4>2, <4>3
    <3>4. restoreIndex[r] = Back(Size(r[1]), stashIndex[r[1]], d)
      BY <1>3, <2>2 DEF RestoreInv
    <3>5. stash[r[1]][restoreIndex[r]] = first + Len(done[r[1]]) - d + 1
      BY <1>3, <3>2, <3>3, <3>4 DEF StashInv
    <3>6. \A f, x, y \in Nat : f + x - (x - y) + 1 = f + y + 1
      OBVIOUS
    <3>7. first \in Nat
      BY <1>2
    <3>8. first + Len(done[r[1]]) - d + 1 = first + Len(done[stage]) + 1
      BY <3>2, <3>6, <3>7
    <3>9. Present(stage) = first + Len(done[stage]) + 1
      BY <1>7
    <3> QED
      BY <2>2, <3>5, <3>8, <3>9 DEF Restored
  <2> QED
    BY <2>1, <2>2 DEF RestoredBy
<1>14. InputsInv'
  <2>1. stage \in pl.streamed => label[stage] = Present(stage)
    BY <1>1, <1>3 DEF TensorsInv
  <2>2. \A x \in inputs' : x = Present(stage)
    BY <1>6, <1>13, <2>1 DEF Main
  <2> QED
    BY <2>2 DEF InputsInv
<1>15. /\ out' \in [Stages(pl) -> Nat] /\ act' \in [Stages(pl) -> Nat] /\ inputs' \subseteq Nat
       /\ out'[stage] = Present(stage)
       /\ \A s \in Stages(pl) : s # stage => out'[s] = out[s]
       /\ \A s \in Stages(pl) :
             act'[s] = IF s = stage + 1 /\ pl.with[s] = pl.with[stage] THEN act[stage]
                       ELSE IF <<s, stage>> \in pl.restores /\ isInplace(user, pl, s)
                            THEN Restored(<<s, stage>>) ELSE act[s]
  <2>1. out' = [out EXCEPT ![stage] = act[stage]]
        /\ act' = [s \in Stages(pl) |->
                  IF s = stage + 1 /\ pl.with[s] = pl.with[stage] THEN act[stage]
                  ELSE IF <<s, stage>> \in pl.restores /\ isInplace(user, pl, s)
                       THEN Restored(<<s, stage>>)
                       ELSE act[s]]
    BY DEF Main
  <2>2. \A s \in Stages(pl) : <<s, stage>> \in pl.restores => Restored(<<s, stage>>) \in Nat
    <3> SUFFICES ASSUME NEW s \in Stages(pl), <<s, stage>> \in pl.restores
                 PROVE  Restored(<<s, stage>>) \in Nat
      OBVIOUS
    <3>1. <<s, stage>> \in RestoredBy(stage)
      BY DEF RestoredBy
    <3> QED
      BY <1>6, <1>13, <3>1
  <2>3. \A s \in Stages(pl) : act'[s] \in Nat
    BY <1>2, <1>3, <2>1, <2>2
  <2>4. act' \in [Stages(pl) -> Nat]
    BY <2>1, <2>3
  <2>5. \A x \in inputs' : x \in Nat
    BY <1>2, <1>6, <1>13, <1>3 DEF Main
  <2> QED
    BY <1>2, <1>3, <1>6, <2>1, <2>4, <2>5
<1>16. TensorsInv'
  <2> SUFFICES ASSUME NEW s \in Stages(pl), Works(s)'
               PROVE  /\ HasActivation(s)' => act'[s] = Present(s)'
                      /\ s < stage' => out'[s] = Present(s)'
                      /\ phase' # "toDevice" /\ s \in pl.streamed => label'[s] = Present(s)'
    BY <1>1 DEF TensorsInv, Stages
  <2>1. Works(s) /\ Present(s)' = Present(s) /\ s < NS /\ s \in Nat
    BY <1>1, <1>4, <1>5 DEF Works, Present
  <2>2. phase' # "toDevice" /\ s \in pl.streamed => label'[s] = Present(s)'
    BY <1>1, <1>3, <2>1 DEF TensorsInv
  <2>3. s < stage' => out'[s] = Present(s)'
    <3>1. CASE s = stage
      BY <1>15, <2>1, <3>1
    <3>2. CASE s # stage
      <4>1. s < stage' => s < stage
        BY <1>1, <1>2, <2>1, <3>2
      <4> QED
        BY <1>3, <1>15, <2>1, <3>2, <4>1 DEF TensorsInv
    <3> QED
      BY <3>1, <3>2
  <2>4. ASSUME HasActivation(s)' PROVE act'[s] = Present(s)
    <3>1. CASE s = stage + 1 /\ pl.with[s] = pl.with[stage]
      <4>1. Present(s) = Present(stage)
        BY <3>1 DEF Present
      <4> QED
        BY <1>6, <1>15, <3>1, <4>1
    <3>2. CASE ~(s = stage + 1 /\ pl.with[s] = pl.with[stage])
      <4>1. ~(<<s, stage>> \in pl.restores /\ isInplace(user, pl, s))
        <5> SUFFICES ASSUME <<s, stage>> \in pl.restores, isInplace(user, pl, s)
                     PROVE  FALSE
          OBVIOUS
        <5>1. s < stage
          BY <1>5
        <5>2. ~(stage' <= s)
          BY <1>1, <1>2, <2>1, <5>1
        <5> QED
          BY <1>1, <2>4, <5>2 DEF HasActivation
      <4>2. act'[s] = act[s]
        BY <1>15, <3>2, <4>1
      <4>3. HasActivation(s)
        <5>1. CASE s < stage
          <6>1. ~(stage' <= s) /\ ~(stage <= s)
            BY <1>1, <1>2, <2>1, <5>1
          <6> QED
            BY <1>1, <2>4, <6>1 DEF HasActivation
        <5>2. CASE s = stage
          <6>1. s <= stage
            BY <1>2, <5>2
          <6> QED
            BY <1>1, <1>2, <5>2, <6>1 DEF HasActivation, Received
        <5>3. CASE s > stage
          <6>1. stage' <= s /\ stage <= s
            BY <1>1, <1>2, <2>1, <5>3
          <6>2. Received(s)'
            BY <2>4, <6>1 DEF HasActivation
          <6>3. s # 0 /\ (s <= stage + 1 => s = stage + 1 /\ s - 1 = stage)
            BY <1>2, <2>1, <5>3
          <6>4. Received(s)
            BY <1>1, <3>2, <6>2, <6>3 DEF Received
          <6> QED
            BY <6>1, <6>4 DEF HasActivation
        <5> QED
          BY <1>2, <2>1, <5>1, <5>2, <5>3
      <4> QED
        BY <1>3, <2>1, <4>2, <4>3 DEF TensorsInv
    <3> QED
      BY <3>1, <3>2
  <2> QED
    BY <2>1, <2>2, <2>3, <2>4
<1>17. ASSUME NEW a \in Stashed(pl)
       PROVE  IF a = stage
              THEN /\ stashIndex'[a] = NextIndex(Size(a), stashIndex[a])
                   /\ stash'[a] = [stash[a] EXCEPT ![stashIndex[a]] = act[a]]
              ELSE stashIndex'[a] = stashIndex[a] /\ stash'[a] = stash[a]
  BY DEF Main, Size
<1>18. /\ DOMAIN stash' = Stashed(pl) /\ stashIndex' \in [Stashed(pl) -> Nat]
       /\ \A a \in Stashed(pl) : /\ stash'[a] \in [0 .. Size(a) - 1 -> Nat]
                                 /\ stashIndex'[a] \in 0 .. Size(a) - 1
  <2>1. \A a \in Stashed(pl) : /\ stash'[a] \in [0 .. Size(a) - 1 -> Nat]
                               /\ stashIndex'[a] \in 0 .. Size(a) - 1
    <3> SUFFICES ASSUME NEW a \in Stashed(pl)
                 PROVE  /\ stash'[a] \in [0 .. Size(a) - 1 -> Nat]
                        /\ stashIndex'[a] \in 0 .. Size(a) - 1
      OBVIOUS
    <3>1. NextIndex(Size(a), stashIndex[a]) \in 0 .. Size(a) - 1
      <4>1. 0 \in 0 .. Size(a) /\ Size(a) \in Nat \ {0} /\ stashIndex[a] \in 0 .. Size(a) - 1
        BY <1>2
      <4> QED
        BY <4>1, BackMoves
    <3>2. act[stage] \in Nat
      BY <1>6
    <3>3. CASE a = stage
      <4>1. stash[a] \in [0 .. Size(a) - 1 -> Nat] /\ act[a] \in Nat
        BY <1>2, <3>2, <3>3
      <4>2. /\ stash'[a] = [stash[a] EXCEPT ![stashIndex[a]] = act[a]]
            /\ stashIndex'[a] = NextIndex(Size(a), stashIndex[a])
        BY <1>17, <3>3
      <4> QED
        BY <3>1, <4>1, <4>2
    <3>4. CASE a # stage
      BY <1>2, <1>17, <3>4
    <3> QED
      BY <3>3, <3>4
  <2>2. DOMAIN stash' = Stashed(pl) /\ DOMAIN stashIndex' = Stashed(pl)
        /\ stashIndex' = [a \in Stashed(pl) |-> stashIndex'[a]]
    BY DEF Main
  <2>3. \A a \in Stashed(pl) : stashIndex'[a] \in Nat
    BY <1>2, <2>1
  <2> QED
    BY <2>1, <2>2, <2>3
<1>19. StashInv'
  <2> SUFFICES ASSUME NEW a \in Stashed(pl), NEW d \in 1 .. Size(a), d <= Len(done'[a])
               PROVE  stash'[a][Back(Size(a), stashIndex'[a], d)] = first + Len(done'[a]) - d + 1
    BY <1>1, <1>4 DEF StashInv, Stashed
  <2>1. a \in Stages(pl) /\ Size(a) \in Nat \ {0} /\ stashIndex[a] \in 0 .. Size(a) - 1
        /\ stash[a] \in [0 .. Size(a) - 1 -> Nat] /\ Len(done[a]) \in Nat
    BY <1>2, <1>5
  <2>2. CASE a # stage
    <3>1. done'[a] = done[a] /\ stash'[a] = stash[a] /\ stashIndex'[a] = stashIndex[a]
      BY <1>9, <1>17, <2>1, <2>2
    <3> QED
      BY <1>3, <3>1 DEF StashInv
  <2>3. CASE a = stage
    <3> DEFINE z == Size(a)
               i == stashIndex[a]
               n == NextIndex(z, i)
    <3>1. stashIndex'[a] = n /\ stash'[a] = [stash[a] EXCEPT ![i] = act[a]]
          /\ Len(done'[a]) = Len(done[a]) + 1
      BY <1>9, <1>17, <2>1, <2>3
    <3>2. CASE d = 1
      <4>1. 0 \in 0 .. z
        BY <2>1
      <4>2. Back(z, n, 1) = i
        BY <2>1, <4>1, BackMoves
      <4>3. stash'[a][i] = act[a]
        BY <2>1, <3>1
      <4>4. act[a] = first + Len(done[a]) + 1
        BY <1>6, <1>7, <2>3
      <4> HIDE DEF z, i, n
      <4>5. first + Len(done'[a]) - d + 1 = first + Len(done[a]) + 1
        BY <1>2, <2>1, <3>1, <3>2
      <4> QED
        BY <3>1, <3>2, <4>2, <4>3, <4>4, <4>5 DEF z
    <3>3. CASE d # 1
      <4>1. d - 1 \in 0 .. z /\ 0 < d - 1 /\ d - 1 < z /\ (d - 1) + 1 = d
            /\ d - 1 \in 1 .. z
        BY <2>1, <3>3
      <4>2. Back(z, n, d) = Back(z, i, d - 1) /\ Back(z, i, d - 1) # i
            /\ Back(z, i, d - 1) \in 0 .. z - 1
        <5> HIDE DEF z, i
        <5>1. z \in Nat \ {0} /\ i \in 0 .. z - 1
          BY <2>1 DEF z, i
        <5>2. Back(z, NextIndex(z, i), (d - 1) + 1) = Back(z, i, d - 1)
              /\ Back(z, i, d - 1) # i /\ Back(z, i, d - 1) \in 0 .. z - 1
          BY <4>1, <5>1, BackMoves, ZenonT(30)
        <5> QED
          BY <4>1, <5>2
      <4>3. stash'[a][Back(z, i, d - 1)] = stash[a][Back(z, i, d - 1)]
        BY <2>1, <3>1, <4>2
      <4>4. d - 1 <= Len(done[a])
        BY <2>1, <3>1
      <4>5. stash[a][Back(z, i, d - 1)] = first + Len(done[a]) - (d - 1) + 1
        BY <1>3, <4>1, <4>4 DEF StashInv
      <4>6. first + Len(done'[a]) - d + 1 = first + Len(done[a]) - (d - 1) + 1
        BY <1>2, <2>1, <3>1, <4>1
      <4> QED
        BY <3>1, <4>2, <4>3, <4>5, <4>6
    <3> QED
      BY <3>2, <3>3
  <2> QED
    BY <2>2, <2>3
<1>20. ASSUME NEW r \in pl.restores
       PROVE  restoreIndex'[r] = IF r[2] = stage THEN NextIndex(Size(r[1]), restoreIndex[r])
                                 ELSE restoreIndex[r]
  BY DEF Main, Size
<1>21. /\ restoreIndex' \in [pl.restores -> Nat]
       /\ \A r \in pl.restores : restoreIndex'[r] \in 0 .. Size(r[1]) - 1
  <2>1. ASSUME NEW r \in pl.restores PROVE restoreIndex'[r] \in 0 .. Size(r[1]) - 1
    <3>1. Size(r[1]) \in Nat \ {0} /\ restoreIndex[r] \in 0 .. Size(r[1]) - 1
      BY <1>2, <1>5
    <3>2. 0 \in 0 .. Size(r[1])
      BY <3>1
    <3>3. NextIndex(Size(r[1]), restoreIndex[r]) \in 0 .. Size(r[1]) - 1
      BY <3>1, <3>2, BackMoves
    <3> QED
      BY <1>20, <3>1, <3>3
  <2>2. restoreIndex' = [r \in pl.restores |-> restoreIndex'[r]]
    BY DEF Main
  <2>3. \A r \in pl.restores : restoreIndex'[r] \in Nat
    BY <1>2, <1>5, <2>1
  <2> QED
    BY <2>1, <2>2, <2>3
<1>22. RestoreInv'
  <2> SUFFICES ASSUME NEW r \in pl.restores, r[2] < NS
               PROVE  restoreIndex'[r] = Back(Size(r[1]), stashIndex'[r[1]],
                                              Len(done'[r[1]]) - Len(done'[r[2]]))
    BY <1>1, <1>4, <1>5 DEF RestoreInv
  <2> DEFINE z == Size(r[1])
             i == stashIndex[r[1]]
             d == Len(done[r[1]]) - Len(done[r[2]])
  <2>1. /\ z \in Nat \ {0} /\ i \in 0 .. z - 1 /\ r[1] \in Stages(pl) /\ r[2] \in Stages(pl)
        /\ r[1] \in Stashed(pl) /\ r[1] # r[2]
        /\ Len(done[r[1]]) \in Nat /\ Len(done[r[2]]) \in Nat
    BY <1>2, <1>5
  <2>2. /\ d \in 0 .. z /\ (stage = r[1] => d < z) /\ (stage = r[2] => 0 < d)
    BY <1>1, <1>2, <1>3, <1>13, RestoreDistance
  <2>3. restoreIndex[r] = Back(z, i, d)
    BY <1>3 DEF RestoreInv
  <2> HIDE DEF d, z, i
  <2>4. CASE r[1] = stage
    <3>1. stashIndex'[r[1]] = NextIndex(z, i) /\ restoreIndex'[r] = restoreIndex[r]
      BY <1>17, <1>20, <2>1, <2>4 DEF z, i
    <3>2. Len(done'[r[1]]) - Len(done'[r[2]]) = d + 1
      <4>1. Len(done'[r[1]]) = Len(done[r[1]]) + 1 /\ Len(done'[r[2]]) = Len(done[r[2]])
        BY <1>9, <2>1, <2>4
      <4> QED
        BY <2>1, <4>1 DEF d
    <3>3. Back(z, NextIndex(z, i), d + 1) = Back(z, i, d)
      BY <2>1, <2>2, <2>4, BackMoves
    <3> QED
      BY <2>3, <3>1, <3>2, <3>3 DEF z
  <2>5. CASE r[2] = stage
    <3>1. stashIndex'[r[1]] = i /\ restoreIndex'[r] = NextIndex(z, restoreIndex[r])
      BY <1>17, <1>20, <2>1, <2>5 DEF z, i
    <3>2. Len(done'[r[1]]) - Len(done'[r[2]]) = d - 1
      <4>1. Len(done'[r[2]]) = Len(done[r[2]]) + 1 /\ Len(done'[r[1]]) = Len(done[r[1]])
        BY <1>9, <2>1, <2>5
      <4> QED
        BY <2>1, <4>1 DEF d
    <3>3. NextIndex(z, Back(z, i, d)) = Back(z, i, d - 1)
      BY <2>1, <2>2, <2>5, BackMoves, ZenonT(30)
    <3> QED
      BY <2>3, <3>1, <3>2, <3>3 DEF z
  <2>6. CASE r[1] # stage /\ r[2] # stage
    <3>1. stashIndex'[r[1]] = i /\ restoreIndex'[r] = restoreIndex[r]
          /\ done'[r[1]] = done[r[1]] /\ done'[r[2]] = done[r[2]]
      BY <1>9, <1>17, <1>20, <2>1, <2>6 DEF z, i
    <3> QED
      BY <2>3, <3>1 DEF z, d
  <2> QED
    BY <2>4, <2>5, <2>6
<1>23. TypeOK'
  <2>1. TypeOK /\ stage' \in 0 .. pl.stages /\ phase' = "main"
    <3>1. pl.stages \in Nat
      BY <1>2 DEF Shape
    <3>2. stage' \in 0 .. pl.stages
      BY <1>1, <1>2, <3>1
    <3> QED
      BY <1>1, <3>2 DEF IInv
  <2>2. \A a \in Stashed(pl) : /\ stash'[a] \in [0 .. getStashSize(pl, a) - 1 -> Nat]
                               /\ stashIndex'[a] \in DOMAIN stash'[a]
    BY <1>18 DEF Size
  <2>3. \A r \in pl.restores : restoreIndex'[r] \in DOMAIN stash'[r[1]]
    BY <1>5, <1>18, <1>21
  <2>4. {act', out', label'} \subseteq [Stages(pl) -> Nat]
        /\ {done', returned'} \subseteq [Stages(pl) -> Seq(Nat)]
    BY <1>1, <1>2, <1>9, <1>15
  <2>5. /\ user' \in Pipelines /\ status' \in {"built", "refused", "broken", "idle", "running"}
        /\ program' \in {"train", "fwd"} /\ steps' \in 0 .. MaxSteps /\ loop' \in Nat
        /\ cycle' \in Nat /\ first' \in Nat
    BY <1>1, <2>1 DEF TypeOK
  <2>6. DOMAIN stash' = Stashed(pl) /\ stashIndex' \in [Stashed(pl) -> Nat]
        /\ restoreIndex' \in [pl.restores -> Nat]
    BY <1>18, <1>21
  <2>7. Stages(pl)' = Stages(pl) /\ Stashed(pl)' = Stashed(pl) /\ pl' = pl
    BY <1>1 DEF Stages, Stashed
  <2> QED
    BY <1>15, <2>1, <2>2, <2>3, <2>4, <2>5, <2>6, <2>7 DEF TypeOK
<1>24. Static' /\ status' = "running"
  BY <1>1, <1>2 DEF Static
<1> QED
  BY <1>10, <1>11, <1>12, <1>14, <1>16, <1>19, <1>22, <1>23, <1>24 DEF IInv, RunInv

(***************************************************************************)
(* The other steps of a cycle.                                             *)
(***************************************************************************)
(* The parts of the invariant that a step within a cycle keeps if it only  *)
(* moves on, or changes tensors.                                           *)
LEMMA SameIndices ==
  ASSUME IInv, status = "running",
         UNCHANGED <<user, pl, status, program, first, done, stash, stashIndex, restoreIndex>>
  PROVE  StashInv' /\ RestoreInv'
<1>1. StashInv /\ RestoreInv
  BY DEF IInv, RunInv
<1>2. NS' = NS /\ \A a : Size(a)' = Size(a)
  BY DEF NS, Size
<1> QED
  BY <1>1, <1>2 DEF StashInv, RestoreInv, Stashed

LEMMA SameTypes ==
  ASSUME IInv, status = "running",
         UNCHANGED <<user, pl, program, steps, stash, stashIndex, restoreIndex, inputs, out>>,
         status' \in {"idle", "running"}, loop' \in Nat, cycle' \in Nat, first' \in Nat,
         phase' \in {"toDevice", "main", "copies"}, stage' \in 0 .. pl.stages,
         act' \in [Stages(pl) -> Nat], label' \in [Stages(pl) -> Nat],
         done' \in [Stages(pl) -> Seq(Nat)], returned' \in [Stages(pl) -> Seq(Nat)]
  PROVE  TypeOK' /\ Static' /\ InputsInv'
<1>1. TypeOK /\ Static /\ InputsInv
  BY DEF IInv
<1>2. out' \in [Stages(pl) -> Nat] /\ Stages(pl)' = Stages(pl) /\ Stashed(pl)' = Stashed(pl)
  BY <1>1 DEF TypeOK, Stages, Stashed
<1>3. TypeOK'
  BY <1>1, <1>2 DEF TypeOK
<1>4. Static' /\ InputsInv'
  BY <1>1 DEF Static, InputsInv
<1> QED
  BY <1>3, <1>4

LEMMA SkipMainStep == ASSUME IInv, SkipMain PROVE IInv'
<1>1. /\ status = "running" /\ phase = "main" /\ stage < pl.stages /\ ~Does(stage)
      /\ stage' = stage + 1
      /\ UNCHANGED <<user, pl, status, program, steps, loop, cycle, phase, first>>
      /\ UNCHANGED <<act, out, label, stash, stashIndex, restoreIndex, inputs, done, returned>>
  BY DEF SkipMain, tensors, history
<1>2. /\ RunInv /\ Shape(user, pl, program) /\ Static
      /\ stage \in 0 .. pl.stages /\ stage \in Nat /\ cycle \in Nat /\ first \in Nat
      /\ act \in [Stages(pl) -> Nat] /\ label \in [Stages(pl) -> Nat]
      /\ done \in [Stages(pl) -> Seq(Nat)] /\ returned \in [Stages(pl) -> Seq(Nat)]
  BY <1>1, RunningTypes
<1>3. stage \in Stages(pl) /\ PlaceInv /\ DoneInv /\ ReturnedInv /\ TensorsInv
  BY <1>1, <1>2 DEF Stages, Shape, RunInv
<1>4. ~Works(stage)
  BY <1>1, <1>2, <1>3, DoesIffWorks
<1>5. /\ N \in Nat \ {0} /\ NS \in 1 .. pl.stages /\ pl.stages \in Nat
      /\ \A s \in Stages(pl) : s \in Nat /\ pl.with[s] \in Nat
      /\ NS' = NS /\ N' = N /\ LastCycle' = LastCycle
  BY <1>1, <1>2 DEF Shape, N, NS, Fill, LastCycle, Stages
<1>6. DoneInv'
  <2> SUFFICES ASSUME NEW s \in Stages(pl) PROVE Turns(s)' = Turns(s)
    BY <1>1, <1>3 DEF DoneInv, InOrder, Stages
  <2>1. Turns(s)' = IF s < NS THEN Within(cycle + (IF s < stage + 1 THEN 1 ELSE 0) - pl.with[s]) ELSE 0
    BY <1>1, <1>5 DEF Turns, Within
  <2>2. CASE s = stage
    <3>1. s < NS => Within(cycle + 1 - pl.with[s]) = Turns(s)
      BY <1>1, <1>2, <1>3, <1>4, <2>2, TurnsMove
    <3>2. ~(s < NS) => Turns(s) = 0
      BY DEF Turns
    <3>3. s < stage + 1
      BY <1>2, <2>2
    <3> QED
      BY <2>1, <3>1, <3>2, <3>3
  <2>3. CASE s # stage
    <3>1. (s < stage + 1) <=> (s < stage)
      BY <1>2, <1>5, <2>3
    <3> QED
      BY <2>1, <3>1 DEF Turns
  <2> QED
    BY <2>2, <2>3
<1>7. ReturnedInv'
  <2>1. \A s \in Stages(pl) : Returns(s)' = Returns(s)
    BY <1>1, <1>5 DEF Returns, Within
  <2> QED
    BY <1>1, <1>3, <2>1 DEF ReturnedInv, InOrder, Stages
<1>8. TensorsInv'
  <2> SUFFICES ASSUME NEW s \in Stages(pl), Works(s)'
               PROVE  /\ HasActivation(s)' => act'[s] = Present(s)'
                      /\ s < stage' => out'[s] = Present(s)'
                      /\ phase' # "toDevice" /\ s \in pl.streamed => label'[s] = Present(s)'
    BY <1>1 DEF TensorsInv, Stages
  <2>1. Works(s) /\ Present(s)' = Present(s) /\ s < NS /\ s \in Nat /\ s # stage
    BY <1>1, <1>4, <1>5 DEF Works, Present
  <2>2. (s < stage' => s < stage) /\ (stage' <= s => stage <= s) /\ (stage <= s => stage' <= s)
    BY <1>1, <1>2, <2>1
  <2>3. Received(s)' /\ stage' <= s => Received(s)
    <3> SUFFICES ASSUME Received(s)', stage' <= s PROVE Received(s)
      OBVIOUS
    <3>1. CASE s = 0
      BY <1>1, <3>1 DEF Received
    <3>2. CASE s # 0 /\ pl.with[s] # pl.with[s - 1]
      BY <3>2 DEF Received
    <3>3. CASE s # 0 /\ s <= stage' /\ pl.with[s] = pl.with[s - 1]
      <4>1. s - 1 = stage
        BY <1>1, <1>2, <2>1, <3>3
      <4>2. Works(stage)
        <5>1. stage < NS
          BY <1>2, <1>5, <2>1, <4>1
        <5>2. pl.with[stage] = pl.with[s]
          BY <3>3, <4>1
        <5> QED
          BY <2>1, <5>1, <5>2 DEF Works
      <4> QED
        BY <1>4, <4>2
    <3> QED
      BY <1>1, <3>1, <3>2, <3>3 DEF Received
  <2>4. HasActivation(s)' => HasActivation(s)
    BY <1>1, <2>2, <2>3 DEF HasActivation
  <2> QED
    BY <1>1, <1>3, <2>1, <2>2, <2>4 DEF TensorsInv
<1>9. PlaceInv'
  BY <1>1, <1>3, <1>5 DEF PlaceInv
<1>10. stage' \in 0 .. pl.stages /\ loop' \in Nat /\ phase' = "main"
  BY <1>1, <1>2, <1>5 DEF IInv, TypeOK
<1>11. TypeOK' /\ Static' /\ InputsInv'
  BY <1>1, <1>2, <1>10, SameTypes
<1>12. StashInv' /\ RestoreInv'
  BY <1>1, SameIndices
<1> QED
  BY <1>1, <1>6, <1>7, <1>8, <1>9, <1>11, <1>12 DEF IInv, RunInv

LEMMA ToDeviceStep == ASSUME IInv, ToDevice PROVE IInv'
<1>1. /\ status = "running" /\ phase = "toDevice" /\ phase' = "main" /\ stage' = 0
      /\ UNCHANGED <<user, pl, status, program, steps, loop, cycle, first, out,
                     stash, stashIndex, restoreIndex, inputs, done, returned>>
  BY DEF ToDevice, history
<1>2. /\ RunInv /\ Shape(user, pl, program) /\ Static
      /\ stage \in 0 .. pl.stages /\ stage \in Nat /\ cycle \in Nat /\ first \in Nat
      /\ act \in [Stages(pl) -> Nat] /\ label \in [Stages(pl) -> Nat]
      /\ done \in [Stages(pl) -> Seq(Nat)] /\ returned \in [Stages(pl) -> Seq(Nat)]
      /\ \A s \in Stages(pl) : Len(done[s]) \in Nat
  BY <1>1, RunningTypes
<1>3. stage = 0 /\ PlaceInv /\ DoneInv /\ ReturnedInv /\ TensorsInv
  BY <1>1, <1>2 DEF RunInv, PlaceInv
<1>4. /\ N \in Nat \ {0} /\ NS \in 1 .. pl.stages /\ pl.stages \in Nat \ {0}
      /\ \A s \in Stages(pl) : s \in Nat /\ pl.with[s] \in Nat
      /\ NS' = NS /\ N' = N /\ LastCycle' = LastCycle /\ 0 \in Stages(pl)
  BY <1>1, <1>2 DEF Shape, N, NS, Fill, LastCycle, Stages
<1>5. DoneInv' /\ ReturnedInv'
  <2>1. \A s \in Stages(pl) : Turns(s)' = Turns(s) /\ Returns(s)' = Returns(s)
    BY <1>1, <1>3, <1>4 DEF Turns, Returns, Within
  <2> QED
    BY <1>1, <1>3, <2>1 DEF DoneInv, ReturnedInv, InOrder, Stages
<1>6. \A s \in Stages(pl) : Works(s) => NextOfStream(s) = Present(s)
  <2> SUFFICES ASSUME NEW s \in Stages(pl), Works(s) PROVE NextOfStream(s) = Present(s)
    OBVIOUS
  <2>1. Len(done[s]) = cycle - pl.with[s] + (IF s < stage THEN 1 ELSE 0)
    BY <1>1, <1>2, <1>3, TurnsMove DEF DoneInv
  <2>2. ~(s < stage) /\ pl.with[s] \in Nat
    BY <1>3, <1>4
  <2> QED
    BY <1>2, <2>1, <2>2 DEF NextOfStream, Present
<1>7. \A s \in Stages(pl) : Does(s) <=> Works(s)
  BY <1>1, <1>2, <1>3, DoesIffWorks
<1>8. /\ label' = [s \in Stages(pl) |->
                      IF s \in pl.streamed /\ Does(s) THEN NextOfStream(s) ELSE label[s]]
      /\ act' = [act EXCEPT ![0] = IF Does(0) THEN NextOfStream(0) ELSE act[0]]
  BY DEF ToDevice
<1>9. label' \in [Stages(pl) -> Nat] /\ act' \in [Stages(pl) -> Nat]
  <2>1. \A s \in Stages(pl) : NextOfStream(s) \in Nat
    BY <1>2 DEF NextOfStream
  <2> QED
    BY <1>2, <1>4, <1>8, <2>1
<1>10. TensorsInv'
  <2> SUFFICES ASSUME NEW s \in Stages(pl), Works(s)'
               PROVE  /\ HasActivation(s)' => act'[s] = Present(s)'
                      /\ s < stage' => out'[s] = Present(s)'
                      /\ phase' # "toDevice" /\ s \in pl.streamed => label'[s] = Present(s)'
    BY <1>1 DEF TensorsInv, Stages
  <2>1. Works(s) /\ Present(s)' = Present(s) /\ s < NS /\ s \in Nat
    BY <1>1, <1>4 DEF Works, Present
  <2>2. s \in pl.streamed => label'[s] = Present(s)
    BY <1>6, <1>7, <1>8, <2>1
  <2>3. ~(s < stage') /\ stage' <= s /\ stage <= s
    BY <1>1, <1>3, <2>1
  <2>4. ASSUME HasActivation(s)' PROVE act'[s] = Present(s)
    <3>1. CASE s = 0
      BY <1>2, <1>6, <1>7, <1>8, <2>1, <3>1
    <3>2. CASE s # 0
      <4>1. Received(s)
        <5>1. Received(s)'
          BY <2>3, <2>4 DEF HasActivation
        <5> QED
          BY <1>1, <1>3, <3>2, <5>1 DEF Received
      <4>2. act'[s] = act[s]
        BY <1>2, <1>8, <3>2
      <4> QED
        BY <1>3, <2>1, <2>3, <4>1, <4>2 DEF TensorsInv, HasActivation
    <3> QED
      BY <3>1, <3>2
  <2> QED
    BY <2>1, <2>2, <2>3, <2>4
<1>11. PlaceInv'
  BY <1>1, <1>3, <1>4 DEF PlaceInv
<1>12. stage' \in 0 .. pl.stages /\ loop' \in Nat
  BY <1>1, <1>4 DEF IInv, TypeOK
<1>13. TypeOK' /\ Static' /\ InputsInv'
  BY <1>1, <1>2, <1>9, <1>12, SameTypes
<1>14. StashInv' /\ RestoreInv'
  BY <1>1, SameIndices
<1> QED
  BY <1>1, <1>5, <1>10, <1>11, <1>13, <1>14 DEF IInv, RunInv

LEMMA ToHostStep == ASSUME IInv, ToHost PROVE IInv'
<1>1. /\ status = "running" /\ phase = "main" /\ phase' = "copies" /\ stage = pl.stages
      /\ UNCHANGED <<user, pl, status, program, steps, loop, cycle, stage, first, act, out, label,
                     stash, stashIndex, restoreIndex, inputs, done>>
  BY DEF ToHost, tensors
<1>2. /\ RunInv /\ Shape(user, pl, program) /\ Static
      /\ stage \in 0 .. pl.stages /\ stage \in Nat /\ cycle \in Nat /\ first \in Nat
      /\ act \in [Stages(pl) -> Nat] /\ label \in [Stages(pl) -> Nat]
      /\ done \in [Stages(pl) -> Seq(Nat)] /\ returned \in [Stages(pl) -> Seq(Nat)]
  BY <1>1, RunningTypes
<1>3. PlaceInv /\ DoneInv /\ ReturnedInv /\ TensorsInv
  BY <1>2 DEF RunInv
<1>4. /\ N \in Nat \ {0} /\ NS \in 1 .. pl.stages
      /\ \A s \in Stages(pl) : s \in Nat /\ pl.with[s] \in Nat /\ s < stage
      /\ NS' = NS /\ N' = N /\ LastCycle' = LastCycle
  <2>1. N \in Nat \ {0} /\ NS \in 1 .. pl.stages
    BY <1>2 DEF Shape, N, NS
  <2>2. \A s \in Stages(pl) : s \in Nat /\ pl.with[s] \in Nat /\ s < stage
    BY <1>1, <1>2 DEF Shape, Stages
  <2>3. NS' = NS /\ N' = N /\ LastCycle' = LastCycle
    BY <1>1 DEF N, NS, Fill, LastCycle
  <2> QED
    BY <2>1, <2>2, <2>3
<1>5. DoneInv'
  <2>1. \A s \in Stages(pl) : Turns(s)' = Turns(s)
    BY <1>1, <1>4 DEF Turns, Within
  <2> QED
    BY <1>1, <1>3, <2>1 DEF DoneInv, InOrder, Stages
<1>6. \A s \in Stages(pl) : Does(s) <=> Works(s)
  BY <1>1, <1>2, <1>3, DoesIffWorks
<1>7. returned' = [s \in Stages(pl) |->
                      IF s \in pl.anchored /\ Does(s) THEN Append(returned[s], act[s])
                      ELSE returned[s]]
  BY DEF ToHost
<1>8. returned' \in [Stages(pl) -> Seq(Nat)]
  <2> SUFFICES ASSUME NEW s \in Stages(pl) PROVE Append(returned[s], act[s]) \in Seq(Nat)
    BY <1>2, <1>7
  <2>1. returned[s] \in Seq(Nat) /\ act[s] \in Nat
    BY <1>2
  <2> QED
    BY <2>1
<1>9. ReturnedInv'
  <2> SUFFICES ASSUME NEW s \in Stages(pl)
               PROVE  Len(returned'[s]) = Returns(s)' /\ \A k \in 1 .. Len(returned'[s]) : returned'[s][k] = first + k
    BY <1>1 DEF ReturnedInv, InOrder, Stages
  <2>1. Returns(s)' = IF s < NS /\ s \in pl.anchored THEN Within(cycle + 1 - pl.with[s]) ELSE 0
    BY <1>1, <1>4 DEF Returns, Within
  <2>2. Returns(s) = IF s < NS /\ s \in pl.anchored THEN Within(cycle + 0 - pl.with[s]) ELSE 0
    BY <1>1 DEF Returns
  <2>3. Len(returned[s]) = Returns(s) /\ \A k \in 1 .. Len(returned[s]) : returned[s][k] = first + k
    BY <1>3 DEF ReturnedInv, InOrder
  <2>4. CASE ~(s \in pl.anchored /\ Works(s))
    <3>1. returned'[s] = returned[s]
      BY <1>6, <1>7, <2>4
    <3>2. s < NS /\ s \in pl.anchored => Within(cycle + 1 - pl.with[s]) = Within(cycle + 0 - pl.with[s])
      BY <1>1, <1>2, <1>3, <2>4, TurnsMove
    <3> QED
      BY <2>1, <2>2, <2>3, <3>1, <3>2
  <2>5. CASE s \in pl.anchored /\ Works(s)
    <3>1. returned[s] \in Seq(Nat) /\ act[s] \in Nat /\ returned'[s] = Append(returned[s], act[s])
      BY <1>2, <1>6, <1>7, <2>5
    <3>2. s < NS /\ pl.with[s] \in Nat /\ pl.with[s] <= cycle /\ cycle < pl.with[s] + N
      BY <1>4, <2>5 DEF Works
    <3>3. Returns(s) = cycle - pl.with[s] /\ Returns(s)' = cycle - pl.with[s] + 1
      <4>1. Returns(s) = Within(cycle + 0 - pl.with[s]) /\ Returns(s)' = Within(cycle + 1 - pl.with[s])
        BY <2>1, <2>2, <2>5, <3>2
      <4>2. \A x \in Nat : x <= cycle /\ cycle < x + N =>
               Within(cycle + 0 - x) = cycle - x /\ Within(cycle + 1 - x) = cycle - x + 1
        BY <1>2, <1>4 DEF Within
      <4> QED
        BY <3>2, <4>1, <4>2
    <3>4. act[s] = Present(s)
      <4>1. ~(stage <= s)
        BY <1>2, <1>4
      <4>2. HasActivation(s)
        BY <2>5, <4>1 DEF HasActivation, isInplace
      <4> QED
        BY <1>3, <2>5, <4>2 DEF TensorsInv
    <3>5. act[s] = first + (Len(returned[s]) + 1)
      BY <1>2, <2>3, <3>2, <3>3, <3>4 DEF Present
    <3>6. Len(returned'[s]) = Len(returned[s]) + 1
      BY <3>1
    <3>7. ASSUME NEW k \in 1 .. Len(returned'[s]) PROVE returned'[s][k] = first + k
      <4>1. k \in 1 .. Len(returned[s]) + 1 /\ Len(returned[s]) \in Nat
        BY <3>1, <3>6
      <4>2. CASE k = Len(returned[s]) + 1
        <5>1. Append(returned[s], act[s])[k] = act[s]
          BY <3>1, <4>2
        <5> QED
          BY <3>1, <3>5, <4>2, <5>1
      <4>3. CASE k \in 1 .. Len(returned[s])
        <5>1. Append(returned[s], act[s])[k] = returned[s][k]
          BY <3>1, <4>3
        <5> QED
          BY <2>3, <3>1, <4>3, <5>1
      <4> QED
        BY <4>1, <4>2, <4>3
    <3> QED
      BY <2>3, <3>3, <3>6, <3>7
  <2> QED
    BY <2>4, <2>5
<1>10. TensorsInv'
  <2> SUFFICES ASSUME NEW s \in Stages(pl), Works(s)'
               PROVE  /\ HasActivation(s)' => act'[s] = Present(s)'
                      /\ s < stage' => out'[s] = Present(s)'
                      /\ phase' # "toDevice" /\ s \in pl.streamed => label'[s] = Present(s)'
    BY <1>1 DEF TensorsInv, Stages
  <2>1. Works(s) /\ Present(s)' = Present(s)
    BY <1>1, <1>4 DEF Works, Present
  <2>2. HasActivation(s)' => HasActivation(s)
    BY <1>1 DEF HasActivation, Received
  <2> QED
    BY <1>1, <1>3, <2>1, <2>2 DEF TensorsInv
<1>11. PlaceInv'
  BY <1>1, <1>3, <1>4 DEF PlaceInv
<1>12. loop' \in Nat
  BY <1>1 DEF IInv, TypeOK
<1>13. TypeOK' /\ Static' /\ InputsInv'
  BY <1>1, <1>2, <1>8, <1>12, SameTypes
<1>14. StashInv' /\ RestoreInv'
  BY <1>1, SameIndices
<1> QED
  BY <1>1, <1>5, <1>9, <1>10, <1>11, <1>13, <1>14 DEF IInv, RunInv

(***************************************************************************)
(* The start and the end of the inner loop.                                *)
(***************************************************************************)
Fresh ==
    /\ Static /\ status = "running" /\ cycle = 0 /\ phase = "toDevice" /\ stage = 0
    /\ done = [s \in Stages(pl) |-> <<>>] /\ returned = [s \in Stages(pl) |-> <<>>]
    /\ \A r \in pl.restores : r[2] < NS =>
          stashIndex[r[1]] \in Nat /\ restoreIndex[r] = stashIndex[r[1]]

LEMMA FreshLoop == Fresh => RunInv
<1> SUFFICES ASSUME Fresh PROVE RunInv
  OBVIOUS
<1>1. Static /\ status = "running" /\ cycle = 0 /\ phase = "toDevice" /\ stage = 0
  BY DEF Fresh
<1>2. Shape(user, pl, program)
  BY <1>1, ShapeNow
<1>3. /\ N \in Nat \ {0} /\ NS \in 1 .. pl.stages /\ Fill \in Nat /\ pl.stages \in Nat
      /\ \A s \in Stages(pl) : s \in Nat /\ pl.with[s] \in Nat /\ ~(s < 0)
      /\ \A r \in pl.restores : r[1] \in Stages(pl) /\ r[2] \in Stages(pl) /\ r[1] \in Stashed(pl)
      /\ \A a \in Stashed(pl) : a \in Stages(pl)
  BY <1>2 DEF Shape, N, NS, Fill, Stages
<1>4. PlaceInv
  BY <1>1, <1>3 DEF PlaceInv, LastCycle
<1>5. \A s \in Stages(pl) : /\ done[s] = <<>> /\ returned[s] = <<>>
                            /\ Len(done[s]) = 0 /\ Len(returned[s]) = 0
  BY DEF Fresh
<1>6. \A s \in Stages(pl) : Turns(s) = 0 /\ Returns(s) = 0
  <2> SUFFICES ASSUME NEW s \in Stages(pl) PROVE Turns(s) = 0 /\ Returns(s) = 0
    OBVIOUS
  <2>1. Within(0 + 0 - pl.with[s]) = 0
    BY <1>3 DEF Within
  <2> QED
    BY <1>1, <1>3, <2>1 DEF Turns, Returns
<1>7. DoneInv /\ ReturnedInv
  BY <1>5, <1>6 DEF DoneInv, ReturnedInv, InOrder
<1>8. TensorsInv
  <2> SUFFICES ASSUME NEW s \in Stages(pl), Works(s)
               PROVE  ~HasActivation(s) /\ ~(s < stage) /\ ~(phase # "toDevice")
    BY DEF TensorsInv
  <2>1. pl.with[s] = 0 /\ s \in Nat
    BY <1>1, <1>3 DEF Works
  <2>2. ~Received(s)
    <3>1. CASE s = 0
      BY <1>1, <3>1 DEF Received
    <3>2. CASE s # 0
      <4>1. s \in 1 .. pl.stages - 1 /\ s - 1 \in Stages(pl) /\ ~(s <= stage)
        <5>1. s \in 0 .. pl.stages - 1 /\ pl.stages \in Nat
          BY <1>3 DEF Stages
        <5>2. s \in 1 .. pl.stages - 1 /\ s - 1 \in 0 .. pl.stages - 1 /\ ~(s <= 0)
          BY <3>2, <5>1
        <5> QED
          BY <1>1, <5>2 DEF Stages
      <4>2. pl.with[s] = pl.with[s - 1] \/ pl.with[s] = pl.with[s - 1] + 1
        BY <1>2, <4>1 DEF Shape
      <4>3. pl.with[s] = pl.with[s - 1]
        BY <1>3, <2>1, <4>1, <4>2
      <4> QED
        BY <3>2, <4>1, <4>3 DEF Received
    <3> QED
      BY <3>1, <3>2
  <2> QED
    BY <1>1, <1>3, <2>1, <2>2 DEF HasActivation
<1>9. StashInv
  <2> SUFFICES ASSUME NEW a \in Stashed(pl), NEW d \in 1 .. Size(a) PROVE ~(d <= Len(done[a]))
    BY DEF StashInv
  <2> QED
    BY <1>3, <1>5
<1>10. RestoreInv
  <2> SUFFICES ASSUME NEW r \in pl.restores, r[2] < NS
               PROVE  restoreIndex[r] = Back(Size(r[1]), stashIndex[r[1]],
                                             Len(done[r[1]]) - Len(done[r[2]]))
    BY DEF RestoreInv
  <2>1. Len(done[r[1]]) - Len(done[r[2]]) = 0
    BY <1>3, <1>5
  <2>2. stashIndex[r[1]] \in Nat /\ restoreIndex[r] = stashIndex[r[1]]
    BY DEF Fresh
  <2>3. \A z : \A x \in Nat : Back(z, x, 0) = x
    BY DEF Back
  <2> QED
    BY <2>1, <2>2, <2>3
<1> QED
  BY <1>4, <1>7, <1>8, <1>9, <1>10 DEF RunInv

LEMMA EmptyHistory ==
  ASSUME NoHistory, pl' = pl
  PROVE  /\ done' = [s \in Stages(pl') |-> <<>>] /\ returned' = [s \in Stages(pl') |-> <<>>]
         /\ done' \in [Stages(pl) -> Seq(Nat)] /\ returned' \in [Stages(pl) -> Seq(Nat)]
<1>1. <<>> \in Seq(Nat)
  OBVIOUS
<1> QED
  BY <1>1 DEF NoHistory

LEMMA EndCycleStep == ASSUME IInv, EndCycle PROVE IInv'
<1>1. /\ status = "running" /\ phase = "copies" /\ phase' = "toDevice" /\ stage' = 0
      /\ UNCHANGED <<user, pl, program, steps, out, label, stash, stashIndex, restoreIndex, inputs>>
      /\ act' = [s \in Stages(pl) |->
                  IF s > 0 /\ pl.with[s] # pl.with[s - 1] THEN Copied(s) ELSE act[s]]
  BY DEF EndCycle, Copies
<1>2. /\ RunInv /\ Shape(user, pl, program) /\ Static
      /\ stage \in 0 .. pl.stages /\ stage \in Nat /\ cycle \in Nat /\ first \in Nat
      /\ act \in [Stages(pl) -> Nat] /\ out \in [Stages(pl) -> Nat] /\ label \in [Stages(pl) -> Nat]
      /\ stashIndex \in [Stashed(pl) -> Nat]
      /\ \A a \in Stashed(pl) : Size(a) \in Nat \ {0} /\ stashIndex[a] \in 0 .. Size(a) - 1
      /\ done \in [Stages(pl) -> Seq(Nat)] /\ returned \in [Stages(pl) -> Seq(Nat)]
  BY <1>1, RunningTypes
<1>3. /\ PlaceInv /\ DoneInv /\ ReturnedInv /\ TensorsInv /\ RestoreInv /\ StashInv
      /\ stage = pl.stages
  BY <1>1, <1>2 DEF RunInv, PlaceInv
<1>4. /\ N \in Nat \ {0} /\ NS \in 1 .. pl.stages /\ Fill \in Nat /\ pl.stages \in Nat
      /\ \A s \in Stages(pl) : s \in Nat /\ pl.with[s] \in Nat /\ s < stage /\ ~(stage <= s)
                               /\ s < pl.stages
      /\ \A s \in Stages(pl) : s < NS => pl.with[s] <= Fill
      /\ \A r \in pl.restores : r[1] \in Stages(pl) /\ r[2] \in Stages(pl) /\ r[1] \in Stashed(pl)
                                /\ r[1] < r[2]
      /\ NS' = NS /\ N' = N /\ Fill' = Fill /\ LastCycle' = LastCycle
      /\ LastCycle = N + Fill - 1
  <2>1. Shape(user, pl, program) /\ stage = pl.stages
    BY <1>2, <1>3
  <2>2. NS' = NS /\ N' = N /\ Fill' = Fill /\ LastCycle' = LastCycle
    BY <1>1 DEF N, NS, Fill, LastCycle
  <2> QED
    BY <2>1, <2>2 DEF Shape, N, NS, Fill, LastCycle, Stages
<1>5. \A s \in Stages(pl) : s > 0 => s - 1 \in Stages(pl)
  BY <1>4 DEF Stages
<1>6. act' \in [Stages(pl) -> Nat]
  BY <1>1, <1>2, <1>4, <1>5 DEF Copied, Sent
<1>7. loop \in Nat /\ TypeOK
  BY DEF IInv, TypeOK
<1>8. 0 \in 0 .. pl.stages /\ first + N \in Nat /\ cycle + 1 \in Nat /\ loop + 1 \in Nat
  BY <1>2, <1>4, <1>7
<1>9. cycle = LastCycle => \A s \in Stages(pl) : s < NS => Len(done[s]) = N
  <2> SUFFICES ASSUME cycle = LastCycle, NEW s \in Stages(pl), s < NS PROVE Turns(s) = N
    BY <1>3 DEF DoneInv
  <2>1. Turns(s) = Within(cycle + 1 - pl.with[s])
    BY <1>4 DEF Turns
  <2>2. cycle + 1 - pl.with[s] >= N /\ cycle + 1 - pl.with[s] \in Int
    <3>1. \A x \in Nat : x <= Fill => (N + Fill - 1) + 1 - x >= N /\ (N + Fill - 1) + 1 - x \in Int
      BY <1>4
    <3>2. pl.with[s] \in Nat /\ pl.with[s] <= Fill /\ cycle = N + Fill - 1
      BY <1>4
    <3> QED
      BY <3>1, <3>2
  <2> QED
    BY <1>4, <2>1, <2>2 DEF Within
<1>10. \A r \in pl.restores : cycle = LastCycle /\ r[2] < NS =>
          stashIndex[r[1]] \in Nat /\ restoreIndex[r] = stashIndex[r[1]]
  <2> SUFFICES ASSUME NEW r \in pl.restores, cycle = LastCycle, r[2] < NS
               PROVE  stashIndex[r[1]] \in Nat /\ restoreIndex[r] = stashIndex[r[1]]
    OBVIOUS
  <2>1. r[1] < NS
    BY <1>4
  <2>2. Len(done[r[1]]) - Len(done[r[2]]) = 0
    BY <1>4, <1>9, <2>1
  <2>3. restoreIndex[r] = Back(Size(r[1]), stashIndex[r[1]], 0)
    BY <1>3, <2>2 DEF RestoreInv
  <2>4. stashIndex[r[1]] \in Nat
    BY <1>2, <1>4
  <2> QED
    BY <2>3, <2>4 DEF Back
<1>11. CASE NextCycle
  <2>1. cycle < LastCycle /\ cycle' = cycle + 1 /\ UNCHANGED <<status, loop, first, done, returned>>
    BY <1>11, <1>1 DEF NextCycle
  <2>2. PlaceInv'
    BY <1>1, <1>2, <1>3, <1>4, <2>1 DEF PlaceInv
  <2>3. DoneInv'
    <3>1. \A s \in Stages(pl) : Turns(s)' = Turns(s)
      <4> SUFFICES ASSUME NEW s \in Stages(pl) PROVE Turns(s)' = Turns(s)
        OBVIOUS
      <4>1. ~(s < stage') /\ s < stage
        BY <1>1, <1>4
      <4>2. cycle' + 0 - pl.with[s] = cycle + 1 - pl.with[s]
        <5>1. \A x \in Nat : (cycle + 1) + 0 - x = cycle + 1 - x
          BY <1>2
        <5> QED
          BY <1>4, <2>1, <5>1
      <4> QED
        BY <1>1, <1>4, <4>1, <4>2 DEF Turns, Within
    <3> QED
      BY <1>1, <1>3, <2>1, <3>1 DEF DoneInv, InOrder, Stages
  <2>4. ReturnedInv'
    <3>1. \A s \in Stages(pl) : Returns(s)' = Returns(s)
      <4> SUFFICES ASSUME NEW s \in Stages(pl) PROVE Returns(s)' = Returns(s)
        OBVIOUS
      <4>1. cycle' + 0 - pl.with[s] = cycle + 1 - pl.with[s]
        <5>1. \A x \in Nat : (cycle + 1) + 0 - x = cycle + 1 - x
          BY <1>2
        <5> QED
          BY <1>4, <2>1, <5>1
      <4> QED
        BY <1>1, <1>4, <4>1 DEF Returns, Within
    <3> QED
      BY <1>1, <1>3, <2>1, <3>1 DEF ReturnedInv, InOrder, Stages
  <2>5. TensorsInv'
    <3> SUFFICES ASSUME NEW s \in Stages(pl), Works(s)', HasActivation(s)'
                 PROVE  act'[s] = Present(s)'
      <4>1. \A s \in Stages(pl) : ~(s < stage') /\ ~(phase' # "toDevice")
        BY <1>1, <1>4
      <4> QED
        BY <1>1, <4>1 DEF TensorsInv, Stages
    <3>1. Received(s)' /\ s \in Nat
      BY <1>1, <1>4 DEF HasActivation
    <3>2. s > 0 /\ pl.with[s] # pl.with[s - 1]
      BY <1>1, <3>1 DEF Received
    <3>3. s \in 1 .. pl.stages - 1 /\ s - 1 \in Stages(pl)
      BY <1>4, <1>5, <3>2
    <3>4. pl.with[s] = pl.with[s - 1] + 1 /\ pl.with[s - 1] \in Nat
      BY <1>2, <1>4, <3>2, <3>3 DEF Shape
    <3>5. s < NS /\ pl.with[s] <= cycle + 1 /\ cycle + 1 < pl.with[s] + N
      BY <1>1, <1>4, <2>1 DEF Works
    <3>6. Works(s - 1)
      <4>1. \A x \in Nat : x + 1 <= cycle + 1 /\ cycle + 1 < x + 1 + N => x <= cycle /\ cycle < x + N
        BY <1>2, <1>4
      <4>2. pl.with[s - 1] <= cycle /\ cycle < pl.with[s - 1] + N
        BY <3>4, <3>5, <4>1
      <4>3. s - 1 < NS
        BY <1>4, <3>1, <3>5
      <4> QED
        BY <4>2, <4>3 DEF Works
    <3>7. Present(s)' = Present(s - 1)
      <4>1. \A x \in Nat : first + (cycle + 1) - (x + 1) + 1 = first + cycle - x + 1
        BY <1>2
      <4> QED
        BY <1>1, <2>1, <3>4, <4>1 DEF Present
    <3>8. out[s - 1] = Present(s - 1)
      BY <1>3, <1>4, <3>3, <3>6 DEF TensorsInv
    <3>9. s - 1 \in pl.passed /\ ~user.recompute => act[s - 1] = Present(s - 1)
      <4> SUFFICES ASSUME s - 1 \in pl.passed, ~user.recompute PROVE HasActivation(s - 1)
        BY <1>3, <3>3, <3>6 DEF TensorsInv
      <4>1. ~isInplace(user, pl, s - 1)
        BY DEF isInplace
      <4> QED
        BY <1>4, <3>3, <4>1 DEF HasActivation
    <3>10. act'[s] = Sent(s - 1)
      BY <1>1, <3>2 DEF Copied
    <3> QED
      BY <3>7, <3>8, <3>9, <3>10 DEF Sent
  <2>6. StashInv' /\ RestoreInv'
    BY <1>1, <2>1, SameIndices
  <2>7. TypeOK' /\ Static' /\ InputsInv'
    BY <1>1, <1>2, <1>6, <1>7, <1>8, <2>1, SameTypes
  <2> QED
    BY <1>1, <2>1, <2>2, <2>3, <2>4, <2>5, <2>6, <2>7 DEF IInv, RunInv
<1>12. CASE NextLoop
  <2>1. /\ cycle = LastCycle /\ cycle' = 0 /\ loop' = loop + 1 /\ first' = first + N
        /\ NoHistory /\ status' = status
    BY <1>12 DEF NextLoop
  <2>2. /\ done' = [s \in Stages(pl') |-> <<>>] /\ returned' = [s \in Stages(pl') |-> <<>>]
        /\ done' \in [Stages(pl) -> Seq(Nat)] /\ returned' \in [Stages(pl) -> Seq(Nat)]
    BY <1>1, <2>1, EmptyHistory
  <2>3. TypeOK' /\ Static' /\ InputsInv'
    BY <1>1, <1>2, <1>6, <1>7, <1>8, <2>1, <2>2, SameTypes
  <2>4. Fresh'
    BY <1>1, <1>4, <1>10, <2>1, <2>2, <2>3 DEF Fresh
  <2>5. RunInv'
    BY <2>4, FreshLoop, PTL
  <2> QED
    BY <1>1, <2>1, <2>3, <2>5 DEF IInv
<1>13. CASE Return
  <2>1. /\ cycle = LastCycle /\ status' = "idle" /\ first' = first + N
        /\ UNCHANGED <<cycle, loop, done, returned>>
    BY <1>13 DEF Return
  <2>2. TypeOK' /\ Static' /\ InputsInv'
    BY <1>1, <1>2, <1>6, <1>7, <1>8, <2>1, SameTypes
  <2>3. IdleInv'
    <3> SUFFICES ASSUME ~user.fwdOnly, NEW r \in pl.restores
                 PROVE  restoreIndex[r] = stashIndex[r[1]]
      BY <1>1 DEF IdleInv
    <3>1. NS = pl.stages
      BY <1>2 DEF Static, NS, NumStages
    <3> QED
      BY <1>4, <1>10, <2>1, <3>1
  <2> QED
    BY <2>1, <2>2, <2>3 DEF IInv
<1> QED
  BY <1>11, <1>12, <1>13 DEF EndCycle

LEMMA StartRunStep == ASSUME IInv, NEW prog \in {"train", "fwd"}, StartRun(prog) PROVE IInv'
<1>1. /\ status = "idle" /\ steps < MaxSteps /\ (prog = "fwd" => user.fwdOnly)
      /\ program' = prog /\ status' = "running" /\ steps' = steps + 1 /\ loop' = 1
      /\ cycle' = 0 /\ phase' = "toDevice" /\ stage' = 0 /\ ZeroIndices /\ NoHistory
      /\ UNCHANGED <<user, pl, first, act, out, label, stash, inputs>>
  BY DEF StartRun
<1>2. TypeOK /\ Static /\ InputsInv /\ IdleInv
  BY <1>1 DEF IInv
<1>3. Shape(user, pl, program)
  BY <1>1, <1>2, ShapeNow
<1>4. /\ done' = [s \in Stages(pl') |-> <<>>] /\ returned' = [s \in Stages(pl') |-> <<>>]
      /\ done' \in [Stages(pl) -> Seq(Nat)] /\ returned' \in [Stages(pl) -> Seq(Nat)]
  BY <1>1, EmptyHistory
<1>5. \A r \in pl.restores : r[1] \in Stashed(pl)
  BY <1>3 DEF Shape
<1>6. /\ stash' = stash /\ stashIndex \in [Stashed(pl) -> Nat] /\ restoreIndex \in [pl.restores -> Nat]
      /\ DOMAIN stash = Stashed(pl)
      /\ \A a \in Stashed(pl) : /\ stash[a] \in [0 .. getStashSize(pl, a) - 1 -> Nat]
                                /\ getStashSize(pl, a) \in Nat \ {0}
                                /\ stashIndex[a] \in DOMAIN stash[a] /\ 0 \in DOMAIN stash[a]
      /\ \A r \in pl.restores : restoreIndex[r] \in DOMAIN stash[r[1]]
  <2>1. \A a \in Stashed(pl) : getStashSize(pl, a) \in Nat \ {0}
    BY <1>3 DEF Shape
  <2>2. \A a \in Stashed(pl) : 0 \in 0 .. getStashSize(pl, a) - 1
    BY <2>1
  <2> QED
    BY <1>1, <1>2, <2>1, <2>2 DEF TypeOK
<1>7. /\ stashIndex' \in [Stashed(pl) -> Nat] /\ restoreIndex' \in [pl.restores -> Nat]
      /\ \A a \in Stashed(pl) : stashIndex'[a] \in DOMAIN stash[a]
      /\ \A r \in pl.restores : /\ restoreIndex'[r] \in DOMAIN stash[r[1]]
                                /\ restoreIndex'[r] = stashIndex'[r[1]]
  <2>1. CASE user.fwdOnly
    <3>1. stashIndex' = [a \in Stashed(pl) |-> 0] /\ restoreIndex' = [r \in pl.restores |-> 0]
      BY <1>1, <2>1 DEF ZeroIndices
    <3> QED
      BY <1>5, <1>6, <3>1
  <2>2. CASE ~user.fwdOnly
    <3>1. stashIndex' = stashIndex /\ restoreIndex' = restoreIndex
      BY <1>1, <2>2 DEF ZeroIndices
    <3> QED
      BY <1>2, <1>6, <2>2, <3>1 DEF IdleInv
  <2> QED
    BY <2>1, <2>2
<1>8. Static' /\ InputsInv'
  BY <1>1, <1>2 DEF Static, InputsInv
<1>9. TypeOK'
  <2>1. pl.stages \in Nat /\ 0 \in 0 .. pl.stages
    BY <1>3 DEF Shape
  <2>2. {act, out, label} \subseteq [Stages(pl) -> Nat] /\ steps + 1 \in 0 .. MaxSteps
        /\ first \in Nat /\ inputs \subseteq Nat /\ user \in Pipelines
    BY <1>1, <1>2, MaxStepsAssumption DEF TypeOK
  <2>3. Stages(pl)' = Stages(pl) /\ Stashed(pl)' = Stashed(pl)
    BY <1>1 DEF Stages, Stashed
  <2> QED
    BY <1>1, <1>4, <1>6, <1>7, <2>1, <2>2, <2>3 DEF TypeOK
<1>10. Fresh'
  BY <1>1, <1>4, <1>5, <1>7, <1>8 DEF Fresh
<1>11. RunInv'
  BY <1>10, FreshLoop, PTL
<1> QED
  BY <1>1, <1>8, <1>9, <1>11 DEF IInv

LEMMA TransformStep == ASSUME IInv, Transform PROVE IInv'
<1>1. TypeOK /\ Static /\ InputsInv /\ status = "built" /\ stage = 0
  BY DEF IInv, Static, Transform
<1>2. Static'
  BY <1>1, StaticStep DEF Next
<1>3. PICK w \in [Stages(user) -> Stages(user)] :
         LET q == Transformed(user, w)
         IN  /\ pl' = q
             /\ status' \in {"refused", "broken", "idle"}
             /\ act' = [s \in Stages(q) |-> 0]
             /\ out' = [s \in Stages(q) |-> 0]
             /\ label' = [s \in Stages(q) |-> 0]
             /\ stash' = [a \in Stashed(q) |-> [i \in 0 .. getStashSize(q, a) - 1 |-> 0]]
             /\ stashIndex' = [a \in Stashed(q) |-> 0]
             /\ restoreIndex' = [r \in q.restores |-> 0]
             /\ done' = [s \in Stages(q) |-> <<>>]
             /\ returned' = [s \in Stages(q) |-> <<>>]
  BY DEF Transform
<1>4. /\ UNCHANGED <<user, program, steps, loop, cycle, phase, stage, first, inputs>>
      /\ status' \in {"refused", "broken", "idle"}
      /\ act' = [s \in Stages(pl') |-> 0] /\ out' = [s \in Stages(pl') |-> 0]
      /\ label' = [s \in Stages(pl') |-> 0]
      /\ stash' = [a \in Stashed(pl') |-> [i \in 0 .. getStashSize(pl', a) - 1 |-> 0]]
      /\ stashIndex' = [a \in Stashed(pl') |-> 0]
      /\ restoreIndex' = [r \in pl'.restores |-> 0]
      /\ done' = [s \in Stages(pl') |-> <<>>] /\ returned' = [s \in Stages(pl') |-> <<>>]
  BY <1>3 DEF Transform
<1>5. Good(user, pl')
  BY <1>2, <1>4 DEF Static
<1>6. \A r \in pl'.restores : r[1] \in Stashed(pl') /\ getStashSize(pl', r[1]) \in Nat \ {0}
  BY <1>5, StashSizes
<1>7. \A a \in Stashed(pl') : getStashSize(pl', a) \in Nat \ {0}
  <2> SUFFICES ASSUME NEW a \in Stashed(pl') PROVE getStashSize(pl', a) \in Nat \ {0}
    OBVIOUS
  <2>1. PICK r \in pl'.restores : a = r[1]
    BY DEF Stashed
  <2> QED
    BY <1>6, <2>1
<1>8. /\ \A a \in Stashed(pl') : /\ stash'[a] \in [0 .. getStashSize(pl', a) - 1 -> Nat]
                                 /\ stashIndex'[a] \in DOMAIN stash'[a] /\ 0 \in DOMAIN stash'[a]
      /\ \A r \in pl'.restores : restoreIndex'[r] \in DOMAIN stash'[r[1]]
  <2>1. \A a \in Stashed(pl') : 0 \in 0 .. getStashSize(pl', a) - 1
    BY <1>7
  <2>2. \A a \in Stashed(pl') : stash'[a] = [i \in 0 .. getStashSize(pl', a) - 1 |-> 0]
                                /\ stashIndex'[a] = 0
    BY <1>4
  <2>3. \A r \in pl'.restores : restoreIndex'[r] = 0
    BY <1>4
  <2>4. \A n : [i \in 0 .. n |-> 0] \in [0 .. n -> Nat] /\ DOMAIN [i \in 0 .. n |-> 0] = 0 .. n
    OBVIOUS
  <2>5. ASSUME NEW a \in Stashed(pl')
        PROVE  /\ stash'[a] \in [0 .. getStashSize(pl', a) - 1 -> Nat]
               /\ stashIndex'[a] \in DOMAIN stash'[a] /\ 0 \in DOMAIN stash'[a]
    BY <2>1, <2>2, <2>4, ZenonT(30)
  <2> QED
    BY <1>6, <2>3, <2>5
<1>9. {done', returned'} \subseteq [Stages(pl') -> Seq(Nat)]
  <2>1. <<>> \in Seq(Nat)
    OBVIOUS
  <2> QED
    BY <1>4, <2>1
<1>10. TypeOK'
  <2>1. pl'.stages \in Nat /\ 0 \in 0 .. pl'.stages
    BY <1>5 DEF Good, Numbering
  <2>2. {act', out', label'} \subseteq [Stages(pl') -> Nat]
        /\ DOMAIN stash' = Stashed(pl') /\ stashIndex' \in [Stashed(pl') -> Nat]
        /\ restoreIndex' \in [pl'.restores -> Nat]
    BY <1>4
  <2> QED
    BY <1>1, <1>4, <1>8, <1>9, <2>1, <2>2 DEF TypeOK
<1>11. IdleInv'
  <2>1. \A r \in pl'.restores : restoreIndex'[r] = 0 /\ stashIndex'[r[1]] = 0
    BY <1>4, <1>6
  <2> QED
    BY <2>1 DEF IdleInv
<1>12. InputsInv'
  BY <1>1, <1>4 DEF InputsInv
<1> QED
  BY <1>2, <1>4, <1>10, <1>11, <1>12 DEF IInv

LEMMA InitIInv == Init => IInv
<1> SUFFICES ASSUME Init PROVE IInv
  OBVIOUS
<1>1. Static
  BY InitStatic
<1>2. TypeOK
  <2>1. MaxSteps \in Nat /\ 0 \in 0 .. MaxSteps /\ 0 \in 0 .. 0
    BY MaxStepsAssumption
  <2>2. pl.stages = 0
    BY DEF Init
  <2> QED
    BY <2>1, <2>2 DEF Init, TypeOK
<1>3. InputsInv
  BY DEF Init, InputsInv
<1> QED
  BY <1>1, <1>2, <1>3 DEF Init, IInv

LEMMA IInvStep == IInv /\ [Next]_vars => IInv'
<1> SUFFICES ASSUME IInv, [Next]_vars PROVE IInv'
  OBVIOUS
<1>1. CASE Transform
  BY <1>1, TransformStep
<1>2. CASE \E prog \in {"train", "fwd"} : StartRun(prog)
  BY <1>2, StartRunStep
<1>3. CASE ToDevice
  BY <1>3, ToDeviceStep
<1>4. CASE Main
  BY <1>4, MainStep
<1>5. CASE SkipMain
  BY <1>5, SkipMainStep
<1>6. CASE ToHost
  BY <1>6, ToHostStep
<1>7. CASE EndCycle
  BY <1>7, EndCycleStep
<1>8. CASE UNCHANGED vars
  <2>1. /\ UNCHANGED <<user, pl, status, program, steps, loop, cycle, phase, stage, first>>
        /\ UNCHANGED <<act, out, label, stash, stashIndex, restoreIndex, inputs, done, returned>>
    BY <1>8 DEF vars, place, tensors, history
  <2>2. TypeOK' <=> TypeOK
    BY <2>1 DEF TypeOK, Stages, Stashed
  <2>3. (Static' <=> Static) /\ (InputsInv' <=> InputsInv) /\ (IdleInv' <=> IdleInv)
    BY <2>1 DEF Static, InputsInv, IdleInv
  <2>4. NS' = NS /\ N' = N /\ LastCycle' = LastCycle /\ \A a : Size(a)' = Size(a)
    BY <2>1 DEF NS, N, Fill, LastCycle, Size
  <2>5. (PlaceInv' <=> PlaceInv) /\ (StashInv' <=> StashInv) /\ (RestoreInv' <=> RestoreInv)
    BY <2>1, <2>4 DEF PlaceInv, StashInv, RestoreInv, Stashed
  <2>6. (DoneInv' <=> DoneInv) /\ (ReturnedInv' <=> ReturnedInv)
    BY <2>1, <2>4 DEF DoneInv, ReturnedInv, Turns, Returns, Within, InOrder, Stages
  <2>7. TensorsInv' <=> TensorsInv
    BY <2>1, <2>4 DEF TensorsInv, Works, HasActivation, Received, Present, Stages
  <2> QED
    BY <2>1, <2>2, <2>3, <2>5, <2>6, <2>7 DEF IInv, RunInv
<1> QED
  BY <1>1, <1>2, <1>3, <1>4, <1>5, <1>6, <1>7, <1>8 DEF Next

(* The invariant that says of each stage how many turns it had, which      *)
(* micro-batch each of its tensors belongs to, and what lies where in the  *)
(* stashes, for all models, micro-batch counts and sequences of runs.      *)
THEOREM Invariance == Spec => []IInv
BY InitIInv, IInvStep, PTL DEF Spec

(* Types; the indices stay within their stashes.                           *)
THEOREM TypeCorrect == Spec => []TypeOK
<1>1. IInv => TypeOK
  BY DEF IInv
<1> QED
  BY <1>1, Invariance, PTL

(* A stage works on tensors of one micro-batch only.                       *)
THEOREM MicroBatchesMeet == Spec => []SameMicroBatch
<1>1. IInv => SameMicroBatch
  BY DEF IInv, InputsInv, SameMicroBatch
<1> QED
  BY <1>1, Invariance, PTL

(* Each stage works through all micro-batches of the inner loop, in order. *)
THEOREM NoneMissed == Spec => []EachMicroBatchOnce
<1>1. IInv => EachMicroBatchOnce
  <2> SUFFICES ASSUME IInv, status = "running"
               PROVE  /\ \A s \in Stages(pl) : InOrder(done[s])
                      /\ phase = "copies" /\ cycle = LastCycle =>
                            \A s \in 0 .. NS - 1 : Len(done[s]) = N
    BY DEF EachMicroBatchOnce
  <2>1. RunInv /\ Shape(user, pl, program)
    BY RunningTypes
  <2>2. DoneInv /\ PlaceInv
    BY <2>1 DEF RunInv
  <2>3. ASSUME phase = "copies", cycle = LastCycle, NEW s \in 0 .. NS - 1
        PROVE  Len(done[s]) = N
    <3>1. /\ N \in Nat \ {0} /\ NS \in 1 .. pl.stages /\ Fill \in Nat /\ pl.stages \in Nat
          /\ stage = pl.stages
      BY <2>1, <2>2, <2>3 DEF Shape, N, NS, Fill, PlaceInv
    <3>2. s \in Stages(pl) /\ s < stage /\ s < NS
      BY <3>1 DEF Stages
    <3>3. pl.with[s] \in Nat /\ pl.with[s] <= Fill
      BY <2>1, <3>2 DEF Shape, Fill, NS
    <3>4. \A x \in Nat : x <= Fill => Within((N + Fill - 1) + 1 - x) = N
      BY <3>1 DEF Within
    <3>5. Turns(s) = Within((N + Fill - 1) + 1 - pl.with[s])
      BY <2>3, <3>2 DEF Turns, LastCycle
    <3> QED
      BY <2>2, <3>2, <3>3, <3>4, <3>5 DEF DoneInv
  <2> QED
    BY <2>2, <2>3 DEF DoneInv
<1> QED
  BY <1>1, Invariance, PTL

(* The anchors return the micro-batches in order.                          *)
THEOREM AnchorsReturnInOrder == Spec => []AnchorsInOrder
<1>1. IInv => AnchorsInOrder
  <2> SUFFICES ASSUME IInv, NEW s \in DOMAIN returned, status = "running"
               PROVE  InOrder(returned[s])
    BY DEF AnchorsInOrder
  <2>1. s \in Stages(pl) /\ ReturnedInv
    BY RunningTypes DEF RunInv
  <2> QED
    BY <2>1 DEF ReturnedInv
<1> QED
  BY <1>1, Invariance, PTL
=============================================================================
