-------------------------- MODULE GradGrowerProofs --------------------------
(***************************************************************************)
(* Proofs about GradGrower for all graphs: exactly the gradients that      *)
(* exist by their definition are grown, each once and from all its edges,  *)
(* and the internal errors have a single cause.                            *)
(***************************************************************************)
EXTENDS GradGrower, FiniteSetTheorems, WellFoundedInduction, TLAPS

(***************************************************************************)
(* Sequences without repetition, and the sets of their elements.           *)
(***************************************************************************)
Distinct(s) == \A i, j \in DOMAIN s : s[i] = s[j] => i = j

LEMMA RangeInSet ==
  ASSUME NEW S, NEW s \in Seq(S)
  PROVE  Range(s) \subseteq S /\ (Range(s) = {} <=> s = <<>>)
BY DEF Range

LEMMA AppendFacts ==
  ASSUME NEW S, NEW s \in Seq(S), NEW x \in S
  PROVE  /\ Append(s, x) \in Seq(S)
         /\ Range(Append(s, x)) = Range(s) \cup {x}
         /\ Distinct(s) /\ x \notin Range(s) => Distinct(Append(s, x))
<1>1. /\ Append(s, x) \in Seq(S) /\ DOMAIN Append(s, x) = 1 .. Len(s) + 1
      /\ DOMAIN s = 1 .. Len(s) /\ Len(s) \in Nat
      /\ Append(s, x)[Len(s) + 1] = x
      /\ \A i \in DOMAIN s : Append(s, x)[i] = s[i]
  OBVIOUS
<1>2. Range(Append(s, x)) \subseteq Range(s) \cup {x}
  BY <1>1 DEF Range
<1>3. Range(s) \cup {x} \subseteq Range(Append(s, x))
  <2>1. Len(s) + 1 \in DOMAIN Append(s, x) /\ DOMAIN s \subseteq DOMAIN Append(s, x)
    BY <1>1
  <2> QED BY <1>1, <2>1 DEF Range
<1>4. Distinct(s) /\ x \notin Range(s) => Distinct(Append(s, x))
  BY <1>1 DEF Distinct, Range
<1> QED BY <1>1, <1>2, <1>3, <1>4

LEMMA TailFacts ==
  ASSUME NEW S, NEW s \in Seq(S), s # <<>>
  PROVE  /\ Head(s) \in S /\ Tail(s) \in Seq(S)
         /\ Range(s) = Range(Tail(s)) \cup {Head(s)}
         /\ Distinct(s) => Distinct(Tail(s)) /\ Head(s) \notin Range(Tail(s))
<1>1. /\ Head(s) = s[1] /\ Head(s) \in S /\ Tail(s) \in Seq(S)
      /\ DOMAIN s = 1 .. Len(s) /\ Len(s) \in Nat /\ Len(s) >= 1
      /\ DOMAIN Tail(s) = 1 .. Len(s) - 1
      /\ \A i \in DOMAIN Tail(s) : Tail(s)[i] = s[i + 1]
  OBVIOUS
<1>2. Range(s) \subseteq Range(Tail(s)) \cup {Head(s)}
  <2> SUFFICES ASSUME NEW i \in DOMAIN s, i # 1 PROVE s[i] \in Range(Tail(s))
    BY <1>1 DEF Range
  <2>1. i - 1 \in DOMAIN Tail(s) /\ Tail(s)[i - 1] = s[i]
    BY <1>1
  <2> QED BY <2>1 DEF Range
<1>3. Range(Tail(s)) \cup {Head(s)} \subseteq Range(s)
  <2>1. 1 \in DOMAIN s /\ \A i \in DOMAIN Tail(s) : i + 1 \in DOMAIN s
    BY <1>1
  <2> QED BY <1>1, <2>1 DEF Range
<1>4. Distinct(s) => Distinct(Tail(s)) /\ Head(s) \notin Range(Tail(s))
  BY <1>1 DEF Distinct, Range
<1> QED BY <1>1, <1>2, <1>3, <1>4

(***************************************************************************)
(* The iterates of a monotone function on the subsets of a finite set come *)
(* to rest after as many steps as the set has elements.                    *)
(***************************************************************************)
(* Induction over the natural numbers, for sets.                           *)
LEMMA SetInduction ==
  ASSUME NEW S, 0 \in S, \A n \in Nat : n \in S => n + 1 \in S
  PROVE  Nat \subseteq S
<1> SUFFICES ASSUME Nat \ S # {} PROVE FALSE
  OBVIOUS
<1>1. IsWellFoundedOn(OpToRel(<, Nat), Nat)
  BY NatLessThanWellFounded
<1>2. PICK x \in Nat \ S :
        \A y \in Nat \ S : ~ (<< y, x >> \in OpToRel(<, Nat))
  BY <1>1, WFMin
<1>3. x \in Nat /\ x \notin S
  BY Zenon
<1>4. x # 0
  BY <1>3
<1>5. x - 1 \in Nat /\ x - 1 < x
  BY <1>3, <1>4
<1>6. x - 1 \notin S
  BY <1>3, <1>5
<1>7. << x - 1, x >> \in OpToRel(<, Nat)
  BY <1>3, <1>5 DEF OpToRel
<1> QED
  BY <1>2, <1>5, <1>6, <1>7

Iterates(A, F, N, r) ==
    r = [n \in 0 .. N |-> IF n = 0 THEN A ELSE F[r[n - 1]]]

LEMMA IteratesExist ==
  ASSUME NEW A, NEW F, NEW N \in Nat
  PROVE  \E r : Iterates(A, F, N, r)
<1> DEFINE S == {m \in Nat : \E r : Iterates(A, F, m, r)}
<1>1. 0 \in S
  <2> DEFINE r == [n \in 0 .. 0 |-> A]
  <2>1. r = [n \in 0 .. 0 |-> IF n = 0 THEN A ELSE F[r[n - 1]]]
    OBVIOUS
  <2> QED BY <2>1 DEF Iterates
<1>2. ASSUME NEW m \in Nat, m \in S PROVE m + 1 \in S
  <2>1. PICK r : Iterates(A, F, m, r)
    BY <1>2
  <2>2. \A n \in 0 .. m : r[n] = IF n = 0 THEN A ELSE F[r[n - 1]]
    BY <2>1 DEF Iterates
  <2> DEFINE q == [n \in 0 .. m + 1 |-> IF n <= m THEN r[n] ELSE F[r[m]]]
  <2>3. ASSUME NEW n \in 0 .. m + 1
        PROVE  q[n] = IF n = 0 THEN A ELSE F[q[n - 1]]
    <3>1. CASE n = 0
      BY <2>2, <3>1
    <3>2. CASE n # 0
      <4>1. n - 1 \in 0 .. m + 1 /\ n - 1 <= m
        BY <3>2
      <4>2. q[n - 1] = r[n - 1]
        BY <4>1
      <4>3. q[n] = F[r[n - 1]]
        BY <2>2, <3>2
      <4> QED BY <3>2, <4>2, <4>3
    <3> QED BY <3>1, <3>2
  <2>4. q = [n \in 0 .. m + 1 |-> q[n]]
    OBVIOUS
  <2> HIDE DEF q
  <2>5. Iterates(A, F, m + 1, q)
    BY <2>3, <2>4 DEF Iterates
  <2> QED BY <2>5
<1> HIDE DEF S
<1>3. Nat \subseteq S
  BY <1>1, <1>2, SetInduction
<1> QED BY <1>3 DEF S

GrowsFrom(A, L, F) ==
    /\ F \in [SUBSET L -> SUBSET L]
    /\ \A X, Y \in SUBSET L : X \subseteq Y => F[X] \subseteq F[Y]
    /\ A \in SUBSET L /\ A \subseteq F[A]

LEMMA IteratesConverge ==
  ASSUME NEW L, IsFiniteSet(L), NEW F, NEW A, GrowsFrom(A, L, F),
         NEW r, Iterates(A, F, Cardinality(L), r)
  PROVE  /\ \A n \in 0 .. Cardinality(L) : r[n] \in SUBSET L
         /\ F[r[Cardinality(L)]] = r[Cardinality(L)]
<1> DEFINE N == Cardinality(L)
           Good(n) == /\ r[n] \in SUBSET L /\ r[n] \subseteq F[r[n]]
                      /\ F[r[n]] = r[n] \/ Cardinality(r[n]) >= n
           S == {n \in Nat : n <= N => Good(n)}
<1>0. /\ F \in [SUBSET L -> SUBSET L]
      /\ \A X, Y \in SUBSET L : X \subseteq Y => F[X] \subseteq F[Y]
      /\ A \in SUBSET L /\ A \subseteq F[A]
  BY DEF GrowsFrom
<1> USE <1>0
<1>1. N \in Nat
  BY FS_CardinalityType
<1>2. \A n \in 0 .. N : r[n] = IF n = 0 THEN A ELSE F[r[n - 1]]
  BY DEF Iterates
<1> HIDE DEF N
<1>3. \A X \in SUBSET L : IsFiniteSet(X) /\ Cardinality(X) \in Nat
  BY FS_Subset, FS_CardinalityType
<1>4. 0 \in S
  BY <1>1, <1>2, <1>3
<1>5. ASSUME NEW n \in Nat, n \in S PROVE n + 1 \in S
  <2> SUFFICES ASSUME n + 1 <= N PROVE Good(n + 1)
    OBVIOUS
  <2>1. Good(n) /\ r[n + 1] = F[r[n]]
    BY <1>1, <1>2, <1>5
  <2>2. PICK X \in SUBSET L, Y \in SUBSET L : X = r[n] /\ Y = r[n + 1]
    BY <2>1
  <2>3. X \subseteq Y /\ Y = F[X] /\ Y \subseteq F[Y]
    BY <2>1, <2>2
  <2>4. CASE F[X] = X
    BY <2>2, <2>3, <2>4
  <2>5. CASE F[X] # X
    <3>1. Cardinality(X) >= n
      BY <2>1, <2>2, <2>5
    <3>2. IsFiniteSet(Y) /\ X \in SUBSET Y /\ X # Y
      BY <1>3, <2>3, <2>5
    <3>3. Cardinality(X) <= Cardinality(Y) /\ Cardinality(X) # Cardinality(Y)
      BY <3>2, FS_Subset
    <3>4. Cardinality(Y) >= n + 1
      BY <1>3, <3>1, <3>3
    <3> QED BY <2>2, <2>3, <3>4
  <2> QED BY <2>4, <2>5
<1> HIDE DEF S, Good
<1>6. Nat \subseteq S
  BY <1>4, <1>5, SetInduction
<1>7. \A n \in 0 .. N : Good(n)
  BY <1>1, <1>6 DEF S
<1>8. Good(N)
  BY <1>1, <1>7
<1>9. F[r[N]] = r[N]
  <2>1. CASE Cardinality(r[N]) >= N
    <3>1. r[N] \in SUBSET L /\ r[N] \subseteq F[r[N]] /\ F[r[N]] \in SUBSET L
      BY <1>8 DEF Good
    <3>2. Cardinality(r[N]) <= N /\ (N = Cardinality(r[N]) => L = r[N])
      BY <3>1, FS_Subset DEF N
    <3>3. L = r[N]
      BY <1>1, <1>3, <2>1, <3>1, <3>2
    <3> QED BY <3>1, <3>3
  <2> QED BY <1>8, <2>1 DEF Good
<1> QED BY <1>7, <1>9 DEF Good, N

(***************************************************************************)
(* The paths to the loss.                                                  *)
(***************************************************************************)
LEMMA ToLossFacts ==
  ASSUME NEW g, IsFiniteSet(g.ops)
  PROVE  /\ ToLoss(g) \subseteq g.ops
         /\ ToLoss(g) = LastOps(g) \cup Producing(g, ToLoss(g))
<1> DEFINE L == g.ops
           N == Cardinality(L)
           F == [X \in SUBSET L |-> LastOps(g) \cup Producing(g, X)]
           IsVisited(v) == v = [n \in 0 .. N |->
              IF n = 0 THEN LastOps(g) ELSE LastOps(g) \cup Producing(g, v[n - 1])]
           v == CHOOSE x : IsVisited(x)
<1>1. N \in Nat
  BY FS_CardinalityType
<1>2. /\ \A X \in SUBSET L : F[X] = LastOps(g) \cup Producing(g, X)
      /\ LastOps(g) \in SUBSET L /\ \A X : Producing(g, X) \in SUBSET L
  BY DEF LastOps, Producing
<1>3. F \in [SUBSET L -> SUBSET L]
  BY <1>2
<1>4. \A X, Y \in SUBSET L : X \subseteq Y => F[X] \subseteq F[Y]
  <2> SUFFICES ASSUME NEW X \in SUBSET L, NEW Y \in SUBSET L, X \subseteq Y
               PROVE  Producing(g, X) \subseteq Producing(g, Y)
    BY <1>2
  <2> QED BY DEF Producing
<1>5. LastOps(g) \subseteq F[LastOps(g)]
  BY <1>2
<1> HIDE DEF F
<1>a. GrowsFrom(LastOps(g), L, F)
  BY <1>2, <1>3, <1>4, <1>5 DEF GrowsFrom
<1>6. \E x : IsVisited(x)
  <2>1. PICK x : Iterates(LastOps(g), F, N, x)
    BY <1>1, IteratesExist
  <2>2. \A n \in 0 .. N : x[n] \in SUBSET L
    BY <1>a, <2>1, IteratesConverge
  <2>3. \A n \in 0 .. N : n # 0 => n - 1 \in 0 .. N
    BY <1>1
  <2>4. \A n \in 0 .. N : n # 0 =>
           F[x[n - 1]] = LastOps(g) \cup Producing(g, x[n - 1])
    BY <1>2, <2>2, <2>3
  <2>5. x = [n \in 0 .. N |-> IF n = 0 THEN LastOps(g) ELSE F[x[n - 1]]]
    BY <2>1 DEF Iterates
  <2>6. IsVisited(x)
    BY <2>4, <2>5
  <2> QED BY <2>6
<1>7. IsVisited(v)
  BY <1>6
<1>8. ToLoss(g) = v[N]
  BY DEF ToLoss
<1> HIDE DEF v
<1>9. \A n \in 0 .. N : v[n] \in SUBSET L
  <2>1. \A n \in 0 .. N : v[n] = IF n = 0 THEN LastOps(g)
                                 ELSE LastOps(g) \cup Producing(g, v[n - 1])
    BY <1>7
  <2> QED BY <1>2, <2>1
<1>10. Iterates(LastOps(g), F, N, v)
  <2>1. \A n \in 0 .. N : n # 0 => n - 1 \in 0 .. N
    BY <1>1
  <2>2. \A n \in 0 .. N : n # 0 =>
           F[v[n - 1]] = LastOps(g) \cup Producing(g, v[n - 1])
    BY <1>2, <1>9, <2>1
  <2> QED BY <1>7, <2>2 DEF Iterates
<1>11. F[v[N]] = v[N]
  BY <1>a, <1>10, IteratesConverge
<1> QED BY <1>1, <1>2, <1>8, <1>9, <1>11

(***************************************************************************)
(* The graph, which does not change.                                       *)
(***************************************************************************)
GraphOK == graph \in Graphs /\ toLoss = ToLoss(graph)

(* The outputs of an op that are on the path to the loss.                  *)
Outputs(o) == graph.outs[o] \cap ToLossTensors

LEMMA EdgesTyped ==
  ASSUME NEW o, NEW e \in EdgesOf(graph, o)
  PROVE  /\ e[1] = o /\ e = <<o, e[2]>> /\ e[2] \in DOMAIN graph.ins[o]
         /\ Input(graph, e) = graph.ins[o][e[2]]
BY DEF EdgesOf, Input

LEMMA LossEdges ==
  ASSUME NEW t, NEW e
  PROVE  e \in ToLossEdges(t) <=>
           \E o \in toLoss : e \in EdgesOf(graph, o) /\ Input(graph, e) = t
BY DEF ToLossEdges

(* Edges and inputs are the same thing.                                    *)
LEMMA InputsAreEdges ==
  ASSUME NEW t, NEW c \in toLoss
  PROVE  /\ t \in Range(graph.ins[c]) <=> \E e \in ToLossEdges(t) : e[1] = c
         /\ \A e \in ToLossEdges(t) : e[1] \in toLoss
<1>1. ASSUME t \in Range(graph.ins[c])
      PROVE  \E e \in ToLossEdges(t) : e[1] = c
  <2>1. PICK i \in DOMAIN graph.ins[c] : graph.ins[c][i] = t
    BY <1>1 DEF Range
  <2>2. <<c, i>> \in EdgesOf(graph, c) /\ Input(graph, <<c, i>>) = t
    BY <2>1 DEF EdgesOf, Input
  <2> QED BY <2>2, LossEdges
<1>2. ASSUME NEW e \in ToLossEdges(t)
      PROVE  e[1] \in toLoss /\ t \in Range(graph.ins[e[1]])
  <2>1. PICK o \in toLoss : e \in EdgesOf(graph, o) /\ Input(graph, e) = t
    BY LossEdges
  <2> QED BY <2>1, EdgesTyped DEF Range
<1> QED BY <1>1, <1>2

LEMMA FiniteEdges ==
  ASSUME GraphOK, NEW t
  PROVE  IsFiniteSet(ToLossEdges(t))
<1>1. IsGraph(graph) /\ toLoss \subseteq graph.ops /\ IsFiniteSet(graph.ops)
  BY GraphsAssumption, ToLossFacts DEF GraphOK, IsGraph
<1>2. ASSUME NEW o \in toLoss PROVE IsFiniteSet(EdgesOf(graph, o))
  <2>1. PICK n \in Nat : DOMAIN graph.ins[o] = 1 .. n
    BY <1>1 DEF IsGraph
  <2> DEFINE f == [i \in 1 .. n |-> <<o, i>>]
  <2>2. f \in Surjection(1 .. n, EdgesOf(graph, o))
    BY <2>1 DEF Surjection, EdgesOf
  <2>3. IsFiniteSet(1 .. n)
    BY FS_Interval
  <2> HIDE DEF f
  <2> QED BY <2>2, <2>3, FS_Surjection
<1> DEFINE E == {EdgesOf(graph, o) : o \in toLoss}
<1>3. IsFiniteSet(E)
  <2>1. IsFiniteSet(toLoss)
    BY <1>1, FS_Subset
  <2> DEFINE f == [o \in toLoss |-> EdgesOf(graph, o)]
  <2>2. f \in Surjection(toLoss, E)
    BY DEF Surjection
  <2> HIDE DEF f
  <2> QED BY <2>1, <2>2, FS_Surjection
<1>4. IsFiniteSet(UNION E)
  BY <1>2, <1>3, FS_UNION
<1>5. ToLossEdges(t) \in SUBSET (UNION E)
  BY DEF ToLossEdges
<1> QED BY <1>4, <1>5, FS_Subset

LEMMA PathFacts ==
  ASSUME GraphOK
  PROVE  /\ IsGraph(graph) /\ toLoss \subseteq graph.ops
         /\ ToLossTensors \subseteq Tensors(graph)
         /\ \A o \in graph.ops : Outputs(o) # {} => o \in toLoss
         /\ \A o \in toLoss : Outputs(o) = {} <=> o = graph.loss
         /\ graph.loss # NoOp => graph.loss \in toLoss
         /\ \A t \in ToLossTensors : t \notin graph.provided => ToLossEdges(t) # {}
         /\ \A t : ToLossEdges(t) # {} => t \in ToLossTensors
<1>1. IsGraph(graph) /\ IsFiniteSet(graph.ops)
  BY GraphsAssumption DEF GraphOK, IsGraph
<1>2. toLoss \subseteq graph.ops
  BY <1>1, ToLossFacts DEF GraphOK
<1>3. toLoss = LastOps(graph) \cup Producing(graph, toLoss)
  BY <1>1, ToLossFacts DEF GraphOK
<1>4. ToLossTensors \subseteq Tensors(graph)
  BY <1>1, <1>2 DEF ToLossTensors, Tensors, IsGraph
<1>5. \A o \in graph.ops : Outputs(o) # {} => o \in toLoss
  BY <1>1, <1>3 DEF Outputs, ToLossTensors, LastOps, Producing
<1>6. ASSUME NEW o \in toLoss, o # graph.loss PROVE Outputs(o) # {}
  BY <1>3, <1>6 DEF Outputs, ToLossTensors, LastOps, Producing
<1>7. graph.loss # NoOp => graph.loss \in toLoss
  BY <1>1, <1>3 DEF IsGraph, LastOps
<1>8. ASSUME graph.loss # NoOp PROVE Outputs(graph.loss) = {}
  <2>1. graph.provided = {} /\ HasNoCircle(graph)
    BY <1>1, <1>8 DEF IsGraph
  <2>2. PICK o \in toLoss :
          \A p \in toLoss : graph.outs[o] \cap Range(graph.ins[p]) = {}
    BY <1>2, <1>7, <1>8, <2>1 DEF HasNoCircle
  <2>3. Outputs(o) = {}
    BY <2>1, <2>2 DEF Outputs, ToLossTensors
  <2> QED BY <1>6, <2>3
<1>9. NoOp \notin graph.ops
  BY <1>1 DEF IsGraph
<1>10. \A o \in toLoss : Outputs(o) = {} <=> o = graph.loss
  BY <1>2, <1>6, <1>8, <1>9
<1>11. \A t \in ToLossTensors : t \notin graph.provided => ToLossEdges(t) # {}
  BY InputsAreEdges DEF ToLossTensors
<1>12. ASSUME NEW t, NEW e \in ToLossEdges(t) PROVE t \in ToLossTensors
  <2>1. PICK o \in toLoss : e \in EdgesOf(graph, o) /\ Input(graph, e) = t
    BY LossEdges
  <2> QED BY <2>1, EdgesTyped DEF Range, ToLossTensors
<1> QED BY <1>1, <1>2, <1>4, <1>5, <1>7, <1>10, <1>11, <1>12

(* Any non-empty set of ops has one whose outputs no op of it consumes.    *)
LEMMA LastOfAll ==
  ASSUME GraphOK, NEW S, S \subseteq toLoss, S # {}
  PROVE  \E o \in S : \A t \in graph.outs[o] : \A e \in ToLossEdges(t) : e[1] \notin S
<1>1. HasNoCircle(graph) /\ S \in SUBSET graph.ops
  BY PathFacts DEF IsGraph
<1>2. PICK o \in S : \A p \in S : graph.outs[o] \cap Range(graph.ins[p]) = {}
  BY <1>1 DEF HasNoCircle
<1>3. ASSUME NEW t \in graph.outs[o], NEW e \in ToLossEdges(t), e[1] \in S
      PROVE  FALSE
  BY <1>2, <1>3, InputsAreEdges
<1> QED BY <1>3

(* The definition of the gradients, as an equation.                        *)
LEMMA DifferentiableFacts ==
  ASSUME GraphOK
  PROVE  /\ Differentiable \subseteq toLoss
         /\ graph.loss # NoOp => graph.loss \in Differentiable
         /\ \A o \in toLoss : o # graph.loss =>
              (o \in Differentiable <=>
                 \A t \in Outputs(o) : t \in graph.provided \/ EdgeGradients(t) # {})
<1> DEFINE L == toLoss
           N == Cardinality(L)
           A == {graph.loss} \cap graph.ops
           Step(X) == A \cup {o \in toLoss :
                        \A t \in graph.outs[o] \cap ToLossTensors : HasGradient(X, t)}
           F == [X \in SUBSET L |-> Step(X)]
           IsReached(v) == v = [n \in 0 .. N |-> IF n = 0 THEN A ELSE Step(v[n - 1])]
           v == CHOOSE x : IsReached(x)
<1>0. /\ IsGraph(graph) /\ toLoss \subseteq graph.ops /\ IsFiniteSet(L)
      /\ graph.loss # NoOp => graph.loss \in toLoss
  <2>1. IsGraph(graph) /\ toLoss \subseteq graph.ops /\ IsFiniteSet(graph.ops)
    BY PathFacts DEF IsGraph
  <2> QED BY <2>1, PathFacts, FS_Subset
<1>1. N \in Nat
  BY <1>0, FS_CardinalityType
<1>2. /\ A \in SUBSET L /\ \A X : Step(X) \in SUBSET L
      /\ \A X \in SUBSET L : F[X] = Step(X)
  <2>1. A \in SUBSET L
    BY <1>0 DEF IsGraph
  <2> QED BY <2>1
<1>3. GrowsFrom(A, L, F)
  <2>1. F \in [SUBSET L -> SUBSET L]
    BY <1>2
  <2>2. \A X, Y \in SUBSET L : X \subseteq Y => F[X] \subseteq F[Y]
    <3> SUFFICES ASSUME NEW X \in SUBSET L, NEW Y \in SUBSET L, X \subseteq Y
                 PROVE  Step(X) \subseteq Step(Y)
      BY <1>2
    <3>1. \A t : HasGradient(X, t) => HasGradient(Y, t)
      BY DEF HasGradient
    <3> QED BY <3>1
  <2>3. A \subseteq F[A]
    BY <1>2
  <2> HIDE DEF F, A, L
  <2> QED BY <1>2, <2>1, <2>2, <2>3 DEF GrowsFrom
<1> HIDE DEF F, Step
<1>4. \A n \in 0 .. N : n # 0 => n - 1 \in 0 .. N
  BY <1>1
<1>5. \E x : IsReached(x)
  <2>1. PICK x : Iterates(A, F, N, x)
    BY <1>1, IteratesExist
  <2>2. \A n \in 0 .. N : x[n] \in SUBSET L
    BY <1>0, <1>3, <2>1, IteratesConverge
  <2>3. \A n \in 0 .. N : n # 0 => F[x[n - 1]] = Step(x[n - 1])
    BY <1>2, <1>4, <2>2
  <2>4. x = [n \in 0 .. N |-> IF n = 0 THEN A ELSE F[x[n - 1]]]
    BY <2>1 DEF Iterates
  <2>5. IsReached(x)
    BY <2>3, <2>4
  <2> QED BY <2>5
<1>6. IsReached(v)
  BY <1>5
<1>7. Differentiable = v[N]
  BY DEF Differentiable, Step
<1> HIDE DEF v
<1>8. \A n \in 0 .. N : v[n] \in SUBSET L
  <2>1. \A n \in 0 .. N : v[n] = IF n = 0 THEN A ELSE Step(v[n - 1])
    BY <1>6
  <2> QED BY <1>2, <2>1
<1>9. Iterates(A, F, N, v)
  <2>1. \A n \in 0 .. N : n # 0 => F[v[n - 1]] = Step(v[n - 1])
    BY <1>2, <1>4, <1>8
  <2> QED BY <1>6, <2>1 DEF Iterates
<1>10. F[v[N]] = v[N]
  BY <1>0, <1>3, <1>9, IteratesConverge
<1>11. Differentiable = Step(Differentiable) /\ Differentiable \subseteq toLoss
  BY <1>1, <1>2, <1>7, <1>8, <1>10
<1>12. \A t : HasGradient(Differentiable, t) <=>
                t \in graph.provided \/ EdgeGradients(t) # {}
  BY DEF HasGradient, EdgeGradients
<1> QED BY <1>0, <1>11, <1>12 DEF Step, Outputs

(***************************************************************************)
(* The invariant.  Of the edges of a tensor some have come, some are known *)
(* to be missing, and the others are undecided.  The registries count just *)
(* these: a tensor is complete, or has failed, when none is undecided, and *)
(* an op when all its outputs have a gradient, or one has failed.          *)
(***************************************************************************)
Came(t) ==
    {e \in ToLossEdges(t) \ graph.nograd : e[1] \in Range(grown)} \ edges.with
Missing(t) ==
    {e \in ToLossEdges(t) : \/ e[1] \in Range(gaveUp)
                            \/ e[1] \in Range(grown) /\ e \in graph.nograd} \ edges.without
Expected(t) == ToLossEdges(t) \ Missing(t)

Summed(t) == \E i \in DOMAIN sums : sums[i].of = t
Got(o) == {t \in Outputs(o) : Summed(t) \/ t \in graph.provided \ toProvide}
Completed == Range(grown) \cup Range(opComplete)
GivenUp == Range(gaveUp) \cup Range(opFailed)

NoEdges == edges = [with |-> {}, without |-> {}]

(* The ops that are completed or given up, each once.                      *)
OpsInv ==
    /\ {opComplete, opFailed, grown, gaveUp} \subseteq Seq(toLoss)
    /\ Distinct(opComplete) /\ Distinct(opFailed) /\ Distinct(grown) /\ Distinct(gaveUp)
    /\ Range(grown) \cap Range(opComplete) = {}
    /\ Range(gaveUp) \cap Range(opFailed) = {}
    /\ Completed \cap GivenUp = {}
    /\ completeOrFailed = (Completed \ {graph.loss}) \cup GivenUp
    /\ graph.loss \notin GivenUp \cup Range(opComplete)
    /\ status # "start" /\ graph.loss # NoOp => graph.loss \in Range(grown)

(* The edges that are still to be registered are those of processed ops.   *)
EdgesInv ==
    /\ edges = [with |-> edges.with, without |-> edges.without]
    /\ \A e \in edges.with : /\ e[1] \in Range(grown) /\ e \notin graph.nograd
                             /\ e \in EdgesOf(graph, e[1])
    /\ \A e \in edges.without :
          /\ e[1] \in Range(gaveUp) \/ (e[1] \in Range(grown) /\ e \in graph.nograd)
          /\ e \in EdgesOf(graph, e[1])

TensorInv(t) ==
    /\ expectedNumEdges[t] = Cardinality(Expected(t))
    /\ partial[t] = IF Came(t) = Expected(t) THEN {} ELSE Came(t)
    /\ t \in DOMAIN complete =>
          Came(t) = Expected(t) /\ Came(t) # {} /\ complete[t] = Came(t) /\ ~Summed(t)
    /\ t \in failed => ToLossEdges(t) # {} /\ Expected(t) = {}
    /\ Came(t) = Expected(t) /\ Came(t) # {} => t \in DOMAIN complete \/ Summed(t)
    /\ ToLossEdges(t) # {} /\ Expected(t) = {} =>
          t \in failed \/ Producers(t) \subseteq completeOrFailed

RegistryInv ==
    /\ expectedNumEdges \in [Tensors(graph) -> Nat]
    /\ partial \in [Tensors(graph) -> SUBSET (graph.ops \X Nat)]
    /\ DOMAIN complete \cup failed \subseteq Tensors(graph)
    /\ \A t \in Tensors(graph) : TensorInv(t)

SumsInv ==
    /\ sums \in Seq([of : Tensors(graph), edges : SUBSET (graph.ops \X Nat)])
    /\ \A i \in DOMAIN sums : /\ sums[i].edges = Came(sums[i].of)
                              /\ Came(sums[i].of) = Expected(sums[i].of)
                              /\ Came(sums[i].of) # {}
    /\ \A i, j \in DOMAIN sums : sums[i].of = sums[j].of => i = j

(* What an op has registered, unless autodiff has thrown.                  *)
Pairs(A, B) == {<<t, FALSE>> : t \in A} \cup {<<t, TRUE>> : t \in B}
OutputsInv ==
    status \notin Errors =>
      /\ \A o \in graph.ops : opPartial[o] = Pairs({t \in Got(o) : Summed(t)},
                                                   {t \in Got(o) : ~Summed(t)})
      /\ \A o \in toLoss : o # graph.loss =>
            (o \in Completed <=> Got(o) = Outputs(o))

(* An op is completed, or given up, for a reason.                          *)
ReasonInv ==
    /\ Completed \subseteq Differentiable
    /\ \A o \in GivenUp : \E t \in Outputs(o) : ToLossEdges(t) # {} /\ Expected(t) = {}

StartInv ==
    /\ toProvide \subseteq graph.provided
    /\ status = "start" => /\ NoEdges /\ sums = <<>> /\ grown = <<>> /\ gaveUp = <<>>
                           /\ opFailed = <<>> /\ loop = "sums" /\ ~didSomething
    /\ status # "start" => toProvide = {}

(* Queues that are past in this round are empty, if nothing was done.      *)
Past == CASE loop = "sums" -> {} [] loop = "failedSums" -> {"sums"}
          [] loop = "ops" -> {"sums", "failedSums"}
          [] loop = "failedOps" -> {"sums", "failedSums", "ops"}
AllQueues == {"sums", "failedSums", "ops", "failedOps"}
Emptied == IF status = "done" THEN AllQueues ELSE IF didSomething THEN {} ELSE Past

LoopInv ==
    /\ loop \in AllQueues /\ didSomething \in BOOLEAN
    /\ status \in {"start", "growing", "done"} \cup Errors
    /\ Emptied # {} => NoEdges
    /\ "sums" \in Emptied => DOMAIN complete = {}
    /\ "failedSums" \in Emptied => failed = {}
    /\ "ops" \in Emptied => opComplete = <<>>
    /\ "failedOps" \in Emptied => opFailed = <<>>

IInv ==
    /\ GraphOK /\ OpsInv /\ EdgesInv /\ RegistryInv /\ SumsInv
    /\ opPartial \in [graph.ops -> SUBSET (Tensors(graph) \X BOOLEAN)]
    /\ OutputsInv /\ ReasonInv /\ StartInv /\ LoopInv /\ ThrowsOnlyIfMixed

-----------------------------------------------------------------------------
(***************************************************************************)
(* Facts about the parts of the invariant.                                 *)
(***************************************************************************)
LEMMA Static ==
  ASSUME UNCHANGED <<graph, toLoss>>
  PROVE  /\ GraphOK => GraphOK'
         /\ \A t : ToLossEdges(t)' = ToLossEdges(t)
         /\ ToLossTensors' = ToLossTensors
         /\ \A o : Outputs(o)' = Outputs(o)
         /\ \A t : Producers(t)' = Producers(t)
         /\ Differentiable' = Differentiable
<1>1. /\ GraphOK => GraphOK'
      /\ \A t : ToLossEdges(t)' = ToLossEdges(t)
      /\ ToLossTensors' = ToLossTensors
  BY DEF GraphOK, ToLossEdges, ToLossTensors
<1>2. /\ \A o : Outputs(o)' = Outputs(o)
      /\ \A t : Producers(t)' = Producers(t)
  BY <1>1 DEF Outputs, Producers
<1>3. Differentiable' = Differentiable
  <2>1. graph' = graph /\ toLoss' = toLoss
    OBVIOUS
  <2> QED BY <2>1 DEF Differentiable, HasGradient, ToLossEdges, ToLossTensors
<1> QED BY <1>1, <1>2, <1>3

(* Which edges have come depends on these variables only.                  *)
LEMMA SameEdges ==
  ASSUME UNCHANGED <<graph, toLoss, grown, gaveUp, edges>>
  PROVE  \A t : Came(t)' = Came(t) /\ Expected(t)' = Expected(t)
BY Static DEF Came, Expected, Missing

LEMMA EdgeOfTensor ==
  ASSUME GraphOK, NEW o \in toLoss, NEW e \in EdgesOf(graph, o)
  PROVE  /\ Input(graph, e) \in Tensors(graph)
         /\ \A t : e \in ToLossEdges(t) <=> t = Input(graph, e)
         /\ e \in graph.ops \X Nat
<1>1. IsGraph(graph) /\ toLoss \subseteq graph.ops
  BY PathFacts
<1>2. e[1] = o /\ e = <<o, e[2]>> /\ e[2] \in DOMAIN graph.ins[o]
      /\ Input(graph, e) = graph.ins[o][e[2]]
  BY EdgesTyped
<1>3. e[2] \in Nat
  BY <1>1, <1>2 DEF IsGraph
<1> QED BY <1>1, <1>2, <1>3, LossEdges DEF Tensors, Range

LEMMA EdgesFinite ==
  ASSUME GraphOK, NEW t, NEW X \in SUBSET ToLossEdges(t)
  PROVE  IsFiniteSet(X) /\ X \in SUBSET (graph.ops \X Nat)
<1>1. IsFiniteSet(X)
  BY FiniteEdges, FS_Subset
<1>2. ASSUME NEW e \in ToLossEdges(t) PROVE e \in graph.ops \X Nat
  <2>1. PICK o \in toLoss : e \in EdgesOf(graph, o)
    BY LossEdges
  <2> QED BY <2>1, EdgeOfTensor
<1> QED BY <1>1, <1>2

LEMMA CameExpected ==
  ASSUME OpsInv, NEW t
  PROVE  Came(t) \subseteq Expected(t) /\ Expected(t) \subseteq ToLossEdges(t)
BY DEF Came, Expected, Missing, OpsInv, Completed, GivenUp

LEMMA CountsAgree ==
  ASSUME NEW X, IsFiniteSet(X), NEW C \in SUBSET X
  PROVE  /\ Cardinality(X) \in Nat /\ (Cardinality(X) > 0 <=> X # {})
         /\ isComplete(Cardinality(C), Cardinality(X)) <=> C = X
<1>1. /\ IsFiniteSet(C) /\ Cardinality(C) <= Cardinality(X)
      /\ Cardinality(X) = Cardinality(C) => X = C
  BY FS_Subset
<1>2. Cardinality(X) \in Nat /\ Cardinality(C) \in Nat
  BY <1>1, FS_CardinalityType
<1>3. Cardinality(X) = 0 <=> X = {}
  BY FS_EmptySet
<1> QED BY <1>1, <1>2, <1>3 DEF isComplete

LEMMA TryMakeComplete ==
  ASSUME NEW t, NEW X, IsFiniteSet(X), NEW C \in SUBSET X,
         tryMakeComplete(t, C, Cardinality(X))
  PROVE  /\ expectedNumEdges' = [expectedNumEdges EXCEPT ![t] = Cardinality(X)]
         /\ partial' = [partial EXCEPT ![t] = IF C = X THEN {} ELSE C]
         /\ X = {} => failed' = failed \cup {t}
         /\ X # {} => failed' = failed
         /\ X # {} /\ C = X =>
              /\ DOMAIN complete' = DOMAIN complete \cup {t} /\ complete'[t] = C
              /\ \A u \in DOMAIN complete : u # t => complete'[u] = complete[u]
         /\ X = {} \/ C # X => complete' = complete
<1>1. /\ Cardinality(X) > 0 <=> X # {}
      /\ isComplete(Cardinality(C), Cardinality(X)) <=> C = X
  BY CountsAgree
<1> QED BY <1>1 DEF tryMakeComplete

(* One more edge of a tensor is decided.                                   *)
LEMMA RegistryStep ==
  ASSUME GraphOK, OpsInv, RegistryInv, SumsInv, NEW x \in Tensors(graph),
         UNCHANGED <<graph, toLoss, sums, completeOrFailed>>,
         \A t : t # x => Came(t)' = Came(t) /\ Expected(t)' = Expected(t),
         Came(x) # Expected(x), ToLossEdges(x) # {},
         Expected(x)' \in SUBSET ToLossEdges(x), Came(x)' \in SUBSET Expected(x)',
         tryMakeComplete(x, Came(x)', Cardinality(Expected(x)'))
  PROVE  RegistryInv' /\ SumsInv'
<1> DEFINE C == Came(x)'
           X == Expected(x)'
<1>1. /\ IsFiniteSet(X) /\ C \in SUBSET X /\ C \in SUBSET (graph.ops \X Nat)
      /\ Cardinality(X) \in Nat
  BY EdgesFinite, FS_CardinalityType
<1>2. /\ \A t : ToLossEdges(t)' = ToLossEdges(t) /\ Producers(t)' = Producers(t)
      /\ Tensors(graph)' = Tensors(graph)
  BY Static
<1>3. \A t : Summed(t)' = Summed(t)
  BY DEF Summed
<1>4. TensorInv(x) /\ ~Summed(x) /\ x \notin DOMAIN complete /\ x \notin failed
  <2>1. TensorInv(x) /\ ~Summed(x)
    BY DEF RegistryInv, SumsInv, Summed
  <2>2. Expected(x) # {}
    BY CameExpected
  <2> QED BY <2>1, <2>2 DEF TensorInv
<1>a. tryMakeComplete(x, C, Cardinality(X))
  OBVIOUS
<1> HIDE DEF C, X
<1>5. /\ expectedNumEdges' = [expectedNumEdges EXCEPT ![x] = Cardinality(X)]
      /\ partial' = [partial EXCEPT ![x] = IF C = X THEN {} ELSE C]
      /\ X = {} => failed' = failed \cup {x}
      /\ X # {} => failed' = failed
      /\ X # {} /\ C = X =>
           /\ DOMAIN complete' = DOMAIN complete \cup {x} /\ complete'[x] = C
           /\ \A u \in DOMAIN complete : u # x => complete'[u] = complete[u]
      /\ X = {} \/ C # X => complete' = complete
  BY <1>1, <1>a, TryMakeComplete
<1>6. /\ expectedNumEdges' \in [Tensors(graph) -> Nat]
      /\ partial' \in [Tensors(graph) -> SUBSET (graph.ops \X Nat)]
      /\ DOMAIN complete' \cup failed' \subseteq Tensors(graph)
  BY <1>1, <1>5 DEF RegistryInv
<1>7. TensorInv(x)'
  <2>1. expectedNumEdges'[x] = Cardinality(X) /\ partial'[x] = IF C = X THEN {} ELSE C
    BY <1>5 DEF RegistryInv
  <2>2. /\ x \in DOMAIN complete' => X # {} /\ C = X /\ complete'[x] = C
        /\ X # {} /\ C = X => x \in DOMAIN complete'
        /\ x \in failed' <=> X = {}
    BY <1>4, <1>5
  <2>3. C = Came(x)' /\ X = Expected(x)'
    BY DEF C, X
  <2> QED
    BY <1>1, <1>2, <1>3, <1>4, <2>1, <2>2, <2>3 DEF TensorInv
<1>8. ASSUME NEW t \in Tensors(graph), t # x PROVE TensorInv(t)'
  <2>1. /\ TensorInv(t) /\ Came(t)' = Came(t) /\ Expected(t)' = Expected(t)
        /\ expectedNumEdges'[t] = expectedNumEdges[t] /\ partial'[t] = partial[t]
        /\ t \in failed' <=> t \in failed
        /\ t \in DOMAIN complete' <=> t \in DOMAIN complete
        /\ t \in DOMAIN complete => complete'[t] = complete[t]
    BY <1>5, <1>8 DEF RegistryInv
  <2> QED BY <1>2, <1>3, <2>1 DEF TensorInv
<1>9. SumsInv'
  <2>1. \A i \in DOMAIN sums : sums[i].of # x
    BY <1>4 DEF Summed
  <2> QED BY <1>2, <2>1 DEF SumsInv
<1> QED BY <1>2, <1>6, <1>7, <1>8, <1>9 DEF RegistryInv

(* Nothing is decided about the edges, and no op is taken back.            *)
LEMMA RegistrySame ==
  ASSUME RegistryInv, SumsInv, UNCHANGED <<graph, toLoss, tensorRegistry, sums>>,
         completeOrFailed \subseteq completeOrFailed',
         \A t : Came(t)' = Came(t) /\ Expected(t)' = Expected(t)
  PROVE  RegistryInv' /\ SumsInv'
<1>1. /\ \A t : ToLossEdges(t)' = ToLossEdges(t) /\ Producers(t)' = Producers(t)
      /\ Tensors(graph)' = Tensors(graph)
  BY Static
<1>2. \A t : Summed(t)' = Summed(t)
  BY DEF Summed
<1>3. ASSUME NEW t \in Tensors(graph) PROVE TensorInv(t)'
  <2>1. TensorInv(t)
    BY DEF RegistryInv
  <2> QED BY <1>1, <1>2, <2>1 DEF TensorInv, tensorRegistry
<1>4. SumsInv'
  BY <1>1 DEF SumsInv
<1> QED BY <1>1, <1>3, <1>4 DEF RegistryInv, tensorRegistry

-----------------------------------------------------------------------------
(***************************************************************************)
(* The steps.                                                              *)
(***************************************************************************)
LEMMA InsertEdgeDecides ==
  ASSUME GraphOK, OpsInv, EdgesInv, RegistryInv, SumsInv, NEW e \in edges.with, InsertEdge(e)
  PROVE  /\ RegistryInv' /\ SumsInv' /\ EdgesInv'
         /\ \A t : Expected(t)' = Expected(t)
<1>0. PICK x : x = Input(graph, e)
  OBVIOUS
<1>1. /\ e[1] \in Range(grown) /\ e \notin graph.nograd /\ e \in EdgesOf(graph, e[1])
      /\ e[1] \in toLoss
  BY RangeInSet DEF EdgesInv, OpsInv
<1>2. /\ x \in Tensors(graph) /\ e \in ToLossEdges(x)
      /\ \A t : e \in ToLossEdges(t) => t = x
  BY <1>0, <1>1, EdgeOfTensor
<1>3. UNCHANGED <<graph, toLoss, grown, gaveUp, sums, completeOrFailed>>
  BY DEF InsertEdge, history, opRegistry
<1>4. edges' = [with |-> edges.with \ {e}, without |-> edges.without]
  BY DEF InsertEdge, EdgesInv
<1>5. \A t : Missing(t)' = Missing(t) /\ Expected(t)' = Expected(t)
  BY <1>3, <1>4, Static DEF Missing, Expected
<1>6. Came(x)' = Came(x) \cup {e} /\ \A t : t # x => Came(t)' = Came(t)
  BY <1>1, <1>2, <1>3, <1>4, Static DEF Came
<1>7. e \in Expected(x) /\ e \notin Came(x)
  BY <1>1, <1>2 DEF Expected, Missing, Came, OpsInv, Completed, GivenUp
<1>8. Came(x) \subseteq Expected(x) /\ Expected(x) \subseteq ToLossEdges(x)
  BY CameExpected
<1>9. tryMakeComplete(x, partial[x] \cup {e}, expectedNumEdges[x])
  BY <1>0 DEF InsertEdge
<1>10. partial[x] = Came(x) /\ expectedNumEdges[x] = Cardinality(Expected(x))
  BY <1>2, <1>7 DEF RegistryInv, TensorInv
<1>11. tryMakeComplete(x, Came(x)', Cardinality(Expected(x)'))
  BY <1>5, <1>6, <1>9, <1>10
<1>12. RegistryInv' /\ SumsInv'
  BY <1>2, <1>3, <1>5, <1>6, <1>7, <1>8, <1>11, RegistryStep
<1>13. EdgesInv'
  BY <1>3, <1>4 DEF EdgesInv
<1> QED BY <1>5, <1>12, <1>13

LEMMA DecrementDecides ==
  ASSUME GraphOK, OpsInv, EdgesInv, RegistryInv, SumsInv, NEW e \in edges.without,
         decrementNumberExpectedEdges(e)
  PROVE  /\ RegistryInv' /\ SumsInv' /\ EdgesInv'
         /\ \A t : Expected(t)' \subseteq Expected(t)
<1>0. PICK x : x = Input(graph, e)
  OBVIOUS
<1>1. /\ e[1] \in Range(gaveUp) \/ (e[1] \in Range(grown) /\ e \in graph.nograd)
      /\ e \in EdgesOf(graph, e[1]) /\ e[1] \in toLoss
  BY RangeInSet DEF EdgesInv, OpsInv
<1>2. /\ x \in Tensors(graph) /\ e \in ToLossEdges(x)
      /\ \A t : e \in ToLossEdges(t) => t = x
  BY <1>0, <1>1, EdgeOfTensor
<1>3. UNCHANGED <<graph, toLoss, grown, gaveUp, sums, completeOrFailed>>
  BY DEF decrementNumberExpectedEdges, history, opRegistry
<1>4. edges' = [with |-> edges.with, without |-> edges.without \ {e}]
  BY DEF decrementNumberExpectedEdges, EdgesInv
<1>5. \A t : Came(t)' = Came(t)
  BY <1>3, <1>4, Static DEF Came
<1>6. Missing(x)' = Missing(x) \cup {e} /\ \A t : t # x => Missing(t)' = Missing(t)
  BY <1>1, <1>2, <1>3, <1>4, Static DEF Missing
<1>7. Expected(x)' = Expected(x) \ {e} /\ \A t : t # x => Expected(t)' = Expected(t)
  BY <1>3, <1>6, Static DEF Expected
<1>8. e \in Expected(x) /\ e \notin Came(x)
  BY <1>1, <1>2 DEF Expected, Missing, Came, OpsInv, Completed, GivenUp
<1>9. Came(x) \subseteq Expected(x) /\ Expected(x) \subseteq ToLossEdges(x)
  BY CameExpected
<1>10. tryMakeComplete(x, partial[x], expectedNumEdges[x] - 1)
  BY <1>0 DEF decrementNumberExpectedEdges, Decremented
<1>11. partial[x] = Came(x) /\ expectedNumEdges[x] = Cardinality(Expected(x))
  BY <1>2, <1>8 DEF RegistryInv, TensorInv
<1>12. Cardinality(Expected(x) \ {e}) = Cardinality(Expected(x)) - 1
  <2>1. IsFiniteSet(Expected(x))
    BY <1>9, EdgesFinite
  <2> QED BY <1>8, <2>1, FS_RemoveElement
<1>13. tryMakeComplete(x, Came(x)', Cardinality(Expected(x)'))
  BY <1>5, <1>7, <1>10, <1>11, <1>12
<1>14. RegistryInv' /\ SumsInv'
  BY <1>2, <1>3, <1>5, <1>7, <1>8, <1>9, <1>13, RegistryStep
<1>15. EdgesInv'
  BY <1>3, <1>4 DEF EdgesInv
<1> QED BY <1>7, <1>14, <1>15

(* An op whose edges are about to be registered decides none yet.          *)
LEMMA ProcessDecidesNothing ==
  ASSUME EdgesInv, NoEdges, UNCHANGED <<graph, toLoss>>,
         NEW o \in toLoss, o \notin Range(grown) \cup Range(gaveUp),
         \/ /\ processGradOps(o) /\ Range(grown') = Range(grown) \cup {o}
            /\ gaveUp' = gaveUp
         \/ /\ processNoGradOps(o) /\ Range(gaveUp') = Range(gaveUp) \cup {o}
            /\ grown' = grown
  PROVE  EdgesInv' /\ \A t : Came(t)' = Came(t) /\ Expected(t)' = Expected(t)
<1>1. \A e \in EdgesOf(graph, o) : e[1] = o /\ e \in EdgesOf(graph, e[1])
  BY EdgesTyped
<1>2. \A t : \A e \in ToLossEdges(t) : e[1] = o => e \in EdgesOf(graph, o)
  BY LossEdges, EdgesTyped
<1>3. edges.with = {} /\ edges.without = {} /\ graph' = graph
  BY DEF NoEdges
<1>4. \A t : ToLossEdges(t)' = ToLossEdges(t)
  BY Static
<1>5. CASE /\ processGradOps(o) /\ Range(grown') = Range(grown) \cup {o}
           /\ gaveUp' = gaveUp
  <2>1. edges' = [with    |-> EdgesOf(graph, o) \ graph.nograd,
                  without |-> EdgesOf(graph, o) \cap graph.nograd]
    BY <1>5 DEF processGradOps
  <2>2. EdgesInv'
    BY <1>1, <1>3, <1>5, <2>1 DEF EdgesInv
  <2>3. \A t : Came(t)' = Came(t)
    BY <1>1, <1>2, <1>3, <1>4, <1>5, <2>1 DEF Came
  <2>4. \A t : Missing(t)' = Missing(t)
    BY <1>1, <1>2, <1>3, <1>4, <1>5, <2>1 DEF Missing
  <2> QED BY <1>4, <2>2, <2>3, <2>4 DEF Expected
<1>6. CASE /\ processNoGradOps(o) /\ Range(gaveUp') = Range(gaveUp) \cup {o}
           /\ grown' = grown
  <2>1. edges' = [with |-> {}, without |-> EdgesOf(graph, o)]
    BY <1>6 DEF processNoGradOps
  <2>2. EdgesInv'
    BY <1>1, <1>3, <1>6, <2>1 DEF EdgesInv
  <2>3. \A t : Came(t)' = Came(t)
    BY <1>3, <1>4, <1>6, <2>1 DEF Came
  <2>4. \A t : Missing(t)' = Missing(t)
    BY <1>1, <1>2, <1>3, <1>4, <1>6, <2>1 DEF Missing
  <2> QED BY <1>4, <2>2, <2>3, <2>4 DEF Expected
<1> QED BY <1>5, <1>6

(* What autodiff has of the outputs of an op.                              *)
LEMMA PairsCount ==
  ASSUME NEW A, NEW B, A \cap B = {}, IsFiniteSet(A \cup B)
  PROVE  IsFiniteSet(Pairs(A, B)) /\ Cardinality(Pairs(A, B)) = Cardinality(A \cup B)
<1> DEFINE f == [t \in A \cup B |-> IF t \in A THEN <<t, FALSE>> ELSE <<t, TRUE>>]
<1>1. f \in Injection(A \cup B, Pairs(A, B))
  BY DEF Injection, IsInjective, Pairs
<1>2. f \in Surjection(A \cup B, Pairs(A, B))
  BY DEF Surjection, Pairs
<1>3. f \in Bijection(A \cup B, Pairs(A, B))
  BY <1>1, <1>2 DEF Bijection
<1> HIDE DEF f
<1> QED BY <1>3, FS_Bijection DEF ExistsBijection

LEMMA EnoughForAll ==
  ASSUME GraphOK, NEW o \in graph.ops, NEW A, NEW B, A \cap B = {},
         A \cup B \subseteq Outputs(o)
  PROVE  Enough(o, Pairs(A, B)) <=> A \cup B = Outputs(o)
<1>1. IsFiniteSet(Outputs(o))
  <2>1. IsFiniteSet(graph.outs[o])
    BY PathFacts DEF IsGraph
  <2> QED BY <2>1, FS_Subset DEF Outputs
<1>2. /\ IsFiniteSet(A \cup B)
      /\ Cardinality(A \cup B) = Cardinality(Outputs(o)) => A \cup B = Outputs(o)
  BY <1>1, FS_Subset
<1>3. Cardinality(Pairs(A, B)) = Cardinality(A \cup B)
  BY <1>2, PairsCount
<1> QED BY <1>2, <1>3 DEF Enough, opEdgesToLoss, Outputs

LEMMA PairsFacts ==
  ASSUME NEW A, NEW B, NEW t
  PROVE  /\ <<t, FALSE>> \in Pairs(A, B) <=> t \in A
         /\ <<t, TRUE>> \in Pairs(A, B) <=> t \in B
         /\ Pairs(A, B) \cup {<<t, TRUE>>} = Pairs(A, B \cup {t})
         /\ (Pairs(A, B) \ {<<t, TRUE>>}) \cup {<<t, FALSE>>} = Pairs(A \cup {t}, B \ {t})
<1> DEFINE F(X) == {<<u, FALSE>> : u \in X}
           T(X) == {<<u, TRUE>> : u \in X}
<1>1. \A C, D : Pairs(C, D) = F(C) \cup T(D)
  BY DEF Pairs
<1>2. \A u, X : <<u, FALSE>> \in F(X) <=> u \in X
  OBVIOUS
<1>3. \A u, X : <<u, TRUE>> \in T(X) <=> u \in X
  OBVIOUS
<1>4. \A u, X : <<u, TRUE>> \notin F(X) /\ <<u, FALSE>> \notin T(X)
  OBVIOUS
<1>5. F(A \cup {t}) = F(A) \cup {<<t, FALSE>>} /\ T(B \cup {t}) = T(B) \cup {<<t, TRUE>>}
  OBVIOUS
<1>6. T(B \ {t}) = T(B) \ {<<t, TRUE>>}
  <2>1. \A u : <<u, TRUE>> = <<t, TRUE>> => u = t
    OBVIOUS
  <2> QED BY <2>1, Zenon
<1> HIDE DEF F, T
<1>7. Pairs(A, B) \cup {<<t, TRUE>>} = Pairs(A, B \cup {t})
  BY <1>1, <1>5
<1>8. (Pairs(A, B) \ {<<t, TRUE>>}) \cup {<<t, FALSE>>} = Pairs(A \cup {t}, B \ {t})
  <2>1. <<t, TRUE>> \notin F(A)
    BY <1>4, Zenon
  <2>2. (F(A) \cup T(B)) \ {<<t, TRUE>>} = F(A) \cup T(B \ {t})
    BY <1>6, <2>1, Zenon
  <2>3. F(A \cup {t}) = F(A) \cup {<<t, FALSE>>}
    BY <1>5, Zenon
  <2>4. Pairs(A, B) = F(A) \cup T(B) /\ Pairs(A \cup {t}, B \ {t}) = F(A \cup {t}) \cup T(B \ {t})
    BY <1>1, Zenon
  <2> QED BY <2>2, <2>3, <2>4, Zenon
<1> QED BY <1>1, <1>2, <1>3, <1>4, <1>7, <1>8

(* A tensor has one producer, which is not the final loss op.              *)
LEMMA ProducerFacts ==
  ASSUME GraphOK, NEW t
  PROVE  /\ \A o \in graph.ops : o \in Producers(t) <=> t \in Outputs(o)
         /\ \A o \in Producers(t) : o \in toLoss /\ o # graph.loss /\ t \in Tensors(graph)
         /\ \A o, p \in Producers(t) : o = p
<1>1. \A o \in graph.ops : o \in Producers(t) <=> t \in Outputs(o)
  BY DEF Producers, Outputs
<1>2. \A o \in Producers(t) : o \in toLoss /\ o # graph.loss /\ t \in Tensors(graph)
  BY <1>1, PathFacts DEF Producers
<1>3. \A o, p \in Producers(t) : o = p
  BY PathFacts DEF Producers, IsGraph
<1> QED BY <1>1, <1>2, <1>3

LEMMA PairsTyped ==
  ASSUME NEW S, NEW A \in SUBSET S, NEW B \in SUBSET S
  PROVE  Pairs(A, B) \subseteq S \X BOOLEAN
<1>1. FALSE \in BOOLEAN /\ TRUE \in BOOLEAN
  OBVIOUS
<1>2. \A u \in S : \A b \in BOOLEAN : <<u, b>> \in S \X BOOLEAN
  OBVIOUS
<1>3. {<<u, FALSE>> : u \in A} \subseteq S \X BOOLEAN
  BY <1>1, <1>2, Zenon
<1>4. {<<u, TRUE>> : u \in B} \subseteq S \X BOOLEAN
  BY <1>1, <1>2, Zenon
<1> QED BY <1>3, <1>4 DEF Pairs

(* What insertOutput does, to an op that has outputs A and B, for t.       *)
Registers(o, t, isProvided, A, B) ==
    /\ status' = status /\ opFailed' = opFailed
    /\ opPartial' = [opPartial EXCEPT ![o] =
                       IF isProvided THEN Pairs(A, B \cup {t})
                       ELSE Pairs(A \cup {t}, B \ {t})]
    /\ \/ /\ o \notin completeOrFailed /\ A \cup B \cup {t} = Outputs(o)
          /\ opComplete' = Append(opComplete, o)
          /\ completeOrFailed' = completeOrFailed \cup {o}
       \/ /\ o \in completeOrFailed \/ A \cup B \cup {t} # Outputs(o)
          /\ o \in completeOrFailed => t \in B
          /\ UNCHANGED <<opComplete, completeOrFailed>>

Throws(o, isProvided) ==
    /\ status' = "already failed or completed" /\ UNCHANGED opRegistry
    /\ ~isProvided /\ o \in GivenUp

(* insertOutput, for an output that has no gradient of that kind yet.      *)
LEMMA InsertOutput ==
  ASSUME GraphOK, OpsInv, status \notin Errors,
         NEW o \in toLoss, o # graph.loss, NEW t \in Outputs(o), NEW isProvided \in BOOLEAN,
         NEW A, NEW B, A \cap B = {}, A \cup B \subseteq Outputs(o), t \notin A,
         opPartial \in [graph.ops -> SUBSET (Tensors(graph) \X BOOLEAN)],
         opPartial[o] = Pairs(A, B),
         o \in Completed <=> A \cup B = Outputs(o),
         isProvided => t \notin B /\ GivenUp = {},
         insertOutput(o, t, isProvided)
  PROVE  Registers(o, t, isProvided, A, B) \/ Throws(o, isProvided)
<1>0. /\ <<t, FALSE>> \in Pairs(A, B) <=> t \in A
      /\ <<t, TRUE>> \in Pairs(A, B) <=> t \in B
      /\ Pairs(A, B) \cup {<<t, TRUE>>} = Pairs(A, B \cup {t})
      /\ (Pairs(A, B) \ {<<t, TRUE>>}) \cup {<<t, FALSE>>} = Pairs(A \cup {t}, B \ {t})
  BY PairsFacts, Zenon
<1>1. /\ <<t, FALSE>> \notin opPartial[o]
      /\ <<t, TRUE>> \in opPartial[o] <=> t \in B
  BY <1>0, Zenon
<1>2. Registered(o, t, isProvided) = IF isProvided THEN Pairs(A, B \cup {t})
                                     ELSE Pairs(A \cup {t}, B \ {t})
  <2>1. CASE isProvided = TRUE
    BY <1>0, <1>1, <2>1, Zenon DEF Registered
  <2>2. CASE isProvided = FALSE
    BY <1>0, <1>1, <2>2, Zenon DEF Registered
  <2> QED BY <2>1, <2>2
<1>3. Enough(o, Registered(o, t, isProvided)) <=> A \cup B \cup {t} = Outputs(o)
  <2>0. o \in graph.ops
    BY PathFacts
  <2>1. CASE isProvided = TRUE
    <3>1. A \cap (B \cup {t}) = {} /\ A \cup (B \cup {t}) = A \cup B \cup {t}
          /\ A \cup (B \cup {t}) \subseteq Outputs(o)
      OBVIOUS
    <3>2. Enough(o, Pairs(A, B \cup {t})) <=> A \cup (B \cup {t}) = Outputs(o)
      BY <2>0, <3>1, EnoughForAll
    <3> QED BY <1>2, <2>1, <3>1, <3>2
  <2>2. CASE isProvided = FALSE
    <3>1. (A \cup {t}) \cap (B \ {t}) = {} /\ (A \cup {t}) \cup (B \ {t}) = A \cup B \cup {t}
          /\ (A \cup {t}) \cup (B \ {t}) \subseteq Outputs(o)
      OBVIOUS
    <3>2. Enough(o, Pairs(A \cup {t}, B \ {t}))
            <=> (A \cup {t}) \cup (B \ {t}) = Outputs(o)
      BY <2>0, <3>1, EnoughForAll
    <3> QED BY <1>2, <2>2, <3>1, <3>2
  <2> QED BY <2>1, <2>2
<1>4. o \in completeOrFailed <=> o \in Completed \cup GivenUp
  BY DEF OpsInv
<1>5. CASE /\ o \notin completeOrFailed
           /\ LET registered == Registered(o, t, isProvided)
              IN  /\ opPartial' = [opPartial EXCEPT ![o] = registered]
                  /\ IF Enough(o, registered)
                     THEN /\ opComplete' = Append(opComplete, o)
                          /\ completeOrFailed' = completeOrFailed \cup {o}
                     ELSE UNCHANGED <<opComplete, completeOrFailed>>
           /\ UNCHANGED <<opFailed, status>>
  BY <1>2, <1>3, <1>5 DEF Registers
<1>6. CASE /\ o \in completeOrFailed /\ ~isProvided
           /\ IF <<t, TRUE>> \in opPartial[o]
              THEN /\ opPartial' = [opPartial EXCEPT ![o] = Registered(o, t, FALSE)]
                   /\ UNCHANGED status
              ELSE status' = "already failed or completed" /\ UNCHANGED opPartial
           /\ UNCHANGED <<opComplete, opFailed, completeOrFailed>>
  <2>0. isProvided = FALSE
    BY <1>6
  <2>1. CASE t \in B
    BY <1>1, <1>2, <1>6, <2>0, <2>1 DEF Registers
  <2>2. CASE t \notin B
    <3>1. o \in GivenUp
      BY <1>4, <1>6, <2>2
    <3> QED BY <1>1, <1>6, <2>2, <3>1 DEF opRegistry, Throws
  <2> QED BY <2>1, <2>2
<1>7. CASE o \in completeOrFailed /\ isProvided
  BY <1>4, <1>7
<1> QED BY <1>1, <1>5, <1>6, <1>7 DEF insertOutput

(* What an op has registered when it has these outputs.                    *)
OpPartialIs(o) == opPartial[o] = Pairs({u \in Got(o) : Summed(u)}, {u \in Got(o) : ~Summed(u)})

LEMMA InsertForProducer ==
  ASSUME GraphOK, OpsInv, OutputsInv, status \in {"start", "growing"},
         opPartial \in [graph.ops -> SUBSET (Tensors(graph) \X BOOLEAN)],
         UNCHANGED <<graph, toLoss, grown, gaveUp>>,
         NEW t \in Tensors(graph), NEW isProvided \in BOOLEAN, ~Summed(t),
         \A u : Summed(u)' <=> Summed(u) \/ (u = t /\ ~isProvided),
         \A p \in graph.ops : Got(p)' = Got(p) \cup ({t} \cap Outputs(p)),
         isProvided => t \notin graph.provided \ toProvide /\ GivenUp = {},
         ~isProvided => status = "growing",
         insertForProducer(t, isProvided)
  PROVE  /\ OpsInv' /\ OutputsInv' /\ GivenUp' = GivenUp
         /\ opPartial' \in [graph.ops -> SUBSET (Tensors(graph) \X BOOLEAN)]
         /\ completeOrFailed \subseteq completeOrFailed'
         /\ \A o \in Completed' :
               o \in Completed \/ (o \in toLoss /\ o # graph.loss /\ Got(o)' = Outputs(o))
         /\ \/ status' = status
            \/ /\ status' = "already failed or completed" /\ ~isProvided
               /\ \E o \in GivenUp : t \in Outputs(o)
<1>0. /\ IsGraph(graph) /\ toLoss \subseteq graph.ops
      /\ status \notin Errors /\ graph' = graph /\ toLoss' = toLoss
      /\ \A o : Outputs(o)' = Outputs(o)
  BY PathFacts, Static DEF Errors
<1>1. /\ \A p \in graph.ops : OpPartialIs(p) /\ Got(p) \subseteq Outputs(p)
      /\ \A p \in toLoss : p # graph.loss => (p \in Completed <=> Got(p) = Outputs(p))
  BY <1>0 DEF OutputsInv, OpPartialIs, Got
<1>2. ASSUME NEW p \in graph.ops, t \notin Outputs(p)
      PROVE  /\ Got(p)' = Got(p)
             /\ \A u \in Got(p) : Summed(u)' <=> Summed(u)
  <2>1. Got(p) \subseteq Outputs(p) /\ Got(p)' = Got(p) \cup ({t} \cap Outputs(p))
    BY <1>1
  <2>2. Got(p)' = Got(p) /\ t \notin Got(p)
    BY <1>2, <2>1
  <2> QED BY <2>2
<1>3. CASE Producers(t) = {} /\ UNCHANGED <<opRegistry, status>>
  <2>1. \A p \in graph.ops : t \notin Outputs(p)
    BY <1>3, ProducerFacts
  <2>2. UNCHANGED <<opPartial, opComplete, opFailed, completeOrFailed, status>>
    BY <1>3 DEF opRegistry
  <2>3. OpsInv' /\ Completed' = Completed /\ GivenUp' = GivenUp
    BY <1>0, <2>2 DEF OpsInv, Completed, GivenUp
  <2>4. \A p \in graph.ops : OpPartialIs(p)'
    BY <1>1, <1>2, <2>1, <2>2 DEF OpPartialIs
  <2>5. OutputsInv'
    BY <1>0, <1>1, <1>2, <2>1, <2>2, <2>3, <2>4 DEF OutputsInv, OpPartialIs
  <2> QED BY <1>0, <2>2, <2>3, <2>5
<1>4. ASSUME NEW o \in Producers(t), insertOutput(o, t, isProvided)
      PROVE  /\ OpsInv' /\ OutputsInv' /\ GivenUp' = GivenUp
             /\ opPartial' \in [graph.ops -> SUBSET (Tensors(graph) \X BOOLEAN)]
             /\ completeOrFailed \subseteq completeOrFailed'
             /\ \A p \in Completed' :
                   p \in Completed \/ (p \in toLoss /\ p # graph.loss /\ Got(p)' = Outputs(p))
             /\ \/ status' = status
                \/ /\ status' = "already failed or completed" /\ ~isProvided
                   /\ \E p \in GivenUp : t \in Outputs(p)
  <2>1. /\ o \in toLoss /\ o \in graph.ops /\ o # graph.loss /\ t \in Outputs(o)
        /\ \A p \in graph.ops : p # o => t \notin Outputs(p)
    BY ProducerFacts, <1>0
  <2>2. PICK A, B : /\ A = {u \in Got(o) : Summed(u)} /\ B = {u \in Got(o) : ~Summed(u)}
    OBVIOUS
  <2>3. /\ A \cap B = {} /\ A \cup B = Got(o) /\ A \cup B \subseteq Outputs(o) /\ t \notin A
        /\ opPartial[o] = Pairs(A, B)
        /\ o \in Completed <=> A \cup B = Outputs(o)
        /\ isProvided => t \notin B
    BY <1>1, <2>1, <2>2 DEF OpPartialIs, Got
  <2>4. Got(o)' = A \cup B \cup {t}
    BY <2>1, <2>3
  <2>5. Registers(o, t, isProvided, A, B) \/ Throws(o, isProvided)
    BY <1>0, <1>4, <2>1, <2>3, InsertOutput
  <2>6. CASE Throws(o, isProvided)
    <3>1. UNCHANGED <<opPartial, opComplete, opFailed, completeOrFailed>>
      BY <2>6 DEF opRegistry, Throws
    <3>2. OpsInv' /\ Completed' = Completed /\ GivenUp' = GivenUp
      BY <1>0, <2>6, <3>1 DEF OpsInv, Completed, GivenUp, Throws
    <3> QED BY <2>1, <2>6, <3>1, <3>2 DEF OutputsInv, Errors, Throws
  <2>7. CASE Registers(o, t, isProvided, A, B)
    <3>1. OpPartialIs(o)'
      <4>1. /\ {u \in Got(o)' : Summed(u)'} = IF isProvided THEN A ELSE A \cup {t}
            /\ {u \in Got(o)' : ~Summed(u)'} = IF isProvided THEN B \cup {t} ELSE B \ {t}
        BY <2>2, <2>3, <2>4
      <4>2. opPartial'[o] = IF isProvided THEN Pairs(A, B \cup {t})
                            ELSE Pairs(A \cup {t}, B \ {t})
        BY <2>1, <2>7 DEF Registers
      <4> QED BY <4>1, <4>2 DEF OpPartialIs
    <3>2. \A p \in graph.ops : p # o => OpPartialIs(p)'
      <4> SUFFICES ASSUME NEW p \in graph.ops, p # o PROVE OpPartialIs(p)'
        OBVIOUS
      <4>1. opPartial'[p] = opPartial[p]
        BY <2>7 DEF Registers
      <4> QED BY <1>1, <1>2, <2>1, <4>1 DEF OpPartialIs
    <3>3. GivenUp' = GivenUp
      BY <2>7 DEF GivenUp, Registers
    <3>4. /\ OpsInv' /\ completeOrFailed \subseteq completeOrFailed'
          /\ o \in Completed' <=> A \cup B \cup {t} = Outputs(o)
          /\ \A p : p # o => (p \in Completed' <=> p \in Completed)
      <4>1. CASE /\ o \notin completeOrFailed /\ A \cup B \cup {t} = Outputs(o)
                 /\ opComplete' = Append(opComplete, o)
                 /\ completeOrFailed' = completeOrFailed \cup {o}
        <5>1. o \notin Completed /\ o \notin GivenUp /\ opComplete \in Seq(toLoss)
          BY <2>1, <4>1 DEF OpsInv
        <5>2. /\ opComplete' \in Seq(toLoss)
              /\ Range(opComplete') = Range(opComplete) \cup {o}
              /\ Distinct(opComplete)' 
          BY <2>1, <4>1, <5>1, AppendFacts DEF OpsInv, Completed
        <5>3. Completed' = Completed \cup {o}
          BY <5>2 DEF Completed
        <5>4. OpsInv'
          BY <1>0, <2>1, <2>7, <3>3, <4>1, <5>1, <5>2, <5>3 DEF OpsInv, Completed, Registers
        <5> QED BY <4>1, <5>3, <5>4
      <4>2. CASE /\ o \in completeOrFailed \/ A \cup B \cup {t} # Outputs(o)
                 /\ o \in completeOrFailed => t \in B
                 /\ UNCHANGED <<opComplete, completeOrFailed>>
        <5>1. Completed' = Completed
          BY <4>2 DEF Completed
        <5>2. OpsInv'
          BY <1>0, <2>7, <3>3, <4>2, <5>1 DEF OpsInv, Registers
        <5>3. o \in Completed <=> A \cup B \cup {t} = Outputs(o)
          BY <2>1, <2>3, <4>2 DEF OpsInv
        <5> QED BY <4>2, <5>1, <5>2, <5>3
      <4> QED BY <2>7, <4>1, <4>2 DEF Registers
    <3>5. OutputsInv'
      <4>1. \A p \in graph.ops : OpPartialIs(p)'
        BY <3>1, <3>2
      <4>2. \A p \in toLoss : p # graph.loss => (p \in Completed' <=> Got(p)' = Outputs(p))
        BY <1>0, <1>1, <1>2, <2>1, <2>4, <3>4
      <4> QED BY <1>0, <4>1, <4>2 DEF OutputsInv, OpPartialIs
    <3>6. opPartial' \in [graph.ops -> SUBSET (Tensors(graph) \X BOOLEAN)]
      <4>1. Outputs(o) \subseteq Tensors(graph)
        BY PathFacts DEF Outputs
      <4>2. /\ A \in SUBSET Tensors(graph) /\ B \cup {t} \in SUBSET Tensors(graph)
            /\ A \cup {t} \in SUBSET Tensors(graph) /\ B \ {t} \in SUBSET Tensors(graph)
        BY <2>3, <4>1
      <4>3. /\ Pairs(A, B \cup {t}) \subseteq Tensors(graph) \X BOOLEAN
            /\ Pairs(A \cup {t}, B \ {t}) \subseteq Tensors(graph) \X BOOLEAN
        BY <4>2, PairsTyped, Zenon
      <4> QED BY <2>7, <4>3 DEF Registers
    <3>7. status' = status
      BY <2>7 DEF Registers
    <3> QED BY <1>0, <2>1, <2>4, <3>3, <3>4, <3>5, <3>6, <3>7
  <2> QED BY <2>5, <2>6, <2>7
<1> QED BY <1>3, <1>4 DEF insertForProducer

(* What else stays as it is.                                               *)
LEMMA MixedIsStatic ==
  ASSUME UNCHANGED <<graph, toLoss>>
  PROVE  /\ \A t : EdgeGradients(t)' = EdgeGradients(t)
         /\ \A o : MixedOutputs(o)' <=> MixedOutputs(o)
<1>1. \A t : EdgeGradients(t)' = EdgeGradients(t)
  BY Static DEF EdgeGradients
<1>2. \A o : MixedOutputs(o)' <=> MixedOutputs(o)
  BY <1>1, Static DEF MixedOutputs
<1> QED BY <1>1, <1>2

LEMMA ThrowsKept ==
  ASSUME ThrowsOnlyIfMixed, UNCHANGED <<graph, toLoss>>,
         status' = status \/ status' \notin Errors
  PROVE  ThrowsOnlyIfMixed'
BY MixedIsStatic DEF ThrowsOnlyIfMixed, Errors

LEMMA ReasonKept ==
  ASSUME ReasonInv, UNCHANGED <<graph, toLoss>>,
         Completed' \subseteq Completed, GivenUp' \subseteq GivenUp,
         \A t : Expected(t)' \subseteq Expected(t)
  PROVE  ReasonInv'
BY Static DEF ReasonInv

LEMMA OutputsKept ==
  ASSUME OutputsInv, GraphOK, UNCHANGED <<graph, toLoss, opPartial, sums, toProvide>>,
         Completed' = Completed, status' = status \/ status \notin Errors
  PROVE  OutputsInv'
<1>1. /\ \A o : Got(o)' = Got(o) /\ Outputs(o)' = Outputs(o)
      /\ \A t : Summed(t)' = Summed(t)
  BY Static DEF Got, Summed
<1>2. graph' = graph /\ toLoss' = toLoss
  OBVIOUS
<1> QED BY <1>1, <1>2 DEF OutputsInv

(* Only the edges and the registry of tensors change.                      *)
LEMMA EdgeKept ==
  ASSUME IInv, edges.with # {} \/ edges.without # {},
         UNCHANGED <<graph, toLoss, status, toProvide, opRegistry, loop, didSomething, history>>,
         RegistryInv', SumsInv', EdgesInv',
         \A t : Expected(t)' \subseteq Expected(t)
  PROVE  IInv'
<1>1. UNCHANGED <<opPartial, opComplete, opFailed, completeOrFailed, sums, grown, gaveUp>>
  BY DEF opRegistry, history
<1>2. Completed' = Completed /\ GivenUp' = GivenUp
  BY <1>1 DEF Completed, GivenUp
<1>3. GraphOK' /\ ReasonInv' /\ ThrowsOnlyIfMixed' /\ OutputsInv'
  BY <1>1, <1>2, Static, ReasonKept, ThrowsKept, OutputsKept DEF IInv
<1>4. OpsInv'
  BY <1>1, <1>2 DEF IInv, OpsInv
<1>5. ~NoEdges
  BY DEF NoEdges
<1>6. StartInv' /\ LoopInv'
  <2>1. Emptied' = Emptied /\ Emptied = {} /\ status # "start"
    BY <1>5 DEF IInv, StartInv, LoopInv, Emptied, Past
  <2>2. StartInv'
    BY <1>1, <2>1 DEF IInv, StartInv
  <2> QED BY <2>1, <2>2 DEF IInv, LoopInv
<1> QED BY <1>1, <1>3, <1>4, <1>6 DEF IInv

LEMMA InsertEdgeStep ==
  ASSUME IInv, NEW e \in edges.with, InsertEdge(e)
  PROVE  IInv'
<1>1. RegistryInv' /\ SumsInv' /\ EdgesInv' /\ \A t : Expected(t)' \subseteq Expected(t)
  BY InsertEdgeDecides DEF IInv
<1> QED BY <1>1, EdgeKept DEF InsertEdge

LEMMA DecrementStep ==
  ASSUME IInv, NEW e \in edges.without, decrementNumberExpectedEdges(e)
  PROVE  IInv'
<1>1. RegistryInv' /\ SumsInv' /\ EdgesInv' /\ \A t : Expected(t)' \subseteq Expected(t)
  BY DecrementDecides DEF IInv
<1> QED BY <1>1, EdgeKept DEF decrementNumberExpectedEdges

LEMMA GrowGradOpsStep ==
  ASSUME IInv, growGradOps
  PROVE  IInv'
<1>0. PICK o : o = Head(opComplete)
  OBVIOUS
<1>1. /\ opComplete # <<>> /\ opComplete \in Seq(toLoss) /\ grown \in Seq(toLoss)
      /\ status = "growing" /\ NoEdges /\ didSomething' = TRUE
      /\ opComplete' = Tail(opComplete) /\ grown' = Append(grown, o) /\ processGradOps(o)
      /\ UNCHANGED <<graph, toLoss, status, toProvide, tensorRegistry, opPartial, opFailed,
                     completeOrFailed, loop, sums, gaveUp>>
  BY <1>0 DEF growGradOps, Idle, NoEdges, IInv, OpsInv
<1>2. /\ o \in toLoss /\ opComplete' \in Seq(toLoss) /\ Distinct(opComplete')
      /\ Range(opComplete) = Range(opComplete') \cup {o} /\ o \notin Range(opComplete')
  BY <1>0, <1>1, TailFacts DEF IInv, OpsInv
<1>3. o \notin Range(grown) /\ o \notin Range(gaveUp)
  BY <1>2 DEF IInv, OpsInv, Completed, GivenUp
<1>4. /\ grown' \in Seq(toLoss) /\ Distinct(grown') /\ Range(grown') = Range(grown) \cup {o}
  BY <1>1, <1>2, <1>3, AppendFacts DEF IInv, OpsInv
<1>5. Completed' = Completed /\ GivenUp' = GivenUp
  BY <1>1, <1>2, <1>4 DEF Completed, GivenUp
<1>6. EdgesInv' /\ \A t : Came(t)' = Came(t) /\ Expected(t)' = Expected(t)
  BY <1>1, <1>2, <1>3, <1>4, ProcessDecidesNothing DEF IInv
<1>7. RegistryInv' /\ SumsInv'
  BY <1>1, <1>6, RegistrySame DEF IInv
<1>8. GraphOK' /\ ReasonInv' /\ ThrowsOnlyIfMixed' /\ OutputsInv'
  BY <1>1, <1>5, <1>6, Static, ReasonKept, ThrowsKept, OutputsKept DEF IInv, Errors
<1>9. OpsInv'
  BY <1>1, <1>2, <1>3, <1>4, <1>5 DEF IInv, OpsInv
<1>10. StartInv' /\ LoopInv'
  BY <1>1 DEF IInv, StartInv, LoopInv, Emptied
<1> QED BY <1>1, <1>6, <1>7, <1>8, <1>9, <1>10 DEF IInv

LEMMA FailGradOpsStep ==
  ASSUME IInv, failGradOps
  PROVE  IInv'
<1>0. PICK o : o = Head(opFailed)
  OBVIOUS
<1>1. /\ opFailed # <<>> /\ opFailed \in Seq(toLoss) /\ gaveUp \in Seq(toLoss)
      /\ status = "growing" /\ NoEdges /\ didSomething' = TRUE
      /\ opFailed' = Tail(opFailed) /\ gaveUp' = Append(gaveUp, o) /\ processNoGradOps(o)
      /\ UNCHANGED <<graph, toLoss, status, toProvide, tensorRegistry, opPartial, opComplete,
                     completeOrFailed, loop, sums, grown>>
  BY <1>0 DEF failGradOps, Idle, NoEdges, IInv, OpsInv
<1>2. /\ o \in toLoss /\ opFailed' \in Seq(toLoss) /\ Distinct(opFailed')
      /\ Range(opFailed) = Range(opFailed') \cup {o} /\ o \notin Range(opFailed')
  BY <1>0, <1>1, TailFacts DEF IInv, OpsInv
<1>3. o \notin Range(grown) /\ o \notin Range(gaveUp)
  BY <1>2 DEF IInv, OpsInv, Completed, GivenUp
<1>4. /\ gaveUp' \in Seq(toLoss) /\ Distinct(gaveUp')
      /\ Range(gaveUp') = Range(gaveUp) \cup {o}
  BY <1>1, <1>2, <1>3, AppendFacts DEF IInv, OpsInv
<1>5. Completed' = Completed /\ GivenUp' = GivenUp
  BY <1>1, <1>2, <1>4 DEF Completed, GivenUp
<1>6. EdgesInv' /\ \A t : Came(t)' = Came(t) /\ Expected(t)' = Expected(t)
  BY <1>1, <1>2, <1>3, <1>4, ProcessDecidesNothing DEF IInv
<1>7. RegistryInv' /\ SumsInv'
  BY <1>1, <1>6, RegistrySame DEF IInv
<1>8. GraphOK' /\ ReasonInv' /\ ThrowsOnlyIfMixed' /\ OutputsInv'
  BY <1>1, <1>5, <1>6, Static, ReasonKept, ThrowsKept, OutputsKept DEF IInv, Errors
<1>9. OpsInv'
  BY <1>1, <1>2, <1>3, <1>4, <1>5 DEF IInv, OpsInv
<1>10. StartInv' /\ LoopInv'
  BY <1>1 DEF IInv, StartInv, LoopInv, Emptied
<1> QED BY <1>1, <1>6, <1>7, <1>8, <1>9, <1>10 DEF IInv

(* The loop alone, or nothing, changes.                                    *)
LEMMA LoopKept ==
  ASSUME IInv, status' = status \/ (status = "growing" /\ status' = "done"), LoopInv',
         UNCHANGED <<graph, toLoss, toProvide, tensorRegistry, opRegistry, edges, history>>,
         status = "start" => loop' = loop /\ didSomething' = didSomething
  PROVE  IInv'
<1>1. UNCHANGED <<opPartial, opComplete, opFailed, completeOrFailed, sums, grown, gaveUp>>
  BY DEF opRegistry, history
<1>2. Completed' = Completed /\ GivenUp' = GivenUp
  BY <1>1 DEF Completed, GivenUp
<1>3. \A t : Came(t)' = Came(t) /\ Expected(t)' = Expected(t)
  BY <1>1, SameEdges
<1>4. RegistryInv' /\ SumsInv'
  BY <1>1, <1>3, RegistrySame DEF IInv
<1>5. GraphOK' /\ ReasonInv' /\ ThrowsOnlyIfMixed' /\ OutputsInv'
  BY <1>1, <1>2, <1>3, Static, ReasonKept, ThrowsKept, OutputsKept DEF IInv, Errors
<1>6. OpsInv' /\ EdgesInv' /\ StartInv'
  BY <1>1, <1>2 DEF IInv, OpsInv, EdgesInv, StartInv, NoEdges
<1> QED BY <1>1, <1>4, <1>5, <1>6 DEF IInv

LEMMA NextQueueStep ==
  ASSUME IInv, NextQueue
  PROVE  IInv'
<1>1. /\ status = "growing" /\ NoEdges
      /\ UNCHANGED <<graph, toLoss, status, toProvide, tensorRegistry, opRegistry, edges,
                     didSomething, history>>
      /\ \/ loop = "sums" /\ DOMAIN complete = {} /\ loop' = "failedSums"
         \/ loop = "failedSums" /\ failed = {} /\ loop' = "ops"
         \/ loop = "ops" /\ opComplete = <<>> /\ loop' = "failedOps"
  BY DEF NextQueue, Idle, NoEdges
<1>2. UNCHANGED <<complete, failed, opComplete, opFailed, edges>>
  BY <1>1 DEF tensorRegistry, opRegistry
<1>3. LoopInv'
  <2>1. Emptied' = IF didSomething THEN {} ELSE Past'
    BY <1>1 DEF Emptied
  <2>2. Emptied = IF didSomething THEN {} ELSE Past
    BY <1>1 DEF Emptied
  <2>3. NoEdges'
    BY <1>1 DEF NoEdges
  <2>4. CASE loop = "sums" /\ DOMAIN complete = {} /\ loop' = "failedSums"
    <3>1. Past' = {"sums"}
      BY <2>4 DEF Past
    <3> QED BY <1>1, <1>2, <2>1, <2>3, <2>4, <3>1 DEF IInv, LoopInv, AllQueues
  <2>5. CASE loop = "failedSums" /\ failed = {} /\ loop' = "ops"
    <3>1. Past' = {"sums", "failedSums"} /\ Past = {"sums"}
      BY <2>5 DEF Past
    <3> QED BY <1>1, <1>2, <2>1, <2>2, <2>3, <2>5, <3>1 DEF IInv, LoopInv, AllQueues
  <2>6. CASE loop = "ops" /\ opComplete = <<>> /\ loop' = "failedOps"
    <3>1. Past' = {"sums", "failedSums", "ops"} /\ Past = {"sums", "failedSums"}
      BY <2>6 DEF Past
    <3> QED BY <1>1, <1>2, <2>1, <2>2, <2>3, <2>6, <3>1 DEF IInv, LoopInv, AllQueues
  <2> QED BY <1>1, <2>4, <2>5, <2>6
<1> QED BY <1>1, <1>3, LoopKept

LEMMA NextRoundStep ==
  ASSUME IInv, NextRound
  PROVE  IInv'
<1>1. /\ status = "growing" /\ NoEdges /\ loop = "failedOps" /\ opFailed = <<>>
      /\ loop' = "sums" /\ didSomething' = FALSE
      /\ status' = IF didSomething THEN status ELSE "done"
      /\ UNCHANGED <<graph, toLoss, toProvide, tensorRegistry, opRegistry, edges, history>>
  BY DEF NextRound, Idle, NoEdges, newRound
<1>2. UNCHANGED <<complete, failed, opComplete, opFailed, edges>>
  BY <1>1 DEF tensorRegistry, opRegistry
<1>3. LoopInv'
  <2>1. NoEdges'
    BY <1>1 DEF NoEdges
  <2>2. CASE didSomething
    <3>1. Emptied' = {}
      BY <1>1, <2>2 DEF Emptied, Past
    <3> QED BY <1>1, <2>2, <3>1 DEF LoopInv, AllQueues
  <2>3. CASE ~didSomething
    <3>1. Emptied = {"sums", "failedSums", "ops"}
      BY <1>1, <2>3 DEF Emptied, Past
    <3>2. DOMAIN complete = {} /\ failed = {} /\ opComplete = <<>>
      BY <3>1 DEF IInv, LoopInv
    <3> QED BY <1>1, <1>2, <2>1, <2>3, <3>2 DEF LoopInv, AllQueues
  <2> QED BY <2>2, <2>3
<1> QED BY <1>1, <1>3, LoopKept

LEMMA StutteringStep ==
  ASSUME IInv, UNCHANGED vars
  PROVE  IInv'
<1>1. UNCHANGED <<graph, toLoss, status, toProvide, tensorRegistry, opRegistry, edges, loop,
                  didSomething, history>>
  BY DEF vars
<1>2. LoopInv'
  BY <1>1 DEF IInv, LoopInv, Emptied, Past, NoEdges, tensorRegistry, opRegistry
<1> QED BY <1>1, <1>2, LoopKept

LEMMA ProvideLossStep ==
  ASSUME IInv, ProvideLoss
  PROVE  IInv'
<1>1. /\ status = "start" /\ toProvide = {} /\ status' = "growing"
      /\ UNCHANGED <<graph, toLoss, toProvide, tensorRegistry, opRegistry, loop, didSomething,
                     sums, gaveUp>>
      /\ NoEdges /\ grown = <<>> /\ gaveUp = <<>> /\ opFailed = <<>>
      /\ loop = "sums" /\ ~didSomething
  BY DEF ProvideLoss, IInv, StartInv
<1>2. UNCHANGED <<opPartial, opComplete, opFailed, completeOrFailed>>
  BY <1>1 DEF opRegistry
<1>3. CASE graph.loss = NoOp
  <2>1. UNCHANGED <<edges, grown>>
    BY <1>3 DEF ProvideLoss
  <2>2. Completed' = Completed /\ GivenUp' = GivenUp
    BY <1>1, <1>2, <2>1 DEF Completed, GivenUp
  <2>3. \A t : Came(t)' = Came(t) /\ Expected(t)' = Expected(t)
    BY <1>1, <2>1, SameEdges
  <2>4. RegistryInv' /\ SumsInv'
    BY <1>1, <1>2, <2>3, RegistrySame DEF IInv
  <2>5. GraphOK' /\ ReasonInv' /\ ThrowsOnlyIfMixed' /\ OutputsInv'
    BY <1>1, <1>2, <2>2, <2>3, Static, ReasonKept, ThrowsKept, OutputsKept DEF IInv, Errors
  <2>6. OpsInv' /\ EdgesInv'
    BY <1>1, <1>2, <1>3, <2>1, <2>2 DEF IInv, OpsInv, EdgesInv
  <2>7. StartInv' /\ LoopInv'
    BY <1>1 DEF IInv, StartInv, LoopInv, Emptied, Past, AllQueues
  <2> QED BY <1>2, <2>4, <2>5, <2>6, <2>7, <1>1 DEF IInv
<1>4. CASE graph.loss # NoOp
  <2>1. PICK o : o = graph.loss
    OBVIOUS
  <2>2. processGradOps(o) /\ grown' = <<o>> /\ o \in toLoss /\ o \in Differentiable
    BY <1>4, <2>1, PathFacts, DifferentiableFacts DEF ProvideLoss, IInv
  <2>3. Range(grown) = {} /\ Range(gaveUp) = {} /\ Range(grown') = {o}
        /\ grown' \in Seq(toLoss) /\ Distinct(grown')
    BY <1>1, <2>2 DEF Range, Distinct
  <2>4. EdgesInv' /\ \A t : Came(t)' = Came(t) /\ Expected(t)' = Expected(t)
    BY <1>1, <2>2, <2>3, ProcessDecidesNothing DEF IInv
  <2>5. RegistryInv' /\ SumsInv'
    BY <1>1, <1>2, <2>4, RegistrySame DEF IInv
  <2>6. Completed' = Completed \cup {o} /\ GivenUp' = GivenUp /\ o \notin Completed
    BY <1>1, <1>2, <2>1, <2>3 DEF Completed, GivenUp, IInv, OpsInv
  <2>7. OpsInv'
    BY <1>1, <1>2, <2>1, <2>3, <2>6 DEF IInv, OpsInv
  <2>8. ReasonInv'
    BY <1>1, <2>2, <2>4, <2>6, Static DEF IInv, ReasonInv
  <2>9. OutputsInv'
    <3>1. /\ \A p : Got(p)' = Got(p) /\ Outputs(p)' = Outputs(p)
          /\ \A t : Summed(t)' = Summed(t)
      BY <1>1, Static DEF Got, Summed
    <3>2. status \notin Errors /\ graph' = graph /\ toLoss' = toLoss
      BY <1>1 DEF Errors
    <3> QED BY <1>2, <2>1, <2>6, <3>1, <3>2 DEF IInv, OutputsInv
  <2>10. GraphOK' /\ ThrowsOnlyIfMixed'
    BY <1>1, Static, ThrowsKept DEF IInv, Errors
  <2>11. StartInv' /\ LoopInv'
    BY <1>1 DEF IInv, StartInv, LoopInv, Emptied, Past, AllQueues
  <2> QED BY <1>1, <1>2, <2>4, <2>5, <2>7, <2>8, <2>9, <2>10, <2>11 DEF IInv
<1> QED BY <1>3, <1>4

-----------------------------------------------------------------------------
(***************************************************************************)
(* Ops that are given up and yet have a gradient.                          *)
(***************************************************************************)
LEMMA CameFromGradients ==
  ASSUME Completed \subseteq Differentiable, NEW t
  PROVE  Came(t) \subseteq EdgeGradients(t)
<1>1. PICK D : D = Differentiable
  OBVIOUS
<1> QED BY <1>1 DEF Came, EdgeGradients, Completed

(* Where no edge is expected, the ops of the others are given up.          *)
LEMMA NothingExpected ==
  ASSUME NEW t, Expected(t) = {}, NEW e \in ToLossEdges(t), e \notin graph.nograd
  PROVE  e[1] \in Range(gaveUp)
BY DEF Expected, Missing

(* Such an op has mixed outputs, and an output whose gradient has not been *)
(* grown yet though no consumer of it is given up in this way.             *)
LEMMA GivenUpTooEarly ==
  ASSUME IInv, status \notin Errors, GivenUp \cap Differentiable # {}
  PROVE  \E o \in GivenUp : \E t \in Outputs(o) :
            /\ o \in toLoss /\ MixedOutputs(o)
            /\ EdgeGradients(t) # {} /\ ~Summed(t)
            /\ \A e \in ToLossEdges(t) : e[1] \notin GivenUp \cap Differentiable
<1>0. PICK D : D = Differentiable
  OBVIOUS
<1>1. GraphOK /\ GivenUp \subseteq toLoss
  BY RangeInSet DEF IInv, OpsInv, GivenUp
<1>2. PICK o \in GivenUp \cap D :
        \A t \in graph.outs[o] : \A e \in ToLossEdges(t) : e[1] \notin GivenUp \cap D
  BY <1>0, <1>1, LastOfAll
<1>3. PICK u \in Outputs(o) : ToLossEdges(u) # {} /\ Expected(u) = {}
  BY <1>2 DEF IInv, ReasonInv
<1>4. EdgeGradients(u) = {}
  <2> SUFFICES ASSUME NEW e \in ToLossEdges(u), e \notin graph.nograd, e[1] \in D
               PROVE  FALSE
    BY <1>0 DEF EdgeGradients
  <2>1. e[1] \in GivenUp
    BY <1>3, NothingExpected DEF GivenUp
  <2> QED BY <1>2, <1>3, <2>1 DEF Outputs
<1>5. o \in toLoss /\ o # graph.loss /\ o \notin Completed
  BY <1>1, <1>2 DEF IInv, OpsInv
<1>6. PICK t \in Outputs(o) : t \notin Got(o)
  BY <1>5 DEF IInv, OutputsInv, Got
<1>7. ~Summed(t) /\ t \notin graph.provided
  <2>1. status # "start"
    <3> SUFFICES ASSUME status = "start" PROVE FALSE
      OBVIOUS
    <3>1. gaveUp = <<>> /\ opFailed = <<>>
      BY DEF IInv, StartInv
    <3> QED BY <1>2, <3>1 DEF GivenUp, Range
  <2> QED BY <1>6, <2>1 DEF Got, IInv, StartInv
<1>8. EdgeGradients(t) # {}
  BY <1>0, <1>1, <1>2, <1>5, <1>7, DifferentiableFacts
<1>9. MixedOutputs(o)
  BY <1>3, <1>4, <1>8 DEF MixedOutputs, Outputs
<1> QED BY <1>0, <1>2, <1>5, <1>7, <1>8, <1>9 DEF Outputs

(* An op that is given up while one of its outputs has a gradient.         *)
LEMMA GivenUpWithGradient ==
  ASSUME IInv, status \notin Errors, NEW o \in GivenUp, NEW t \in Outputs(o),
         EdgeGradients(t) # {}
  PROVE  \E p \in toLoss : MixedOutputs(p)
<1>0. PICK D : D = Differentiable
  OBVIOUS
<1>1. CASE GivenUp \cap D # {}
  BY <1>0, <1>1, GivenUpTooEarly
<1>2. CASE GivenUp \cap D = {}
  <2>1. PICK u \in Outputs(o) : ToLossEdges(u) # {} /\ Expected(u) = {}
    BY DEF IInv, ReasonInv
  <2>2. EdgeGradients(u) = {}
    BY <1>0, <1>2, <2>1, NothingExpected DEF EdgeGradients, GivenUp
  <2>3. MixedOutputs(o)
    BY <2>1, <2>2 DEF MixedOutputs, Outputs
  <2>4. o \in toLoss
    BY RangeInSet DEF IInv, OpsInv, GivenUp
  <2> QED BY <2>3, <2>4
<1> QED BY <1>1, <1>2

-----------------------------------------------------------------------------
(***************************************************************************)
(* The steps that tell the producer of a tensor about its gradient.        *)
(***************************************************************************)
(* An op all of whose outputs have a gradient is to be differentiated.     *)
LEMMA GotAllOutputs ==
  ASSUME IInv, NEW o \in toLoss, o # graph.loss, NEW t,
         \A u \in Outputs(o) : u \in graph.provided \/ Summed(u) \/ (u = t /\ Came(t) # {})
  PROVE  o \in Differentiable
<1>1. \A u : Summed(u) => Came(u) # {}
  BY DEF IInv, SumsInv, Summed
<1>2. \A u : Came(u) # {} => EdgeGradients(u) # {}
  BY CameFromGradients DEF IInv, ReasonInv
<1>3. GraphOK
  BY DEF IInv
<1> QED BY <1>1, <1>2, <1>3, DifferentiableFacts

LEMMA ProvideTensorStep ==
  ASSUME IInv, NEW t \in Tensors(graph), ProvideTensor(t)
  PROVE  IInv'
<1>1. /\ status = "start" /\ t \in toProvide /\ toProvide' = toProvide \ {t}
      /\ insertForProducer(t, TRUE)
      /\ UNCHANGED <<graph, toLoss, tensorRegistry, edges, loop, didSomething, history>>
      /\ NoEdges /\ sums = <<>> /\ grown = <<>> /\ gaveUp = <<>> /\ opFailed = <<>>
      /\ loop = "sums" /\ ~didSomething /\ toProvide \subseteq graph.provided
  BY DEF ProvideTensor, IInv, StartInv
<1>2. UNCHANGED <<sums, grown, gaveUp>>
  BY <1>1 DEF history
<1>3. /\ \A u : Summed(u)' <=> Summed(u)
      /\ ~Summed(t) /\ GivenUp = {}
      /\ \A p \in graph.ops : Got(p)' = Got(p) \cup ({t} \cap Outputs(p))
  <2>1. (\A u : Summed(u)' <=> Summed(u)) /\ ~Summed(t)
    BY <1>1, <1>2 DEF Summed
  <2>2. GivenUp = {}
    BY <1>1 DEF GivenUp, Range
  <2>3. \A p \in graph.ops : Got(p)' = Got(p) \cup ({t} \cap Outputs(p))
    BY <1>1, <2>1, Static DEF Got
  <2> QED BY <2>1, <2>2, <2>3
<1>4. /\ OpsInv' /\ OutputsInv' /\ GivenUp' = GivenUp
      /\ opPartial' \in [graph.ops -> SUBSET (Tensors(graph) \X BOOLEAN)]
      /\ completeOrFailed \subseteq completeOrFailed'
      /\ \A o \in Completed' :
            o \in Completed \/ (o \in toLoss /\ o # graph.loss /\ Got(o)' = Outputs(o))
      /\ status' = status
  <2>1. /\ GraphOK /\ OpsInv /\ OutputsInv
        /\ opPartial \in [graph.ops -> SUBSET (Tensors(graph) \X BOOLEAN)]
    BY DEF IInv
  <2>2. \A u : Summed(u)' <=> Summed(u) \/ (u = t /\ ~TRUE)
    BY <1>3
  <2>3. TRUE \in BOOLEAN /\ t \notin graph.provided \ toProvide
    BY <1>1
  <2> HIDE DEF IInv
  <2> QED BY <1>1, <1>2, <1>3, <2>1, <2>2, <2>3, InsertForProducer
<1>5. \A u : Came(u)' = Came(u) /\ Expected(u)' = Expected(u)
  BY <1>1, <1>2, SameEdges
<1>6. RegistryInv' /\ SumsInv'
  BY <1>1, <1>2, <1>4, <1>5, RegistrySame DEF IInv
<1>7. ReasonInv'
  <2>1. ASSUME NEW o \in Completed', o \notin Completed PROVE o \in Differentiable
    <3>1. o \in toLoss /\ o # graph.loss /\ Got(o)' = Outputs(o)
      BY <1>4, <2>1
    <3>2. \A u \in Outputs(o) : Summed(u) \/ u \in graph.provided
      BY <1>1, <1>3, <3>1 DEF Got
    <3> QED BY <3>1, <3>2, GotAllOutputs
  <2> QED BY <1>1, <1>4, <1>5, <2>1, Static DEF IInv, ReasonInv
<1>8. GraphOK' /\ ThrowsOnlyIfMixed' /\ EdgesInv'
  BY <1>1, <1>2, <1>4, Static, ThrowsKept DEF IInv, EdgesInv
<1>9. opFailed' = opFailed
  <2>1. opFailed' \in Seq(toLoss) /\ Range(opFailed') = {}
    BY <1>3, <1>4, <1>1 DEF GivenUp, OpsInv
  <2> QED BY <1>1, <2>1, RangeInSet
<1>10. StartInv'
  BY <1>1, <1>2, <1>4, <1>9 DEF IInv, StartInv, NoEdges
<1>11. LoopInv'
  <2>1. Emptied' = {}
    BY <1>1, <1>4 DEF Emptied, Past
  <2> QED BY <1>1, <1>4, <2>1 DEF IInv, LoopInv
<1> QED BY <1>1, <1>4, <1>6, <1>7, <1>8, <1>10, <1>11 DEF IInv

LEMMA GrowGradSumStep ==
  ASSUME IInv, NEW t \in Tensors(graph), growGradSum(t)
  PROVE  IInv'
<1> DEFINE sum == [of |-> t, edges |-> complete[t]]
<1>1. /\ status = "growing" /\ NoEdges /\ loop = "sums" /\ t \in DOMAIN complete
      /\ complete' = Restrict(complete, DOMAIN complete \ {t}) /\ sums' = Append(sums, sum)
      /\ insertForProducer(t, FALSE) /\ didSomething' = TRUE
      /\ UNCHANGED <<graph, toLoss, toProvide, expectedNumEdges, partial, failed, edges, loop,
                     grown, gaveUp>>
      /\ toProvide = {}
  BY DEF growGradSum, Idle, NoEdges, IInv, StartInv
<1>2. /\ TensorInv(t) /\ Came(t) = Expected(t) /\ Came(t) # {} /\ complete[t] = Came(t)
      /\ ~Summed(t)
  BY <1>1 DEF IInv, RegistryInv, TensorInv
<1>3. sum \in [of : Tensors(graph), edges : SUBSET (graph.ops \X Nat)] /\ GraphOK
  <2>1. Came(t) \in SUBSET ToLossEdges(t) /\ GraphOK
    BY CameExpected DEF IInv
  <2>2. complete[t] \in SUBSET (graph.ops \X Nat)
    BY <1>2, <2>1, EdgesFinite
  <2> QED BY <2>1, <2>2
<1>4. /\ sums' \in Seq([of : Tensors(graph), edges : SUBSET (graph.ops \X Nat)])
      /\ DOMAIN sums' = DOMAIN sums \cup {Len(sums) + 1} /\ Len(sums) + 1 \notin DOMAIN sums
      /\ sums'[Len(sums) + 1] = sum /\ \A i \in DOMAIN sums : sums'[i] = sums[i]
  BY <1>1, <1>3 DEF IInv, SumsInv
<1> HIDE DEF sum
<1>5. sum.of = t /\ sum.edges = Came(t)
  BY <1>2 DEF sum
<1>6. \A u : Summed(u)' <=> Summed(u) \/ u = t
  BY <1>4, <1>5 DEF Summed
<1>7. \A u : Came(u)' = Came(u) /\ Expected(u)' = Expected(u)
  BY <1>1, SameEdges
<1>8. /\ OpsInv' /\ OutputsInv' /\ GivenUp' = GivenUp
      /\ opPartial' \in [graph.ops -> SUBSET (Tensors(graph) \X BOOLEAN)]
      /\ completeOrFailed \subseteq completeOrFailed'
      /\ \A o \in Completed' :
            o \in Completed \/ (o \in toLoss /\ o # graph.loss /\ Got(o)' = Outputs(o))
      /\ \/ status' = status
         \/ /\ status' = "already failed or completed"
            /\ \E o \in GivenUp : t \in Outputs(o)
  <2>1. /\ GraphOK /\ OpsInv /\ OutputsInv
        /\ opPartial \in [graph.ops -> SUBSET (Tensors(graph) \X BOOLEAN)]
    BY DEF IInv
  <2>2. \A u : Summed(u)' <=> Summed(u) \/ (u = t /\ ~FALSE)
    BY <1>6
  <2>3. \A p \in graph.ops : Got(p)' = Got(p) \cup ({t} \cap Outputs(p))
    BY <1>1, <1>6, Static DEF Got
  <2>4. FALSE \in BOOLEAN
    OBVIOUS
  <2> QED BY <1>1, <1>2, <2>1, <2>2, <2>3, <2>4, InsertForProducer
<1>9. /\ \A u : ToLossEdges(u)' = ToLossEdges(u) /\ Producers(u)' = Producers(u)
      /\ Tensors(graph)' = Tensors(graph) /\ graph' = graph
  BY <1>1, Static
<1>10. RegistryInv'
  <2>1. DOMAIN complete' = DOMAIN complete \ {t}
        /\ \A u \in DOMAIN complete : u # t => complete'[u] = complete[u]
    BY <1>1 DEF Restrict
  <2>2. TensorInv(t)'
    BY <1>1, <1>2, <1>6, <1>7, <1>8, <1>9, <2>1 DEF TensorInv
  <2>3. ASSUME NEW u \in Tensors(graph), u # t PROVE TensorInv(u)'
    <3>1. TensorInv(u)
      BY DEF IInv, RegistryInv
    <3> QED BY <1>1, <1>6, <1>7, <1>8, <1>9, <2>1, <2>3, <3>1 DEF TensorInv
  <2> QED BY <1>1, <1>9, <2>1, <2>2, <2>3 DEF IInv, RegistryInv
<1>11. SumsInv'
  <2>1. \A i \in DOMAIN sums : sums[i].of # t
    BY <1>2 DEF Summed
  <2> QED BY <1>2, <1>4, <1>5, <1>7, <1>9, <2>1 DEF IInv, SumsInv
<1>12. ReasonInv'
  <2>1. ASSUME NEW o \in Completed', o \notin Completed PROVE o \in Differentiable
    <3>1. o \in toLoss /\ o # graph.loss /\ Got(o)' = Outputs(o)
      BY <1>8, <2>1
    <3>2. \A u \in Outputs(o) :
             u \in graph.provided \/ Summed(u) \/ (u = t /\ Came(t) # {})
      BY <1>1, <1>2, <1>6, <3>1 DEF Got
    <3> QED BY <3>1, <3>2, GotAllOutputs
  <2> QED BY <1>1, <1>7, <1>8, <2>1, Static DEF IInv, ReasonInv
<1>13. ThrowsOnlyIfMixed'
  <2>1. CASE status' = status
    BY <1>1, <2>1, ThrowsKept DEF IInv
  <2>2. CASE status' = "already failed or completed" /\ \E o \in GivenUp : t \in Outputs(o)
    <3>1. EdgeGradients(t) # {}
      BY <1>2, CameFromGradients DEF IInv, ReasonInv
    <3>2. status \notin Errors
      BY <1>1 DEF Errors
    <3>3. \E p \in toLoss : MixedOutputs(p)
      BY <2>2, <3>1, <3>2, GivenUpWithGradient
    <3> QED BY <1>1, <2>2, <3>3, MixedIsStatic DEF ThrowsOnlyIfMixed
  <2> QED BY <1>8, <2>1, <2>2
<1>14. GraphOK' /\ EdgesInv' /\ StartInv'
  BY <1>1, <1>8, Static DEF IInv, EdgesInv, StartInv
<1>15. LoopInv'
  BY <1>1, <1>8 DEF IInv, LoopInv, Emptied, Errors
<1> QED BY <1>8, <1>9, <1>10, <1>11, <1>12, <1>13, <1>14, <1>15 DEF IInv

LEMMA FailGradSumStep ==
  ASSUME IInv, NEW t \in Tensors(graph), failGradSum(t)
  PROVE  IInv'
<1>1. /\ status = "growing" /\ t \in failed /\ failed' = failed \ {t} /\ failForProducer(t)
      /\ didSomething' = TRUE
      /\ UNCHANGED <<graph, toLoss, status, toProvide, expectedNumEdges, partial, complete,
                     edges, loop, sums, grown, gaveUp>>
  BY DEF failGradSum, Idle, history
<1>2. GraphOK /\ ToLossEdges(t) # {} /\ Expected(t) = {}
  BY <1>1 DEF IInv, RegistryInv, TensorInv
<1>3. \A u : Came(u)' = Came(u) /\ Expected(u)' = Expected(u) /\ (Summed(u)' <=> Summed(u))
  BY <1>1, SameEdges DEF Summed
<1>4. /\ \A u : ToLossEdges(u)' = ToLossEdges(u) /\ Producers(u)' = Producers(u)
      /\ \A o : Outputs(o)' = Outputs(o)
      /\ Tensors(graph)' = Tensors(graph) /\ graph' = graph /\ Differentiable' = Differentiable
  BY <1>1, Static
<1>5. /\ OpsInv' /\ Completed' = Completed /\ opPartial' = opPartial
      /\ completeOrFailed \cup Producers(t) \subseteq completeOrFailed'
      /\ \A o \in GivenUp' : o \in GivenUp \/ t \in Outputs(o)
  <2>1. CASE UNCHANGED opRegistry /\ Producers(t) \subseteq completeOrFailed
    BY <1>1, <2>1 DEF IInv, OpsInv, Completed, GivenUp, opRegistry
  <2>2. ASSUME NEW o \in Producers(t), o \notin completeOrFailed,
               opFailed' = Append(opFailed, o),
               completeOrFailed' = completeOrFailed \cup {o},
               UNCHANGED <<opPartial, opComplete>>
        PROVE  /\ OpsInv' /\ Completed' = Completed /\ opPartial' = opPartial
               /\ completeOrFailed \cup Producers(t) \subseteq completeOrFailed'
               /\ \A p \in GivenUp' : p \in GivenUp \/ t \in Outputs(p)
    <3>1. o \in toLoss /\ o # graph.loss /\ t \in Outputs(o) /\ Producers(t) = {o}
      BY <1>2, ProducerFacts DEF Producers, Outputs
    <3>2. o \notin Completed /\ o \notin GivenUp
      BY <2>2, <3>1 DEF IInv, OpsInv
    <3>3. /\ opFailed' \in Seq(toLoss) /\ Distinct(opFailed')
          /\ Range(opFailed') = Range(opFailed) \cup {o}
      BY <2>2, <3>1, <3>2, AppendFacts DEF IInv, OpsInv, GivenUp
    <3>4. Completed' = Completed /\ GivenUp' = GivenUp \cup {o}
      BY <1>1, <2>2, <3>3 DEF Completed, GivenUp
    <3>5. OpsInv'
      BY <1>1, <2>2, <3>1, <3>2, <3>3, <3>4 DEF IInv, OpsInv, GivenUp
    <3> QED BY <2>2, <3>1, <3>4, <3>5
  <2>3. \A o, p \in Producers(t) : o = p
    BY <1>2, ProducerFacts
  <2> QED BY <1>1, <2>1, <2>2, <2>3 DEF failForProducer, failOutput
<1>6. RegistryInv'
  <2>1. ASSUME NEW u \in Tensors(graph) PROVE TensorInv(u)'
    <3>1. TensorInv(u)
      BY DEF IInv, RegistryInv
    <3>2. u # t => (u \in failed' <=> u \in failed)
      BY <1>1
    <3> QED BY <1>1, <1>3, <1>4, <1>5, <3>1, <3>2 DEF TensorInv
  <2> QED BY <1>1, <1>4, <2>1 DEF IInv, RegistryInv
<1>7. SumsInv'
  BY <1>1, <1>3, <1>4 DEF IInv, SumsInv
<1>8. ReasonInv'
  BY <1>2, <1>3, <1>4, <1>5 DEF IInv, ReasonInv
<1>9. GraphOK' /\ EdgesInv' /\ StartInv' /\ ThrowsOnlyIfMixed' /\ OutputsInv'
  BY <1>1, <1>5, Static, ThrowsKept, OutputsKept DEF IInv, EdgesInv, StartInv
<1>10. LoopInv'
  BY <1>1 DEF IInv, LoopInv, Emptied
<1> QED BY <1>4, <1>5, <1>6, <1>7, <1>8, <1>9, <1>10 DEF IInv

-----------------------------------------------------------------------------
(***************************************************************************)
(* The invariant is inductive.                                             *)
(***************************************************************************)
LEMMA InitEstablishesInvariant ==
  ASSUME Init
  PROVE  IInv
<1>1. /\ GraphOK /\ status = "start" /\ toProvide = graph.provided
      /\ expectedNumEdges = [t \in Tensors(graph) |-> edgesToLoss(t)]
      /\ partial = [t \in Tensors(graph) |-> {}] /\ complete = <<>> /\ failed = {}
      /\ opPartial = [o \in graph.ops |-> {}]
      /\ opComplete = <<>> /\ opFailed = <<>> /\ completeOrFailed = {}
      /\ edges = [with |-> {}, without |-> {}] /\ loop = "sums" /\ didSomething = FALSE
      /\ sums = <<>> /\ grown = <<>> /\ gaveUp = <<>>
  BY DEF Init, GraphOK
<1>2. Completed = {} /\ GivenUp = {}
  BY <1>1 DEF Completed, GivenUp, Range
<1>3. OpsInv
  BY <1>1, <1>2 DEF OpsInv, Distinct, Range
<1>4. EdgesInv /\ StartInv
  BY <1>1 DEF EdgesInv, StartInv, NoEdges
<1>5. \A t : ~Summed(t) /\ Came(t) = {} /\ Expected(t) = ToLossEdges(t)
  <2>1. Range(grown) = {} /\ Range(gaveUp) = {}
    BY <1>1 DEF Range
  <2> QED BY <1>1, <2>1 DEF Summed, Came, Expected, Missing
<1>6. RegistryInv
  <2>1. \A t : IsFiniteSet(ToLossEdges(t)) /\ Cardinality(ToLossEdges(t)) \in Nat
    BY <1>1, FiniteEdges, FS_CardinalityType
  <2>2. DOMAIN complete = {}
    BY <1>1
  <2>3. ASSUME NEW t \in Tensors(graph) PROVE TensorInv(t)
    BY <1>1, <1>5, <2>2 DEF TensorInv, edgesToLoss
  <2> QED BY <1>1, <2>1, <2>2, <2>3 DEF RegistryInv, edgesToLoss
<1>7. SumsInv
  BY <1>1 DEF SumsInv
<1>8. /\ opPartial \in [graph.ops -> SUBSET (Tensors(graph) \X BOOLEAN)]
      /\ OutputsInv
  <2>1. \A o : Got(o) = {}
    BY <1>1, <1>5 DEF Got
  <2>2. Pairs({}, {}) = {}
    BY DEF Pairs
  <2>3. \A o \in toLoss : o # graph.loss => Outputs(o) # {}
    BY <1>1, PathFacts
  <2> QED BY <1>1, <1>2, <2>1, <2>2, <2>3 DEF OutputsInv
<1>9. ReasonInv /\ LoopInv /\ ThrowsOnlyIfMixed
  BY <1>1, <1>2 DEF ReasonInv, LoopInv, ThrowsOnlyIfMixed, Emptied, Past, AllQueues
<1> QED BY <1>1, <1>3, <1>4, <1>6, <1>7, <1>8, <1>9 DEF IInv

LEMMA StepKeepsInvariant ==
  ASSUME IInv, [Next]_vars
  PROVE  IInv'
<1>1. ASSUME NEW t \in Tensors(graph), ProvideTensor(t) PROVE IInv'
  BY <1>1, ProvideTensorStep
<1>2. ASSUME NEW t \in Tensors(graph), growGradSum(t) PROVE IInv'
  BY <1>2, GrowGradSumStep
<1>3. ASSUME NEW t \in Tensors(graph), failGradSum(t) PROVE IInv'
  BY <1>3, FailGradSumStep
<1>4. CASE ProvideLoss
  BY <1>4, ProvideLossStep
<1>5. ASSUME NEW e \in edges.with, InsertEdge(e) PROVE IInv'
  BY <1>5, InsertEdgeStep
<1>6. ASSUME NEW e \in edges.without, decrementNumberExpectedEdges(e) PROVE IInv'
  BY <1>6, DecrementStep
<1>7. CASE growGradOps
  BY <1>7, GrowGradOpsStep
<1>8. CASE failGradOps
  BY <1>8, FailGradOpsStep
<1>9. CASE NextQueue
  BY <1>9, NextQueueStep
<1>10. CASE NextRound
  BY <1>10, NextRoundStep
<1>11. CASE UNCHANGED vars
  BY <1>11, StutteringStep
<1> QED BY <1>1, <1>2, <1>3, <1>4, <1>5, <1>6, <1>7, <1>8, <1>9, <1>10, <1>11 DEF Next

\* The registries count exactly the edges that have come and those that are
\* expected, every complete sum adds up the partial gradients of all the edges
\* it waits for, and an op is completed or given up for a reason (GradGrower,
\* GradNonGradTensors, OpsToGrow): the inductive invariant behind the theorems
\* below, for every graph that GraphsAssumption admits.
THEOREM Invariant == Spec => []IInv
<1>1. Init => IInv
  BY InitEstablishesInvariant
<1>2. IInv /\ [Next]_vars => IInv'
  BY StepKeepsInvariant
<1> QED BY <1>1, <1>2, PTL DEF Spec

(***************************************************************************)
(* The end: every op on a path to the loss is differentiated or given up.  *)
(***************************************************************************)
LEMMA AllDecided ==
  ASSUME IInv, status = "done"
  PROVE  /\ toLoss = Completed \cup GivenUp
         /\ Completed = Range(grown) /\ GivenUp = Range(gaveUp)
         /\ NoEdges /\ DOMAIN complete = {} /\ failed = {} /\ toProvide = {}
<1>1. /\ NoEdges /\ DOMAIN complete = {} /\ failed = {} /\ opComplete = <<>> /\ opFailed = <<>>
      /\ toProvide = {} /\ GraphOK /\ status \notin Errors /\ status # "start"
  BY DEF IInv, LoopInv, Emptied, AllQueues, StartInv, Errors
<1>2. Completed = Range(grown) /\ GivenUp = Range(gaveUp)
  BY <1>1 DEF Completed, GivenUp, Range
<1>3. Completed \cup GivenUp \subseteq toLoss
  BY RangeInSet DEF IInv, OpsInv, Completed, GivenUp
<1> DEFINE S == toLoss \ (Completed \cup GivenUp)
<1>4. S = {}
  <2> SUFFICES ASSUME S # {} PROVE FALSE
    OBVIOUS
  <2>1. PICK o \in S : \A t \in graph.outs[o] : \A e \in ToLossEdges(t) : e[1] \notin S
    BY <1>1, LastOfAll
  <2>2. o \in toLoss /\ o # graph.loss /\ o \notin completeOrFailed /\ o \in graph.ops
    <3>1. o \in toLoss /\ o \in graph.ops /\ graph.loss # NoOp => graph.loss \in Completed
      BY <1>1, <1>2, PathFacts DEF IInv, OpsInv
    <3>2. NoOp \notin graph.ops
      BY <1>1, PathFacts DEF IsGraph
    <3> QED BY <3>1, <3>2, <1>2, PathFacts, <1>1 DEF IInv, OpsInv
  <2>3. ASSUME NEW t \in Outputs(o) PROVE t \in Got(o)
    <3>1. t \in ToLossTensors /\ o \in Producers(t) /\ t \in Tensors(graph)
      BY <1>1, <2>2, ProducerFacts DEF Outputs
    <3>2. CASE ToLossEdges(t) = {}
      BY <1>1, <3>1, <3>2, PathFacts DEF Got
    <3>3. CASE ToLossEdges(t) # {}
      <4>1. \A e \in ToLossEdges(t) : e[1] \in Range(grown) \cup Range(gaveUp)
        BY <1>2, <2>1, InputsAreEdges DEF Outputs
      <4>2. Came(t) = Expected(t)
        BY <1>1, <4>1 DEF Came, Expected, Missing, NoEdges, IInv, OpsInv, Completed, GivenUp
      <4>3. TensorInv(t)
        BY <3>1 DEF IInv, RegistryInv
      <4>4. Came(t) # {}
        BY <1>1, <2>2, <3>1, <3>3, <4>2, <4>3 DEF TensorInv
      <4>5. Summed(t)
        BY <1>1, <4>2, <4>3, <4>4 DEF TensorInv
      <4> QED BY <4>5 DEF Got
    <3> QED BY <3>2, <3>3
  <2>4. o \in Completed
    BY <1>1, <2>2, <2>3 DEF IInv, OutputsInv, Got
  <2> QED BY <2>4
<1> QED BY <1>1, <1>2, <1>3, <1>4

(* Once all edges of a tensor are decided, the sum of what came is grown.  *)
LEMMA DecidedIsSummed ==
  ASSUME IInv, status = "done", NEW t \in Tensors(graph),
         NEW e \in ToLossEdges(t), e \notin graph.nograd, e[1] \in Range(grown)
  PROVE  Summed(t)
<1>1. NoEdges /\ DOMAIN complete = {} /\ toLoss = Range(grown) \cup Range(gaveUp)
  BY AllDecided
<1>2. e \in Came(t)
  BY <1>1 DEF Came, NoEdges
<1>3. \A c \in ToLossEdges(t) : c[1] \in Range(grown) \cup Range(gaveUp)
  <2>1. \A c \in ToLossEdges(t) : c[1] \in toLoss
    BY LossEdges, EdgesTyped
  <2> QED BY <1>1, <2>1
<1>4. Came(t) = Expected(t)
  BY <1>1, <1>3 DEF Came, Expected, Missing, NoEdges, IInv, OpsInv, Completed, GivenUp
<1>5. TensorInv(t)
  BY DEF IInv, RegistryInv
<1> QED BY <1>1, <1>2, <1>4, <1>5 DEF TensorInv

(* In the end no op that has a gradient was given up; and before, unless   *)
(* an op has mixed outputs.                                                *)
LEMMA NoneGivenUpWrongly ==
  ASSUME IInv, status = "done" \/ ~ \E o \in toLoss : MixedOutputs(o)
  PROVE  GivenUp \cap Differentiable = {}
<1> SUFFICES ASSUME GivenUp \cap Differentiable # {} PROVE FALSE
  OBVIOUS
<1>0. PICK D : D = Differentiable
  OBVIOUS
<1>1. status \notin Errors
  BY DEF IInv, ThrowsOnlyIfMixed, Errors
<1>2. PICK o \in GivenUp : \E t \in Outputs(o) :
        /\ o \in toLoss /\ MixedOutputs(o) /\ EdgeGradients(t) # {} /\ ~Summed(t)
        /\ \A e \in ToLossEdges(t) : e[1] \notin GivenUp \cap D
  BY <1>0, <1>1, GivenUpTooEarly
<1>3. PICK t \in Outputs(o) :
        /\ EdgeGradients(t) # {} /\ ~Summed(t)
        /\ \A e \in ToLossEdges(t) : e[1] \notin GivenUp \cap D
  BY <1>2
<1>4. status = "done"
  BY <1>2
<1>5. PICK e \in ToLossEdges(t) : e \notin graph.nograd /\ e[1] \in D
  BY <1>0, <1>3 DEF EdgeGradients
<1>6. e[1] \in toLoss
  BY LossEdges, EdgesTyped
<1>7. e[1] \in Range(grown)
  BY <1>4, <1>5, <1>6, <1>3, AllDecided
<1>8. t \in Tensors(graph)
  BY PathFacts DEF Outputs, IInv
<1> QED BY <1>3, <1>4, <1>5, <1>7, <1>8, DecidedIsSummed

-----------------------------------------------------------------------------
(***************************************************************************)
(* The theorems.                                                           *)
(***************************************************************************)
LEMMA SeqOfMore ==
  ASSUME NEW S, NEW T, S \subseteq T, NEW s \in Seq(S)
  PROVE  s \in Seq(T)
OBVIOUS

(* Every variable of the two registries keeps its type, whatever the graph. *)
THEOREM TypeCorrect == Spec => []TypeOK
<1>1. IInv => TypeOK
  <2> SUFFICES ASSUME IInv PROVE TypeOK
    OBVIOUS
  <2>1. /\ GraphOK /\ OpsInv /\ RegistryInv /\ StartInv /\ LoopInv
        /\ opPartial \in [graph.ops -> SUBSET (Tensors(graph) \X BOOLEAN)]
    BY DEF IInv
  <2>2. toLoss \subseteq graph.ops
    BY <2>1, PathFacts
  <2>3. {opComplete, opFailed, grown, gaveUp} \subseteq Seq(graph.ops)
    BY <2>1, <2>2, SeqOfMore DEF OpsInv
  <2>4. completeOrFailed \subseteq graph.ops
    <3>1. Completed \cup GivenUp \subseteq toLoss
      BY <2>1, RangeInSet DEF OpsInv, Completed, GivenUp
    <3> QED BY <2>1, <2>2, <3>1 DEF OpsInv
  <2> QED
    BY <2>1, <2>3, <2>4 DEF TypeOK, GraphOK, RegistryInv, StartInv, LoopInv, AllQueues
<1> QED BY <1>1, Invariant, PTL

(* No op is differentiated twice, or given up and differentiated, whatever  *)
(* the order in which the queues give up their elements.                    *)
THEOREM OpsOnlyOnce == Spec => []OpsOnce
<1>1. IInv => OpsOnce
  <2> SUFFICES ASSUME IInv PROVE OpsOnce
    OBVIOUS
  <2> DEFINE ops == grown \o gaveUp
  <2>1. /\ grown \in Seq(toLoss) /\ gaveUp \in Seq(toLoss)
        /\ Distinct(grown) /\ Distinct(gaveUp)
        /\ \A i \in DOMAIN grown, j \in DOMAIN gaveUp : grown[i] # gaveUp[j]
    BY DEF IInv, OpsInv, Completed, GivenUp, Range
  <2>2. /\ Len(grown) \in Nat /\ Len(gaveUp) \in Nat
        /\ DOMAIN grown = 1 .. Len(grown) /\ DOMAIN gaveUp = 1 .. Len(gaveUp)
        /\ DOMAIN ops = 1 .. Len(grown) + Len(gaveUp)
        /\ \A i \in DOMAIN ops : ops[i] = IF i <= Len(grown) THEN grown[i]
                                          ELSE gaveUp[i - Len(grown)]
    BY <2>1
  <2> HIDE DEF ops
  <2>3. ASSUME NEW i \in DOMAIN ops, NEW j \in DOMAIN ops, ops[i] = ops[j] PROVE i = j
    <3>1. /\ i <= Len(grown) => i \in DOMAIN grown /\ ops[i] = grown[i]
          /\ i > Len(grown) => i - Len(grown) \in DOMAIN gaveUp
                               /\ ops[i] = gaveUp[i - Len(grown)]
      BY <2>2
    <3>2. /\ j <= Len(grown) => j \in DOMAIN grown /\ ops[j] = grown[j]
          /\ j > Len(grown) => j - Len(grown) \in DOMAIN gaveUp
                               /\ ops[j] = gaveUp[j - Len(grown)]
      BY <2>2
    <3>3. i \in Int /\ j \in Int
      BY <2>2
    <3>4. i <= Len(grown) <=> j <= Len(grown)
      BY <2>1, <2>2, <2>3, <3>1, <3>2, <3>3
    <3>5. CASE i <= Len(grown)
      BY <2>1, <2>3, <3>1, <3>2, <3>4, <3>5 DEF Distinct
    <3>6. CASE i > Len(grown)
      <4>1. j > Len(grown)
        BY <2>2, <3>3, <3>4, <3>6
      <4>2. i - Len(grown) = j - Len(grown)
        BY <2>1, <2>3, <3>1, <3>2, <3>6, <4>1 DEF Distinct
      <4> QED BY <2>2, <3>3, <4>2
    <3> QED BY <2>2, <3>3, <3>5, <3>6
  <2> QED BY <2>3 DEF OpsOnce, ops
<1> QED BY <1>1, Invariant, PTL

(* A sum is grown from all edges that bring a gradient, and once; where it  *)
(* may not be, because an op has mixed outputs, autodiff does not end       *)
(* without an error.                                                        *)
THEOREM SumsAreComplete == Spec => []SumsComplete
<1>1. IInv => SumsComplete
  <2> SUFFICES ASSUME IInv PROVE SumsComplete
    OBVIOUS
  <2>1. ASSUME NEW i \in DOMAIN sums PROVE sums[i].edges \subseteq EdgeGradients(sums[i].of)
    BY CameFromGradients DEF IInv, SumsInv, ReasonInv
  <2>2. ASSUME status = "done" \/ ~ \E o \in toLoss : MixedOutputs(o), NEW i \in DOMAIN sums
        PROVE  EdgeGradients(sums[i].of) \subseteq sums[i].edges
    <3>0. PICK D : D = Differentiable
      OBVIOUS
    <3>1. GivenUp \cap D = {}
      BY <2>2, <3>0, NoneGivenUpWrongly
    <3>2. PICK t : t = sums[i].of
      OBVIOUS
    <3>3. sums[i].edges = Expected(t)
      BY <3>2 DEF IInv, SumsInv
    <3>4. EdgeGradients(t) \subseteq Expected(t)
      BY <3>0, <3>1 DEF EdgeGradients, Expected, Missing, GivenUp
    <3> QED BY <3>2, <3>3, <3>4
  <2>3. \A i, j \in DOMAIN sums : sums[i].of = sums[j].of => i = j
    BY DEF IInv, SumsInv
  <2>4. \/ \A i \in DOMAIN sums : sums[i].edges = EdgeGradients(sums[i].of)
        \/ status # "done" /\ \E o \in toLoss : MixedOutputs(o)
    BY <2>1, <2>2
  <2> QED BY <2>1, <2>3, <2>4 DEF SumsComplete
<1> QED BY <1>1, Invariant, PTL

(* When autodiff ends, exactly the gradients that exist by their definition *)
(* were grown, on every graph and in every order of the queues.             *)
THEOREM AllGradientsGrown == Spec => []GrowsAllGradients
<1>1. IInv => GrowsAllGradients
  <2> SUFFICES ASSUME IInv PROVE GrowsAllGradients
    OBVIOUS
  <2>0. PICK D : D = Differentiable
    OBVIOUS
  <2>1. Completed \subseteq D /\ Range(grown) \subseteq D /\ GraphOK /\ D \subseteq toLoss
    BY <2>0, DifferentiableFacts DEF IInv, ReasonInv, Completed
  <2>2. ASSUME status = "done"
        PROVE  /\ Range(grown) = D
               /\ {sums[i].of : i \in DOMAIN sums} =
                     {t \in Tensors(graph) : EdgeGradients(t) # {}}
    <3>1. Range(grown) = D
      <4>1. toLoss = Range(grown) \cup GivenUp
        BY <2>2, AllDecided
      <4>2. GivenUp \cap D = {}
        BY <2>0, <2>2, NoneGivenUpWrongly
      <4> QED BY <2>1, <4>1, <4>2
    <3>2. ASSUME NEW i \in DOMAIN sums
          PROVE  sums[i].of \in Tensors(graph) /\ EdgeGradients(sums[i].of) # {}
      <4>1. sums[i].of \in Tensors(graph)
        <5> DEFINE T == [of : Tensors(graph), edges : SUBSET (graph.ops \X Nat)]
        <5>1. sums \in Seq(T)
          BY DEF IInv, SumsInv
        <5> HIDE DEF T
        <5>2. sums[i] \in T
          BY <5>1
        <5> QED BY <5>2 DEF T
      <4>2. Came(sums[i].of) # {}
        BY DEF IInv, SumsInv
      <4> QED BY <2>0, <2>1, <4>1, <4>2, CameFromGradients
    <3>3. ASSUME NEW t \in Tensors(graph), EdgeGradients(t) # {}
          PROVE  \E i \in DOMAIN sums : sums[i].of = t
      <4>1. PICK e \in ToLossEdges(t) : e \notin graph.nograd /\ e[1] \in D
        BY <2>0, <3>3 DEF EdgeGradients
      <4>2. Summed(t)
        BY <2>2, <3>1, <4>1, DecidedIsSummed
      <4> QED BY <4>2 DEF Summed
    <3> QED BY <3>1, <3>2, <3>3
  <2> QED BY <2>0, <2>1, <2>2 DEF GrowsAllGradients
<1> QED BY <1>1, Invariant, PTL

(* Autodiff throws no internal error but where an op on a path to the loss *)
(* has an output with a gradient and another whose edges bring none.       *)
THEOREM ErrorsAreMixedOutputs == Spec => []ThrowsOnlyIfMixed
<1>1. IInv => ThrowsOnlyIfMixed
  BY DEF IInv
<1> QED BY <1>1, Invariant, PTL

=============================================================================
