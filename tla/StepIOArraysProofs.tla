------------------------- MODULE StepIOArraysProofs -------------------------
(***************************************************************************)
(* Proofs about DataFlow and StepIOArrays, for every flow that the code    *)
(* accepts with an accumulation factor that is 1 or enabled: what          *)
(* CorrectnessAsserter demands of an array is what the streams move per    *)
(* step, and how far they are in it, from the invariants of the splitter.  *)
(***************************************************************************)
EXTENDS StepIOArrays, TLAPS, WellFoundedInduction

SP == INSTANCE StepIOSplitterProofs WITH Adapters <- Replicas,
                                         Streamed <- Replicas

LEMMA DivExact ==
  ASSUME NEW a \in Nat, NEW b \in Nat \ {0}
  PROVE  (a * b) \div b = a
OBVIOUS

LEMMA DivMod ==
  ASSUME NEW a \in Nat, NEW b \in Nat \ {0}, a % b = 0
  PROVE  a \div b \in Nat /\ a = (a \div b) * b
OBVIOUS

\* The factors that the streams use are those that the arrays use.
LEMMA FactorsAgree ==
  ASSUME NEW f \in Flows, Accepted(f), AccumulationConsistent(f)
  PROVE  /\ accumFactor(f) = f.accumulationFactor
         /\ getReplicationFactor(f) = f.replicatedGraphCount
BY DEF Accepted, FactorsConsistent, AccumulationConsistent, accumFactor, getReplicationFactor

\* The input's array holds what the connected streams read.
LEMMA InputSize ==
  ASSUME NEW f \in Flows, Accepted(f), AccumulationConsistent(f)
  PROVE  getInExpected(f) = numStreamed(f) * maxInputsPerRepl(f) * f.nelms
<1> DEFINE n == f.nelms  a == f.accumulationFactor  b == f.batchesPerStep
           c == f.replicatedGraphCount
<1>1. n \in Nat /\ a \in Nat /\ b \in Nat /\ c \in Nat
  BY DEF Flows
<1>2. /\ getInExpected(f) = (n * a * b) * (IF f.broadcast THEN 1 ELSE c)
      /\ maxInputsPerRepl(f) = b * a
      /\ numStreamed(f) = (IF f.broadcast THEN 1 ELSE c)
  BY FactorsAgree
  DEF getInExpected, getBaseExpected, maxInputsPerRepl, numStreamed
<1> HIDE DEF n, a, b, c
<1>3. (n * a * b) * 1 = 1 * (b * a) * n /\ (n * a * b) * c = c * (b * a) * n
  BY <1>1
<1> QED
  BY <1>2, <1>3 DEF n

\* The anchor's array holds what the replicas return.
LEMMA OutputSize ==
  ASSUME NEW f \in Flows, Accepted(f), AccumulationConsistent(f)
  PROVE  getOutExpected(f) =
           getReplicationFactor(f) * numOutFetchesPerRepl(f) * f.nelms
<1> DEFINE n == f.nelms  a == f.accumulationFactor  b == f.batchesPerStep
           c == f.replicatedGraphCount
<1>1. n \in Nat /\ a \in Nat \ {0} /\ b \in Nat \ {0} /\ c \in Nat
  BY DEF Flows, Accepted
<1>2. getReplicationFactor(f) = c /\ accumFactor(f) = a
  BY FactorsAgree
<1>3. getOutExpected(f) = ((n * a * b) * c) \div getArtDivisor(f)
  BY DEF getOutExpected, getBaseExpected
<1>4. CASE f.art \in {"Final", "Sum"}
  <2>1. getArtDivisor(f) = b * a /\ numOutFetchesPerRepl(f) = 1
    BY <1>4 DEF getArtDivisor, numOutFetchesPerRepl
  <2> HIDE DEF n, a, b, c
  <2>2. /\ (n * a * b) * c = (c * n) * (b * a)
        /\ c * n \in Nat /\ b * a \in Nat \ {0} /\ c * n = c * 1 * n
    BY <1>1
  <2>3. ((c * n) * (b * a)) \div (b * a) = c * n
    BY <2>2, DivExact
  <2> QED
    BY <1>2, <1>3, <2>1, <2>2, <2>3 DEF n
<1>5. CASE f.art = "All"
  <2>1. getArtDivisor(f) = 1 /\ numOutFetchesPerRepl(f) = b * a
    BY <1>2, <1>5 DEF getArtDivisor, numOutFetchesPerRepl
  <2> HIDE DEF n, a, b, c
  <2>2. ((n * a * b) * c) \div 1 = (n * a * b) * c
    BY <1>1
  <2>3. (n * a * b) * c = c * (b * a) * n
    BY <1>1
  <2> QED
    BY <1>2, <1>3, <2>1, <2>2, <2>3 DEF n
<1>6. CASE f.art = "EveryN"
  <2> DEFINE p == f.rp  q == b \div p
  <2>1. getArtDivisor(f) = p /\ numOutFetchesPerRepl(f) = q * a
    BY <1>2, <1>6 DEF getArtDivisor, numOutFetchesPerRepl
  <2>2. p \in Nat \ {0} /\ b % p = 0
    BY <1>6 DEF Flows, Accepted, isValidAnchorReturnPeriod
  <2> HIDE DEF n, a, b, c, p
  <2>3. q \in Nat /\ b = q * p
    BY <1>1, <2>2, DivMod
  <2> HIDE DEF q
  <2>4. /\ (n * a * (q * p)) * c = (c * (q * a) * n) * p
        /\ c * (q * a) * n \in Nat
    BY <1>1, <2>2, <2>3
  <2>5. ((c * (q * a) * n) * p) \div p = c * (q * a) * n
    BY <2>2, <2>4, DivExact
  <2> QED
    BY <1>2, <1>3, <2>1, <2>3, <2>4, <2>5 DEF n
<1> QED
  BY <1>4, <1>5, <1>6 DEF Flows, AnchorReturnTypeIds

-----------------------------------------------------------------------------
\* The arrays that CorrectnessAsserter accepts are those that the streams of a
\* step walk through, for every accepted flow.
THEOREM SizesAgree == Spec => []SizesMatchFetches
<1>1. SizesMatchFetches
  <2> SUFFICES ASSUME NEW f \in SomeFlows, Accepted(f),
                      AccumulationConsistent(f)
               PROVE  /\ getInExpected(f) =
                           numStreamed(f) * maxInputsPerRepl(f) * f.nelms
                      /\ getOutExpected(f) = getReplicationFactor(f)
                           * numOutFetchesPerRepl(f) * f.nelms
    BY DEF SizesMatchFetches
  <2>1. f \in Flows
    BY SomeFlowsAssumption
  <2> QED
    BY <2>1, InputSize, OutputSize
<1> QED
  BY <1>1, PTL

\* The parameters that StepIOArrays gives to the splitter.
LEMMA Parameters ==
  /\ R \in Nat \ {0}
  /\ Directions \subseteq {"in", "out"}
  /\ MaxFetches \in [Directions -> Nat]
  /\ Replicas \subseteq SP!Repl /\ Replicas \subseteq Replicas
<1>1. R \in Nat \ {0}
  BY FlowAssumption DEF R, getReplicationFactor, Flows
<1>2. maxInputsPerRepl(Flow) \in Nat
  BY FlowAssumption DEF maxInputsPerRepl, accumFactor, Flows
<1>3. numOutFetchesPerRepl(Flow) \in Nat
  BY FlowAssumption, DivMod
  DEF numOutFetchesPerRepl, accumFactor, Flows, Accepted,
      isValidAnchorReturnPeriod
<1> QED
  BY <1>1, <1>2, <1>3 DEF Directions, MaxFetches, Replicas, SP!Repl

\* Induction over the natural numbers, for sets.
LEMMA SetInduction ==
  ASSUME NEW S, 0 \in S, \A n \in Nat : n \in S => n + 1 \in S
  PROVE  Nat \subseteq S
<1> SUFFICES ASSUME Nat \ S # {} PROVE FALSE
  OBVIOUS
<1>1. IsWellFoundedOn(OpToRel(<, Nat), Nat)
  BY NatLessThanWellFounded
<1>2. PICK x \in Nat \ S :
        \A y \in Nat \ S : ~ (<< y, x >> \in OpToRel(<, Nat))
  BY <1>1, WFMin
<1>3. x \in Nat /\ x \notin S
  BY Zenon
<1>4. x # 0
  BY <1>3, Zenon
<1>5. x - 1 \in Nat /\ x - 1 < x /\ (x - 1) + 1 = x
  BY <1>3, <1>4
<1>6. << x - 1, x >> \in OpToRel(<, Nat)
  BY <1>3, <1>5 DEF OpToRel
<1>7. x - 1 \in S
  BY <1>2, <1>5, <1>6
<1>8. (x - 1) + 1 \in S
  BY <1>5, <1>7
<1> QED
  BY <1>3, <1>5, <1>8

-----------------------------------------------------------------------------
\* Where the slice after t others begins in an array of m slices.
Position(t, m) == IF t = m THEN 0 ELSE t * Flow.nelms

\* n slices further on, as long as the array has them.
LEMMA AfterSlices ==
  ASSUME NEW d \in Directions, NEW m \in Nat, NEW t \in Nat, NEW n \in Nat,
         size[d] = m * Flow.nelms, offset[d] = Position(t, m), t + n <= m
  PROVE  After(d, n) = Position(t + n, m)
<1> DEFINE Step(f) == [i \in 0 .. n |-> IF i = 0 THEN offset[d]
                                        ELSE NextSlice(d, f[i - 1])]
           p == [i \in 0 .. n |-> Position(t + i, m)]
           q == CHOOSE f : f = Step(f)
<1>1. Flow.nelms \in Nat \ {0}
  BY FlowAssumption DEF Flows
<1>2. ASSUME NEW i \in Nat, i < n
      PROVE  NextSlice(d, Position(t + i, m)) = Position(t + (i + 1), m)
  <2> DEFINE e == Flow.nelms
  <2>1. Position(t + i, m) = (t + i) * e
    BY <1>2 DEF Position
  <2>2. (t + i) * e + e = (t + (i + 1)) * e
    <3> HIDE DEF e
    <3> QED BY <1>1 DEF e
  <2>3. (t + (i + 1)) * e = m * e <=> t + (i + 1) = m
    <3>1. \A a, b \in Nat, c \in Nat \ {0} : a * c = b * c <=> a = b
      OBVIOUS
    <3> QED BY <1>1, <3>1
  <2> QED
    BY <2>1, <2>2, <2>3 DEF NextSlice, Position
<1>3. p = Step(p)
  <2>1. ASSUME NEW i \in 0 .. n
        PROVE  p[i] = IF i = 0 THEN offset[d] ELSE NextSlice(d, p[i - 1])
    <3>1. CASE i = 0
      BY <3>1
    <3>2. CASE i # 0
      <4>1. i - 1 \in Nat /\ i - 1 < n /\ i - 1 \in 0 .. n
            /\ (i - 1) + 1 = i
        BY <3>2
      <4>2. NextSlice(d, Position(t + (i - 1), m)) = Position(t + i, m)
        BY <1>2, <4>1
      <4> QED
        BY <3>2, <4>1, <4>2
    <3> QED
      BY <3>1, <3>2
  <2> HIDE DEF Position
  <2> QED
    BY <2>1
<1>4. q = Step(q)
  <2> HIDE DEF p
  <2> QED BY <1>3, Zenon
<1>5. ASSUME NEW i \in Nat PROVE i <= n => q[i] = Position(t + i, m)
  <2> HIDE DEF q
  <2> DEFINE S == {k \in Nat : k <= n => q[k] = Position(t + k, m)}
  <2>1. 0 \in S
    <3>1. 0 \in 0 .. n /\ t + 0 = t
      OBVIOUS
    <3>2. q[0] = offset[d]
      BY <1>4, <3>1
    <3> QED
      BY <3>1, <3>2
  <2>2. ASSUME NEW k \in Nat, k \in S PROVE k + 1 \in S
    <3> SUFFICES ASSUME k + 1 <= n PROVE q[k + 1] = Position(t + (k + 1), m)
      OBVIOUS
    <3>1. k + 1 \in 0 .. n /\ k + 1 # 0 /\ (k + 1) - 1 = k
      OBVIOUS
    <3>2. q[k + 1] = NextSlice(d, q[k])
      BY <1>4, <3>1
    <3>3. q[k] = Position(t + k, m)
      BY <2>2
    <3> QED
      BY <1>2, <3>2, <3>3
  <2> HIDE DEF S
  <2>3. Nat \subseteq S
    BY <2>1, <2>2, SetInduction
  <2> QED
    BY <2>3 DEF S
<1>6. After(d, n) = q[n]
  BY DEF After
<1> QED
  BY <1>5, <1>6

-----------------------------------------------------------------------------
(***************************************************************************)
(* Every behaviour of StepIOArrays is one of the splitter.                 *)
(***************************************************************************)
LEMMA InitMaps == Init => SP!Init
BY DEF Init, Splitter!Init, SP!Init, Splitter!Zero, SP!Zero,
       Splitter!PerReplica, SP!PerReplica, Splitter!Repl, SP!Repl

LEMMA ActionsMap ==
  ASSUME NEW d \in Directions, NEW r \in Replicas
  PROVE  /\ Fetch(d, r) => SP!Fetch(d, r)
         /\ Prefetch(d, r) => SP!Prefetch(d, r)
         /\ Complete(d, r) => SP!Complete(d, r)
<1>1. ASSUME NEW prefetch, Splitter!Get(d, r, prefetch)
      PROVE  SP!Get(d, r, prefetch)
  BY <1>1, Zenon
  DEF Splitter!Get, SP!Get, Splitter!GetCached, SP!GetCached,
      Splitter!GetFromUpstream, SP!GetFromUpstream,
      Splitter!Deliver, SP!Deliver, Splitter!Fetched, SP!Fetched,
      Splitter!FetchWalk, SP!FetchWalk, Splitter!Visits, SP!Visits,
      Splitter!Length, SP!Length, Splitter!Rank, SP!Rank,
      Splitter!Step, SP!Step, Splitter!canAddBuffer, SP!canAddBuffer,
      Splitter!WalkThrows, SP!WalkThrows, Splitter!Repl, SP!Repl
<1>2. Fetch(d, r) => SP!Fetch(d, r)
  BY <1>1, Zenon DEF Fetch, Splitter!Fetch, SP!Fetch
<1>3. Prefetch(d, r) => SP!Prefetch(d, r)
  BY <1>1, Zenon DEF Prefetch, Splitter!Prefetch, SP!Prefetch
<1>4. Complete(d, r) => SP!Complete(d, r)
  BY Zenon
  DEF Complete, Splitter!Complete, SP!Complete, Splitter!CompletionWalk,
      SP!CompletionWalk, Splitter!Visits, SP!Visits, Splitter!Length,
      SP!Length, Splitter!Repl, SP!Repl
<1> QED
  BY <1>2, <1>3, <1>4

LEMMA StepDoneMaps == Splitter!StepDone <=> SP!StepDone
BY DEF Splitter!StepDone, SP!StepDone

LEMMA ResetMaps == Splitter!SetUpstreamIo => SP!SetUpstreamIo
BY StepDoneMaps
DEF Splitter!SetUpstreamIo, SP!SetUpstreamIo, Splitter!Zero, SP!Zero,
    Splitter!PerReplica, SP!PerReplica, Splitter!Repl, SP!Repl

LEMMA SupplyMaps ==
  ASSUME NEW d \in Directions, Supply(d)
  PROVE  SP!Supply(d)
BY DEF Supply, Splitter!Supply, SP!Supply, Splitter!StepSize, SP!StepSize,
       Splitter!Surplus, SP!Surplus

LEMMA StepMaps == [Next]_vars => [SP!Next]_(SP!vars)
<1> SUFFICES ASSUME [Next]_vars PROVE [SP!Next]_(SP!vars)
  OBVIOUS
<1>1. CASE FirstRun \/ RunRefused \/ Return \/ UNCHANGED vars
  BY <1>1 DEF FirstRun, RunRefused, Return, vars, splitter, SP!vars
<1>2. CASE Run
  BY <1>2, ResetMaps DEF Run, SP!Next
<1>3. ASSUME NEW d \in Directions, Supply(d)
      PROVE  SP!Next
  BY <1>3, SupplyMaps DEF SP!Next
<1>4. ASSUME NEW d \in Directions, NEW r \in Replicas,
             Fetch(d, r) \/ Prefetch(d, r) \/ Complete(d, r)
      PROVE  SP!Next
  BY <1>4, ActionsMap DEF SP!Next
<1> QED
  BY <1>1, <1>2, <1>3, <1>4 DEF Next

LEMMA SplitterInvariants ==
  Spec => [](SP!IInv /\ SP!WithinStep /\ SP!StepEndsClean)
<1>1. SP!Spec => []SP!IInv
  BY Parameters, SP!Invariance
<1>2. SP!Spec => []SP!WithinStep
  BY Parameters, SP!NoOverfetch
<1>3. SP!Spec => []SP!StepEndsClean
  <2>1. Replicas = SP!Repl
    BY DEF Replicas, SP!Repl
  <2> QED
    BY <2>1, Parameters, SP!NothingLeftBehind
<1>4. Init => SP!Init
  BY InitMaps
<1>5. [Next]_vars => [SP!Next]_(SP!vars)
  BY StepMaps
<1> QED
  BY <1>1, <1>2, <1>3, <1>4, <1>5, PTL DEF Spec, SP!Spec

-----------------------------------------------------------------------------
(***************************************************************************)
(* The arrays.  A run that passed the check has arrays that are as long as *)
(* the step, so the offset follows from the number of slices taken.        *)
(***************************************************************************)
SizesChecked == inRun \/ nCallsToRun = 1 =>
                  \A d \in Directions : size[d] = SP!StepSize(d) * Flow.nelms

AtPosition == inRun => \A d \in Directions :
                         offset[d] = Position(taken[d], SP!StepSize(d))

FreshBefore == ~inRun /\ nCallsToRun = 0 =>
                 \A d \in Directions : taken[d] = 0

ArraysInv == /\ TypeOK /\ SizesChecked /\ AtPosition
             /\ StepsStartAtZero /\ FreshBefore

LEMMA Naturals ==
  ASSUME SP!IInv, NEW d \in Directions
  PROVE  /\ taken[d] \in Nat /\ SP!StepSize(d) \in Nat
         /\ Flow.nelms \in Nat \ {0}
<1>1. taken \in [Directions -> Nat]
  BY DEF SP!IInv, SP!TypeOK
<1>2. MaxFetches[d] \in Nat /\ R \in Nat
  BY Parameters
<1> QED
  BY <1>1, <1>2, FlowAssumption DEF SP!StepSize, Flows

LEMMA CheckedSize ==
  ASSUME AccumulationConsistent(Flow), NEW d \in Directions
  PROVE  Expected(d) = SP!StepSize(d) * Flow.nelms
<1>1. Flow \in Flows /\ Accepted(Flow) /\ ~Flow.broadcast
  BY FlowAssumption
<1>2. CASE d = "in"
  <2>1. /\ Expected(d) = numStreamed(Flow) * maxInputsPerRepl(Flow) * Flow.nelms
        /\ numStreamed(Flow) = R /\ MaxFetches[d] = maxInputsPerRepl(Flow)
    BY <1>1, <1>2, InputSize DEF Expected, numStreamed, R, MaxFetches
  <2> QED
    BY <2>1 DEF SP!StepSize
<1>3. CASE d = "out"
  <2>1. /\ Expected(d) = R * numOutFetchesPerRepl(Flow) * Flow.nelms
        /\ MaxFetches[d] = numOutFetchesPerRepl(Flow)
    BY <1>1, <1>3, OutputSize DEF Expected, R, MaxFetches
  <2> QED
    BY <2>1 DEF SP!StepSize
<1> QED
  BY <1>2, <1>3 DEF Directions

\* A callback takes slices, and no more than the step has.
LEMMA CallbackTakes ==
  ASSUME SP!IInv, SP!WithinStep', NEW d \in Directions, NEW r \in Replicas,
         Fetch(d, r) \/ Prefetch(d, r) \/ Complete(d, r),
         NEW e \in Directions, taken'[e] \in Nat
  PROVE  /\ taken'[e] - taken[e] \in Nat
         /\ taken'[e] <= SP!StepSize(e)
<1>1. taken[e] \in Nat /\ SP!TypeOK
  BY Naturals DEF SP!IInv
<1>2. r \in SP!Repl
  BY DEF Replicas, SP!Repl
<1>3. CASE Fetch(d, r)
  <2>1. SP!Get(d, r, FALSE)
    BY <1>3, ActionsMap DEF SP!Fetch
  <2> QED
    BY <1>1, <1>2, <2>1, Parameters, SP!GetTakes DEF SP!WithinStep
<1>4. CASE Prefetch(d, r)
  <2>1. SP!Get(d, r, TRUE)
    BY <1>4, ActionsMap DEF SP!Prefetch
  <2> QED
    BY <1>1, <1>2, <2>1, Parameters, SP!GetTakes DEF SP!WithinStep
<1>5. CASE Complete(d, r)
  <2>1. taken' = taken
    BY <1>5, ActionsMap DEF SP!Complete
  <2> QED
    BY <1>1, <2>1 DEF SP!WithinStep
<1> QED
  BY <1>3, <1>4, <1>5

LEMMA PositionNat ==
  ASSUME NEW t \in Nat, NEW m \in Nat
  PROVE  Position(t, m) \in Nat
<1>1. Flow.nelms \in Nat
  BY FlowAssumption DEF Flows
<1>2. t * Flow.nelms \in Nat
  BY <1>1
<1> QED
  BY <1>2 DEF Position

LEMMA CallbackInv ==
  ASSUME ArraysInv, SP!IInv, SP!IInv', SP!WithinStep',
         NEW d \in Directions, NEW r \in Replicas,
         Fetch(d, r) \/ Prefetch(d, r) \/ Complete(d, r)
  PROVE  ArraysInv'
<1>1. Callback
  BY DEF Fetch, Prefetch, Complete
<1>2. /\ inRun /\ inRun' /\ UNCHANGED << size, nCallsToRun >>
      /\ \A e \in Directions : offset'[e] = After(e, taken'[e] - taken[e])
      /\ offset' = [e \in Directions |-> offset'[e]]
  BY <1>1 DEF Callback, ArraysInv, TypeOK
<1>3. ASSUME NEW e \in Directions
      PROVE  /\ offset'[e] = Position(taken'[e], SP!StepSize(e))
             /\ offset'[e] \in Nat
  <2> DEFINE m == SP!StepSize(e)  n == taken'[e] - taken[e]
  <2>1. taken[e] \in Nat /\ m \in Nat
    BY Naturals
  <2>2. taken'[e] \in Nat
    <3>1. taken' \in [Directions -> Nat]
      BY DEF SP!IInv, SP!TypeOK
    <3> QED
      BY <3>1
  <2>3. n \in Nat /\ taken'[e] <= m
    BY <2>2, CallbackTakes
  <2>4. taken[e] + n = taken'[e]
    BY <2>1, <2>2
  <2>5. size[e] = m * Flow.nelms /\ offset[e] = Position(taken[e], m)
    BY <1>2 DEF ArraysInv, SizesChecked, AtPosition
  <2> HIDE DEF m, n
  <2>6. After(e, n) = Position(taken[e] + n, m)
    BY <2>1, <2>3, <2>4, <2>5, AfterSlices
  <2>7. Position(taken'[e], m) \in Nat
    BY <2>1, <2>2, PositionNat
  <2> QED
    BY <1>2, <2>4, <2>6, <2>7 DEF m, n
<1>4. TypeOK'
  BY <1>2, <1>3 DEF ArraysInv, TypeOK
<1>5. SizesChecked'
  BY <1>2 DEF ArraysInv, SizesChecked, SP!StepSize
<1>6. AtPosition'
  BY <1>3 DEF AtPosition, Position, SP!StepSize
<1> QED
  BY <1>2, <1>4, <1>5, <1>6
  DEF ArraysInv, StepsStartAtZero, FreshBefore

LEMMA ArraysStep ==
  ASSUME AccumulationConsistent(Flow), ArraysInv, [Next]_vars, SP!IInv, SP!IInv', SP!WithinStep',
         SP!StepEndsClean
  PROVE  ArraysInv'
<1> USE DEF ArraysInv
<1>1. CASE FirstRun
  <2>1. /\ inRun' /\ ~inRun /\ nCallsToRun = 0
        /\ UNCHANGED << taken, size, offset, nCallsToRun >>
    BY <1>1 DEF FirstRun, splitter
  <2>2. \A d \in Directions : size[d] = SP!StepSize(d) * Flow.nelms
    BY <1>1, CheckedSize DEF FirstRun, assertNumElements
  <2>3. \A d \in Directions : offset[d] = 0 /\ taken[d] = 0
    BY <2>1 DEF StepsStartAtZero, FreshBefore
  <2>4. \A d \in Directions : Position(0, SP!StepSize(d)) = 0
    BY FlowAssumption DEF Position, Flows
  <2> QED
    BY <2>1, <2>2, <2>3, <2>4
    DEF TypeOK, SizesChecked, AtPosition, Position, SP!StepSize,
        StepsStartAtZero, FreshBefore
<1>2. CASE Run
  <2>1. /\ inRun' /\ ~inRun /\ nCallsToRun = 1
        /\ UNCHANGED << size, offset, nCallsToRun >>
    BY <1>2 DEF Run, TypeOK
  <2>2. \A d \in Directions : taken'[d] = 0
    BY <1>2, ResetMaps DEF Run, SP!SetUpstreamIo, SP!Zero
  <2>3. \A d \in Directions : offset[d] = 0
    BY <2>1 DEF StepsStartAtZero
  <2>4. \A d \in Directions : Position(0, SP!StepSize(d)) = 0
    BY FlowAssumption DEF Position, Flows
  <2> QED
    BY <2>1, <2>2, <2>3, <2>4
    DEF TypeOK, SizesChecked, AtPosition, Position, SP!StepSize,
        StepsStartAtZero, FreshBefore
<1>3. CASE Return
  <2>1. /\ inRun /\ inRun' = FALSE /\ nCallsToRun' = 1
        /\ UNCHANGED << taken, size, offset >> /\ SP!StepDone
    BY <1>3, StepDoneMaps DEF Return, splitter
  <2>2. \A d \in Directions : taken[d] = SP!StepSize(d)
    BY <2>1 DEF SP!StepEndsClean
  <2>3. \A d \in Directions : offset[d] = 0
    BY <2>1, <2>2 DEF AtPosition, Position
  <2>4. TypeOK'
    BY <2>1 DEF TypeOK
  <2>5. SizesChecked'
    BY <2>1 DEF SizesChecked, SP!StepSize
  <2> QED
    BY <2>1, <2>3, <2>4, <2>5 DEF AtPosition, StepsStartAtZero, FreshBefore
<1>4. ASSUME NEW d \in Directions, Supply(d)
      PROVE  ArraysInv'
  <2>1. inRun /\ UNCHANGED << taken, size, offset, nCallsToRun, inRun >>
    BY <1>4 DEF Supply, Splitter!Supply
  <2> QED
    BY <2>1 DEF TypeOK, SizesChecked, AtPosition, Position, SP!StepSize,
                StepsStartAtZero, FreshBefore
<1>5. ASSUME NEW d \in Directions, NEW r \in Replicas,
             Fetch(d, r) \/ Prefetch(d, r) \/ Complete(d, r)
      PROVE  ArraysInv'
  BY <1>5, CallbackInv
<1>6. CASE RunRefused \/ UNCHANGED vars
  <2>1. UNCHANGED << taken, size, offset, nCallsToRun, inRun >>
    BY <1>6 DEF RunRefused, vars, splitter
  <2> QED
    BY <2>1 DEF TypeOK, SizesChecked, AtPosition, Position, SP!StepSize,
                StepsStartAtZero, FreshBefore
<1> QED
  BY <1>1, <1>2, <1>3, <1>4, <1>5, <1>6 DEF Next

\* Sizes, offsets and the splitter's count of slices stay in step, whatever
\* the flow and however many runs follow one another.
THEOREM ArraysInStep ==
  ASSUME AccumulationConsistent(Flow) PROVE Spec => []ArraysInv
<1>1. Init => ArraysInv
  <2> SUFFICES ASSUME Init PROVE ArraysInv
    OBVIOUS
  <2>1. /\ \A d \in Directions : taken[d] = 0 /\ offset[d] = 0
        /\ ~inRun /\ nCallsToRun = 0 /\ TypeOK
    BY DEF Init, Splitter!Init, Splitter!Zero, TypeOK
  <2> QED
    BY <2>1 DEF ArraysInv, SizesChecked, AtPosition, StepsStartAtZero,
                FreshBefore
<1> DEFINE Below == SP!IInv /\ SP!WithinStep /\ SP!StepEndsClean
<1>2. ArraysInv /\ [Next]_vars /\ Below /\ Below' => ArraysInv'
  BY ArraysStep
<1>3. Spec => []Below
  BY SplitterInvariants
<1> HIDE DEF Below
<1> QED
  BY <1>1, <1>2, <1>3, PTL DEF Spec

\* A step leaves the arrays at their start.
THEOREM StartsAtZero ==
  ASSUME AccumulationConsistent(Flow) PROVE Spec => []StepsStartAtZero
<1>1. ArraysInv => StepsStartAtZero
  BY DEF ArraysInv
<1> QED
  BY <1>1, ArraysInStep, PTL

\* The slices that a step gives out lie in the array, each once.
THEOREM SlicesInArray ==
  ASSUME AccumulationConsistent(Flow) PROVE Spec => []BuffersAreSlices
<1> DEFINE Below == SP!IInv /\ SP!WithinStep /\ SP!StepEndsClean
<1>1. ArraysInv /\ Below => BuffersAreSlices
  <2> SUFFICES ASSUME ArraysInv, Below, inRun, NEW d \in Directions
               PROVE  \/ /\ offset[d] = taken[d] * Flow.nelms
                         /\ offset[d] + Flow.nelms <= size[d]
                      \/ offset[d] = 0 /\ taken[d] * Flow.nelms = size[d]
    BY DEF BuffersAreSlices
  <2> DEFINE t == taken[d]  m == SP!StepSize(d)  e == Flow.nelms
  <2>1. t \in Nat /\ m \in Nat /\ e \in Nat \ {0}
    BY Naturals
  <2>2. size[d] = m * e /\ offset[d] = Position(t, m) /\ t <= m
    BY DEF ArraysInv, SizesChecked, AtPosition, SP!WithinStep
  <2>3. CASE t = m
    BY <2>2, <2>3 DEF Position
  <2>4. CASE t # m
    <3>1. offset[d] = t * e
      BY <2>2, <2>4 DEF Position
    <3>2. t * e + e <= m * e
      <4> HIDE DEF t, m, e
      <4>1. m - (t + 1) \in Nat
        BY <2>1, <2>2, <2>4
      <4>2. (m - (t + 1)) * e >= 0
        BY <2>1, <4>1
      <4>3. (m - (t + 1)) * e = m * e - (t * e + e)
        BY <2>1
      <4>4. m * e \in Int /\ t * e + e \in Int
        BY <2>1
      <4> QED
        BY <4>2, <4>3, <4>4
    <3> QED
      BY <2>2, <3>1, <3>2
  <2> QED
    BY <2>3, <2>4
<1>2. Spec => []Below
  BY SplitterInvariants
<1> HIDE DEF Below
<1> QED
  BY <1>1, <1>2, ArraysInStep, PTL
=============================================================================
