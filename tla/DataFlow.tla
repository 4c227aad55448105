------------------------------ MODULE DataFlow ------------------------------
(***************************************************************************)
(* How many buffers a replica moves per step, and how many elements the    *)
(* user's array must have.  The code computes the two apart:               *)
(* willow/src/dataflow.cpp for the streams, stepio_size_assertion.cpp for  *)
(* the arrays.                                                             *)
(*                                                                         *)
(* A flow is what both depend on, for one input and one anchor with the    *)
(* same number of elements.                                                *)
(***************************************************************************)
EXTENDS Integers

AnchorReturnTypeIds == {"All", "Final", "Sum", "EveryN"}

Flows == [ batchesPerStep : Nat,
           art : AnchorReturnTypeIds,
           rp : Nat,                     \* return period, of EveryN only
           enableGradientAccumulation : BOOLEAN,
           accumulationFactor : Nat \ {0},
           enableReplicatedGraphs : BOOLEAN,
           replicatedGraphCount : Nat \ {0},
           implicitPipelining : BOOLEAN,
           broadcast : BOOLEAN,          \* ReplicatedStreamMode of the input
           nelms : Nat \ {0} ]

-----------------------------------------------------------------------------
(***************************************************************************)
(* What the code refuses: the constructors of AnchorReturnType and         *)
(* DataFlow, and the checks of the two factors, which throw when the       *)
(* factors are asked for (SessionOptions::getAccumulationFactor,           *)
(* IrLowering::getReplicationFactor).  Everybody asks for the replication  *)
(* factor, but PopPrograms::program (popx/popprograms.cpp:606) asks for    *)
(* the accumulation factor only of a model without implicit pipelining.    *)
(***************************************************************************)
isValidAnchorReturnPeriod(f) ==
  f.art = "EveryN" => /\ f.rp > 0 /\ f.rp <= f.batchesPerStep
                      /\ f.batchesPerStep % f.rp = 0

AccumulationConsistent(f) ==
  f.enableGradientAccumulation \/ f.accumulationFactor = 1

FactorsConsistent(f) ==
  /\ f.implicitPipelining \/ AccumulationConsistent(f)
  /\ f.enableReplicatedGraphs \/ f.replicatedGraphCount = 1

\* Mutant: the return period need not divide the batches per step.
AcceptedAnyPeriod(f) ==
  f.batchesPerStep > 0 /\ (f.art = "EveryN" => f.rp > 0) /\ FactorsConsistent(f)

Accepted(f) == /\ f.batchesPerStep > 0
               /\ isValidAnchorReturnPeriod(f)
               /\ FactorsConsistent(f)

-----------------------------------------------------------------------------
(***************************************************************************)
(* The streams.  Devicex takes the replication factor from IrLowering.     *)
(***************************************************************************)
getReplicationFactor(f) ==
  IF f.enableReplicatedGraphs THEN f.replicatedGraphCount ELSE 1

accumFactor(f) ==
  IF f.enableGradientAccumulation THEN f.accumulationFactor ELSE 1

maxInputsPerRepl(f) == f.batchesPerStep * accumFactor(f)

numOutFetchesPerRepl(f) ==
  IF f.art \in {"Final", "Sum"} THEN 1
  ELSE (IF f.art = "EveryN" THEN f.batchesPerStep \div f.rp
                            ELSE f.batchesPerStep) * accumFactor(f)

\* The replicas whose input stream is connected.
numStreamed(f) == IF f.broadcast THEN 1 ELSE getReplicationFactor(f)

-----------------------------------------------------------------------------
(***************************************************************************)
(* The arrays: CorrectnessAsserter, which reads the two factors without    *)
(* asking whether they are enabled.                                        *)
(***************************************************************************)
getBaseExpected(f) == f.nelms * f.accumulationFactor * f.batchesPerStep

getInExpected(f) ==
  getBaseExpected(f) * (IF f.broadcast THEN 1 ELSE f.replicatedGraphCount)

getArtDivisor(f) ==
  IF f.art \in {"Final", "Sum"} THEN f.batchesPerStep * f.accumulationFactor
  ELSE IF f.art = "EveryN" THEN f.rp ELSE 1

getOutExpected(f) ==
  (getBaseExpected(f) * f.replicatedGraphCount) \div getArtDivisor(f)
=============================================================================
