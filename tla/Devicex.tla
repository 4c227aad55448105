------------------------------ MODULE Devicex ------------------------------
(***************************************************************************)
(* One device (popx::DevicexInfo) that was given to several sessions, and  *)
(* the engines (popx::Devicex) of those sessions.  The device holds one    *)
(* engine at a time.  DevicexInfo::mostRecentlyLoaded says which engine a  *)
(* Devicex believes that to be, and Devicex::run loads its own engine      *)
(* first when it is another one.                                           *)
(*                                                                         *)
(* The variables of a session are followed as one value, an element of     *)
(* Weights, in the three places where the code keeps it: TensorData (host),*)
(* the device, and d2hWeightBuffers.  NoWeights is what is found in a      *)
(* place where no weights were written: a device on which the engine has   *)
(* just been loaded, or a buffer that has just been allocated.             *)
(*                                                                         *)
(* PopxlSession and PopartSession add the two session APIs.                *)
(***************************************************************************)
EXTENDS Naturals, Sequences

CONSTANTS
  Sessions,   \* the sessions that were given the device
  Vars,       \* the variables of each session
  Values,     \* what one variable can hold
  NoSession,
  NoWeights

Weights == [Vars -> Values]

ASSUME NoSessionAssumption == NoSession \notin Sessions
ASSUME NoWeightsAssumption == NoWeights \notin Weights

VARIABLES
  attached,            \* DevicexInfo::isAttached_
  mostRecentlyLoaded,  \* DevicexInfo::mostRecentlyLoaded
  engine,              \* external: whose engine is on the device
  weights,             \* external: the weights in the device's memory
  host,                \* TensorData of each session's variables
  d2hWeightBuffers     \* Devicex::d2hWeightBuffers of each session

device   == << attached, mostRecentlyLoaded, engine, weights >>
devicex  == << attached, mostRecentlyLoaded, engine, weights, host,
               d2hWeightBuffers >>

DevicexTypeOK ==
  /\ attached \in BOOLEAN
  /\ mostRecentlyLoaded \in Sessions \cup {NoSession}
  /\ engine \in Sessions \cup {NoSession}
  /\ weights \in Weights \cup {NoWeights}
  /\ host \in [Sessions -> Weights \cup {NoWeights}]
  /\ d2hWeightBuffers \in [Sessions -> Weights \cup {NoWeights}]

DevicexInit ==
  /\ mostRecentlyLoaded = NoSession
  /\ engine = NoSession /\ weights = NoWeights
  /\ host \in [Sessions -> Weights]
  /\ d2hWeightBuffers = [s \in Sessions |-> NoWeights]

\* Mutant: the device notes that an engine was loaded, and not which.
isAnyEngineLoaded(s) == mostRecentlyLoaded # NoSession

isEngineLoaded(s) == mostRecentlyLoaded = s

\* Poplar runs a program of s only if the engine of s is on the device.  Only
\* an engine that isEngineLoaded takes for loaded can be missing.
CanExecute(s) == isEngineLoaded(s) => engine = s

(***************************************************************************)
(* Devicex::run(ind): load the engine if need be, then run a program.  The *)
(* load leaves no weights on the device and allocates the d2h buffers.     *)
(* Memory and Buffer are what the program finds; Execute is its outcome.   *)
(***************************************************************************)
Memory(s) == IF isEngineLoaded(s) THEN weights ELSE NoWeights
Buffer(s) == IF isEngineLoaded(s) THEN d2hWeightBuffers[s] ELSE NoWeights

Execute(s, memory, buffer) ==
  /\ mostRecentlyLoaded' = s
  /\ engine' = s
  /\ weights' = memory
  /\ d2hWeightBuffers' = [d2hWeightBuffers EXCEPT ![s] = buffer]

\* Mutant: the program runs, and the streams were not filled.
weightsFromNowhere(s) == Execute(s, Memory(s), Buffer(s))

weightsFromHost(s) == Execute(s, host[s], Buffer(s))
weightsToHost(s)   == Execute(s, Memory(s), Memory(s))

\* The Program of a step may update any of the variables.  Without weights to
\* start from, what it computes is as good as none.
Program(s) ==
  \E trained \in IF Memory(s) = NoWeights THEN {NoWeights} ELSE Weights :
    Execute(s, trained, Buffer(s))

\* A program that Poplar fails to run has made the engine be loaded.
ProgramFails(s) == Execute(s, Memory(s), Buffer(s))

\* The host copy once `data` is written to some of the variables: TensorData::
\* resetData of each.  A copy that was never valid is so when all are written.
SomeWeights == UNION { [W -> Values] : W \in SUBSET Vars }

\* Mutant: the variables that are not written are lost.
OverwrittenAlone(copy, data) == data

Overwritten(copy, data) ==
  IF DOMAIN data = Vars THEN data
  ELSE IF copy = NoWeights THEN NoWeights
  ELSE [v \in Vars |-> IF v \in DOMAIN data THEN data[v] ELSE copy[v]]

\* DevicexInfo::detach.  Whoever attaches next finds neither engine nor
\* weights; mostRecentlyLoaded keeps its value.
Detach == /\ attached' = FALSE
          /\ engine' = NoSession /\ weights' = NoWeights

-----------------------------------------------------------------------------
\* mostRecentlyLoaded is true to the device: an engine that isEngineLoaded
\* takes for loaded is on the device, so that Devicex::run may skip the load.
\* A session for which this fails cannot run anything, until another session
\* is loaded or setEngineIsLoaded(false) is called.
EngineIsWhereClaimed == \A s \in Sessions : CanExecute(s)
=============================================================================
