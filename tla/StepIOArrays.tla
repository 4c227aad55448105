---------------------------- MODULE StepIOArrays ----------------------------
(***************************************************************************)
(* The splitter on top of StepIOGeneric (include/popart/stepio_generic.hpp,*)
(* the base of PyStepIO and StepIO), which gives out an array of the user  *)
(* slice by slice: the next slice starts where the last one ended, and     *)
(* after the end of the array at its start.                                *)
(*                                                                         *)
(* Devicex::run checks the size of the arrays in its first call only,      *)
(* "under the assumption that the user is unlikely to change the size of   *)
(* buffers between runs".  The model makes that assumption, and that       *)
(* runtime asserts are enabled, which is the default.                      *)
(***************************************************************************)
EXTENDS DataFlow, Sequences

CONSTANTS
  Flow,       \* the session's options
  Sizes,      \* the sizes, in elements, that the user's arrays may have
  SomeFlows   \* the flows for which sizes and fetches are compared

ASSUME FlowAssumption  == /\ Flow \in Flows /\ Accepted(Flow)
                          /\ ~Flow.broadcast
ASSUME SizesAssumption == Sizes \subseteq Nat
ASSUME SomeFlowsAssumption == SomeFlows \subseteq Flows

VARIABLES
  index, completeIndex, data, numFetches, downstream, upstream,
  ready, taken, released, got, failed,   \* of StepIOSplitter
  size,         \* the number of elements of each array
  offset,       \* ArrayInfo::offset, in elements
  nCallsToRun,  \* calls of Devicex::run that have returned; 1 for any more
  inRun         \* a call of Devicex::run is under way

splitter == << index, completeIndex, data, numFetches, downstream, upstream,
               ready, taken, released, got, failed >>
vars == << splitter, size, offset, nCallsToRun, inRun >>

Directions == {"in", "out"}
R          == getReplicationFactor(Flow)
Replicas   == 0 .. R - 1
MaxFetches == [d \in Directions |-> IF d = "in"
                                    THEN maxInputsPerRepl(Flow)
                                    ELSE numOutFetchesPerRepl(Flow)]

Splitter == INSTANCE StepIOSplitter WITH Adapters <- Replicas,
                                         Streamed <- Replicas

-----------------------------------------------------------------------------
\* Mutant: the end of the array is not noticed.
NextSliceOverrun(d, start) == start + Flow.nelms

\* Where the slice after the one at `start` begins (StepIOGeneric::get).
NextSlice(d, start) ==
  LET end == start + Flow.nelms IN IF end = size[d] THEN 0 ELSE end

\* The offset after n more slices.
After(d, n) ==
  LET position[i \in 0 .. n] ==
        IF i = 0 THEN offset[d] ELSE NextSlice(d, position[i - 1])
  IN  position[n]

Expected(d) == IF d = "in" THEN getInExpected(Flow) ELSE getOutExpected(Flow)

\* Mutant: only the inputs are checked.
assertInputsOnly(s) == s["in"] = Expected("in")

assertNumElements(s) == \A d \in Directions : s[d] = Expected(d)

-----------------------------------------------------------------------------
Init == /\ Splitter!Init
        /\ size \in [Directions -> Sizes]
        /\ offset = [d \in Directions |-> 0]
        /\ nCallsToRun = 0 /\ inRun = FALSE

(***************************************************************************)
(* Devicex::run: the check, then the reset of the splitter, which is fresh *)
(* at the first call; the engine runs; the call returns.                   *)
(***************************************************************************)
FirstRun == /\ ~inRun /\ nCallsToRun = 0
            /\ assertNumElements(size)
            /\ inRun' = TRUE
            /\ UNCHANGED << splitter, size, offset, nCallsToRun >>

\* assertNumElements throws.
RunRefused == /\ ~inRun /\ nCallsToRun = 0
              /\ ~assertNumElements(size)
              /\ UNCHANGED vars

Run == /\ ~inRun /\ nCallsToRun > 0
       /\ Splitter!SetUpstreamIo
       /\ inRun' = TRUE
       /\ UNCHANGED << size, offset, nCallsToRun >>

Return == /\ inRun /\ Splitter!StepDone
          /\ inRun' = FALSE /\ nCallsToRun' = 1
          /\ UNCHANGED << splitter, size, offset >>

\* StepIOGeneric never declines: its buffers are ready before a callback asks.
Supply(d) == /\ inRun /\ Splitter!Supply(d)
             /\ UNCHANGED << size, offset, nCallsToRun, inRun >>

AllReady == \A d \in Directions :
              ready[d] = Splitter!StepSize(d) + Splitter!Surplus

\* Every buffer that a callback takes from the user's IStepIO is one slice.
Callback == /\ inRun /\ AllReady
            /\ offset' = [d \in Directions |-> After(d, taken'[d] - taken[d])]
            /\ UNCHANGED << size, nCallsToRun, inRun >>

Fetch(d, r)    == Splitter!Fetch(d, r) /\ Callback
Prefetch(d, r) == Splitter!Prefetch(d, r) /\ Callback
Complete(d, r) == Splitter!Complete(d, r) /\ Callback

Next ==
  \/ FirstRun \/ RunRefused \/ Run \/ Return
  \/ \E d \in Directions : Supply(d)
  \/ \E d \in Directions, r \in Replicas :
       Fetch(d, r) \/ Prefetch(d, r) \/ Complete(d, r)

Spec == Init /\ [][Next]_vars

\* The engine runs the step to its end; nobody has to prefetch or run again.
Fairness ==
  /\ WF_vars(Return)
  /\ \A d \in Directions : WF_vars(Supply(d))
  /\ \A d \in Directions, r \in Replicas : WF_vars(Fetch(d, r))
                                        /\ WF_vars(Complete(d, r))

FairSpec == Spec /\ Fairness

-----------------------------------------------------------------------------
\* The types of the variables that StepIOSplitter does not have.
TypeOK == /\ size \in [Directions -> Sizes]
          /\ offset \in [Directions -> Nat]
          /\ nCallsToRun \in {0, 1}
          /\ inRun \in BOOLEAN

\* The arrays that pass the check are those that the streams of a step walk
\* through once, for every return type and whatever is enabled
\* (numOutFetchesPerRepl and getOutExpected round in different places), unless
\* the user sets an accumulation factor that is not enabled.
SizesMatchFetches ==
  nCallsToRun = 0 /\ ~inRun =>
    \A f \in SomeFlows : Accepted(f) /\ AccumulationConsistent(f) =>
      /\ size["in"] = getInExpected(f) <=>
           size["in"] = numStreamed(f) * maxInputsPerRepl(f) * f.nelms
      /\ size["out"] = getOutExpected(f) <=>
           size["out"] =
             getReplicationFactor(f) * numOutFetchesPerRepl(f) * f.nelms

\* During a step the t-th buffer that the splitter takes is the t-th slice of
\* the array, in every step and however eagerly Poplar prefetches: none
\* reaches over the end of the array, and none is given out twice.
BuffersAreSlices ==
  inRun => \A d \in Directions :
    \/ offset[d] = taken[d] * Flow.nelms /\ offset[d] + Flow.nelms <= size[d]
    \/ offset[d] = 0 /\ taken[d] * Flow.nelms = size[d]

\* A step leaves the arrays at their start, so that the next one may go on with
\* the same IStepIO.
StepsStartAtZero == ~inRun => \A d \in Directions : offset[d] = 0

\* Every step ends: checked arrays have a buffer for whatever a replica awaits.
EveryStepEnds == inRun ~> ~inRun
=============================================================================
