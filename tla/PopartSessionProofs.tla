------------------------ MODULE PopartSessionProofs ------------------------
(***************************************************************************)
(* Proofs about PopartSession, for any number of sessions on the device:   *)
(* type correctness; that a load is never skipped while the engine of      *)
(* another session is on the device; and that weights are lost by loading  *)
(* an engine and by nothing else.                                          *)
(***************************************************************************)
EXTENDS PopartSession, TLAPS

Copies == Weights \cup {NoWeights}

\* Writing some of the variables of a copy leaves a copy, and of weights,
\* weights.
LEMMA OverwrittenType ==
  ASSUME NEW copy \in Copies, NEW data \in SomeWeights
  PROVE  /\ Overwritten(copy, data) \in Copies
         /\ copy \in Weights => Overwritten(copy, data) \in Weights
<1>1. PICK W \in SUBSET Vars : data \in [W -> Values]
  BY DEF SomeWeights
<1>2. CASE DOMAIN data = Vars
  BY <1>1, <1>2 DEF Overwritten, Copies, Weights
<1>3. CASE DOMAIN data # Vars /\ copy = NoWeights
  BY <1>3, NoWeightsAssumption DEF Overwritten, Copies
<1>4. CASE DOMAIN data # Vars /\ copy # NoWeights
  <2>1. copy \in [Vars -> Values]
    BY <1>4 DEF Copies, Weights
  <2>2. Overwritten(copy, data)
          = [v \in Vars |-> IF v \in DOMAIN data THEN data[v] ELSE copy[v]]
    BY <1>4 DEF Overwritten
  <2>3. \A v \in Vars :
          (IF v \in DOMAIN data THEN data[v] ELSE copy[v]) \in Values
    BY <1>1, <2>1
  <2> QED
    BY <2>2, <2>3 DEF Copies, Weights
<1> QED
  BY <1>2, <1>3, <1>4

\* What a program of s finds.
LEMMA FoundType ==
  ASSUME TypeOK, NEW s \in Sessions
  PROVE  /\ host[s] \in Copies /\ NoWeights \in Copies
         /\ Memory(s) \in Copies /\ Buffer(s) \in Copies
BY DEF TypeOK, DevicexTypeOK, Memory, Buffer, Copies

\* Running a program of s keeps the types of what it changes.
LEMMA ExecuteType ==
  ASSUME TypeOK, NEW s \in Sessions, NEW memory \in Copies,
         NEW buffer \in Copies, Execute(s, memory, buffer),
         attached' = TRUE, host' \in [Sessions -> Copies]
  PROVE  DevicexTypeOK'
BY DEF TypeOK, DevicexTypeOK, Execute, Copies

\* The program of a step leaves weights of the right type, and weights if it
\* finds some.
LEMMA ProgramType ==
  ASSUME TypeOK, NEW s \in Sessions, Program(s)
  PROVE  \E trained \in Copies :
           /\ Execute(s, trained, Buffer(s))
           /\ Memory(s) # NoWeights => trained # NoWeights
<1>1. PICK trained \in
             (IF Memory(s) = NoWeights THEN {NoWeights} ELSE Weights) :
        Execute(s, trained, Buffer(s))
  BY DEF Program
<1>2. trained \in Copies /\ (Memory(s) # NoWeights => trained # NoWeights)
  BY NoWeightsAssumption DEF Copies
<1> QED
  BY <1>1, <1>2

-----------------------------------------------------------------------------
LEMMA TypeInit ==
  ASSUME Init
  PROVE  TypeOK
<1>1. /\ prepareHasBeenCalled \in [Sessions -> BOOLEAN]
      /\ weightsFromHostCalled \in [Sessions -> BOOLEAN]
      /\ attached \in BOOLEAN /\ reloaded = {}
  BY DEF Init
<1>2. /\ host \in [Sessions -> Weights \cup {NoWeights}]
      /\ d2hWeightBuffers \in [Sessions -> Weights \cup {NoWeights}]
  BY DEF Init, DevicexInit
<1> QED
  BY <1>1, <1>2 DEF Init, DevicexInit, DevicexTypeOK, TypeOK

\* The step of type correctness, one case per action.
LEMMA TypeStep ==
  ASSUME TypeOK, [Next]_vars
  PROVE  TypeOK'
<1> DEFINE Flags == /\ prepareHasBeenCalled' \in [Sessions -> BOOLEAN]
                    /\ weightsFromHostCalled' \in [Sessions -> BOOLEAN]
                    /\ reloaded' \subseteq Sessions
<1>a. /\ host \in [Sessions -> Copies]
      /\ prepareHasBeenCalled \in [Sessions -> BOOLEAN]
      /\ weightsFromHostCalled \in [Sessions -> BOOLEAN]
      /\ reloaded \subseteq Sessions
  BY DEF TypeOK, DevicexTypeOK, Copies
<1>1. ASSUME NEW s \in Sessions,
             prepareDevice(s) \/ loadEngineAndConnectStreams(s)
      PROVE  TypeOK'
  <2>1. /\ Execute(s, NoWeights, NoWeights) /\ attached' = TRUE
        /\ host' = host /\ Flags
    BY <1>1, <1>a DEF prepareDevice, loadEngineAndConnectStreams, Attach
  <2> QED
    BY <1>a, <2>1, FoundType, ExecuteType DEF TypeOK
<1>2. ASSUME NEW s \in Sessions, PrepareOnly(s) \/ LoadFails(s)
      PROVE  TypeOK'
  BY <1>2 DEF PrepareOnly, LoadFails, TypeOK, DevicexTypeOK
<1>3. ASSUME NEW s \in Sessions, WeightsFromHost(s)
      PROVE  TypeOK'
  <2>1. /\ Execute(s, host[s], Buffer(s)) /\ attached' = TRUE
        /\ host' = host /\ Flags
    BY <1>3, <1>a DEF WeightsFromHost, weightsFromHost, Attach
  <2> QED
    BY <1>a, <2>1, FoundType, ExecuteType DEF TypeOK
<1>4. ASSUME NEW s \in Sessions, WeightsToHost(s) \/ modelToHost(s)
      PROVE  TypeOK'
  <2>1. /\ Execute(s, Memory(s), Memory(s)) /\ attached' = TRUE
        /\ host' = host \/ host' = [host EXCEPT ![s] = Memory(s)]
        /\ Flags
    BY <1>4, <1>a DEF WeightsToHost, modelToHost, weightsToHost, Attach,
       AfterLoad
  <2>2. host' \in [Sessions -> Copies]
    BY <1>a, <2>1, FoundType
  <2> QED
    BY <2>1, <2>2, FoundType, ExecuteType DEF TypeOK
<1>5. ASSUME NEW s \in Sessions, run(s)
      PROVE  TypeOK'
  <2>1. Program(s) /\ attached' = TRUE /\ host' = host /\ Flags
    BY <1>5, <1>a DEF run, Attach, AfterLoad
  <2>2. PICK trained \in Copies : Execute(s, trained, Buffer(s))
    BY <2>1, ProgramType
  <2> QED
    BY <1>a, <2>1, <2>2, FoundType, ExecuteType DEF TypeOK
<1>6. ASSUME NEW s \in Sessions, NEW model \in Weights,
             resetHostWeights(s, model)
      PROVE  TypeOK'
  BY <1>6 DEF resetHostWeights, device, TypeOK, DevicexTypeOK
<1>7. ASSUME NEW s \in Sessions, NEW data \in SomeWeights,
             writeWeights(s, data)
      PROVE  TypeOK'
  <2>1. Overwritten(host[s], data) \in Copies
    BY FoundType, OverwrittenType
  <2>2. host' \in [Sessions -> Copies]
    BY <1>7, <1>a, <2>1 DEF writeWeights
  <2> QED
    BY <1>7, <2>2 DEF writeWeights, device, TypeOK, DevicexTypeOK, Copies
<1>8. CASE UserDetach
  BY <1>8 DEF UserDetach, Detach, TypeOK, DevicexTypeOK
<1>9. CASE UNCHANGED vars
  BY <1>9 DEF vars, TypeOK, DevicexTypeOK
<1> QED
  BY <1>1, <1>2, <1>3, <1>4, <1>5, <1>6, <1>7, <1>8, <1>9 DEF Next

\* Type correctness, whatever happens to the device (TypeOK).
THEOREM TypeCorrect == Spec => []TypeOK
BY TypeInit, TypeStep, PTL DEF Spec

-----------------------------------------------------------------------------
(***************************************************************************)
(* Which engine is on the device.  A call that runs a program leaves its   *)
(* engine there and says so; what could part the two is a detach, or a     *)
(* load that fails after the claim on the device was made.                 *)
(***************************************************************************)
AlwaysAttached == ConnectionType = "Always" => attached

EngineInv == TypeOK /\ AlwaysAttached /\ EngineIsWhereClaimed

LEMMA ExecuteClaims ==
  ASSUME NEW s \in Sessions, NEW memory, NEW buffer,
         Execute(s, memory, buffer)
  PROVE  EngineIsWhereClaimed'
BY DEF Execute, EngineIsWhereClaimed, CanExecute, isEngineLoaded

LEMMA EngineStep ==
  ASSUME "detach" \notin May, ConnectionType = "Always" \/ "attach" \notin May,
         EngineInv, [Next]_vars
  PROVE  EngineInv'
<1>0. TypeOK'
  BY TypeStep DEF EngineInv
<1>1. ASSUME NEW s \in Sessions, LoadFails(s)
      PROVE  FALSE
  BY <1>1 DEF LoadFails, CannotLoad, EngineInv, AlwaysAttached
<1>2. ASSUME NEW s \in Sessions, attached' = TRUE,
             NEW memory, NEW buffer, Execute(s, memory, buffer)
      PROVE  EngineInv'
  BY <1>0, <1>2, ExecuteClaims DEF EngineInv, AlwaysAttached
<1>3. ASSUME NEW s \in Sessions, run(s)
      PROVE  EngineInv'
  BY <1>2, <1>3 DEF run, Attach, Program
<1>4. ASSUME NEW s \in Sessions,
             \/ prepareDevice(s) \/ loadEngineAndConnectStreams(s)
             \/ WeightsFromHost(s) \/ WeightsToHost(s) \/ modelToHost(s)
      PROVE  EngineInv'
  BY <1>2, <1>4 DEF prepareDevice, loadEngineAndConnectStreams,
     WeightsFromHost, WeightsToHost, modelToHost, weightsFromHost,
     weightsToHost, Attach
<1>5. ASSUME NEW s \in Sessions, PrepareOnly(s)
      PROVE  EngineInv'
  <2>1. mostRecentlyLoaded' \notin Sessions /\ attached' = attached
    BY <1>5, NoSessionAssumption DEF PrepareOnly
  <2> QED
    BY <1>0, <2>1 DEF EngineInv, AlwaysAttached, EngineIsWhereClaimed,
       CanExecute, isEngineLoaded
<1>6. CASE UNCHANGED device
  BY <1>0, <1>6 DEF device, EngineInv, AlwaysAttached, EngineIsWhereClaimed,
     CanExecute, isEngineLoaded
<1>7. ASSUME NEW s \in Sessions,
             \/ \E model \in Weights : resetHostWeights(s, model)
             \/ \E data \in SomeWeights : writeWeights(s, data)
      PROVE  UNCHANGED device
  BY <1>7 DEF resetHostWeights, writeWeights
<1>8. ~UserDetach
  BY DEF UserDetach
<1>9. CASE UNCHANGED vars
  BY <1>6, <1>9 DEF vars, device
<1> QED
  BY <1>1, <1>3, <1>4, <1>5, <1>6, <1>7, <1>8, <1>9 DEF Next

\* The load is skipped only if the session's engine is on the device
\* (EngineIsWhereClaimed), for any number of sessions that take turns on a device
\* that nobody detaches and that can be attached if it is used on demand, however
\* often they are prepared and loaded.
THEOREM ClaimsAreTrue ==
  ASSUME "detach" \notin May, ConnectionType = "Always" \/ "attach" \notin May
  PROVE  Spec => []EngineIsWhereClaimed
<1>1. Init => EngineInv
  BY TypeInit, NoSessionAssumption
  DEF Init, DevicexInit, EngineInv, AlwaysAttached, EngineIsWhereClaimed,
      CanExecute, isEngineLoaded
<1>2. EngineInv /\ [Next]_vars => EngineInv'
  BY EngineStep
<1>3. EngineInv => EngineIsWhereClaimed
  BY DEF EngineInv
<1> QED
  BY <1>1, <1>2, <1>3, PTL DEF Spec

-----------------------------------------------------------------------------
(***************************************************************************)
(* Foreign engines.  A device that is detached, or could not be attached,  *)
(* has no engine, so a claim that was made in vain is not on another's.    *)
(***************************************************************************)
DetachedIsEmpty == ~attached => engine = NoSession

ForeignInv == DetachedIsEmpty /\ NeverForeign

LEMMA ForeignStep ==
  ASSUME ForeignInv, [Next]_vars
  PROVE  ForeignInv'
<1>1. ASSUME NEW s \in Sessions, attached' = TRUE,
             NEW memory, NEW buffer, Execute(s, memory, buffer)
      PROVE  ForeignInv'
  BY <1>1 DEF Execute, ForeignInv, DetachedIsEmpty, NeverForeign,
     isEngineLoaded
<1>2. ASSUME NEW s \in Sessions,
             \/ prepareDevice(s) \/ loadEngineAndConnectStreams(s)
             \/ WeightsFromHost(s) \/ WeightsToHost(s) \/ modelToHost(s)
      PROVE  ForeignInv'
  BY <1>1, <1>2 DEF prepareDevice, loadEngineAndConnectStreams,
     WeightsFromHost, WeightsToHost, modelToHost, weightsFromHost,
     weightsToHost, Attach
<1>3. ASSUME NEW s \in Sessions, run(s)
      PROVE  ForeignInv'
  BY <1>1, <1>3 DEF run, Attach, Program
<1>4. ASSUME NEW s \in Sessions, PrepareOnly(s)
      PROVE  ForeignInv'
  BY <1>4, NoSessionAssumption
  DEF PrepareOnly, ForeignInv, DetachedIsEmpty, NeverForeign, isEngineLoaded
<1>5. ASSUME NEW s \in Sessions, LoadFails(s)
      PROVE  ForeignInv'
  <2>1. ~attached /\ UNCHANGED << attached, engine >>
    BY <1>5 DEF LoadFails, CannotLoad
  <2>2. engine' = NoSession
    BY <2>1 DEF ForeignInv, DetachedIsEmpty
  <2> QED
    BY <2>2 DEF ForeignInv, DetachedIsEmpty, NeverForeign
<1>6. CASE UserDetach
  BY <1>6 DEF UserDetach, Detach, ForeignInv, DetachedIsEmpty, NeverForeign
<1>7. CASE UNCHANGED device
  BY <1>7 DEF device, ForeignInv, DetachedIsEmpty, NeverForeign,
     isEngineLoaded
<1>8. ASSUME NEW s \in Sessions,
             \/ \E model \in Weights : resetHostWeights(s, model)
             \/ \E data \in SomeWeights : writeWeights(s, data)
      PROVE  UNCHANGED device
  BY <1>8 DEF resetHostWeights, writeWeights
<1>9. CASE UNCHANGED vars
  BY <1>7, <1>9 DEF vars, device
<1> QED
  BY <1>2, <1>3, <1>4, <1>5, <1>6, <1>7, <1>8, <1>9 DEF Next

\* The load is never skipped while another session's engine is on the device
\* (NeverForeign), whatever happens to the device, on either kind of connection.
THEOREM ClaimsAreNeverForeign == Spec => []NeverForeign
<1>1. Init => ForeignInv
  BY NoSessionAssumption
  DEF Init, DevicexInit, ForeignInv, DetachedIsEmpty, NeverForeign,
      isEngineLoaded
<1>2. ForeignInv /\ [Next]_vars => ForeignInv'
  BY ForeignStep
<1>3. ForeignInv => NeverForeign
  BY DEF ForeignInv
<1> QED
  BY <1>1, <1>2, <1>3, PTL DEF Spec

-----------------------------------------------------------------------------
(***************************************************************************)
(* Weights to train on.  The session that sent its weights finds them as   *)
(* long as its engine is still there and was not loaded again.             *)
(***************************************************************************)
HostHasWeights == \A s \in Sessions : host[s] # NoWeights

SentIsThere ==
  \A s \in Sessions :
    weightsFromHostCalled[s] /\ s \notin reloaded /\ engine = s
      => weights # NoWeights

SentInv == TypeOK /\ HostHasWeights /\ SentIsThere

\* A session that does not run anything loses nothing by a program of another
\* one, and s itself loads its engine, or finds or brings weights.
LEMMA WeightsThere ==
  ASSUME TypeOK, NEW s \in Sessions, NEW memory, NEW buffer,
         Execute(s, memory, buffer),
         weightsFromHostCalled'[s] => s \in reloaded' \/ memory # NoWeights
  PROVE  SentIsThere'
BY DEF Execute, SentIsThere

\* What a program finds that needed no load.
LEMMA SentIsFound ==
  ASSUME SentInv, NEW s \in Sessions, Runs(s), isEngineLoaded(s),
         weightsFromHostCalled[s], s \notin reloaded
  PROVE  Memory(s) # NoWeights
BY DEF SentInv, SentIsThere, Runs, CanExecute, Memory

LEMMA SentStep ==
  ASSUME "fetch" \notin May, SentInv, [Next]_vars
  PROVE  SentInv'
<1>0. TypeOK /\ TypeOK'
  BY TypeStep DEF SentInv
<1>a. /\ host \in [Sessions -> Copies]
      /\ weightsFromHostCalled \in [Sessions -> BOOLEAN]
  BY <1>0 DEF TypeOK, DevicexTypeOK, Copies
<1>b. HostHasWeights /\ SentIsThere
  BY DEF SentInv
<1>c. ASSUME host' = host
      PROVE  HostHasWeights'
  BY <1>b, <1>c DEF HostHasWeights
<1>1. ASSUME NEW s \in Sessions,
             prepareDevice(s) \/ loadEngineAndConnectStreams(s)
      PROVE  SentInv'
  <2>1. /\ Execute(s, NoWeights, NoWeights) /\ s \in reloaded'
        /\ host' = host
    BY <1>1 DEF prepareDevice, loadEngineAndConnectStreams
  <2> QED
    BY <1>0, <1>c, <2>1, WeightsThere DEF SentInv
<1>2. ASSUME NEW s \in Sessions, PrepareOnly(s) \/ LoadFails(s)
      PROVE  SentInv'
  <2>1. UNCHANGED << host, engine, weights, weightsFromHostCalled, reloaded >>
    BY <1>2 DEF PrepareOnly, LoadFails
  <2> QED
    BY <1>0, <1>b, <1>c, <2>1 DEF SentInv, SentIsThere
<1>3. ASSUME NEW s \in Sessions, WeightsFromHost(s)
      PROVE  SentInv'
  <2>1. Execute(s, host[s], Buffer(s)) /\ host' = host
    BY <1>3 DEF WeightsFromHost, weightsFromHost
  <2>2. host[s] # NoWeights
    BY <1>b DEF HostHasWeights
  <2> QED
    BY <1>0, <1>c, <2>1, <2>2, WeightsThere DEF SentInv
<1>4. ASSUME NEW s \in Sessions, Runs(s), reloaded' = AfterLoad(s),
             weightsFromHostCalled' = weightsFromHostCalled,
             NEW memory, NEW buffer, Execute(s, memory, buffer),
             Memory(s) # NoWeights => memory # NoWeights
      PROVE  SentIsThere'
  <2>1. CASE isEngineLoaded(s)
    <3>1. weightsFromHostCalled[s] => s \in reloaded \/ Memory(s) # NoWeights
      BY <1>4, <2>1, SentIsFound
    <3> QED
      BY <1>0, <1>4, <2>1, <3>1, WeightsThere DEF AfterLoad
  <2>2. CASE ~isEngineLoaded(s)
    BY <1>0, <1>4, <2>2, WeightsThere DEF AfterLoad
  <2> QED
    BY <2>1, <2>2
<1>5. ASSUME NEW s \in Sessions, WeightsToHost(s)
      PROVE  SentInv'
  <2>1. SentIsThere' /\ host' = host
    BY <1>4, <1>5 DEF WeightsToHost, weightsToHost
  <2> QED
    BY <1>0, <1>c, <2>1 DEF SentInv
<1>6. ASSUME NEW s \in Sessions, modelToHost(s)
      PROVE  SentInv'
  <2>1. SentIsThere'
    BY <1>4, <1>6 DEF modelToHost, weightsToHost
  <2>2. Memory(s) # NoWeights /\ host' = [host EXCEPT ![s] = Memory(s)]
    BY <1>6 DEF modelToHost
  <2>3. HostHasWeights'
    BY <1>a, <1>b, <2>2 DEF HostHasWeights
  <2> QED
    BY <1>0, <2>1, <2>3 DEF SentInv
<1>7. ASSUME NEW s \in Sessions, run(s)
      PROVE  SentInv'
  <2>1. /\ Runs(s) /\ Program(s) /\ reloaded' = AfterLoad(s)
        /\ UNCHANGED << host, weightsFromHostCalled >>
    BY <1>7 DEF run
  <2>2. PICK trained \in Copies :
          /\ Execute(s, trained, Buffer(s))
          /\ Memory(s) # NoWeights => trained # NoWeights
    BY <1>0, <2>1, ProgramType
  <2>3. SentIsThere'
    BY <1>4, <2>1, <2>2
  <2> QED
    BY <1>0, <1>c, <2>1, <2>3 DEF SentInv
<1>8. ASSUME NEW s \in Sessions, NEW model \in Weights,
             resetHostWeights(s, model)
      PROVE  SentInv'
  <2>1. /\ host' = [host EXCEPT ![s] = model]
        /\ weightsFromHostCalled' = [weightsFromHostCalled EXCEPT ![s] = FALSE]
        /\ UNCHANGED << engine, weights, reloaded >>
    BY <1>8 DEF resetHostWeights, device
  <2>2. HostHasWeights'
    BY <1>a, <1>b, <2>1, NoWeightsAssumption DEF HostHasWeights
  <2>3. SentIsThere'
    BY <1>a, <1>b, <2>1 DEF SentIsThere
  <2> QED
    BY <1>0, <2>2, <2>3 DEF SentInv
<1>9. ASSUME NEW s \in Sessions, NEW data \in SomeWeights,
             writeWeights(s, data)
      PROVE  SentInv'
  <2>1. host[s] \in Weights
    BY <1>a, <1>b DEF HostHasWeights, Copies
  <2>2. Overwritten(host[s], data) # NoWeights
    BY <2>1, OverwrittenType, NoWeightsAssumption DEF Copies
  <2>3. /\ host' = [host EXCEPT ![s] = Overwritten(host[s], data)]
        /\ UNCHANGED << engine, weights, weightsFromHostCalled, reloaded >>
    BY <1>9 DEF writeWeights, device
  <2>4. HostHasWeights'
    BY <1>a, <1>b, <2>2, <2>3 DEF HostHasWeights
  <2> QED
    BY <1>0, <1>b, <2>3, <2>4 DEF SentInv, SentIsThere
<1>10. CASE UserDetach
  <2>1. engine' = NoSession /\ host' = host
    BY <1>10 DEF UserDetach, Detach
  <2> QED
    BY <1>0, <1>c, <2>1, NoSessionAssumption DEF SentInv, SentIsThere
<1>11. CASE UNCHANGED vars
  BY <1>0, <1>11, <1>b, <1>c DEF vars, SentInv, SentIsThere
<1> QED
  BY <1>1, <1>2, <1>3, <1>5, <1>6, <1>7, <1>8, <1>9, <1>10, <1>11 DEF Next

LEMMA SentInit ==
  ASSUME Init
  PROVE  SentInv
<1>1. HostHasWeights
  BY NoWeightsAssumption DEF Init, DevicexInit, HostHasWeights
<1> QED
  BY <1>1, TypeInit DEF Init, SentInv, SentIsThere

\* A session that sent its weights trains on weights unless its engine was loaded
\* since (TrainsUnlessReloaded), for any number of sessions that are loaded in
\* any order, and whoever takes the device away meanwhile, as long as no model
\* is fetched from a device without weights.
THEOREM OnlyReloadsLoseWeights ==
  ASSUME "fetch" \notin May
  PROVE  Spec => []TrainsUnlessReloaded
<1>1. Init => SentInv
  BY SentInit
<1>2. SentInv /\ [Next]_vars => SentInv'
  BY SentStep
<1>3. SentInv => TrainsUnlessReloaded
  BY DEF SentInv, SentIsThere, TrainsUnlessReloaded, Runs, CanExecute
<1> QED
  BY <1>1, <1>2, <1>3, PTL DEF Spec

-----------------------------------------------------------------------------
(***************************************************************************)
(* One session, whose engine is loaded before the weights are sent and not *)
(* after: then the guard of Session::run is all that is needed.            *)
(***************************************************************************)
CalledMeansLoaded ==
  \A s \in Sessions :
    weightsFromHostCalled[s] => isEngineLoaded(s) /\ s \notin reloaded

GuardInv == SentInv /\ CalledMeansLoaded

LEMMA GuardStep ==
  ASSUME \A s, t \in Sessions : s = t, May \cap {"fetch", "reload"} = {},
         GuardInv, [Next]_vars
  PROVE  GuardInv'
<1>0. SentInv /\ SentInv' /\ CalledMeansLoaded
  BY SentStep DEF GuardInv
<1>a. weightsFromHostCalled \in [Sessions -> BOOLEAN]
  BY <1>0 DEF SentInv, TypeOK
<1>1. ASSUME NEW s \in Sessions,
             \/ prepareDevice(s) \/ PrepareOnly(s)
             \/ loadEngineAndConnectStreams(s) \/ LoadFails(s)
      PROVE  CalledMeansLoaded'
  <2>1. /\ Early(s) \/ ~isEngineLoaded(s)
        /\ weightsFromHostCalled' = weightsFromHostCalled
    BY <1>1 DEF prepareDevice, PrepareOnly, loadEngineAndConnectStreams,
       LoadFails
  <2>2. ~weightsFromHostCalled[s]
    BY <1>0, <2>1 DEF Early, CalledMeansLoaded
  <2> QED
    BY <2>1, <2>2 DEF CalledMeansLoaded
<1>2. ASSUME NEW s \in Sessions, WeightsFromHost(s)
      PROVE  CalledMeansLoaded'
  BY <1>2 DEF WeightsFromHost, weightsFromHost, Execute, CalledMeansLoaded,
     isEngineLoaded
<1>3. ASSUME NEW s \in Sessions, WeightsToHost(s) \/ modelToHost(s) \/ run(s)
      PROVE  CalledMeansLoaded'
  <2>1. /\ mostRecentlyLoaded' = s /\ reloaded' = AfterLoad(s)
        /\ weightsFromHostCalled' = weightsFromHostCalled
    BY <1>3 DEF WeightsToHost, modelToHost, weightsToHost, run, Program,
       Execute
  <2>2. weightsFromHostCalled[s] => s \notin reloaded'
    BY <1>0, <2>1 DEF AfterLoad, CalledMeansLoaded
  <2> QED
    BY <2>1, <2>2 DEF CalledMeansLoaded, isEngineLoaded
<1>4. ASSUME NEW s \in Sessions,
             \E model \in Weights : resetHostWeights(s, model)
      PROVE  CalledMeansLoaded'
  <2>1. ~weightsFromHostCalled'[s]
    BY <1>4, <1>a DEF resetHostWeights
  <2> QED
    BY <2>1 DEF CalledMeansLoaded
<1>5. CASE UNCHANGED << mostRecentlyLoaded, weightsFromHostCalled, reloaded >>
  BY <1>0, <1>5 DEF GuardInv, CalledMeansLoaded, isEngineLoaded
<1>6. ASSUME NEW s \in Sessions, NEW data \in SomeWeights,
             writeWeights(s, data)
      PROVE  GuardInv'
  BY <1>5, <1>6 DEF writeWeights, device
<1>7. CASE UserDetach \/ UNCHANGED vars
  BY <1>5, <1>7 DEF UserDetach, vars
<1> QED
  BY <1>0, <1>1, <1>2, <1>3, <1>4, <1>6, <1>7 DEF Next, GuardInv

\* The guard of Session::run suffices (TrainsOnWeights) for one session on its
\* device whose engine is not loaded again, explicitly or by prepareDevice, once
\* its weights are sent; also when the device is busy or is detached between its
\* calls, as long as no model is fetched from a device without weights.
THEOREM GuardSuffices ==
  ASSUME \A s, t \in Sessions : s = t, May \cap {"fetch", "reload"} = {}
  PROVE  Spec => []TrainsOnWeights
<1>1. Init => GuardInv
  <2> SUFFICES ASSUME Init PROVE GuardInv
    OBVIOUS
  <2> QED
    BY SentInit DEF Init, GuardInv, CalledMeansLoaded
<1>2. GuardInv /\ [Next]_vars => GuardInv'
  BY GuardStep
<1>3. GuardInv => TrainsOnWeights
  <2> SUFFICES ASSUME GuardInv, NEW s \in Sessions,
                      weightsFromHostCalled[s], Runs(s)
               PROVE  Memory(s) # NoWeights
    BY DEF TrainsOnWeights
  <2> QED
    BY SentIsFound DEF GuardInv, CalledMeansLoaded
<1> QED
  BY <1>1, <1>2, <1>3, PTL DEF Spec
=============================================================================
