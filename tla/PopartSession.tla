--------------------------- MODULE PopartSession ---------------------------
(***************************************************************************)
(* willow/src/session.cpp and the engine loading of popx/devicex.cpp: the  *)
(* training sessions (popart::TrainingSession) that were given one device. *)
(***************************************************************************)
EXTENDS Devicex

CONSTANTS
  ConnectionType,  \* DeviceConnectionType of the device
  May              \* what may happen besides the plain use of a session: a
                   \* subset of Incidents

Incidents == {
  "attach",  \* tryAttachUntilTimeout gives up: another process has the device
  "detach",  \* the user detaches the device (DeviceInfo is a context manager)
  "fetch",   \* modelToHost is called while the device holds no weights
  "reload" } \* after weightsFromHost a session is prepared again, or its engine
             \* loaded explicitly

ASSUME ConnectionAssumption == ConnectionType \in {"Always", "OnDemand"}
ASSUME MayAssumption        == May \subseteq Incidents

VARIABLES
  prepareHasBeenCalled,   \* Devicex::prepareHasBeenCalled_
  weightsFromHostCalled,  \* Session::weightsFromHostCalled
  reloaded                \* history: the sessions whose engine was loaded since
                          \* they last sent their weights

vars == << attached, mostRecentlyLoaded, engine, weights, host,
           d2hWeightBuffers, prepareHasBeenCalled, weightsFromHostCalled,
           reloaded >>

Init ==
  /\ attached = (ConnectionType = "Always") /\ DevicexInit
  /\ prepareHasBeenCalled = [s \in Sessions |-> FALSE]
  /\ weightsFromHostCalled = [s \in Sessions |-> FALSE]
  /\ reloaded = {}

(***************************************************************************)
(* loadEngineAndConnectStreams.  It attaches to a device on demand, and    *)
(* has already claimed the device when that fails.                         *)
(***************************************************************************)
CanLoad == attached \/ ConnectionType = "OnDemand"

CannotLoad == /\ ~attached
              /\ ConnectionType = "Always" \/ "attach" \in May

\* A program of s runs to its end.
Runs(s) == /\ prepareHasBeenCalled[s] /\ CanExecute(s)
           /\ IF isEngineLoaded(s) THEN attached ELSE CanLoad

Attach == attached' = TRUE

\* A call that loads the engine with or without need.  Plain use has such calls
\* before the weights are sent.
Early(s) == "reload" \in May \/ ~weightsFromHostCalled[s]

\* prepareDevice, which loads the engine unless it is told not to.  What was
\* lowered before is not lowered again, but a new engine is made every time.
prepareDevice(s) ==
  /\ Early(s) /\ CanLoad
  /\ prepareHasBeenCalled' = [prepareHasBeenCalled EXCEPT ![s] = TRUE]
  /\ Attach /\ Execute(s, NoWeights, NoWeights)
  /\ reloaded' = reloaded \cup {s}
  /\ UNCHANGED << host, weightsFromHostCalled >>

\* prepareDevice(loadEngine = false).
PrepareOnly(s) ==
  /\ Early(s)
  /\ prepareHasBeenCalled' = [prepareHasBeenCalled EXCEPT ![s] = TRUE]
  /\ mostRecentlyLoaded' = NoSession
  /\ UNCHANGED << attached, engine, weights, host, d2hWeightBuffers,
                  weightsFromHostCalled, reloaded >>

\* Loads the engine even if it is loaded, and asks for no weights after it.
loadEngineAndConnectStreams(s) ==
  /\ prepareHasBeenCalled[s] /\ Early(s) /\ CanLoad
  /\ Attach /\ Execute(s, NoWeights, NoWeights)
  /\ reloaded' = reloaded \cup {s}
  /\ UNCHANGED << host, prepareHasBeenCalled, weightsFromHostCalled >>

\* One of these calls, or a call that runs a program, fails to load the engine.
LoadFails(s) ==
  /\ CannotLoad
  /\ Early(s) \/ ~isEngineLoaded(s)
  /\ mostRecentlyLoaded' = s
  /\ prepareHasBeenCalled' = [prepareHasBeenCalled EXCEPT ![s] = TRUE]
  /\ UNCHANGED << attached, engine, weights, host, d2hWeightBuffers,
                  weightsFromHostCalled, reloaded >>

(***************************************************************************)
(* The other calls of the session.  One whose engine is not loaded loads   *)
(* it.                                                                     *)
(***************************************************************************)
AfterLoad(s) == IF isEngineLoaded(s) THEN reloaded ELSE reloaded \cup {s}

WeightsFromHost(s) ==
  /\ Runs(s) /\ Attach /\ weightsFromHost(s)
  /\ weightsFromHostCalled' = [weightsFromHostCalled EXCEPT ![s] = TRUE]
  /\ reloaded' = reloaded \ {s}
  /\ UNCHANGED << host, prepareHasBeenCalled >>

WeightsToHost(s) ==
  /\ Runs(s) /\ Attach /\ weightsToHost(s)
  /\ reloaded' = AfterLoad(s)
  /\ UNCHANGED << host, prepareHasBeenCalled, weightsFromHostCalled >>

run(s) ==
  /\ weightsFromHostCalled[s]
  /\ Runs(s) /\ Attach /\ Program(s)
  /\ reloaded' = AfterLoad(s)
  /\ UNCHANGED << host, prepareHasBeenCalled, weightsFromHostCalled >>

\* The model file gets what weightsToHost fetched, and so does the executable.
modelToHost(s) ==
  /\ "fetch" \in May \/ Memory(s) # NoWeights
  /\ Runs(s) /\ Attach /\ weightsToHost(s)
  /\ host' = [host EXCEPT ![s] = Memory(s)]
  /\ reloaded' = AfterLoad(s)
  /\ UNCHANGED << prepareHasBeenCalled, weightsFromHostCalled >>

resetHostWeights(s, model) ==
  /\ prepareHasBeenCalled[s]
  /\ host' = [host EXCEPT ![s] = model]
  /\ weightsFromHostCalled' = [weightsFromHostCalled EXCEPT ![s] = FALSE]
  /\ UNCHANGED << device, d2hWeightBuffers, prepareHasBeenCalled, reloaded >>

\* Session::writeWeights: TensorData::resetData of the variables it is given.  A
\* resetHostWeights that throws at a later tensor has done just that.
writeWeights(s, data) ==
  /\ prepareHasBeenCalled[s]
  /\ host' = [host EXCEPT ![s] = Overwritten(@, data)]
  /\ UNCHANGED << device, d2hWeightBuffers, prepareHasBeenCalled,
                  weightsFromHostCalled, reloaded >>

UserDetach ==
  /\ "detach" \in May /\ attached
  /\ Detach
  /\ UNCHANGED << mostRecentlyLoaded, host, d2hWeightBuffers,
                  prepareHasBeenCalled, weightsFromHostCalled, reloaded >>

Next ==
  \/ \E s \in Sessions :
       \/ loadEngineAndConnectStreams(s) \/ LoadFails(s)
       \/ prepareDevice(s) \/ PrepareOnly(s)
       \/ WeightsFromHost(s) \/ WeightsToHost(s)
       \/ run(s) \/ modelToHost(s)
       \/ \E model \in Weights : resetHostWeights(s, model)
       \/ \E data \in SomeWeights : writeWeights(s, data)
  \/ UserDetach

Spec == Init /\ [][Next]_vars

-----------------------------------------------------------------------------
\* The types of the variables.
TypeOK ==
  /\ DevicexTypeOK
  /\ prepareHasBeenCalled \in [Sessions -> BOOLEAN]
  /\ weightsFromHostCalled \in [Sessions -> BOOLEAN]
  /\ reloaded \subseteq Sessions

\* "Must call weightsFromHost before run as the model has initializers and the
\* session has been created in training mode" (Session::run): a run that this
\* guard lets pass, and that the engine executes, finds weights on the device.
TrainsOnWeights ==
  \A s \in Sessions :
    weightsFromHostCalled[s] /\ Runs(s) => Memory(s) # NoWeights

\* What the guard of Session::run does give: weights that were sent are lost
\* when the session's engine is loaded after that, by this very run or before
\* it, and in no other way; neither to another session, nor when the device is
\* busy or taken away, nor to a reset or a partial write of the host copy.
TrainsUnlessReloaded ==
  \A s \in Sessions :
    weightsFromHostCalled[s] /\ Runs(s) /\ isEngineLoaded(s)
      => weights # NoWeights \/ s \in reloaded

\* Devicex::run never skips the load while the engine of another session is on
\* the device.  What a busy or a detached device leaves behind is at worst a
\* claim on a device that has no engine.
NeverForeign ==
  \A s \in Sessions : isEngineLoaded(s) => engine \in {s, NoSession}
=============================================================================
