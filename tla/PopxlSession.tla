---------------------------- MODULE PopxlSession ----------------------------
(***************************************************************************)
(* python/popxl/python_files/session.py: the context manager, the runtime  *)
(* functions and the host weights as a cache of the device weights, for    *)
(* the sessions that were constructed with one and the same DeviceInfo.    *)
(***************************************************************************)
EXTENDS Devicex, SequencesExt

CONSTANTS
  AllReplicas,  \* the variables with retrieval_mode "all_replicas"
  MaxDepth,     \* bound on the nesting of contexts, and on _was_attached_stack
  May           \* what may happen besides the plain use, a subset of Incidents

Incidents == {
  "attach",      \* another process holds the device, and attaching fails
  "setup",       \* the weights_from_host of __enter__ raises
  "teardown",    \* the weights_to_host of __exit__ raises
  "run",         \* run raises when some variables are already updated
  "write",       \* write_variables_data raises when some variables are written
  "share",       \* a session is used inside the context of another one
  "device" }     \* the user attaches and detaches the device himself

ASSUME AllReplicasAssumption == AllReplicas \subseteq Vars
ASSUME MaxDepthAssumption    == MaxDepth \in Nat
ASSUME MayAssumption         == May \subseteq Incidents

VARIABLES
  constructed,  \* the sessions whose constructor has returned
  synced,       \* TensorData::isSyncedWithIPU, set for all variables at once
  wasAttached,  \* _was_attached_stack of each session
  contexts,     \* history: the contexts entered and not yet left
  kept          \* history: the closing transfer of a context raised, and nobody
                \* has detached the device since

vars == << attached, mostRecentlyLoaded, engine, weights, host,
           d2hWeightBuffers, constructed, synced, wasAttached, contexts,
           kept >>

\* Mutant: the stack gets the session in place of the answer.
PushSelf(s, was) == [wasAttached EXCEPT ![s] = Append(@, s)]

Push(s, was) == [wasAttached EXCEPT ![s] = Append(@, was)]
Pop(s)       == [wasAttached EXCEPT ![s] = Front(@)]

InContext(s) == \E i \in DOMAIN contexts : contexts[i] = s

\* Plain use leaves a session alone inside the context of another one that was
\* given the same device.
Usable(s) == \/ "share" \in May
             \/ contexts = << >>
             \/ InContext(s)

\* copyDeviceWeightsToHost, that is popxlWeightsToTensorData.
CopyWeightsToHost(s) ==
  /\ weightsToHost(s)
  /\ host' = [host EXCEPT ![s] = Memory(s)]
  /\ synced' = [synced EXCEPT ![s] = TRUE]

\* Mutants: one of the two steps is forgotten.
TeardownKeepsDevice ==
  /\ mostRecentlyLoaded' = NoSession
  /\ UNCHANGED << attached, engine, weights, kept >>
TeardownKeepsClaim ==
  Detach /\ kept' = FALSE /\ UNCHANGED mostRecentlyLoaded

\* device.detach and setEngineIsLoaded(False).
Teardown == Detach /\ mostRecentlyLoaded' = NoSession /\ kept' = FALSE

-----------------------------------------------------------------------------
Init ==
  /\ attached = FALSE /\ DevicexInit
  /\ constructed = {}
  /\ synced = [s \in Sessions |-> TRUE]
  /\ wasAttached = [s \in Sessions |-> << >>]
  /\ contexts = << >> /\ kept = FALSE

(***************************************************************************)
(* __init__.  prepareDevice(loadEngine=False) ends in setEngineIsLoaded,   *)
(* which makes every session forget its engine; on a device that is        *)
(* already attached the weights follow at once.                            *)
(***************************************************************************)
Construct(s) ==
  /\ s \notin constructed /\ Usable(s)
  /\ constructed' = constructed \cup {s}
  /\ IF attached
     THEN Execute(s, host[s], NoWeights)
     ELSE /\ mostRecentlyLoaded' = NoSession
          /\ UNCHANGED << engine, weights, d2hWeightBuffers >>
  /\ UNCHANGED << attached, host, synced, wasAttached, contexts, kept >>

(***************************************************************************)
(* __enter__.                                                              *)
(***************************************************************************)
CanEnter(s) == /\ s \in constructed /\ Usable(s)
               /\ Len(contexts) < MaxDepth
               /\ Len(wasAttached[s]) < MaxDepth

EnterAttached(s) ==
  /\ CanEnter(s) /\ attached
  /\ wasAttached' = Push(s, TRUE)
  /\ contexts' = Append(contexts, s)
  /\ UNCHANGED << devicex, constructed, synced, kept >>

EnterDetached(s) ==
  /\ CanEnter(s) /\ ~attached /\ CanExecute(s)
  /\ attached' = TRUE
  /\ weightsFromHost(s)
  /\ wasAttached' = Push(s, FALSE)
  /\ contexts' = Append(contexts, s)
  /\ UNCHANGED << host, constructed, synced, kept >>

\* The RuntimeError of a device that stays detached leaves the stack as it is.
EnterRefused(s) ==
  /\ "attach" \in May
  /\ CanEnter(s) /\ ~attached
  /\ wasAttached' = Push(s, FALSE)
  /\ UNCHANGED << devicex, constructed, synced, contexts, kept >>

\* Mutant: without _cleanup_on_error.
EnterFailsUncleaned(s) ==
  /\ CanEnter(s) /\ ~attached
  /\ "setup" \in May \/ ~CanExecute(s)
  /\ attached' = TRUE
  /\ ProgramFails(s)
  /\ wasAttached' = Push(s, FALSE)
  /\ UNCHANGED << host, constructed, synced, contexts, kept >>

\* weights_from_host raises, and _cleanup_on_error calls __exit__.
EnterFails(s) ==
  /\ CanEnter(s) /\ ~attached
  /\ "setup" \in May \/ ~CanExecute(s)
  /\ Teardown
  /\ d2hWeightBuffers' = [d2hWeightBuffers EXCEPT ![s] = Buffer(s)]
  /\ UNCHANGED << host, constructed, synced, wasAttached, contexts >>

(***************************************************************************)
(* __exit__, with or without an exception from the body.                   *)
(***************************************************************************)
Leave(s) == /\ contexts # << >> /\ Last(contexts) = s
            /\ contexts' = Front(contexts)
            /\ wasAttached' = Pop(s)

ExitInner(s) ==
  /\ Leave(s) /\ Last(wasAttached[s])
  /\ UNCHANGED << devicex, constructed, synced, kept >>

\* Mutant: the host copy is made before the device is read.
ExitOuterCopiesFirst(s) ==
  /\ Leave(s) /\ ~Last(wasAttached[s])
  /\ attached /\ CanExecute(s)
  /\ Teardown
  /\ host' = [host EXCEPT ![s] = Buffer(s)]
  /\ d2hWeightBuffers' = [d2hWeightBuffers EXCEPT ![s] = Memory(s)]
  /\ synced' = [synced EXCEPT ![s] = TRUE]
  /\ UNCHANGED constructed

ExitOuter(s) ==
  /\ Leave(s) /\ ~Last(wasAttached[s])
  /\ attached /\ CanExecute(s)
  /\ Teardown
  /\ host' = [host EXCEPT ![s] = Memory(s)]
  /\ d2hWeightBuffers' = [d2hWeightBuffers EXCEPT ![s] = Memory(s)]
  /\ synced' = [synced EXCEPT ![s] = TRUE]
  /\ UNCHANGED constructed

ExitRaised(s) ==
  /\ Leave(s) /\ ~Last(wasAttached[s])
  /\ Teardown
  /\ UNCHANGED << host, d2hWeightBuffers, constructed, synced >>

\* weights_to_host raises: because the device is not attached, or in the
\* engine.  The device is not detached then.
ExitFails(s) ==
  /\ Leave(s) /\ ~Last(wasAttached[s])
  /\ \/ ~attached /\ UNCHANGED devicex
     \/ /\ attached
        /\ \/ "teardown" \in May /\ CanExecute(s) /\ ProgramFails(s)
           \/ ~CanExecute(s) /\ UNCHANGED << device, d2hWeightBuffers >>
        /\ UNCHANGED << attached, host >>
  /\ kept' = attached
  /\ UNCHANGED << constructed, synced >>

(***************************************************************************)
(* The runtime functions.  Whether a context is open they do not ask: a    *)
(* call passes whenever the device is attached, that is also after a       *)
(* closing transfer that raised, inside another session's context and on a *)
(* device that the user attached.  One that Poplar refuses changes nothing.*)
(***************************************************************************)
Runtime(s) == /\ s \in constructed /\ Usable(s)
              /\ attached /\ CanExecute(s)
              /\ UNCHANGED << attached, constructed, wasAttached, contexts,
                              kept >>

weights_to_host(s) == Runtime(s) /\ CopyWeightsToHost(s)

weights_from_host(s) ==
  Runtime(s) /\ weightsFromHost(s) /\ UNCHANGED << host, synced >>

\* run and run_with_outputs.
run(s) == /\ Runtime(s) /\ Program(s)
          /\ synced' = [synced EXCEPT ![s] = FALSE]
          /\ UNCHANGED host

RunFails(s) == /\ "run" \in May
               /\ Runtime(s) /\ Program(s)
               /\ UNCHANGED << host, synced >>

\* get_tensors_data, when it has to fetch the weights; else it only reads.
get_tensors_data(s) == ~synced[s] /\ Runtime(s) /\ CopyWeightsToHost(s)

(***************************************************************************)
(* write_variables_data, and write_variable_data, which calls it for one   *)
(* variable.  The variables are checked and written one by one.            *)
(***************************************************************************)
Written(s, data) ==
  /\ s \in constructed /\ Usable(s) /\ DOMAIN data \cap AllReplicas = {}
  /\ host' = [host EXCEPT ![s] = Overwritten(@, data)]
  /\ UNCHANGED << attached, constructed, synced, wasAttached, contexts,
                  kept >>

\* Mutant: without the weights_from_host that follows.
write_host_only(s, data) ==
  Written(s, data) /\ UNCHANGED << device, d2hWeightBuffers >>

\* On an attached device a weights_from_host follows, which Poplar may refuse.
write_variables_data(s, data) ==
  /\ Written(s, data)
  /\ IF attached /\ CanExecute(s)
     THEN Execute(s, host'[s], Buffer(s))
     ELSE UNCHANGED << mostRecentlyLoaded, engine, weights, d2hWeightBuffers >>

\* A variable is rejected when those of `data` are written.
WriteFails(s, data) ==
  /\ "write" \in May
  /\ Written(s, data)
  /\ UNCHANGED << device, d2hWeightBuffers >>

(***************************************************************************)
(* The user's own calls of DeviceInfo::attach and detach.                  *)
(***************************************************************************)
UserAttach == /\ "device" \in May /\ ~attached
              /\ attached' = TRUE
              /\ UNCHANGED << mostRecentlyLoaded, engine, weights, host,
                              d2hWeightBuffers, constructed, synced,
                              wasAttached, contexts, kept >>

UserDetach == /\ "device" \in May /\ attached
              /\ Detach /\ kept' = FALSE
              /\ UNCHANGED << mostRecentlyLoaded, host, d2hWeightBuffers,
                              constructed, synced, wasAttached, contexts >>

Next ==
  \/ \E s \in Sessions :
       \/ Construct(s)
       \/ EnterAttached(s) \/ EnterDetached(s)
       \/ EnterRefused(s) \/ EnterFails(s)
       \/ ExitInner(s) \/ ExitOuter(s) \/ ExitRaised(s) \/ ExitFails(s)
       \/ weights_to_host(s) \/ weights_from_host(s) \/ get_tensors_data(s)
       \/ run(s) \/ RunFails(s)
       \/ \E data \in SomeWeights :
            write_variables_data(s, data) \/ WriteFails(s, data)
  \/ UserAttach \/ UserDetach

Spec == Init /\ [][Next]_vars

-----------------------------------------------------------------------------
\* The types of the variables.
TypeOK ==
  /\ DevicexTypeOK
  /\ constructed \subseteq Sessions
  /\ synced \in [Sessions -> BOOLEAN]
  /\ wasAttached \in [Sessions -> Seq(BOOLEAN)]
  /\ contexts \in Seq(Sessions)
  /\ kept \in BOOLEAN

\* "We are not attached to the device. This occurs if and only if we are
\* outside the Session context" (the comment in session.py, get_tensors_data).
AttachedInContext == attached <=> contexts # << >>

\* What the contexts do about the device: it is attached inside them, and given
\* back at the end, whatever raises in __enter__, in the body or in __exit__,
\* with one exception.  When the closing weights_to_host raises the device is
\* kept, and then no context gives it back.
GivenBack == attached <=> contexts # << >> \/ kept

\* Entering the context does a weights_from_host, so that one can immediately
\* call run "and not get garbage" (test_session_ctxtmgr.py).
ContextIsReady ==
  \A s \in Sessions : InContext(s) /\ attached =>
    isEngineLoaded(s) /\ engine = s /\ weights # NoWeights

\* The host weights are a cache of the device weights: while they are marked as
\* in sync they are those of the device, so get_tensors_data need not fetch.
HostIsCache ==
  \A s \in Sessions : attached /\ engine = s /\ synced[s] => host[s] = weights

\* What makes HostIsCache inductive: a detached device has no engine, so that
\* attaching it, whoever does, claims nothing about any weights.
DetachedIsEmpty == ~attached => engine = NoSession

CacheInv == TypeOK /\ DetachedIsEmpty /\ HostIsCache

\* The host copy, all that is left once the device is detached, is never
\* overwritten with the memory of a device that had lost the weights.
HostSurvives == \A s \in Sessions : host[s] # NoWeights

\* The stack tells the outermost context from the others: all open contexts are
\* of one session, and of the entries that belong to them only the first says
\* that the device was not attached before, and not even that if it was kept.
StackMatches ==
  LET n == Len(contexts) IN
  \A i \in 1 .. n :
    LET was == wasAttached[contexts[i]] IN
    /\ contexts[i] = contexts[n]
    /\ n <= Len(was)
    /\ was[Len(was) - n + i] <=> i > 1 \/ kept

GivenInv == TypeOK /\ StackMatches /\ GivenBack

\* The inductive invariant behind ContextIsReady, HostSurvives and ExitSaves: up
\* to the closing transfer that raises, a context finds engine and weights.
ContextInv == GivenInv /\ (kept \/ (ContextIsReady /\ HostSurvives))

\* What get_tensors_data returns for variable v when it does not fetch.
Source(s, v) == IF v \in AllReplicas
                THEN IF d2hWeightBuffers[s] = NoWeights THEN NoWeights
                     ELSE d2hWeightBuffers[s][v]
                ELSE host[s][v]

\* get_tensor_data returns "the data stored in the tensor on the device", for
\* every retrieval mode.
GetReturnsDeviceData ==
  \A s \in Sessions, v \in Vars :
    attached /\ engine = s /\ weights # NoWeights /\ synced[s] =>
      Source(s, v) = weights[v]

\* Leaving the outermost context without an exception saves what the device
\* holds at that moment; no clean exit loses an update.
ExitSaves ==
  [][attached /\ ~attached' =>
       \A s \in Sessions : ExitOuter(s) => host'[s] = weights]_vars
=============================================================================
