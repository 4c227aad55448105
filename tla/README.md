# TLA+ models of PopART's host runtime

PopART compiles ONNX and popxl models for Graphcore IPUs and runs them. Most of
the repository is a compiler that builds and rewrites a graph in one thread.
What is stateful, concurrent or able to fail half-way is the *host runtime*: the
sessions, the engine on the device, the weights in their several places, and
the streams that feed the replicas of a model while Poplar's threads call back
into PopART. Those come first. Of the compiler the models have the parts whose
correctness is a matter of order rather than of numbers: the program of cycles
that a pipelined model becomes, the order in which the lowering grows its tasks, and
the registries by which autodiff waits for gradients.

## Inventory

| Component | Code | State | Operations | What is hard |
|---|---|---|---|---|
| StepIO splitter | `willow/src/stepiosplitter.cpp` | per tensor: round-robin indices; per replica: cached buffers, counters | `in`, `inComplete`, `out`, `outComplete`, `reset` | one thread per replica; prefetches that may be declined; completions in any order |
| Engine loading, weight transfers | `popx/devicex.cpp`, `popx/devicexmanager.cpp` | `mostRecentlyLoaded`, attached, d2h buffers, device memory | `loadEngineAndConnectStreams`, `run`, `weightsFromHost`, `weightsToHost`, `attach`, `detach` | several sessions on one device; a load that fails; a cached "is loaded" |
| popxl session | `popxl/python_files/session.py` | stack of contexts, in-sync mark, host weights | `__enter__`, `__exit__`, `run`, reads, writes, transfers | nesting; exceptions at every step; host weights as a cache |
| popart session | `willow/src/session.cpp` | `weightsFromHostCalled`, prepared | `prepareDevice`, `run`, `modelToHost`, `resetHostWeights` | a guard that remembers what a later load undoes |
| StepIO arrays | `stepio_generic.hpp`, `stepio_size_assertion.cpp`, `dataflow.cpp` | offset in every array | `get`, size checks | wrap-around; three places that compute one size |
| Pipeline | `transforms/pipeline.cpp`, `popx/popprograms.cpp` | stages, stashes and their indices | the program of cycles, stash, restore, copies | micro-batches in flight; values overwritten in place; indices that survive a run |
| Task ordering | `popx/pritask.cpp`, `popx/irlowering.cpp` | tasks, clauses, queue, sequences | add, linearise, fall back, grow, emplace | alternatives; circles; two orders for one set of tasks |
| Autodiff registries | `transforms/autodiff/*.cpp` | partial and complete gradients, expected edges | insert, fail, decrement, pop | every gradient once, from all its edges, also when some never come |
| Topological constraints | `topocons.cpp` | two maps of constraints | insert, transfer, remove | both directions must agree |
| Partitioning, liveness | `subgraphpartitioner.cpp`, `liveness.cpp` | - (algorithms) | | |
| Replica groups | `replicagrouping.cpp`, `commgroup.cpp`, `variablesettings.cpp` | - (algorithms) | | |
| Device acquisition | `devicemanager.cpp` | devices, on-demand timeout | acquire, try until timeout | other processes |

How they interact: a session owns a `Devicex` (its engine) and shares a
`DevicexInfo` (the device) with whatever other session was given the same
object. The session calls the `Devicex`; the `Devicex` asks the `DevicexInfo`
whether its engine is the one loaded last, and loads it again if not. During
`run` Poplar calls back, on a thread per replica, into the input and output
data streams, which ask their adapter of the splitter, which asks the user's
`IStepIO`. The three compiler parts run one after the other, each in one thread:
autodiff grows the backward ops, the pipeline transform distributes forward and
backward ops over stages, and the lowering turns ops into tasks, which it orders
into the program that `run` executes cycle by cycle. `PROJECT.json` lists the parts that are not modelled with the reason,
and the hazards with the line where each bites.

## Modules

| Module | Extends | What it is |
|---|---|---|
| `StepIOSplitter` | | the splitter, Poplar's threads and the user's `IStepIO` around it |
| `ReplicaStreams` | | abstract specification: R consumers share a numbered stream round robin |
| `StepIOSplitterProofs` | `StepIOSplitter` | its invariants for every R, every number of fetches |
| `StepIOSplitterRefines` | `StepIOSplitterProofs` | the splitter implements `ReplicaStreams` |
| `DataFlow` | | how many buffers a step moves, and how many elements an array must have |
| `StepIOArrays` | `DataFlow` | the user's arrays above an instance of `StepIOSplitter`: size check, offsets, runs |
| `StepIOArraysProofs` | `StepIOArrays` | sizes agree, and a step walks through every array once |
| `Devicex` | | device, engines and weights: the common part of the two sessions |
| `PopxlSession` | `Devicex` | the context manager and the runtime functions of popxl |
| `PopxlSessionProofs` | `PopxlSession` | the host cache, contexts with their stack, the claim on the device |
| `PopartSession` | `Devicex` | training sessions on a device that is always attached or on demand |
| `PopartSessionProofs` | `PopartSession` | the claim on the device, and what loses the weights that were sent |
| `Pipeline` | | stages, stashes and the program of cycles, run step after step |
| `PipelineProofs` | `Pipeline` | micro-batches are never mixed up or missed, for every model |
| `PriTasks` | | tasks are added, linearised twice, grown and emplaced |
| `PriTasksProofs` | `PriTasks` | the linearisations, growing and emplacing, for any tasks |
| `GradGrower` | | autodiff of one graph: two registries and four queues |
| `GradGrowerProofs` | `GradGrower` | exactly the gradients that exist are grown, on every graph |
| `MC*` | | the instances for TLC |

Operators whose comment says *Mutant* are faulty variants of the definition
after them. No specification uses them; with one of them in place of its
original the property named in `PROJECT.json` fails.

### StepIOSplitter

State is kept per direction (`in`, `out`). The two directions have their own
mutex, and a callback holds it from its first to its last statement, so a
callback is one action: `Get` is `in`/`out` (`GetCached` when the adapter has a
buffer, `GetFromUpstream` when it asks the splitter), `Complete` is
`inComplete`/`outComplete` with the completion callback. `SetUpstreamIo` is the
reset at the next step, which may come after a step that threw. Tensors share no
state, so one tensor is modelled. A buffer is its rank in the user's `IStepIO`.

Both loops of the code walk over the replicas from an index. The model does not
iterate: a walk that stops before replica j after k rounds is described by how
often it visits each replica (`Visits`), how many buffers that takes (`Length`)
and where the loop's exits allow it to stop (`FetchWalk`, `CompletionWalk`). The
two adapters' limits (`maxInFetches`, `maxOutFetches`) are `MaxFetches`, the
adapters that exist are `Adapters`, those whose stream Poplar reads are
`Streamed`. All are replicas, but for a Broadcast tensor.

Poplar is external: a replica fetches up to the number of buffers of the
step, may prefetch at any time, also one buffer too many at the end, and
completes what it got in any order relative to the other replicas.

### DataFlow, StepIOArrays

`DataFlow` has the two computations of the size of a step side by side: that of
the streams (`devicex.cpp`, `dataflow.cpp`) and that of the arrays
(`CorrectnessAsserter`), as operators over a record of the options that either
of them reads, and which options the code refuses (`Accepted`).

`StepIOArrays` composes them with the splitter, by `INSTANCE`: the flow
determines `R` and `MaxFetches`, and every buffer that the splitter takes from the
user's `IStepIO` is the next slice of an array (`NextSlice`, from
`StepIOGeneric::get`). `FirstRun` is the call of `Devicex::run` that checks sizes
(`RunRefused` if that throws), `Run` is a later call. Variables are those of
the splitter, the arrays' sizes and offsets, and where in its calls the session is;
`nCallsToRun` stops at 1, since the code only asks whether it is 0.

Assumptions. The sizes do not change after the first call, as the comment at
devicex.cpp:950 assumes. Runtime asserts are on, which is their default.
`StepIOGeneric` never declines, so callbacks wait until the splitter's supply is
there (`AllReady`). Steps run to their end: no callback throws. Inputs are
of mode Replicate; for Broadcast inputs `DataFlow` compares the sizes, and
`splitter_broadcast` shows what the splitter does with them. An array is named by its
direction, as in the splitter. Offsets are counted in elements, the code's in bytes.

### Devicex, PopxlSession, PopartSession

The weights of a session are one value, a function from its variables, that is
followed through three places: `host` (TensorData), `weights` (device memory)
and `d2hWeightBuffers`. `NoWeights` stands for what is found where nothing was
written. Loading an engine leaves `NoWeights` on the device and in the buffers
(docs/popxl/session.rst:74 and `initD2hWeightBuffer`). A call that runs a program
is one action: `Execute` with what the program found (`Memory`, `Buffer`, which
include the reload) and what it leaves. Session calls come from one thread.

`engine` is where the engine really is, `mostRecentlyLoaded` what the code
believes. `CanExecute` is false when the belief is wrong: Poplar then raises, and
the call is one of the `...Fails` actions or changes nothing.

What may happen besides plain use is the constant `May`, so that each run can say
which failures it admits: an attach that fails, a set-up, teardown, run or write
that raises in the middle, a user who manages the device himself, a session used
inside the context of another one. In `PopartSession`: the failing attach, the
detach by the user, a `modelToHost` before the device has weights, and the calls
that load an engine although its weights were sent already (`reload`): an explicit
`loadEngineAndConnectStreams`, or a second `prepareDevice`, which makes a new engine.
`Early` has those calls before `weightsFromHost` in any case.

A runtime function of popxl asks only whether the device is attached
(`_assert_attached_before_runtime`), and so does `Runtime`: a call passes also after
a closing transfer that raised, or on a device that the user attached. `Usable` is a
restriction of use, not of the code: without `share` a session is left alone inside
the context of another one.

Three variables are history. `contexts` has the open contexts, `kept` says that a
closing transfer raised and the device was not detached since, `reloaded` has the
sessions whose engine was loaded after their last `weightsFromHost`. No guard reads
`kept` or `reloaded`, and `contexts` is read where the code's `with` statements nest.

Simplifications. For `ipu_hw` sessions `__enter__` replaces an offline device by
one it acquires; that a stack entry is then the offline device instead of
`False` is one entry `FALSE` here. A failed `__enter__` leaves its entry on the
stack, as in the code; it is below the entries that are popped. Remote buffers are part
of `weights`. `enableVariablesCaching` has its default, so the d2h buffers are
apart from TensorData. `retrieval_mode="all_replicas"` is a set of variables
(`AllReplicas`), the single values of the replicas are not told apart. A
`PopartSession` trains (`ir->isTraining()`, with initializers).

### Pipeline

A model is a record: the virtual graph of each stage, which stages have a stream or an
anchor, which pass the activation on that they received, which later stages on the same
virtual graph read it, and the session options. `Transform` is `Pipeline::apply` with the
lowering that creates the tensors: consecutive stages on one virtual graph are merged
(`Merged`), or run in the same cycle if a forward-only program keeps them
apart (`with`); the depth check and the refusal of anchors under recomputation; and
the exception of the constructor of `PipelineInfo` (status `broken`).

`run` is `StartRun` and then, per cycle, `ToDevice`, one `Main` or `SkipMain` per stage,
`ToHost`, `EndCycle` with the copies between IPUs. A cycle has its stages one after the
other because the sequences of a cycle are emplaced in that order; on the
hardware they overlap, with no tensor shared between IPUs but by the copies. The copies are one simultaneous
step: what the code gets from their reverse order (irlowering.cpp:1491) is taken as given.
The program of the main phase is that of its first cycle, repeated (`ProgramCycle`).
The two directions of a stash are `stashIndex` and, for each stage that restores from it,
`restoreIndex`. They are zeroed at the start of a run only if the
forward-only program exists (`ZeroIndices`).

Simplifications. A tensor is the number of its micro-batch, and a stage computes its
result from what it was given. Three kinds of tensors stand for all: the received
activation, the result, and the stream. Copies go from a stage to the next one: that is
what the chaining of copies in `contiguateIpuCopies` establishes. What a stage reads
from an earlier stage on its virtual graph is the activation which that one received. The
optimizer runs where an inner loop ends; only its place is modelled (`NextLoop`, `Return`).

### PriTasks

`given` is what the model leads to: for each task a priority, its clauses (a type and a
set of tasks any one of which is enough) and whether it creates a tensor and has
an alternative. `Add` is `PriTasks::add` with its test for a circle of two.
`StartLinearised`, `Pop`, `Fallback`, `Linearised` and `Fail` are `getLinearised`, which
`prepareGraph` calls twice, with other types of clauses and without the fallback the
second time. The queue is a multiset (`queued`), the order among equal priorities and the
choice of the task to replace are left open, since they depend on an
`unordered_map`. `Grow` and `EmplaceRest` are the loop over the first order,
in which a caller first emplaces the sequences of its subgraph, in the second order.
Three exceptions end it: `refused`, `unknown` and `failed`.

Simplifications. An alternative task depends on nothing, as all those that irlowering.cpp
creates; a task with `SubGraph` clauses has one per task of the graphs it calls (as in
irlowering.cpp:1922-1951). The tasks of one graph are hence those with the same `Callers`.
`Picked` is the loop of `emplaceTaskSeqs` over the second order.
A task whose sequences are empty is like any other.

### GradGrower

A graph is its ops with inputs and outputs, the edges `<<o, i>>` for whose input the
gradient ops of `o` have no output, the gradients provided and the loss. The state is
that of `TensorGradRegistry` (`expectedNumEdges`, `partial`, `complete`, `failed`) and of
`OpGradRegistry`. `ProvideTensor` and `ProvideLoss` are the beginning of `growGrads`, then
`growGradSum`, `failGradSum`, `growGradOps` and `failGradOps` take one element of the
queue of that name, in the code's order of the queues (`loop`) and any order within
the first two, which are maps. What one op brings is registered edge by
edge (`InsertEdge`, `decrementNumberExpectedEdges`). `sums`, `grown` and `gaveUp` record
what was done. An exception is a status, and nothing happens after it.

Assumptions (`IsGraph`). The graph is finite and has no circle, a tensor has one
producer, and gradients start at the final loss op or are provided, not both: the main
graph is differentiated with an empty list of provided tensors
(gradgrowermaingraph.cpp:101), a called one without loss
(backwardsgraphcreatorhelper.cpp:224).

Simplifications. An op has one edge per input. Gradients are not
values: whether a gradient op computes the right one is no question of order.

## Runs

| Run | Instance | Question |
|---|---|---|
| `splitter_input` | R = 3, inputs, 2 buffers each | order of delivery and release, limits, nothing left over, the step ends, refinement of `ReplicaStreams` |
| `splitter_broadcast` | R = 2, adapters 0 and 1, stream 0 | *violated*: see findings |
| `step_arrays` | R = 2, 2 batches of 2 micro-batches of 2 elements, anchor `EveryN(2)`, arrays of 1 to 20 elements | no slice over the end, each given out once, steps start at zero, every step ends; sizes for every return type |
| `popxl_contexts` | 1 session, 2 variables, nesting 3, everything may fail | the device is given back but for a closing transfer that raises; contexts entered after a failure are ready; the host copy survives; the claim on the device is true; exits save |
| `popxl_own_device` | 2 sessions at a time, 1 variable, nesting 2, the user attaches and detaches | weights marked as in sync are those on the device |
| `popxl_teardown` | 1 session, 1 variable, nesting 2, the closing transfer may fail | *violated*: see findings |
| `popxl_all_replicas` | 1 session | *violated*: see findings |
| `popart_sessions` | 2 sessions, 2 variables, on-demand device, busy, detached and loaded at any time | no load is skipped over a foreign engine; weights that were sent are lost to a load only |
| `popart_reload` | 1 session, device always attached, loaded at any time | *violated*: see findings |
| `pipeline` | 4 to 6 stages on 2 or 3 IPUs, 84 models, 3 runs of either program | one micro-batch per stage and cycle, none missed, anchors in order, the depth check suffices |
| `pri_tasks` | all choices of clauses among 3 tasks, 3 examples with subgraphs | orders are correct and exist when they can, the program has every sequence in place, it ends |
| `grad_grower` | a main graph of 6 ops, a called graph of 3, all edges without gradient and all provided gradients | exactly the gradients that exist are grown, once and complete, it ends |

Bounds. R = 3 is the first size with a replica that is neither first nor last in
a round; two buffers per step make the walks wrap around, with a third asked for
by a prefetch at the end; the `IStepIO` may own one buffer more than the step
(`Surplus`). Steps repeat without bound, since a reset returns to the initial
state. In `step_arrays` inputs and outputs have steps of different length (8 and 4
slices, 16 and 8 elements), and sizes from 1 to 20 include those too small, too
large and right for either. `SizesMatchFetches` is checked over
`SmallFlows`: up to 4 batches, periods up to 5, factors up to 2 and 3, everything
enabled or not. Two values and two variables tell an updated variable from one that kept
its value; two sessions are what evicting an engine takes; contexts nest
`MaxDepth` deep, in `popxl_contexts` one more than entering and re-entering. That run
has one session, since a context that is entered after a kept device promises nothing
to a second one; several sessions are the matter of `popxl_own_device` and of the theorems. In `pipeline` three runs
(`MaxSteps`) are enough for the training program, the forward-only one and the training
program again on the indices they left; in all models with both programs the number of
micro-batches is no multiple of some stash's size, so that its indices do not return to 0 by
themselves; each model comes with its first stage anchored or not, one, two or no stage
passing its activation on, and recomputed or not. In `pri_tasks` three tasks are enough for a circle through an
alternative with a way out; two larger examples add `SubGraph` clauses and a second
replacement, and in `Branches` one op calls two graphs of which another op calls one. In `grad_grower` the ops include one with two outputs, one that
consumes a tensor twice, and a tensor that is both provided and consumed; in `Late` one
output of an op is provided, and consumed where there is no gradient, while the gradient of
its other output comes late. No run uses symmetry or a
state constraint.

Fairness (`splitter_input`, `step_arrays`): each replica's thread goes on fetching
until its program has what it needs and completes what it got, because Poplar runs
the program to its end, the call of `run` then returns, and the user's `IStepIO`
comes up with its buffers. No fairness is assumed of prefetches, nor of the next
call of `run`. `StepEnds` asks for the end of a step only once the whole step is
supplied: before that a callback may throw, which `FailsOnlyWhenStarved` confines to
that case. `EveryStepEnds` has no such condition, as arrays that passed the check
hold the whole step. `PriTasks` and `GradGrower` run in one thread that nothing stops, so
`WF_vars(Next)` is all that is assumed of them.

## What is proved

`StepIOSplitterProofs` proves `TypeOK`, `InOrder`, `ReleasedInOrder`,
`WithinStep` and `StepEndsClean` as invariants of `Spec` for every R > 0, every
`MaxFetches` and any set of adapters. The safety properties do not mention the
counters on which the code decides, so they are not inductive. `IInv` adds
what ties them together: in each direction the counters of all replicas are
those of replica R-1, plus one for the replicas before the index
(`FetchRounds`, `ReleaseRounds`), and the cache of a replica continues where
the buffers it was handed end (`CacheContinues`). The step lemma has one case per
action; its core is that a walk adds `Visits` to the counters and
moves the index, which keeps the rounds level. If every replica has its adapter, the
action property `FailsOnlyWhenStarved` follows too: a walk that ends before the asking
replica cannot have ended at one that has had all its fetches, as the asking one is level
with it or behind (`WalkBeforeReplica`), so upstream was empty, and that was before the
last buffer of the step (`WalkEndsEarly`). Without an adapter a walk throws whatever upstream has.

`StepIOArraysProofs` proves `SizesMatchFetches`, `BuffersAreSlices` and
`StepsStartAtZero` for every flow that the code accepts and whose accumulation
factor is 1 or enabled (otherwise it does not hold, see the observations), and
for arrays of any sizes. The invariant `ArraysInv` says that an array whose
check was passed has as many elements as the step has slices, and that the offset
is the number of slices taken times their length, or 0 after the last one. What
the splitter contributes (`IInv`, `WithinStep`, `StepEndsClean`) is not proved again:
`SP` instantiates `StepIOSplitterProofs`, every step of `StepIOArrays` is shown
to be one of that instance, and its theorems carry over. That the sizes agree
is arithmetic about factors and the return period. The offset
after several slices (`After`) is a recursive function; `SetInduction` states
induction for a set instead of an operator, from the well-foundedness of `<`.

`PopxlSessionProofs` proves `TypeOK` whatever fails, and `HostIsCache` if no
run, write or closing transfer fails half-way, for any number of sessions on the
device, with the user attaching and detaching it. The invariant is `CacheInv`: a
detached device has no engine, hence attaching it claims nothing.
The failures excluded must be: with any of them TLC finds a counterexample (for a
write see the observations).

`StepIOSplitterRefines` proves that every step of the splitter is a step of
`ReplicaStreams` under the mapping of `ImplementsReplicaStreams`, or a stutter.
The mapping hides indices, caches and counters: what is left is who got which
buffer, what was released, and how much the user supplied. Besides `IInv` it
needs that no walk takes more than was supplied; then `OldestOpen` (the oldest
buffer that some replica has not completed) is shown to be what the walk over
the replicas has reached when it stops.

For contexts it proves `GivenBack` whatever fails: attached means that a context is open or
that the device was kept. The invariant is `GivenInv` with `StackMatches`: all open contexts are
of one session, and of that session's stack the top entries belong to them, the first
`FALSE` unless the device was kept, the others `TRUE`. Hence the context that tears down is
the outermost one, whatever entries refused contexts have left below, and after a
closing transfer that raised none does. `ContextInv` adds `ContextIsReady` and
`HostSurvives` up to that event. `ExitSaves` needs no such limit, since no later context detaches
by a clean exit. Assumed is that the device is used through the contexts of one session
at a time. A session that has the device for itself is ready and keeps its host copy also
after the event (`OneSessionIsSafe`): then the attached device, in a context or not,
has engine and weights (`AttachedIsReady`), and whatever a failed exit left behind is as
good as new. `EngineIsWhereClaimed` needs neither: any number of sessions, nested in any way,
whatever fails, as long as the user does not attach and detach the device himself.

`PopartSessionProofs` proves `TypeOK` and `NeverForeign` without any assumption, the latter
with the invariant that a detached device has no engine; `EngineIsWhereClaimed`, which
says more, for any number of sessions unless the device is detached by hand or an attach
on demand fails (see the observations: the claim is made before the attach).
`TrainsUnlessReloaded` it proves for any number of sessions, whatever the device does, if no
model is fetched from a device without weights. Its invariant `SentIsThere` says that the
device has weights as long as it holds the engine of a session that sent them and was not
loaded since. `GuardSuffices` is what remains of the message of `Session::run`: for one session
that does not load its engine again, the guard is enough. It is a special case, since neither
condition can be dropped: with an explicit load `popart_reload` is a counterexample, and with
two sessions the load that follows an eviction loses the weights in the same way.

`PipelineProofs` proves all properties of the run `pipeline` for every set of models that
satisfies `PipelinesAssumption`, any number of stages and of runs. The invariant
`IInv` says where each stage is: the turns it has had in the inner loop (`Turns`)
follow from cycle and place, and `Present` is the micro-batch that it works on. Then
`TensorsInv` says which tensors hold that one at which point of the cycle, in view of what
was copied, left by a stage of the same cycle, or overwritten by a restore in
place; `StashInv` that d places back in a stash is the d-th last
micro-batch; `RestoreInv` that a restore index lags behind the stash index by the difference
of the turns of both stages. That difference never exceeds the size of the stash, because
`with` grows by 0 or 1 from stage to stage, so that independent stages can be counted by
intervals (`numIndependentStages`). Between runs `IdleInv` is what is left: both
indices are equal, or are zeroed.

`PriTasksProofs` proves `TypeOK`, `SchedulesCorrect`, `FailsOnlyIfImpossible` and
`ReplacedOnlyIfStuck` for any tasks, priorities and clauses. The invariant ties the queue
to what is linearised: `remaining` has the clauses that nothing linearised
satisfies, a task is queued exactly if it has none left and is not yet out, and what was
replaced had been stuck. With the queue empty, the unscheduled tasks are hence a set each of whose
members waits for another one of it, which is what `Stuck` says. `SubgraphBeforeCaller`
and `ProgramInOrder` rest on `GrowInv`: what is emplaced and what waits in `seqs` are
together what has been grown, a graph is emplaced as a whole when it is first called,
and of two tasks with the same callers the one that the second order has first is never
emplaced later (`InTurn`). That attempt at a proof showed that an order is kept within a graph,
but not between two graphs which one op calls: `Branches` is the counterexample.

`GradGrowerProofs` proves all safety properties of the run `grad_grower` for every graph that
satisfies `IsGraph`. `ToLoss` and `Differentiable` iterate a function until nothing new
comes; that as many steps as there are ops are enough is the lemma `IteratesConverge`, so
both satisfy their equation. The invariant splits the edges of a tensor: some have come
(`Came`), some are known not to come (`Missing`), and for the others their op is
undecided or its edges are still being registered. `TensorInv` says that the counts of
the registry are the sizes of these sets, and that a tensor is complete or failed exactly when
none is undecided; `OutputsInv` that an op is completed when it has all of its outputs;
`ReasonInv` that an op is completed only if it has a gradient, and given up only if one of its
outputs gets no edge. At the end `LoopInv` has all queues empty. An op that were undecided
then would have one after it that is undecided too (`LastOfAll`, as there is no circle), so
none is. That no op with a gradient was given up is the argument for the errors, too:
such an op, the last of its kind, has mixed outputs and one whose sum will yet be grown, which
ends in the internal error (`GivenUpTooEarly`). This proof refuted `SumsComplete` as it
was first stated: with mixed outputs a sum may be grown without an edge, before the error.

The proofs rest on the named assumptions of the modules and on the lemmas about sequences
and finite sets of the standard library. Only model-checked are the liveness properties
(`StepEnds`, `EveryStepEnds`, `Terminates` of `PriTasks` and of `GradGrower`), which need fairness
and `ENABLED`. Every other property of a run that passes is the statement of a theorem, some
for fewer of the constants than the model admits: the conditions are given above.

## Findings

Each has a run that TLC ends with a counterexample.

* `splitter_broadcast`. `loadEngineAndConnectStreams` asks the splitter for the
  adapter of replica 1 of a Broadcast tensor before it breaks out of its loop. The
  walk of replica 0 then takes a buffer for replica 1, who never reads it.
* `popxl_teardown`. `__exit__` does not detach if its `weights_to_host` raises
  (session.py:635): it is attached outside of any context then, which according to
  session.py:312 is impossible, and contexts that follow do not give the device back.
  What does hold is `GivenBack`.
* `popart_reload`. `loadEngineAndConnectStreams`, or a second `prepareDevice`, loads the
  engine whatever was on the device (session.cpp:490, devicex.cpp:1268), and
  `weightsFromHostCalled` stays true (session.cpp:579): the next run passes the guard that
  asks for `weightsFromHost` and trains on a device without weights. The guard has the
  same gap when another session's engine was loaded in between: `Devicex::run` then loads
  the engine itself. What does hold is `TrainsUnlessReloaded`.
* `popxl_all_replicas`. Variables of mode `all_replicas` are read from the d2h
  buffers, but the decision not to fetch is taken on a mark about TensorData:
  right after the context is entered, the result is a buffer nobody wrote.

Observations. The first two contradict the documentation or a test; a run of
their own is easily had by the change of constants given with them.

* `write_variables_data` raises at a bad variable when earlier ones are changed on the
  host, not sent, and still marked as in sync (session.py:413;
  docs/popxl/session.rst:156). `HostIsCache` fails with `May = {"write"}`.
* The size check multiplies with `accumulationFactor` although it is not enabled, and an
  implicitly pipelined model is not refused for that (stepio_size_assertion.cpp:97,
  devicex.cpp:1369; gradient_accumulation_test.py:560 expects it to be): the step ends in
  the middle of the arrays that the check demands. `StepsStartAtZero` fails in `step_arrays`
  for a flow with factor 2 that is not enabled.
* `setMostRecentlyLoaded` comes before the attach on demand
  (devicex.cpp:1283-1289). If that fails, later calls skip the load of an engine that is
  not there, and cannot succeed until another session's engine is loaded.
  `EngineIsWhereClaimed` fails in `PopartSession` with `May = {"attach"}`. So it does with
  `May = {"detach"}`, as `detach` does not withdraw the claim (devicexmanager.cpp:310). In the
  model such calls are those that Poplar refuses (`CanExecute`), as the code itself does not
  notice. `NeverForeign` is what holds.
* A step that throws leaves `StepIOGeneric`'s offsets in the middle of the arrays,
  and a later run with the same `IStepIO` continues there (stepio_generic.hpp:85).
* `InputDatastream::read` accepts UINT8 data for an FP8 tensor, `readPrefetch`
  raises for it (devicex.cpp:117, 175).
* Writing one popxl variable sends all host copies, so it undoes what a run did
  to the other variables since the last transfer (session.py:457).
* A session constructed on an attached device evicts the engine of the one
  whose context is open. The latter reloads its engine at the next call, without
  weights (session.py:124, devicex.cpp:235).
* docs/popxl/session.rst:185 has the condition under which leaving a context detaches
  the wrong way round.
* `modelToHost` before any `weightsFromHost` writes the contents of a device without
  weights into the executable (session.cpp:708-748).
* popprograms.cpp:452 says that after training all stash indices are at 0 again. That is so
  only if the size of every stash divides the number of micro-batches; what the
  code needs, and `PipelineProofs` shows, is only that the indices of a stash agree.
* `contiguateIpuCopies` accepts a copy to the stage before as contiguous
  (pipeline.cpp:1446). In an implicit pipeline the two stages work on different
  micro-batches, and such a copy would mix them; whether a model can have one is open.
* pritask.hpp:188-191 says that a task to be replaced is part of a strong component. The
  set computed for that has every unscheduled task, is only logged, and any unscheduled
  init task may be replaced, also one that merely waits for the circle. `ReplacedOnlyIfStuck`
  is what holds.
* An op with two outputs on the path to the loss, one of which is consumed only where there
  is no gradient (as the condition of Where, gradgrower.cpp:62), makes autodiff throw an
  `internal_error` (opgradregistry.cpp:83) if the other output's gradient comes after the
  failure, and else no error and no gradient. error.hpp:98 reserves `internal_error` for
  states that the user cannot create. `ThrowsOnlyIfMixed` shows that this is the only way.
  A provided gradient does not help an output whose edges bring none: the op is given up all
  the same, unless all its outputs had a gradient before, and until the error
  is thrown a sum may be grown without the edge of that op (graph `Late`).

## Not modelled

What is left of the repository, and why it stays outside.

* *Topological constraints*: two maps that every operation writes together, in one
  thread. Those that a protocol depends on (stash before all other consumers, restore
  before its own) are part of `Pipeline`.
* *Explicit pipelining*, liveness, partitioning and outlining: analyses and rewritings of a
  finished graph by one thread. They keep no state between calls, and what they
  decide depends on the shapes of ops and schedules.
* *Transforms and patterns*, automatic loss scaling, ops, their lowering and constant
  expressions: they are correct when two tensor programs compute the same numbers,
  which is not a matter for TLC.
* *IR, aliases, scheduling*: data structures of one thread; the algorithms are in the
  poprithms library, whose source is not in the repository.
* *Device acquisition*: its loop until a timeout shows its callers success or failure only,
  and in both session models an attach may fail at any time. What other processes
  do to a device happens in the drivers.
* *Replica groups and variable settings*: closed arithmetic on immutable values.
* *Executable cache, builder, ONNX front end, bindings*: file formats, message construction
  and glue code, large parts of it generated.
* Of the modelled parts: the validation of user arrays, missing tensors in the size check,
  serialisation, the search for creators of a tensor, the inference of pipeline stages, and
  what `PROJECT.json` names in the notes of its components.
* An abstract store of variables above the popxl session was considered and left out: its
  promises are `HostIsCache`, `HostSurvives` and `ExitSaves`, and with every call admitted
  to fail half-way there is little that a store could promise beyond them.
