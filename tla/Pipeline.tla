------------------------------ MODULE Pipeline ------------------------------
(***************************************************************************)
(* Implicit pipelining: the stages into which transforms/pipeline.cpp cuts *)
(* a model, the stashes in which activations wait for a later stage of the *)
(* same IPU, and the program of cycles that popx/popprograms.cpp builds,   *)
(* run step after step.                                                    *)
(*                                                                         *)
(* A tensor is the number of the micro-batch it belongs to.  Stage s has   *)
(* the activation it receives (act), its result (out), and perhaps a       *)
(* stream of its own (label).  What goes on to stage s + 1 is the result   *)
(* and, for a stage in "passed", the received activation itself.  A pair   *)
(* <<a, b>> in "reads" is an op of stage b, on the same virtual graph,     *)
(* that consumes the activation received by stage a.                       *)
(***************************************************************************)
EXTENDS Integers, FiniteSets, Sequences

CONSTANTS Pipelines,   \* the models that the user may give
          MaxSteps     \* bound: calls of run

VARIABLES user,          \* the model and its session options
          pl,            \* its stages after the transform
          status,        \* "built", "refused", "broken", "idle" or "running"
          program,       \* the program that runs: "train" or "fwd"
          steps, loop,   \* calls of run so far; repeat of the inner loop
          cycle, phase, stage,
          first,         \* micro-batches before the present inner loop
          act, out, label,
          stash, stashIndex, restoreIndex,
          inputs,        \* what the stage that ran last worked on
          done,          \* what each stage did in this inner loop
          returned       \* what each anchor returned in this inner loop

place == <<status, program, steps, loop, cycle, phase, stage, first>>
tensors == <<act, out, label, stash, stashIndex, restoreIndex>>
history == <<inputs, done, returned>>
vars == <<user, pl, place, tensors, history>>

Stages(p) == 0 .. p.stages - 1

(* The forward stages of a model with a forward-only program come first,   *)
(* and are as many as the backward stages (Ir::getNumPipelineStages).      *)
ASSUME PipelinesAssumption ==
    \A p \in Pipelines :
       /\ p.stages \in Nat \ {0}
       /\ p.streamed \cup p.anchored \cup p.passed \subseteq Stages(p)
       /\ p.reads \subseteq Stages(p) \X Stages(p)
       /\ \A r \in p.reads : r[1] < r[2] /\ p.vgraph[r[1]] = p.vgraph[r[2]]
       /\ p.factor \in Nat \ {0} /\ p.batchesPerStep \in Nat \ {0}
       /\ {p.gradAccl, p.fwdOnly, p.recompute} \subseteq BOOLEAN
       /\ p.fwdOnly => p.gradAccl /\ p.stages % 2 = 0
ASSUME MaxStepsAssumption == MaxSteps \in Nat

(***************************************************************************)
(* The stages.  Both mergeConsecutivePipelineStages and withStages walk    *)
(* over the stages and count those on the virtual graph of the stage       *)
(* before: w maps a stage to the one it is merged into, or runs with.      *)
(***************************************************************************)
Follows(vgraph, s, t) == vgraph[s] = vgraph[t]

IsWithStages(p, w) ==
    /\ w[0] = 0
    /\ \A s \in Stages(p) \ {0} :
          w[s] = IF Follows(p.vgraph, s, s - 1) THEN w[s - 1] ELSE w[s - 1] + 1

(* Merged unless a forward-only program needs the last forward stage apart. *)
Merged(p, w) ==
    [stages   |-> w[p.stages - 1] + 1,
     with     |-> [s \in 0 .. w[p.stages - 1] |-> s],
     streamed |-> {w[s] : s \in p.streamed},
     anchored |-> {w[s] : s \in p.anchored},
     passed   |-> {w[s] : s \in p.passed},
     restores |-> {r \in {<<w[q[1]], w[q[2]]>> : q \in p.reads} : r[1] # r[2]}]

Unmerged(p, w) ==
    [stages   |-> p.stages,
     with     |-> w,
     streamed |-> p.streamed,
     anchored |-> p.anchored,
     passed   |-> p.passed,
     restores |-> {r \in p.reads : w[r[1]] # w[r[2]]}]

Transformed(p, w) == IF p.fwdOnly THEN Unmerged(p, w) ELSE Merged(p, w)

(***************************************************************************)
(* PipelineInfo.                                                           *)
(***************************************************************************)
MicroBatches(p) == IF p.gradAccl THEN p.factor ELSE p.batchesPerStep
OuterLoops(p) == IF p.gradAccl THEN p.batchesPerStep ELSE 1

numIndependentStages(q, from, to) ==
    Cardinality({q.with[s] : s \in from .. to - 1})

fillFlushPhaseCycles(q, n) == numIndependentStages(q, 0, n) - 1

(* The stages of a program, "fwd" without those of the backward pass only. *)
NumStages(q, prog) == IF prog = "fwd" THEN q.stages \div 2 ELSE q.stages

(* Mutant: one cycle too many. *)
doStageTooLong(q, n, N, c, s) == s < n /\ c >= q.with[s] /\ c <= q.with[s] + N

doStage(q, n, N, c, s) == s < n /\ c >= q.with[s] /\ c < q.with[s] + N

(* Mutant: as many micro-batches as there are in an accumulation step. *)
DeepEnoughByFactor(p, q) == p.factor >= q.stages

(* Check 5 of Pipeline::apply. *)
DeepEnough(p, q) == MicroBatches(p) >= q.stages

(* The exception of the constructor. *)
mainCyclesTooFew(p, q) == MicroBatches(p) - fillFlushPhaseCycles(q, q.stages) < 1

(***************************************************************************)
(* Stashes.                                                                *)
(***************************************************************************)
RestoreStages(q, a) == {r[2] : r \in {x \in q.restores : x[1] = a}}
Stashed(q) == {r[1] : r \in q.restores}
MaxRestoreStage(q, a) ==
    CHOOSE b \in RestoreStages(q, a) : \A c \in RestoreStages(q, a) : c <= b

(* Mutant: no room for the stage that restores. *)
getStashSizeOpen(q, a) == numIndependentStages(q, a, MaxRestoreStage(q, a))

getStashSize(q, a) == numIndependentStages(q, a, MaxRestoreStage(q, a) + 1)

(* Mutant: an anchor may be overwritten before it is returned. *)
isInplaceAnchored(p, q, a) == a \in q.passed => p.recompute

(* A restore writes over the received activation, unless that is returned  *)
(* to the host or copied to the next IPU; with full recomputation the copy *)
(* is taken from a clone.                                                  *)
isInplace(p, q, a) ==
    /\ a \notin q.anchored
    /\ a \in q.passed => p.recompute

(* Recomputation restores in place, so that it refuses anchors. *)
RecomputeRefused(p, q) == p.recompute /\ Stashed(q) \cap q.anchored # {}

(* Mutant: the remainder is forgotten. *)
NextIndexUnbounded(size, i) == i + 1

NextIndex(size, i) == (i + 1) % size

-----------------------------------------------------------------------------
Init ==
    /\ user \in Pipelines
    /\ pl = [stages |-> 0, with |-> <<>>, streamed |-> {}, anchored |-> {},
             passed |-> {}, restores |-> {}]
    /\ status = "built" /\ program = "train"
    /\ steps = 0 /\ loop = 0 /\ cycle = 0 /\ phase = "toDevice" /\ stage = 0
    /\ first = 0
    /\ act = <<>> /\ out = <<>> /\ label = <<>>
    /\ stash = <<>> /\ stashIndex = <<>> /\ restoreIndex = <<>>
    /\ inputs = {} /\ done = <<>> /\ returned = <<>>

(* Pipeline::apply, and the lowering that creates the tensors. *)
Transform ==
    /\ status = "built"
    /\ \E w \in [Stages(user) -> Stages(user)] :
          LET q == Transformed(user, w)
          IN  /\ IsWithStages(user, w)
              /\ pl' = q
              /\ status' = IF ~DeepEnough(user, q) \/ RecomputeRefused(user, q)
                           THEN "refused"
                           ELSE IF mainCyclesTooFew(user, q) THEN "broken" ELSE "idle"
              /\ act' = [s \in Stages(q) |-> 0]
              /\ out' = [s \in Stages(q) |-> 0]
              /\ label' = [s \in Stages(q) |-> 0]
              /\ stash' = [a \in Stashed(q) |-> [i \in 0 .. getStashSize(q, a) - 1 |-> 0]]
              /\ stashIndex' = [a \in Stashed(q) |-> 0]
              /\ restoreIndex' = [r \in q.restores |-> 0]
              /\ done' = [s \in Stages(q) |-> <<>>]
              /\ returned' = [s \in Stages(q) |-> <<>>]
    /\ UNCHANGED <<user, program, steps, loop, cycle, phase, stage, first, inputs>>

(* Where a call of run ends, the inner loop that comes next starts. *)
NoHistory == /\ done' = [s \in Stages(pl) |-> <<>>]
             /\ returned' = [s \in Stages(pl) |-> <<>>]

(* zeroPipelineIndexFunction, at the start of either program if both exist. *)
ZeroIndices ==
    IF user.fwdOnly
    THEN /\ stashIndex' = [a \in Stashed(pl) |-> 0]
         /\ restoreIndex' = [r \in pl.restores |-> 0]
    ELSE UNCHANGED <<stashIndex, restoreIndex>>

StartRun(prog) ==
    /\ status = "idle" /\ steps < MaxSteps
    /\ prog = "fwd" => user.fwdOnly
    /\ program' = prog
    /\ status' = "running" /\ steps' = steps + 1 /\ loop' = 1
    /\ cycle' = 0 /\ phase' = "toDevice" /\ stage' = 0
    /\ ZeroIndices
    /\ NoHistory
    /\ UNCHANGED <<user, pl, first, act, out, label, stash, inputs>>

(***************************************************************************)
(* One cycle.  The program of the main phase is that of its first cycle,   *)
(* repeated.                                                               *)
(***************************************************************************)
NS == NumStages(pl, program)
N == MicroBatches(user)
Fill == fillFlushPhaseCycles(pl, NS)
LastCycle == N + Fill - 1

ProgramCycle(c) == IF c \in Fill .. N - 1 THEN Fill ELSE c
Does(s) == doStage(pl, NS, N, ProgramCycle(cycle), s)

(* Streams are read once per run of their stage, in the user's order. *)
NextOfStream(s) == first + Len(done[s]) + 1

ToDevice ==
    /\ status = "running" /\ phase = "toDevice"
    /\ label' = [s \in Stages(pl) |->
                    IF s \in pl.streamed /\ Does(s) THEN NextOfStream(s) ELSE label[s]]
    /\ act' = [act EXCEPT ![0] = IF Does(0) THEN NextOfStream(0) ELSE act[0]]
    /\ phase' = "main" /\ stage' = 0
    /\ UNCHANGED <<user, pl, status, program, steps, loop, cycle, first, out,
                   stash, stashIndex, restoreIndex, history>>

RestoredBy(s) == {r \in pl.restores : r[2] = s}
Restored(r) == stash[r[1]][restoreIndex[r]]

(* The ops of a stage: the stash before all other consumers, the restores, *)
(* the stage's own ops.  A stage on the same virtual graph that runs in    *)
(* the same cycle finds the result without a copy.                         *)
Main ==
    /\ status = "running" /\ phase = "main" /\ stage < pl.stages /\ Does(stage)
    /\ inputs' = {act[stage]} \cup {Restored(r) : r \in RestoredBy(stage)}
                   \cup {label[s] : s \in pl.streamed \cap {stage}}
    /\ stash' = [a \in Stashed(pl) |->
                    IF a = stage THEN [stash[a] EXCEPT ![stashIndex[a]] = act[a]]
                    ELSE stash[a]]
    /\ stashIndex' = [a \in Stashed(pl) |->
                         IF a = stage THEN NextIndex(getStashSize(pl, a), stashIndex[a])
                         ELSE stashIndex[a]]
    /\ restoreIndex' = [r \in pl.restores |->
                           IF r[2] = stage
                           THEN NextIndex(getStashSize(pl, r[1]), restoreIndex[r])
                           ELSE restoreIndex[r]]
    /\ out' = [out EXCEPT ![stage] = act[stage]]
    /\ act' = [s \in Stages(pl) |->
                  IF s = stage + 1 /\ pl.with[s] = pl.with[stage] THEN act[stage]
                  ELSE IF <<s, stage>> \in pl.restores /\ isInplace(user, pl, s)
                       THEN Restored(<<s, stage>>)
                       ELSE act[s]]
    /\ done' = [done EXCEPT ![stage] = Append(@, act[stage])]
    /\ stage' = stage + 1
    /\ UNCHANGED <<user, pl, status, program, steps, loop, cycle, phase, first,
                   label, returned>>

SkipMain ==
    /\ status = "running" /\ phase = "main" /\ stage < pl.stages /\ ~Does(stage)
    /\ stage' = stage + 1
    /\ UNCHANGED <<user, pl, status, program, steps, loop, cycle, phase, first,
                   tensors, history>>

ToHost ==
    /\ status = "running" /\ phase = "main" /\ stage = pl.stages
    /\ returned' = [s \in Stages(pl) |->
                       IF s \in pl.anchored /\ Does(s) THEN Append(returned[s], act[s])
                       ELSE returned[s]]
    /\ phase' = "copies"
    /\ UNCHANGED <<user, pl, status, program, steps, loop, cycle, stage, first,
                   tensors, inputs, done>>

Sent(s) == IF s \in pl.passed /\ ~user.recompute THEN act[s] ELSE out[s]

(* addPipelinedCopyTasks: all copies, in every cycle, the last stage first, *)
(* so that each takes what its source held before the copies.               *)
Copied(s) == Sent(s - 1)

Copies ==
    /\ status = "running" /\ phase = "copies"
    /\ act' = [s \in Stages(pl) |->
                  IF s > 0 /\ pl.with[s] # pl.with[s - 1] THEN Copied(s) ELSE act[s]]
    /\ UNCHANGED <<user, pl, program, steps, out, label, stash, stashIndex,
                   restoreIndex, inputs>>

NextCycle ==
    /\ cycle < LastCycle
    /\ cycle' = cycle + 1
    /\ UNCHANGED <<status, loop, first, done, returned>>

NextLoop ==
    /\ cycle = LastCycle /\ loop < OuterLoops(user)
    /\ cycle' = 0 /\ loop' = loop + 1 /\ first' = first + N
    /\ NoHistory
    /\ UNCHANGED status

Return ==
    /\ cycle = LastCycle /\ loop = OuterLoops(user)
    /\ status' = "idle" /\ first' = first + N
    /\ UNCHANGED <<cycle, loop, done, returned>>

EndCycle == /\ Copies
            /\ NextCycle \/ NextLoop \/ Return
            /\ phase' = "toDevice" /\ stage' = 0

Next == \/ Transform
        \/ \E prog \in {"train", "fwd"} : StartRun(prog)
        \/ ToDevice \/ Main \/ SkipMain \/ ToHost \/ EndCycle

Spec == Init /\ [][Next]_vars
-----------------------------------------------------------------------------
(* Types.  The indices are within their stashes. *)
TypeOK ==
    /\ user \in Pipelines
    /\ status \in {"built", "refused", "broken", "idle", "running"}
    /\ program \in {"train", "fwd"}
    /\ steps \in 0 .. MaxSteps /\ loop \in Nat /\ cycle \in Nat /\ first \in Nat
    /\ phase \in {"toDevice", "main", "copies"} /\ stage \in 0 .. pl.stages
    /\ inputs \subseteq Nat
    /\ status # "built" =>
         /\ {act, out, label} \subseteq [Stages(pl) -> Nat]
         /\ DOMAIN stash = Stashed(pl) /\ stashIndex \in [Stashed(pl) -> Nat]
         /\ restoreIndex \in [pl.restores -> Nat]
         /\ \A a \in Stashed(pl) : /\ stash[a] \in [0 .. getStashSize(pl, a) - 1 -> Nat]
                                   /\ stashIndex[a] \in DOMAIN stash[a]
         /\ \A r \in pl.restores : restoreIndex[r] \in DOMAIN stash[r[1]]
         /\ {done, returned} \subseteq [Stages(pl) -> Seq(Nat)]

(* What a stage receives from the stage before, what it restores and what  *)
(* is streamed to it belong to one micro-batch, whatever was copied, passed *)
(* on, stashed or overwritten in the cycles between, in earlier repeats of *)
(* the loop and in the other program.                                      *)
SameMicroBatch == \A x, y \in inputs : x = y

(* Each stage works through the micro-batches of the inner loop in order,  *)
(* none twice, and when the loop ends, where gradients are applied, no     *)
(* stage has missed one: the fill, the repeated cycle and the flush of the *)
(* program add up.                                                         *)
InOrder(s) == \A k \in 1 .. Len(s) : s[k] = first + k
EachMicroBatchOnce ==
    status = "running" =>
       /\ \A s \in Stages(pl) : InOrder(done[s])
       /\ phase = "copies" /\ cycle = LastCycle =>
             \A s \in 0 .. NS - 1 : Len(done[s]) = N

(* An anchor returns the tensor of each micro-batch in turn, although      *)
(* stages that run later in the cycle restore older values.                *)
AnchorsInOrder == \A s \in DOMAIN returned : status = "running" => InOrder(returned[s])

(* The check of Pipeline::apply, which counts stages, leaves PipelineInfo, *)
(* which counts cycles, no reason to throw.                                *)
DepthCheckSuffices == status # "broken"
=============================================================================
