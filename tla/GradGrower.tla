----------------------------- MODULE GradGrower -----------------------------
(***************************************************************************)
(* Autodiff of one graph: GradGrower::growGrads with its two registries    *)
(* (willow/src/transforms/autodiff).  TensorGradRegistry collects the edge *)
(* gradients of a tensor, one for each op and input that consumes it, and  *)
(* OpGradRegistry the outputs of an op that have a gradient.  A tensor     *)
(* whose edges are all in gets its sum; an op whose outputs all have one   *)
(* gets its gradient ops, which bring further edges.                       *)
(*                                                                         *)
(* A graph is a record: its ops, the tensors ins[o] that op o consumes, in *)
(* order, and outs[o] that it produces; the edges <<o, i>> for whose input *)
(* no gradient op of o has an output (nograd); and where the gradients     *)
(* start, with those provided for the outputs of a called graph or with    *)
(* the gradient ops of the final loss op.                                  *)
(***************************************************************************)
EXTENDS Integers, FiniteSets, Sequences, Functions

CONSTANTS Graphs,   \* the graphs that may be differentiated
          NoOp      \* the loss of a graph that has none

VARIABLES graph,
          toLoss,     \* the ops on a path to the loss
          status,     \* "start", "growing", "done" or an internal_error
          toProvide,  \* gradTensorsProvided not yet registered
          expectedNumEdges, partial, complete, failed,      \* TensorGradRegistry
          opPartial, opComplete, opFailed, completeOrFailed, \* OpGradRegistry
          edges,      \* of the op that is processed: with and without gradient
          loop, didSomething,     \* which queue is emptied
          sums,       \* the sums grown, each with the edges that it adds up
          grown, gaveUp           \* ops in the order of growGradOps, failGradOps

tensorRegistry == <<expectedNumEdges, partial, complete, failed>>
opRegistry == <<opPartial, opComplete, opFailed, completeOrFailed>>
history == <<sums, grown, gaveUp>>
vars == <<graph, toLoss, status, toProvide, tensorRegistry, opRegistry, edges, loop,
          didSomething, history>>

EdgesOf(g, o) == {<<o, i>> : i \in DOMAIN g.ins[o]}
Input(g, e) == g.ins[e[1]][e[2]]
Tensors(g) == UNION {Range(g.ins[o]) \cup g.outs[o] : o \in g.ops}

(***************************************************************************)
(* A graph is finite and has no circle, each tensor has one producer, and  *)
(* gradients start either at the final loss op, in the main graph          *)
(* (gradgrowermaingraph.cpp:101), or at some outputs of a called graph     *)
(* (backwardsgraphcreatorhelper.cpp:224).                                  *)
(***************************************************************************)
HasNoCircle(g) ==
    \A S \in SUBSET g.ops : S # {} =>
       \E o \in S : \A p \in S : g.outs[o] \cap Range(g.ins[p]) = {}

IsGraph(g) ==
    /\ IsFiniteSet(g.ops) /\ NoOp \notin g.ops
    /\ \A o \in g.ops : g.ins[o] \in Seq(Range(g.ins[o])) /\ IsFiniteSet(g.outs[o])
    /\ \A o, p \in g.ops : g.outs[o] \cap g.outs[p] # {} => o = p
    /\ HasNoCircle(g)
    /\ g.provided \subseteq Tensors(g)
    /\ g.loss = NoOp \/ (g.loss \in g.ops /\ g.provided = {})

ASSUME GraphsAssumption == \A g \in Graphs : IsGraph(g)

(***************************************************************************)
(* The paths to the loss (graphFromLossToLossUpdater).                     *)
(***************************************************************************)
LastOps(g) == {o \in g.ops : o = g.loss \/ g.outs[o] \cap g.provided # {}}

Producing(g, S) == {p \in g.ops : \E c \in S : g.outs[p] \cap Range(g.ins[c]) # {}}

(* After as many steps backwards as there are ops, the frontier is empty. *)
ToLoss(g) ==
    LET visited[n \in 0 .. Cardinality(g.ops)] ==
            IF n = 0 THEN LastOps(g)
            ELSE LastOps(g) \cup Producing(g, visited[n - 1])
    IN  visited[Cardinality(g.ops)]

(* The initialize of either registry. *)
ToLossEdges(t) == {e \in UNION {EdgesOf(graph, o) : o \in toLoss} : Input(graph, e) = t}
ToLossTensors == graph.provided \cup UNION {Range(graph.ins[o]) : o \in toLoss}
edgesToLoss(t) == Cardinality(ToLossEdges(t))
opEdgesToLoss(o) == Cardinality(graph.outs[o] \cap ToLossTensors)

Init ==
    /\ graph \in Graphs /\ toLoss = ToLoss(graph)
    /\ status = "start"
    /\ toProvide = graph.provided
    /\ expectedNumEdges = [t \in Tensors(graph) |-> edgesToLoss(t)]
    /\ partial = [t \in Tensors(graph) |-> {}]
    /\ complete = <<>> /\ failed = {}
    /\ opPartial = [o \in graph.ops |-> {}]
    /\ opComplete = <<>> /\ opFailed = <<>> /\ completeOrFailed = {}
    /\ edges = [with |-> {}, without |-> {}]
    /\ loop = "sums" /\ didSomething = FALSE
    /\ sums = <<>> /\ grown = <<>> /\ gaveUp = <<>>

(***************************************************************************)
(* OpGradRegistry.                                                         *)
(***************************************************************************)
Registered(o, t, isProvided) ==
    IF isProvided /\ <<t, FALSE>> \in opPartial[o] THEN opPartial[o]
    ELSE IF ~isProvided THEN (opPartial[o] \ {<<t, TRUE>>}) \cup {<<t, FALSE>>}
    ELSE opPartial[o] \cup {<<t, TRUE>>}

(* Mutant: the first output that has a gradient is enough. *)
EnoughForAny(o, registered) == registered # {}

Enough(o, registered) == Cardinality(registered) = opEdgesToLoss(o)

insertOutput(o, t, isProvided) ==
    \/ /\ o \notin completeOrFailed
       /\ isProvided \/ <<t, FALSE>> \notin opPartial[o]
       /\ LET registered == Registered(o, t, isProvided)
          IN  /\ opPartial' = [opPartial EXCEPT ![o] = registered]
              /\ IF Enough(o, registered)
                 THEN /\ opComplete' = Append(opComplete, o)
                      /\ completeOrFailed' = completeOrFailed \cup {o}
                 ELSE UNCHANGED <<opComplete, completeOrFailed>>
       /\ UNCHANGED <<opFailed, status>>
    \/ /\ o \notin completeOrFailed
       /\ ~isProvided /\ <<t, FALSE>> \in opPartial[o]
       /\ status' = "index already present"
       /\ UNCHANGED opRegistry
    \/ /\ o \in completeOrFailed /\ ~isProvided
       /\ IF <<t, TRUE>> \in opPartial[o]
          THEN /\ opPartial' = [opPartial EXCEPT ![o] = Registered(o, t, FALSE)]
               /\ UNCHANGED status
          ELSE status' = "already failed or completed" /\ UNCHANGED opPartial
       /\ UNCHANGED <<opComplete, opFailed, completeOrFailed>>
    \/ /\ o \in completeOrFailed /\ isProvided
       /\ UNCHANGED <<opRegistry, status>>

(* Mutant: an op that has completed fails as well. *)
failOutputAlways(o) ==
    /\ opFailed' = Append(opFailed, o)
    /\ completeOrFailed' = completeOrFailed \cup {o}
    /\ UNCHANGED <<opPartial, opComplete>>

failOutput(o) ==
    IF o \in completeOrFailed THEN UNCHANGED opRegistry
    ELSE /\ opFailed' = Append(opFailed, o)
         /\ completeOrFailed' = completeOrFailed \cup {o}
         /\ UNCHANGED <<opPartial, opComplete>>

(* The producer of a tensor on the path to the loss, if it has one. *)
Producers(t) == {o \in graph.ops : t \in graph.outs[o] \cap ToLossTensors}

insertForProducer(t, isProvided) ==
    \/ \E o \in Producers(t) : insertOutput(o, t, isProvided)
    \/ Producers(t) = {} /\ UNCHANGED <<opRegistry, status>>

failForProducer(t) ==
    \/ \E o \in Producers(t) : failOutput(o)
    \/ Producers(t) = {} /\ UNCHANGED opRegistry

(***************************************************************************)
(* TensorGradRegistry.                                                     *)
(***************************************************************************)
(* Mutant: an edge is missed. *)
isCompleteEarly(actual, expected) == actual >= expected - 1

isComplete(actual, expected) == actual >= expected

tryMakeComplete(t, actual, expected) ==
    /\ expectedNumEdges' = [expectedNumEdges EXCEPT ![t] = expected]
    /\ IF expected > 0 /\ ~isComplete(Cardinality(actual), expected)
       THEN partial' = [partial EXCEPT ![t] = actual] /\ UNCHANGED <<complete, failed>>
       ELSE /\ partial' = [partial EXCEPT ![t] = {}]
            /\ IF expected > 0
               THEN /\ complete' = [u \in DOMAIN complete \cup {t} |->
                                    IF u = t THEN actual ELSE complete[u]]
                    /\ UNCHANGED failed
               ELSE failed' = failed \cup {t} /\ UNCHANGED complete

(* processGradOps: first an edge for each output of a gradient op, ... *)
InsertEdge(e) ==
    /\ e \in edges.with
    /\ LET t == Input(graph, e)
       IN  tryMakeComplete(t, partial[t] \cup {e}, expectedNumEdges[t])
    /\ edges' = [edges EXCEPT !.with = @ \ {e}]
    /\ UNCHANGED <<graph, toLoss, status, toProvide, opRegistry, loop, didSomething, history>>

(* Mutant: it is not noticed that an edge will not come. *)
DecrementNot(t) == expectedNumEdges[t]

(* Mutant: an edge is discounted twice. *)
DecrementedTwice(t) == expectedNumEdges[t] - 2

Decremented(t) == expectedNumEdges[t] - 1

(* ... then one less to expect for each input that gets none. *)
decrementNumberExpectedEdges(e) ==
    /\ edges.with = {} /\ e \in edges.without
    /\ LET t == Input(graph, e) IN tryMakeComplete(t, partial[t], Decremented(t))
    /\ edges' = [edges EXCEPT !.without = @ \ {e}]
    /\ UNCHANGED <<graph, toLoss, status, toProvide, opRegistry, loop, didSomething, history>>

processGradOps(o) == edges' = [with    |-> EdgesOf(graph, o) \ graph.nograd,
                               without |-> EdgesOf(graph, o) \cap graph.nograd]
processNoGradOps(o) == edges' = [with |-> {}, without |-> EdgesOf(graph, o)]

-----------------------------------------------------------------------------
(***************************************************************************)
(* growGrads: what is provided, and the loop over the four queues.         *)
(***************************************************************************)
ProvideTensor(t) ==
    /\ status = "start" /\ t \in toProvide
    /\ toProvide' = toProvide \ {t}
    /\ insertForProducer(t, TRUE)
    /\ UNCHANGED <<graph, toLoss, tensorRegistry, edges, loop, didSomething, history>>

ProvideLoss ==
    /\ status = "start" /\ toProvide = {}
    /\ status' = "growing"
    /\ IF graph.loss = NoOp THEN UNCHANGED <<edges, grown>>
       ELSE processGradOps(graph.loss) /\ grown' = <<graph.loss>>
    /\ UNCHANGED <<graph, toLoss, toProvide, tensorRegistry, opRegistry, loop, didSomething,
                   sums, gaveUp>>

Idle == status = "growing" /\ edges = [with |-> {}, without |-> {}]

growGradSum(t) ==
    /\ Idle /\ loop = "sums" /\ t \in DOMAIN complete
    /\ complete' = Restrict(complete, DOMAIN complete \ {t})
    /\ sums' = Append(sums, [of |-> t, edges |-> complete[t]])
    /\ insertForProducer(t, FALSE)
    /\ didSomething' = TRUE
    /\ UNCHANGED <<graph, toLoss, toProvide, expectedNumEdges, partial, failed, edges, loop,
                   grown, gaveUp>>

failGradSum(t) ==
    /\ Idle /\ loop = "failedSums" /\ t \in failed
    /\ failed' = failed \ {t}
    /\ failForProducer(t)
    /\ didSomething' = TRUE
    /\ UNCHANGED <<graph, toLoss, status, toProvide, expectedNumEdges, partial, complete, edges,
                   loop, history>>

growGradOps ==
    /\ Idle /\ loop = "ops" /\ opComplete # <<>>
    /\ opComplete' = Tail(opComplete)
    /\ processGradOps(Head(opComplete))
    /\ grown' = Append(grown, Head(opComplete))
    /\ didSomething' = TRUE
    /\ UNCHANGED <<graph, toLoss, status, toProvide, tensorRegistry, opPartial, opFailed,
                   completeOrFailed, loop, sums, gaveUp>>

failGradOps ==
    /\ Idle /\ loop = "failedOps" /\ opFailed # <<>>
    /\ opFailed' = Tail(opFailed)
    /\ processNoGradOps(Head(opFailed))
    /\ gaveUp' = Append(gaveUp, Head(opFailed))
    /\ didSomething' = TRUE
    /\ UNCHANGED <<graph, toLoss, status, toProvide, tensorRegistry, opPartial, opComplete,
                   completeOrFailed, loop, sums, grown>>

(* A queue is empty: on to the next, and round again if anything was done. *)
NextQueue ==
    /\ Idle
    /\ \/ loop = "sums" /\ DOMAIN complete = {} /\ loop' = "failedSums"
       \/ loop = "failedSums" /\ failed = {} /\ loop' = "ops"
       \/ loop = "ops" /\ opComplete = <<>> /\ loop' = "failedOps"
    /\ UNCHANGED <<graph, toLoss, status, toProvide, tensorRegistry, opRegistry, edges,
                   didSomething, history>>

(* Mutant: the flag is declared outside of the loop. *)
newRoundKeeps == didSomething

newRound == FALSE

NextRound ==
    /\ Idle /\ loop = "failedOps" /\ opFailed = <<>>
    /\ loop' = "sums" /\ didSomething' = newRound
    /\ status' = IF didSomething THEN status ELSE "done"
    /\ UNCHANGED <<graph, toLoss, toProvide, tensorRegistry, opRegistry, edges, history>>

Next == \/ \E t \in Tensors(graph) :
              ProvideTensor(t) \/ growGradSum(t) \/ failGradSum(t)
        \/ ProvideLoss
        \/ \E e \in edges.with : InsertEdge(e)
        \/ \E e \in edges.without : decrementNumberExpectedEdges(e)
        \/ growGradOps \/ failGradOps \/ NextQueue \/ NextRound

Spec == Init /\ [][Next]_vars

(* One thread runs it all. *)
FairSpec == Spec /\ WF_vars(Next)
-----------------------------------------------------------------------------
Errors == {"index already present", "already failed or completed"}

TypeOK ==
    /\ graph \in Graphs
    /\ status \in {"start", "growing", "done"} \cup Errors
    /\ toProvide \subseteq graph.provided
    /\ expectedNumEdges \in [Tensors(graph) -> Nat]
    /\ partial \in [Tensors(graph) -> SUBSET (graph.ops \X Nat)]
    /\ DOMAIN complete \cup failed \subseteq Tensors(graph)
    /\ opPartial \in [graph.ops -> SUBSET (Tensors(graph) \X BOOLEAN)]
    /\ {opComplete, opFailed, grown, gaveUp} \subseteq Seq(graph.ops)
    /\ completeOrFailed \subseteq graph.ops
    /\ loop \in {"sums", "failedSums", "ops", "failedOps"} /\ didSomething \in BOOLEAN

(* What the gradients are by their definition: the ops that have one are   *)
(* the loss and those all of whose outputs on the path to it have one, and *)
(* a tensor has one that is provided or comes along an edge.               *)
HasGradient(S, t) ==
    t \in graph.provided \/ \E e \in ToLossEdges(t) \ graph.nograd : e[1] \in S

Differentiable ==
    LET LossOp == {graph.loss} \cap graph.ops
        reached[n \in 0 .. Cardinality(toLoss)] ==
            IF n = 0 THEN LossOp
            ELSE LossOp \cup {o \in toLoss :
                     \A t \in graph.outs[o] \cap ToLossTensors :
                        HasGradient(reached[n - 1], t)}
    IN  reached[Cardinality(toLoss)]

EdgeGradients(t) == LET D == Differentiable
                    IN  {e \in ToLossEdges(t) \ graph.nograd : e[1] \in D}

(* An op that has an output with a gradient and another, on the path to    *)
(* the loss, whose edges bring none.                                       *)
MixedOutputs(o) ==
    \E t, u \in graph.outs[o] \cap ToLossTensors :
       EdgeGradients(t) # {} /\ ToLossEdges(u) # {} /\ EdgeGradients(u) = {}

(* A sum is grown only when all edges that ever come are in, and no tensor *)
(* gets two, though the number of edges to wait for is only corrected as   *)
(* ops turn out to bring none.  Where an op has mixed outputs it may be    *)
(* given up too early, and a sum be grown without its edge; but then       *)
(* autodiff does not end without an error.                                 *)
SumsComplete ==
    /\ \A i \in DOMAIN sums : sums[i].edges \subseteq EdgeGradients(sums[i].of)
    /\ \/ \A i \in DOMAIN sums : sums[i].edges = EdgeGradients(sums[i].of)
       \/ status # "done" /\ \E o \in toLoss : MixedOutputs(o)
    /\ \A i, j \in DOMAIN sums : sums[i].of = sums[j].of => i = j

(* No op is differentiated twice, or given up and differentiated. *)
OpsOnce == LET ops == grown \o gaveUp
           IN  \A i, j \in DOMAIN ops : ops[i] = ops[j] => i = j

(* When nothing is left to do, exactly the gradients that exist by their   *)
(* definition were grown, whatever the order of the queues; in between no  *)
(* op is differentiated that should not be.                                *)
GrowsAllGradients ==
    /\ Range(grown) \subseteq Differentiable
    /\ status = "done" =>
          /\ Range(grown) = Differentiable
          /\ {sums[i].of : i \in DOMAIN sums} =
                {t \in Tensors(graph) : EdgeGradients(t) # {}}

(* The internal errors are out of reach but for an op with mixed outputs.  *)
ThrowsOnlyIfMixed ==
    /\ status # "index already present"
    /\ status = "already failed or completed" => \E o \in toLoss : MixedOutputs(o)

(* Autodiff ends. *)
Terminates == <>(status \in {"done"} \cup Errors)
=============================================================================
