----------------------------- MODULE MCPriTasks -----------------------------
(* Instances of PriTasks: tasks with clauses of every type, circles that an  *)
(* init task breaks or not, a caller with the tasks of its graph.            *)
EXTENDS PriTasks

Clause(type, tasks) == [type |-> type, tasks |-> tasks]
Task(priority, init, clauses) == [priority |-> priority, init |-> init, clauses |-> clauses]

(* The example in irlowering.cpp: a call of graph A, which loads the weight *)
(* and the bias of a convolution; the bias is laid out as its result.       *)
Convolution(weightInit, biasInit) ==
    [call |-> Task(0, FALSE, {Clause("SubGraph", {"load"})}),
     load |-> Task(0, FALSE, {Clause("Tensor", {"weight"}), Clause("Tensor", {"bias"})}),
     weight |-> Task(10, weightInit, {Clause("Tensor", {"conv", "host"})}),
     bias |-> Task(10, biasInit, {Clause("Tensor", {"conv"})}),
     conv |-> Task(1, FALSE, {Clause("Output", {"load"}), Clause("Scheduler", {"call"})}),
     host |-> Task(5, FALSE, {Clause("Scheduler", {"bias"})})]

(* Any clauses among three tasks, one of which may be replaced. *)
Small(t) == LET others == {"a", "b", "c"} \ {t}
            IN  {{}} \cup {{Clause(type, {u})} : type \in Types \ {"SubGraph"}, u \in others}
                     \cup {{Clause("Tensor", others)},
                           {Clause("Output", {u}) : u \in others}}
Triples ==
    {[a |-> Task(1, TRUE, A), b |-> Task(1, FALSE, B), c |-> Task(2, FALSE, C)] :
        A \in Small("a"), B \in Small("b"), C \in Small("c")}

(* A call of a graph with two tasks, grown out of their order; two init     *)
(* tasks in a circle with the call.                                         *)
Caller ==
    [main |-> Task(3, FALSE, {Clause("SubGraph", {"s1"}), Clause("SubGraph", {"s2"})}),
     s1 |-> Task(0, FALSE, {Clause("Tensor", {"x"}), Clause("Scheduler", {"s2"})}),
     s2 |-> Task(0, FALSE, {Clause("Tensor", {"y", "s1"})}),
     x |-> Task(9, TRUE, {Clause("Tensor", {"main"}), Clause("Tensor", {"y"})}),
     y |-> Task(9, TRUE, {Clause("Output", {"main"})}),
     last |-> Task(-100, FALSE, {Clause("Output", {"main"}), Clause("Scheduler", {"s1"})})]

(* A call of graph B, and an if whose branches are the graphs A and B.      *)
Branches ==
    [call |-> Task(1, FALSE, {Clause("SubGraph", {"b"})}),
     if |-> Task(0, FALSE, {Clause("SubGraph", {"a"}), Clause("SubGraph", {"b"}),
                            Clause("Scheduler", {"call"})}),
     a |-> Task(0, FALSE, {}),
     b |-> Task(0, FALSE, {Clause("Scheduler", {"a"})})]

AllLowerings ==
    Triples \cup {Caller, Branches} \cup {Convolution(w, b) : w, b \in BOOLEAN}
      \cup {[a |-> Task(0, TRUE, {Clause("Tensor", {"missing"})})]}

AllTasks == UNION {DOMAIN g : g \in AllLowerings} \cup {"missing"}
=============================================================================
