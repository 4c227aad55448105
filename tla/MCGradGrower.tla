---------------------------- MODULE MCGradGrower ----------------------------
(* Instances of GradGrower: the main graph of a model with a split, a tensor *)
(* that is consumed twice and a selection, and a called graph, two of whose  *)
(* outputs are also used inside; some of the inputs get no gradient.          *)
EXTENDS GradGrower

CONSTANT none

(* loss(where(c, f(d, d), w)) with <<c, d>> = split(conv(x, w)); a metric.    *)
Main(nograd) ==
    [ops      |-> {"conv", "split", "f", "where", "loss", "metric"},
     ins      |-> [conv |-> <<"x", "w">>, split |-> <<"h">>, f |-> <<"d", "d">>,
                   where |-> <<"c", "fd", "w">>, loss |-> <<"sel", "label">>,
                   metric |-> <<"sel", "d">>],
     outs     |-> [conv |-> {"h"}, split |-> {"c", "d"}, f |-> {"fd"},
                   where |-> {"sel"}, loss |-> {"l"}, metric |-> {"acc"}],
     nograd   |-> nograd, provided |-> {}, loss |-> "loss"]

(* The graph of the comment in gradgrowersumop.cpp, with a third op.         *)
Called(nograd, provided) ==
    [ops      |-> {"add1", "add2", "top"},
     ins      |-> [add1 |-> <<"a", "b">>, add2 |-> <<"y", "y">>, top |-> <<"v", "y", "a">>],
     outs     |-> [add1 |-> {"y", "v"}, add2 |-> {"z"}, top |-> {"r"}],
     nograd   |-> nograd, provided |-> provided, loss |-> NoOp]

(* The gradient of y is provided, and y is used where it gets none; that of  *)
(* v, the other output of the op, comes late.                                *)
Late == [ops      |-> {"add1", "mid", "top"},
         ins      |-> [add1 |-> <<"a">>, mid |-> <<"v">>, top |-> <<"y", "m", "a">>],
         outs     |-> [add1 |-> {"y", "v"}, mid |-> {"m"}, top |-> {"r"}],
         nograd   |-> {<<"top", 1>>}, provided |-> {"y", "r"}, loss |-> NoOp]

AllGraphs ==
    {Late} \cup
    {Main(n \cup {<<"loss", 2>>}) :
        n \in SUBSET {<<"where", 1>>, <<"where", 2>>, <<"f", 1>>, <<"f", 2>>}}
    \cup {Called(n, p) : n \in SUBSET {<<"add2", 1>>, <<"add2", 2>>, <<"top", 1>>, <<"top", 2>>},
                         p \in SUBSET {"y", "v", "z", "r"}}
=============================================================================
