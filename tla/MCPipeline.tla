----------------------------- MODULE MCPipeline -----------------------------
(* Instances of Pipeline: models on two and three IPUs, with stages that are *)
(* merged, passed through, restored more than once, recomputed or anchored.  *)
EXTENDS Pipeline

Vgraphs(v) == [s \in 0 .. Len(v) - 1 |-> v[s + 1]]

Model(v, streamed, reads, factor, bps, gradAccl, fwdOnly) ==
    {[stages |-> Len(v), vgraph |-> Vgraphs(v), streamed |-> streamed,
      anchored |-> anchored, passed |-> passed, reads |-> reads,
      factor |-> factor, batchesPerStep |-> bps, gradAccl |-> gradAccl,
      fwdOnly |-> fwdOnly, recompute |-> recompute] :
        anchored \in {{}, {0}}, passed \in {{}, {0}, {0, 1}}, recompute \in BOOLEAN}

AllPipelines ==
    UNION {
       (* forward and backward stages on two IPUs, the inner ones merged *)
       Model(<<0, 1, 1, 0>>, {0, 1}, {<<0, 3>>}, 3, 2, TRUE, FALSE),
       Model(<<0, 1, 1, 0>>, {0, 1}, {<<0, 3>>, <<1, 2>>}, 4, 2, TRUE, TRUE),
       (* three IPUs, no gradient accumulation *)
       Model(<<0, 1, 2, 2, 1, 0>>, {0, 2}, {<<0, 5>>, <<1, 4>>}, 1, 5, FALSE, FALSE),
       Model(<<0, 1, 2, 2, 1, 0>>, {0, 2}, {<<0, 5>>, <<1, 4>>}, 6, 1, TRUE, TRUE),
       (* an IPU that is used again, also by the forward pass *)
       Model(<<0, 1, 0, 1, 0>>, {0, 3}, {<<0, 2>>, <<0, 4>>, <<1, 3>>}, 6, 1, TRUE, FALSE),
       Model(<<0, 1, 0, 0, 1, 0>>, {0}, {<<0, 2>>, <<0, 5>>, <<1, 4>>}, 7, 1, TRUE, TRUE),
       (* too few micro-batches *)
       Model(<<0, 1, 1, 0>>, {0}, {<<0, 3>>}, 6, 2, FALSE, FALSE)}
=============================================================================
