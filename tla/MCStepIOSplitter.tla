-------------------------- MODULE MCStepIOSplitter --------------------------
(* Instances of StepIOSplitter for TLC. *)
EXTENDS StepIOSplitter

In == {"in"}

\* Two buffers per replica and step in the one direction in use.
TwoIn == [d \in In |-> 2]

AllReplicas == 0 .. R - 1

\* Devicex connects a Broadcast tensor: its loop over the replicas asks for
\* the adapter of replica 1 before it breaks, and connects replica 0 only.
BroadcastAdapters == {0, 1}
BroadcastStreamed == {0}
=============================================================================
