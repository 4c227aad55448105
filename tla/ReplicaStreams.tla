--------------------------- MODULE ReplicaStreams ---------------------------
(***************************************************************************)
(* What StepIOSplitter promises: R consumers share one numbered stream of  *)
(* buffers round robin.  Consumer r gets buffers r, r + R, r + 2R, ... in  *)
(* that order, at its own pace, and the owner of the stream is told that   *)
(* buffers are complete in the order of the stream.                        *)
(***************************************************************************)
EXTENDS Integers, Sequences

CONSTANTS R, Directions

Repl == 0 .. R - 1

VARIABLES
  ready,     \* buffers the owner has supplied in this step
  got,       \* buffers each consumer was given in this step
  done,      \* how many of those it has completed
  released   \* how many buffers the owner was told are complete

vars == << ready, got, done, released >>

PerReplica(v) == [d \in Directions |-> [r \in Repl |-> v]]
Zero          == [d \in Directions |-> 0]

Init == /\ ready = Zero /\ released = Zero
        /\ got = PerReplica(<< >>) /\ done = PerReplica(0)

Supply(d) == /\ ready' = [ready EXCEPT ![d] = @ + 1]
             /\ UNCHANGED << got, done, released >>

Deliver(d, r) ==
  LET buffer == Len(got[d][r]) * R + r IN
  /\ buffer < ready[d]
  /\ got' = [got EXCEPT ![d][r] = Append(@, buffer)]
  /\ UNCHANGED << ready, done, released >>

\* The oldest buffer that consumer r has not completed.
Open(completions, r) == completions[r] * R + r

\* The owner is told about all buffers before the oldest that is not complete.
Complete(d, r) ==
  /\ done[d][r] < Len(got[d][r])
  /\ done' = [done EXCEPT ![d][r] = @ + 1]
  /\ \E x \in Repl :
       /\ \A y \in Repl : Open(done'[d], x) <= Open(done'[d], y)
       /\ released' = [released EXCEPT ![d] = Open(done'[d], x)]
  /\ UNCHANGED << ready, got >>

\* A new step, with a new stream of buffers.
Restart == /\ ready' = Zero /\ released' = Zero
           /\ got' = PerReplica(<< >>) /\ done' = PerReplica(0)

Next == \/ \E d \in Directions, r \in Repl : Deliver(d, r) \/ Complete(d, r)
        \/ \E d \in Directions : Supply(d)
        \/ Restart

Spec == Init /\ [][Next]_vars
=============================================================================
