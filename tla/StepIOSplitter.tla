--------------------------- MODULE StepIOSplitter ---------------------------
(***************************************************************************)
(* willow/src/stepiosplitter.cpp: one user-supplied IStepIO is shared out, *)
(* in round-robin order, to one adapter per replica.                       *)
(*                                                                         *)
(* The state is that of ONE tensor (one SplitIOTensorInfo and its          *)
(* adapters); tensors do not share state.  The two directions of a tensor  *)
(* run the same protocol under separate mutexes, so the state is indexed   *)
(* by direction, and one callback, which holds the mutex of its direction  *)
(* from its first to its last statement, is one action.                    *)
(***************************************************************************)
EXTENDS Integers, Sequences

CONSTANTS
  R,           \* replicationFactor
  Directions,  \* the directions in use, a subset of {"in", "out"}
  MaxFetches,  \* maxInFetches / maxOutFetches of every adapter, by direction
  Adapters,    \* the replicas for which getDownstreamStepIO was called
  Streamed     \* the replicas whose stream callback is connected to the engine

Repl == 0 .. R - 1

ASSUME ReplicationAssumption == R \in Nat \ {0}
ASSUME DirectionsAssumption  == Directions \subseteq {"in", "out"}
ASSUME MaxFetchesAssumption  == MaxFetches \in [Directions -> Nat]
ASSUME AdaptersAssumption    == /\ Adapters \subseteq Repl
                                /\ Streamed \subseteq Adapters

VARIABLES
  index,          \* SplitIOTensorInfo::inIndex / outIndex
  completeIndex,  \* SplitIOTensorInfo::inCompleteIndex / outCompleteIndex
  data,           \* inData / outData of each adapter, oldest buffer first
  numFetches,     \* numInFetches / numOutFetches of each adapter
  downstream,     \* numInIncompleteDownstream / numOutIncompleteDownstream
  upstream,       \* numInIncompleteUpstream / numOutIncompleteUpstream
  ready,          \* how many buffers the upstream IStepIO can give so far
  taken,          \* how many it has given; a buffer's name is its rank
  released,       \* how often inComplete / outComplete was called upstream
  got,            \* history: the buffers handed to each replica in this step
  failed          \* a callback of this step threw

vars == << index, completeIndex, data, numFetches, downstream, upstream,
           ready, taken, released, got, failed >>

(***************************************************************************)
(* The round robin.  A walk over the replicas that starts at index i and   *)
(* stops before index j, passing the last replica k times, visits replica  *)
(* x exactly Visits(i, k, j)[x] times.  Both loops of the code (the fetch  *)
(* loop of getInData/getOutData and the loop of the completion callbacks)  *)
(* are such walks.                                                         *)
(***************************************************************************)
Step(i) == IF i + 1 = R THEN 0 ELSE i + 1

Visits(i, k, j) == [x \in Repl |-> k + (IF x < j THEN 1 ELSE 0)
                                     - (IF x < i THEN 1 ELSE 0)]

\* Buffers that a walk of the fetch loop takes from upstream.
Length(i, k, j) == k * R + j - i

\* Mutant: the ranks are not carried over the end of a round.
RankWithoutWrap(i, x) == x - i

\* The rank, counted from the walk's start, at which replica x is first met.
Rank(i, x) == IF x < i THEN x - i + R ELSE x - i

(***************************************************************************)
(* getInData / getOutData for replica r.  The walk fetches one buffer for  *)
(* every replica from `index` up to r, whichever replica asked, and ends   *)
(* early at a replica without adapter, at one that has had its fetches for *)
(* the step, or when upstream gives nothing.                               *)
(***************************************************************************)
\* Mutants: off by one, each way.
canAddOneTooMany(d, x) == numFetches[d][x] <= MaxFetches[d]
canAddAllButLast(d, x) == numFetches[d][x] + 1 < MaxFetches[d]

canAddBuffer(d, x) == numFetches[d][x] < MaxFetches[d]

FetchWalk(d, r, k, j) ==
  LET n == Visits(index[d], k, j) IN
  /\ \A x \in Repl : /\ n[x] \in {0, 1}
                     /\ n[x] = 1 => x \in Adapters /\ canAddBuffer(d, x)
  /\ taken[d] + Length(index[d], k, j) <= ready[d]
  /\ IF n[r] = 1
     THEN j = Step(r)
     ELSE \/ j \notin Adapters
          \/ ~canAddBuffer(d, j)
          \/ taken[d] + Length(index[d], k, j) = ready[d]

\* The walk ended in a throw: no adapter, or no buffer although it was not a
\* declined prefetch for the asking replica itself.
WalkThrows(d, r, prefetch, j) ==
  \/ j \notin Adapters
  \/ canAddBuffer(d, j) /\ ~(prefetch /\ j = r)

\* Mutant: an adapter has room for one buffer, and keeps the newest.
FetchedOverCached(d, k, j) ==
  [x \in Repl |-> IF Visits(index[d], k, j)[x] = 1
                  THEN << taken[d] + Rank(index[d], x) >>
                  ELSE data[d][x]]

Fetched(d, k, j) ==
  [x \in Repl |-> IF Visits(index[d], k, j)[x] = 1
                  THEN Append(data[d][x], taken[d] + Rank(index[d], x))
                  ELSE data[d][x]]

(***************************************************************************)
(* StepIOSplitterAdapter::in and ::out.  A buffer that an earlier walk has *)
(* cached is handed out at once; otherwise the splitter is asked first.    *)
(* `out` never prefetches.  A refused prefetch returns the empty buffer, a *)
(* refused fetch throws.                                                   *)
(***************************************************************************)
Deliver(d, r, queues) ==
  /\ data'       = [data EXCEPT ![d] = [queues EXCEPT ![r] = Tail(@)]]
  /\ got'        = [got EXCEPT ![d][r] = Append(@, Head(queues[r]))]
  /\ downstream' = [downstream EXCEPT ![d][r] = @ + 1]

GetCached(d, r) ==
  /\ data[d][r] # << >>
  /\ Deliver(d, r, data[d])
  /\ UNCHANGED << index, completeIndex, numFetches, upstream,
                  ready, taken, released, failed >>

GetFromUpstream(d, r, prefetch) ==
  /\ data[d][r] = << >>
  /\ \E k \in {0, 1}, j \in Repl :
       LET n      == Visits(index[d], k, j)
           queues == Fetched(d, k, j)
       IN  /\ FetchWalk(d, r, k, j)
           /\ index'      = [index EXCEPT ![d] = j]
           /\ taken'      = [taken EXCEPT ![d] = @ + Length(index[d], k, j)]
           /\ numFetches' = [numFetches EXCEPT ![d] =
                               [x \in Repl |-> @[x] + n[x]]]
           /\ IF n[r] = 1
              THEN Deliver(d, r, queues) /\ UNCHANGED failed
              ELSE /\ data' = [data EXCEPT ![d] = queues]
                   /\ failed' = (\/ failed
                                 \/ ~prefetch
                                 \/ WalkThrows(d, r, prefetch, j))
                   /\ UNCHANGED << got, downstream >>
  /\ UNCHANGED << completeIndex, upstream, ready, released >>

Get(d, r, prefetch) == GetCached(d, r) \/ GetFromUpstream(d, r, prefetch)

(***************************************************************************)
(* inComplete / outComplete.  The adapter moves one buffer from "Poplar    *)
(* has it" to "upstream is to be told"; the completion callback then tells *)
(* upstream about every buffer that is next in the original order.         *)
(***************************************************************************)
\* Mutant: the walk may stop at a replica that has buffers to report.
CompletionWalkStopsEarly(d, pending, k, j) ==
  LET n == Visits(completeIndex[d], k, j) IN
  \A x \in Repl : /\ n[x] \in 0 .. pending[x]
                  /\ n[x] > 0 => x \in Adapters

\* Mutant: the loop goes on while a count is not negative (>= 0 for > 0).
CompletionWalkTooFar(d, pending, k, j) ==
  LET n == Visits(completeIndex[d], k, j) IN
  /\ \A x \in Repl : /\ n[x] \in 0 .. pending[x] + 1
                     /\ n[x] > 0 => x \in Adapters
  /\ j \notin Adapters \/ pending[j] + 1 = n[j]

CompletionWalk(d, pending, k, j) ==
  LET n == Visits(completeIndex[d], k, j) IN
  /\ \A x \in Repl : /\ n[x] \in 0 .. pending[x]
                     /\ n[x] > 0 => x \in Adapters
  /\ j \notin Adapters \/ pending[j] = n[j]

Complete(d, r) ==
  LET pending == [upstream[d] EXCEPT ![r] = @ + 1] IN
  /\ downstream[d][r] > 0
  /\ downstream' = [downstream EXCEPT ![d][r] = @ - 1]
  /\ \E k \in 0 .. MaxFetches[d], j \in Repl :
       /\ CompletionWalk(d, pending, k, j)
       /\ completeIndex' = [completeIndex EXCEPT ![d] = j]
       /\ upstream' = [upstream EXCEPT ![d] =
             [x \in Repl |-> pending[x] - Visits(completeIndex[d], k, j)[x]]]
       /\ released' = [released EXCEPT ![d] =
                         @ + Length(completeIndex[d], k, j)]
       /\ failed' = (failed \/ j \notin Adapters)
  /\ UNCHANGED << index, data, numFetches, ready, taken, got >>

(***************************************************************************)
(* The engine.  Its program reads (writes) each streamed tensor MaxFetches *)
(* times per replica and step, each replica on its own thread; it may ask  *)
(* for the next input buffer ahead of time, at the end of a step too.      *)
(***************************************************************************)
Fetch(d, r) == Len(got[d][r]) < MaxFetches[d] /\ Get(d, r, FALSE)

Prefetch(d, r) == d = "in" /\ Get(d, r, TRUE)

StepDone == \A d \in Directions, r \in Streamed :
               Len(got[d][r]) = MaxFetches[d] /\ downstream[d][r] = 0

(***************************************************************************)
(* The user's IStepIO has one more buffer to give.  It may own more than   *)
(* the step needs: by Surplus buffers here, which is enough to notice that *)
(* one too many is taken.                                                  *)
(***************************************************************************)
StepSize(d) == R * MaxFetches[d]
Surplus     == 1

Supply(d) ==
  /\ ready[d] < StepSize(d) + Surplus
  /\ ready' = [ready EXCEPT ![d] = @ + 1]
  /\ UNCHANGED << index, completeIndex, data, numFetches, downstream,
                  upstream, taken, released, got, failed >>

(***************************************************************************)
(* The constructors, and StepIOSplitter::setUpstreamIo with its reset: the *)
(* next call of Devicex::run, which is made once the engine has returned   *)
(* from the step or has thrown.                                            *)
(***************************************************************************)
PerReplica(v) == [d \in Directions |-> [r \in Repl |-> v]]
Zero          == [d \in Directions |-> 0]

Init ==
  /\ index = Zero /\ completeIndex = Zero
  /\ data = PerReplica(<< >>) /\ got = PerReplica(<< >>)
  /\ numFetches = PerReplica(0)
  /\ downstream = PerReplica(0) /\ upstream = PerReplica(0)
  /\ ready = Zero /\ taken = Zero /\ released = Zero
  /\ failed = FALSE

SetUpstreamIo ==
  /\ StepDone \/ failed
  /\ index' = Zero /\ completeIndex' = Zero
  /\ data' = PerReplica(<< >>) /\ got' = PerReplica(<< >>)
  /\ numFetches' = PerReplica(0)
  /\ downstream' = PerReplica(0) /\ upstream' = PerReplica(0)
  /\ ready' = Zero /\ taken' = Zero /\ released' = Zero
  /\ failed' = FALSE

Next ==
  \/ \E d \in Directions, r \in Streamed :
       Fetch(d, r) \/ Prefetch(d, r) \/ Complete(d, r)
  \/ \E d \in Directions : Supply(d)
  \/ SetUpstreamIo

Spec == Init /\ [][Next]_vars

(***************************************************************************)
(* Every replica's program runs on its own thread until its reads and      *)
(* writes are done, Poplar completes what it was given, and the user's     *)
(* IStepIO supplies a whole step.  Nobody has to prefetch or run again.    *)
(***************************************************************************)
Fairness ==
  /\ \A d \in Directions : WF_vars(Supply(d))
  /\ \A d \in Directions, r \in Streamed : WF_vars(Fetch(d, r))
                                        /\ WF_vars(Complete(d, r))

FairSpec == Spec /\ Fairness

-----------------------------------------------------------------------------
\* The types of the variables.
TypeOK ==
  /\ index \in [Directions -> Repl]
  /\ completeIndex \in [Directions -> Repl]
  /\ data \in [Directions -> [Repl -> Seq(Nat)]]
  /\ got \in [Directions -> [Repl -> Seq(Nat)]]
  /\ numFetches \in [Directions -> [Repl -> Nat]]
  /\ downstream \in [Directions -> [Repl -> Nat]]
  /\ upstream \in [Directions -> [Repl -> Nat]]
  /\ ready \in [Directions -> Nat]
  /\ taken \in [Directions -> Nat]
  /\ released \in [Directions -> Nat]
  /\ failed \in BOOLEAN

\* Whatever the order in which the replicas' threads fetch and prefetch, and
\* whatever upstream refused on the way, the k-th buffer that replica r gets
\* is buffer (k-1)*R + r of the user's IStepIO (getInData, getOutData).
InOrder ==
  \A d \in Directions, r \in Repl :
    \A k \in 1 .. Len(got[d][r]) : got[d][r][k] = (k - 1) * R + r

\* How many buffers replica r's adapter has handed out and got back.
CompletedBy(d, r) == Len(got[d][r]) - downstream[d][r]

\* Upstream is told that a buffer is complete exactly when that buffer and
\* all that precede it are: a buffer it was told about is completed by its
\* replica, and the first one it was not told about is its replica's oldest
\* uncompleted buffer (inCompletionCallback, outCompletionCallback).
ReleasedInOrder ==
  \A d \in Directions :
    /\ \A r \in Repl, k \in 1 .. MaxFetches[d] :
         (k - 1) * R + r < released[d] => k <= CompletedBy(d, r)
    /\ \E r \in Repl : released[d] = CompletedBy(d, r) * R + r

\* A step takes no more than its own buffers from the user's IStepIO, however
\* eagerly Poplar prefetches (maxInFetches, maxOutFetches).
WithinStep == \A d \in Directions : taken[d] <= StepSize(d)

\* When the engine is done with a step, no buffer is left in an adapter and
\* upstream got all its buffers back: there is no prefetched buffer that
\* reset would drop, as the comment on PrefetchCallback in devicex.hpp relies
\* on.
StepEndsClean ==
  StepDone => \A d \in Directions :
                /\ \A r \in Repl : data[d][r] = << >> /\ upstream[d][r] = 0
                /\ taken[d] = StepSize(d) /\ released[d] = StepSize(d)

\* A callback throws only if the user's IStepIO had not yet supplied the whole
\* step: no order of fetches, prefetches and completions makes a step fail
\* whose buffers are all there.
FailsOnlyWhenStarved ==
  [][failed' /\ ~failed => \E d \in Directions : ready[d] < StepSize(d)]_vars

\* A step whose buffers are all supplied before a callback has thrown comes to
\* its end: every replica gets all its buffers, none waits for a buffer that
\* went to another replica, and Poplar completes them all.
StepEnds == (~failed /\ \A d \in Directions : ready[d] >= StepSize(d))
              ~> StepDone

\* For a tensor whose stream mode is Broadcast only replica 0 is connected, and
\* the step's array holds MaxFetches elements: "If broadcasted the replication
\* factor should be ignored" (stepio_size_assertion.cpp, getInExpected).  So
\* the splitter may take no more than that many.
BroadcastIgnoresReplication ==
  Streamed = {0} => \A d \in Directions : taken[d] <= MaxFetches[d]

-----------------------------------------------------------------------------
(***************************************************************************)
(* The inductive invariant behind InOrder and ReleasedInOrder.  Replica    *)
(* R-1 is the last of a round, so its counters count the rounds: those     *)
(* before the walk's index are one ahead of it, the others are level.      *)
(***************************************************************************)
Ahead(x, i) == IF x < i THEN 1 ELSE 0

FetchRounds ==
  \A d \in Directions :
    /\ taken[d] = numFetches[d][R - 1] * R + index[d]
    /\ \A x \in Repl :
         numFetches[d][x] = numFetches[d][R - 1] + Ahead(x, index[d])

\* Fetched buffers are handed out or cached, and the cache continues where
\* the handed-out ones end.
CacheContinues ==
  \A d \in Directions, x \in Repl :
    /\ Len(got[d][x]) + Len(data[d][x]) = numFetches[d][x]
    /\ numFetches[d][x] <= MaxFetches[d]
    /\ \A k \in 1 .. Len(data[d][x]) :
         data[d][x][k] = (Len(got[d][x]) + k - 1) * R + x

\* How many of replica x's buffers upstream was told about.
Reported(d, x) == CompletedBy(d, x) - upstream[d][x]

ReleaseRounds ==
  \A d \in Directions :
    /\ released[d] = Reported(d, R - 1) * R + completeIndex[d]
    /\ upstream[d][completeIndex[d]] = 0
    /\ \A x \in Repl :
         /\ downstream[d][x] + upstream[d][x] <= Len(got[d][x])
         /\ Reported(d, x) = Reported(d, R - 1) + Ahead(x, completeIndex[d])
         /\ x \notin Adapters => upstream[d][x] = 0

IInv == TypeOK /\ FetchRounds /\ CacheContinues /\ InOrder /\ ReleaseRounds

-----------------------------------------------------------------------------
\* The abstract specification that the splitter implements.
Streams == INSTANCE ReplicaStreams WITH
             done <- [d \in Directions |-> [r \in Repl |-> CompletedBy(d, r)]]

ImplementsReplicaStreams == Streams!Spec
=============================================================================
