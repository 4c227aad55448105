------------------------ MODULE StepIOSplitterProofs ------------------------
(***************************************************************************)
(* Proofs about StepIOSplitter, for every replication factor, every number *)
(* of fetches, every set of adapters and connected replicas.               *)
(***************************************************************************)
EXTENDS StepIOSplitter, TLAPS

\* The last replica of a round exists.
LEMMA LastReplica == R - 1 \in Repl /\ 0 \in Repl
BY ReplicationAssumption DEF Repl

\* Visits is a function on the replicas into the integers.
LEMMA VisitsType ==
  ASSUME NEW i \in Repl, NEW k \in Nat, NEW j \in Repl
  PROVE  /\ Visits(i, k, j) \in [Repl -> Int]
         /\ Length(i, k, j) \in Int
         /\ \A x \in Repl : Visits(i, k, j)[x] = k + Ahead(x, j) - Ahead(x, i)
BY ReplicationAssumption DEF Visits, Length, Repl, Ahead

\* The type invariant, entry by entry.
LEMMA Types ==
  ASSUME TypeOK, NEW d \in Directions
  PROVE  /\ index[d] \in Repl /\ completeIndex[d] \in Repl
         /\ ready[d] \in Nat /\ taken[d] \in Nat /\ released[d] \in Nat
         /\ data[d] \in [Repl -> Seq(Nat)] /\ got[d] \in [Repl -> Seq(Nat)]
         /\ numFetches[d] \in [Repl -> Nat]
         /\ downstream[d] \in [Repl -> Nat] /\ upstream[d] \in [Repl -> Nat]
         /\ \A x \in Repl :
              /\ data[d][x] \in Seq(Nat) /\ got[d][x] \in Seq(Nat)
              /\ numFetches[d][x] \in Nat /\ downstream[d][x] \in Nat
              /\ upstream[d][x] \in Nat
<1>1. /\ index[d] \in Repl /\ completeIndex[d] \in Repl
      /\ ready[d] \in Nat /\ taken[d] \in Nat /\ released[d] \in Nat
      /\ data[d] \in [Repl -> Seq(Nat)] /\ got[d] \in [Repl -> Seq(Nat)]
      /\ numFetches[d] \in [Repl -> Nat]
      /\ downstream[d] \in [Repl -> Nat] /\ upstream[d] \in [Repl -> Nat]
  BY DEF TypeOK
<1> QED
  BY <1>1

\* A walk that visits no replica a negative number of times has a length.
LEMMA LengthNat ==
  ASSUME NEW i \in Repl, NEW k \in Nat, NEW j \in Repl,
         \A x \in Repl : Visits(i, k, j)[x] >= 0
  PROVE  Length(i, k, j) \in Nat
<1>1. CASE k = 0
  <2>1. 0 + Ahead(j, j) - Ahead(j, i) >= 0
    BY <1>1, VisitsType
  <2>2. j >= i
    BY <2>1, ReplicationAssumption DEF Ahead, Repl
  <2> QED
    BY <1>1, <2>2, ReplicationAssumption DEF Length, Repl
<1>2. CASE k > 0
  <2>1. k * R = (k - 1) * R + R
    BY <1>2, ReplicationAssumption
  <2>2. (k - 1) * R \in Nat
    BY <1>2, ReplicationAssumption
  <2> QED
    BY <2>1, <2>2, ReplicationAssumption DEF Length, Repl
<1> QED
  BY <1>1, <1>2

\* Sums of naturals.
LEMMA NatPlus ==
  ASSUME NEW a \in Nat, NEW b \in Int, b >= 0
  PROVE  a + b \in Nat
OBVIOUS

\* Updating one entry of a function of functions keeps its type.
LEMMA UpdateTyped ==
  ASSUME NEW S, NEW T, NEW V, NEW f \in [S -> [T -> V]],
         NEW s \in S, NEW t \in T, NEW v \in V
  PROVE  [f EXCEPT ![s][t] = v] \in [S -> [T -> V]]
OBVIOUS

-----------------------------------------------------------------------------
(* The effect of each callback, replica by replica. *)

\* A buffer taken from the front of the asking replica's queue.
LEMMA DeliverEffect ==
  ASSUME TypeOK, NEW d \in Directions, NEW r \in Repl,
         NEW queues \in [Repl -> Seq(Nat)], queues[r] # << >>,
         Deliver(d, r, queues)
  PROVE  /\ data' \in [Directions -> [Repl -> Seq(Nat)]]
         /\ got' \in [Directions -> [Repl -> Seq(Nat)]]
         /\ downstream' \in [Directions -> [Repl -> Nat]]
<1>1. Head(queues[r]) \in Nat /\ Tail(queues[r]) \in Seq(Nat)
  OBVIOUS
<1>2. [queues EXCEPT ![r] = Tail(@)] \in [Repl -> Seq(Nat)]
  BY <1>1
<1>3. data' \in [Directions -> [Repl -> Seq(Nat)]]
  BY <1>2 DEF Deliver, TypeOK
<1>4. Append(got[d][r], Head(queues[r])) \in Seq(Nat)
  BY <1>1, Types
<1>5. got' \in [Directions -> [Repl -> Seq(Nat)]]
  <2>1. got \in [Directions -> [Repl -> Seq(Nat)]]
    BY DEF TypeOK
  <2>2. got' = [got EXCEPT ![d][r] = Append(got[d][r], Head(queues[r]))]
    BY DEF Deliver
  <2> QED
    BY <1>4, <2>1, <2>2, UpdateTyped
<1>6. downstream[d][r] + 1 \in Nat
  BY Types
<1>7. downstream' \in [Directions -> [Repl -> Nat]]
  <2>1. downstream \in [Directions -> [Repl -> Nat]]
    BY DEF TypeOK
  <2>2. downstream' = [downstream EXCEPT ![d][r] = downstream[d][r] + 1]
    BY DEF Deliver
  <2> QED
    BY <1>6, <2>1, <2>2, UpdateTyped
<1> QED
  BY <1>3, <1>5, <1>7

LEMMA DeliverEntries ==
  ASSUME TypeOK, NEW d \in Directions, NEW r \in Repl,
         NEW queues \in [Repl -> Seq(Nat)],
         Deliver(d, r, queues), NEW e \in Directions, NEW x \in Repl
  PROVE  /\ e # d => data'[e][x] = data[e][x]
         /\ x # r => data'[d][x] = queues[x]
         /\ data'[d][r] = Tail(queues[r])
         /\ e # d \/ x # r => /\ got'[e][x] = got[e][x]
                              /\ downstream'[e][x] = downstream[e][x]
         /\ got'[d][r] = Append(got[d][r], Head(queues[r]))
         /\ downstream'[d][r] = downstream[d][r] + 1
BY DEF Deliver, TypeOK

\* The same for a buffer that was cached.
LEMMA GetCachedEffect ==
  ASSUME TypeOK, NEW d \in Directions, NEW r \in Repl, GetCached(d, r)
  PROVE  /\ TypeOK'
         /\ data[d][r] # << >>
         /\ data'[d][r] = Tail(data[d][r])
         /\ got'[d][r] = Append(got[d][r], Head(data[d][r]))
         /\ downstream'[d][r] = downstream[d][r] + 1
         /\ \A e \in Directions, x \in Repl :
              e # d \/ x # r => /\ data'[e][x] = data[e][x]
                               /\ got'[e][x] = got[e][x]
                               /\ downstream'[e][x] = downstream[e][x]
<1>1. data[d] \in [Repl -> Seq(Nat)] /\ data[d][r] # << >>
  BY DEF TypeOK, GetCached
<1>2. PICK queues \in [Repl -> Seq(Nat)] : queues = data[d]
  BY <1>1
<1>3. queues[r] # << >> /\ Deliver(d, r, queues)
  BY <1>1, <1>2 DEF GetCached, Deliver
<1>4. UNCHANGED << index, completeIndex, numFetches, upstream,
                   ready, taken, released, failed >>
  BY DEF GetCached
<1>5. TypeOK'
  BY <1>3, <1>4, DeliverEffect DEF TypeOK
<1>6. /\ data'[d][r] = Tail(data[d][r])
      /\ got'[d][r] = Append(got[d][r], Head(data[d][r]))
      /\ downstream'[d][r] = downstream[d][r] + 1
  BY <1>2, <1>3, DeliverEntries
<1>7. ASSUME NEW e \in Directions, NEW x \in Repl, e # d \/ x # r
      PROVE  /\ data'[e][x] = data[e][x]
             /\ got'[e][x] = got[e][x]
             /\ downstream'[e][x] = downstream[e][x]
  BY <1>2, <1>3, <1>7, DeliverEntries
<1> QED
  BY <1>1, <1>5, <1>6, <1>7

\* The buffers that a fetch walk adds to the caches, and the cursors it moves.
LEMMA WalkEffect ==
  ASSUME TypeOK, NEW d \in Directions, NEW r \in Repl,
         NEW k \in {0, 1}, NEW j \in Repl, FetchWalk(d, r, k, j)
  PROVE  /\ Fetched(d, k, j) \in [Repl -> Seq(Nat)]
         /\ taken[d] + Length(index[d], k, j) \in Nat
         /\ \A x \in Repl :
              /\ Visits(index[d], k, j)[x] = k + Ahead(x, j) - Ahead(x, index[d])
              /\ Visits(index[d], k, j)[x] \in {0, 1}
              /\ Rank(index[d], x) \in Nat
              /\ Visits(index[d], k, j)[x] = 1 =>
                   /\ numFetches[d][x] < MaxFetches[d]
                   /\ Fetched(d, k, j)[x] =
                        Append(data[d][x], taken[d] + Rank(index[d], x))
              /\ Visits(index[d], k, j)[x] = 0 =>
                   Fetched(d, k, j)[x] = data[d][x]
<1>1. index[d] \in Repl /\ k \in Nat
  BY DEF TypeOK
<1>2. \A x \in Repl : Rank(index[d], x) \in Nat
  BY <1>1, ReplicationAssumption DEF Rank, Repl
<1>3. \A x \in Repl : data[d][x] \in Seq(Nat) /\ taken[d] \in Nat
  BY DEF TypeOK
<1>4. Fetched(d, k, j) \in [Repl -> Seq(Nat)]
  BY <1>2, <1>3 DEF Fetched
<1>5. \A x \in Repl : Visits(index[d], k, j)[x] \in {0, 1}
  BY DEF FetchWalk
<1>6. Length(index[d], k, j) \in Nat
  <2>1. \A x \in Repl : Visits(index[d], k, j)[x] >= 0
    BY <1>5
  <2> QED
    BY <1>1, <2>1, LengthNat
<1>7. \A x \in Repl : Visits(index[d], k, j)[x] = 1 =>
                        numFetches[d][x] < MaxFetches[d]
  BY DEF FetchWalk, canAddBuffer
<1>8. taken[d] + Length(index[d], k, j) \in Nat
  BY <1>6, Types, NatPlus
<1>9. \A x \in Repl :
        Visits(index[d], k, j)[x] = k + Ahead(x, j) - Ahead(x, index[d])
  BY <1>1, VisitsType
<1>10. \A x \in Repl :
         /\ Visits(index[d], k, j)[x] = 1 => Fetched(d, k, j)[x] =
               Append(data[d][x], taken[d] + Rank(index[d], x))
         /\ Visits(index[d], k, j)[x] = 0 => Fetched(d, k, j)[x] = data[d][x]
  BY DEF Fetched
<1> QED
  BY <1>2, <1>4, <1>5, <1>7, <1>8, <1>9, <1>10

\* A callback that asks upstream: what the walk fetched, less the buffer that
\* is handed out when the walk reached the asking replica.
WalkResult(d, r, k, j) ==
  LET n == Visits(index[d], k, j) IN
  /\ FetchWalk(d, r, k, j)
  /\ index'[d] = j
  /\ taken'[d] = taken[d] + Length(index[d], k, j)
  /\ \A x \in Repl : numFetches'[d][x] = numFetches[d][x] + n[x]
  /\ \A x \in Repl : x # r \/ n[r] # 1 =>
       /\ data'[d][x] = Fetched(d, k, j)[x]
       /\ got'[d][x] = got[d][x] /\ downstream'[d][x] = downstream[d][x]
  /\ n[r] = 1 =>
       /\ data'[d][r] = << >>
       /\ got'[d][r] = Append(got[d][r], taken[d] + Rank(index[d], r))
       /\ downstream'[d][r] = downstream[d][r] + 1
  /\ \A e \in Directions : e # d =>
       /\ index'[e] = index[e] /\ taken'[e] = taken[e]
       /\ \A x \in Repl :
            /\ numFetches'[e][x] = numFetches[e][x]
            /\ data'[e][x] = data[e][x] /\ got'[e][x] = got[e][x]
            /\ downstream'[e][x] = downstream[e][x]

LEMMA GetFromUpstreamEffect ==
  ASSUME TypeOK, NEW d \in Directions, NEW r \in Repl,
         NEW prefetch \in BOOLEAN, GetFromUpstream(d, r, prefetch)
  PROVE  /\ TypeOK'
         /\ data[d][r] = << >>
         /\ \E k \in {0, 1}, j \in Repl : WalkResult(d, r, k, j)
<1>1. PICK k \in {0, 1}, j \in Repl :
        LET n == Visits(index[d], k, j) IN
        /\ FetchWalk(d, r, k, j)
        /\ index' = [index EXCEPT ![d] = j]
        /\ taken' = [taken EXCEPT ![d] = @ + Length(index[d], k, j)]
        /\ numFetches' = [numFetches EXCEPT ![d] =
                            [x \in Repl |-> @[x] + n[x]]]
        /\ IF n[r] = 1
           THEN Deliver(d, r, Fetched(d, k, j)) /\ UNCHANGED failed
           ELSE /\ data' = [data EXCEPT ![d] = Fetched(d, k, j)]
                /\ failed' = (\/ failed
                              \/ ~prefetch
                              \/ WalkThrows(d, r, prefetch, j))
                /\ UNCHANGED << got, downstream >>
  BY DEF GetFromUpstream
<1> DEFINE n == Visits(index[d], k, j)
           queues == Fetched(d, k, j)
<1>2. /\ queues \in [Repl -> Seq(Nat)]
      /\ taken[d] + Length(index[d], k, j) \in Nat
      /\ \A x \in Repl : n[x] \in {0, 1} /\ Rank(index[d], x) \in Nat
  BY <1>1, WalkEffect
<1>3. data[d][r] = << >>
  BY DEF GetFromUpstream
<1>4. UNCHANGED << completeIndex, upstream, ready, released >>
  BY DEF GetFromUpstream
<1>5. /\ index' \in [Directions -> Repl] /\ taken' \in [Directions -> Nat]
      /\ index'[d] = j /\ taken'[d] = taken[d] + Length(index[d], k, j)
      /\ \A e \in Directions : e # d => index'[e] = index[e] /\ taken'[e] = taken[e]
  BY <1>1, <1>2 DEF TypeOK
<1>6. /\ numFetches' \in [Directions -> [Repl -> Nat]]
      /\ \A x \in Repl : numFetches'[d][x] = numFetches[d][x] + n[x]
      /\ \A e \in Directions, x \in Repl :
           e # d => numFetches'[e][x] = numFetches[e][x]
  <2> DEFINE row == [x \in Repl |-> numFetches[d][x] + n[x]]
  <2>1. numFetches' = [numFetches EXCEPT ![d] = row]
    BY <1>1
  <2>2. row \in [Repl -> Nat]
    <3>1. ASSUME NEW x \in Repl PROVE numFetches[d][x] + n[x] \in Nat
      <4>1. numFetches[d][x] \in Nat
        BY Types
      <4>2. n[x] \in {0, 1}
        BY <1>2
      <4> HIDE DEF n
      <4> QED
        BY <4>1, <4>2
    <3> HIDE DEF n
    <3> QED
      BY <3>1
  <2>3. numFetches \in [Directions -> [Repl -> Nat]]
    BY DEF TypeOK
  <2> QED
    BY <2>1, <2>2, <2>3
<1>7. CASE n[r] = 1
  <2>1. taken[d] + Rank(index[d], r) \in Nat
    BY <1>2, Types, NatPlus
  <2>2. PICK q \in [Repl -> Seq(Nat)] : q = queues
    BY <1>2
  <2>3. Deliver(d, r, q) /\ UNCHANGED failed
    BY <1>1, <1>7, <2>2 DEF Deliver
  <2>4. q[r] = Append(data[d][r], taken[d] + Rank(index[d], r))
    BY <1>1, <1>7, <2>2, WalkEffect
  <2>5. /\ q[r] # << >> /\ Tail(q[r]) = << >>
        /\ Head(q[r]) = taken[d] + Rank(index[d], r)
    BY <1>3, <2>1, <2>4
  <2>6. TypeOK'
    BY <1>4, <1>5, <1>6, <2>3, <2>5, DeliverEffect DEF TypeOK
  <2>7. /\ data'[d][r] = << >>
        /\ got'[d][r] = Append(got[d][r], taken[d] + Rank(index[d], r))
        /\ downstream'[d][r] = downstream[d][r] + 1
    <3>1. /\ data'[d][r] = Tail(q[r])
          /\ got'[d][r] = Append(got[d][r], Head(q[r]))
          /\ downstream'[d][r] = downstream[d][r] + 1
      BY <2>3, DeliverEntries
    <3> QED
      BY <2>5, <3>1
  <2>8. \A x \in Repl : x # r => /\ data'[d][x] = Fetched(d, k, j)[x]
                                 /\ got'[d][x] = got[d][x]
                                 /\ downstream'[d][x] = downstream[d][x]
    BY <2>2, <2>3, DeliverEntries, SMTT(30)
  <2>9. \A e \in Directions, x \in Repl : e # d =>
          /\ data'[e][x] = data[e][x] /\ got'[e][x] = got[e][x]
          /\ downstream'[e][x] = downstream[e][x]
    BY <2>3, DeliverEntries
  <2>10. WalkResult(d, r, k, j)
    BY <1>1, <1>5, <1>6, <1>7, <2>7, <2>8, <2>9 DEF WalkResult
  <2> QED
    BY <1>3, <2>6, <2>10
<1>8. CASE n[r] # 1
  <2>1. /\ data' = [data EXCEPT ![d] = queues] /\ failed' \in BOOLEAN
        /\ UNCHANGED << got, downstream >>
    BY <1>1, <1>8 DEF TypeOK, WalkThrows
  <2>2. TypeOK'
    BY <1>2, <1>4, <1>5, <1>6, <2>1 DEF TypeOK
  <2>3. /\ \A x \in Repl : data'[d][x] = queues[x]
        /\ \A e \in Directions : e # d => data'[e] = data[e]
    BY <2>1 DEF TypeOK
  <2>4. WalkResult(d, r, k, j)
    BY <1>1, <1>5, <1>6, <1>8, <2>1, <2>3 DEF WalkResult
  <2> QED
    BY <1>3, <2>2, <2>4
<1> QED
  BY <1>7, <1>8

\* A completed buffer, and what the completion walk reports upstream.
Pending(d, r, x) == upstream[d][x] + IF x = r THEN 1 ELSE 0

CompleteResult(d, r, k, j) ==
  LET n == Visits(completeIndex[d], k, j) IN
  /\ downstream[d][r] > 0
  /\ \A x \in Repl : /\ n[x] >= 0 /\ n[x] <= Pending(d, r, x)
                     /\ n[x] > 0 => x \in Adapters
                     /\ upstream'[d][x] = Pending(d, r, x) - n[x]
  /\ j \notin Adapters \/ upstream'[d][j] = 0
  /\ completeIndex'[d] = j
  /\ released'[d] = released[d] + Length(completeIndex[d], k, j)
  /\ downstream'[d][r] = downstream[d][r] - 1
  /\ \A e \in Directions, x \in Repl :
       /\ e # d \/ x # r => downstream'[e][x] = downstream[e][x]
       /\ e # d => upstream'[e][x] = upstream[e][x]
  /\ \A e \in Directions : e # d => /\ completeIndex'[e] = completeIndex[e]
                                   /\ released'[e] = released[e]

LEMMA CompleteEffect ==
  ASSUME TypeOK, NEW d \in Directions, NEW r \in Repl, Complete(d, r)
  PROVE  /\ TypeOK'
         /\ \E k \in Nat, j \in Repl : CompleteResult(d, r, k, j)
<1> DEFINE pending == [upstream[d] EXCEPT ![r] = @ + 1]
<1>1. MaxFetches[d] \in Nat
  BY MaxFetchesAssumption
<1>2. PICK k \in 0 .. MaxFetches[d], j \in Repl :
        /\ CompletionWalk(d, pending, k, j)
        /\ completeIndex' = [completeIndex EXCEPT ![d] = j]
        /\ upstream' = [upstream EXCEPT ![d] =
              [x \in Repl |-> pending[x] - Visits(completeIndex[d], k, j)[x]]]
        /\ released' = [released EXCEPT ![d] =
                          @ + Length(completeIndex[d], k, j)]
        /\ failed' = (failed \/ j \notin Adapters)
  BY DEF Complete
<1> DEFINE n == Visits(completeIndex[d], k, j)
<1>3. /\ k \in Nat /\ completeIndex[d] \in Repl
  BY <1>1, <1>2, Types
<1>4. /\ downstream[d][r] > 0
      /\ downstream' = [downstream EXCEPT ![d][r] = downstream[d][r] - 1]
      /\ UNCHANGED << index, data, numFetches, ready, taken, got >>
  BY DEF Complete
<1>5. \A x \in Repl : pending[x] = Pending(d, r, x) /\ pending[x] \in Nat
  BY Types DEF Pending
<1>6. \A x \in Repl : /\ n[x] \in 0 .. pending[x]
                      /\ n[x] > 0 => x \in Adapters
  BY <1>2 DEF CompletionWalk
<1>7. j \notin Adapters \/ pending[j] = n[j]
  BY <1>2 DEF CompletionWalk
<1> HIDE DEF pending
<1>8. \A x \in Repl : n[x] \in Int
  BY <1>3, VisitsType
<1>9. \A x \in Repl : pending[x] - n[x] \in Nat /\ n[x] >= 0
  <2> HIDE DEF n
  <2> QED
    BY <1>5, <1>6, <1>8
<1>10. Length(completeIndex[d], k, j) \in Nat
  BY <1>3, <1>9, LengthNat
<1>11. /\ released' \in [Directions -> Nat]
       /\ completeIndex' \in [Directions -> Repl]
       /\ completeIndex'[d] = j
       /\ released'[d] = released[d] + Length(completeIndex[d], k, j)
       /\ \A e \in Directions : e # d => /\ completeIndex'[e] = completeIndex[e]
                                        /\ released'[e] = released[e]
  <2>1. released[d] + Length(completeIndex[d], k, j) \in Nat
    BY <1>10, Types, NatPlus
  <2>2. /\ released \in [Directions -> Nat]
        /\ completeIndex \in [Directions -> Repl]
    BY DEF TypeOK
  <2> QED
    BY <1>2, <2>1, <2>2
<1>12. /\ upstream' \in [Directions -> [Repl -> Nat]]
       /\ \A x \in Repl : upstream'[d][x] = pending[x] - n[x]
       /\ \A e \in Directions : e # d => upstream'[e] = upstream[e]
  <2>1. upstream \in [Directions -> [Repl -> Nat]]
    BY DEF TypeOK
  <2>2. [x \in Repl |-> pending[x] - n[x]] \in [Repl -> Nat]
    BY <1>9
  <2>3. upstream' = [upstream EXCEPT ![d] = [x \in Repl |-> pending[x] - n[x]]]
    BY <1>2
  <2> QED
    BY <2>1, <2>2, <2>3
<1>13. /\ downstream' \in [Directions -> [Repl -> Nat]]
       /\ downstream'[d][r] = downstream[d][r] - 1
       /\ \A e \in Directions, x \in Repl :
            e # d \/ x # r => downstream'[e][x] = downstream[e][x]
  <2>1. downstream \in [Directions -> [Repl -> Nat]]
    BY DEF TypeOK
  <2>2. downstream[d][r] - 1 \in Nat
    BY <1>4, Types
  <2>3. downstream' \in [Directions -> [Repl -> Nat]]
    BY <1>4, <2>1, <2>2, UpdateTyped
  <2> QED
    BY <1>4, <2>1, <2>3
<1>14. TypeOK'
  BY <1>2, <1>4, <1>11, <1>12, <1>13 DEF TypeOK
<1>15. CompleteResult(d, r, k, j)
  <2>1. \A x \in Repl : n[x] >= 0 /\ n[x] <= Pending(d, r, x)
    BY <1>5, <1>6, <1>8
  <2>2. j \notin Adapters \/ upstream'[d][j] = 0
    BY <1>7, <1>8, <1>12
  <2> QED
    BY <1>4, <1>5, <1>6, <1>11, <1>12, <1>13, <2>1, <2>2 DEF CompleteResult
<1> QED
  BY <1>3, <1>14, <1>15

-----------------------------------------------------------------------------
(* Fetching preserves the invariant. *)

\* The buffer that upstream gives for replica x is x's next one in the stream.
LEMMA NextBuffer ==
  ASSUME TypeOK, FetchRounds, NEW d \in Directions, NEW x \in Repl
  PROVE  taken[d] + Rank(index[d], x) = numFetches[d][x] * R + x
<1> DEFINE q == numFetches[d][R - 1]
<1>1. /\ q \in Nat /\ index[d] \in Repl /\ taken[d] = q * R + index[d]
      /\ numFetches[d][x] = q + Ahead(x, index[d])
  BY LastReplica, Types DEF FetchRounds
<1> HIDE DEF q
<1>2. (q + 1) * R = q * R + R /\ q * R \in Nat
  BY <1>1, ReplicationAssumption
<1>3. CASE x < index[d]
  BY <1>1, <1>2, <1>3, ReplicationAssumption DEF Ahead, Rank, Repl
<1>4. CASE ~(x < index[d])
  BY <1>1, <1>2, <1>4, ReplicationAssumption DEF Ahead, Rank, Repl
<1> QED
  BY <1>3, <1>4

\* One walk of either loop moves the rounds on: if the counters are level but
\* for those before index i, and a walk from i to j with k wraps adds its
\* visits, they are level again but for those before j.
LEMMA RoundsAdvance ==
  ASSUME NEW i \in Repl, NEW k \in Nat, NEW j \in Repl, NEW q \in Int,
         NEW total \in Int, total = q * R + i
  PROVE  /\ total + Length(i, k, j) = (q + k) * R + j
         /\ \A x \in Repl : (q + Ahead(x, i)) + Visits(i, k, j)[x]
                                = (q + k) + Ahead(x, j)
<1>1. (q + k) * R = q * R + k * R /\ q * R \in Int /\ k * R \in Int
  BY ReplicationAssumption
<1>2. total + Length(i, k, j) = (q + k) * R + j
  BY <1>1, ReplicationAssumption DEF Length, Repl
<1>3. \A x \in Repl : (q + Ahead(x, i)) + Visits(i, k, j)[x]
                         = (q + k) + Ahead(x, j)
  <2> TAKE x \in Repl
  <2>1. Visits(i, k, j)[x] = k + Ahead(x, j) - Ahead(x, i)
    BY VisitsType
  <2>2. Ahead(x, i) \in Int /\ Ahead(x, j) \in Int
    BY DEF Ahead
  <2> QED
    BY <2>1, <2>2
<1> QED
  BY <1>2, <1>3

LEMMA WalkRounds ==
  ASSUME TypeOK, FetchRounds, NEW d \in Directions, NEW r \in Repl,
         NEW k \in {0, 1}, NEW j \in Repl, WalkResult(d, r, k, j)
  PROVE  FetchRounds'
<1> DEFINE q == numFetches[d][R - 1]
           n == Visits(index[d], k, j)
<1>1. /\ q \in Nat /\ index[d] \in Repl /\ taken[d] \in Nat /\ k \in Nat
      /\ taken[d] = q * R + index[d]
      /\ \A x \in Repl : numFetches[d][x] = q + Ahead(x, index[d])
  BY LastReplica, Types DEF FetchRounds
<1> HIDE DEF q
<1>2. /\ taken[d] + Length(index[d], k, j) = (q + k) * R + j
      /\ \A x \in Repl : (q + Ahead(x, index[d])) + n[x] = (q + k) + Ahead(x, j)
  BY <1>1, RoundsAdvance
<1>3. /\ taken'[d] = (q + k) * R + j /\ index'[d] = j
      /\ \A x \in Repl : numFetches'[d][x] = (q + k) + Ahead(x, j)
  BY <1>1, <1>2 DEF WalkResult
<1>4. numFetches'[d][R - 1] = q + k
  BY <1>1, <1>3, LastReplica, ReplicationAssumption DEF Ahead, Repl
<1>5. /\ taken'[d] = numFetches'[d][R - 1] * R + index'[d]
      /\ \A x \in Repl :
           numFetches'[d][x] = numFetches'[d][R - 1] + Ahead(x, index'[d])
  BY <1>3, <1>4
<1>6. ASSUME NEW e \in Directions, e # d
      PROVE  /\ taken'[e] = numFetches'[e][R - 1] * R + index'[e]
             /\ \A x \in Repl :
                  numFetches'[e][x] = numFetches'[e][R - 1] + Ahead(x, index'[e])
  BY <1>6, LastReplica DEF WalkResult, FetchRounds
<1> QED
  BY <1>5, <1>6 DEF FetchRounds, Ahead

\* What IInv says of the buffers of one replica.
Buffers(d, x) ==
  /\ Len(got[d][x]) + Len(data[d][x]) = numFetches[d][x]
  /\ numFetches[d][x] <= MaxFetches[d]
  /\ \A k \in 1 .. Len(data[d][x]) :
       data[d][x][k] = (Len(got[d][x]) + k - 1) * R + x
  /\ \A k \in 1 .. Len(got[d][x]) : got[d][x][k] = (k - 1) * R + x

LEMMA BuffersAll ==
  CacheContinues /\ InOrder <=> \A d \in Directions, x \in Repl : Buffers(d, x)
BY DEF CacheContinues, InOrder, Buffers

\* Appending to a sequence.
LEMMA AppendFacts ==
  ASSUME NEW s \in Seq(Nat), NEW v \in Nat
  PROVE  /\ Append(s, v) \in Seq(Nat) /\ Len(Append(s, v)) = Len(s) + 1
         /\ \A k \in 1 .. Len(s) : Append(s, v)[k] = s[k]
         /\ Append(s, v)[Len(s) + 1] = v
OBVIOUS

\* What a fetch walk does to the cache of replica x.
Visited(d, k, j, x) ==
  LET n == Visits(index[d], k, j)[x] IN
  /\ n \in {0, 1} /\ Rank(index[d], x) \in Nat
  /\ n = 1 => /\ numFetches[d][x] < MaxFetches[d]
              /\ Fetched(d, k, j)[x] =
                   Append(data[d][x], taken[d] + Rank(index[d], x))
  /\ n = 0 => Fetched(d, k, j)[x] = data[d][x]

LEMMA VisitedByWalk ==
  ASSUME TypeOK, NEW d \in Directions, NEW r \in Repl,
         NEW k \in {0, 1}, NEW j \in Repl, FetchWalk(d, r, k, j),
         NEW x \in Repl
  PROVE  Visited(d, k, j, x)
BY WalkEffect, SMTT(30) DEF Visited

LEMMA WalkBuffers ==
  ASSUME TypeOK, FetchRounds, NEW d \in Directions, NEW r \in Repl,
         data[d][r] = << >>,
         NEW k \in {0, 1}, NEW j \in Repl, WalkResult(d, r, k, j),
         NEW e \in Directions, NEW x \in Repl, Buffers(e, x)
  PROVE  Buffers(e, x)'
<1> DEFINE n == Visits(index[d], k, j)
           next == taken[d] + Rank(index[d], x)
<1>1. CASE e # d
  <2>1. /\ numFetches'[e][x] = numFetches[e][x]
        /\ data'[e][x] = data[e][x] /\ got'[e][x] = got[e][x]
    BY <1>1, Zenon DEF WalkResult
  <2> QED
    BY <2>1, Zenon DEF Buffers
<1>2. CASE e = d
  <2>1. /\ data[d][x] \in Seq(Nat) /\ got[d][x] \in Seq(Nat)
        /\ numFetches[d][x] \in Nat /\ MaxFetches[d] \in Nat
    BY Types, MaxFetchesAssumption
  <2>2. /\ FetchWalk(d, r, k, j)
        /\ numFetches'[d][x] = numFetches[d][x] + n[x]
    BY DEF WalkResult
  <2>3. /\ n[x] \in {0, 1} /\ Rank(index[d], x) \in Nat
        /\ n[x] = 1 => numFetches[d][x] < MaxFetches[d]
        /\ n[x] = 1 => Fetched(d, k, j)[x] = Append(data[d][x], next)
        /\ n[x] = 0 => Fetched(d, k, j)[x] = data[d][x]
    <3>1. Visited(d, k, j, x)
      BY <2>2, VisitedByWalk
    <3> QED
      BY <3>1 DEF Visited
  <2>4. next = numFetches[d][x] * R + x /\ next \in Nat
    BY <2>1, <2>3, NextBuffer, Types, NatPlus, SMTT(30)
  <2> HIDE DEF n, next
  <2>5. Buffers(d, x)
    BY <1>2
  <2>9. /\ Len(got[d][x]) \in Nat /\ Len(data[d][x]) \in Nat
        /\ Len(got[d][x]) + Len(data[d][x]) = numFetches[d][x]
        /\ numFetches[d][x] <= MaxFetches[d]
    <3>1. Len(got[d][x]) \in Nat /\ Len(data[d][x]) \in Nat
      BY <2>1
    <3>2. Len(got[d][x]) + Len(data[d][x]) = numFetches[d][x]
      BY <2>5, Zenon DEF Buffers
    <3>3. numFetches[d][x] <= MaxFetches[d]
      BY <2>5, Zenon DEF Buffers
    <3> QED
      BY <3>1, <3>2, <3>3
  <2>10. PICK a \in Nat, b \in Nat, c \in Nat :
            a = Len(got[d][x]) /\ b = Len(data[d][x]) /\ c = numFetches[d][x]
    BY <2>1, <2>9
  <2>11. a + b = c
    BY <2>9, <2>10
  <2>6. CASE n[x] = 0
    <3>1. /\ data'[d][x] = data[d][x] /\ got'[d][x] = got[d][x]
          /\ numFetches'[d][x] = numFetches[d][x]
      BY <2>1, <2>2, <2>3, <2>6 DEF WalkResult, n
    <3> QED
      BY <1>2, <2>5, <3>1 DEF Buffers
  <2>7. CASE n[x] = 1 /\ x # r
    <3>1. /\ data'[d][x] = Append(data[d][x], next) /\ got'[d][x] = got[d][x]
          /\ numFetches'[d][x] = numFetches[d][x] + 1
      BY <2>2, <2>3, <2>7 DEF WalkResult
    <3>2. Len(data'[d][x]) = Len(data[d][x]) + 1
      BY <2>1, <2>4, <3>1, AppendFacts
    <3>3. Len(got[d][x]) + (Len(data[d][x]) + 1) - 1 = numFetches[d][x]
      <4>1. a + (b + 1) - 1 = c
        BY <2>11
      <4> QED
        BY <2>10, <4>1
    <3>4. ASSUME NEW m \in 1 .. Len(data'[d][x])
          PROVE  data'[d][x][m] = (Len(got'[d][x]) + m - 1) * R + x
      <4>1. CASE m \in 1 .. Len(data[d][x])
        BY <2>1, <2>4, <2>5, <3>1, <4>1, AppendFacts DEF Buffers
      <4>2. CASE m = Len(data[d][x]) + 1
        <5>1. data'[d][x][m] = next
          BY <2>1, <2>4, <3>1, <4>2, AppendFacts
        <5>2. Len(got'[d][x]) + m - 1 = numFetches[d][x]
          BY <3>1, <3>3, <4>2
        <5> QED
          BY <2>4, <5>1, <5>2
      <4> QED
        BY <2>1, <3>2, <4>1, <4>2
    <3>5. /\ Len(got'[d][x]) + Len(data'[d][x]) = numFetches'[d][x]
          /\ numFetches'[d][x] <= MaxFetches[d]
      <4>1. Len(got[d][x]) + (Len(data[d][x]) + 1) = numFetches[d][x] + 1
        <5>1. a + (b + 1) = c + 1
          BY <2>11
        <5> QED
          BY <2>10, <5>1
      <4>2. Len(got'[d][x]) + Len(data'[d][x]) = numFetches'[d][x]
        BY <3>1, <3>2, <4>1
      <4>3. numFetches'[d][x] <= MaxFetches[d]
        BY <2>1, <2>3, <2>7, <3>1
      <4> QED
        BY <4>2, <4>3
    <3> QED
      BY <1>2, <2>5, <3>1, <3>4, <3>5 DEF Buffers
  <2>8. CASE n[x] = 1 /\ x = r
    <3>1. /\ data'[d][x] = << >> /\ got'[d][x] = Append(got[d][x], next)
          /\ numFetches'[d][x] = numFetches[d][x] + 1
      BY <2>2, <2>8 DEF WalkResult, n, next
    <3>2. Len(got'[d][x]) = Len(got[d][x]) + 1
      BY <2>1, <2>4, <3>1, AppendFacts
    <3>3. Len(got[d][x]) = numFetches[d][x]
      <4>1. Len(data[d][x]) = 0
        BY <2>8
      <4> QED
        BY <2>9, <4>1
    <3>4. ASSUME NEW m \in 1 .. Len(got'[d][x])
          PROVE  got'[d][x][m] = (m - 1) * R + x
      <4>1. CASE m \in 1 .. Len(got[d][x])
        BY <2>1, <2>4, <2>5, <3>1, <4>1, AppendFacts DEF Buffers
      <4>2. CASE m = Len(got[d][x]) + 1
        BY <2>1, <2>4, <3>1, <3>3, <4>2, AppendFacts
      <4> QED
        BY <2>1, <3>2, <4>1, <4>2
    <3>5. /\ Len(got'[d][x]) + Len(data'[d][x]) = numFetches'[d][x]
          /\ numFetches'[d][x] <= MaxFetches[d]
      BY <2>1, <2>3, <2>8, <3>1, <3>2, <3>3
    <3>6. \A m \in 1 .. Len(data'[d][x]) :
            data'[d][x][m] = (Len(got'[d][x]) + m - 1) * R + x
      BY <3>1
    <3> QED
      BY <1>2, <3>4, <3>5, <3>6 DEF Buffers
  <2> QED
    BY <2>3, <2>6, <2>7, <2>8
<1> QED
  BY <1>1, <1>2

\* Taking the front of a cache continues what was handed out.
LEMMA CachedBuffers ==
  ASSUME TypeOK, NEW d \in Directions, NEW r \in Repl, GetCached(d, r),
         NEW e \in Directions, NEW x \in Repl, Buffers(e, x)
  PROVE  Buffers(e, x)'
<1>1. numFetches' = numFetches
  BY DEF GetCached
<1>2. CASE e # d \/ x # r
  <2>1. data'[e][x] = data[e][x] /\ got'[e][x] = got[e][x]
    BY <1>2, GetCachedEffect
  <2> QED
    BY <1>1, <2>1 DEF Buffers
<1>3. CASE e = d /\ x = r
  <2>1. /\ data[d][r] \in Seq(Nat) /\ got[d][r] \in Seq(Nat)
        /\ numFetches[d][r] \in Nat
    BY Types
  <2>2. /\ data[d][r] # << >> /\ data'[d][r] = Tail(data[d][r])
        /\ got'[d][r] = Append(got[d][r], Head(data[d][r]))
    BY GetCachedEffect
  <2>3. PICK a \in Nat, b \in Nat, c \in Nat :
          a = Len(got[d][r]) /\ b = Len(data[d][r]) /\ c = numFetches[d][r]
    BY <2>1
  <2>4. a + b = c /\ c <= MaxFetches[d]
    BY <1>3, <2>3 DEF Buffers
  <2>5. /\ b > 0 /\ Head(data[d][r]) = data[d][r][1] /\ Head(data[d][r]) \in Nat
        /\ Len(data'[d][r]) = b - 1
        /\ \A m \in 1 .. b - 1 : data'[d][r][m] = data[d][r][m + 1]
    BY <2>1, <2>2, <2>3
  <2>6. /\ Len(got'[d][r]) = a + 1
        /\ \A m \in 1 .. a : got'[d][r][m] = got[d][r][m]
        /\ got'[d][r][a + 1] = Head(data[d][r])
    BY <2>1, <2>2, <2>3, <2>5, AppendFacts
  <2>7. /\ \A m \in 1 .. b : data[d][r][m] = (a + m - 1) * R + r
        /\ \A m \in 1 .. a : got[d][r][m] = (m - 1) * R + r
    BY <1>3, <2>3 DEF Buffers
  <2>8. Head(data[d][r]) = ((a + 1) - 1) * R + r
    BY <2>5, <2>7
  <2>9. \A m \in 1 .. a + 1 : got'[d][r][m] = (m - 1) * R + r
    BY <2>6, <2>7, <2>8
  <2>10. ASSUME NEW m \in 1 .. b - 1
         PROVE  data'[d][r][m] = ((a + 1) + m - 1) * R + r
    <3>1. data[d][r][m + 1] = (a + (m + 1) - 1) * R + r
      BY <2>7
    <3>2. a + (m + 1) - 1 = (a + 1) + m - 1
      OBVIOUS
    <3> QED
      BY <2>5, <3>1, <3>2
  <2>11. (a + 1) + (b - 1) = c
    BY <2>4
  <2>12. /\ Len(got'[d][r]) + Len(data'[d][r]) = numFetches'[d][r]
         /\ numFetches'[d][r] <= MaxFetches[d]
    BY <1>1, <2>3, <2>4, <2>5, <2>6, <2>11
  <2> QED
    BY <1>3, <2>5, <2>6, <2>9, <2>10, <2>12 DEF Buffers
<1> QED
  BY <1>2, <1>3

-----------------------------------------------------------------------------
(* The completions. *)

\* What IInv says of the completions of one direction.
Completions(d) ==
  /\ released[d] = Reported(d, R - 1) * R + completeIndex[d]
  /\ upstream[d][completeIndex[d]] = 0
  /\ \A x \in Repl :
       /\ downstream[d][x] + upstream[d][x] <= Len(got[d][x])
       /\ Reported(d, x) = Reported(d, R - 1) + Ahead(x, completeIndex[d])
       /\ x \notin Adapters => upstream[d][x] = 0

LEMMA CompletionsAll ==
  ReleaseRounds <=> \A d \in Directions : Completions(d)
BY DEF ReleaseRounds, Completions

\* A buffer handed out is one more with Poplar, and is not yet completed.
LEMMA GetCompletions ==
  ASSUME TypeOK, TypeOK', NEW d \in Directions, Completions(d),
         UNCHANGED << completeIndex, upstream, released >>,
         \A x \in Repl :
            \/ got'[d][x] = got[d][x] /\ downstream'[d][x] = downstream[d][x]
            \/ /\ Len(got'[d][x]) = Len(got[d][x]) + 1
               /\ downstream'[d][x] = downstream[d][x] + 1
  PROVE  Completions(d)'
<1>1. ASSUME NEW x \in Repl
      PROVE  /\ CompletedBy(d, x)' = CompletedBy(d, x)
             /\ downstream'[d][x] + upstream'[d][x] <= Len(got'[d][x])
  <2>1. PICK a \in Nat, b \in Nat, c \in Nat :
          a = Len(got[d][x]) /\ b = downstream[d][x] /\ c = upstream[d][x]
    <3>1. Len(got[d][x]) \in Nat
      BY Types
    <3> QED
      BY <3>1, Types
  <2>2. b + c <= a /\ upstream'[d][x] = c
    BY <2>1 DEF Completions
  <2>3. CASE got'[d][x] = got[d][x] /\ downstream'[d][x] = downstream[d][x]
    BY <2>1, <2>2, <2>3 DEF CompletedBy
  <2>4. CASE /\ Len(got'[d][x]) = Len(got[d][x]) + 1
             /\ downstream'[d][x] = downstream[d][x] + 1
    <3>1. (a + 1) - (b + 1) = a - b /\ (b + 1) + c <= a + 1
      BY <2>2
    <3> QED
      BY <2>1, <2>2, <2>4, <3>1 DEF CompletedBy
  <2> QED
    BY <2>3, <2>4
<1>2. \A x \in Repl : Reported(d, x)' = Reported(d, x)
  BY <1>1 DEF Reported
<1> QED
  BY <1>1, <1>2, LastReplica DEF Completions, Ahead

LEMMA CompleteCompletions ==
  ASSUME TypeOK, NEW d \in Directions, NEW r \in Streamed, Complete(d, r),
         Completions(d)
  PROVE  Completions(d)'
<1>1. r \in Repl /\ r \in Adapters
  BY AdaptersAssumption
<1>2. PICK k \in Nat, j \in Repl : CompleteResult(d, r, k, j)
  BY <1>1, CompleteEffect
<1>3. got' = got
  BY DEF Complete
<1> DEFINE n == Visits(completeIndex[d], k, j)
           i == completeIndex[d]
           q == Reported(d, R - 1)
<1>4. /\ i \in Repl /\ released[d] \in Int
      /\ \A x \in Repl : /\ Len(got[d][x]) \in Nat /\ downstream[d][x] \in Nat
                         /\ upstream[d][x] \in Nat /\ n[x] \in Int
                         /\ Reported(d, x) \in Int
  <2>1. i \in Repl /\ released[d] \in Int
    BY Types
  <2>2. \A x \in Repl : /\ Len(got[d][x]) \in Nat /\ downstream[d][x] \in Nat
                        /\ upstream[d][x] \in Nat
    BY Types
  <2>3. \A x \in Repl : n[x] \in Int
    BY <2>1, VisitsType
  <2> QED
    BY <2>1, <2>2, <2>3 DEF Reported, CompletedBy
<1>5. q \in Int /\ released[d] = q * R + i
  BY <1>4, LastReplica DEF Completions
<1>6. /\ released[d] + Length(i, k, j) = (q + k) * R + j
      /\ \A x \in Repl : (q + Ahead(x, i)) + n[x] = (q + k) + Ahead(x, j)
  BY <1>4, <1>5, RoundsAdvance
<1>7. ASSUME NEW x \in Repl
      PROVE  /\ Reported(d, x)' = Reported(d, x) + n[x]
             /\ downstream'[d][x] + upstream'[d][x] <= Len(got'[d][x])
             /\ x \notin Adapters => upstream'[d][x] = 0
  <2>1. PICK a \in Nat, b \in Nat, c \in Nat, v \in Int :
          /\ a = Len(got[d][x]) /\ b = downstream[d][x]
          /\ c = upstream[d][x] /\ v = n[x]
    BY <1>4
  <2>2. b + c <= a /\ (x \notin Adapters => c = 0)
    BY <2>1 DEF Completions
  <2>3. /\ v >= 0 /\ v <= Pending(d, r, x) /\ (v > 0 => x \in Adapters)
        /\ upstream'[d][x] = Pending(d, r, x) - v
    BY <1>2, <2>1 DEF CompleteResult
  <2>4. CASE x = r
    <3>1. /\ b > 0 /\ downstream'[d][x] = b - 1
          /\ upstream'[d][x] = (c + 1) - v
      BY <1>2, <2>1, <2>3, <2>4 DEF CompleteResult, Pending
    <3>2. /\ (a - (b - 1)) - ((c + 1) - v) = ((a - b) - c) + v
          /\ (b - 1) + ((c + 1) - v) <= a
      BY <2>2, <2>3, <3>1
    <3>3. Reported(d, x)' = (a - (b - 1)) - ((c + 1) - v)
      BY <1>3, <2>1, <3>1 DEF Reported, CompletedBy
    <3>4. Reported(d, x) = (a - b) - c
      BY <2>1 DEF Reported, CompletedBy
    <3> QED
      BY <1>1, <1>3, <2>1, <2>4, <3>1, <3>2, <3>3, <3>4
  <2>5. CASE x # r
    <3>1. downstream'[d][x] = b /\ upstream'[d][x] = c - v
      BY <1>2, <2>1, <2>3, <2>5 DEF CompleteResult, Pending
    <3>2. (a - b) - (c - v) = ((a - b) - c) + v /\ b + (c - v) <= a
      BY <2>2, <2>3
    <3>3. Reported(d, x)' = (a - b) - (c - v)
      BY <1>3, <2>1, <3>1 DEF Reported, CompletedBy
    <3>4. Reported(d, x) = (a - b) - c
      BY <2>1 DEF Reported, CompletedBy
    <3>5. x \notin Adapters => c - v = 0
      BY <2>2, <2>3
    <3> QED
      BY <1>3, <2>1, <3>1, <3>2, <3>3, <3>4, <3>5
  <2> QED
    BY <2>4, <2>5
<1>8. \A x \in Repl : Reported(d, x) = q + Ahead(x, i)
  BY DEF Completions
<1> HIDE DEF n, i, q
<1>9. \A x \in Repl : Reported(d, x)' = (q + k) + Ahead(x, j)
  BY <1>6, <1>7, <1>8
<1>10. Reported(d, R - 1)' = q + k
  BY <1>5, <1>9, LastReplica, ReplicationAssumption DEF Ahead, Repl
<1>11. /\ completeIndex'[d] = j
       /\ released'[d] = released[d] + Length(i, k, j)
       /\ j \notin Adapters \/ upstream'[d][j] = 0
  BY <1>2 DEF CompleteResult, i
<1>12. upstream'[d][j] = 0
  BY <1>7, <1>11
<1> QED
  BY <1>6, <1>7, <1>9, <1>10, <1>11, <1>12 DEF Completions, Ahead

-----------------------------------------------------------------------------
(* The inductive invariant. *)

LEMMA IInvParts ==
  IInv <=> /\ TypeOK /\ FetchRounds
           /\ \A d \in Directions, x \in Repl : Buffers(d, x)
           /\ \A d \in Directions : Completions(d)
BY BuffersAll, CompletionsAll DEF IInv

LEMMA IInvNext ==
  ASSUME TypeOK', FetchRounds',
         \A d \in Directions, x \in Repl : Buffers(d, x)',
         \A d \in Directions : Completions(d)'
  PROVE  IInv'
<1>1. CacheContinues' /\ InOrder'
  BY DEF CacheContinues, InOrder, Buffers
<1>2. ReleaseRounds'
  BY DEF ReleaseRounds, Completions
<1> QED
  BY <1>1, <1>2 DEF IInv

\* A splitter that was just built or reset.
Fresh ==
  /\ index = Zero /\ completeIndex = Zero
  /\ data = PerReplica(<< >>) /\ got = PerReplica(<< >>)
  /\ numFetches = PerReplica(0)
  /\ downstream = PerReplica(0) /\ upstream = PerReplica(0)
  /\ ready = Zero /\ taken = Zero /\ released = Zero
  /\ failed = FALSE

LEMMA FreshInv == Fresh => IInv
<1> SUFFICES ASSUME Fresh PROVE IInv
  OBVIOUS
<1> USE DEF Fresh, Zero, PerReplica
<1>1. TypeOK
  <2>1. /\ Zero \in [Directions -> Repl] /\ Zero \in [Directions -> Nat]
        /\ PerReplica(0) \in [Directions -> [Repl -> Nat]]
    BY LastReplica
  <2>2. PerReplica(<< >>) \in [Directions -> [Repl -> Seq(Nat)]]
    OBVIOUS
  <2> QED
    BY <2>1, <2>2 DEF TypeOK
<1>2. FetchRounds
  BY LastReplica, ReplicationAssumption DEF FetchRounds, Ahead, Repl
<1>3. ASSUME NEW d \in Directions, NEW x \in Repl
      PROVE  Buffers(d, x)
  BY MaxFetchesAssumption DEF Buffers
<1>4. ASSUME NEW d \in Directions
      PROVE  Completions(d)
  BY LastReplica, ReplicationAssumption
  DEF Completions, Reported, CompletedBy, Ahead, Repl
<1> QED
  BY <1>1, <1>2, <1>3, <1>4, IInvParts

\* One callback of an adapter that fetches.
LEMMA GetInv ==
  ASSUME IInv, NEW d \in Directions, NEW r \in Repl, NEW prefetch \in BOOLEAN,
         Get(d, r, prefetch)
  PROVE  IInv'
<1>1. /\ TypeOK /\ FetchRounds
      /\ \A e \in Directions, x \in Repl : Buffers(e, x)
      /\ \A e \in Directions : Completions(e)
  BY IInvParts
<1>2. CASE GetCached(d, r)
  <2>1. TypeOK'
    BY <1>1, <1>2, GetCachedEffect
  <2>2. FetchRounds'
    BY <1>1, <1>2 DEF GetCached, FetchRounds
  <2>3. \A e \in Directions, x \in Repl : Buffers(e, x)'
    BY <1>1, <1>2, CachedBuffers
  <2>4. UNCHANGED << completeIndex, upstream, released >>
    BY <1>2 DEF GetCached
  <2>5. /\ got[d][r] \in Seq(Nat) /\ Head(data[d][r]) \in Nat
        /\ got'[d][r] = Append(got[d][r], Head(data[d][r]))
        /\ downstream'[d][r] = downstream[d][r] + 1
    BY <1>1, <1>2, Types, GetCachedEffect
  <2>6. Len(got'[d][r]) = Len(got[d][r]) + 1
    BY <2>5, AppendFacts
  <2>7. \A e \in Directions, x \in Repl :
          \/ got'[e][x] = got[e][x] /\ downstream'[e][x] = downstream[e][x]
          \/ /\ Len(got'[e][x]) = Len(got[e][x]) + 1
             /\ downstream'[e][x] = downstream[e][x] + 1
    BY <1>1, <1>2, <2>5, <2>6, GetCachedEffect
  <2>8. \A e \in Directions : Completions(e)'
    BY <1>1, <2>1, <2>4, <2>7, GetCompletions
  <2> QED
    BY <2>1, <2>2, <2>3, <2>8, IInvNext
<1>3. CASE GetFromUpstream(d, r, prefetch)
  <2>1. TypeOK' /\ data[d][r] = << >>
    BY <1>1, <1>3, GetFromUpstreamEffect
  <2>2. PICK k \in {0, 1}, j \in Repl : WalkResult(d, r, k, j)
    BY <1>1, <1>3, GetFromUpstreamEffect
  <2>3. FetchRounds'
    BY <1>1, <2>2, WalkRounds
  <2>4. \A e \in Directions, x \in Repl : Buffers(e, x)'
    BY <1>1, <2>1, <2>2, WalkBuffers
  <2>5. UNCHANGED << completeIndex, upstream, released >>
    BY <1>3 DEF GetFromUpstream
  <2>6. taken[d] + Rank(index[d], r) \in Nat /\ got[d][r] \in Seq(Nat)
    <3>1. FetchWalk(d, r, k, j)
      BY <2>2 DEF WalkResult
    <3>2. Rank(index[d], r) \in Nat
      BY <1>1, <3>1, WalkEffect
    <3> QED
      BY <1>1, <3>2, Types, NatPlus
  <2>7. ASSUME NEW e \in Directions, NEW x \in Repl
        PROVE
          \/ got'[e][x] = got[e][x] /\ downstream'[e][x] = downstream[e][x]
          \/ /\ Len(got'[e][x]) = Len(got[e][x]) + 1
             /\ downstream'[e][x] = downstream[e][x] + 1
    <3>1. CASE e # d \/ x # r \/ Visits(index[d], k, j)[r] # 1
      BY <2>2, <3>1 DEF WalkResult
    <3>2. CASE e = d /\ x = r /\ Visits(index[d], k, j)[r] = 1
      <4>1. /\ got'[d][r] = Append(got[d][r], taken[d] + Rank(index[d], r))
            /\ downstream'[d][r] = downstream[d][r] + 1
        BY <2>2, <3>2 DEF WalkResult
      <4>2. Len(got'[d][r]) = Len(got[d][r]) + 1
        BY <2>6, <4>1, AppendFacts
      <4> QED
        BY <3>2, <4>1, <4>2
    <3> QED
      BY <3>1, <3>2
  <2>8. \A e \in Directions : Completions(e)'
    BY <1>1, <2>1, <2>5, <2>7, GetCompletions
  <2> QED
    BY <2>1, <2>3, <2>4, <2>8, IInvNext
<1> QED
  BY <1>2, <1>3 DEF Get

LEMMA CompleteInv ==
  ASSUME IInv, NEW d \in Directions, NEW r \in Streamed, Complete(d, r)
  PROVE  IInv'
<1>1. /\ TypeOK /\ FetchRounds /\ r \in Repl
      /\ \A e \in Directions, x \in Repl : Buffers(e, x)
      /\ \A e \in Directions : Completions(e)
  BY IInvParts, AdaptersAssumption
<1>2. UNCHANGED << index, data, numFetches, taken, got >>
  BY DEF Complete
<1>3. TypeOK'
  BY <1>1, CompleteEffect
<1>4. FetchRounds'
  BY <1>1, <1>2 DEF FetchRounds
<1>5. \A e \in Directions, x \in Repl : Buffers(e, x)'
  BY <1>1, <1>2 DEF Buffers
<1>6. ASSUME NEW e \in Directions
      PROVE  Completions(e)'
  <2>1. CASE e = d
    BY <1>1, <2>1, CompleteCompletions
  <2>2. CASE e # d
    <3>1. PICK k \in Nat, j \in Repl : CompleteResult(d, r, k, j)
      BY <1>1, CompleteEffect
    <3>2. /\ completeIndex'[e] = completeIndex[e] /\ released'[e] = released[e]
          /\ \A x \in Repl : /\ downstream'[e][x] = downstream[e][x]
                             /\ upstream'[e][x] = upstream[e][x]
                             /\ got'[e][x] = got[e][x]
      BY <1>2, <2>2, <3>1 DEF CompleteResult
    <3>3. completeIndex[e] \in Repl
      BY <1>1, Types
    <3>4. \A x \in Repl : Reported(e, x)' = Reported(e, x)
      BY <3>2 DEF Reported, CompletedBy
    <3> QED
      BY <1>1, <3>2, <3>3, <3>4, LastReplica DEF Completions, Ahead
  <2> QED
    BY <2>1, <2>2
<1> QED
  BY <1>3, <1>4, <1>5, <1>6, IInvNext

LEMMA SupplyInv ==
  ASSUME IInv, NEW d \in Directions, Supply(d)
  PROVE  IInv'
<1>1. /\ TypeOK /\ FetchRounds
      /\ \A e \in Directions, x \in Repl : Buffers(e, x)
      /\ \A e \in Directions : Completions(e)
  BY IInvParts
<1>2. /\ ready' = [ready EXCEPT ![d] = ready[d] + 1]
      /\ UNCHANGED << index, completeIndex, data, numFetches, downstream,
                      upstream, taken, released, got, failed >>
  BY DEF Supply
<1>3. TypeOK'
  <2>1. ready \in [Directions -> Nat] /\ ready[d] + 1 \in Nat
    <3>1. ready \in [Directions -> Nat]
      BY <1>1, Zenon DEF TypeOK
    <3> QED
      BY <3>1
  <2>2. ready' \in [Directions -> Nat]
    BY <1>2, <2>1
  <2> QED
    BY <1>1, <1>2, <2>2 DEF TypeOK
<1>4. FetchRounds'
  BY <1>1, <1>2 DEF FetchRounds
<1>5. \A e \in Directions, x \in Repl : Buffers(e, x)'
  BY <1>1, <1>2 DEF Buffers
<1>6. \A e \in Directions : Completions(e)'
  BY <1>1, <1>2 DEF Completions, Reported, CompletedBy
<1> QED
  BY <1>3, <1>4, <1>5, <1>6, IInvNext

\* IInv holds in every reachable state: it holds initially and every callback,
\* every buffer supplied by the user and every reset preserves it.
THEOREM Invariance == Spec => []IInv
<1>1. Init => IInv
  BY FreshInv DEF Init, Fresh
<1>2. IInv /\ [Next]_vars => IInv'
  <2> SUFFICES ASSUME IInv, [Next]_vars PROVE IInv'
    OBVIOUS
  <2>1. ASSUME NEW d \in Directions, NEW r \in Streamed, Fetch(d, r)
        PROVE  IInv'
    BY <2>1, GetInv, AdaptersAssumption DEF Fetch
  <2>2. ASSUME NEW d \in Directions, NEW r \in Streamed, Prefetch(d, r)
        PROVE  IInv'
    BY <2>2, GetInv, AdaptersAssumption DEF Prefetch
  <2>3. ASSUME NEW d \in Directions, NEW r \in Streamed, Complete(d, r)
        PROVE  IInv'
    BY <2>3, CompleteInv
  <2>4. ASSUME NEW d \in Directions, Supply(d)
        PROVE  IInv'
    BY <2>4, SupplyInv
  <2>5. CASE SetUpstreamIo
    <3>1. Fresh'
      BY <2>5 DEF SetUpstreamIo, Fresh, Zero, PerReplica
    <3> QED
      BY <3>1, FreshInv, PTL
  <2>6. CASE UNCHANGED vars
    <3>1. /\ TypeOK /\ FetchRounds /\ CacheContinues /\ InOrder
          /\ ReleaseRounds
      BY DEF IInv
    <3>2. TypeOK' /\ FetchRounds' /\ CacheContinues' /\ InOrder'
      BY <2>6, <3>1, ZenonT(40)
      DEF vars, TypeOK, FetchRounds, CacheContinues, InOrder
    <3>3. ReleaseRounds'
      BY <2>6, <3>1 DEF vars, ReleaseRounds, Reported, CompletedBy
    <3> QED
      BY <3>2, <3>3 DEF IInv
  <2> QED
    BY <2>1, <2>2, <2>3, <2>4, <2>5, <2>6 DEF Next
<1> QED
  BY <1>1, <1>2, PTL DEF Spec

\* The variables keep their types.
THEOREM TypeCorrect == Spec => []TypeOK
<1>1. IInv => TypeOK
  BY DEF IInv
<1> QED
  BY <1>1, Invariance, PTL

\* Replica r's k-th buffer is buffer (k-1)*R + r of the user's IStepIO, for
\* every number of replicas and of fetches and every interleaving.
THEOREM DeliveryOrder == Spec => []InOrder
<1>1. IInv => InOrder
  BY DEF IInv
<1> QED
  BY <1>1, Invariance, PTL

\* Multiplying by the replication factor keeps the order.
LEMMA TimesR ==
  ASSUME NEW a \in Int, NEW b \in Int, a >= b
  PROVE  a * R >= b * R /\ a * R \in Int /\ b * R \in Int
<1>1. (a - b) \in Nat /\ R \in Nat
  BY ReplicationAssumption
<1>2. (a - b) * R >= 0
  BY <1>1
<1>3. a * R = (a - b) * R + b * R
  BY ReplicationAssumption
<1> QED
  BY <1>2, <1>3, ReplicationAssumption

\* Upstream is told about the buffers' completion in their order, and as soon
\* as that order allows.
THEOREM CompletionOrder == Spec => []ReleasedInOrder
<1>1. IInv => ReleasedInOrder
  <2> SUFFICES ASSUME IInv, NEW d \in Directions
               PROVE
                 /\ \A r \in Repl, k \in 1 .. MaxFetches[d] :
                      (k - 1) * R + r < released[d] => k <= CompletedBy(d, r)
                 /\ \E r \in Repl : released[d] = CompletedBy(d, r) * R + r
    BY DEF ReleasedInOrder
  <2>1. TypeOK /\ Completions(d)
    BY IInvParts
  <2>2. PICK c \in Int, i \in Repl, all \in Nat :
          c = Reported(d, R - 1) /\ i = completeIndex[d] /\ all = released[d]
    <3>1. Reported(d, R - 1) \in Int
      <4>1. /\ Len(got[d][R - 1]) \in Nat /\ downstream[d][R - 1] \in Nat
            /\ upstream[d][R - 1] \in Nat
        BY <2>1, Types, LastReplica
      <4> QED
        BY <4>1 DEF Reported, CompletedBy
    <3> QED
      BY <2>1, <3>1, Types
  <2>3. all = c * R + i
    BY <2>1, <2>2 DEF Completions
  <2>4. ASSUME NEW r \in Repl
        PROVE  /\ CompletedBy(d, r) \in Int
               /\ CompletedBy(d, r) - upstream[d][r] = c + Ahead(r, i)
               /\ c + Ahead(r, i) <= CompletedBy(d, r)
    <3>1. /\ Len(got[d][r]) \in Nat /\ downstream[d][r] \in Nat
          /\ upstream[d][r] \in Nat
      BY <2>1, Types
    <3>2. CompletedBy(d, r) \in Int
      BY <3>1 DEF CompletedBy
    <3>3. CompletedBy(d, r) - upstream[d][r] = c + Ahead(r, i)
      BY <2>1, <2>2 DEF Completions, Reported
    <3>4. PICK p \in Int, u \in Nat : p = CompletedBy(d, r) /\ u = upstream[d][r]
      BY <3>1, <3>2
    <3>5. p - u <= p
      OBVIOUS
    <3> QED
      BY <3>2, <3>3, <3>4, <3>5
  <2>5. ASSUME NEW r \in Repl, NEW k \in 1 .. MaxFetches[d],
               (k - 1) * R + r < all
        PROVE  k <= CompletedBy(d, r)
    <3>1. k \in Int /\ r \in 0 .. R - 1 /\ i \in 0 .. R - 1 /\ R \in Nat
      BY MaxFetchesAssumption, ReplicationAssumption DEF Repl
    <3>2. k <= c + Ahead(r, i)
      <4>1. CASE r < i
        <5>1. ASSUME k - 1 >= c + 1 PROVE FALSE
          <6>1. (k - 1) * R >= (c + 1) * R /\ (k - 1) * R \in Int
            BY <3>1, <5>1, TimesR
          <6>2. (c + 1) * R = c * R + R /\ c * R \in Int
            BY <3>1
          <6> QED
            BY <2>3, <2>5, <3>1, <6>1, <6>2
        <5> QED
          BY <3>1, <4>1, <5>1 DEF Ahead
      <4>2. CASE ~(r < i)
        <5>1. ASSUME k - 1 >= c PROVE FALSE
          <6>1. (k - 1) * R >= c * R /\ (k - 1) * R \in Int /\ c * R \in Int
            BY <3>1, <5>1, TimesR
          <6> QED
            BY <2>3, <2>5, <3>1, <4>2, <6>1
        <5> QED
          BY <3>1, <4>2, <5>1 DEF Ahead
      <4> QED
        BY <4>1, <4>2
    <3> QED
      BY <2>4, <3>1, <3>2 DEF Ahead
  <2>6. all = CompletedBy(d, i) * R + i
    <3>1. upstream[d][i] = 0
      BY <2>1, <2>2 DEF Completions
    <3>2. CompletedBy(d, i) = c
      BY <2>4, <3>1 DEF Ahead, Repl
    <3> QED
      BY <2>3, <3>2
  <2> QED
    BY <2>2, <2>5, <2>6
<1> QED
  BY <1>1, Invariance, PTL

\* No step takes more buffers from the user's IStepIO than the step has.
THEOREM NoOverfetch == Spec => []WithinStep
<1>1. IInv => WithinStep
  <2> SUFFICES ASSUME IInv, NEW d \in Directions
               PROVE  taken[d] <= StepSize(d)
    BY DEF WithinStep
  <2>1. /\ TypeOK /\ FetchRounds
        /\ \A x \in Repl : numFetches[d][x] <= MaxFetches[d]
    BY IInvParts DEF Buffers
  <2>2. PICK q \in Nat, i \in Repl, m \in Nat :
          q = numFetches[d][R - 1] /\ i = index[d] /\ m = MaxFetches[d]
    BY <2>1, Types, LastReplica, MaxFetchesAssumption
  <2>3. /\ taken[d] = q * R + i /\ q <= m
        /\ q + Ahead(0, i) <= m
    BY <2>1, <2>2, LastReplica DEF FetchRounds
  <2>4. CASE i = 0
    <3>1. m * R >= q * R /\ m * R \in Int /\ q * R \in Int
      BY <2>3, TimesR
    <3>2. m * R = R * m
      BY ReplicationAssumption
    <3> QED
      BY <2>2, <2>3, <2>4, <3>1, <3>2 DEF StepSize
  <2>5. CASE i # 0
    <3>1. m >= q + 1 /\ i \in 0 .. R - 1 /\ R \in Nat
      BY <2>3, <2>5, ReplicationAssumption DEF Ahead, Repl
    <3>2. m * R >= (q + 1) * R /\ m * R \in Int
      BY <3>1, TimesR
    <3>3. (q + 1) * R = q * R + R /\ m * R = R * m /\ q * R \in Int
      BY <3>1
    <3> QED
      BY <2>2, <2>3, <3>1, <3>2, <3>3 DEF StepSize
  <2> QED
    BY <2>4, <2>5
<1> QED
  BY <1>1, Invariance, PTL

\* A sequence without elements is the empty one.
LEMMA EmptySeq == ASSUME NEW S, NEW s \in Seq(S), Len(s) = 0 PROVE s = << >>
  OBVIOUS

\* When every replica is streamed, a finished step leaves nothing behind: no
\* cached buffer, no completion that upstream was not told about.  So no
\* prefetch ever succeeds across the end of a step.
THEOREM NothingLeftBehind == Streamed = Repl => (Spec => []StepEndsClean)
<1> SUFFICES ASSUME Streamed = Repl PROVE Spec => []StepEndsClean
  OBVIOUS
<1>1. IInv => StepEndsClean
  <2> SUFFICES ASSUME IInv, StepDone, NEW d \in Directions
               PROVE  /\ \A r \in Repl : data[d][r] = << >> /\ upstream[d][r] = 0
                      /\ taken[d] = StepSize(d) /\ released[d] = StepSize(d)
    BY DEF StepEndsClean
  <2>1. /\ TypeOK /\ FetchRounds /\ Completions(d)
        /\ \A x \in Repl : Buffers(d, x)
    BY IInvParts
  <2>2. PICK m \in Nat, i \in Repl, j \in Repl :
          m = MaxFetches[d] /\ i = index[d] /\ j = completeIndex[d]
    BY <2>1, Types, MaxFetchesAssumption
  <2>3. \A x \in Repl : Len(got[d][x]) = m /\ downstream[d][x] = 0
    BY <2>2 DEF StepDone
  <2>4. \A x \in Repl : numFetches[d][x] = m /\ data[d][x] = << >>
    <3> TAKE x \in Repl
    <3>1. data[d][x] \in Seq(Nat) /\ numFetches[d][x] \in Nat
      BY <2>1, Types
    <3>2. PICK l \in Nat : l = Len(data[d][x])
      BY <3>1
    <3>3. m + l = numFetches[d][x] /\ numFetches[d][x] <= m
      BY <2>1, <2>2, <2>3, <3>2 DEF Buffers
    <3>4. PICK f \in Nat : f = numFetches[d][x]
      BY <3>1
    <3>5. l = 0 /\ f = m
      BY <3>3, <3>4
    <3>6. data[d][x] = << >>
      BY <3>1, <3>2, <3>5, EmptySeq
    <3> QED
      BY <3>4, <3>5, <3>6
  <2>5. m * R = R * m /\ R * m \in Nat /\ m * R + 0 = R * m
    BY ReplicationAssumption
  <2>6. taken[d] = StepSize(d)
    <3>1. m = m + Ahead(0, i)
      BY <2>1, <2>2, <2>4, LastReplica DEF FetchRounds
    <3>2. i = 0
      BY <3>1, ReplicationAssumption DEF Ahead, Repl
    <3>3. taken[d] = m * R + 0
      BY <2>1, <2>2, <2>4, <3>2, LastReplica DEF FetchRounds
    <3> QED
      BY <2>2, <2>5, <3>3 DEF StepSize
  <2>7. \A x \in Repl : upstream[d][x] \in Nat /\ Reported(d, x) = m - upstream[d][x]
    BY <2>1, <2>3, Types DEF Reported, CompletedBy
  <2>8. PICK c \in Int : c = Reported(d, R - 1)
    BY <2>7, LastReplica
  <2>9. /\ upstream[d][j] = 0
        /\ \A x \in Repl : m - upstream[d][x] = c + Ahead(x, j)
        /\ released[d] = c * R + j
    BY <2>1, <2>2, <2>7, <2>8 DEF Completions
  <2>10. c = m
    BY <2>9 DEF Ahead, Repl
  <2>11. \A x \in Repl : upstream[d][x] = 0
    <3> TAKE x \in Repl
    <3>1. PICK u \in Nat : u = upstream[d][x]
      BY <2>7
    <3>2. m - u = m + Ahead(x, j)
      BY <2>9, <2>10, <3>1
    <3> QED
      BY <3>1, <3>2 DEF Ahead
  <2>12. j = 0
    <3>1. m - 0 = m + Ahead(0, j)
      BY <2>9, <2>10, <2>11, LastReplica
    <3> QED
      BY <3>1, ReplicationAssumption DEF Ahead, Repl
  <2>13. released[d] = StepSize(d)
    BY <2>2, <2>5, <2>9, <2>10, <2>12 DEF StepSize
  <2> QED
    BY <2>4, <2>6, <2>11, <2>13
<1> QED
  BY <1>1, Invariance, PTL

\* A callback never gives a buffer back to the user's IStepIO.
LEMMA GetTakes ==
  ASSUME TypeOK, NEW d \in Directions, NEW r \in Repl,
         NEW prefetch \in BOOLEAN, Get(d, r, prefetch), NEW e \in Directions
  PROVE  taken'[e] - taken[e] \in Nat
<1>1. taken[e] \in Nat /\ taken \in [Directions -> Nat]
  BY Types, Zenon DEF TypeOK
<1>2. CASE GetCached(d, r)
  BY <1>1, <1>2 DEF GetCached
<1>3. CASE GetFromUpstream(d, r, prefetch)
  <2>1. PICK k \in {0, 1}, j \in Repl :
          /\ FetchWalk(d, r, k, j)
          /\ taken' = [taken EXCEPT ![d] = taken[d] + Length(index[d], k, j)]
    BY <1>3 DEF GetFromUpstream
  <2>2. Length(index[d], k, j) \in Nat
    <3>1. \A x \in Repl : Visits(index[d], k, j)[x] >= 0
      BY <2>1 DEF FetchWalk
    <3> QED
      BY <3>1, Types, LengthNat
  <2> QED
    BY <1>1, <2>1, <2>2
<1> QED
  BY <1>2, <1>3 DEF Get

\* Where a fetch walk stands when it ends at replica j after k rounds: the
\* replicas before j are one buffer ahead of the others.
LEMMA WalkCounts ==
  ASSUME TypeOK, FetchRounds, NEW d \in Directions,
         NEW k \in {0, 1}, NEW j \in Repl
  PROVE  /\ numFetches[d][R - 1] + k \in Nat
         /\ taken[d] + Length(index[d], k, j)
              = (numFetches[d][R - 1] + k) * R + j
         /\ \A x \in Repl :
              numFetches[d][x] + Visits(index[d], k, j)[x]
                = numFetches[d][R - 1] + k + Ahead(x, j)
<1>1. PICK q \in Nat, i \in Repl : q = numFetches[d][R - 1] /\ i = index[d]
  BY Types, LastReplica
<1>2. taken[d] = q * R + i /\ \A x \in Repl : numFetches[d][x] = q + Ahead(x, i)
  BY <1>1 DEF FetchRounds
<1>3. taken[d] + Length(i, k, j) = (q + k) * R + j
  <2>1. (q + k) * R = q * R + k * R /\ q * R \in Nat /\ k * R \in Nat
    BY ReplicationAssumption
  <2>2. i \in Int /\ j \in Int
    BY ReplicationAssumption DEF Repl
  <2> QED
    BY <1>2, <2>1, <2>2 DEF Length
<1>4. \A x \in Repl : numFetches[d][x] + Visits(i, k, j)[x] = q + k + Ahead(x, j)
  <2> TAKE x \in Repl
  <2>1. Visits(i, k, j)[x] = k + Ahead(x, j) - Ahead(x, i)
    BY VisitsType
  <2>2. Ahead(x, i) \in Int /\ Ahead(x, j) \in Int
    BY DEF Ahead
  <2> QED
    BY <1>2, <2>1, <2>2
<1> QED
  BY <1>1, <1>3, <1>4

\* A walk that ends before some replica has had its fetches for the step ends
\* before the step's last buffer.
LEMMA WalkEndsEarly ==
  ASSUME TypeOK, FetchRounds, NEW d \in Directions, NEW x \in Repl,
         NEW k \in {0, 1}, NEW j \in Repl,
         Visits(index[d], k, j)[x] = 0, canAddBuffer(d, x)
  PROVE  taken[d] + Length(index[d], k, j) < StepSize(d)
<1>1. PICK c \in Nat, m \in Nat :
        c = numFetches[d][R - 1] + k /\ m = MaxFetches[d]
  BY WalkCounts, MaxFetchesAssumption
<1>2. numFetches[d][x] = c + Ahead(x, j)
  <2>1. numFetches[d][x] + Visits(index[d], k, j)[x] = c + Ahead(x, j)
    BY <1>1, WalkCounts
  <2>2. numFetches[d][x] \in Nat
    BY Types
  <2> QED
    BY <2>1, <2>2
<1>3. m >= c + 1
  BY <1>1, <1>2 DEF canAddBuffer, Ahead
<1>4. m * R >= (c + 1) * R /\ m * R \in Int
  BY <1>3, TimesR
<1>5. (c + 1) * R = c * R + R /\ c * R \in Int /\ m * R = R * m
  BY ReplicationAssumption
<1>6. taken[d] + Length(index[d], k, j) = c * R + j
  BY <1>1, WalkCounts
<1>7. j \in Int /\ R \in Int /\ j < R
  BY ReplicationAssumption DEF Repl
<1> QED
  BY <1>1, <1>4, <1>5, <1>6, <1>7 DEF StepSize

\* A walk that ends before it meets replica r meets no replica that has had its
\* fetches for the step, unless r has had them too; and where it ends, it has
\* not been before.
LEMMA WalkBeforeReplica ==
  ASSUME TypeOK, FetchRounds, NEW d \in Directions, NEW r \in Repl,
         NEW k \in {0, 1}, NEW j \in Repl,
         \A x \in Repl : Visits(index[d], k, j)[x] \in {0, 1},
         Visits(index[d], k, j)[r] # 1
  PROVE  /\ Visits(index[d], k, j)[r] = 0
         /\ Visits(index[d], k, j)[j] = 0
         /\ canAddBuffer(d, r) => canAddBuffer(d, j)
<1>1. PICK i \in Repl : i = index[d]
  BY Types
<1>2. \A x \in Repl : Visits(i, k, j)[x] = k + Ahead(x, j) - Ahead(x, i)
  BY VisitsType
<1>3. /\ k + Ahead(r, j) - Ahead(r, i) = 0
      /\ k + Ahead(j, j) - Ahead(j, i) \in {0, 1}
      /\ k + Ahead(i, j) - Ahead(i, i) \in {0, 1}
  BY <1>1, <1>2
<1>4. i \in Int /\ j \in Int /\ r \in Int
  BY ReplicationAssumption DEF Repl
<1>5. k + Ahead(j, j) - Ahead(j, i) = 0
  BY <1>3, <1>4 DEF Ahead
<1>6. Visits(i, k, j)[r] = 0 /\ Visits(i, k, j)[j] = 0
  BY <1>2, <1>3, <1>5
<1>7. ASSUME canAddBuffer(d, r) PROVE canAddBuffer(d, j)
  <2>1. PICK q \in Nat, m \in Nat :
          q = numFetches[d][R - 1] + k /\ m = MaxFetches[d]
    BY WalkCounts, MaxFetchesAssumption
  <2>2. /\ numFetches[d][r] + 0 = q + Ahead(r, j)
        /\ numFetches[d][j] + 0 = q + Ahead(j, j)
    BY <1>1, <1>6, <2>1, WalkCounts
  <2>3. numFetches[d][r] \in Nat /\ numFetches[d][j] \in Nat
    BY Types
  <2> QED
    BY <1>4, <1>7, <2>1, <2>2, <2>3 DEF canAddBuffer, Ahead
<1> QED
  BY <1>1, <1>6, <1>7

\* A fetch that throws, and a prefetch that does, found upstream empty before
\* the last buffer of the step.
LEMMA ThrowsStarved ==
  ASSUME IInv, Adapters = Repl, NEW d \in Directions, NEW r \in Repl,
         NEW prefetch \in BOOLEAN, GetFromUpstream(d, r, prefetch),
         ~prefetch => Len(got[d][r]) < MaxFetches[d], failed', ~failed
  PROVE  ready[d] < StepSize(d)
<1>1. TypeOK /\ FetchRounds /\ Buffers(d, r)
  BY IInvParts
<1>2. PICK k \in {0, 1}, j \in Repl :
        /\ FetchWalk(d, r, k, j)
        /\ IF Visits(index[d], k, j)[r] = 1
           THEN UNCHANGED failed
           ELSE failed' = (\/ failed
                           \/ ~prefetch
                           \/ WalkThrows(d, r, prefetch, j))
  BY DEF GetFromUpstream
<1>3. /\ Visits(index[d], k, j)[r] # 1
      /\ ~prefetch \/ WalkThrows(d, r, prefetch, j)
  BY <1>2
<1>4. \A x \in Repl : Visits(index[d], k, j)[x] \in {0, 1}
  BY <1>2 DEF FetchWalk
<1>5. canAddBuffer(d, j)
  <2>1. CASE ~prefetch
    <3>1. data[d][r] = << >> /\ got[d][r] \in Seq(Nat)
      BY <1>1, Types DEF GetFromUpstream
    <3>2. Len(data[d][r]) = 0 /\ Len(got[d][r]) \in Nat
      BY <3>1
    <3>3. Len(got[d][r]) + Len(data[d][r]) = numFetches[d][r]
      BY <1>1 DEF Buffers
    <3>4. numFetches[d][r] = Len(got[d][r])
      BY <3>2, <3>3
    <3>5. canAddBuffer(d, r)
      BY <2>1, <3>4 DEF canAddBuffer
    <3> QED
      BY <1>1, <1>3, <1>4, <3>5, WalkBeforeReplica
  <2>2. CASE WalkThrows(d, r, prefetch, j)
    BY <2>2 DEF WalkThrows
  <2> QED
    BY <1>3, <2>1, <2>2
<1>6. Visits(index[d], k, j)[j] = 0
  BY <1>1, <1>3, <1>4, WalkBeforeReplica
<1>7. taken[d] + Length(index[d], k, j) = ready[d]
  BY <1>2, <1>3, <1>5 DEF FetchWalk
<1>8. taken[d] + Length(index[d], k, j) < StepSize(d)
  BY <1>1, <1>5, <1>6, WalkEndsEarly
<1> QED
  BY <1>7, <1>8

\* When every replica has its adapter, a callback throws only if the user's
\* IStepIO had not supplied the whole step: no order of fetches, prefetches and
\* completions (getInData, getOutData and the completion callbacks) makes a
\* step fail whose buffers are all there.
THEOREM FailsWhenStarved == Adapters = Repl => (Spec => FailsOnlyWhenStarved)
<1> SUFFICES ASSUME Adapters = Repl PROVE Spec => FailsOnlyWhenStarved
  OBVIOUS
<1>1. IInv /\ [Next]_vars =>
        [failed' /\ ~failed =>
           \E d \in Directions : ready[d] < StepSize(d)]_vars
  <2> SUFFICES ASSUME IInv, Next, failed', ~failed
               PROVE  \E d \in Directions : ready[d] < StepSize(d)
    OBVIOUS
  <2>1. ASSUME NEW d \in Directions, NEW r \in Streamed, Fetch(d, r)
        PROVE  ready[d] < StepSize(d)
    <3>1. /\ GetFromUpstream(d, r, FALSE)
          /\ Len(got[d][r]) < MaxFetches[d]
      BY <2>1 DEF Fetch, Get, GetCached
    <3> QED
      BY <3>1, ThrowsStarved, AdaptersAssumption
  <2>2. ASSUME NEW d \in Directions, NEW r \in Streamed, Prefetch(d, r)
        PROVE  ready[d] < StepSize(d)
    <3>1. GetFromUpstream(d, r, TRUE)
      BY <2>2 DEF Prefetch, Get, GetCached
    <3> QED
      BY <3>1, ThrowsStarved, AdaptersAssumption
  <2>3. ~\E d \in Directions, r \in Streamed : Complete(d, r)
    BY DEF Complete
  <2>4. ~\E d \in Directions : Supply(d)
    BY DEF Supply
  <2>5. ~SetUpstreamIo
    BY DEF SetUpstreamIo
  <2> QED
    BY <2>1, <2>2, <2>3, <2>4, <2>5 DEF Next
<1> QED
  BY <1>1, Invariance, PTL DEF Spec, FailsOnlyWhenStarved
=============================================================================
