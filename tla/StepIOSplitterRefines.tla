----------------------- MODULE StepIOSplitterRefines -----------------------
(***************************************************************************)
(* Proof that the splitter implements ReplicaStreams: whatever the walks   *)
(* fetch ahead and cache, each replica sees its own stream, and upstream   *)
(* is told about completed buffers in the order of the common one.         *)
(***************************************************************************)
EXTENDS StepIOSplitterProofs

\* Upstream never gave more than it has.
Supplied == \A d \in Directions : taken[d] <= ready[d]

LEMMA SuppliedNext ==
  ASSUME IInv, IInv', Supplied, [Next]_vars
  PROVE  Supplied'
<1>1. TypeOK /\ TypeOK'
  BY DEF IInv
<1>2. ASSUME NEW d \in Directions, NEW r \in Streamed, NEW p \in BOOLEAN,
             Get(d, r, p)
      PROVE  Supplied'
  <2>1. CASE GetCached(d, r)
    BY <2>1 DEF GetCached, Supplied
  <2>2. CASE GetFromUpstream(d, r, p)
    <3>1. PICK k \in {0, 1}, j \in Repl :
            /\ taken[d] + Length(index[d], k, j) <= ready[d]
            /\ taken' = [taken EXCEPT ![d] =
                           taken[d] + Length(index[d], k, j)]
      BY <2>2 DEF GetFromUpstream, FetchWalk
    <3>2. ready' = ready
      BY <2>2 DEF GetFromUpstream
    <3> QED
      BY <1>1, <3>1, <3>2 DEF Supplied, TypeOK
  <2> QED
    BY <1>2, <2>1, <2>2 DEF Get
<1>3. ASSUME NEW d \in Directions, NEW r \in Streamed, Complete(d, r)
      PROVE  Supplied'
  BY <1>3 DEF Complete, Supplied
<1>4. ASSUME NEW d \in Directions, Supply(d)
      PROVE  Supplied'
  <2>1. \A e \in Directions : ready[e] \in Nat /\ taken[e] \in Nat
    BY <1>1, Types
  <2>2. /\ ready' = [ready EXCEPT ![d] = ready[d] + 1] /\ taken' = taken
        /\ ready \in [Directions -> Nat]
    BY <1>1, <1>4 DEF Supply, TypeOK
  <2> QED
    BY <2>1, <2>2 DEF Supplied
<1>5. CASE SetUpstreamIo
  BY <1>5 DEF SetUpstreamIo, Zero, Supplied
<1>6. CASE UNCHANGED vars
  BY <1>6 DEF vars, Supplied
<1> QED
  BY <1>2, <1>3, <1>4, <1>5, <1>6 DEF Next, Fetch, Prefetch

\* A buffer that a replica was handed had been taken from upstream.
GotTaken ==
  \A d \in Directions, r \in Repl :
    Len(got[d][r]) > 0 => (Len(got[d][r]) - 1) * R + r < taken[d]

LEMMA GotIsTaken == IInv => GotTaken
<1> SUFFICES ASSUME IInv, NEW d \in Directions, NEW r \in Repl,
                    Len(got[d][r]) > 0
             PROVE  (Len(got[d][r]) - 1) * R + r < taken[d]
  BY DEF GotTaken
<1>1. TypeOK /\ FetchRounds /\ Buffers(d, r)
  BY IInvParts
<1>2. Len(got[d][r]) \in Nat /\ Len(data[d][r]) \in Nat
  <2>1. got[d][r] \in Seq(Nat) /\ data[d][r] \in Seq(Nat)
    BY <1>1, Types
  <2> QED
    BY <2>1
<1>3. PICK g \in Nat, l \in Nat, q \in Nat, i \in Repl :
        /\ g = Len(got[d][r]) /\ l = Len(data[d][r])
        /\ q = numFetches[d][R - 1] /\ i = index[d]
  BY <1>1, <1>2, Types, LastReplica
<1>4. taken[d] = q * R + i /\ g + l = q + Ahead(r, i) /\ g > 0
  BY <1>1, <1>3 DEF FetchRounds, Buffers
<1>5. r \in 0 .. R - 1 /\ i \in 0 .. R - 1 /\ R \in Nat
  BY ReplicationAssumption DEF Repl
<1>6. CASE r < i
  <2>1. q >= g - 1
    BY <1>4, <1>6 DEF Ahead
  <2>2. q * R >= (g - 1) * R /\ q * R \in Int /\ (g - 1) * R \in Int
    BY <2>1, TimesR
  <2>3. (g - 1) * R + r < q * R + i
    BY <1>5, <1>6, <2>2
  <2> QED
    BY <1>3, <1>4, <2>3
<1>7. CASE ~(r < i)
  <2>1. q - 1 >= g - 1
    BY <1>4, <1>7 DEF Ahead
  <2>2. (q - 1) * R >= (g - 1) * R /\ (q - 1) * R \in Int /\ (g - 1) * R \in Int
    BY <2>1, TimesR
  <2>3. (q - 1) * R = q * R - R /\ q * R \in Int
    BY <1>5
  <2>4. (g - 1) * R + r < q * R + i
    BY <1>5, <2>2, <2>3
  <2> QED
    BY <1>3, <1>4, <2>4
<1> QED
  BY <1>6, <1>7

\* Upstream was told about everything before the oldest open buffer, which is
\* that of the replica at the completion index.
OldestOpen ==
  \A d \in Directions :
    \E x \in Repl :
      /\ released[d] = CompletedBy(d, x) * R + x
      /\ \A y \in Repl : CompletedBy(d, x) * R + x <= CompletedBy(d, y) * R + y

LEMMA ReleasedUpToOldest == IInv => OldestOpen
<1> SUFFICES ASSUME IInv, NEW d \in Directions
             PROVE  \E x \in Repl :
                      /\ released[d] = CompletedBy(d, x) * R + x
                      /\ \A y \in Repl : CompletedBy(d, x) * R + x
                                           <= CompletedBy(d, y) * R + y
  BY DEF OldestOpen
<1>1. TypeOK /\ Completions(d)
  BY IInvParts
<1>2. ASSUME NEW y \in Repl
      PROVE  /\ CompletedBy(d, y) \in Int /\ upstream[d][y] \in Nat
             /\ Reported(d, y) \in Int
             /\ CompletedBy(d, y) = Reported(d, y) + upstream[d][y]
  <2>1. got[d][y] \in Seq(Nat)
    BY <1>1, Types
  <2>2. /\ Len(got[d][y]) \in Nat /\ downstream[d][y] \in Nat
        /\ upstream[d][y] \in Nat
    BY <1>1, <2>1, Types
  <2> QED
    BY <2>2 DEF Reported, CompletedBy
<1>3. PICK c \in Int, i \in Repl :
        c = Reported(d, R - 1) /\ i = completeIndex[d]
  BY <1>1, <1>2, Types, LastReplica
<1>4. \A y \in Repl : Reported(d, y) = c + Ahead(y, i)
  BY <1>1, <1>3 DEF Completions
<1>5. released[d] = c * R + i /\ upstream[d][i] = 0
  BY <1>1, <1>3 DEF Completions
<1>6. CompletedBy(d, i) = c
  BY <1>2, <1>3, <1>4, <1>5 DEF Ahead, Repl
<1>7. R \in Nat /\ i \in 0 .. R - 1
  BY ReplicationAssumption DEF Repl
<1>8. ASSUME NEW y \in Repl
      PROVE  c * R + i <= CompletedBy(d, y) * R + y
  <2>1. PICK m \in Int : m = CompletedBy(d, y)
    BY <1>2
  <2>2. m >= c + Ahead(y, i) /\ y \in 0 .. R - 1
    BY <1>2, <1>4, <2>1 DEF Ahead, Repl
  <2>3. CASE y < i
    <3>1. m * R >= (c + 1) * R /\ m * R \in Int
      BY <2>2, <2>3, TimesR DEF Ahead
    <3>2. (c + 1) * R = c * R + R /\ c * R \in Int
      BY <1>7
    <3> QED
      BY <1>7, <2>1, <2>2, <3>1, <3>2
  <2>4. CASE ~(y < i)
    <3>1. m * R >= c * R /\ m * R \in Int /\ c * R \in Int
      BY <2>2, <2>4, TimesR DEF Ahead
    <3> QED
      BY <1>7, <2>1, <2>2, <2>4, <3>1
  <2> QED
    BY <2>3, <2>4
<1> QED
  BY <1>5, <1>6, <1>8

-----------------------------------------------------------------------------
(* The steps of the abstract specification. *)

\* The abstract counterpart of the completed buffers.
done == [d \in Directions |-> [r \in Repl |-> CompletedBy(d, r)]]

\* Handing out a buffer, cached or not, is a delivery.
LEMMA DeliverRefines ==
  ASSUME TypeOK, IInv', Supplied', NEW d \in Directions, NEW r \in Repl,
         NEW b, got' = [got EXCEPT ![d][r] = Append(@, b)], b \in Nat,
         downstream' = [downstream EXCEPT ![d][r] = @ + 1],
         UNCHANGED << ready, released >>
  PROVE  Streams!Deliver(d, r)
<1>1. got[d][r] \in Seq(Nat) /\ got \in [Directions -> [Repl -> Seq(Nat)]]
  BY Types DEF TypeOK
<1>2. got'[d][r] = Append(got[d][r], b)
  BY <1>1
<1>3. /\ Len(got'[d][r]) = Len(got[d][r]) + 1 /\ Len(got[d][r]) \in Nat
      /\ got'[d][r][Len(got[d][r]) + 1] = b
  BY <1>1, <1>2, AppendFacts
<1>4. InOrder'
  BY DEF IInv
<1>5. b = Len(got[d][r]) * R + r
  <2>1. PICK k \in Nat : k = Len(got[d][r])
    BY <1>3
  <2>2. got'[d][r][k + 1] = ((k + 1) - 1) * R + r
    BY <1>3, <1>4, <2>1 DEF InOrder
  <2>3. (k + 1) - 1 = k
    OBVIOUS
  <2> QED
    BY <1>3, <2>1, <2>2, <2>3
<1>6. (Len(got'[d][r]) - 1) * R + r < taken'[d]
  <2>1. GotTaken'
    BY GotIsTaken, PTL
  <2> QED
    BY <1>3, <2>1 DEF GotTaken
<1>7. b < ready[d]
  <2>1. TypeOK'
    BY DEF IInv
  <2>2. taken'[d] <= ready[d] /\ taken'[d] \in Nat /\ ready[d] \in Nat
    BY <2>1, Types DEF Supplied, TypeOK
  <2>3. Len(got'[d][r]) - 1 = Len(got[d][r])
    BY <1>3
  <2> QED
    BY <1>5, <1>6, <2>2, <2>3
<1>8. UNCHANGED done
  <2>1. ASSUME NEW e \in Directions, NEW x \in Repl
        PROVE  CompletedBy(e, x)' = CompletedBy(e, x)
    <3>1. CASE e = d /\ x = r
      <4>1. downstream'[d][r] = downstream[d][r] + 1 /\ downstream[d][r] \in Nat
        BY Types DEF TypeOK
      <4> QED
        BY <1>3, <3>1, <4>1, SMTT(30) DEF CompletedBy
    <3>2. CASE ~(e = d /\ x = r)
      <4>1. got'[e][x] = got[e][x] /\ downstream'[e][x] = downstream[e][x]
        BY <3>2 DEF TypeOK
      <4> QED
        BY <4>1 DEF CompletedBy
    <3> QED
      BY <3>1, <3>2
  <2> QED
    BY <2>1 DEF done
<1> QED
  BY <1>5, <1>7, <1>8 DEF Streams!Deliver, done

\* A completion is a completion, with what upstream is told.
LEMMA CompleteRefines ==
  ASSUME IInv, IInv', NEW d \in Directions, NEW r \in Repl, Complete(d, r)
  PROVE  Streams!Complete(d, r)
<1>1. TypeOK /\ TypeOK'
  BY DEF IInv
<1>2. /\ got[d][r] \in Seq(Nat) /\ downstream[d][r] \in Nat
      /\ downstream \in [Directions -> [Repl -> Nat]]
      /\ released \in [Directions -> Nat]
  BY <1>1, Types DEF TypeOK
<1>3. /\ downstream[d][r] > 0
      /\ downstream' = [downstream EXCEPT ![d][r] = @ - 1]
      /\ got' = got /\ ready' = ready
  BY DEF Complete
<1>4. released' = [released EXCEPT ![d] = released'[d]]
  <2>1. PICK v : released' = [released EXCEPT ![d] = v]
    BY DEF Complete
  <2> QED
    BY <1>2, <2>1
<1>5. CompletedBy(d, r) < Len(got[d][r])
  BY <1>2, <1>3 DEF CompletedBy
<1>6. done' = [done EXCEPT ![d][r] = @ + 1]
  <2>1. CompletedBy(d, r)' = CompletedBy(d, r) + 1
    BY <1>2, <1>3 DEF CompletedBy
  <2>2. ASSUME NEW e \in Directions, NEW x \in Repl, e # d \/ x # r
        PROVE  CompletedBy(e, x)' = CompletedBy(e, x)
    BY <1>2, <1>3, <2>2 DEF CompletedBy
  <2> QED
    BY <2>1, <2>2 DEF done
<1>7. PICK x \in Repl :
        /\ released'[d] = CompletedBy(d, x)' * R + x
        /\ \A y \in Repl : CompletedBy(d, x)' * R + x
                             <= CompletedBy(d, y)' * R + y
  <2>1. OldestOpen'
    BY ReleasedUpToOldest, PTL
  <2> QED
    BY <2>1 DEF OldestOpen
<1>8. \A y \in Repl : done'[d][y] = CompletedBy(d, y)'
  BY DEF done
<1>9. /\ \A y \in Repl : Streams!Open(done'[d], x) <= Streams!Open(done'[d], y)
      /\ released' = [released EXCEPT ![d] = Streams!Open(done'[d], x)]
  BY <1>4, <1>7, <1>8 DEF Streams!Open
<1>10. done[d][r] < Len(got[d][r])
  BY <1>5 DEF done
<1> QED
  BY <1>3, <1>6, <1>9, <1>10 DEF Streams!Complete, done, Streams!Repl, Repl

\* A callback that asks for a buffer delivers one or changes nothing that the
\* abstract specification sees.
LEMMA GetRefines ==
  ASSUME IInv, IInv', Supplied', NEW d \in Directions, NEW r \in Repl,
         NEW p \in BOOLEAN, Get(d, r, p)
  PROVE  Streams!Deliver(d, r) \/ UNCHANGED << ready, got, done, released >>
<1>1. TypeOK
  BY DEF IInv
<1>2. CASE GetCached(d, r)
  <2>1. data[d][r] \in Seq(Nat) /\ data[d][r] # << >>
    BY <1>1, <1>2, Types DEF GetCached
  <2>2. Head(data[d][r]) \in Nat
    BY <2>1
  <2>3. /\ got' = [got EXCEPT ![d][r] = Append(@, Head(data[d][r]))]
        /\ downstream' = [downstream EXCEPT ![d][r] = @ + 1]
        /\ UNCHANGED << ready, released >>
    BY <1>2 DEF GetCached, Deliver
  <2> QED
    BY <1>1, <2>2, <2>3, DeliverRefines
<1>3. CASE GetFromUpstream(d, r, p)
  <2>1. PICK k \in {0, 1}, j \in Repl :
          /\ FetchWalk(d, r, k, j)
          /\ IF Visits(index[d], k, j)[r] = 1
             THEN Deliver(d, r, Fetched(d, k, j))
             ELSE UNCHANGED << got, downstream >>
    BY <1>3 DEF GetFromUpstream
  <2>2. UNCHANGED << ready, released >>
    BY <1>3 DEF GetFromUpstream
  <2>3. CASE Visits(index[d], k, j)[r] = 1
    <3>1. /\ taken[d] + Rank(index[d], r) \in Nat
          /\ Fetched(d, k, j)[r]
               = Append(data[d][r], taken[d] + Rank(index[d], r))
      <4>1. taken[d] \in Nat
        BY <1>1, Types
      <4>2. FetchWalk(d, r, k, j)
        BY <2>1
      <4>3. Rank(index[d], r) \in Nat
        BY <1>1, <4>2, WalkEffect
      <4>4. Fetched(d, k, j)[r]
              = Append(data[d][r], taken[d] + Rank(index[d], r))
        BY <1>1, <2>3, <4>2, WalkEffect
      <4> QED
        BY <4>1, <4>3, <4>4
    <3>2. data[d][r] = << >>
      BY <1>3 DEF GetFromUpstream
    <3>3. Head(Fetched(d, k, j)[r]) \in Nat
      BY <3>1, <3>2
    <3>4. /\ got' = [got EXCEPT ![d][r] =
                       Append(@, Head(Fetched(d, k, j)[r]))]
          /\ downstream' = [downstream EXCEPT ![d][r] = @ + 1]
      BY <2>1, <2>3 DEF Deliver
    <3> QED
      BY <1>1, <2>2, <3>3, <3>4, DeliverRefines
  <2>4. CASE Visits(index[d], k, j)[r] # 1
    BY <2>1, <2>2, <2>4 DEF done, CompletedBy
  <2> QED
    BY <2>3, <2>4
<1> QED
  BY <1>2, <1>3 DEF Get

\* The initial state, and the one after a reset.
LEMMA FreshDone ==
  /\ got = PerReplica(<< >>) /\ downstream = PerReplica(0)
  => done = PerReplica(0)
BY DEF done, CompletedBy, PerReplica

\* The splitter implements R streams that are fed round robin from one, for
\* every number of replicas and fetches, and every set of connected replicas.
THEOREM Refinement == Spec => ImplementsReplicaStreams
<1> USE DEF Streams!Repl, Repl
<1>1. Init => Streams!Init
  BY FreshDone
  DEF Init, Streams!Init, Streams!Zero, Zero, Streams!PerReplica, PerReplica,
      done
<1>2. Init => Supplied
  BY DEF Init, Supplied, Zero
<1>3. /\ IInv /\ IInv' /\ Supplied /\ [Next]_vars => Supplied'
  BY SuppliedNext
<1>4. /\ IInv /\ IInv' /\ Supplied' /\ [Next]_vars
      => [Streams!Next]_(Streams!vars)
  <2> SUFFICES ASSUME IInv, IInv', Supplied', [Next]_vars
               PROVE  \/ Streams!Next
                      \/ UNCHANGED << ready, got, done, released >>
    BY DEF Streams!vars, done
  <2> HIDE DEF Streams!Repl, Repl
  <2>1. ASSUME NEW d \in Directions, NEW r \in Streamed, NEW p \in BOOLEAN,
               Get(d, r, p)
        PROVE  Streams!Next \/ UNCHANGED << ready, got, done, released >>
    <3>1. r \in Repl /\ r \in Streams!Repl
      BY AdaptersAssumption DEF Streams!Repl, Repl
    <3> QED
      BY <2>1, <3>1, GetRefines DEF Streams!Next
  <2>2. ASSUME NEW d \in Directions, NEW r \in Streamed, Complete(d, r)
        PROVE  Streams!Next
    <3>1. r \in Repl /\ r \in Streams!Repl
      BY AdaptersAssumption DEF Streams!Repl, Repl
    <3> QED
      BY <2>2, <3>1, CompleteRefines DEF Streams!Next
  <2>3. ASSUME NEW d \in Directions, Supply(d)
        PROVE  Streams!Next
    <3>1. Streams!Supply(d)
      BY <2>3 DEF Supply, Streams!Supply, done, CompletedBy
    <3> QED
      BY <3>1 DEF Streams!Next
  <2>4. CASE SetUpstreamIo
    <3>1. done' = PerReplica(0)'
      <4>1. /\ got' = PerReplica(<< >>)' /\ downstream' = PerReplica(0)'
        BY <2>4 DEF SetUpstreamIo, PerReplica
      <4> QED
        BY <4>1 DEF done, CompletedBy, PerReplica
    <3>2. Streams!Restart
      BY <2>4, <3>1
      DEF SetUpstreamIo, Streams!Restart, Streams!Zero, Zero,
          Streams!PerReplica, PerReplica, Streams!Repl, Repl, done
    <3> QED
      BY <3>2 DEF Streams!Next
  <2>5. CASE UNCHANGED vars
    BY <2>5 DEF vars, done, CompletedBy
  <2> QED
    BY <2>1, <2>2, <2>3, <2>4, <2>5 DEF Next, Fetch, Prefetch
<1> QED
  BY <1>1, <1>2, <1>3, <1>4, Invariance, PTL
  DEF Spec, ImplementsReplicaStreams, Streams!Spec
=============================================================================
