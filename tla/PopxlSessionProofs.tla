------------------------- MODULE PopxlSessionProofs -------------------------
(***************************************************************************)
(* Type correctness of PopxlSession, and the correctness of the host       *)
(* weights as a cache of the device weights, for any number of sessions    *)
(* that share the device, any nesting of contexts and a user who attaches  *)
(* and detaches the device as he likes.                                    *)
(***************************************************************************)
EXTENDS PopxlSession, SequenceTheorems, TLAPS

Copies == Weights \cup {NoWeights}

\* Leaving out the last element of a sequence leaves a sequence, of the empty
\* one too.
LEMMA FrontType ==
  ASSUME NEW S, NEW q \in Seq(S)
  PROVE  Front(q) \in Seq(S)
<1>1. \A i \in 1 .. Len(q) - 1 : q[i] \in S
  OBVIOUS
<1>2. Len(q) - 1 \in Int /\ 1 \in Int
  OBVIOUS
<1> QED BY <1>1, <1>2, SubSeqProperties DEF Front

\* Writing some of the variables of a copy leaves a copy.
LEMMA OverwrittenType ==
  ASSUME NEW copy \in Copies, NEW data \in SomeWeights
  PROVE  Overwritten(copy, data) \in Copies
<1>1. PICK W \in SUBSET Vars : data \in [W -> Values]
  BY DEF SomeWeights
<1>2. CASE DOMAIN data = Vars
  BY <1>1, <1>2 DEF Overwritten, Copies, Weights
<1>3. CASE DOMAIN data # Vars /\ copy = NoWeights
  BY <1>3 DEF Overwritten, Copies
<1>4. CASE DOMAIN data # Vars /\ copy # NoWeights
  <2>1. copy \in [Vars -> Values]
    BY <1>4 DEF Copies, Weights
  <2>2. Overwritten(copy, data)
          = [v \in Vars |-> IF v \in DOMAIN data THEN data[v] ELSE copy[v]]
    BY <1>4 DEF Overwritten
  <2>3. \A v \in Vars :
          (IF v \in DOMAIN data THEN data[v] ELSE copy[v]) \in Values
    BY <1>1, <2>1
  <2> QED BY <2>2, <2>3 DEF Copies, Weights
<1> QED BY <1>2, <1>3, <1>4

\* What a program finds on the device and in the d2h buffers.
LEMMA FoundType ==
  ASSUME TypeOK, NEW s \in Sessions
  PROVE  /\ host[s] \in Copies
         /\ Memory(s) \in Copies /\ Buffer(s) \in Copies
BY DEF TypeOK, DevicexTypeOK, Memory, Buffer, Copies

\* Running a program of s on weights keeps the types of what it changes.
LEMMA ExecuteType ==
  ASSUME TypeOK, NEW s \in Sessions, NEW memory \in Copies,
         NEW buffer \in Copies, Execute(s, memory, buffer)
  PROVE  /\ mostRecentlyLoaded' \in Sessions \cup {NoSession}
         /\ engine' \in Sessions \cup {NoSession}
         /\ weights' \in Copies
         /\ d2hWeightBuffers' \in [Sessions -> Copies]
BY DEF TypeOK, DevicexTypeOK, Execute, Copies

LEMMA TeardownType ==
  ASSUME Teardown
  PROVE  /\ attached' = FALSE /\ engine' = NoSession /\ weights' = NoWeights
         /\ mostRecentlyLoaded' = NoSession /\ kept' = FALSE
BY DEF Teardown, Detach

\* A program leaves weights of the right type.
LEMMA ProgramType ==
  ASSUME TypeOK, NEW s \in Sessions, Program(s)
  PROVE  \E trained \in Copies : Execute(s, trained, Buffer(s))
<1>1. PICK trained \in
             (IF Memory(s) = NoWeights THEN {NoWeights} ELSE Weights) :
        Execute(s, trained, Buffer(s))
  BY DEF Program
<1>2. trained \in Copies
  BY DEF Copies
<1> QED BY <1>1, <1>2

\* Push and Pop keep the type of the stacks.
LEMMA StackType ==
  ASSUME TypeOK, NEW s \in Sessions
  PROVE  /\ \A was \in BOOLEAN : Push(s, was) \in [Sessions -> Seq(BOOLEAN)]
         /\ Pop(s) \in [Sessions -> Seq(BOOLEAN)]
         /\ Append(contexts, s) \in Seq(Sessions)
         /\ Front(contexts) \in Seq(Sessions)
<1>1. wasAttached[s] \in Seq(BOOLEAN) /\ contexts \in Seq(Sessions)
  BY DEF TypeOK
<1>2. /\ Front(wasAttached[s]) \in Seq(BOOLEAN)
      /\ Front(contexts) \in Seq(Sessions)
  BY <1>1, FrontType
<1>3. \A was \in BOOLEAN : Append(wasAttached[s], was) \in Seq(BOOLEAN)
  BY <1>1
<1>4. wasAttached \in [Sessions -> Seq(BOOLEAN)]
  BY DEF TypeOK
<1>5. Append(contexts, s) \in Seq(Sessions)
  BY <1>1
<1> QED BY <1>2, <1>3, <1>4, <1>5 DEF Push, Pop

-----------------------------------------------------------------------------
\* Type correctness, one step per group of actions with the same effect on
\* the types.
LEMMA TypeStep ==
  ASSUME TypeOK, [Next]_vars
  PROVE  TypeOK'
<1>1. CASE UNCHANGED vars
  BY <1>1 DEF vars, TypeOK, DevicexTypeOK
<1>2. ASSUME NEW s \in Sessions, Construct(s)
      PROVE  TypeOK'
  <2>1. CASE attached
    <3>1. host[s] \in Copies /\ NoWeights \in Copies
      BY FoundType DEF Copies
    <3>2. Execute(s, host[s], NoWeights)
      BY <1>2, <2>1 DEF Construct
    <3> QED BY <1>2, <3>1, <3>2, ExecuteType
            DEF Construct, TypeOK, DevicexTypeOK, Copies
  <2>2. CASE ~attached
    BY <1>2, <2>2 DEF Construct, TypeOK, DevicexTypeOK
  <2> QED BY <2>1, <2>2
<1>3. ASSUME NEW s \in Sessions, EnterAttached(s) \/ EnterRefused(s)
      PROVE  TypeOK'
  BY <1>3, StackType DEF EnterAttached, EnterRefused, TypeOK, DevicexTypeOK,
     devicex
<1>4. ASSUME NEW s \in Sessions, EnterDetached(s)
      PROVE  TypeOK'
  <2>1. Execute(s, host[s], Buffer(s))
    BY <1>4 DEF EnterDetached, weightsFromHost
  <2>2. /\ mostRecentlyLoaded' \in Sessions \cup {NoSession}
        /\ engine' \in Sessions \cup {NoSession}
        /\ weights' \in Copies
        /\ d2hWeightBuffers' \in [Sessions -> Copies]
    BY <2>1, ExecuteType, FoundType
  <2> QED BY <1>4, <2>2, StackType
          DEF EnterDetached, TypeOK, DevicexTypeOK, Copies
<1>5. ASSUME NEW s \in Sessions, EnterFails(s)
      PROVE  TypeOK'
  BY <1>5, TeardownType, FoundType
     DEF EnterFails, TypeOK, DevicexTypeOK, Copies
<1>6. ASSUME NEW s \in Sessions,
             ExitInner(s) \/ ExitOuter(s) \/ ExitRaised(s)
      PROVE  TypeOK'
  <2>1. /\ contexts' \in Seq(Sessions)
        /\ wasAttached' \in [Sessions -> Seq(BOOLEAN)]
    BY <1>6, StackType DEF ExitInner, ExitOuter, ExitRaised, Leave
  <2>2. CASE ExitInner(s)
    BY <2>1, <2>2 DEF ExitInner, TypeOK, DevicexTypeOK, devicex
  <2>3. CASE ExitOuter(s)
    BY <2>1, <2>3, TeardownType, FoundType
       DEF ExitOuter, TypeOK, DevicexTypeOK, Copies
  <2>4. CASE ExitRaised(s)
    BY <2>1, <2>4, TeardownType DEF ExitRaised, TypeOK, DevicexTypeOK
  <2> QED BY <1>6, <2>2, <2>3, <2>4
<1>7. ASSUME NEW s \in Sessions, ExitFails(s)
      PROVE  TypeOK'
  <2>1. /\ contexts' \in Seq(Sessions)
        /\ wasAttached' \in [Sessions -> Seq(BOOLEAN)]
    BY <1>7, StackType DEF ExitFails, Leave
  <2>2. CASE ProgramFails(s) /\ UNCHANGED << attached, host >>
    <3>1. Execute(s, Memory(s), Buffer(s))
      BY <2>2 DEF ProgramFails
    <3> QED BY <1>7, <2>1, <2>2, <3>1, ExecuteType, FoundType
            DEF ExitFails, TypeOK, DevicexTypeOK, Copies
  <2>3. CASE UNCHANGED devicex
    BY <1>7, <2>1, <2>3 DEF ExitFails, TypeOK, DevicexTypeOK, devicex
  <2> QED BY <1>7, <2>2, <2>3 DEF ExitFails, device, devicex
<1>8. ASSUME NEW s \in Sessions,
             weights_to_host(s) \/ get_tensors_data(s)
      PROVE  TypeOK'
  <2>1. Runtime(s) /\ CopyWeightsToHost(s)
    BY <1>8 DEF weights_to_host, get_tensors_data
  <2>2. Execute(s, Memory(s), Memory(s))
    BY <2>1 DEF CopyWeightsToHost, weightsToHost
  <2> QED BY <2>1, <2>2, ExecuteType, FoundType
          DEF Runtime, CopyWeightsToHost, TypeOK, DevicexTypeOK, Copies
<1>9. ASSUME NEW s \in Sessions, weights_from_host(s)
      PROVE  TypeOK'
  <2>1. Execute(s, host[s], Buffer(s))
    BY <1>9 DEF weights_from_host, weightsFromHost
  <2> QED BY <1>9, <2>1, ExecuteType, FoundType
          DEF weights_from_host, Runtime, TypeOK, DevicexTypeOK, Copies
<1>10. ASSUME NEW s \in Sessions, run(s) \/ RunFails(s)
       PROVE  TypeOK'
  <2>1. Program(s) /\ Runtime(s) /\ UNCHANGED host
    BY <1>10 DEF run, RunFails
  <2>2. PICK trained \in Copies : Execute(s, trained, Buffer(s))
    BY <2>1, ProgramType
  <2>3. synced' \in [Sessions -> BOOLEAN]
    BY <1>10 DEF run, RunFails, TypeOK
  <2> QED BY <2>1, <2>2, <2>3, ExecuteType, FoundType
          DEF Runtime, TypeOK, DevicexTypeOK, Copies
<1>11. ASSUME NEW s \in Sessions, NEW data \in SomeWeights,
              write_variables_data(s, data) \/ WriteFails(s, data)
       PROVE  TypeOK'
  <2>1. Written(s, data)
    BY <1>11 DEF write_variables_data, WriteFails
  <2>2. Overwritten(host[s], data) \in Copies
    BY FoundType, OverwrittenType
  <2>3. host' \in [Sessions -> Copies] /\ host'[s] \in Copies
    BY <2>1, <2>2 DEF Written, TypeOK, DevicexTypeOK, Copies
  <2>4. CASE Execute(s, host'[s], Buffer(s))
    BY <2>1, <2>3, <2>4, ExecuteType, FoundType
       DEF Written, TypeOK, DevicexTypeOK, Copies
  <2>5. CASE UNCHANGED << mostRecentlyLoaded, engine, weights,
                          d2hWeightBuffers >>
    BY <2>1, <2>3, <2>5 DEF Written, TypeOK, DevicexTypeOK, Copies
  <2> QED BY <1>11, <2>4, <2>5 DEF write_variables_data, WriteFails, device
<1>12. CASE UserAttach \/ UserDetach
  BY <1>12 DEF UserAttach, UserDetach, Detach, TypeOK, DevicexTypeOK
<1> QED
  BY <1>1, <1>2, <1>3, <1>4, <1>5, <1>6, <1>7, <1>8, <1>9, <1>10, <1>11,
     <1>12 DEF Next

\* The types hold initially and for ever.
LEMMA TypeInit ==
  ASSUME Init
  PROVE  TypeOK
<1>1. /\ synced \in [Sessions -> BOOLEAN]
      /\ wasAttached \in [Sessions -> Seq(BOOLEAN)]
      /\ contexts \in Seq(Sessions) /\ constructed \subseteq Sessions
  BY DEF Init
<1>2. DevicexTypeOK
  <2>1. host \in [Sessions -> Weights \cup {NoWeights}]
    BY DEF Init, DevicexInit
  <2>2. d2hWeightBuffers \in [Sessions -> Weights \cup {NoWeights}]
    BY DEF Init, DevicexInit
  <2> QED BY <2>1, <2>2 DEF Init, DevicexInit, DevicexTypeOK
<1>3. kept \in BOOLEAN
  BY DEF Init
<1> QED BY <1>1, <1>2, <1>3 DEF TypeOK

\* Type correctness of the sessions, whatever may happen (TypeOK).
THEOREM TypeCorrect == Spec => []TypeOK
BY TypeInit, TypeStep, PTL DEF Spec

-----------------------------------------------------------------------------
(***************************************************************************)
(* The cache.  A program runs with the weights that it finds, is given or  *)
(* computes.  Only the engine of its session is on the device then, so     *)
(* what matters is that session's mark and host copy.                      *)
(***************************************************************************)

\* After a program of s, the cache is correct if it is for s.
LEMMA ExecuteCache ==
  ASSUME NEW s \in Sessions, NEW memory, NEW buffer,
         Execute(s, memory, buffer),
         synced'[s] => host'[s] = memory
  PROVE  HostIsCache'
BY DEF Execute, HostIsCache

\* A detached device makes no claim.
LEMMA DetachedCache ==
  ASSUME attached' = FALSE, engine' = NoSession
  PROVE  HostIsCache' /\ DetachedIsEmpty'
BY DEF HostIsCache, DetachedIsEmpty

\* Neither does an attached device disturb DetachedIsEmpty.
LEMMA AttachedEmpty ==
  ASSUME attached' = TRUE
  PROVE  DetachedIsEmpty'
BY DEF DetachedIsEmpty

\* The step of the invariant, for calls that do not fail half-way: a run or a
\* transfer that raised, or a write that was rejected, leaves the mark as it
\* was.
LEMMA CacheStep ==
  ASSUME May \cap {"run", "write", "teardown"} = {}, CacheInv, [Next]_vars
  PROVE  CacheInv'
<1> USE DEF CacheInv
<1>0. TypeOK'
  BY TypeStep
<1>a. /\ synced \in [Sessions -> BOOLEAN]
      /\ host \in [Sessions -> Weights \cup {NoWeights}]
      /\ attached \in BOOLEAN
  BY DEF TypeOK, DevicexTypeOK
<1>1. CASE UNCHANGED devicex /\ UNCHANGED synced
  BY <1>0, <1>1 DEF devicex, HostIsCache, DetachedIsEmpty
<1>2. ASSUME NEW s \in Sessions, Construct(s)
      PROVE  CacheInv'
  <2>1. CASE attached
    <3>1. Execute(s, host[s], NoWeights) /\ host' = host /\ attached' = TRUE
      BY <1>2, <1>a, <2>1 DEF Construct
    <3> QED BY <1>0, <3>1, ExecuteCache, AttachedEmpty
  <2>2. CASE ~attached
    BY <1>0, <1>2, <2>2 DEF Construct, HostIsCache, DetachedIsEmpty
  <2> QED BY <2>1, <2>2
<1>3. ASSUME NEW s \in Sessions, EnterDetached(s)
      PROVE  CacheInv'
  <2>1. Execute(s, host[s], Buffer(s)) /\ host' = host /\ attached' = TRUE
    BY <1>3 DEF EnterDetached, weightsFromHost
  <2> QED BY <1>0, <2>1, ExecuteCache, AttachedEmpty
<1>4. ASSUME NEW s \in Sessions, EnterFails(s) \/ ExitOuter(s) \/ ExitRaised(s)
      PROVE  CacheInv'
  <2>1. Teardown
    BY <1>4 DEF EnterFails, ExitOuter, ExitRaised
  <2> QED BY <1>0, <2>1, TeardownType, DetachedCache
<1>5. ASSUME NEW s \in Sessions, ExitFails(s)
      PROVE  CacheInv'
  <2>1. UNCHANGED devicex /\ UNCHANGED synced
    BY <1>5 DEF ExitFails, device, devicex
  <2> QED BY <1>1, <2>1
<1>6. ASSUME NEW s \in Sessions, weights_to_host(s) \/ get_tensors_data(s)
      PROVE  CacheInv'
  <2>1. Runtime(s) /\ CopyWeightsToHost(s)
    BY <1>6 DEF weights_to_host, get_tensors_data
  <2>2. /\ Execute(s, Memory(s), Memory(s)) /\ attached' = TRUE
        /\ host'[s] = Memory(s)
    BY <1>a, <2>1 DEF Runtime, CopyWeightsToHost, weightsToHost
  <2> QED BY <1>0, <2>2, ExecuteCache, AttachedEmpty
<1>7. ASSUME NEW s \in Sessions, weights_from_host(s)
      PROVE  CacheInv'
  <2>1. Execute(s, host[s], Buffer(s)) /\ host' = host /\ attached' = TRUE
    BY <1>7, <1>a DEF weights_from_host, weightsFromHost, Runtime
  <2> QED BY <1>0, <2>1, ExecuteCache, AttachedEmpty
<1>8. ASSUME NEW s \in Sessions, run(s)
      PROVE  CacheInv'
  <2>1. Program(s) /\ attached' = TRUE /\ synced'[s] = FALSE
    BY <1>8, <1>a DEF run, Runtime
  <2>2. PICK trained \in Copies : Execute(s, trained, Buffer(s))
    BY <2>1, ProgramType
  <2> QED BY <1>0, <2>1, <2>2, ExecuteCache, AttachedEmpty
<1>9. ASSUME NEW s \in Sessions, NEW data \in SomeWeights,
             write_variables_data(s, data)
      PROVE  CacheInv'
  <2>1. UNCHANGED << attached, synced >>
    BY <1>9 DEF write_variables_data, Written
  <2>2. CASE attached /\ CanExecute(s)
    <3>1. Execute(s, host'[s], Buffer(s)) /\ attached' = TRUE
      BY <1>9, <1>a, <2>1, <2>2 DEF write_variables_data
    <3> QED BY <1>0, <3>1, ExecuteCache, AttachedEmpty
  <2>4. CASE attached /\ ~CanExecute(s)
    <3>1. /\ UNCHANGED << engine, weights >> /\ engine # s
          /\ host' = [host EXCEPT ![s] = Overwritten(@, data)]
      BY <1>9, <2>4 DEF write_variables_data, Written, CanExecute
    <3>2. HostIsCache'
      BY <1>a, <2>1, <3>1 DEF HostIsCache
    <3> QED BY <1>0, <1>a, <2>1, <2>4, <3>2, AttachedEmpty
  <2>3. CASE ~attached
    <3>1. attached' = FALSE /\ engine' = NoSession
      BY <1>9, <1>a, <2>1, <2>3 DEF write_variables_data, DetachedIsEmpty
    <3> QED BY <1>0, <3>1, DetachedCache
  <2> QED BY <2>2, <2>3, <2>4
<1>10. CASE UserAttach
  <2>1. engine' = NoSession /\ attached' = TRUE
    BY <1>10 DEF UserAttach, DetachedIsEmpty
  <2>2. HostIsCache'
    BY <2>1, NoSessionAssumption DEF HostIsCache
  <2> QED BY <1>0, <2>1, <2>2, AttachedEmpty
<1>11. CASE UserDetach
  BY <1>0, <1>11, DetachedCache DEF UserDetach, Detach
<1>12. \A s \in Sessions : ~RunFails(s)
  BY DEF RunFails
<1>13. \A s \in Sessions, data \in SomeWeights : ~WriteFails(s, data)
  BY DEF WriteFails
<1>14. ASSUME NEW s \in Sessions,
              EnterAttached(s) \/ EnterRefused(s) \/ ExitInner(s)
       PROVE  CacheInv'
  <2>1. UNCHANGED devicex /\ UNCHANGED synced
    BY <1>14 DEF EnterAttached, EnterRefused, ExitInner
  <2> QED BY <1>1, <2>1
<1>15. CASE UNCHANGED vars
  BY <1>1, <1>15 DEF vars, devicex
<1> QED
  BY <1>2, <1>3, <1>4, <1>5, <1>6, <1>7, <1>8, <1>9, <1>10, <1>11, <1>12,
     <1>13, <1>14, <1>15 DEF Next

\* The host weights are a correct cache (HostIsCache): whatever sessions share
\* the device and whoever attaches it, weights that are marked as in sync are
\* those on the device, unless a call failed half-way.
THEOREM CacheCorrect ==
  ASSUME May \cap {"run", "write", "teardown"} = {}
  PROVE  Spec => []HostIsCache
<1>1. Init => CacheInv
  BY TypeInit DEF Init, DevicexInit, CacheInv, DetachedIsEmpty, HostIsCache
<1>2. CacheInv /\ [Next]_vars => CacheInv'
  BY CacheStep
<1>3. CacheInv => HostIsCache
  BY DEF CacheInv
<1> QED BY <1>1, <1>2, <1>3, PTL DEF Spec

-----------------------------------------------------------------------------
(***************************************************************************)
(* The contexts, for any number of sessions, any nesting and whatever      *)
(* fails: the device is attached inside of contexts and else given back,   *)
(* and a session in whose context one is finds its engine and its weights  *)
(* on the device, both up to a closing transfer that raises.               *)
(***************************************************************************)

\* What the sequence operations of a stack do.
LEMMA StackFacts ==
  ASSUME NEW S, NEW q \in Seq(S), NEW x \in S
  PROVE  /\ Append(q, x) \in Seq(S) /\ Len(q) \in Nat
         /\ Len(Append(q, x)) = Len(q) + 1
         /\ Append(q, x)[Len(q) + 1] = x
         /\ \A i \in 1 .. Len(q) : Append(q, x)[i] = q[i]
         /\ q # << >> => /\ Len(Front(q)) = Len(q) - 1
                         /\ \A i \in 1 .. Len(q) - 1 : Front(q)[i] = q[i]
                         /\ Last(q) = q[Len(q)]
<1>1. /\ Append(q, x) \in Seq(S) /\ Len(q) \in Nat
      /\ Len(Append(q, x)) = Len(q) + 1
      /\ Append(q, x)[Len(q) + 1] = x
      /\ \A i \in 1 .. Len(q) : Append(q, x)[i] = q[i]
  OBVIOUS
<1>2. ASSUME q # << >>
      PROVE  /\ Len(Front(q)) = Len(q) - 1
             /\ \A i \in 1 .. Len(q) - 1 : Front(q)[i] = q[i]
             /\ Last(q) = q[Len(q)]
  <2>1. Len(q) \in Nat /\ Len(q) >= 1
    BY <1>2
  <2>2. Front(q) = SubSeq(q, 1, Len(q) - 1)
    BY DEF Front
  <2>3. \A i \in 1 .. Len(q) - 1 : q[i] \in S
    BY <2>1
  <2>4. Len(Front(q)) = Len(q) - 1
    <3>1. Len(SubSeq(q, 1, Len(q) - 1))
            = IF 1 <= Len(q) - 1 THEN (Len(q) - 1) - 1 + 1 ELSE 0
      BY <2>1, <2>3, SubSeqProperties
    <3>2. PICK m \in Nat : m = Len(q) /\ m >= 1
      BY <2>1
    <3>3. (IF 1 <= m - 1 THEN (m - 1) - 1 + 1 ELSE 0) = m - 1
      BY <3>2
    <3> QED BY <2>2, <3>1, <3>2, <3>3
  <2>5. \A i \in 1 .. Len(q) - 1 : Front(q)[i] = q[i]
    BY <2>1, <2>2, <2>3, SubSeqProperties
  <2> QED BY <2>4, <2>5 DEF Last
<1> QED BY <1>1, <1>2

\* Subtracting in another order.
LEMMA Shifted ==
  ASSUME NEW l \in Int, NEW n \in Int, NEW i \in Int
  PROVE  /\ (l + 1) - (n + 1) + i = l - n + i
         /\ (l - 1) - (n - 1) + i = l - n + i
         /\ l - n + n = l /\ l - n + (n + 1) = l + 1
  OBVIOUS

\* Without open contexts there is nothing for the stacks to match.
LEMMA NoContexts ==
  ASSUME contexts' = << >>
  PROVE  StackMatches'
BY DEF StackMatches

\* Entering a context.
LEMMA PushMatches ==
  ASSUME TypeOK, StackMatches, NEW s \in Sessions, NEW was \in BOOLEAN,
         contexts = << >> \/ InContext(s), was <=> contexts # << >> \/ kept,
         wasAttached' = Push(s, was), contexts' = Append(contexts, s),
         kept' = kept
  PROVE  StackMatches' /\ contexts' # << >>
<1> DEFINE n == Len(contexts)
           w == wasAttached[s]
<1>1. /\ contexts \in Seq(Sessions) /\ w \in Seq(BOOLEAN)
      /\ wasAttached \in [Sessions -> Seq(BOOLEAN)]
  BY DEF TypeOK
<1>2. /\ n \in Nat /\ Len(w) \in Nat /\ Len(contexts') = n + 1
      /\ contexts'[n + 1] = s /\ \A i \in 1 .. n : contexts'[i] = contexts[i]
  BY <1>1, StackFacts
<1>3. wasAttached'[s] = Append(w, was)
  BY <1>1 DEF Push
<1>4. /\ Len(wasAttached'[s]) = Len(w) + 1
      /\ wasAttached'[s][Len(w) + 1] = was
      /\ \A i \in 1 .. Len(w) : wasAttached'[s][i] = w[i]
  BY <1>1, <1>3, StackFacts
<1>5. \A i \in 1 .. n : contexts[i] = s
  <2>1. CASE contexts = << >>
    BY <2>1
  <2>2. CASE InContext(s)
    <3>1. PICK j \in 1 .. n : contexts[j] = s
      BY <1>1, <2>2 DEF InContext
    <3> QED
      BY <3>1 DEF StackMatches
  <2> QED BY <2>1, <2>2
<1>6. \A i \in 1 .. n : n <= Len(w) /\ (w[Len(w) - n + i] <=> i > 1 \/ kept)
  <2> TAKE i \in 1 .. n
  <2>1. LET was_i == wasAttached[contexts[i]] IN
        /\ n <= Len(was_i)
        /\ was_i[Len(was_i) - n + i] <=> i > 1 \/ kept
    BY Zenon DEF StackMatches
  <2>2. contexts[i] = s
    BY <1>5
  <2> QED BY <2>1, <2>2
<1>7. was <=> n + 1 > 1 \/ kept
  BY <1>1, <1>2
<1>8. ASSUME NEW i \in 1 .. n + 1
      PROVE  /\ contexts'[i] = contexts'[n + 1]
             /\ n + 1 <= Len(wasAttached'[contexts'[i]])
             /\ wasAttached'[contexts'[i]]
                  [Len(wasAttached'[contexts'[i]]) - (n + 1) + i]
                <=> i > 1 \/ kept'
  <2>1. contexts'[i] = s
    BY <1>2, <1>5
  <2>2. n + 1 <= Len(wasAttached'[s])
    <3>1. CASE n = 0
      BY <1>2, <1>4, <3>1
    <3>2. CASE n >= 1
      BY <1>2, <1>4, <1>6, <3>2
    <3> QED BY <1>2, <3>1, <3>2
  <2>3. wasAttached'[s][Len(wasAttached'[s]) - (n + 1) + i] <=> i > 1 \/ kept'
    <3>1. Len(wasAttached'[s]) - (n + 1) + i = Len(w) - n + i
      BY <1>2, <1>4, Shifted
    <3>2. CASE i = n + 1
      <4>1. Len(w) - n + (n + 1) = Len(w) + 1
        <5>1. Len(w) \in Int /\ n \in Int
          BY <1>2
        <5> HIDE DEF n, w
        <5> QED BY <5>1, Shifted
      <4> QED BY <1>4, <1>7, <3>1, <3>2, <4>1
    <3>3. CASE i \in 1 .. n
      <4>1. Len(w) - n + i \in 1 .. Len(w)
        BY <1>2, <1>6, <3>3
      <4> QED BY <1>4, <1>6, <3>1, <3>3, <4>1
    <3> QED BY <1>2, <3>2, <3>3
  <2>4. contexts'[n + 1] = s
    BY <1>2
  <2> QED BY <2>1, <2>2, <2>3, <2>4
<1> HIDE DEF w
<1>9. StackMatches'
  BY <1>2, <1>8, SMTT(30) DEF StackMatches
<1> QED BY <1>2, <1>9

\* Leaving one: its stack entry says whether it was the outermost.
LEMMA PopMatches ==
  ASSUME TypeOK, StackMatches, NEW s \in Sessions, Leave(s)
  PROVE  /\ kept' = kept \/ contexts' = << >> => StackMatches'
         /\ Last(wasAttached[s]) <=> contexts' # << >> \/ kept
         /\ InContext(s)
         /\ \A t \in Sessions : InContext(t)' => t = s
<1> DEFINE n == Len(contexts)
           w == wasAttached[s]
<1>1. /\ contexts \in Seq(Sessions) /\ w \in Seq(BOOLEAN)
      /\ wasAttached \in [Sessions -> Seq(BOOLEAN)]
      /\ contexts # << >> /\ contexts' = Front(contexts)
      /\ Last(contexts) = s
  BY DEF TypeOK, Leave
<1>2. /\ n \in Nat /\ n >= 1 /\ Len(w) \in Nat /\ Len(contexts') = n - 1
      /\ contexts[n] = s /\ \A i \in 1 .. n - 1 : contexts'[i] = contexts[i]
  BY <1>1, StackFacts
<1>3. n <= Len(w) /\ (w[Len(w)] <=> n > 1 \/ kept)
  <2>1. /\ n <= Len(w)
        /\ w[Len(w) - n + n] <=> n > 1 \/ kept
    BY <1>2 DEF StackMatches
  <2>2. Len(w) - n + n = Len(w)
    BY <1>2
  <2> QED BY <2>1, <2>2
<1>4. wasAttached'[s] = Front(w) /\ w # << >>
  BY <1>1, <1>2, <1>3 DEF Leave, Pop
<1>5. /\ Len(wasAttached'[s]) = Len(w) - 1 /\ Last(w) = w[Len(w)]
      /\ \A i \in 1 .. Len(w) - 1 : wasAttached'[s][i] = w[i]
  BY <1>1, <1>4, StackFacts
<1>6. \A i \in 1 .. n : contexts[i] = s
  BY <1>2 DEF StackMatches
<1>12. ASSUME NEW i \in 1 .. n
       PROVE  w[Len(w) - n + i] <=> i > 1 \/ kept
  <2>1. LET was_i == wasAttached[contexts[i]] IN
        was_i[Len(was_i) - n + i] <=> i > 1 \/ kept
    BY Zenon DEF StackMatches
  <2>2. contexts[i] = s
    BY <1>6
  <2> QED BY <2>1, <2>2
<1>7. ASSUME NEW i \in 1 .. n - 1
      PROVE  /\ contexts'[i] = contexts'[n - 1]
             /\ n - 1 <= Len(wasAttached'[contexts'[i]])
             /\ wasAttached'[contexts'[i]]
                  [Len(wasAttached'[contexts'[i]]) - (n - 1) + i]
                <=> i > 1 \/ kept
  <2>1. contexts'[i] = s /\ contexts'[n - 1] = s
    BY <1>2, <1>6, SMTT(30)
  <2>2. /\ Len(wasAttached'[s]) - (n - 1) + i = Len(w) - n + i
        /\ Len(w) - n + i \in 1 .. Len(w) - 1
    BY <1>2, <1>3, <1>5
  <2>3. w[Len(w) - n + i] <=> i > 1 \/ kept
    BY <1>2, <1>12
  <2>4. n - 1 <= Len(wasAttached'[s])
    BY <1>2, <1>3, <1>5
  <2>5. wasAttached'[s][Len(wasAttached'[s]) - (n - 1) + i] <=> i > 1 \/ kept
    BY <1>5, <2>2, <2>3
  <2> QED BY <2>1, <2>4, <2>5
<1>8. contexts' # << >> <=> n > 1
  <2>1. contexts' \in Seq(Sessions)
    BY <1>1, FrontType
  <2> QED BY <1>2, <2>1
<1>9. InContext(s)
  BY <1>1, <1>2 DEF InContext
<1>10. \A t \in Sessions : InContext(t)' => t = s
  <2>1. contexts' \in Seq(Sessions)
    BY <1>1, FrontType
  <2> QED BY <1>2, <1>6, <2>1 DEF InContext
<1> HIDE DEF w
<1>11. CASE kept' = kept
  <2>1. StackMatches'
    BY <1>2, <1>7, <1>11 DEF StackMatches
  <2> QED BY <1>3, <1>5, <1>8, <1>9, <1>10, <2>1 DEF w
<1>13. CASE contexts' = << >>
  BY <1>3, <1>5, <1>8, <1>9, <1>10, <1>13, NoContexts DEF w
<1> QED BY <1>3, <1>5, <1>8, <1>9, <1>10, <1>11, <1>13 DEF w

\* All open contexts are of one session.
OneOwner ==
  \A s \in Sessions, t \in Sessions : InContext(s) /\ InContext(t) => s = t

LEMMA OwnerIsOne == TypeOK /\ StackMatches => OneOwner
<1> SUFFICES ASSUME TypeOK, StackMatches,
                    NEW s \in Sessions, NEW t \in Sessions,
                    InContext(s), InContext(t)
             PROVE  s = t
  BY DEF OneOwner
<1>1. contexts \in Seq(Sessions)
  BY DEF TypeOK
<1>2. PICK i \in 1 .. Len(contexts) : contexts[i] = s
  BY <1>1 DEF InContext
<1>3. PICK j \in 1 .. Len(contexts) : contexts[j] = t
  BY <1>1 DEF InContext
<1> QED BY <1>2, <1>3 DEF StackMatches

\* There is a context just if some session is in it.
LEMMA EmptyContexts ==
  ASSUME TypeOK, NEW s \in Sessions, InContext(s)
  PROVE  contexts # << >>
<1>1. contexts \in Seq(Sessions)
  BY DEF TypeOK
<1> QED BY <1>1 DEF InContext

\* Weights that are written over remain weights.
LEMMA OverwrittenWeights ==
  ASSUME NEW copy \in Weights, NEW data \in SomeWeights
  PROVE  Overwritten(copy, data) # NoWeights
<1>1. PICK W \in SUBSET Vars : data \in [W -> Values]
  BY DEF SomeWeights
<1>2. CASE DOMAIN data = Vars
  BY <1>1, <1>2, NoWeightsAssumption DEF Overwritten, Weights
<1>3. CASE DOMAIN data # Vars
  <2>1. copy # NoWeights /\ copy \in [Vars -> Values]
    BY NoWeightsAssumption DEF Weights
  <2>2. Overwritten(copy, data)
          = [v \in Vars |-> IF v \in DOMAIN data THEN data[v] ELSE copy[v]]
    BY <1>3, <2>1 DEF Overwritten
  <2>3. \A v \in Vars :
          (IF v \in DOMAIN data THEN data[v] ELSE copy[v]) \in Values
    BY <1>1, <2>1
  <2>4. Overwritten(copy, data) \in Weights
    BY <2>2, <2>3 DEF Weights
  <2> QED BY <2>4, NoWeightsAssumption
<1> QED BY <1>2, <1>3

LEMMA EnteredContext ==
  ASSUME TypeOK, NEW s \in Sessions, contexts' = Append(contexts, s)
  PROVE  InContext(s)'
<1>1. contexts \in Seq(Sessions)
  BY DEF TypeOK
<1>2. /\ Len(contexts) \in Nat /\ Len(contexts') = Len(contexts) + 1
      /\ contexts'[Len(contexts) + 1] = s
  BY <1>1, StackFacts
<1>3. Len(contexts) + 1 \in DOMAIN contexts'
  BY <1>1, <1>2
<1> QED BY <1>2, <1>3 DEF InContext

\* A program of the session in whose context we are leaves it ready.
LEMMA ExecuteReady ==
  ASSUME TypeOK', StackMatches', NEW s \in Sessions, InContext(s)',
         NEW memory, NEW buffer, Execute(s, memory, buffer),
         memory # NoWeights
  PROVE  ContextIsReady'
<1>1. OneOwner'
  BY OwnerIsOne, PTL
<1>2. mostRecentlyLoaded' = s /\ engine' = s /\ weights' # NoWeights
  BY DEF Execute
<1> QED BY <1>1, <1>2 DEF OneOwner, ContextIsReady, isEngineLoaded

\* Unless sessions are mixed, a call made while the device is attached is made
\* in the session's own context, or the device was kept.
LEMMA CallInContext ==
  ASSUME GivenInv, ~kept, "share" \notin May, NEW s \in Sessions, Usable(s),
         attached
  PROVE  InContext(s)
BY DEF GivenInv, GivenBack, Usable

\* Calls that neither enter nor leave a context.
LEMMA SameContexts ==
  ASSUME GivenInv, UNCHANGED << attached, wasAttached, contexts, kept >>
  PROVE  /\ StackMatches' /\ GivenBack'
         /\ \A s \in Sessions : InContext(s)' <=> InContext(s)
BY DEF GivenInv, StackMatches, GivenBack, InContext

\* A detached device makes no claim about contexts.
LEMMA DetachedReady ==
  ASSUME attached' = FALSE
  PROVE  ContextIsReady'
BY DEF ContextIsReady

-----------------------------------------------------------------------------
\* The device is given back, if the user leaves it to the contexts, and a
\* session is not used in another one's context.  One step per way in which a
\* call may change the contexts.
LEMMA GivenStep ==
  ASSUME May \cap {"share", "device"} = {}, GivenInv, [Next]_vars
  PROVE  GivenInv' /\ (kept => kept')
<1> DEFINE Goal == StackMatches' /\ GivenBack' /\ (kept => kept')
<1>0. TypeOK' /\ TypeOK /\ StackMatches
  BY TypeStep DEF GivenInv
<1>a. attached <=> contexts # << >> \/ kept
  BY DEF GivenInv, GivenBack
<1>b. attached \in BOOLEAN /\ kept \in BOOLEAN
  BY <1>0 DEF TypeOK, DevicexTypeOK
<1>1. ASSUME UNCHANGED << attached, wasAttached, contexts, kept >>
      PROVE  Goal
  BY <1>1, SameContexts
<1>2. ASSUME NEW s \in Sessions, EnterAttached(s) \/ EnterDetached(s)
      PROVE  Goal
  <2>1. /\ Usable(s) /\ attached' = TRUE /\ kept' = kept
        /\ wasAttached' = Push(s, attached)
        /\ contexts' = Append(contexts, s)
    BY <1>2, <1>b DEF EnterAttached, EnterDetached, CanEnter, devicex
  <2>2. contexts = << >> \/ InContext(s)
    BY <2>1 DEF Usable
  <2>3. StackMatches' /\ contexts' # << >>
    BY <1>0, <1>a, <1>b, <2>1, <2>2, PushMatches
  <2> QED BY <2>1, <2>3 DEF GivenBack
<1>3. ASSUME NEW s \in Sessions, EnterRefused(s) \/ EnterFails(s)
      PROVE  Goal
  <2>1. ~attached /\ attached' = FALSE /\ contexts' = contexts
    BY <1>3, <1>b, TeardownType DEF EnterRefused, EnterFails, devicex
  <2>2. contexts' = << >> /\ kept = FALSE
    BY <1>a, <1>b, <2>1
  <2>3. kept' = FALSE
    BY <1>3, <2>2, TeardownType DEF EnterRefused, EnterFails
  <2> QED BY <2>1, <2>2, <2>3, NoContexts DEF GivenBack
<1>4. ASSUME NEW s \in Sessions, ExitInner(s)
      PROVE  Goal
  <2>1. Leave(s) /\ Last(wasAttached[s]) /\ kept' = kept /\ attached' = attached
    BY <1>4 DEF ExitInner, devicex
  <2>2. StackMatches' /\ (contexts' # << >> \/ kept)
    BY <1>0, <2>1, PopMatches
  <2>3. attached
    BY <1>a, <2>1 DEF Leave
  <2> QED BY <2>1, <2>2, <2>3 DEF GivenBack
<1>5. ASSUME NEW s \in Sessions, ExitOuter(s) \/ ExitRaised(s) \/ ExitFails(s)
      PROVE  Goal
  <2>1. Leave(s) /\ ~Last(wasAttached[s])
    BY <1>5 DEF ExitOuter, ExitRaised, ExitFails
  <2>2. contexts' = << >> /\ ~kept
    BY <1>0, <2>1, PopMatches
  <2>3. kept' <=> attached'
    <3>1. CASE ExitFails(s)
      BY <3>1 DEF ExitFails, devicex
    <3>2. CASE ExitOuter(s) \/ ExitRaised(s)
      BY <3>2, TeardownType DEF ExitOuter, ExitRaised
    <3> QED BY <1>5, <3>1, <3>2
  <2> QED BY <2>2, <2>3, NoContexts DEF GivenBack
<1>6. ASSUME NEW s \in Sessions,
             \/ Construct(s) \/ weights_to_host(s) \/ weights_from_host(s)
             \/ get_tensors_data(s) \/ run(s) \/ RunFails(s)
      PROVE  Goal
  BY <1>1, <1>6 DEF Construct, weights_to_host, weights_from_host,
     get_tensors_data, run, RunFails, Runtime
<1>7. ASSUME NEW s \in Sessions, NEW data \in SomeWeights,
             write_variables_data(s, data) \/ WriteFails(s, data)
      PROVE  Goal
  BY <1>1, <1>7 DEF write_variables_data, WriteFails, Written
<1>8. ~UserAttach /\ ~UserDetach
  BY DEF UserAttach, UserDetach
<1>9. ASSUME UNCHANGED vars
      PROVE  Goal
  BY <1>1, <1>9 DEF vars
<1>10. Goal
  BY <1>2, <1>3, <1>4, <1>5, <1>6, <1>7, <1>8, <1>9 DEF Next
<1> QED BY <1>0, <1>10 DEF GivenInv

\* The device is given back (GivenBack): for any number of sessions, however
\* contexts nest and whatever fails, it is attached inside the contexts, and
\* outside of them only once a closing transfer has raised.
THEOREM DeviceIsGivenBack ==
  ASSUME May \cap {"share", "device"} = {}
  PROVE  Spec => []GivenBack
<1>1. Init => GivenInv
  <2> SUFFICES ASSUME Init PROVE GivenInv
    OBVIOUS
  <2>1. contexts = << >> /\ attached = FALSE /\ kept = FALSE
    BY DEF Init
  <2> QED BY <2>1, TypeInit DEF GivenInv, StackMatches, GivenBack
<1>2. GivenInv /\ [Next]_vars => GivenInv'
  BY GivenStep
<1>3. GivenInv => GivenBack
  BY DEF GivenInv
<1> QED BY <1>1, <1>2, <1>3, PTL DEF Spec

-----------------------------------------------------------------------------
\* What is known in a context of s before the device was kept.
LEMMA InsideContext ==
  ASSUME ContextInv, ~kept, NEW s \in Sessions, InContext(s)
  PROVE  /\ attached /\ contexts # << >>
         /\ isEngineLoaded(s) /\ engine = s /\ CanExecute(s)
         /\ Memory(s) = weights /\ Memory(s) \in Weights
         /\ Memory(s) # NoWeights
<1>0. TypeOK /\ GivenBack /\ ContextIsReady
  BY DEF ContextInv, GivenInv
<1>1. contexts # << >> /\ attached
  BY <1>0, EmptyContexts DEF GivenBack
<1>2. isEngineLoaded(s) /\ engine = s /\ weights # NoWeights
  BY <1>0, <1>1 DEF ContextIsReady
<1>3. Memory(s) = weights
  BY <1>2 DEF Memory
<1>4. weights \in Weights
  BY <1>0, <1>2 DEF TypeOK, DevicexTypeOK
<1> QED BY <1>1, <1>2, <1>3, <1>4 DEF CanExecute

\* What a step leaves in the open context.
ReadyStep == ContextIsReady' /\ HostSurvives'

LEMMA ContextStep ==
  ASSUME May \cap {"share", "device"} = {}, ContextInv, ~kept, [Next]_vars,
         GivenInv', ~kept'
  PROVE  ReadyStep
<1>0. /\ TypeOK' /\ TypeOK /\ StackMatches /\ StackMatches'
      /\ GivenInv /\ GivenBack /\ ContextIsReady
  BY DEF ContextInv, GivenInv
<1>a. /\ \A s \in Sessions : host[s] \in Weights
      /\ host \in [Sessions -> Weights \cup {NoWeights}]
      /\ attached \in BOOLEAN
  BY DEF ContextInv, GivenInv, HostSurvives, TypeOK, DevicexTypeOK
<1>b. \A s \in Sessions : host[s] # NoWeights
  BY DEF ContextInv, HostSurvives
<1>c. ASSUME host' = host
      PROVE  HostSurvives'
  BY <1>b, <1>c DEF HostSurvives
<1>1. ASSUME NEW s \in Sessions, Construct(s)
      PROVE  ReadyStep
  <2>1. /\ UNCHANGED << attached, host, wasAttached, contexts, kept >>
        /\ Usable(s)
    BY <1>1 DEF Construct
  <2>2. \A t \in Sessions : InContext(t)' <=> InContext(t)
    BY <1>0, <2>1, SameContexts
  <2>3. CASE attached
    <3>1. Execute(s, host[s], NoWeights)
      BY <1>1, <2>3 DEF Construct
    <3>2. InContext(s)'
      BY <1>0, <2>1, <2>2, <2>3, CallInContext
    <3> QED BY <1>0, <1>b, <1>c, <2>1, <3>1, <3>2, ExecuteReady DEF ReadyStep
  <2>4. CASE ~attached
    BY <1>c, <2>1, <2>4 DEF ContextIsReady, ReadyStep
  <2> QED BY <2>3, <2>4
<1>2. ASSUME NEW s \in Sessions, EnterAttached(s)
      PROVE  ReadyStep
  <2>1. /\ attached /\ Usable(s) /\ UNCHANGED devicex
        /\ contexts' = Append(contexts, s)
    BY <1>2 DEF EnterAttached, CanEnter
  <2>2. InContext(s)
    BY <1>0, <2>1, CallInContext
  <2>4. InContext(s)'
    BY <1>0, <2>1, EnteredContext
  <2>5. OneOwner'
    BY <1>0, OwnerIsOne, PTL
  <2>6. ContextIsReady'
    BY <2>1, <2>2, <2>4, <2>5, InsideContext
       DEF OneOwner, ContextIsReady, isEngineLoaded, devicex
  <2> QED BY <1>c, <2>1, <2>6 DEF devicex, ReadyStep
<1>3. ASSUME NEW s \in Sessions, EnterDetached(s)
      PROVE  ReadyStep
  <2>1. /\ host' = host /\ Execute(s, host[s], Buffer(s))
        /\ contexts' = Append(contexts, s)
    BY <1>3 DEF EnterDetached, weightsFromHost
  <2>2. InContext(s)'
    BY <1>0, <2>1, EnteredContext
  <2> QED BY <1>0, <1>b, <1>c, <2>1, <2>2, ExecuteReady DEF ReadyStep
<1>4. ASSUME NEW s \in Sessions, EnterRefused(s) \/ EnterFails(s)
      PROVE  ReadyStep
  <2>1. attached' = FALSE /\ host' = host
    BY <1>4, <1>a, TeardownType
       DEF EnterRefused, EnterFails, devicex
  <2> QED BY <1>c, <2>1, DetachedReady DEF ReadyStep
<1>5. ASSUME NEW s \in Sessions, ExitInner(s)
      PROVE  ReadyStep
  <2>1. Leave(s) /\ UNCHANGED devicex
    BY <1>5 DEF ExitInner
  <2>2. InContext(s) /\ \A t \in Sessions : InContext(t)' => t = s
    BY <1>0, <2>1, PopMatches
  <2>3. ContextIsReady'
    BY <2>1, <2>2, InsideContext DEF ContextIsReady, isEngineLoaded, devicex
  <2> QED BY <1>c, <2>1, <2>3 DEF devicex, ReadyStep
<1>6. ASSUME NEW s \in Sessions, ExitOuter(s) \/ ExitRaised(s)
      PROVE  ReadyStep
  <2>1. Leave(s) /\ Teardown
    BY <1>6 DEF ExitOuter, ExitRaised
  <2>2. InContext(s) /\ attached' = FALSE
    BY <1>0, <2>1, PopMatches, TeardownType
  <2>3. Memory(s) # NoWeights
    BY <2>2, InsideContext
  <2>4. host' = [host EXCEPT ![s] = Memory(s)] \/ host' = host
    BY <1>6 DEF ExitOuter, ExitRaised
  <2>5. HostSurvives'
    BY <1>a, <1>b, <2>3, <2>4 DEF HostSurvives
  <2> QED BY <2>2, <2>5, DetachedReady DEF ReadyStep
<1>7. ASSUME NEW s \in Sessions, ExitFails(s)
      PROVE  FALSE
  <2>1. Leave(s) /\ kept' = attached
    BY <1>7 DEF ExitFails
  <2>2. InContext(s)
    BY <1>0, <2>1, PopMatches
  <2> QED BY <2>1, <2>2, InsideContext
<1>8. ASSUME NEW s \in Sessions, Runtime(s)
      PROVE  InContext(s)
  BY <1>0, <1>8, CallInContext DEF Runtime
<1>9. ASSUME NEW s \in Sessions, Runtime(s),
             NEW memory, memory # NoWeights,
             NEW buffer, Execute(s, memory, buffer),
             HostSurvives'
      PROVE  ReadyStep
  <2>1. InContext(s)'
    BY <1>0, <1>8, <1>9, SameContexts DEF Runtime
  <2> QED BY <1>0, <1>9, <2>1, ExecuteReady DEF ReadyStep
<1>10. ASSUME NEW s \in Sessions, weights_to_host(s) \/ get_tensors_data(s)
       PROVE  ReadyStep
  <2>1. /\ Runtime(s) /\ Execute(s, Memory(s), Memory(s))
        /\ host' = [host EXCEPT ![s] = Memory(s)]
    BY <1>10 DEF weights_to_host, get_tensors_data, CopyWeightsToHost,
       weightsToHost
  <2>2. Memory(s) # NoWeights
    BY <1>8, <2>1, InsideContext
  <2>3. HostSurvives'
    BY <1>a, <1>b, <2>1, <2>2 DEF HostSurvives
  <2> QED BY <1>9, <2>1, <2>2, <2>3
<1>11. ASSUME NEW s \in Sessions, weights_from_host(s)
       PROVE  ReadyStep
  <2>1. Runtime(s) /\ Execute(s, host[s], Buffer(s)) /\ host' = host
    BY <1>11 DEF weights_from_host, weightsFromHost
  <2> QED BY <1>9, <1>b, <1>c, <2>1
<1>12. ASSUME NEW s \in Sessions, run(s) \/ RunFails(s)
       PROVE  ReadyStep
  <2>1. Runtime(s) /\ Program(s) /\ host' = host
    BY <1>12 DEF run, RunFails
  <2>2. Memory(s) # NoWeights
    BY <1>8, <2>1, InsideContext
  <2>3. PICK trained \in Weights : Execute(s, trained, Buffer(s))
    BY <2>1, <2>2 DEF Program
  <2> QED BY <1>9, <1>c, <2>1, <2>3, NoWeightsAssumption
<1>13. ASSUME NEW s \in Sessions, NEW data \in SomeWeights,
              write_variables_data(s, data) \/ WriteFails(s, data)
       PROVE  ReadyStep
  <2>1. /\ Usable(s)
        /\ UNCHANGED << attached, wasAttached, contexts, kept >>
        /\ host' = [host EXCEPT ![s] = Overwritten(host[s], data)]
    BY <1>13 DEF write_variables_data, WriteFails, Written
  <2>2. host'[s] # NoWeights /\ HostSurvives'
    BY <1>a, <1>b, <2>1, OverwrittenWeights DEF HostSurvives
  <2>3. \A t \in Sessions : InContext(t)' <=> InContext(t)
    BY <1>0, <2>1, SameContexts
  <2>4. CASE attached /\ Execute(s, host'[s], Buffer(s))
    <3>1. InContext(s)'
      BY <1>0, <2>1, <2>3, <2>4, CallInContext
    <3> QED BY <1>0, <2>2, <2>4, <3>1, ExecuteReady DEF ReadyStep
  <2>5. CASE UNCHANGED << mostRecentlyLoaded, engine, weights >>
    BY <1>0, <2>1, <2>2, <2>3, <2>5 
       DEF ContextIsReady, isEngineLoaded, ReadyStep
  <2> QED BY <1>13, <2>4, <2>5 DEF write_variables_data, WriteFails, device
<1>14. ~UserAttach /\ ~UserDetach
  BY DEF UserAttach, UserDetach
<1>15. CASE UNCHANGED vars
  <2>1. UNCHANGED << attached, wasAttached, contexts, kept >>
    BY <1>15 DEF vars
  <2> QED BY <1>0, <1>15, <1>c, <2>1, SameContexts
          DEF vars, ContextIsReady, isEngineLoaded, ReadyStep
<1> QED
  BY <1>1, <1>2, <1>3, <1>4, <1>5, <1>6, <1>7, <1>10, <1>11, <1>12, <1>13,
     <1>14, <1>15 DEF Next

\* The inductive invariant of the contexts.
THEOREM ContextsCorrect ==
  ASSUME May \cap {"share", "device"} = {}
  PROVE  Spec => []ContextInv
<1>1. Init => ContextInv
  <2> SUFFICES ASSUME Init PROVE ContextInv
    OBVIOUS
  <2>1. contexts = << >> /\ attached = FALSE /\ kept = FALSE
    BY DEF Init
  <2>2. HostSurvives
    BY NoWeightsAssumption DEF Init, DevicexInit, HostSurvives
  <2> QED BY <2>1, <2>2, TypeInit
          DEF ContextInv, GivenInv, StackMatches, GivenBack, ContextIsReady
<1>2. ASSUME ContextInv, [Next]_vars
      PROVE  ContextInv'
  <2>1. GivenInv' /\ (kept => kept')
    BY <1>2, GivenStep DEF ContextInv
  <2>2. CASE kept'
    BY <2>1, <2>2 DEF ContextInv
  <2>3. CASE ~kept'
    BY <1>2, <2>1, <2>3, ContextStep DEF ContextInv, ReadyStep
  <2> QED BY <2>2, <2>3
<1> QED BY <1>1, <1>2, PTL DEF Spec

\* In a context, the session's engine and weights are on the device
\* (ContextIsReady), until a closing transfer has raised.
THEOREM ContextsAreReady ==
  ASSUME May \cap {"share", "device"} = {}
  PROVE  Spec => [](kept \/ ContextIsReady)
<1>1. ContextInv => kept \/ ContextIsReady
  BY DEF ContextInv
<1> QED BY <1>1, ContextsCorrect, PTL

\* No copy back to the host replaces the weights by what was never written
\* (HostSurvives), until a closing transfer has raised.
THEOREM HostCopySurvives ==
  ASSUME May \cap {"share", "device"} = {}
  PROVE  Spec => [](kept \/ HostSurvives)
<1>1. ContextInv => kept \/ HostSurvives
  BY DEF ContextInv
<1> QED BY <1>1, ContextsCorrect, PTL

\* Leaving the outermost context saves the weights of an engine that is loaded.
LEMMA ExitOfLoaded ==
  ASSUME TypeOK, NEW s \in Sessions, ExitOuter(s), isEngineLoaded(s)
  PROVE  host'[s] = weights
<1>1. host \in [Sessions -> Copies]
  BY DEF TypeOK, DevicexTypeOK, Copies
<1> QED BY <1>1 DEF ExitOuter, Memory

\* A clean exit that detaches the device loses no update (ExitSaves), however
\* contexts nest and whatever attach, set-up, body, run, write or closing
\* transfer failed before.
THEOREM ExitsSave ==
  ASSUME May \cap {"share", "device"} = {}
  PROVE  Spec => ExitSaves
<1>1. ASSUME ContextInv, NEW s \in Sessions, ExitOuter(s)
      PROVE  host'[s] = weights
  <2>1. /\ TypeOK /\ StackMatches /\ Leave(s)
        /\ ~Last(wasAttached[s])
    BY <1>1 DEF ContextInv, GivenInv, ExitOuter
  <2>2. InContext(s) /\ ~kept
    BY <2>1, PopMatches
  <2>3. isEngineLoaded(s)
    BY <1>1, <2>2, InsideContext
  <2> QED BY <1>1, <2>1, <2>3, ExitOfLoaded
<1>2. ContextInv /\ [Next]_vars =>
        [attached /\ ~attached' =>
           \A s \in Sessions : ExitOuter(s) => host'[s] = weights]_vars
  BY <1>1
<1> QED BY <1>2, ContextsCorrect, PTL DEF Spec, ExitSaves

-----------------------------------------------------------------------------
(***************************************************************************)
(* The belief about the engine.  Whoever detaches the device in __enter__  *)
(* or __exit__ also withdraws the claim on it.                             *)
(***************************************************************************)
DetachedUnclaimed == ~attached => mostRecentlyLoaded = NoSession

ClaimInv == TypeOK /\ DetachedUnclaimed /\ EngineIsWhereClaimed

LEMMA ExecuteClaims ==
  ASSUME NEW s \in Sessions, NEW memory, NEW buffer,
         Execute(s, memory, buffer), attached'
  PROVE  DetachedUnclaimed' /\ EngineIsWhereClaimed'
BY DEF Execute, DetachedUnclaimed, EngineIsWhereClaimed, CanExecute,
       isEngineLoaded

LEMMA UnclaimedIsTrue ==
  ASSUME mostRecentlyLoaded' = NoSession
  PROVE  DetachedUnclaimed' /\ EngineIsWhereClaimed'
BY NoSessionAssumption DEF DetachedUnclaimed, EngineIsWhereClaimed, CanExecute,
       isEngineLoaded

\* The weights that a program of s may leave: those of the host, those it found,
\* or what it computed from them.
MayBeLeft(s, memory) ==
  \/ memory = host'[s]
  \/ attached /\ memory = Memory(s)
  \/ Memory(s) # NoWeights /\ memory \in Weights

\* What every call but the user's own attach and detach does to the device.
LEMMA DeviceSteps ==
  ASSUME TypeOK, "device" \notin May, [Next]_vars
  PROVE  \/ UNCHANGED device
         \/ mostRecentlyLoaded' = NoSession /\ ~attached'
         \/ /\ attached'
            /\ \E s \in Sessions : \E memory, buffer \in Copies :
                 /\ Execute(s, memory, buffer)
                 /\ MayBeLeft(s, memory)
<1> DEFINE Goal ==
      \/ UNCHANGED device
      \/ mostRecentlyLoaded' = NoSession /\ ~attached'
      \/ /\ attached'
         /\ \E s \in Sessions : \E memory, buffer \in Copies :
              /\ Execute(s, memory, buffer)
              /\ MayBeLeft(s, memory)
<1>a. /\ host \in [Sessions -> Copies] /\ attached \in BOOLEAN
      /\ NoWeights \in Copies
  BY DEF TypeOK, DevicexTypeOK, Copies
<1>b. ASSUME NEW s \in Sessions, NEW memory \in Copies, NEW buffer \in Copies,
             Execute(s, memory, buffer), attached',
             MayBeLeft(s, memory)
      PROVE  Goal
  BY <1>b
<1>1. ASSUME NEW s \in Sessions, Construct(s)
      PROVE  Goal
  <2>1. CASE attached
    <3>1. Execute(s, host[s], NoWeights) /\ attached' /\ host' = host
      BY <1>1, <2>1 DEF Construct
    <3> QED BY <1>a, <1>b, <3>1 DEF MayBeLeft
  <2>2. CASE ~attached
    BY <1>1, <2>2 DEF Construct
  <2> QED BY <2>1, <2>2
<1>2. ASSUME NEW s \in Sessions, EnterDetached(s)
      PROVE  Goal
  <2>1. Execute(s, host[s], Buffer(s)) /\ attached' /\ host' = host
    BY <1>2 DEF EnterDetached, weightsFromHost
  <2> QED BY <1>b, <2>1, FoundType DEF MayBeLeft
<1>3. ASSUME NEW s \in Sessions, EnterFails(s) \/ ExitOuter(s) \/ ExitRaised(s)
      PROVE  Goal
  BY <1>3, TeardownType DEF EnterFails, ExitOuter, ExitRaised
<1>4. ASSUME NEW s \in Sessions,
             EnterAttached(s) \/ EnterRefused(s) \/ ExitInner(s)
      PROVE  Goal
  BY <1>4 DEF EnterAttached, EnterRefused, ExitInner, devicex, device
<1>5. ASSUME NEW s \in Sessions, ExitFails(s)
      PROVE  Goal
  <2>1. CASE ProgramFails(s) /\ attached /\ UNCHANGED attached
    <3>1. Execute(s, Memory(s), Buffer(s)) /\ attached'
      BY <2>1 DEF ProgramFails
    <3> QED BY <1>b, <2>1, <3>1, FoundType DEF MayBeLeft
  <2> QED BY <1>5, <2>1 DEF ExitFails, device, devicex
<1>6. ASSUME NEW s \in Sessions, Runtime(s),
             weightsToHost(s) \/ (weightsFromHost(s) /\ host' = host)
      PROVE  Goal
  <2>1. attached /\ attached'
    BY <1>6 DEF Runtime
  <2>2. CASE weightsToHost(s)
    BY <1>b, <2>1, <2>2, FoundType DEF weightsToHost, MayBeLeft
  <2>3. CASE weightsFromHost(s) /\ host' = host
    BY <1>b, <2>1, <2>3, FoundType DEF weightsFromHost, MayBeLeft
  <2> QED BY <1>6, <2>2, <2>3
<1>7. ASSUME NEW s \in Sessions, run(s) \/ RunFails(s)
      PROVE  Goal
  <2>1. attached /\ attached' /\ Program(s)
    BY <1>7 DEF run, RunFails, Runtime
  <2>2. PICK trained \in
               (IF Memory(s) = NoWeights THEN {NoWeights} ELSE Weights) :
          Execute(s, trained, Buffer(s))
    BY <2>1 DEF Program
  <2>3. trained \in Copies /\ Buffer(s) \in Copies
    BY FoundType DEF Copies
  <2> QED BY <1>b, <2>1, <2>2, <2>3 DEF MayBeLeft
<1>8. ASSUME NEW s \in Sessions, NEW data \in SomeWeights,
             write_variables_data(s, data) \/ WriteFails(s, data)
      PROVE  Goal
  <2>1. UNCHANGED attached /\ host'[s] = Overwritten(host[s], data)
    BY <1>8, <1>a DEF write_variables_data, WriteFails, Written
  <2>2. CASE attached /\ Execute(s, host'[s], Buffer(s))
    BY <1>b, <2>1, <2>2, FoundType, OverwrittenType DEF MayBeLeft
  <2> QED BY <1>8, <2>1, <2>2 DEF write_variables_data, WriteFails, device
<1>9. ~UserAttach /\ ~UserDetach
  BY DEF UserAttach, UserDetach
<1>10. CASE UNCHANGED vars
  BY <1>10 DEF vars, device
<1>11. ASSUME NEW s \in Sessions, weights_to_host(s) \/ get_tensors_data(s)
              \/ weights_from_host(s)
       PROVE  Goal
  <2>1. Runtime(s)
    BY <1>11 DEF weights_to_host, get_tensors_data, weights_from_host
  <2>2. weightsToHost(s) \/ (weightsFromHost(s) /\ host' = host)
    BY <1>11 DEF weights_to_host, get_tensors_data, weights_from_host,
       CopyWeightsToHost
  <2> QED BY <1>6, <2>1, <2>2
<1> QED
  BY <1>1, <1>2, <1>3, <1>4, <1>5, <1>7, <1>8, <1>9, <1>10, <1>11 DEF Next

\* The load is skipped only if the session's engine is on the device
\* (EngineIsWhereClaimed), for any number of sessions, used in any order and
\* inside each other's contexts, and whatever call fails, if the device is
\* attached and detached by the contexts only.
THEOREM ClaimsAreTrue ==
  ASSUME "device" \notin May
  PROVE  Spec => []EngineIsWhereClaimed
<1>1. Init => ClaimInv
  BY TypeInit, NoSessionAssumption
  DEF Init, DevicexInit, ClaimInv, DetachedUnclaimed, EngineIsWhereClaimed,
      CanExecute, isEngineLoaded
<1>2. ASSUME ClaimInv, [Next]_vars
      PROVE  ClaimInv'
  <2>1. TypeOK /\ TypeOK'
    BY <1>2, TypeStep DEF ClaimInv
  <2>2. CASE UNCHANGED device
    BY <1>2, <2>1, <2>2
    DEF device, ClaimInv, DetachedUnclaimed, EngineIsWhereClaimed, CanExecute,
        isEngineLoaded
  <2>3. CASE mostRecentlyLoaded' = NoSession
    BY <2>1, <2>3, UnclaimedIsTrue DEF ClaimInv
  <2>4. ASSUME attached', NEW s \in Sessions,
               NEW memory \in Copies, NEW buffer \in Copies,
               Execute(s, memory, buffer)
        PROVE  ClaimInv'
    BY <2>1, <2>4, ExecuteClaims DEF ClaimInv
  <2> QED BY <1>2, <2>1, <2>2, <2>3, <2>4, DeviceSteps
<1>3. ClaimInv => EngineIsWhereClaimed
  BY DEF ClaimInv
<1> QED BY <1>1, <1>2, <1>3, PTL DEF Spec
-----------------------------------------------------------------------------
(***************************************************************************)
(* One session that has the device for itself.  Then it is the attached    *)
(* device, in a context or not, that has engine and weights, so that a     *)
(* context entered after a failure is as good as any.                      *)
(***************************************************************************)
AttachedIsReady ==
  attached => \A s \in Sessions :
                isEngineLoaded(s) /\ engine = s /\ weights # NoWeights

OneSessionInv == TypeOK /\ HostSurvives /\ AttachedIsReady

\* What the host copies become, and what is found when it is the device's.
LEMMA HostSteps ==
  ASSUME TypeOK, [Next]_vars
  PROVE  \/ UNCHANGED host
         \/ \E s \in Sessions :
              attached /\ host' = [host EXCEPT ![s] = Memory(s)]
         \/ \E s \in Sessions, data \in SomeWeights :
              host' = [host EXCEPT ![s] = Overwritten(host[s], data)]
<1> DEFINE Goal == \/ UNCHANGED host
                   \/ \E s \in Sessions :
                        attached /\ host' = [host EXCEPT ![s] = Memory(s)]
                   \/ \E s \in Sessions, data \in SomeWeights :
                        host' = [host EXCEPT ![s] = Overwritten(host[s], data)]
<1>1. ASSUME NEW s \in Sessions,
             \/ Construct(s) \/ EnterDetached(s) \/ EnterFails(s)
             \/ ExitRaised(s) \/ weights_from_host(s) \/ run(s) \/ RunFails(s)
      PROVE  UNCHANGED host
  BY <1>1 DEF Construct, EnterDetached, EnterFails, ExitRaised,
     weights_from_host, run, RunFails
<1>2. ASSUME NEW s \in Sessions,
             \/ EnterAttached(s) \/ EnterRefused(s)
             \/ ExitInner(s) \/ ExitFails(s)
      PROVE  UNCHANGED host
  BY <1>2 DEF EnterAttached, EnterRefused, ExitInner, ExitFails, devicex
<1>3. ASSUME NEW s \in Sessions,
             \/ ExitOuter(s) \/ weights_to_host(s) \/ get_tensors_data(s)
      PROVE  attached /\ host' = [host EXCEPT ![s] = Memory(s)]
  BY <1>3 DEF ExitOuter, weights_to_host, get_tensors_data, Runtime,
     CopyWeightsToHost
<1>4. ASSUME NEW s \in Sessions, NEW data \in SomeWeights,
             write_variables_data(s, data) \/ WriteFails(s, data)
      PROVE  host' = [host EXCEPT ![s] = Overwritten(host[s], data)]
  BY <1>4 DEF write_variables_data, WriteFails, Written
<1>5. ASSUME UserAttach \/ UserDetach \/ UNCHANGED vars
      PROVE  UNCHANGED host
  BY <1>5 DEF UserAttach, UserDetach, vars
<1>6. ASSUME NEW s \in Sessions,
             \/ Construct(s)
             \/ EnterAttached(s) \/ EnterDetached(s)
             \/ EnterRefused(s) \/ EnterFails(s)
             \/ ExitInner(s) \/ ExitOuter(s) \/ ExitRaised(s) \/ ExitFails(s)
             \/ weights_to_host(s) \/ weights_from_host(s)
             \/ get_tensors_data(s) \/ run(s) \/ RunFails(s)
      PROVE  Goal
  BY <1>1, <1>2, <1>3, <1>6
<1>7. ASSUME NEW s \in Sessions, NEW data \in SomeWeights,
             write_variables_data(s, data) \/ WriteFails(s, data)
      PROVE  Goal
  BY <1>4, <1>7
<1> QED
  BY <1>5, <1>6, <1>7 DEF Next

LEMMA OneSessionStep ==
  ASSUME \A s, t \in Sessions : s = t, "device" \notin May,
         OneSessionInv, [Next]_vars
  PROVE  OneSessionInv'
<1>0. TypeOK /\ TypeOK'
  BY TypeStep DEF OneSessionInv
<1>a. /\ host \in [Sessions -> Copies] /\ weights \in Copies
      /\ \A s \in Sessions : host[s] # NoWeights
  BY <1>0 DEF TypeOK, DevicexTypeOK, Copies, OneSessionInv, HostSurvives
<1>b. ASSUME NEW s \in Sessions, attached
      PROVE  Memory(s) = weights /\ Memory(s) # NoWeights
  BY <1>b DEF OneSessionInv, AttachedIsReady, Memory
<1>1. HostSurvives'
  <2>1. CASE UNCHANGED host
    BY <1>a, <2>1 DEF HostSurvives
  <2>2. ASSUME NEW s \in Sessions, attached,
               host' = [host EXCEPT ![s] = Memory(s)]
        PROVE  HostSurvives'
    BY <1>a, <1>b, <2>2 DEF HostSurvives
  <2>3. ASSUME NEW s \in Sessions, NEW data \in SomeWeights,
               host' = [host EXCEPT ![s] = Overwritten(host[s], data)]
        PROVE  HostSurvives'
    <3>1. host[s] \in Weights
      BY <1>a DEF Copies
    <3>2. Overwritten(host[s], data) # NoWeights
      BY <3>1, OverwrittenWeights
    <3> QED BY <1>a, <2>3, <3>2 DEF HostSurvives
  <2> QED BY <1>0, <2>1, <2>2, <2>3, HostSteps
<1>2. AttachedIsReady'
  <2>1. CASE UNCHANGED device
    BY <2>1 DEF device, OneSessionInv, AttachedIsReady, isEngineLoaded
  <2>2. CASE ~attached'
    BY <2>2 DEF AttachedIsReady
  <2>3. ASSUME NEW s \in Sessions, NEW memory \in Copies,
               NEW buffer \in Copies, Execute(s, memory, buffer),
               MayBeLeft(s, memory)
        PROVE  AttachedIsReady'
    <3>1. memory # NoWeights
      BY <1>1, <1>b, <2>3, NoWeightsAssumption DEF MayBeLeft, HostSurvives
    <3> QED BY <2>3, <3>1 DEF Execute, AttachedIsReady, isEngineLoaded
  <2> QED BY <1>0, <2>1, <2>2, <2>3, DeviceSteps
<1> QED BY <1>0, <1>1, <1>2 DEF OneSessionInv

\* A session that has the device for itself is ready in every context and keeps
\* its host copy (ContextIsReady, HostSurvives), and its clean exits save
\* (ExitSaves), whatever call fails, that of the closing transfer included.
THEOREM OneSessionIsSafe ==
  ASSUME \A s, t \in Sessions : s = t, "device" \notin May
  PROVE  Spec => [](ContextIsReady /\ HostSurvives) /\ ExitSaves
<1>1. Init => OneSessionInv
  <2> SUFFICES ASSUME Init PROVE OneSessionInv
    OBVIOUS
  <2>1. ~attached
    BY DEF Init
  <2>2. HostSurvives
    BY NoWeightsAssumption DEF Init, DevicexInit, HostSurvives
  <2> QED BY <2>1, <2>2, TypeInit DEF OneSessionInv, AttachedIsReady
<1>2. OneSessionInv /\ [Next]_vars => OneSessionInv'
  BY OneSessionStep
<1>3. OneSessionInv => ContextIsReady /\ HostSurvives
  BY DEF OneSessionInv, AttachedIsReady, ContextIsReady
<1>4. OneSessionInv /\ [Next]_vars =>
        [attached /\ ~attached' =>
           \A s \in Sessions : ExitOuter(s) => host'[s] = weights]_vars
  <2>1. ASSUME OneSessionInv, NEW s \in Sessions, ExitOuter(s)
        PROVE  host'[s] = weights
    <3>1. TypeOK /\ isEngineLoaded(s)
      BY <2>1 DEF OneSessionInv, AttachedIsReady, ExitOuter
    <3> QED BY <2>1, <3>1, ExitOfLoaded
  <2> QED BY <2>1
<1> QED BY <1>1, <1>2, <1>3, <1>4, PTL DEF Spec, ExitSaves
=============================================================================
