--------------------------- MODULE PriTasksProofs ---------------------------
(***************************************************************************)
(* Proofs about PriTasks for all sets of tasks: the schedules are complete *)
(* and in order, and an order is given up, or a task replaced, only if no  *)
(* order exists.                                                           *)
(***************************************************************************)
EXTENDS PriTasks, FiniteSetTheorems, WellFoundedInduction, TLAPS

(* What holds of a linearisation at any time: a task is queued, or has     *)
(* been linearised, just if nothing is left to wait for, and what is left  *)
(* are the clauses that no task so far satisfies.                          *)
Waiting ==
    /\ remaining \in [DOMAIN tasksMap -> SUBSET Clauses]
    /\ queued \in [DOMAIN tasksMap -> {0, 1}]
    /\ Names(linearised) \subseteq DOMAIN tasksMap
    /\ \A t \in DOMAIN tasksMap :
          remaining[t] = {} <=> queued[t] = 1 \/ t \in Names(linearised)
    /\ \A t \in DOMAIN tasksMap : ~(queued[t] = 1 /\ t \in Names(linearised))
    /\ \A t \in DOMAIN tasksMap : \A c \in remaining[t] :
          c \in RetainedOf(tasksMap[t]) /\ c.tasks \cap Names(linearised) = {}
    /\ \A t \in DOMAIN tasksMap : \A c \in RetainedOf(tasksMap[t]) :
          c \in remaining[t] \/ c.tasks \cap Names(linearised) # {}

Known == \A t \in DOMAIN tasksMap : \A c \in RetainedOf(tasksMap[t]) :
            c.tasks \subseteq DOMAIN tasksMap

Tasksmap == /\ DOMAIN tasksMap \subseteq DOMAIN given
            /\ \A t \in DOMAIN tasksMap : tasksMap[t] \subseteq given[t].clauses
            /\ phase = "create" => createSchedule = <<>>
            /\ phase = "add" => createSchedule = <<>>

StartedInv == started => Linearising \/ phase = "failed"

LInv == Linearising /\ started => Waiting /\ Known

IInv == TypeOK /\ Tasksmap /\ StartedInv /\ LInv /\ SchedulesCorrect

(***************************************************************************)
(* Facts about the parts.                                                  *)
(***************************************************************************)
LEMMA ClausesTyped ==
  ASSUME given \in Lowerings, Tasksmap
  PROVE  /\ IsFiniteSet(DOMAIN tasksMap) /\ DOMAIN tasksMap \subseteq Tasks
         /\ \A t \in DOMAIN tasksMap : tasksMap[t] \subseteq Clauses
<1>1. IsFiniteSet(DOMAIN tasksMap)
  BY LoweringsAssumption, FS_Subset DEF Tasksmap
<1>2. DOMAIN tasksMap \subseteq Tasks
  BY LoweringsAssumption DEF Tasksmap
<1>3. \A t \in DOMAIN tasksMap : tasksMap[t] \subseteq Clauses
  BY LoweringsAssumption DEF Tasksmap
<1> QED
  BY <1>1, <1>2, <1>3

LEMMA NamesAppend ==
  ASSUME NEW S, NEW s \in Seq(S), NEW t \in S
  PROVE  Names(Append(s, t)) = Names(s) \cup {t}
<1>1. Names(Append(s, t)) \subseteq Names(s) \cup {t}
  BY DEF Names
<1>2. ASSUME NEW x \in Names(s) PROVE x \in Names(Append(s, t))
  <2>1. PICK i \in 1 .. Len(s) : x = s[i]
    BY DEF Names
  <2>2. i \in 1 .. Len(Append(s, t)) /\ Append(s, t)[i] = s[i]
    BY <2>1
  <2> QED
    BY <2>1, <2>2 DEF Names
<1>3. t \in Names(Append(s, t))
  <2>1. Len(s) + 1 \in 1 .. Len(Append(s, t)) /\ Append(s, t)[Len(s) + 1] = t
    OBVIOUS
  <2> QED
    BY <2>1 DEF Names
<1> QED
  BY <1>1, <1>2, <1>3

LEMMA OnceEachAppend ==
  ASSUME NEW S, NEW s \in Seq(S), NEW t \in S, OnceEach(s), t \notin Names(s)
  PROVE  OnceEach(Append(s, t))
BY DEF OnceEach, Names

(* As many names as tasks are all the tasks.                               *)
LEMMA AllNamed ==
  ASSUME NEW S, IsFiniteSet(S), NEW s \in Seq(S), OnceEach(s)
  PROVE  Names(s) = S <=> Len(s) = Cardinality(S)
<1>1. Names(s) \subseteq S
  BY DEF Names
<1>2. IsFiniteSet(Names(s))
  BY <1>1, FS_Subset
<1> DEFINE f == [i \in 1 .. Len(s) |-> s[i]]
<1>3. f \in Bijection(1 .. Len(s), Names(s))
  <2>1. f \in [1 .. Len(s) -> Names(s)]
    BY DEF Names
  <2>2. f \in Injection(1 .. Len(s), Names(s))
    BY <2>1 DEF Injection, IsInjective, OnceEach
  <2>3. f \in Surjection(1 .. Len(s), Names(s))
    BY <2>1 DEF Surjection, Names
  <2> QED
    BY <2>2, <2>3 DEF Bijection
<1> HIDE DEF f
<1>4. IsFiniteSet(1 .. Len(s)) /\ Cardinality(1 .. Len(s)) = Len(s)
  <2>1. Len(s) \in Nat
    OBVIOUS
  <2>2. PICK n \in Nat : n = Len(s)
    BY <2>1
  <2>3. IsFiniteSet(1 .. n) /\ Cardinality(1 .. n) = n
    BY ONLY n \in Nat, FS_Interval
  <2> QED
    BY <2>2, <2>3
<1>5. Cardinality(Names(s)) = Len(s)
  BY <1>3, <1>4, FS_Bijection DEF ExistsBijection
<1> QED
  BY <1>1, <1>2, <1>5, FS_Subset

LEMMA SeqOfNames ==
  ASSUME NEW S, NEW T, NEW s \in Seq(S), Names(s) \subseteq T
  PROVE  s \in Seq(T)
<1>1. s \in [1 .. Len(s) -> T]
  BY DEF Names
<1> QED
  BY <1>1

(* Tasks are left when the queue is empty: they wait for one another.      *)
LEMMA UnscheduledAreStuck ==
  ASSUME IInv, Linearising, started, QueueEmpty, ~AllScheduled
  PROVE  /\ Stuck(Unscheduled, tasksMap, Retained)
         /\ Stuck(Unscheduled, GivenClauses, Retained)
<1>1. Waiting /\ Known /\ given \in Lowerings /\ OnceEach(linearised)
  BY DEF IInv, LInv, TypeOK, SchedulesCorrect
<1>2. IsFiniteSet(DOMAIN tasksMap)
  BY <1>1, ClausesTyped DEF IInv
<1>3. linearised \in Seq(DOMAIN tasksMap)
  BY <1>1, SeqOfNames DEF IInv, TypeOK, Waiting
<1>4. Names(linearised) # DOMAIN tasksMap
  BY <1>1, <1>2, <1>3, AllNamed DEF AllScheduled
<1>5. Unscheduled # {}
  BY <1>1, <1>4 DEF Unscheduled, Waiting
<1>6. ASSUME NEW t \in Unscheduled
      PROVE  \E c \in tasksMap[t] : c.type \in Retained /\ c.tasks \subseteq Unscheduled
  <2>1. t \in DOMAIN tasksMap /\ t \notin Names(linearised)
    BY DEF Unscheduled
  <2>2. queued[t] = 0
    BY <1>1, <2>1 DEF QueueEmpty, Waiting
  <2>3. remaining[t] # {}
    BY <1>1, <2>1, <2>2 DEF Waiting
  <2>4. PICK c \in remaining[t] : TRUE
    BY <2>3
  <2>5. c \in RetainedOf(tasksMap[t]) /\ c.tasks \cap Names(linearised) = {}
    BY <1>1, <2>1, <2>4 DEF Waiting
  <2>6. c.tasks \subseteq DOMAIN tasksMap
    BY <1>1, <2>1, <2>5 DEF Known
  <2> QED
    BY <2>5, <2>6 DEF Unscheduled, RetainedOf
<1>7. \A t \in Unscheduled : t \in DOMAIN tasksMap /\ tasksMap[t] \subseteq given[t].clauses
  BY DEF Unscheduled, IInv, Tasksmap
<1>8. Stuck(Unscheduled, tasksMap, Retained)
  BY <1>5, <1>6 DEF Stuck
<1>9. Stuck(Unscheduled, GivenClauses, Retained)
  BY <1>5, <1>6, <1>7 DEF Stuck, GivenClauses
<1> QED
  BY <1>8, <1>9

(***************************************************************************)
(* Every step keeps the invariant.                                         *)
(***************************************************************************)
LEMMA InitIInv == Init => IInv
<1> SUFFICES ASSUME Init PROVE IInv
  OBVIOUS
<1>1. TypeOK
  <2>1. DOMAIN tasksMap = {}
    BY DEF Init
  <2>2. {linearised, createSchedule, emplaceSchedule} \subseteq Seq(Tasks)
    BY DEF Init
  <2>3. grown \in 0 .. Len(createSchedule)
    BY DEF Init
  <2> QED
    BY <2>1, <2>2, <2>3 DEF Init, TypeOK
<1>2. ~Linearising /\ phase = "add" /\ ~started /\ createSchedule = <<>>
  BY DEF Init, Linearising
<1>3. Tasksmap
  BY DEF Init, Tasksmap
<1> QED
  BY <1>1, <1>2, <1>3 DEF IInv, StartedInv, LInv, SchedulesCorrect

LEMMA AddStep ==
  ASSUME IInv, NEW t \in Tasks, Add(t)
  PROVE  IInv'
<1> USE DEF IInv, scheduling, growth
<1>1. given \in Lowerings /\ t \in DOMAIN given /\ given[t].clauses \subseteq Clauses
  BY LoweringsAssumption DEF TypeOK, Add
<1>3. phase = "add" /\ ~started /\ ~started' /\ phase' \in {"add", "create", "refused"}
  BY DEF Add, StartedInv, Linearising
<1>4. /\ DOMAIN tasksMap' \subseteq DOMAIN given
      /\ \A u \in DOMAIN tasksMap' : /\ tasksMap'[u] \subseteq given[u].clauses
                                      /\ tasksMap'[u] \subseteq Clauses
  <2>1. CASE tasksMap' = tasksMap
    BY <2>1 DEF Tasksmap, TypeOK
  <2>2. CASE tasksMap' = [u \in DOMAIN tasksMap \cup {t} |-> given[u].clauses]
    <3>1. DOMAIN tasksMap' = DOMAIN tasksMap \cup {t}
      BY <2>2
    <3>2. DOMAIN tasksMap' \subseteq DOMAIN given
      BY <1>1, <3>1 DEF Tasksmap
    <3>3. \A u \in DOMAIN tasksMap' : tasksMap'[u] = given[u].clauses
      BY <2>2
    <3> QED
      BY <1>1, <3>2, <3>3, LoweringsAssumption
  <2> QED
    BY <2>1, <2>2 DEF Add
<1>5. UNCHANGED <<given, started, remaining, queued, linearised, createSchedule,
                  emplaceSchedule, grown, seqs>>
  BY DEF Add
<1>6. TypeOK'
  BY <1>3, <1>4, <1>5 DEF TypeOK
<1>7. Tasksmap'
  BY <1>3, <1>4, <1>5 DEF Tasksmap
<1> QED
  BY <1>3, <1>6, <1>7 DEF StartedInv, LInv, SchedulesCorrect

LEMMA StartStep ==
  ASSUME IInv, StartLinearised
  PROVE  IInv'
<1> USE DEF IInv, scheduling, growth
<1>0. UNCHANGED <<given, tasksMap, createSchedule, emplaceSchedule, grown, seqs>>
  BY DEF StartLinearised
<1>1. CASE phase' = "unknown"
  <2>1. ~started /\ ~started' /\ ~Linearising'
    BY <1>1 DEF StartLinearised, Linearising
  <2>2. TypeOK'
    BY <1>0, <1>1, <2>1 DEF TypeOK, StartLinearised
  <2>3. Tasksmap'
    BY <1>0, <1>1 DEF Tasksmap
  <2> QED
    BY <1>1, <2>1, <2>2, <2>3 DEF StartedInv, LInv, SchedulesCorrect
<1>2. CASE phase' # "unknown"
  <2>1. /\ phase' = phase /\ started' /\ Linearising /\ Linearising'
        /\ started' = TRUE
        /\ remaining' = [t \in DOMAIN tasksMap |-> RetainedOf(tasksMap[t])]
        /\ queued' = [t \in DOMAIN tasksMap |->
                         IF RetainedOf(tasksMap[t]) = {} THEN 1 ELSE 0]
        /\ linearised' = <<>>
        /\ Known
    BY <1>2 DEF StartLinearised, Linearising, Known
  <2>2. Retained' = Retained
    BY <2>1 DEF Retained
  <2>3. \A t \in DOMAIN tasksMap : RetainedOf(tasksMap[t])' = RetainedOf(tasksMap[t])
    BY <1>0, <2>2 DEF RetainedOf
  <2>4. Known'
    BY <1>0, <2>1, <2>3 DEF Known
  <2>5. Names(linearised') = {}
    BY <2>1 DEF Names
  <2>6. \A t \in DOMAIN tasksMap : RetainedOf(tasksMap[t]) \subseteq Clauses
    BY DEF TypeOK, RetainedOf
  <2>7. Waiting'
    BY <1>0, <2>1, <2>3, <2>5, <2>6 DEF Waiting
  <2>8. TypeOK'
    <3>1. remaining' \in [DOMAIN tasksMap' -> SUBSET Clauses]
          /\ queued' \in [DOMAIN tasksMap' -> {0, 1}]
      BY <1>0, <2>1, <2>6
    <3>2. linearised' \in Seq(Tasks)
      BY <2>1
    <3> QED
      BY <1>0, <2>1, <3>1, <3>2 DEF TypeOK
  <2>9. SchedulesCorrect'
    <3>1. OnceEach(linearised') /\ InOrder(linearised, Retained)'
      BY <2>1 DEF OnceEach, InOrder
    <3> QED
      BY <1>0, <2>1, <3>1 DEF SchedulesCorrect, OnceEach, InOrder, Names
  <2>10. Tasksmap'
    BY <1>0, <2>1 DEF Tasksmap
  <2> QED
    BY <2>1, <2>4, <2>7, <2>8, <2>9, <2>10 DEF StartedInv, LInv
<1> QED
  BY <1>1, <1>2
LEMMA PopStep ==
  ASSUME IInv, NEW t \in DOMAIN tasksMap, Pop(t)
  PROVE  IInv'
<1> USE DEF IInv, scheduling, growth
<1>0. /\ Linearising /\ started /\ queued[t] > 0 /\ Waiting /\ Known
      /\ linearised' = Append(linearised, t)
      /\ remaining' = [u \in DOMAIN remaining |-> removeDep(remaining[u], t)]
      /\ queued' = [u \in DOMAIN queued |->
                       queued[u] - (IF u = t THEN 1 ELSE 0)
                         + (IF BecomesFree(remaining[u], remaining'[u]) THEN 1 ELSE 0)]
      /\ UNCHANGED <<given, phase, tasksMap, started, createSchedule, emplaceSchedule,
                     grown, seqs>>
  BY DEF Pop, LInv
<1>1. DOMAIN remaining = DOMAIN tasksMap /\ DOMAIN queued = DOMAIN tasksMap
  BY <1>0 DEF Waiting
<1>2. queued[t] = 1 /\ t \notin Names(linearised) /\ remaining[t] = {}
  BY <1>0 DEF Waiting
<1>3. t \in Tasks /\ linearised \in Seq(Tasks) /\ linearised' \in Seq(Tasks)
  BY <1>0, ClausesTyped DEF TypeOK
<1>4. Names(linearised') = Names(linearised) \cup {t}
  BY <1>0, <1>3, NamesAppend
<1>5. Retained' = Retained /\ Linearising'
  BY <1>0 DEF Retained, Linearising
<1>6. \A u \in DOMAIN tasksMap : RetainedOf(tasksMap[u])' = RetainedOf(tasksMap[u])
  BY <1>0, <1>5 DEF RetainedOf
<1>7. Known'
  BY <1>0, <1>6 DEF Known
<1>8. ASSUME NEW u \in DOMAIN tasksMap
      PROVE  /\ remaining'[u] = {c \in remaining[u] : t \notin c.tasks}
             /\ queued'[u] \in {0, 1}
             /\ remaining'[u] = {} <=> queued'[u] = 1 \/ u \in Names(linearised')
             /\ ~(queued'[u] = 1 /\ u \in Names(linearised'))
  <2>1. remaining'[u] = {c \in remaining[u] : t \notin c.tasks}
    BY <1>0, <1>1 DEF removeDep
  <2>2. queued'[u] = queued[u] - (IF u = t THEN 1 ELSE 0)
          + (IF BecomesFree(remaining[u], remaining'[u]) THEN 1 ELSE 0)
    BY <1>0, <1>1
  <2>3. CASE u = t
    <3>1. remaining'[u] = {} /\ ~BecomesFree(remaining[u], remaining'[u])
      BY <1>2, <2>1, <2>3 DEF BecomesFree
    <3> QED
      BY <1>2, <1>4, <2>1, <2>2, <2>3, <3>1
  <2>4. CASE u # t /\ remaining[u] = {}
    <3>1. remaining'[u] = {} /\ ~BecomesFree(remaining[u], remaining'[u])
      BY <2>1, <2>4 DEF BecomesFree
    <3>2. queued'[u] = queued[u]
      BY <1>0, <2>2, <2>4, <3>1 DEF Waiting
    <3> QED
      BY <1>0, <1>4, <2>1, <2>4, <3>1, <3>2 DEF Waiting
  <2>5. CASE u # t /\ remaining[u] # {}
    <3>1. queued[u] = 0 /\ u \notin Names(linearised)
      BY <1>0, <2>5 DEF Waiting
    <3>2. BecomesFree(remaining[u], remaining'[u]) <=> remaining'[u] = {}
      BY <2>5 DEF BecomesFree
    <3> QED
      BY <1>4, <2>1, <2>2, <2>5, <3>1, <3>2
  <2> QED
    BY <2>3, <2>4, <2>5
<1>9. remaining' \in [DOMAIN tasksMap -> SUBSET Clauses]
      /\ queued' \in [DOMAIN tasksMap -> {0, 1}]
  <2>1. \A u \in DOMAIN tasksMap : remaining'[u] \subseteq Clauses
    BY <1>0, <1>8 DEF Waiting
  <2> QED
    BY <1>0, <1>1, <1>8, <2>1
<1>10. Waiting'
  <2>1. \A u \in DOMAIN tasksMap : \A c \in remaining'[u] :
           c \in RetainedOf(tasksMap[u]) /\ c.tasks \cap Names(linearised') = {}
    BY <1>0, <1>4, <1>8 DEF Waiting
  <2>2. \A u \in DOMAIN tasksMap : \A c \in RetainedOf(tasksMap[u]) :
           c \in remaining'[u] \/ c.tasks \cap Names(linearised') # {}
    <3> SUFFICES ASSUME NEW u \in DOMAIN tasksMap, NEW c \in RetainedOf(tasksMap[u])
                 PROVE  c \in remaining'[u] \/ c.tasks \cap Names(linearised') # {}
      OBVIOUS
    <3>1. c \in remaining[u] \/ c.tasks \cap Names(linearised) # {}
      BY <1>0 DEF Waiting
    <3>2. CASE c \in remaining[u]
      BY <1>4, <1>8, <3>2
    <3>3. CASE c.tasks \cap Names(linearised) # {}
      BY <1>4, <3>3
    <3> QED
      BY <3>1, <3>2, <3>3
  <2>3. Names(linearised') \subseteq DOMAIN tasksMap
    BY <1>0, <1>4 DEF Waiting
  <2> QED
    BY <1>0, <1>6, <1>8, <1>9, <2>1, <2>2, <2>3 DEF Waiting
<1>11. OnceEach(linearised') /\ InOrder(linearised, Retained)'
  <2>1. OnceEach(linearised) /\ InOrder(linearised, Retained)
    BY <1>0 DEF SchedulesCorrect
  <2>2. OnceEach(linearised')
    BY <1>0, <1>2, <1>3, <2>1, OnceEachAppend
  <2>3. ASSUME NEW i \in 1 .. Len(linearised'), NEW c \in tasksMap[linearised'[i]],
               c.type \in Retained
        PROVE  \E j \in 1 .. i - 1 : linearised'[j] \in c.tasks
    <3>1. CASE i \in 1 .. Len(linearised)
      <4>1. linearised'[i] = linearised[i]
        BY <1>0, <1>3, <3>1
      <4>2. PICK j \in 1 .. i - 1 : linearised[j] \in c.tasks
        BY <2>1, <2>3, <3>1, <4>1 DEF InOrder
      <4>3. linearised'[j] = linearised[j]
        BY <1>0, <1>3, <3>1, <4>2
      <4> QED
        BY <4>2, <4>3
    <3>2. CASE i = Len(linearised) + 1
      <4>1. linearised'[i] = t
        BY <1>0, <1>3, <3>2
      <4>2. c \in RetainedOf(tasksMap[t])
        BY <2>3, <4>1 DEF RetainedOf
      <4>3. c.tasks \cap Names(linearised) # {}
        BY <1>0, <1>2, <4>2 DEF Waiting
      <4>4. PICK j \in 1 .. Len(linearised) : linearised[j] \in c.tasks
        BY <4>3 DEF Names
      <4>5. j \in 1 .. i - 1 /\ linearised'[j] = linearised[j]
        BY <1>0, <1>3, <3>2, <4>4
      <4> QED
        BY <4>4, <4>5
    <3>3. Len(linearised') = Len(linearised) + 1 /\ Len(linearised) \in Nat
      BY <1>0, <1>3
    <3> QED
      BY <3>1, <3>2, <3>3
  <2>4. InOrder(linearised, Retained)'
    BY <1>0, <1>5, <2>3 DEF InOrder
  <2> QED
    BY <2>2, <2>4
<1>12. TypeOK'
  BY <1>0, <1>3, <1>9 DEF TypeOK
<1>13. SchedulesCorrect'
  <2>2. InOrder(createSchedule, {"Output", "SubGraph", "Tensor"})'
          <=> InOrder(createSchedule, {"Output", "SubGraph", "Tensor"})
    BY <1>0 DEF InOrder
  <2>3. InOrder(emplaceSchedule, {"Output", "Scheduler"})'
          <=> InOrder(emplaceSchedule, {"Output", "Scheduler"})
    BY <1>0 DEF InOrder
  <2> QED
    BY <1>0, <1>11, <2>2, <2>3 DEF SchedulesCorrect, OnceEach, Names
<1>14. Tasksmap'
  BY <1>0 DEF Tasksmap
<1> QED
  BY <1>0, <1>5, <1>7, <1>10, <1>12, <1>13, <1>14 DEF StartedInv, LInv
LEMMA LinearisedStep ==
  ASSUME IInv, Linearised
  PROVE  IInv'
<1> USE DEF IInv, scheduling, growth
<1>0. /\ Linearising /\ started /\ AllScheduled /\ Waiting
      /\ OnceEach(linearised) /\ InOrder(linearised, Retained)
      /\ ~started' /\ started' = FALSE
      /\ UNCHANGED <<given, tasksMap, remaining, queued, linearised, grown, seqs>>
  BY DEF Linearised, LInv, SchedulesCorrect
<1>1. Names(linearised) = DOMAIN tasksMap
  <2>1. IsFiniteSet(DOMAIN tasksMap)
    BY ClausesTyped DEF TypeOK
  <2>2. linearised \in Seq(DOMAIN tasksMap)
    BY <1>0, SeqOfNames DEF TypeOK, Waiting
  <2> QED
    BY <1>0, <2>1, <2>2, AllNamed DEF AllScheduled
<1>2. CASE phase = "create"
  <2>1. /\ createSchedule = <<>> /\ createSchedule' = linearised /\ phase' = "emplace"
        /\ emplaceSchedule' = emplaceSchedule
        /\ Retained = {"Output", "SubGraph", "Tensor"}
    BY <1>2 DEF Linearised, Tasksmap, Retained
  <2>2. grown' = 0 /\ Len(createSchedule') \in Nat
    <3>1. grown \in 0 .. 0
      BY <2>1 DEF TypeOK
    <3> QED
      BY <1>0, <2>1, <3>1 DEF TypeOK
  <2>3. TypeOK'
    <3>1. grown' \in 0 .. Len(createSchedule')
      BY <2>2
    <3> QED
      BY <1>0, <2>1, <3>1 DEF TypeOK
  <2>4. OnceEach(createSchedule') /\ Names(createSchedule') = DOMAIN tasksMap'
    BY <1>0, <1>1, <2>1
  <2>5. InOrder(createSchedule, {"Output", "SubGraph", "Tensor"})'
    BY <1>0, <2>1 DEF InOrder
  <2>6. SchedulesCorrect'
    BY <1>0, <2>1, <2>4, <2>5 DEF SchedulesCorrect, OnceEach, Names
  <2> QED
    BY <1>0, <2>1, <2>3, <2>6 DEF StartedInv, LInv, Tasksmap
<1>3. CASE phase = "emplace"
  <2>1. /\ createSchedule' = createSchedule /\ phase' = "grow"
        /\ emplaceSchedule' = linearised
        /\ Retained = {"Output", "Scheduler"}
    BY <1>3 DEF Linearised, Retained
  <2>3. TypeOK'
    BY <1>0, <2>1 DEF TypeOK
  <2>4. OnceEach(emplaceSchedule') /\ Names(emplaceSchedule') = DOMAIN tasksMap'
    BY <1>0, <1>1, <2>1
  <2>5. InOrder(emplaceSchedule, {"Output", "Scheduler"})'
    BY <1>0, <2>1 DEF InOrder
  <2>6. InOrder(createSchedule, {"Output", "SubGraph", "Tensor"})'
    BY <1>0, <1>3, <2>1 DEF InOrder, SchedulesCorrect
  <2>7. SchedulesCorrect'
    BY <1>0, <1>3, <2>1, <2>4, <2>5, <2>6 DEF SchedulesCorrect, OnceEach, Names
  <2> QED
    BY <1>0, <2>1, <2>3, <2>7 DEF StartedInv, LInv, Tasksmap, Linearising
<1> QED
  BY <1>0, <1>2, <1>3 DEF Linearising

(* The task that is replaced is not linearised yet.                        *)
LEMMA FallbackStep ==
  ASSUME IInv, NEW t \in DOMAIN tasksMap, Fallback(t)
  PROVE  IInv'
<1> USE DEF IInv, scheduling, growth
<1>0. /\ phase = "create" /\ Linearising /\ started /\ QueueEmpty /\ Waiting /\ Known
      /\ t \in Unscheduled
      /\ OnceEach(linearised) /\ InOrder(linearised, Retained)
      /\ tasksMap' = [tasksMap EXCEPT ![t] = {}]
      /\ remaining' = [remaining EXCEPT ![t] = {}]
      /\ queued' = [queued EXCEPT ![t] = @ + 1]
      /\ UNCHANGED <<given, phase, started, linearised, createSchedule,
                     emplaceSchedule, grown, seqs>>
  BY DEF Fallback, LInv, SchedulesCorrect, AllowFallback, Replaceable, Requeued
<1>1. t \notin Names(linearised) /\ queued[t] = 0
  BY <1>0 DEF Unscheduled, QueueEmpty, Waiting
<1>2. DOMAIN tasksMap' = DOMAIN tasksMap /\ tasksMap'[t] = {}
      /\ \A u \in DOMAIN tasksMap : u # t => tasksMap'[u] = tasksMap[u]
  BY <1>0
<1>3. Retained' = Retained /\ Linearising'
  BY <1>0 DEF Retained, Linearising
<1>4. \A u \in DOMAIN tasksMap :
         RetainedOf(tasksMap[u])' = IF u = t THEN {} ELSE RetainedOf(tasksMap[u])
  BY <1>2, <1>3 DEF RetainedOf
<1>5. Known'
  BY <1>0, <1>2, <1>4 DEF Known
<1>6. remaining' \in [DOMAIN tasksMap' -> SUBSET Clauses]
      /\ queued' \in [DOMAIN tasksMap' -> {0, 1}]
  <2>1. queued[t] + 1 \in {0, 1}
    BY <1>1
  <2> QED
    BY <1>0, <1>2, <2>1 DEF Waiting
<1>7. /\ remaining'[t] = {} /\ queued'[t] = 1
      /\ \A u \in DOMAIN tasksMap :
            u # t => remaining'[u] = remaining[u] /\ queued'[u] = queued[u]
  BY <1>0, <1>1 DEF Waiting
<1>8. Waiting'
  <2>1. \A u \in DOMAIN tasksMap' :
           remaining'[u] = {} <=> queued'[u] = 1 \/ u \in Names(linearised')
    BY <1>0, <1>2, <1>7 DEF Waiting
  <2>2. \A u \in DOMAIN tasksMap' : ~(queued'[u] = 1 /\ u \in Names(linearised'))
    BY <1>0, <1>1, <1>2, <1>7 DEF Waiting
  <2>3. \A u \in DOMAIN tasksMap' : \A c \in remaining'[u] :
           c \in RetainedOf(tasksMap[u])' /\ c.tasks \cap Names(linearised') = {}
    BY <1>0, <1>2, <1>4, <1>7 DEF Waiting
  <2>4. \A u \in DOMAIN tasksMap' : \A c \in RetainedOf(tasksMap[u])' :
           c \in remaining'[u] \/ c.tasks \cap Names(linearised') # {}
    BY <1>0, <1>2, <1>4, <1>7 DEF Waiting
  <2>5. Names(linearised') \subseteq DOMAIN tasksMap'
    BY <1>0, <1>2 DEF Waiting
  <2> QED
    BY <1>6, <2>1, <2>2, <2>3, <2>4, <2>5 DEF Waiting
<1>9. TypeOK'
  BY <1>0, <1>2, <1>6 DEF TypeOK
<1>10. Tasksmap'
  BY <1>0, <1>2 DEF Tasksmap
<1>11. InOrder(linearised, Retained)'
  <2>1. \A i \in 1 .. Len(linearised) : linearised[i] # t /\ linearised[i] \in DOMAIN tasksMap
    BY <1>0, <1>1 DEF Names, Waiting
  <2>2. \A i \in 1 .. Len(linearised) : tasksMap'[linearised[i]] = tasksMap[linearised[i]]
    BY <1>2, <2>1
  <2> QED
    BY <1>0, <1>3, <2>2 DEF InOrder
<1>12. SchedulesCorrect'
  BY <1>0, <1>11 DEF SchedulesCorrect, OnceEach
<1> QED
  BY <1>0, <1>3, <1>5, <1>8, <1>9, <1>10, <1>12 DEF StartedInv, LInv

LEMMA OtherSteps ==
  ASSUME IInv, Fail \/ Grow \/ EmplaceRest \/ UNCHANGED vars
  PROVE  IInv'
<1> USE DEF IInv, scheduling, growth
<1>1. UNCHANGED <<given, tasksMap, started, remaining, queued, linearised,
                  createSchedule, emplaceSchedule>>
  BY DEF Fail, Grow, EmplaceRest, vars
<1>2. \/ UNCHANGED <<phase, grown, seqs>>
      \/ Linearising /\ phase' = "failed" /\ UNCHANGED <<grown, seqs>>
      \/ phase = "grow" /\ phase' \in {"grow", "done"}
  BY DEF Fail, Grow, EmplaceRest, vars
<1>3. grown' \in 0 .. Len(createSchedule') /\ seqs' \subseteq Tasks
  <2>1. CASE Grow
    <3>1. /\ createSchedule \in Seq(Tasks) /\ grown \in 0 .. Len(createSchedule)
          /\ grown < Len(createSchedule) /\ grown' = grown + 1
          /\ seqs' = (seqs \ Filter(createSchedule[grown + 1])) \cup {createSchedule[grown + 1]}
      BY <2>1 DEF Grow, TypeOK
    <3>2. createSchedule[grown + 1] \in Tasks
      BY <3>1
    <3> QED
      BY <1>1, <3>1, <3>2 DEF TypeOK
  <2>2. CASE EmplaceRest
    BY <1>1, <2>2 DEF EmplaceRest, TypeOK
  <2>3. CASE Fail \/ UNCHANGED vars
    BY <1>1, <2>3 DEF Fail, vars, TypeOK
  <2> QED
    BY <2>1, <2>2, <2>3
<1>4. TypeOK'
  BY <1>1, <1>2, <1>3 DEF TypeOK
<1>5. Tasksmap'
  BY <1>1, <1>2 DEF Tasksmap
<1>6. CASE UNCHANGED <<phase, grown, seqs>>
  <2>1. SchedulesCorrect'
    <3>1. UNCHANGED <<Linearising, Retained>>
      BY <1>6 DEF Linearising, Retained
    <3> QED
      BY <1>1, <1>6, <3>1 DEF SchedulesCorrect, OnceEach, InOrder, Names
  <2>2. LInv'
    <3>1. UNCHANGED <<Linearising, Retained>>
      BY <1>6 DEF Linearising, Retained
    <3>2. \A t \in DOMAIN tasksMap : RetainedOf(tasksMap[t])' = RetainedOf(tasksMap[t])
      BY <1>1, <3>1 DEF RetainedOf
    <3> QED
      BY <1>1, <1>6, <3>1, <3>2 DEF LInv, Waiting, Known, Names
  <2> QED
    BY <1>1, <1>4, <1>5, <1>6, <2>1, <2>2 DEF StartedInv, Linearising
<1>7. CASE Linearising /\ phase' = "failed"
  BY <1>1, <1>4, <1>5, <1>7 DEF StartedInv, LInv, Linearising, SchedulesCorrect
<1>8. CASE phase = "grow" /\ phase' \in {"grow", "done"}
  <2>1. ~Linearising' /\ ~started'
    BY <1>1, <1>8 DEF Linearising, StartedInv
  <2>2. SchedulesCorrect'
    BY <1>1, <1>8, <2>1 DEF SchedulesCorrect, OnceEach, InOrder, Names
  <2> QED
    BY <1>4, <1>5, <2>1, <2>2 DEF StartedInv, LInv
<1> QED
  BY <1>2, <1>6, <1>7, <1>8

LEMMA NextIInv == IInv /\ [Next]_vars => IInv'
BY AddStep, StartStep, PopStep, LinearisedStep, FallbackStep, OtherSteps DEF Next

THEOREM Invariance == Spec => []IInv
BY InitIInv, NextIInv, PTL DEF Spec

(* The state of the linearisations has its types for all tasks.            *)
THEOREM TypeCorrect == Spec => []TypeOK
BY Invariance, PTL DEF IInv

(* Both schedules contain each task once, in an order that satisfies every *)
(* clause, for all tasks, priorities and clauses, and also the tasks that  *)
(* were replaced on the way (PriTasks::getLinearised).                     *)
THEOREM OrdersCorrect == Spec => []SchedulesCorrect
BY Invariance, PTL DEF IInv

(* getLinearised throws only if tasks wait for one another that cannot be  *)
(* replaced.                                                               *)
THEOREM FailureIsGenuine == Spec => []FailsOnlyIfImpossible
<1>1. Init => FailsOnlyIfImpossible
  BY DEF Init, FailsOnlyIfImpossible
<1>2. ASSUME IInv, FailsOnlyIfImpossible, [Next]_vars
      PROVE  FailsOnlyIfImpossible'
  <2> SUFFICES ASSUME phase' = "failed" PROVE FailsOnlyIfImpossible'
    BY DEF FailsOnlyIfImpossible
  <2>1. CASE Fail
    <3>1. /\ Linearising /\ started /\ QueueEmpty /\ ~AllScheduled
          /\ AllowFallback => ~\E t \in DOMAIN tasksMap : Replaceable(t)
          /\ UNCHANGED <<given, tasksMap, createSchedule>>
      BY <2>1 DEF Fail
    <3>2. /\ Stuck(Unscheduled, tasksMap, Retained)
          /\ Stuck(Unscheduled, GivenClauses, Retained)
      BY <1>2, <3>1, UnscheduledAreStuck
    <3>3. Unscheduled \in SUBSET DOMAIN tasksMap
      BY DEF Unscheduled
    <3>4. CASE phase = "create"
      <4>1. createSchedule = <<>> /\ Retained = CreateTypes
        BY <1>2, <3>4 DEF IInv, Tasksmap, Retained, CreateTypes
      <4>2. \A t \in Unscheduled : ~given[t].init
        BY <3>1, <3>3, <3>4 DEF AllowFallback, Replaceable
      <4>3. Stuck(Unscheduled, GivenClauses', CreateTypes)
        BY <3>1, <3>2, <4>1 DEF GivenClauses
      <4> QED
        BY <3>1, <3>3, <4>1, <4>2, <4>3 DEF FailsOnlyIfImpossible, CreateTypes, Stuck
    <3>5. CASE phase = "emplace"
      <4>1. Stuck(Unscheduled, tasksMap', {"Output", "Scheduler"})
        BY <3>1, <3>2, <3>5 DEF Retained
      <4> QED
        BY <3>1, <3>3, <4>1 DEF FailsOnlyIfImpossible, Stuck
    <3> QED
      BY <3>1, <3>4, <3>5 DEF Linearising
  <2>2. CASE UNCHANGED vars
    BY <1>2, <2>2 DEF vars, FailsOnlyIfImpossible, GivenClauses, Stuck, scheduling, growth
  <2>3. ASSUME ~Fail, Next PROVE FALSE
    BY <2>3 DEF Next, Add, StartLinearised, Pop, Linearised, Fallback, Grow, EmplaceRest,
                Linearising
  <2> QED
    BY <1>2, <2>1, <2>2, <2>3
<1> QED
  BY <1>1, <1>2, Invariance, PTL DEF Spec

(* A task is replaced only if the given clauses make tasks wait for one    *)
(* another.                                                                *)
THEOREM ReplacementIsNeeded == Spec => []ReplacedOnlyIfStuck
<1>1. Init => ReplacedOnlyIfStuck
  BY DEF Init, ReplacedOnlyIfStuck, Replaced
<1>2. ASSUME IInv, ReplacedOnlyIfStuck, [Next]_vars
      PROVE  ReplacedOnlyIfStuck'
  <2>1. ASSUME NEW t \in Tasks, Add(t)
        PROVE  ReplacedOnlyIfStuck'
    <3>1. given' = given /\ DOMAIN tasksMap \subseteq DOMAIN tasksMap'
      BY <2>1 DEF Add
    <3>2. \A u \in DOMAIN tasksMap' :
             \/ tasksMap'[u] = given[u].clauses
             \/ u \in DOMAIN tasksMap /\ tasksMap' = tasksMap
      BY <2>1 DEF Add
    <3>3. CASE Replaced' = {}
      BY <3>3 DEF ReplacedOnlyIfStuck
    <3>4. CASE Replaced' # {}
      <4>1. Replaced # {}
        BY <3>1, <3>2, <3>4 DEF Replaced
      <4>2. PICK U \in SUBSET DOMAIN tasksMap : Stuck(U, GivenClauses, CreateTypes)
        BY <1>2, <4>1 DEF ReplacedOnlyIfStuck
      <4>3. Stuck(U, GivenClauses', CreateTypes) /\ U \in SUBSET DOMAIN tasksMap'
        BY <3>1, <4>2 DEF Stuck, GivenClauses
      <4> QED
        BY <4>3 DEF ReplacedOnlyIfStuck, Stuck, CreateTypes
    <3> QED
      BY <3>3, <3>4
  <2>2. ASSUME NEW t \in DOMAIN tasksMap, Fallback(t)
        PROVE  ReplacedOnlyIfStuck'
    <3>1. /\ Linearising /\ started /\ QueueEmpty /\ ~AllScheduled /\ phase = "create"
          /\ given' = given /\ DOMAIN tasksMap' = DOMAIN tasksMap
      BY <2>2 DEF Fallback, AllowFallback
    <3>2. Stuck(Unscheduled, GivenClauses, Retained) /\ Retained = CreateTypes
      BY <1>2, <3>1, UnscheduledAreStuck DEF Retained, CreateTypes
    <3>3. Unscheduled \in SUBSET DOMAIN tasksMap /\ GivenClauses' = GivenClauses
      BY <3>1 DEF Unscheduled, GivenClauses
    <3>4. \E U \in SUBSET DOMAIN tasksMap : Stuck(U, GivenClauses, CreateTypes)
      BY <3>2, <3>3
    <3> QED
      BY <3>1, <3>3, <3>4 DEF ReplacedOnlyIfStuck, Stuck, CreateTypes
  <2>3. CASE UNCHANGED <<given, tasksMap>>
    BY <1>2, <2>3 DEF ReplacedOnlyIfStuck, Replaced, Stuck, GivenClauses, CreateTypes
  <2> QED
    BY <1>2, <2>1, <2>2, <2>3
    DEF Next, vars, StartLinearised, Pop, Linearised, Fail, Grow, EmplaceRest
<1> QED
  BY <1>1, <1>2, Invariance, PTL DEF Spec
(***************************************************************************)
(* The loop over a schedule.                                               *)
(***************************************************************************)
(* Induction over the natural numbers, for sets.                           *)
LEMMA SetInduction ==
  ASSUME NEW S, 0 \in S, \A n \in Nat : n \in S => n + 1 \in S
  PROVE  Nat \subseteq S
<1> SUFFICES ASSUME Nat \ S # {} PROVE FALSE
  OBVIOUS
<1>1. IsWellFoundedOn(OpToRel(<, Nat), Nat)
  BY NatLessThanWellFounded
<1>2. PICK x \in Nat \ S :
        \A y \in Nat \ S : ~ (<< y, x >> \in OpToRel(<, Nat))
  BY <1>1, WFMin
<1>3. x \in Nat /\ x \notin S
  BY Zenon
<1>4. x # 0
  BY <1>3, Zenon
<1>5. x - 1 \in Nat /\ x - 1 < x /\ (x - 1) + 1 = x
  BY <1>3, <1>4
<1>6. <<x - 1, x>> \in OpToRel(<, Nat)
  BY <1>3, <1>5 DEF OpToRel
<1>7. x - 1 \in S
  BY <1>2, <1>5, <1>6
<1>8. (x - 1) + 1 \in S
  BY <1>5, <1>7
<1> QED
  BY <1>3, <1>5, <1>8

(* What the loop has picked before its round n + 1.                        *)
Round(s, W, f, n) == IF s[n] \in W THEN Append(f[n - 1], s[n]) ELSE f[n - 1]
Rounds(s, W, n, f) ==
    f = [i \in 0 .. n |-> IF i = 0 THEN <<>> ELSE Round(s, W, f, i)]

(* The loop is well defined.                                               *)
LEMMA RoundsExist ==
  ASSUME NEW s, NEW W, NEW n \in Nat
  PROVE  \E f : Rounds(s, W, n, f)
<1> DEFINE S == {m \in Nat : \E f : Rounds(s, W, m, f)}
<1>1. 0 \in S
  <2> DEFINE f == [i \in 0 .. 0 |-> <<>>]
  <2>1. f = [i \in 0 .. 0 |-> IF i = 0 THEN <<>> ELSE Round(s, W, f, i)]
    OBVIOUS
  <2> QED
    BY <2>1 DEF Rounds
<1>2. ASSUME NEW m \in Nat, m \in S PROVE m + 1 \in S
  <2>1. PICK f : Rounds(s, W, m, f)
    BY <1>2
  <2> DEFINE last == IF s[m + 1] \in W THEN Append(f[m], s[m + 1]) ELSE f[m]
             g == [i \in 0 .. m + 1 |-> IF i <= m THEN f[i] ELSE last]
  <2>2. ASSUME NEW i \in 0 .. m + 1
        PROVE  g[i] = IF i = 0 THEN <<>> ELSE Round(s, W, g, i)
    <3>1. CASE i = 0
      BY <2>1, <3>1 DEF Rounds
    <3>2. CASE i # 0 /\ i <= m
      <4>1. i \in 0 .. m /\ i - 1 \in 0 .. m + 1 /\ i - 1 <= m
        BY <3>2
      <4>2. g[i] = f[i] /\ g[i - 1] = f[i - 1]
        BY <4>1
      <4>3. f[i] = Round(s, W, f, i)
        BY <2>1, <3>2, <4>1 DEF Rounds
      <4> QED
        BY <3>2, <4>2, <4>3 DEF Round
    <3>3. CASE i = m + 1
      <4>1. i # 0 /\ i - 1 = m /\ m \in 0 .. m + 1 /\ ~(i <= m)
        BY <3>3
      <4>2. g[i] = last /\ g[m] = f[m]
        BY <4>1
      <4> HIDE DEF g
      <4> QED
        BY <3>3, <4>1, <4>2 DEF Round
    <3> QED
      BY <3>1, <3>2, <3>3
  <2>3. Rounds(s, W, m + 1, g)
    <3>1. g = [i \in 0 .. m + 1 |-> g[i]]
      OBVIOUS
    <3> HIDE DEF g
    <3> QED
      BY <2>2, <3>1 DEF Rounds
  <2> HIDE DEF g
  <2> QED
    BY <2>3
<1> HIDE DEF S
<1>3. Nat \subseteq S
  BY <1>1, <1>2, SetInduction
<1> QED
  BY <1>3 DEF S

(* The loop keeps the order of the schedule: what is picked later is later *)
(* in the schedule.                                                        *)
Follows(q, s, n) ==
    /\ \A i \in 1 .. Len(q) : \E k \in 1 .. n : s[k] = q[i]
    /\ \A i, j \in 1 .. Len(q) :
          i < j => \E k, l \in 1 .. n : s[k] = q[i] /\ s[l] = q[j] /\ k < l

(* The first n elements.                                                   *)
FirstNames(s, n) == {s[i] : i \in 1 .. n}

(* What the loop over s has picked after n rounds.                         *)
PickedFrom(T, W, s, n, q) ==
    q \in Seq(T) /\ Names(q) = FirstNames(s, n) \cap W /\ Follows(q, s, n)

(* One more round.                                                         *)
LEMMA RoundPicks ==
  ASSUME NEW T, NEW W, NEW s \in Seq(T), NEW n \in Nat, n + 1 <= Len(s),
         NEW q, PickedFrom(T, W, s, n, q),
         NEW r, r = IF s[n + 1] \in W THEN Append(q, s[n + 1]) ELSE q
  PROVE  PickedFrom(T, W, s, n + 1, r)
<1>0. q \in Seq(T) /\ Names(q) = FirstNames(s, n) \cap W /\ Follows(q, s, n)
  BY DEF PickedFrom
<1> USE <1>0
<1>1. s[n + 1] \in T
  OBVIOUS
<1>2. FirstNames(s, n + 1) = FirstNames(s, n) \cup {s[n + 1]}
  BY DEF FirstNames
<1>3. Follows(q, s, n + 1)
  BY DEF Follows
<1>4. CASE s[n + 1] \notin W
  BY <1>2, <1>3, <1>4 DEF PickedFrom
<1>5. CASE s[n + 1] \in W
  <2>1. r = Append(q, s[n + 1]) /\ r \in Seq(T) /\ Len(r) = Len(q) + 1
    <3>1. PICK x \in T : x = s[n + 1]
      BY <1>1
    <3>2. Append(q, x) \in Seq(T) /\ Len(Append(q, x)) = Len(q) + 1
      OBVIOUS
    <3>3. r = Append(q, s[n + 1])
      BY <1>5
    <3> QED
      BY <3>1, <3>2, <3>3
  <2>2. Names(r) = Names(q) \cup {s[n + 1]}
    BY <1>1, <2>1, NamesAppend
  <2>3. /\ r[Len(q) + 1] = s[n + 1]
        /\ \A i \in 1 .. Len(q) : r[i] = q[i]
        /\ Len(q) \in Nat
    BY <1>1, <2>1
  <2>4. ASSUME NEW i \in 1 .. Len(r)
        PROVE  \E k \in 1 .. n + 1 : s[k] = r[i]
    <3>1. CASE i = Len(q) + 1
      BY <2>3, <3>1
    <3>2. CASE i \in 1 .. Len(q)
      BY <2>3, <3>2 DEF Follows
    <3> QED
      BY <2>1, <2>3, <3>1, <3>2
  <2>5. ASSUME NEW i \in 1 .. Len(r), NEW j \in 1 .. Len(r), i < j
        PROVE  \E k, l \in 1 .. n + 1 : s[k] = r[i] /\ s[l] = r[j] /\ k < l
    <3>1. i \in 1 .. Len(q)
      BY <2>1, <2>3, <2>5
    <3>2. CASE j = Len(q) + 1
      <4>1. PICK k \in 1 .. n : s[k] = q[i]
        BY <3>1 DEF Follows
      <4>2. k \in 1 .. n + 1 /\ n + 1 \in 1 .. n + 1 /\ k < n + 1
        OBVIOUS
      <4>3. s[k] = r[i] /\ s[n + 1] = r[j]
        BY <2>3, <3>1, <3>2, <4>1
      <4> QED
        BY <4>2, <4>3
    <3>3. CASE j \in 1 .. Len(q)
      <4>1. PICK k \in 1 .. n, l \in 1 .. n : s[k] = q[i] /\ s[l] = q[j] /\ k < l
        BY <2>5, <3>1, <3>3 DEF Follows
      <4>2. k \in 1 .. n + 1 /\ l \in 1 .. n + 1
        OBVIOUS
      <4>3. s[k] = r[i] /\ s[l] = r[j]
        BY <2>3, <3>1, <3>3, <4>1
      <4> QED
        BY <4>1, <4>2, <4>3
    <3> QED
      BY <2>1, <2>3, <3>2, <3>3
  <2>6. Follows(r, s, n + 1)
    BY <2>4, <2>5 DEF Follows
  <2> QED
    BY <1>2, <1>5, <2>1, <2>2, <2>6 DEF PickedFrom
<1> QED
  BY <1>4, <1>5

(* The loop over s picks the tasks of W in the order of s.                 *)
LEMMA PickedInOrder ==
  ASSUME NEW T, NEW W, NEW s \in Seq(T)
  PROVE  /\ Picked(s, W) \in Seq(T)
         /\ Names(Picked(s, W)) = Names(s) \cap W
         /\ Follows(Picked(s, W), s, Len(s))
<1> DEFINE q == CHOOSE f : Rounds(s, W, Len(s), f)
           Good(n) == PickedFrom(T, W, s, n, q[n])
           S == {n \in Nat : n <= Len(s) => Good(n)}
<1>0. Len(s) \in Nat
  OBVIOUS
<1>1. Rounds(s, W, Len(s), q)
  BY <1>0, RoundsExist
<1>2. Picked(s, W) = q[Len(s)]
  <2> DEFINE p == CHOOSE f : f = [i \in 0 .. Len(s) |->
                    IF i = 0 THEN <<>>
                    ELSE IF s[i] \in W THEN Append(f[i - 1], s[i]) ELSE f[i - 1]]
  <2>1. Picked(s, W) = p[Len(s)]
    BY DEF Picked
  <2>2. p = q
    BY DEF Rounds, Round
  <2> QED
    BY <2>1, <2>2
<1> HIDE DEF q
<1>3. 0 \in S
  <2>1. 0 \in 0 .. Len(s)
    BY <1>0
  <2>2. q[0] = <<>>
    BY <1>1, <2>1 DEF Rounds
  <2>3. Names(<<>>) = {} /\ FirstNames(s, 0) = {}
    BY DEF Names, FirstNames
  <2>4. Follows(<<>>, s, 0)
    BY DEF Follows
  <2>5. <<>> \in Seq(T)
    OBVIOUS
  <2>6. Good(0)
    BY <2>2, <2>3, <2>4, <2>5 DEF PickedFrom
  <2> QED
    BY <2>6
<1>4. ASSUME NEW n \in Nat, n \in S PROVE n + 1 \in S
  <2> SUFFICES ASSUME n + 1 <= Len(s) PROVE Good(n + 1)
    OBVIOUS
  <2>1. Good(n)
    BY <1>0, <1>4
  <2>2. n + 1 \in 0 .. Len(s) /\ n + 1 # 0 /\ (n + 1) - 1 = n
    BY <1>0
  <2>3. q[n + 1] = Round(s, W, q, n + 1)
    BY <1>1, <2>2 DEF Rounds
  <2>4. q[n + 1] = IF s[n + 1] \in W THEN Append(q[n], s[n + 1]) ELSE q[n]
    BY <2>2, <2>3 DEF Round
  <2> HIDE DEF q
  <2> QED
    BY <2>1, <2>4, RoundPicks
<1> HIDE DEF S
<1>5. Nat \subseteq S
  BY <1>3, <1>4, SetInduction
<1>6. Good(Len(s))
  BY <1>0, <1>5 DEF S
<1>7. FirstNames(s, Len(s)) = Names(s)
  BY DEF FirstNames, Names
<1> QED
  BY <1>2, <1>6, <1>7 DEF PickedFrom

(***************************************************************************)
(* Growing.  At any time the tasks grown so far are those whose sequences  *)
(* wait and those whose sequences are in the program, and the latter are   *)
(* the tasks that a caller grown so far has asked for.  So the sequences   *)
(* of one graph are emplaced all at once, when its first caller is grown.  *)
(***************************************************************************)
InTurn ==
    \A t, u \in Names(taskOrder) :
       Callers(t) = Callers(u) /\ Before(emplaceSchedule, t, u) =>
          Before(taskOrder, t, u)

AskedFor ==
    \A t \in Tasks : t \in Names(taskOrder) <=>
       \E i \in 1 .. grown : t \in SubgraphTasks(createSchedule[i])

MainInOrder ==
    \A i \in 1 .. Len(taskOrder) : \A c \in tasksMap[taskOrder[i]] :
       c.type \in {"Output", "Scheduler"} /\ Callers(taskOrder[i]) = {} =>
          \E j \in 1 .. i - 1 : taskOrder[j] \in c.tasks

GrowInv ==
    /\ taskOrder \in Seq(Tasks) /\ OnceEach(taskOrder)
    /\ phase \notin {"grow", "done"} => taskOrder = <<>> /\ seqs = {} /\ grown = 0
    /\ phase = "grow" =>
          /\ Names(taskOrder) \cap seqs = {}
          /\ Names(taskOrder) \cup seqs = FirstNames(createSchedule, grown)
          /\ AskedFor
    /\ phase = "done" => Names(taskOrder) = DOMAIN tasksMap /\ MainInOrder
    /\ phase \in {"grow", "done"} => InTurn

(* One sequence after another.                                             *)
LEMMA ConcatFacts ==
  ASSUME NEW S, NEW a \in Seq(S), NEW b \in Seq(S)
  PROVE  /\ a \o b \in Seq(S) /\ Len(a \o b) = Len(a) + Len(b)
         /\ Names(a \o b) = Names(a) \cup Names(b)
         /\ \A i \in 1 .. Len(a) : (a \o b)[i] = a[i]
         /\ \A i \in 1 .. Len(b) : (a \o b)[Len(a) + i] = b[i]
<1>1. /\ a \o b \in Seq(S) /\ Len(a \o b) = Len(a) + Len(b)
      /\ Len(a) \in Nat /\ Len(b) \in Nat
      /\ \A i \in 1 .. Len(a) : (a \o b)[i] = a[i]
      /\ \A i \in 1 .. Len(b) : (a \o b)[Len(a) + i] = b[i]
  OBVIOUS
<1>2. ASSUME NEW i \in 1 .. Len(a \o b)
      PROVE  (a \o b)[i] \in Names(a) \cup Names(b)
  <2>1. CASE i <= Len(a)
    BY <1>1, <2>1 DEF Names
  <2>2. CASE i > Len(a)
    <3>1. PICK j \in 1 .. Len(b) : i = Len(a) + j
      <4>1. i - Len(a) \in 1 .. Len(b) /\ i = Len(a) + (i - Len(a))
        BY <1>1, <2>2
      <4> QED
        BY <4>1
    <3> QED
      BY <1>1, <3>1 DEF Names
  <2> QED
    BY <1>1, <2>1, <2>2
<1>3. ASSUME NEW i \in 1 .. Len(a) PROVE a[i] \in Names(a \o b)
  <2>1. i \in 1 .. Len(a \o b)
    BY <1>1
  <2> QED
    BY <1>1, <2>1 DEF Names
<1>4. ASSUME NEW i \in 1 .. Len(b) PROVE b[i] \in Names(a \o b)
  <2>1. Len(a) + i \in 1 .. Len(a \o b)
    BY <1>1
  <2> QED
    BY <1>1, <2>1 DEF Names
<1>5. Names(a \o b) = Names(a) \cup Names(b)
  BY <1>2, <1>3, <1>4 DEF Names
<1> QED
  BY <1>1, <1>5

LEMMA ConcatOnce ==
  ASSUME NEW S, NEW a \in Seq(S), NEW b \in Seq(S),
         OnceEach(a), OnceEach(b), Names(a) \cap Names(b) = {}
  PROVE  OnceEach(a \o b)
<1> SUFFICES ASSUME NEW i \in 1 .. Len(a \o b), NEW j \in 1 .. Len(a \o b),
                    (a \o b)[i] = (a \o b)[j]
             PROVE  i = j
  BY DEF OnceEach
<1>1. Len(a) \in Nat /\ Len(b) \in Nat /\ Len(a \o b) = Len(a) + Len(b)
  OBVIOUS
<1>2. ASSUME NEW n \in 1 .. Len(a \o b)
      PROVE  \/ n \in 1 .. Len(a) /\ (a \o b)[n] = a[n] /\ a[n] \in Names(a)
             \/ /\ n - Len(a) \in 1 .. Len(b)
                /\ (a \o b)[n] = b[n - Len(a)] /\ b[n - Len(a)] \in Names(b)
  <2>1. CASE n <= Len(a)
    BY <1>1, <2>1, ConcatFacts DEF Names
  <2>2. CASE n > Len(a)
    <3>1. n - Len(a) \in 1 .. Len(b) /\ n = Len(a) + (n - Len(a))
      BY <1>1, <2>2
    <3>2. (a \o b)[n] = b[n - Len(a)]
      BY <3>1, ConcatFacts
    <3> QED
      BY <3>1, <3>2 DEF Names
  <2> QED
    BY <1>1, <2>1, <2>2
<1>3. CASE i \in 1 .. Len(a) /\ j \in 1 .. Len(a)
  <2>1. a[i] = a[j]
    BY <1>3, ConcatFacts
  <2> QED
    BY <1>3, <2>1 DEF OnceEach
<1>4. CASE ~(i \in 1 .. Len(a)) /\ ~(j \in 1 .. Len(a))
  <2>1. /\ i - Len(a) \in 1 .. Len(b) /\ j - Len(a) \in 1 .. Len(b)
        /\ b[i - Len(a)] = b[j - Len(a)]
    BY <1>2, <1>4
  <2>2. i - Len(a) = j - Len(a)
    BY <2>1 DEF OnceEach
  <2> QED
    BY <1>1, <2>2
<1>5. CASE ~(i \in 1 .. Len(a)) /\ j \in 1 .. Len(a)
  BY <1>2, <1>5
<1>6. CASE i \in 1 .. Len(a) /\ ~(j \in 1 .. Len(a))
  BY <1>2, <1>6
<1> QED
  BY <1>3, <1>4, <1>5, <1>6

(* Within either part the order is kept, and the first comes first.        *)
LEMMA ConcatBefore ==
  ASSUME NEW S, NEW a \in Seq(S), NEW b \in Seq(S), NEW t, NEW u,
         Before(a, t, u) \/ Before(b, t, u) \/ (t \in Names(a) /\ u \in Names(b))
  PROVE  Before(a \o b, t, u)
<1>1. Len(a) \in Nat /\ Len(b) \in Nat /\ Len(a \o b) = Len(a) + Len(b)
  OBVIOUS
<1>2. CASE Before(a, t, u)
  <2>1. PICK i \in 1 .. Len(a), j \in 1 .. Len(a) : a[i] = t /\ a[j] = u /\ i < j
    BY <1>2 DEF Before
  <2>2. /\ i \in 1 .. Len(a \o b) /\ j \in 1 .. Len(a \o b)
        /\ (a \o b)[i] = t /\ (a \o b)[j] = u
    BY <1>1, <2>1, ConcatFacts
  <2> QED
    BY <2>1, <2>2 DEF Before
<1>3. CASE Before(b, t, u)
  <2>1. PICK i \in 1 .. Len(b), j \in 1 .. Len(b) : b[i] = t /\ b[j] = u /\ i < j
    BY <1>3 DEF Before
  <2>2. /\ Len(a) + i \in 1 .. Len(a \o b) /\ Len(a) + j \in 1 .. Len(a \o b)
        /\ (a \o b)[Len(a) + i] = t /\ (a \o b)[Len(a) + j] = u
        /\ Len(a) + i < Len(a) + j
    BY <1>1, <2>1, ConcatFacts
  <2> QED
    BY <2>2 DEF Before
<1>4. CASE t \in Names(a) /\ u \in Names(b)
  <2>1. PICK i \in 1 .. Len(a), j \in 1 .. Len(b) : a[i] = t /\ b[j] = u
    BY <1>4 DEF Names
  <2>2. /\ i \in 1 .. Len(a \o b) /\ Len(a) + j \in 1 .. Len(a \o b)
        /\ (a \o b)[i] = t /\ (a \o b)[Len(a) + j] = u /\ i < Len(a) + j
    BY <1>1, <2>1, ConcatFacts
  <2> QED
    BY <2>2 DEF Before
<1> QED
  BY <1>2, <1>3, <1>4

(* What emplaceTaskSeqs emplaces.                                          *)
LEMMA EmplacedInOrder ==
  ASSUME IInv, phase = "grow", NEW F
  PROVE  /\ Emplaced(F) \in Seq(Tasks) /\ OnceEach(Emplaced(F))
         /\ Names(Emplaced(F)) = DOMAIN tasksMap \cap (F \cap seqs)
         /\ \A t, u \in Names(Emplaced(F)) :
               Before(emplaceSchedule, t, u) => Before(Emplaced(F), t, u)
<1>0. /\ emplaceSchedule \in Seq(Tasks) /\ OnceEach(emplaceSchedule)
      /\ Names(emplaceSchedule) = DOMAIN tasksMap
  BY DEF IInv, TypeOK, SchedulesCorrect
<1> DEFINE s == emplaceSchedule
           q == Emplaced(F)
<1>1. /\ q \in Seq(Tasks) /\ Names(q) = DOMAIN tasksMap \cap (F \cap seqs)
      /\ Follows(q, s, Len(s))
  BY <1>0, PickedInOrder DEF Emplaced
<1> HIDE DEF q, s
<1>2. s \in Seq(Tasks) /\ Len(s) \in Nat /\ Len(q) \in Nat
      /\ \A k, l \in 1 .. Len(s) : s[k] = s[l] => k = l
  BY <1>0, <1>1 DEF OnceEach, s
<1>3. ASSUME NEW i \in 1 .. Len(q), NEW j \in 1 .. Len(q), i < j
      PROVE  \E k, l \in 1 .. Len(s) : s[k] = q[i] /\ s[l] = q[j] /\ k < l
  BY <1>1, <1>3 DEF Follows
<1>4. ASSUME NEW i \in 1 .. Len(q), NEW j \in 1 .. Len(q), i < j, q[i] = q[j]
      PROVE  FALSE
  <2>1. PICK k \in 1 .. Len(s), l \in 1 .. Len(s) :
          s[k] = q[i] /\ s[l] = q[j] /\ k < l
    BY <1>3, <1>4
  <2>2. k = l
    BY <1>2, <1>4, <2>1
  <2> QED
    BY <2>1, <2>2
<1>5. OnceEach(q)
  <2>1. ASSUME NEW i \in 1 .. Len(q), NEW j \in 1 .. Len(q), q[i] = q[j]
        PROVE  i = j
    <3>1. ~(i < j) /\ ~(j < i)
      BY <1>4, <2>1
    <3> QED
      BY <1>2, <3>1
  <2> QED
    BY <2>1 DEF OnceEach
<1>6. ASSUME NEW t \in Names(q), NEW u \in Names(q), Before(s, t, u)
      PROVE  Before(q, t, u)
  <2>1. PICK k \in 1 .. Len(s), l \in 1 .. Len(s) : s[k] = t /\ s[l] = u /\ k < l
    BY <1>6 DEF Before
  <2>2. PICK i \in 1 .. Len(q), j \in 1 .. Len(q) : q[i] = t /\ q[j] = u
    BY DEF Names
  <2>3. ~(i = j)
    <3>1. ASSUME i = j PROVE FALSE
      <4>1. k = l
        BY <1>2, <2>1, <2>2, <3>1
      <4> QED
        BY <2>1, <4>1
    <3> QED
      BY <3>1
  <2>4. ~(j < i)
    <3>1. ASSUME j < i PROVE FALSE
      <4>1. PICK m \in 1 .. Len(s), n \in 1 .. Len(s) :
              s[m] = q[j] /\ s[n] = q[i] /\ m < n
        BY <1>3, <3>1
      <4>2. m = l /\ n = k
        BY <1>2, <2>1, <2>2, <4>1
      <4> QED
        BY <2>1, <4>1, <4>2
    <3> QED
      BY <3>1
  <2>5. i < j
    BY <1>2, <2>3, <2>4
  <2> QED
    BY <2>2, <2>5 DEF Before
<1> QED
  BY <1>1, <1>5, <1>6 DEF q, s
(* The tasks that a caller asks for are grown when it is.                  *)
LEMMA AskedAreGrown ==
  ASSUME IInv, phase = "grow", NEW i \in 1 .. Len(createSchedule)
  PROVE  /\ SubgraphTasks(createSchedule[i]) \subseteq FirstNames(createSchedule, i - 1)
         /\ createSchedule[i] \notin FirstNames(createSchedule, i - 1)
         /\ createSchedule[i] \in DOMAIN tasksMap
         /\ createSchedule[i] \in Tasks
<1>1. /\ createSchedule \in Seq(Tasks) /\ OnceEach(createSchedule)
      /\ Names(createSchedule) = DOMAIN tasksMap
      /\ InOrder(createSchedule, {"Output", "SubGraph", "Tensor"})
      /\ given \in Lowerings
  BY DEF IInv, TypeOK, SchedulesCorrect
<1>2. createSchedule[i] \in DOMAIN tasksMap
  BY <1>1 DEF Names
<1>3. ASSUME NEW u \in SubgraphTasks(createSchedule[i])
      PROVE  u \in FirstNames(createSchedule, i - 1)
  <2>1. PICK c \in tasksMap[createSchedule[i]] : c.type = "SubGraph" /\ u \in c.tasks
    BY DEF SubgraphTasks
  <2>2. PICK j \in 1 .. i - 1 : createSchedule[j] \in c.tasks
    BY <1>1, <2>1 DEF InOrder
  <2>3. /\ createSchedule[i] \in DOMAIN given
        /\ c \in given[createSchedule[i]].clauses
    BY <1>2, <2>1 DEF IInv, Tasksmap
  <2>4. PICK v \in Tasks : c.tasks = {v}
    BY <1>1, <2>1, <2>3, LoweringsAssumption
  <2>5. createSchedule[j] = u
    BY <2>1, <2>2, <2>4
  <2> QED
    BY <2>2, <2>5 DEF FirstNames
<1>4. ASSUME NEW j \in 1 .. i - 1 PROVE createSchedule[j] # createSchedule[i]
  <2>1. j \in 1 .. Len(createSchedule) /\ j # i
    BY <1>1
  <2> QED
    BY <1>1, <2>1 DEF OnceEach
<1> QED
  BY <1>1, <1>2, <1>3, <1>4 DEF FirstNames

(* Two tasks of a graph are in the program both or not at all.             *)
LEMMA TogetherIn ==
  ASSUME IInv, GrowInv, phase = "grow", NEW t, NEW u,
         t \in Names(taskOrder), u \in Tasks, Callers(t) = Callers(u)
  PROVE  u \in Names(taskOrder)
<1>1. t \in Tasks /\ AskedFor /\ grown \in 0 .. Len(createSchedule)
      /\ Len(createSchedule) \in Nat
  BY DEF GrowInv, Names, IInv, TypeOK
<1>2. PICK i \in 1 .. grown : t \in SubgraphTasks(createSchedule[i])
  BY <1>1 DEF AskedFor
<1>3. createSchedule[i] \in DOMAIN tasksMap
  BY <1>1, <1>2, AskedAreGrown
<1>4. u \in SubgraphTasks(createSchedule[i])
  BY <1>2, <1>3 DEF Callers
<1> QED
  BY <1>1, <1>2, <1>4 DEF AskedFor

(* Putting sequences that wait behind those in the program, of whole       *)
(* graphs if of any, keeps the order within each graph.                    *)
LEMMA EmplaceStep ==
  ASSUME IInv, GrowInv, phase = "grow", NEW F,
         taskOrder' = taskOrder \o Emplaced(F),
         UNCHANGED <<tasksMap, emplaceSchedule>>
  PROVE  /\ taskOrder' \in Seq(Tasks) /\ OnceEach(taskOrder') /\ InTurn'
         /\ Names(taskOrder') = Names(taskOrder) \cup (DOMAIN tasksMap \cap (F \cap seqs))
<1> DEFINE e == Emplaced(F)
<1>1. /\ taskOrder \in Seq(Tasks) /\ OnceEach(taskOrder)
      /\ Names(taskOrder) \cap seqs = {} /\ InTurn
  BY DEF GrowInv
<1>2. /\ e \in Seq(Tasks) /\ OnceEach(e)
      /\ Names(e) = DOMAIN tasksMap \cap (F \cap seqs)
      /\ \A t, u \in Names(e) : Before(emplaceSchedule, t, u) => Before(e, t, u)
  BY EmplacedInOrder
<1> HIDE DEF e
<1>3. taskOrder' = taskOrder \o e
  BY DEF e
<1>4. /\ taskOrder' \in Seq(Tasks) /\ Names(taskOrder') = Names(taskOrder) \cup Names(e)
  BY <1>1, <1>2, <1>3, ConcatFacts
<1>5. OnceEach(taskOrder')
  BY <1>1, <1>2, <1>3, ConcatOnce
<1>6. ASSUME NEW t \in Names(taskOrder'), NEW u \in Names(taskOrder'),
             Callers(t) = Callers(u), Before(emplaceSchedule, t, u)
      PROVE  Before(taskOrder', t, u)
  <2>1. t \in Tasks /\ u \in Tasks
    BY <1>4 DEF Names
  <2>2. CASE t \in Names(taskOrder)
    <3>1. u \in Names(taskOrder)
      BY <1>6, <2>1, <2>2, TogetherIn
    <3>2. Before(taskOrder, t, u)
      BY <1>1, <1>6, <2>2, <3>1 DEF InTurn
    <3> QED
      BY <1>1, <1>2, <1>3, <3>2, ConcatBefore
  <2>3. CASE t \notin Names(taskOrder)
    <3>1. u \notin Names(taskOrder)
      BY <1>6, <2>1, <2>3, TogetherIn
    <3>2. t \in Names(e) /\ u \in Names(e)
      BY <1>4, <2>3, <3>1
    <3>3. Before(e, t, u)
      BY <1>2, <1>6, <3>2
    <3> QED
      BY <1>1, <1>2, <1>3, <3>3, ConcatBefore
  <2> QED
    BY <2>2, <2>3
<1>7. \A t : Callers(t)' = Callers(t)
  BY DEF Callers, SubgraphTasks
<1>8. InTurn'
  BY <1>6, <1>7 DEF InTurn, Before
<1> QED
  BY <1>2, <1>4, <1>5, <1>8

LEMMA GrowStep ==
  ASSUME IInv, GrowInv, Grow
  PROVE  GrowInv'
<1> DEFINE t == createSchedule[grown + 1]
           Asked == SubgraphTasks(t)
<1>0. /\ phase = "grow" /\ phase' = "grow" /\ grown' = grown + 1
      /\ taskOrder' = taskOrder \o Emplaced(Asked)
      /\ seqs' = (seqs \ Asked) \cup {t}
      /\ UNCHANGED <<tasksMap, createSchedule, emplaceSchedule>>
      /\ grown \in Nat /\ grown + 1 \in 1 .. Len(createSchedule)
  <2>1. /\ grown \in 0 .. Len(createSchedule) /\ grown < Len(createSchedule)
        /\ createSchedule \in Seq(Tasks)
    BY DEF Grow, IInv, TypeOK
  <2>2. grown \in Nat /\ grown + 1 \in 1 .. Len(createSchedule)
    BY <2>1
  <2> QED
    BY <2>2 DEF Grow, Filter
<1>1. /\ Names(taskOrder) \cap seqs = {} /\ AskedFor
      /\ Names(taskOrder) \cup seqs = FirstNames(createSchedule, grown)
  BY <1>0 DEF GrowInv
<1>2. /\ Asked \subseteq FirstNames(createSchedule, grown)
      /\ t \notin FirstNames(createSchedule, grown)
      /\ t \in DOMAIN tasksMap /\ t \in Tasks
  <2>1. (grown + 1) - 1 = grown
    BY <1>0
  <2> QED
    BY <1>0, <2>1, AskedAreGrown
<1>3. FirstNames(createSchedule, grown) \subseteq DOMAIN tasksMap
  <2>1. /\ createSchedule \in Seq(Tasks) /\ Names(createSchedule) = DOMAIN tasksMap
    BY <1>0 DEF IInv, TypeOK, SchedulesCorrect
  <2> QED
    BY <1>0, <2>1 DEF FirstNames, Names
<1> HIDE DEF Asked
<1>4. /\ taskOrder' \in Seq(Tasks) /\ OnceEach(taskOrder') /\ InTurn'
      /\ Names(taskOrder') = Names(taskOrder) \cup (DOMAIN tasksMap \cap (Asked \cap seqs))
  BY <1>0, EmplaceStep
<1>5. Names(taskOrder') = Names(taskOrder) \cup Asked
  BY <1>1, <1>2, <1>3, <1>4
<1>6. FirstNames(createSchedule, grown + 1) = FirstNames(createSchedule, grown) \cup {t}
  BY <1>0 DEF FirstNames
<1>7. /\ Names(taskOrder') \cap seqs' = {}
      /\ Names(taskOrder') \cup seqs' = FirstNames(createSchedule', grown')
  BY <1>0, <1>1, <1>2, <1>5, <1>6
<1>8. AskedFor'
  <2>1. \A u : SubgraphTasks(u)' = SubgraphTasks(u)
    BY <1>0 DEF SubgraphTasks
  <2> SUFFICES ASSUME NEW u \in Tasks
               PROVE  u \in Names(taskOrder') <=>
                        \E i \in 1 .. grown + 1 : u \in SubgraphTasks(createSchedule[i])
    BY <1>0, <2>1 DEF AskedFor
  <2>2. u \in Names(taskOrder) <=>
          \E i \in 1 .. grown : u \in SubgraphTasks(createSchedule[i])
    BY <1>1 DEF AskedFor
  <2>3. u \in Names(taskOrder') <=> u \in Names(taskOrder) \/ u \in Asked
    BY <1>5
  <2>4. \A i \in 1 .. grown + 1 : i \in 1 .. grown \/ i = grown + 1
    BY <1>0
  <2>5. \A i \in 1 .. grown : i \in 1 .. grown + 1
    BY <1>0
  <2> QED
    BY <1>0, <2>2, <2>3, <2>4, <2>5 DEF Asked
<1> QED
  BY <1>0, <1>4, <1>7, <1>8 DEF GrowInv

LEMMA RestStep ==
  ASSUME IInv, GrowInv, EmplaceRest
  PROVE  GrowInv'
<1> DEFINE e == Emplaced(DOMAIN tasksMap)
<1>0. /\ phase = "grow" /\ phase' = "done" /\ grown = Len(createSchedule)
      /\ taskOrder' = taskOrder \o e
      /\ UNCHANGED <<tasksMap, createSchedule, emplaceSchedule, grown>>
  BY DEF EmplaceRest
<1>1. /\ taskOrder \in Seq(Tasks) /\ AskedFor
      /\ Names(taskOrder) \cup seqs = FirstNames(createSchedule, grown)
  BY <1>0 DEF GrowInv
<1>2. /\ createSchedule \in Seq(Tasks) /\ Names(createSchedule) = DOMAIN tasksMap
      /\ emplaceSchedule \in Seq(Tasks) /\ Names(emplaceSchedule) = DOMAIN tasksMap
      /\ InOrder(emplaceSchedule, {"Output", "Scheduler"})
  BY <1>0 DEF IInv, TypeOK, SchedulesCorrect
<1>3. FirstNames(createSchedule, grown) = DOMAIN tasksMap
  BY <1>0, <1>2 DEF FirstNames, Names
<1>4. /\ e \in Seq(Tasks)
      /\ Names(e) = DOMAIN tasksMap \cap (DOMAIN tasksMap \cap seqs)
      /\ \A t, u \in Names(e) : Before(emplaceSchedule, t, u) => Before(e, t, u)
  BY <1>0, EmplacedInOrder
<1>5. /\ taskOrder' \in Seq(Tasks) /\ OnceEach(taskOrder') /\ InTurn'
      /\ Names(taskOrder')
           = Names(taskOrder) \cup (DOMAIN tasksMap \cap (DOMAIN tasksMap \cap seqs))
  BY <1>0, EmplaceStep
<1> HIDE DEF e
<1>6. Names(taskOrder') = DOMAIN tasksMap'
  BY <1>0, <1>1, <1>3, <1>5
<1>7. MainInOrder'
  <2>1. \A u : Callers(u)' = Callers(u)
    BY <1>0 DEF Callers, SubgraphTasks
  <2> SUFFICES ASSUME NEW i \in 1 .. Len(taskOrder'),
                      NEW c \in tasksMap[taskOrder'[i]],
                      c.type \in {"Output", "Scheduler"},
                      Callers(taskOrder'[i]) = {}
               PROVE  \E j \in 1 .. i - 1 : taskOrder'[j] \in c.tasks
    BY <1>0, <2>1 DEF MainInOrder
  <2> DEFINE u == taskOrder'[i]
  <2>2. u \in DOMAIN tasksMap /\ u \in Tasks
    BY <1>0, <1>5, <1>6 DEF Names
  <2>3. u \notin Names(taskOrder)
    <3>1. ASSUME u \in Names(taskOrder) PROVE FALSE
      <4>1. PICK k \in 1 .. grown : u \in SubgraphTasks(createSchedule[k])
        BY <1>1, <2>2, <3>1 DEF AskedFor
      <4>2. createSchedule[k] \in DOMAIN tasksMap
        BY <1>0, <1>2, <4>1 DEF Names
      <4> QED
        BY <4>1, <4>2 DEF Callers
    <3> QED
      BY <3>1
  <2>4. u \in Names(e)
    BY <1>4, <1>5, <1>6, <1>0, <2>2, <2>3
  <2>5. PICK l \in 1 .. Len(emplaceSchedule) : emplaceSchedule[l] = u
    BY <1>2, <2>2 DEF Names
  <2>6. PICK k \in 1 .. l - 1 : emplaceSchedule[k] \in c.tasks
    BY <1>2, <2>5 DEF InOrder
  <2> DEFINE v == emplaceSchedule[k]
  <2>7. /\ k \in 1 .. Len(emplaceSchedule) /\ v \in DOMAIN tasksMap
        /\ Before(emplaceSchedule, v, u)
    <3>1. k \in 1 .. Len(emplaceSchedule) /\ k < l
      BY <1>2, <2>5, <2>6
    <3> QED
      BY <1>2, <2>5, <3>1 DEF Before, Names
  <2>8. v \in Names(taskOrder) \/ v \in Names(e)
    BY <1>0, <1>4, <1>5, <1>6, <2>7
  <2>9. Before(taskOrder', v, u)
    BY <1>0, <1>1, <1>4, <2>4, <2>7, <2>8, ConcatBefore
  <2>10. PICK j \in 1 .. Len(taskOrder'), n \in 1 .. Len(taskOrder') :
           taskOrder'[j] = v /\ taskOrder'[n] = u /\ j < n
    BY <2>9 DEF Before
  <2>11. n = i
    BY <1>5, <2>10 DEF OnceEach
  <2>12. j \in 1 .. i - 1
    BY <1>5, <2>10, <2>11
  <2> QED
    BY <2>6, <2>10, <2>12
<1> QED
  BY <1>0, <1>5, <1>6, <1>7 DEF GrowInv

LEMMA GrowInvStep ==
  ASSUME IInv, GrowInv, [Next]_vars
  PROVE  GrowInv'
<1> USE DEF scheduling, growth
<1>1. CASE Grow
  BY <1>1, GrowStep
<1>2. CASE EmplaceRest
  BY <1>2, RestStep
<1>3. CASE UNCHANGED vars
  <2>1. /\ UNCHANGED <<phase, tasksMap, createSchedule, emplaceSchedule, grown,
                       seqs, taskOrder>>
        /\ \A t : Callers(t)' = Callers(t)
        /\ \A t : SubgraphTasks(t)' = SubgraphTasks(t)
    BY <1>3 DEF vars, Callers, SubgraphTasks
  <2>2. /\ AskedFor' <=> AskedFor
        /\ InTurn' <=> InTurn
        /\ MainInOrder' <=> MainInOrder
    BY <2>1 DEF AskedFor, InTurn, MainInOrder
  <2> QED
    BY <2>1, <2>2 DEF GrowInv
<1>4. ASSUME phase \notin {"grow", "done"}, UNCHANGED <<grown, seqs, taskOrder>>,
             phase' \notin {"grow", "done"}
      PROVE  GrowInv'
  BY <1>4 DEF GrowInv
<1>5. ASSUME NEW t \in Tasks, Add(t) PROVE GrowInv'
  BY <1>4, <1>5 DEF Add
<1>6. CASE StartLinearised
  BY <1>4, <1>6 DEF StartLinearised, Linearising
<1>7. ASSUME NEW t \in DOMAIN tasksMap, Pop(t) \/ Fallback(t) PROVE GrowInv'
  BY <1>4, <1>7 DEF Pop, Fallback, Linearising
<1>8. CASE Fail
  BY <1>4, <1>8 DEF Fail, Linearising
<1>9. CASE Linearised
  <2>1. /\ phase \in {"create", "emplace"} /\ phase' \in {"emplace", "grow"}
        /\ UNCHANGED <<grown, seqs, taskOrder>>
    BY <1>9 DEF Linearised, Linearising
  <2>2. taskOrder = <<>> /\ seqs = {} /\ grown = 0 /\ OnceEach(taskOrder)
    BY <2>1 DEF GrowInv
  <2>3. Names(taskOrder') = {} /\ FirstNames(createSchedule', grown') = {}
    BY <2>1, <2>2 DEF Names, FirstNames
  <2>4. AskedFor' /\ InTurn'
    BY <2>1, <2>2, <2>3 DEF AskedFor, InTurn
  <2> QED
    BY <2>1, <2>2, <2>3, <2>4 DEF GrowInv
<1> QED
  BY <1>1, <1>2, <1>3, <1>5, <1>6, <1>7, <1>8, <1>9 DEF Next

(* The order so far, what waits in seqs and how far the first order is     *)
(* grown agree, for all tasks and clauses (GrowInv).                       *)
THEOREM GrowInvariance == Spec => []GrowInv
<1>1. Init => GrowInv
  BY DEF Init, GrowInv, OnceEach
<1>2. IInv /\ GrowInv /\ [Next]_vars => GrowInv'
  BY GrowInvStep
<1> QED
  BY <1>1, <1>2, Invariance, PTL DEF Spec

(* When a caller is grown, the sequences of all graphs that it calls are   *)
(* in the program (SubgraphBeforeCaller), for all tasks and clauses.       *)
THEOREM GraphsBeforeCallers == Spec => []SubgraphBeforeCaller
<1>1. ASSUME IInv, GrowInv PROVE SubgraphBeforeCaller
  <2> SUFFICES ASSUME phase \in {"grow", "done"}, NEW i \in 1 .. grown,
                      NEW u \in SubgraphTasks(createSchedule[i])
               PROVE  u \in Names(taskOrder)
    BY DEF SubgraphBeforeCaller
  <2>1. /\ createSchedule \in Seq(Tasks) /\ grown \in 0 .. Len(createSchedule)
        /\ given \in Lowerings /\ Names(createSchedule) = DOMAIN tasksMap
        /\ InOrder(createSchedule, {"Output", "SubGraph", "Tensor"})
    BY <1>1 DEF IInv, TypeOK, SchedulesCorrect
  <2>2. i \in 1 .. Len(createSchedule)
    BY <2>1
  <2>3. PICK c \in tasksMap[createSchedule[i]] : c.type = "SubGraph" /\ u \in c.tasks
    BY DEF SubgraphTasks
  <2>4. createSchedule[i] \in DOMAIN tasksMap
    BY <2>1, <2>2 DEF Names
  <2>5. PICK v \in Tasks : c.tasks = {v}
    <3>1. /\ createSchedule[i] \in DOMAIN given
          /\ c \in given[createSchedule[i]].clauses
      BY <1>1, <2>3, <2>4 DEF IInv, Tasksmap
    <3> QED
      BY <2>1, <2>3, <3>1, LoweringsAssumption
  <2>6. u \in Tasks
    BY <2>3, <2>5
  <2>7. CASE phase = "grow"
    BY <1>1, <2>6, <2>7 DEF GrowInv, AskedFor
  <2>8. CASE phase = "done"
    <3>1. PICK j \in 1 .. i - 1 : createSchedule[j] \in c.tasks
      BY <2>1, <2>2, <2>3 DEF InOrder
    <3>2. createSchedule[j] = u /\ j \in 1 .. Len(createSchedule)
      BY <2>1, <2>2, <2>3, <2>5, <3>1
    <3>3. u \in DOMAIN tasksMap
      BY <2>1, <3>2 DEF Names
    <3> QED
      BY <1>1, <2>8, <3>3 DEF GrowInv
  <2> QED
    BY <2>7, <2>8
<1> QED
  BY <1>1, Invariance, GrowInvariance, PTL

(* Every sequence is emplaced once, those of the main graph after what     *)
(* they depend on, and those of each graph in the order of the second      *)
(* schedule (ProgramInOrder).                                              *)
THEOREM ProgramCorrect == Spec => []ProgramInOrder
<1>1. ASSUME GrowInv PROVE ProgramInOrder
  BY <1>1 DEF GrowInv, ProgramInOrder, MainInOrder, InTurn
<1> QED
  BY <1>1, GrowInvariance, PTL
=============================================================================
