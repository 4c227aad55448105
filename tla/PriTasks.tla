------------------------------ MODULE PriTasks ------------------------------
(***************************************************************************)
(* The tasks that lower a model to a Poplar program (popx/pritask.cpp), as *)
(* IrLowering::prepareGraph uses them (popx/irlowering.cpp): they are      *)
(* added, brought into two orders, one in which tensors and sequences are  *)
(* created and one in which sequences are put into the program, and then   *)
(* grown and emplaced along those.                                         *)
(*                                                                         *)
(* A task has a priority and clauses.  A clause has a type and a set of    *)
(* tasks, any one of which satisfies it (PriTaskDependency).  The lowering *)
(* asks for a subgraph's tasks one by one, so that clauses of type         *)
(* SubGraph have one task.                                                 *)
(***************************************************************************)
EXTENDS Integers, FiniteSets, Sequences

CONSTANTS Tasks,      \* names of tasks
          Lowerings   \* the sets of tasks that a model may lead to

VARIABLES given,      \* the tasks of the model: for each a priority, clauses, init
          phase,      \* "add", "create", "emplace", "grow", "done", or
                      \* "refused", "unknown", "failed": the exceptions
          tasksMap,   \* the clauses of the tasks added so far
          started,    \* whether the present linearisation has begun
          remaining, queued, linearised,   \* its state
          createSchedule, emplaceSchedule, \* its results
          grown,      \* how far the creation of sequences has come
          seqs,       \* tasks whose sequences wait to be emplaced
          taskOrder   \* the sequences emplaced

scheduling == <<started, remaining, queued, linearised>>
growth == <<grown, seqs, taskOrder>>
vars == <<given, phase, tasksMap, scheduling, createSchedule, emplaceSchedule, growth>>

Types == {"Output", "Tensor", "Scheduler", "SubGraph"}
Clauses == [type : Types, tasks : SUBSET Tasks]
Names(s) == {s[i] : i \in 1 .. Len(s)}

ASSUME LoweringsAssumption ==
    \A g \in Lowerings :
       /\ IsFiniteSet(DOMAIN g) /\ DOMAIN g \subseteq Tasks
       /\ \A t \in DOMAIN g :
             /\ g[t].priority \in Int /\ g[t].init \in BOOLEAN
             /\ g[t].clauses \subseteq Clauses
             /\ \A c \in g[t].clauses :
                   c.type = "SubGraph" => \E u \in Tasks : c.tasks = {u}

Init ==
    /\ given \in Lowerings
    /\ phase = "add"
    /\ tasksMap = <<>>
    /\ started = FALSE /\ remaining = <<>> /\ queued = <<>> /\ linearised = <<>>
    /\ createSchedule = <<>> /\ emplaceSchedule = <<>>
    /\ grown = 0 /\ seqs = {} /\ taskOrder = <<>>

(***************************************************************************)
(* PriTasks::add.                                                          *)
(***************************************************************************)
Circular(t, c) ==
    /\ c.tasks # {}
    /\ \A u \in c.tasks :
          /\ u \in DOMAIN tasksMap
          /\ [type |-> "Output", tasks |-> {t}] \in tasksMap[u]

Add(t) ==
    /\ phase = "add" /\ t \in DOMAIN given \ DOMAIN tasksMap
    /\ IF \E c \in given[t].clauses : Circular(t, c)
       THEN phase' = "refused" /\ UNCHANGED tasksMap
       ELSE /\ tasksMap' = [u \in DOMAIN tasksMap \cup {t} |-> given[u].clauses]
            /\ phase' = IF DOMAIN tasksMap' = DOMAIN given THEN "create" ELSE "add"
    /\ UNCHANGED <<given, scheduling, createSchedule, emplaceSchedule, growth>>

(***************************************************************************)
(* PriTasks::getLinearised, called for each of the two schedules.          *)
(***************************************************************************)
Linearising == phase \in {"create", "emplace"}

Retained == IF phase = "create" THEN {"Output", "SubGraph", "Tensor"}
            ELSE {"Output", "Scheduler"}
AllowFallback == phase = "create"
RetainedOf(clauses) == {c \in clauses : c.type \in Retained}

StartLinearised ==
    /\ Linearising /\ ~started
    /\ IF \E t \in DOMAIN tasksMap : \E c \in RetainedOf(tasksMap[t]) :
             ~(c.tasks \subseteq DOMAIN tasksMap)
       THEN phase' = "unknown" /\ UNCHANGED scheduling
       ELSE /\ started' = TRUE
            /\ remaining' = [t \in DOMAIN tasksMap |-> RetainedOf(tasksMap[t])]
            /\ queued' = [t \in DOMAIN tasksMap |->
                             IF RetainedOf(tasksMap[t]) = {} THEN 1 ELSE 0]
            /\ linearised' = <<>>
            /\ UNCHANGED phase
    /\ UNCHANGED <<given, tasksMap, createSchedule, emplaceSchedule, growth>>

(* Mutant: a clause needs all of its tasks. *)
removeDepOfAll(clauses, t) == clauses \ {c \in clauses : c.tasks = {t}}

removeDep(clauses, t) == {c \in clauses : t \notin c.tasks}

(* Mutant: children are queued whenever they have nothing left to wait for. *)
BecomesFreeAgain(old, new) == new = {}

BecomesFree(old, new) == old # new /\ new = {}

(* One round of the loop in schedule: any queued task of highest priority. *)
Pop(t) ==
    /\ Linearising /\ started
    /\ queued[t] > 0
    /\ \A u \in DOMAIN queued : queued[u] > 0 => given[u].priority <= given[t].priority
    /\ linearised' = Append(linearised, t)
    /\ remaining' = [u \in DOMAIN remaining |-> removeDep(remaining[u], t)]
    /\ queued' = [u \in DOMAIN queued |->
                     queued[u] - (IF u = t THEN 1 ELSE 0)
                       + (IF BecomesFree(remaining[u], remaining'[u]) THEN 1 ELSE 0)]
    /\ UNCHANGED <<given, phase, tasksMap, started, createSchedule, emplaceSchedule, growth>>

QueueEmpty == \A t \in DOMAIN queued : queued[t] = 0
AllScheduled == Len(linearised) = Cardinality(DOMAIN tasksMap)
Unscheduled == DOMAIN tasksMap \ Names(linearised)

Linearised ==
    /\ Linearising /\ started /\ QueueEmpty /\ AllScheduled
    /\ IF phase = "create"
       THEN createSchedule' = linearised /\ phase' = "emplace" /\ UNCHANGED emplaceSchedule
       ELSE emplaceSchedule' = linearised /\ phase' = "grow" /\ UNCHANGED createSchedule
    /\ started' = FALSE
    /\ UNCHANGED <<given, tasksMap, remaining, queued, linearised, growth>>

Replaceable(t) == t \in Unscheduled /\ given[t].init

(* Mutant: the alternative is not queued. *)
RequeuedNot(t) == queued

Requeued(t) == [queued EXCEPT ![t] = @ + 1]

(* The task of a tensor is replaced by one that depends on nothing; which  *)
(* one comes first is up to the order of an unordered_map.                 *)
Fallback(t) ==
    /\ Linearising /\ started /\ QueueEmpty /\ ~AllScheduled /\ AllowFallback
    /\ Replaceable(t)
    /\ tasksMap' = [tasksMap EXCEPT ![t] = {}]
    /\ remaining' = [remaining EXCEPT ![t] = {}]
    /\ queued' = Requeued(t)
    /\ UNCHANGED <<given, phase, started, linearised, createSchedule, emplaceSchedule, growth>>

Fail ==
    /\ Linearising /\ started /\ QueueEmpty /\ ~AllScheduled
    /\ AllowFallback => ~\E t \in DOMAIN tasksMap : Replaceable(t)
    /\ phase' = "failed"
    /\ UNCHANGED <<given, tasksMap, scheduling, createSchedule, emplaceSchedule, growth>>

(***************************************************************************)
(* Growing.                                                                *)
(***************************************************************************)
SubgraphTasks(t) == UNION {c.tasks : c \in {d \in tasksMap[t] : d.type = "SubGraph"}}

(* The loop over a schedule s that picks the tasks in W. *)
Picked(s, W) ==
    LET upTo[n \in 0 .. Len(s)] ==
          IF n = 0 THEN <<>>
          ELSE IF s[n] \in W THEN Append(upTo[n - 1], s[n]) ELSE upTo[n - 1]
    IN  upTo[Len(s)]

(* Mutant: sequences are put into the program in the order of creation. *)
EmplacedAsCreated(filter) == Picked(createSchedule, filter \cap seqs)

(* emplaceTaskSeqs: those of the filter that wait, in the second order. *)
Emplaced(filter) == Picked(emplaceSchedule, filter \cap seqs)

(* Mutant: a caller is grown first. *)
FilterLate(t) == {}

Filter(t) == SubgraphTasks(t)

Grow ==
    /\ phase = "grow" /\ grown < Len(createSchedule)
    /\ LET t == createSchedule[grown + 1]
       IN  /\ taskOrder' = taskOrder \o Emplaced(Filter(t))
           /\ seqs' = (seqs \ Filter(t)) \cup {t}
    /\ grown' = grown + 1
    /\ UNCHANGED <<given, phase, tasksMap, scheduling, createSchedule, emplaceSchedule>>

EmplaceRest ==
    /\ phase = "grow" /\ grown = Len(createSchedule)
    /\ taskOrder' = taskOrder \o Emplaced(DOMAIN tasksMap)
    /\ seqs' = {}
    /\ phase' = "done"
    /\ UNCHANGED <<given, tasksMap, scheduling, createSchedule, emplaceSchedule, grown>>

Next == \/ \E t \in Tasks : Add(t)
        \/ StartLinearised
        \/ \E t \in DOMAIN tasksMap : Pop(t)
        \/ \E t \in DOMAIN tasksMap : Fallback(t)
        \/ Linearised \/ Fail \/ Grow \/ EmplaceRest

Spec == Init /\ [][Next]_vars

(* One thread runs it all. *)
FairSpec == Spec /\ WF_vars(Next)
-----------------------------------------------------------------------------
TypeOK ==
    /\ given \in Lowerings
    /\ phase \in {"add", "create", "emplace", "grow", "done", "refused", "unknown", "failed"}
    /\ DOMAIN tasksMap \subseteq DOMAIN given
    /\ \A t \in DOMAIN tasksMap : tasksMap[t] \subseteq Clauses
    /\ started \in BOOLEAN
    /\ started => /\ remaining \in [DOMAIN tasksMap -> SUBSET Clauses]
                  /\ queued \in [DOMAIN tasksMap -> {0, 1}]
    /\ {linearised, createSchedule, emplaceSchedule} \subseteq Seq(Tasks)
    /\ grown \in 0 .. Len(createSchedule) /\ seqs \subseteq Tasks

InOrder(order, types) ==
    \A i \in 1 .. Len(order) : \A c \in tasksMap[order[i]] :
       c.type \in types => \E j \in 1 .. i - 1 : order[j] \in c.tasks

OnceEach(order) == \A i, j \in 1 .. Len(order) : order[i] = order[j] => i = j

(* What is linearised so far, or has been, has no task twice and none      *)
(* before a clause of it is satisfied, also when clauses were dropped on   *)
(* the way; a result has all tasks, though only their number is compared.  *)
SchedulesCorrect ==
    /\ Linearising /\ started => OnceEach(linearised) /\ InOrder(linearised, Retained)
    /\ phase \in {"emplace", "grow", "done"} =>
          /\ OnceEach(createSchedule) /\ Names(createSchedule) = DOMAIN tasksMap
          /\ InOrder(createSchedule, {"Output", "SubGraph", "Tensor"})
    /\ phase \in {"grow", "done"} =>
          /\ OnceEach(emplaceSchedule) /\ Names(emplaceSchedule) = DOMAIN tasksMap
          /\ InOrder(emplaceSchedule, {"Output", "Scheduler"})

(* Some tasks wait for one another: each has a clause within the set. *)
Stuck(U, clauses, types) ==
    U # {} /\ \A t \in U : \E c \in clauses[t] : c.type \in types /\ c.tasks \subseteq U

GivenClauses == [t \in DOMAIN tasksMap |-> given[t].clauses]
CreateTypes == {"Output", "SubGraph", "Tensor"}

(* An order is given up only if none exists: tasks that wait for one       *)
(* another are left, and, where tasks may be replaced, none of them can    *)
(* be, whichever the algorithm has replaced before.                        *)
FailsOnlyIfImpossible ==
    phase = "failed" =>
       \E U \in SUBSET DOMAIN tasksMap :
          \/ createSchedule = <<>> /\ Stuck(U, GivenClauses, CreateTypes)
               /\ \A t \in U : ~given[t].init
          \/ Stuck(U, tasksMap, {"Output", "Scheduler"})

(* The way a tensor is created is given up only for a circle that could    *)
(* not be broken otherwise.                                                *)
Replaced == {t \in DOMAIN tasksMap : tasksMap[t] # given[t].clauses}
ReplacedOnlyIfStuck ==
    Replaced # {} => \E U \in SUBSET DOMAIN tasksMap : Stuck(U, GivenClauses, CreateTypes)

(* When a caller is grown, the sequences of the graph that it calls are in *)
(* place.                                                                  *)
SubgraphBeforeCaller ==
    phase \in {"grow", "done"} =>
       \A i \in 1 .. grown : SubgraphTasks(createSchedule[i]) \subseteq Names(taskOrder)

(* Every sequence is emplaced once; those of the main graph satisfy the    *)
(* order of the schedule, and those of any one graph come in it.  The      *)
(* tasks of a graph have the same callers, since a caller asks for all of  *)
(* its called graphs; those of two graphs that one op calls may be parted, *)
(* if one of the graphs is called earlier as well.                         *)
Callers(t) == {u \in DOMAIN tasksMap : t \in SubgraphTasks(u)}
Before(order, t, u) ==
    \E i, j \in 1 .. Len(order) : order[i] = t /\ order[j] = u /\ i < j
ProgramInOrder ==
    /\ taskOrder \in Seq(Tasks) /\ OnceEach(taskOrder)
    /\ phase = "done" =>
         /\ Names(taskOrder) = DOMAIN tasksMap
         /\ \A i \in 1 .. Len(taskOrder) : \A c \in tasksMap[taskOrder[i]] :
               c.type \in {"Output", "Scheduler"} /\ Callers(taskOrder[i]) = {} =>
                  \E j \in 1 .. i - 1 : taskOrder[j] \in c.tasks
         /\ \A t, u \in DOMAIN tasksMap :
               Callers(t) = Callers(u) /\ Before(emplaceSchedule, t, u) =>
                  Before(taskOrder, t, u)

(* Tasks are replaced, queued and grown only finitely often. *)
Terminates == <>(phase \in {"done", "refused", "unknown", "failed"})
=============================================================================
