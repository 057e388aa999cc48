----------------------------- MODULE TaskProofs -----------------------------
(***************************************************************************)
(* Tasks.  Process numbers and family lists (tasks.c, task_exit), for any  *)
(* number of tasks and any PID_MAX.  FamilyConsistent alone is not         *)
(* inductive: a task that is destroyed leaves no child behind only because *)
(* a task that has ended has none, which NoChildrenOfEnded adds.           *)
(*                                                                         *)
(* And, in the last part, that preemption preserves the context of every   *)
(* task, for any number of cores, tasks and register values.               *)
(* ContextPreserved is inductive once the types are known; the argument is *)
(* that a core only touches the records of tasks of its own queue, and the *)
(* queues are disjoint.                                                    *)
(***************************************************************************)
EXTENDS TaskTree, TLAPS

\* The second component; it has the tasks in common with the first.
CONSTANTS Cores, Queue, First, POINTS, Values, STACK_WORDS
VARIABLES current_task, cpu, cpu_context, mode, own, divides

Switch == INSTANCE ContextSwitch

\* task_exit has emptied the list of live children of a task that has ended.
NoChildrenOfEnded ==
  \A t \in Tasks : childOf[t] # NULL => state[childOf[t]] # "ZOMBIE"

\* The number of INIT is drawn as long as the counter has not moved, and the
\* counter never comes back to it.
InitDrawnFirst ==
  inits <= 1 /\ (pid_counter = 1 => inits = 0)

-----------------------------------------------------------------------------
(* Types. *)

\* incr_pid_ctr skips the number of INIT when it wraps around.
LEMMA CounterAfterDraw ==
  ASSUME NEW n \in 1 .. PID_MAX
  PROVE  incr_pid_ctr(n) \in 2 .. PID_MAX
  BY PidAssumption DEF incr_pid_ctr

LEMMA DrawTypes ==
  ASSUME TypeOK, Draw
  PROVE  /\ pid_counter' \in 2 .. PID_MAX /\ pid_counter' \in 1 .. PID_MAX
         /\ drawn' \in 0 .. MAX_DRAWN /\ inits' \in Nat
<1>1. pid_counter' \in 2 .. PID_MAX
  BY CounterAfterDraw DEF TypeOK, Draw
<1> QED  BY <1>1, PidAssumption DEF TypeOK, Draw

LEMMA CreateTypes ==
  ASSUME TypeOK, NEW t \in Tasks, NEW p \in 0 .. PID_MAX, create_task(t, p)
  PROVE  /\ all_tasks' \subseteq Tasks
         /\ pid' \in [Tasks -> 0 .. PID_MAX]
         /\ parent' \in [Tasks -> Tasks \cup {NULL}]
         /\ state' \in [Tasks -> {"RUNNING", "SLEEPING_INTERRUPTIBLE", "ZOMBIE"}]
         /\ childOf' \in [Tasks -> Tasks \cup {NULL}]
         /\ zombieOf' \in [Tasks -> Tasks \cup {NULL}]
  BY DEF TypeOK, create_task

\* Type correctness: numbers stay within 0 .. PID_MAX, lists hold tasks.
THEOREM TypeCorrectness == Spec => []TypeOK
<1>1. Init => TypeOK
  BY PidAssumption DEF Init, TypeOK
<1>2. TypeOK /\ [Next]_vars => TypeOK'
  <2> SUFFICES ASSUME TypeOK, [Next]_vars PROVE TypeOK'
    OBVIOUS
  <2>1. CASE create_user_task_fails
    BY <2>1, DrawTypes DEF create_user_task_fails, TypeOK
  <2>2. ASSUME NEW t \in Tasks, create_kernel_task(t) PROVE TypeOK'
    <3>1. create_task(t, 0) /\ 0 \in 0 .. PID_MAX
      BY <2>2, PidAssumption DEF create_kernel_task
    <3> QED  BY <2>2, <3>1, CreateTypes DEF create_kernel_task, TypeOK
  <2>3. ASSUME NEW t \in Tasks, create_user_task(t) PROVE TypeOK'
    <3>1. create_task(t, pid_counter) /\ pid_counter \in 0 .. PID_MAX /\ Draw
      BY <2>3, PidAssumption DEF create_user_task, TypeOK
    <3> QED  BY <3>1, CreateTypes, DrawTypes DEF TypeOK
  <2>4. ASSUME NEW t \in Tasks, Sleep(t) \/ Wake(t) PROVE TypeOK'
    BY <2>4 DEF Sleep, Wake, TypeOK
  <2>5. ASSUME NEW t \in Tasks, task_exit(t) PROVE TypeOK'
    BY <2>5 DEF task_exit, HandOver, TypeOK
  <2>6. ASSUME NEW t \in Tasks, NEW p \in Tasks, task_add_child(p, t) \/ task_remove_child(p, t)
        PROVE  TypeOK'
    BY <2>6 DEF task_add_child, task_remove_child, TypeOK
  <2>7. ASSUME NEW t \in Tasks, DestroyEnded(t) \/ \E p \in Tasks : Reap(p, t) PROVE TypeOK'
    BY <2>7 DEF DestroyEnded, Reap, task_destroy, TypeOK
  <2>8. CASE UNCHANGED vars
    BY <2>8 DEF vars, TypeOK
  <2> QED  BY <2>1, <2>2, <2>3, <2>4, <2>5, <2>6, <2>7, <2>8 DEF Next
<1> QED  BY <1>1, <1>2, PTL DEF Spec

-----------------------------------------------------------------------------
(* Process numbers. *)

\* "1 is for INIT" (incr_pid_ctr): the number of INIT is given to one task at
\* most, however often the counter wraps around.
THEOREM InitPidUnique == Spec => []InitPidNeverReused
<1>1. Init => InitDrawnFirst
  BY DEF Init, InitDrawnFirst
<1>2. TypeOK /\ InitDrawnFirst /\ [Next]_vars => InitDrawnFirst'
  <2> SUFFICES ASSUME TypeOK, InitDrawnFirst, [Next]_vars PROVE InitDrawnFirst'
    OBVIOUS
  <2>1. CASE Draw
    <3>1. pid_counter' # 1
      BY <2>1, DrawTypes, PidAssumption
    <3> QED  BY <2>1, <3>1 DEF Draw, InitDrawnFirst, TypeOK
  <2>2. CASE UNCHANGED <<pid_counter, inits>>
    BY <2>2 DEF InitDrawnFirst
  <2>3. Draw \/ UNCHANGED <<pid_counter, inits>>
    BY DEF Next, create_user_task_fails, create_kernel_task, create_user_task, Sleep, Wake,
           task_exit, DestroyEnded, task_add_child, task_remove_child, Reap, vars
  <2> QED  BY <2>1, <2>2, <2>3
<1>3. InitDrawnFirst => InitPidNeverReused
  BY DEF InitDrawnFirst, InitPidNeverReused
<1> QED  BY <1>1, <1>2, <1>3, TypeCorrectness, PTL DEF Spec

-----------------------------------------------------------------------------
(* The family lists. *)

Family == FamilyConsistent /\ NoChildrenOfEnded

LEMMA CreateFamily ==
  ASSUME TypeOK, Family, NEW t \in Tasks, NEW p, create_task(t, p)
  PROVE  Family'
<1>1. \A c \in Tasks : childOf[c] # t
  BY PidAssumption DEF Family, FamilyConsistent, create_task
<1>2. /\ state' = [state EXCEPT ![t] = "RUNNING"] /\ parent' = [parent EXCEPT ![t] = NULL]
      /\ childOf' = [childOf EXCEPT ![t] = NULL] /\ all_tasks' = all_tasks \cup {t}
      /\ \A z \in Tasks : zombieOf'[z] = IF t \in {z, zombieOf[z]} THEN NULL ELSE zombieOf[z]
  BY DEF create_task
<1>3. FamilyConsistent'
  BY <1>1, <1>2 DEF TypeOK, Family, FamilyConsistent
<1>4. NoChildrenOfEnded'
  BY <1>1, <1>2 DEF TypeOK, Family, NoChildrenOfEnded
<1> QED  BY <1>3, <1>4 DEF Family

LEMMA ExitFamily ==
  ASSUME TypeOK, Family, NEW t \in Tasks, task_exit(t)
  PROVE  Family'
<1>1. /\ t \in all_tasks /\ state[t] = "RUNNING" /\ state' = [state EXCEPT ![t] = "ZOMBIE"]
      /\ UNCHANGED <<all_tasks, parent>>
  BY DEF task_exit
<1>2. zombieOf[t] = NULL
  BY <1>1 DEF Family, FamilyConsistent
<1>3. \A c \in Tasks : childOf'[c] \in {NULL, childOf[c]} /\ childOf'[c] # t
  BY PidAssumption DEF task_exit, HandOver, TypeOK
<1>4. \/ zombieOf' = zombieOf
      \/ childOf'[t] = NULL /\ zombieOf' = [zombieOf EXCEPT ![t] = parent[t]]
  BY DEF task_exit, HandOver
<1>5. NoChildrenOfEnded'
  BY <1>1, <1>3 DEF TypeOK, Family, NoChildrenOfEnded
<1>6. FamilyConsistent'
  BY <1>1, <1>2, <1>3, <1>4 DEF TypeOK, Family, FamilyConsistent
<1> QED  BY <1>5, <1>6 DEF Family

LEMMA DestroyFamily ==
  ASSUME TypeOK, Family, NEW t \in Tasks, state[t] = "ZOMBIE", task_destroy(t),
         UNCHANGED <<parent, state>>,
         zombieOf' \in {zombieOf, [zombieOf EXCEPT ![t] = NULL]}
  PROVE  Family'
<1>1. \A c \in Tasks : childOf[c] # t
  BY PidAssumption DEF Family, NoChildrenOfEnded
<1>2. NoChildrenOfEnded'
  BY DEF TypeOK, Family, NoChildrenOfEnded, task_destroy
<1>3. FamilyConsistent'
  BY <1>1 DEF TypeOK, Family, FamilyConsistent, task_destroy
<1> QED  BY <1>2, <1>3 DEF Family

\* The two together are inductive.
LEMMA FamilyInvariance == Spec => []Family
<1>1. Init => Family
  BY DEF Init, Family, FamilyConsistent, NoChildrenOfEnded
<1>2. TypeOK /\ Family /\ [Next]_vars => Family'
  <2> SUFFICES ASSUME TypeOK, Family, [Next]_vars PROVE Family'
    OBVIOUS
  <2>1. CASE create_user_task_fails \/ UNCHANGED vars
    BY <2>1 DEF create_user_task_fails, vars, Family, FamilyConsistent, NoChildrenOfEnded
  <2>2. ASSUME NEW t \in Tasks, create_kernel_task(t) \/ create_user_task(t) PROVE Family'
    BY <2>2, CreateFamily DEF create_kernel_task, create_user_task
  <2>3. ASSUME NEW t \in Tasks, Sleep(t) \/ Wake(t) PROVE Family'
    BY <2>3 DEF Sleep, Wake, TypeOK, Family, FamilyConsistent, NoChildrenOfEnded
  <2>4. ASSUME NEW t \in Tasks, task_exit(t) PROVE Family'
    BY <2>4, ExitFamily
  <2>5. ASSUME NEW t \in Tasks, NEW p \in Tasks, task_add_child(p, t) PROVE Family'
    BY <2>5, PidAssumption
       DEF task_add_child, TypeOK, Family, FamilyConsistent, NoChildrenOfEnded
  <2>6. ASSUME NEW t \in Tasks, NEW p \in Tasks, task_remove_child(p, t) PROVE Family'
    BY <2>6 DEF task_remove_child, TypeOK, Family, FamilyConsistent, NoChildrenOfEnded
  <2>7. ASSUME NEW t \in Tasks, NEW p \in Tasks, Reap(p, t) PROVE Family'
    <3>1. state[t] = "ZOMBIE"
      BY <2>7, PidAssumption DEF Reap, Family, FamilyConsistent
    <3> QED  BY <2>7, <3>1, DestroyFamily DEF Reap
  <2>8. ASSUME NEW t \in Tasks, DestroyEnded(t) PROVE Family'
    BY <2>8, DestroyFamily DEF DestroyEnded
  <2> QED  BY <2>1, <2>2, <2>3, <2>4, <2>5, <2>6, <2>7, <2>8 DEF Next
<1> QED  BY <1>1, <1>2, TypeCorrectness, PTL DEF Spec

\* Children and zombies are in the lists of the parent they record, and nothing
\* in a list of live children has been destroyed, through every order of forks,
\* exits, waits and destructions.
THEOREM FamilyStaysConsistent == Spec => []FamilyConsistent
<1>1. Family => FamilyConsistent
  BY DEF Family
<1> QED  BY <1>1, FamilyInvariance, PTL

\* "If it has children orphan them" (task_exit), as far as the code does it: no
\* live child stays in the list of a task that has ended.
THEOREM LiveChildrenOrphaned == Spec => []NoChildrenOfEnded
<1>1. Family => NoChildrenOfEnded
  BY DEF Family
<1> QED  BY <1>1, FamilyInvariance, PTL


-----------------------------------------------------------------------------
(* Contexts: types. *)

LEMMA ComputeTypeOK ==
  ASSUME Switch!TypeOK, NEW c \in Cores, NEW r \in Switch!Contexts, Switch!Compute(c, r)
  PROVE  Switch!TypeOK'
  BY DEF Switch!TypeOK, Switch!Compute

LEMMA WorkIsCompute ==
  ASSUME Switch!QueueAssumption, Switch!TypeOK, NEW c \in Cores, Switch!Work(c)
  PROVE  \E r \in Switch!Contexts : Switch!Compute(c, r)
<1>1. PICK v \in Values : Switch!Compute(c, [cpu[c] EXCEPT !.rip = (@ + 1) % POINTS, !.regs = v])
  BY DEF Switch!Work
<1>2. cpu[c] \in Switch!Contexts
  BY DEF Switch!TypeOK
<1>3. (cpu[c].rip + 1) % POINTS \in 0 .. POINTS - 1
  BY <1>2 DEF Switch!Contexts, Switch!QueueAssumption
<1> QED  BY <1>1, <1>2, <1>3 DEF Switch!Contexts

LEMMA PushIsCompute ==
  ASSUME Switch!QueueAssumption, Switch!TypeOK, NEW c \in Cores, Switch!PushFrame(c)
  PROVE  \E r \in Switch!Contexts : Switch!Compute(c, r)
<1>1. cpu[c] \in Switch!Contexts
  BY DEF Switch!TypeOK
<1>2. cpu[c].rsp + 1 \in 0 .. STACK_WORDS
  BY <1>1 DEF Switch!Contexts, Switch!PushFrame, Switch!QueueAssumption
<1> QED  BY <1>1, <1>2 DEF Switch!Contexts, Switch!PushFrame

LEMMA PopIsCompute ==
  ASSUME Switch!QueueAssumption, Switch!TypeOK, NEW c \in Cores, Switch!PopFrame(c)
  PROVE  \E r \in Switch!Contexts : Switch!Compute(c, r)
<1>1. cpu[c] \in Switch!Contexts
  BY DEF Switch!TypeOK
<1>2. cpu[c].rsp - 1 \in 0 .. STACK_WORDS
  BY <1>1 DEF Switch!Contexts, Switch!PopFrame, Switch!QueueAssumption
<1> QED  BY <1>1, <1>2 DEF Switch!Contexts, Switch!PopFrame

\* What isr_common_stub leaves in the records: the interrupted task's program
\* counter and registers, and everything else as it was.
LEMMA SavedContext ==
  ASSUME Switch!TypeOK, NEW c \in Cores
  PROVE  /\ Switch!isr_common_stub(c) \in [Tasks -> Switch!Contexts]
         /\ Switch!isr_common_stub(c)[current_task[c]].rip = cpu[c].rip
         /\ Switch!isr_common_stub(c)[current_task[c]].regs = cpu[c].regs
         /\ \A t \in Tasks \ {current_task[c]} : Switch!isr_common_stub(c)[t] = cpu_context[t]
<1>1. current_task[c] \in Tasks /\ cpu[c] \in Switch!Contexts /\ cpu_context[current_task[c]] \in Switch!Contexts
  BY DEF Switch!TypeOK
<1> QED  BY <1>1 DEF Switch!TypeOK, Switch!isr_common_stub, Switch!Contexts

\* Type correctness: a core runs tasks of its own queue only.
THEOREM ContextTypes ==
  ASSUME Switch!QueueAssumption
  PROVE  Switch!Spec => []Switch!TypeOK
<1>1. Switch!Init => Switch!TypeOK
  <2>1. Switch!Fresh \in Switch!Contexts
    BY DEF Switch!Fresh, Switch!Contexts, Switch!QueueAssumption
  <2> QED  BY <2>1 DEF Switch!Init, Switch!TypeOK, Switch!QueueAssumption
<1>2. Switch!TypeOK /\ [Switch!Next]_(Switch!vars) => Switch!TypeOK'
  <2> SUFFICES ASSUME Switch!TypeOK, [Switch!Next]_(Switch!vars) PROVE Switch!TypeOK'
    OBVIOUS
  <2>1. ASSUME NEW c \in Cores, Switch!Work(c) \/ Switch!PushFrame(c) \/ Switch!PopFrame(c) PROVE Switch!TypeOK'
    BY <2>1, WorkIsCompute, PushIsCompute, PopIsCompute, ComputeTypeOK
  <2>2. ASSUME NEW c \in Cores, Switch!apic_timer(c) PROVE Switch!TypeOK'
    <3>1. PICK t \in Queue[c] : Switch!load_next_task(c, Switch!isr_common_stub(c), t)
      BY <2>2 DEF Switch!apic_timer
    <3>2. t \in Tasks /\ Switch!isr_common_stub(c) \in [Tasks -> Switch!Contexts]
      BY SavedContext DEF Switch!QueueAssumption
    <3>3. Switch!isr_common_stub(c)[t] \in Switch!Contexts
      BY <3>2
    <3> HIDE DEF Switch!isr_common_stub
    <3>4. current_task' \in [Cores -> Tasks] /\ \A d \in Cores : current_task'[d] \in Queue[d]
      BY <3>1, <3>2 DEF Switch!load_next_task, Switch!TypeOK
    <3>5. cpu' \in [Cores -> Switch!Contexts]
      BY <3>1, <3>3 DEF Switch!load_next_task, Switch!TypeOK
    <3> QED  BY <2>2, <3>2, <3>4, <3>5 DEF Switch!apic_timer, Switch!TypeOK
  <2>3. ASSUME NEW c \in Cores, Switch!divide_by_zero(c) PROVE Switch!TypeOK'
    <3>1. PICK v \in Values :
            cpu' = [cpu EXCEPT ![c] = [cpu_context'[current_task[c]] EXCEPT !.regs = v]]
      BY <2>3 DEF Switch!divide_by_zero
    <3>2. cpu_context' \in [Tasks -> Switch!Contexts] /\ current_task[c] \in Tasks
      BY <2>3, SavedContext DEF Switch!divide_by_zero, Switch!TypeOK
    <3>3. [cpu_context'[current_task[c]] EXCEPT !.regs = v] \in Switch!Contexts
      BY <3>2 DEF Switch!Contexts
    <3>4. cpu' \in [Cores -> Switch!Contexts]
      BY <3>1, <3>3 DEF Switch!TypeOK
    <3> QED  BY <2>3, <3>2, <3>4 DEF Switch!divide_by_zero, Switch!TypeOK
  <2>4. ASSUME NEW c \in Cores, Switch!exception(c) PROVE Switch!TypeOK'
    BY <2>4, SavedContext DEF Switch!exception, Switch!TypeOK
  <2>5. CASE UNCHANGED Switch!vars
    BY <2>5 DEF Switch!vars, Switch!TypeOK
  <2> QED  BY <2>1, <2>2, <2>3, <2>4, <2>5 DEF Switch!Next
<1> QED  BY <1>1, <1>2, PTL DEF Switch!Spec

-----------------------------------------------------------------------------
(* Contexts: what a task finds again. *)

\* Tasks of two cores are different, so that the running task of one core is
\* neither running nor waiting on another.
LEMMA OwnTask ==
  ASSUME Switch!QueueAssumption, Switch!TypeOK, NEW c \in Cores, NEW d \in Cores, c # d
  PROVE  current_task[c] \notin Queue[d]
  BY DEF Switch!TypeOK, Switch!QueueAssumption

\* A task's own instructions change its context and the core's registers alike.
LEMMA ComputePreserves ==
  ASSUME Switch!QueueAssumption, Switch!TypeOK, Switch!ContextPreserved, NEW c \in Cores, NEW r, Switch!Compute(c, r)
  PROVE  Switch!ContextPreserved'
<1> SUFFICES ASSUME NEW d \in Cores
             PROVE  /\ mode'[d] = "task" =>
                         /\ cpu'[d].rip = own'[current_task'[d]].rip
                         /\ divides' \/ cpu'[d].regs = own'[current_task'[d]].regs
                    /\ \A t \in Switch!Waiting(d)' :
                         /\ cpu_context'[t].rip = own'[t].rip
                         /\ divides' \/ cpu_context'[t].regs = own'[t].regs
  BY DEF Switch!ContextPreserved
<1>1. CASE d = c
  <2>1. cpu'[c] = r /\ own'[current_task[c]] = r
    BY DEF Switch!Compute, Switch!TypeOK
  <2>2. \A t \in Switch!Waiting(c) : t \in Tasks /\ own'[t] = own[t]
    BY DEF Switch!Compute, Switch!TypeOK, Switch!Waiting, Switch!QueueAssumption
  <2> QED  BY <1>1, <2>1, <2>2 DEF Switch!Compute, Switch!Waiting, Switch!ContextPreserved
<1>2. CASE d # c
  <2>1. current_task[c] \notin Queue[d] /\ current_task[d] \in Queue[d]
    BY <1>2, OwnTask DEF Switch!TypeOK
  <2>2. cpu'[d] = cpu[d] /\ \A t \in Queue[d] : t \in Tasks /\ own'[t] = own[t]
    BY <1>2, <2>1 DEF Switch!Compute, Switch!TypeOK, Switch!QueueAssumption
  <2> QED  BY <2>1, <2>2 DEF Switch!Compute, Switch!Waiting, Switch!ContextPreserved
<1> QED  BY <1>1, <1>2

\* isr_common_stub stores what the running task must find again.
LEMMA InterruptSaves ==
  ASSUME Switch!QueueAssumption, Switch!TypeOK, Switch!ContextPreserved, NEW c \in Cores, mode[c] = "task"
  PROVE  /\ \A t \in Queue[c] : /\ Switch!isr_common_stub(c)[t].rip = own[t].rip
                                /\ divides \/ Switch!isr_common_stub(c)[t].regs = own[t].regs
         /\ \A d \in Cores \ {c} : \A t \in Queue[d] : Switch!isr_common_stub(c)[t] = cpu_context[t]
<1>1. ASSUME NEW t \in Queue[c]
      PROVE  /\ Switch!isr_common_stub(c)[t].rip = own[t].rip
             /\ divides \/ Switch!isr_common_stub(c)[t].regs = own[t].regs
  <2>1. CASE t = current_task[c]
    BY <2>1, SavedContext DEF Switch!ContextPreserved
  <2>2. CASE t # current_task[c]
    BY <2>2, SavedContext DEF Switch!ContextPreserved, Switch!Waiting, Switch!QueueAssumption
  <2> QED  BY <2>1, <2>2
<1>2. \A d \in Cores \ {c} : \A t \in Queue[d] : Switch!isr_common_stub(c)[t] = cpu_context[t]
  BY OwnTask, SavedContext DEF Switch!QueueAssumption
<1> QED  BY <1>1, <1>2

\* However cores interleave and whenever tasks are preempted, a task goes on with
\* the context it had (isr_stubs.S, context_switch.S).
THEOREM PreemptionPreservesContexts ==
  ASSUME Switch!QueueAssumption
  PROVE  Switch!Spec => []Switch!ContextPreserved
<1>1. Switch!Init => Switch!ContextPreserved
  BY DEF Switch!Init, Switch!ContextPreserved, Switch!Waiting, Switch!QueueAssumption
<1>2. Switch!TypeOK /\ Switch!ContextPreserved /\ [Switch!Next]_(Switch!vars) => Switch!ContextPreserved'
  <2> SUFFICES ASSUME Switch!TypeOK, Switch!ContextPreserved, [Switch!Next]_(Switch!vars) PROVE Switch!ContextPreserved'
    OBVIOUS
  <2>1. ASSUME NEW c \in Cores, Switch!Work(c) \/ Switch!PushFrame(c) \/ Switch!PopFrame(c) PROVE Switch!ContextPreserved'
    BY <2>1, WorkIsCompute, PushIsCompute, PopIsCompute, ComputePreserves
  <2>2. ASSUME NEW c \in Cores, Switch!apic_timer(c) PROVE Switch!ContextPreserved'
    <3>1. PICK t \in Queue[c] : Switch!load_next_task(c, Switch!isr_common_stub(c), t)
      BY <2>2 DEF Switch!apic_timer
    <3>2. mode[c] = "task" /\ cpu_context' = Switch!isr_common_stub(c) /\ UNCHANGED <<mode, own, divides>>
      BY <2>2 DEF Switch!apic_timer
    <3>3. /\ cpu'[c] = Switch!isr_common_stub(c)[t] /\ current_task'[c] = t
          /\ \A d \in Cores \ {c} : cpu'[d] = cpu[d] /\ current_task'[d] = current_task[d]
      BY <3>1 DEF Switch!load_next_task, Switch!TypeOK
    <3> QED  BY <3>2, <3>3, InterruptSaves DEF Switch!ContextPreserved, Switch!Waiting
  <2>3. ASSUME NEW c \in Cores, Switch!divide_by_zero(c) PROVE Switch!ContextPreserved'
    <3>1. /\ divides /\ mode[c] = "task" /\ cpu_context' = Switch!isr_common_stub(c)
          /\ UNCHANGED <<current_task, mode, own, divides>>
      BY <2>3 DEF Switch!divide_by_zero
    <3>2. PICK v \in Values :
            cpu' = [cpu EXCEPT ![c] = [cpu_context'[current_task[c]] EXCEPT !.regs = v]]
      BY <2>3 DEF Switch!divide_by_zero
    <3>3. cpu_context' \in [Tasks -> Switch!Contexts] /\ current_task[c] \in Tasks
      BY <3>1, SavedContext DEF Switch!TypeOK
    <3>4. /\ cpu'[c].rip = cpu_context'[current_task[c]].rip
          /\ \A d \in Cores \ {c} : cpu'[d] = cpu[d]
      BY <3>2, <3>3 DEF Switch!TypeOK, Switch!Contexts
    <3>5. current_task[c] \in Queue[c]
      BY DEF Switch!TypeOK
    <3> QED  BY <3>1, <3>4, <3>5, InterruptSaves DEF Switch!ContextPreserved, Switch!Waiting
  <2>4. ASSUME NEW c \in Cores, Switch!exception(c) PROVE Switch!ContextPreserved'
    <3>1. /\ mode[c] = "task" /\ cpu_context' = Switch!isr_common_stub(c)
          /\ UNCHANGED <<current_task, cpu, own, divides>>
      BY <2>4 DEF Switch!exception
    <3>2. mode'[c] # "task" /\ \A d \in Cores \ {c} : mode'[d] = mode[d]
      BY <2>4 DEF Switch!exception, Switch!TypeOK
    <3> QED  BY <3>1, <3>2, InterruptSaves DEF Switch!ContextPreserved, Switch!Waiting
  <2>5. CASE UNCHANGED Switch!vars
    BY <2>5 DEF Switch!vars, Switch!ContextPreserved, Switch!Waiting
  <2> QED  BY <2>1, <2>2, <2>3, <2>4, <2>5 DEF Switch!Next
<1> QED  BY <1>1, <1>2, ContextTypes, PTL DEF Switch!Spec
=============================================================================
