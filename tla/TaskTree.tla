------------------------------ MODULE TaskTree ------------------------------
(***************************************************************************)
(* Tasks as a family (arch/x86_64/tasks/tasks.c, task_exit in              *)
(* task_manager.c): creation, process numbers, the lists of live and of    *)
(* zombie children, orphaning and destruction.  Every list operation is    *)
(* made under task_list_lock and every number drawn under pid_ctr_lock, so *)
(* a call is one step.  A list is the set of tasks whose node is in it:    *)
(* childOf[t] is the task whose children list holds t.siblings, zombieOf[t]*)
(* the one whose zombie_children list holds t.zombie_siblings.             *)
(*                                                                         *)
(* The callers are those tasks.h declares: a fork that makes its child a   *)
(* child, a waitpid that sleeps until a zombie is there and destroys it.   *)
(***************************************************************************)
EXTENDS Integers, FiniteSets

CONSTANTS Tasks,          \* task structures
          PID_MAX,
          MAX_DRAWN,      \* bound: process numbers drawn in a behaviour
          NULL

VARIABLES all_tasks,      \* the tasks that exist
          pid, parent, state,
          childOf, zombieOf,
          pid_counter,
          drawn,          \* process numbers drawn so far
          inits           \* tasks that were given the number of INIT

vars == <<all_tasks, pid, parent, state, childOf, zombieOf, pid_counter, drawn, inits>>

ASSUME PidAssumption == PID_MAX \in Nat /\ PID_MAX > 1 /\ MAX_DRAWN \in Nat /\ NULL \notin Tasks

Init ==
  /\ all_tasks = {}
  /\ pid = [t \in Tasks |-> 0]
  /\ parent = [t \in Tasks |-> NULL]
  /\ state = [t \in Tasks |-> "RUNNING"]
  /\ childOf = [t \in Tasks |-> NULL]
  /\ zombieOf = [t \in Tasks |-> NULL]
  /\ pid_counter = 1
  /\ drawn = 0
  /\ inits = 0

incr_pid_ctr_ToOne(n) == IF n + 1 > PID_MAX THEN 1 ELSE n + 1

\* The counter after a number was drawn.  1 is for INIT.
incr_pid_ctr(n) == IF n + 1 > PID_MAX THEN 2 ELSE n + 1

Draw ==
  /\ drawn < MAX_DRAWN /\ drawn' = drawn + 1
  /\ pid_counter' = incr_pid_ctr(pid_counter)
  /\ inits' = IF pid_counter = 1 THEN inits + 1 ELSE inits

create_task(t, p) ==
  /\ t \notin all_tasks
  /\ all_tasks' = all_tasks \cup {t}
  /\ pid' = [pid EXCEPT ![t] = p]
  /\ state' = [state EXCEPT ![t] = "RUNNING"]
  /\ parent' = [parent EXCEPT ![t] = NULL]
  /\ childOf' = [childOf EXCEPT ![t] = NULL]
  /\ zombieOf' = [z \in Tasks |-> IF t \in {z, zombieOf[z]} THEN NULL ELSE zombieOf[z]]

\* Kernel tasks draw no number.
create_kernel_task(t) ==
  create_task(t, 0) /\ UNCHANGED <<pid_counter, drawn, inits>>

create_user_task(t) ==
  create_task(t, pid_counter) /\ Draw

\* The memory descriptor cannot be allocated: the number is used up.
create_user_task_fails ==
  /\ Draw
  /\ UNCHANGED <<all_tasks, pid, parent, state, childOf, zombieOf>>

\* The parent is recorded, then the child is linked.
task_add_child(p, c) ==
  /\ {p, c} \subseteq all_tasks /\ p # c
  /\ state[p] = "RUNNING" /\ state[c] = "RUNNING" /\ parent[c] = NULL
  /\ parent' = [parent EXCEPT ![c] = p]
  /\ childOf' = [childOf EXCEPT ![c] = p]
  /\ UNCHANGED <<all_tasks, pid, state, zombieOf, pid_counter, drawn, inits>>

task_remove_child(p, c) ==
  /\ {p, c} \subseteq all_tasks /\ parent[c] = p
  /\ childOf' = [childOf EXCEPT ![c] = NULL]
  /\ UNCHANGED <<all_tasks, pid, parent, state, zombieOf, pid_counter, drawn, inits>>

Sleep(p) ==
  /\ p \in all_tasks /\ state[p] = "RUNNING"
  /\ state' = [state EXCEPT ![p] = "SLEEPING_INTERRUPTIBLE"]
  /\ UNCHANGED <<all_tasks, pid, parent, childOf, zombieOf, pid_counter, drawn, inits>>

Wake(p) ==
  /\ p \in all_tasks /\ state[p] = "SLEEPING_INTERRUPTIBLE"
  /\ state' = [state EXCEPT ![p] = "RUNNING"]
  /\ UNCHANGED <<all_tasks, pid, parent, childOf, zombieOf, pid_counter, drawn, inits>>

\* task_add_zombie: from the parent's children to its zombie children.
HandOver_StaysChild(t) ==
  /\ zombieOf' = [zombieOf EXCEPT ![t] = parent[t]]
  /\ childOf' = [c \in Tasks |-> IF childOf[c] = t THEN NULL ELSE childOf[c]]

HandOver(t) ==
  /\ zombieOf' = [zombieOf EXCEPT ![t] = parent[t]]
  /\ childOf' = [c \in Tasks |-> IF c = t \/ childOf[c] = t THEN NULL ELSE childOf[c]]

\* What task_exit may read in its parent's state; the parent of an orphan
\* may be a structure that was freed.
ParentSleeps(t) ==
  IF parent[t] = NULL THEN {FALSE}
  ELSE IF parent[t] \in all_tasks THEN {state[parent[t]] = "SLEEPING_INTERRUPTIBLE"}
  ELSE BOOLEAN

\* A parent that sleeps is handed the zombie; the list of live children is
\* emptied (task_orphan_children), the list of zombie children is not.  The
\* orphans keep their parent field.
task_exit(t) ==
  /\ t \in all_tasks /\ state[t] = "RUNNING"
  /\ state' = [state EXCEPT ![t] = "ZOMBIE"]
  /\ \E sleeps \in ParentSleeps(t) :
       IF sleeps THEN HandOver(t)
       ELSE /\ childOf' = [c \in Tasks |-> IF childOf[c] = t THEN NULL ELSE childOf[c]]
            /\ UNCHANGED zombieOf
  /\ UNCHANGED <<all_tasks, pid, parent, pid_counter, drawn, inits>>

\* Unlinked from all tasks and from the parent's children only.
task_destroy(t) ==
  /\ all_tasks' = all_tasks \ {t}
  /\ childOf' = [childOf EXCEPT ![t] = NULL]

\* waitpid: task_remove_zombie, then task_destroy.
Reap(p, z) ==
  /\ {p, z} \subseteq all_tasks /\ zombieOf[z] = p /\ state[p] # "ZOMBIE"
  /\ zombieOf' = [zombieOf EXCEPT ![z] = NULL]
  /\ task_destroy(z)
  /\ UNCHANGED <<pid, parent, state, pid_counter, drawn, inits>>

\* An ended task nobody waits for.
DestroyEnded(t) ==
  /\ t \in all_tasks /\ state[t] = "ZOMBIE" /\ zombieOf[t] = NULL
  /\ task_destroy(t)
  /\ UNCHANGED <<pid, parent, state, zombieOf, pid_counter, drawn, inits>>

Next ==
  \/ create_user_task_fails
  \/ \E t \in Tasks :
       \/ create_kernel_task(t) \/ create_user_task(t)
       \/ Sleep(t) \/ Wake(t) \/ task_exit(t) \/ DestroyEnded(t)
       \/ \E p \in Tasks : task_add_child(p, t) \/ task_remove_child(p, t) \/ Reap(p, t)

Spec == Init /\ [][Next]_vars

(***************************************************************************)
(* Properties.                                                             *)
(***************************************************************************)
TypeOK ==
  /\ all_tasks \subseteq Tasks
  /\ pid \in [Tasks -> 0 .. PID_MAX]
  /\ parent \in [Tasks -> Tasks \cup {NULL}]
  /\ state \in [Tasks -> {"RUNNING", "SLEEPING_INTERRUPTIBLE", "ZOMBIE"}]
  /\ childOf \in [Tasks -> Tasks \cup {NULL}]
  /\ zombieOf \in [Tasks -> Tasks \cup {NULL}]
  /\ pid_counter \in 1 .. PID_MAX /\ drawn \in 0 .. MAX_DRAWN /\ inits \in Nat

\* "Start at 1 for INIT", "1 is for INIT": the number of INIT is drawn once,
\* also after the counter wrapped around.
InitPidNeverReused == inits <= 1

\* A child in a list has its parent recorded and both exist; a zombie that
\* was handed over has ended and is in no list of live children; a task
\* that was destroyed is in no list of live children and none is in its own.
FamilyConsistent ==
  \A t \in Tasks :
    /\ childOf[t] # NULL => /\ t \in all_tasks /\ childOf[t] \in all_tasks
                            /\ parent[t] = childOf[t]
    /\ t \in all_tasks /\ zombieOf[t] # NULL =>
         /\ state[t] = "ZOMBIE" /\ childOf[t] = NULL /\ parent[t] = zombieOf[t]

\* "Process ID - always unique" (tasks.h).
PidsUnique ==
  \A s, t \in all_tasks : pid[s] = pid[t] => s = t

\* "If it has children orphan them" (task_exit): an ended task has no task
\* in its lists of children.
EndedTaskHasNoChildren ==
  \A p, t \in all_tasks : state[p] = "ZOMBIE" => childOf[t] # p /\ zombieOf[t] # p
=============================================================================
