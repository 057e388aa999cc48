----------------------------- MODULE Scheduler -----------------------------
(***************************************************************************)
(* Start-up of the processors (smp.c), the run queues (scheduler.c) and    *)
(* the placing and ending of tasks (task_manager.c), with the run queues   *)
(* as the doubly linked lists of lists.h and the timers of module Timer.   *)
(*                                                                         *)
(* The queue functions hold the queue's lock with interrupts off, so that  *)
(* each is one step; the task counters are not always under their lock,    *)
(* so that task_exit loads and stores one in two steps.  A core is the     *)
(* index a processor got in the per-cpu arrays.                            *)
(***************************************************************************)
EXTENDS Timer

CONSTANTS
  MAX_CORES,
  bsp,              \* the one that boots
  Tasks,
  BOOT_TASKS,       \* tasks smp_init creates before it starts the others: 5,
                    \* and MAX_CORES is 4
  NULL,
  MAX_BELOW_ZERO    \* bound: how far below zero repeated exits take a counter

Cores == 0 .. MAX_CORES - 1
Nodes == Tasks \cup Cores       \* a queue head is named by its core

ASSUME SchedulerAssumption ==
  /\ MAX_CORES \in Nat \ {0}
  /\ IsFiniteSet(Processors) /\ bsp \in Processors
  /\ Cardinality(Processors) <= MAX_CORES
  /\ IsFiniteSet(Tasks) /\ Tasks \cap Cores = {} /\ NULL \notin Nodes
  /\ BOOT_TASKS \in MAX_CORES .. Cardinality(Tasks)
  /\ MAX_BELOW_ZERO \in Nat

VARIABLES
  next, prev,       \* of the nodes tasks_runnable and cpu_runqueue
  current_task,     \* of each core
  task_counter,     \* of each core
  cpu_id,           \* of each task
  state,            \* of each task: "none", "placed" (has a core), "queued", "zombie"
  cpu_id_ctr,
  core_id,          \* what %gs:0 holds on each processor
  started,          \* the processors released by smp_init
  ready,            \* the processors that have started their timer, as far as it can be
  scheduling,       \* the cores whose first schedule() has been made
  exiting           \* per core: the counter value task_exit has loaded, or NULL

task_vars == <<next, prev, task_counter, cpu_id, state, exiting>>
vars == <<task_vars, current_task, cpu_id_ctr, core_id, started, ready, scheduling, timer_vars>>

-----------------------------------------------------------------------------
(* lists.h *)

\* list_add_tail(n, h)
list_add_tail(n, h) ==
  LET last == prev[h] IN
  /\ next' = [next EXCEPT ![n] = h, ![last] = n]
  /\ prev' = [prev EXCEPT ![h] = n, ![n] = last]

\* list_del(n): the entry ends up linked to itself.
list_del_OneWay(n) ==
  /\ next' = [next EXCEPT ![prev[n]] = next[n], ![n] = n]
  /\ prev' = [prev EXCEPT ![n] = n]

list_del(n) ==
  /\ next' = [next EXCEPT ![prev[n]] = next[n], ![n] = n]
  /\ prev' = [prev EXCEPT ![next[n]] = prev[n], ![n] = n]

list_empty(h) == next[h] = h

-----------------------------------------------------------------------------
Init ==
  /\ next = [n \in Nodes |-> n] /\ prev = [n \in Nodes |-> n]
  /\ current_task = [c \in Cores |-> NULL]
  /\ task_counter = [c \in Cores |-> 0]
  /\ cpu_id = [t \in Tasks |-> 0]
  /\ state = [t \in Tasks |-> "none"]
  /\ cpu_id_ctr = 0
  /\ core_id = [p \in Processors |-> NULL]
  /\ started = {}
  /\ ready = {}
  /\ scheduling = {}
  /\ exiting = [c \in Cores |-> NULL]
  /\ TimerInit

\* find_least_busy_cpu: the first core with the smallest counter.
LeastBusy ==
  CHOOSE c \in Cores : \A d \in Cores :
    task_counter[c] < task_counter[d] \/ (task_counter[c] = task_counter[d] /\ c <= d)

Created == {t \in Tasks : state[t] # "none"}

\* create_and_schedule_kernel_task, up to t->cpu_id = id: by smp_init, and later
\* by any task that runs.
PlaceTask(t) ==
  /\ state[t] = "none" /\ bsp \in ready
  /\ Cardinality(Created) < BOOT_TASKS \/ scheduling # {}
  /\ cpu_id' = [cpu_id EXCEPT ![t] = LeastBusy]
  /\ task_counter' = [task_counter EXCEPT ![LeastBusy] = @ + 1]
  /\ state' = [state EXCEPT ![t] = "placed"]
  /\ UNCHANGED <<next, prev, exiting, current_task, cpu_id_ctr, core_id, started, ready,
                 scheduling, timer_vars>>

\* its call of sched_task
QueueOf_BootCore(t) == 0

QueueOf(t) == cpu_id[t]

sched_task(t) ==
  /\ state[t] = "placed"
  /\ list_add_tail(t, QueueOf(t))
  /\ state' = [state EXCEPT ![t] = "queued"]
  /\ UNCHANGED <<task_counter, cpu_id, exiting, current_task, cpu_id_ctr, core_id, started,
                 ready, scheduling, timer_vars>>

\* The loop of smp_init over the processors: the others are released, and the
\* boot processor takes its index among them.
StartProcessors ==
  /\ started = {}
  /\ Cardinality({t \in Tasks : state[t] = "queued"}) >= BOOT_TASKS
  /\ started' = Processors
  /\ UNCHANGED <<task_vars, current_task, cpu_id_ctr, core_id, ready, scheduling, timer_vars>>

\* init_percpu_data(cpu_id_ctr++)
init_percpu_data(p) ==
  /\ p \in started /\ core_id[p] = NULL
  /\ core_id' = [core_id EXCEPT ![p] = cpu_id_ctr]
  /\ cpu_id_ctr' = cpu_id_ctr + 1
  /\ UNCHANGED <<task_vars, current_task, started, ready, scheduling, timer_vars>>

\* The boot processor starts its timer first of all, whatever comes of it; another
\* one does when it has its index, and halts if the registers are not mapped.
InitTimer(p) ==
  /\ p \notin ready
  /\ p = bsp \/ (core_id[p] # NULL /\ apic_base)
  /\ StartTimer(p)
  /\ ready' = ready \cup {p}
  /\ UNCHANGED <<task_vars, current_task, cpu_id_ctr, core_id, started, scheduling>>

\* The task schedule() picks on core c: current itself if nothing else is found.
Successor(c) ==
  LET current == current_task[c] IN
  IF current = NULL THEN IF list_empty(c) THEN NULL ELSE next[c]
  ELSE LET node == IF next[current] = c THEN next[c] ELSE next[current] IN
       IF node # c THEN node ELSE current

\* schedule(): the context of the successor is loaded.
schedule(c) == current_task' = [current_task EXCEPT ![c] = Successor(c)]

\* The first schedule() of a processor, after its start-up.
FirstSchedule(p) ==
  LET c == core_id[p] IN
  /\ c # NULL /\ p \in ready /\ c \notin scheduling
  /\ schedule(c)
  /\ scheduling' = scheduling \cup {c}
  /\ UNCHANGED <<task_vars, cpu_id_ctr, core_id, started, ready, timer_vars>>

\* Processor p runs a task, with interrupts on.
Running(p) == core_id[p] \in scheduling /\ exiting[core_id[p]] = NULL

\* The first statement of the task a core starts with, which unmasks its timer.
boot_idle_task(p) ==
  /\ Running(p) /\ masked[p] /\ apic_base
  /\ apic_timer_enable(p)
  /\ UNCHANGED <<task_vars, current_task, cpu_id_ctr, core_id, started, ready, scheduling>>

\* The timer interrupts p, which runs a task then (TicksFindATask).
apic_timer_handler(p) ==
  /\ Running(p) /\ Ticks(p)
  /\ Eoi(p)
  /\ schedule(core_id[p])
  /\ UNCHANGED <<task_vars, cpu_id_ctr, core_id, started, ready, scheduling, machine,
                 apic_base, apic_timer_frequency, masked, initial_count>>

\* task_exit: interrupts off, sched_remove_task, the load of the counter.  A task
\* that was resumed after its end can come here again.
ExitRemove(p) ==
  LET c == core_id[p]
      current == current_task[c] IN
  /\ Running(p) /\ (apic_base => ~masked[p])
  /\ task_counter[c] > -MAX_BELOW_ZERO
  /\ state' = [state EXCEPT ![current] = "zombie"]
  /\ list_del(current)
  /\ exiting' = [exiting EXCEPT ![c] = task_counter[cpu_id[current]]]
  /\ UNCHANGED <<task_counter, cpu_id, current_task, cpu_id_ctr, core_id, started, ready,
                 scheduling, timer_vars>>

\* the store of the counter, and schedule()
ExitSchedule(c) ==
  /\ exiting[c] # NULL
  /\ task_counter' = [task_counter EXCEPT ![cpu_id[current_task[c]]] = exiting[c] - 1]
  /\ schedule(c)
  /\ exiting' = [exiting EXCEPT ![c] = NULL]
  /\ UNCHANGED <<next, prev, cpu_id, state, cpu_id_ctr, core_id, started, ready, scheduling,
                 timer_vars>>

Next ==
  \/ \E t \in Tasks : PlaceTask(t) \/ sched_task(t)
  \/ StartProcessors
  \/ \E p \in Processors : \/ init_percpu_data(p) \/ InitTimer(p) \/ FirstSchedule(p)
                           \/ boot_idle_task(p) \/ apic_timer_handler(p) \/ ExitRemove(p)
  \/ \E c \in Cores : ExitSchedule(c)

Spec == Init /\ [][Next]_vars

\* The boot code runs to its end, a task's statements are executed, and a timer that
\* can interrupt does.
FairSpec ==
  /\ Spec
  /\ \A t \in Tasks : WF_vars(PlaceTask(t) /\ started = {}) /\ WF_vars(sched_task(t))
  /\ WF_vars(StartProcessors)
  /\ \A p \in Processors : /\ WF_vars(init_percpu_data(p)) /\ WF_vars(InitTimer(p))
                           /\ WF_vars(FirstSchedule(p)) /\ WF_vars(boot_idle_task(p))
                           /\ WF_vars(apic_timer_handler(p))
  /\ \A c \in Cores : WF_vars(ExitSchedule(c))

-----------------------------------------------------------------------------
(* Properties *)

TypeOK ==
  /\ next \in [Nodes -> Nodes] /\ prev \in [Nodes -> Nodes]
  /\ current_task \in [Cores -> Tasks \cup {NULL}]
  /\ task_counter \in [Cores -> -MAX_BELOW_ZERO .. Cardinality(Tasks)]
  /\ cpu_id \in [Tasks -> Cores]
  /\ state \in [Tasks -> {"none", "placed", "queued", "zombie"}]
  /\ cpu_id_ctr \in 0 .. Cardinality(Processors)
  /\ core_id \in [Processors -> Cores \cup {NULL}]
  /\ started \subseteq Processors /\ ready \subseteq Processors /\ scheduling \subseteq Cores
  /\ exiting \in [Cores -> (-MAX_BELOW_ZERO .. Cardinality(Tasks)) \cup {NULL}]
  /\ machine \in Machines /\ apic_base \in BOOLEAN /\ apic_timer_frequency \in Nat
  /\ masked \in [Processors -> BOOLEAN] /\ initial_count \in [Processors -> Nat]
  /\ in_service \subseteq Processors

\* The tasks placed on core c that have been queued and have not ended.
OnQueue(c) == {t \in Tasks : state[t] = "queued" /\ cpu_id[t] = c}

\* The links are consistent in both directions, and a queue's ring leads through
\* exactly the tasks placed on its core, whatever tasks come and go.
RunQueuesWellFormed ==
  /\ \A n \in Nodes : prev[next[n]] = n /\ next[prev[n]] = n
  /\ \A c \in Cores :
       LET ring[k \in 0 .. Cardinality(Tasks)] ==
             IF k = 0 THEN next[c] ELSE IF ring[k - 1] = c THEN c ELSE next[ring[k - 1]]
       IN {ring[k] : k \in 0 .. Cardinality(Tasks)} \ {c} = OnQueue(c)
  /\ \A t \in Tasks : state[t] # "queued" => next[t] = t

\* A core that schedules always has a task to run, and runs one that was placed on
\* it: schedule() loads no context through a NULL current.
AlwaysATaskOfItsOwn ==
  \A c \in scheduling :
    /\ current_task[c] # NULL
    /\ state[current_task[c]] \in {"queued", "zombie"} /\ cpu_id[current_task[c]] = c

NobodyEnded == \A t \in Tasks : state[t] # "zombie"

\* A timer interrupt finds a task in whose record the registers can be saved:
\* although interrupts are on from the start, no timer ticks before its processor
\* has loaded a task.
TicksFindATask ==
  \A p \in Processors : Ticks(p) => core_id[p] \in scheduling /\ current_task[core_id[p]] # NULL

\* The round robin leaves nobody out: with a timer that was mapped and calibrated,
\* and as long as no task ends, a queued task gets its core, again and again.
EveryTaskRuns ==
  [](NobodyEnded /\ apic_base /\ apic_timer_frequency # 0) =>
    \A t \in Tasks : [](state[t] = "queued" => <>(current_task[cpu_id[t]] = t))

\* task_exit ends with "Go to next task": the core does not go on with the task
\* that has just ended.
ExitedTaskStops ==
  \A c \in scheduling : exiting[c] = NULL => state[current_task[c]] # "zombie"

\* "run it on the CPU that is least busy": a task is placed on a core that has a
\* processor.
PlacedOnPresentCore ==
  \A t \in Created : cpu_id[t] < Cardinality(Processors)

\* "run it on the CPU that is least busy": no core has fewer live tasks.
Load(c) == Cardinality({t \in Tasks : state[t] \in {"placed", "queued"} /\ cpu_id[t] = c})
LeastBusyChosen ==
  [][\A t \in Tasks : state[t] = "none" /\ state'[t] = "placed" =>
       \A c \in Cores : exiting[c] = NULL => Load(cpu_id'[t]) <= Load(c)]_vars
=============================================================================
