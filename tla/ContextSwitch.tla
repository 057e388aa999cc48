--------------------------- MODULE ContextSwitch ---------------------------
(***************************************************************************)
(* Preemption at the level of registers: isr_common_stub                   *)
(* (arch/x86_64/interrupts/isr_stubs.S) saves the interrupted task into    *)
(* its task_context, isr_dispatch handles the vector, and load_next_task   *)
(* (kernel/scheduler/context_switch.S) loads the next task.  The gates are *)
(* interrupt gates, so a handler is one step of its core.                  *)
(*                                                                         *)
(* A context is [rip, regs, rsp]: where the task is, what its general      *)
(* registers and flags hold, and how many words are on its stack.          *)
(* own[t] is what task t itself computed: the context it must find again.  *)
(* Which task schedule() picks is the subject of Scheduler; here it is any *)
(* task of the core's queue.                                               *)
(***************************************************************************)
EXTENDS Integers

CONSTANTS Cores, Tasks,
          Queue,          \* the run queue of each core
          First,          \* the task each core starts with
          POINTS,         \* program points of a task
          Values,         \* contents of the general registers
          STACK_WORDS     \* words of a stack

VARIABLES current_task,   \* __percpu_current_task
          cpu,            \* the registers of each core
          cpu_context,    \* the saved context of each task
          mode,           \* "task", "halted" (hcf) or "hung" (print_check)
          own,
          divides         \* whether the tasks' code divides by zero

vars == <<current_task, cpu, cpu_context, mode, own, divides>>

ASSUME QueueAssumption ==
  /\ First \in [Cores -> Tasks] /\ Queue \in [Cores -> SUBSET Tasks]
  /\ \A c \in Cores : First[c] \in Queue[c]
  /\ \A c, d \in Cores : c # d => Queue[c] \cap Queue[d] = {}
  /\ POINTS \in Nat \ {0} /\ STACK_WORDS \in Nat /\ 0 \in Values

\* create_kernel_task: func, cleared registers, empty stack.
Fresh == [rip |-> 0, regs |-> 0, rsp |-> 0]

Init ==
  /\ current_task = First
  /\ cpu = [c \in Cores |-> Fresh]
  /\ cpu_context = [t \in Tasks |-> Fresh]
  /\ mode = [c \in Cores |-> "task"]
  /\ own = [t \in Tasks |-> Fresh]
  /\ divides \in BOOLEAN

(***************************************************************************)
(* The task's own instructions.                                            *)
(***************************************************************************)
Compute(c, r) ==
  /\ mode[c] = "task"
  /\ cpu' = [cpu EXCEPT ![c] = r]
  /\ own' = [own EXCEPT ![current_task[c]] = r]
  /\ UNCHANGED <<current_task, cpu_context, mode, divides>>

Work(c) == \E v \in Values :
  Compute(c, [cpu[c] EXCEPT !.rip = (@ + 1) % POINTS, !.regs = v])
PushFrame(c) == cpu[c].rsp < STACK_WORDS /\ Compute(c, [cpu[c] EXCEPT !.rsp = @ + 1])
PopFrame(c)  == cpu[c].rsp > 0 /\ Compute(c, [cpu[c] EXCEPT !.rsp = @ - 1])

(***************************************************************************)
(* Interrupts.                                                             *)
(***************************************************************************)
isr_common_stub_BootCore(c) ==
  LET t == current_task[CHOOSE d \in Cores : TRUE] IN
    [cpu_context EXCEPT ![t].rip = cpu[c].rip, ![t].regs = cpu[c].regs]

\* The context record of the core's current task receives the general
\* registers, rip, cs and rflags; the word for rsp (offset 144) keeps what
\* create_kernel_task put there.
isr_common_stub(c) ==
  [cpu_context EXCEPT ![current_task[c]].rip = cpu[c].rip,
                      ![current_task[c]].regs = cpu[c].regs]

load_next_task(c, saved, t) ==
  /\ current_task' = [current_task EXCEPT ![c] = t]
  /\ cpu' = [cpu EXCEPT ![c] = saved[t]]

\* Vector 64: apic_timer_handler, schedule.
apic_timer(c) ==
  /\ mode[c] = "task"
  /\ cpu_context' = isr_common_stub(c)
  /\ \E t \in Queue[c] : load_next_task(c, isr_common_stub(c), t)
  /\ UNCHANGED <<mode, own, divides>>

\* Vector 0: build_iretq_frame returns to the same instruction with the
\* handler's register contents and the saved, first, stack pointer.
divide_by_zero(c) ==
  /\ divides /\ mode[c] = "task"
  /\ cpu_context' = isr_common_stub(c)
  /\ \E v \in Values : cpu' = [cpu EXCEPT ![c] = [cpu_context'[current_task[c]] EXCEPT !.regs = v]]
  /\ UNCHANGED <<current_task, mode, own, divides>>

\* Page faults and most exceptions stop the core (hcf).  A handler that
\* returns (general protection, reserved vectors) runs on into
\* user_mode_interrupt, whose print_check never returns.
exception(c) ==
  /\ mode[c] = "task"
  /\ cpu_context' = isr_common_stub(c)
  /\ \E m \in {"halted", "hung"} : mode' = [mode EXCEPT ![c] = m]
  /\ UNCHANGED <<current_task, cpu, own, divides>>

Next == \E c \in Cores :
  \/ Work(c) \/ PushFrame(c) \/ PopFrame(c)
  \/ apic_timer(c) \/ divide_by_zero(c) \/ exception(c)

Spec == Init /\ [][Next]_vars

(***************************************************************************)
(* Properties.                                                             *)
(***************************************************************************)
Contexts == [rip : 0 .. POINTS - 1, regs : Values, rsp : 0 .. STACK_WORDS]

TypeOK ==
  /\ current_task \in [Cores -> Tasks] /\ \A c \in Cores : current_task[c] \in Queue[c]
  /\ cpu \in [Cores -> Contexts]
  /\ cpu_context \in [Tasks -> Contexts]
  /\ mode \in [Cores -> {"task", "halted", "hung"}]
  /\ own \in [Tasks -> Contexts] /\ divides \in BOOLEAN

Waiting(c) == Queue[c] \ {current_task[c]}

\* However the cores interleave and however often a task is preempted, it goes on at
\* the instruction at which it was interrupted, also after a division error, with
\* its general registers and flags (a division error returns with the handler's, so
\* only tasks without one are meant), and a task that waits has both in its record.
ContextPreserved ==
  \A c \in Cores :
    /\ mode[c] = "task" => LET t == current_task[c] IN
         cpu[c].rip = own[t].rip /\ (divides \/ cpu[c].regs = own[t].regs)
    /\ \A t \in Waiting(c) :
         cpu_context[t].rip = own[t].rip /\ (divides \/ cpu_context[t].regs = own[t].regs)

\* isr_stubs.S: "our previous RSP can be calculated at 40(%rsp)".  A task
\* that runs again has the stack it had when it was interrupted.
StackPointerPreserved ==
  \A c \in Cores : mode[c] = "task" => cpu[c].rsp = own[current_task[c]].rsp
=============================================================================
