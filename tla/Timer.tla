------------------------------- MODULE Timer -------------------------------
(***************************************************************************)
(* The local APIC timers (apic.c) and the calibration they rest on         *)
(* (timer.c): which source of the processor's frequency is believed, what  *)
(* is programmed into a processor's timer, when it is unmasked and when it *)
(* can interrupt.  The operators that change registers leave the rest of   *)
(* the system to the module that uses them, Scheduler.                     *)
(*                                                                         *)
(* A machine is a record: what CPUID leaves 0x15 (eax, ebx, ecx) and 0x16  *)
(* report, the cycles counted between two changes of the RTC's second, the *)
(* cycles per count of the APIC timer (0: it does not count) and the true  *)
(* cycles per second.                                                      *)
(***************************************************************************)
EXTENDS Integers, FiniteSets, FiniteSetsExt

CONSTANTS
  Processors,
  Machines,
  COUNT_BITS        \* width of the timer's registers: 32

ASSUME TimerAssumption ==
  /\ COUNT_BITS \in Nat
  /\ \A m \in Machines : /\ {m.leaf15.eax, m.leaf15.ebx, m.leaf15.ecx} \subseteq Nat
                         /\ {m.leaf16, m.second, m.per_count, m.hz} \subseteq Nat

VARIABLES
  machine,                  \* the one the system runs on
  apic_base,                \* is it mapped?
  apic_timer_frequency,
  masked,                   \* of each processor: the mask bit of APIC_TIMER_LVT
  initial_count,            \* of each processor: APIC_TIMER_INITIAL
  in_service                \* the processors whose timer interrupt has had no EOI

timer_vars == <<machine, apic_base, apic_timer_frequency, masked, initial_count, in_service>>

-----------------------------------------------------------------------------
(* timer.c *)

MHZ == 1000000

get_cpu_frequency_mhz(m) ==
  LET l == m.leaf15 IN
  IF l.eax # 0 /\ l.ebx # 0 /\ l.ecx # 0 THEN ((l.ecx * l.ebx) \div l.eax) \div MHZ ELSE m.leaf16

calibrate_with_rtc(m) == m.second \div 100
Sane == MHZ .. 100 * MHZ        \* what it takes for the cycles of 10 ms
calibrate_with_known_frequencies == 24000000

\* calibrate_cpu_timing: the cycles that count as 10 ms
calibrate_cpu_timing(m) ==
  IF get_cpu_frequency_mhz(m) > 0 THEN get_cpu_frequency_mhz(m) * 10000
  ELSE IF calibrate_with_rtc(m) \in Sane THEN calibrate_with_rtc(m)
  ELSE calibrate_with_known_frequencies

-----------------------------------------------------------------------------
(* apic.c *)

\* The current count after the given cycles from the largest initial count.
Current(m, cycles) ==
  LET counts == IF m.per_count = 0 THEN 0 ELSE cycles \div m.per_count
  IN Max({0, 2 ^ COUNT_BITS - 1 - counts})

apic_timer_calibrate_Current(m) == (Current(m, calibrate_cpu_timing(m)) * 100) % 2 ^ COUNT_BITS

apic_timer_calibrate(m) ==
  ((2 ^ COUNT_BITS - 1 - Current(m, calibrate_cpu_timing(m))) * 100) % 2 ^ COUNT_BITS

\* The count apic_timer_set_frequency(100) programs.
CountFor(frequency) == Max({1, frequency \div 100})

\* Maps the registers, which may fail, and calibrates: the boot processor alone runs.
apic_global_init ==
  /\ apic_base \in BOOLEAN
  /\ apic_timer_frequency = IF apic_base THEN apic_timer_calibrate(machine) ELSE 0

TimerInit ==
  /\ machine \in Machines
  /\ apic_global_init
  /\ masked = [p \in Processors |-> TRUE]
  /\ initial_count = [p \in Processors |-> 0]
  /\ in_service = {}

\* apic_timer_init_cpu (which fails without apic_base; that the APIC then stays disabled
\* is left out), apic_timer_set_frequency(100)
LvtMask_Forgotten == FALSE

LvtMask == TRUE

StartTimer(p) ==
  LET programmed == apic_base /\ apic_timer_frequency # 0 IN
  /\ masked' = IF programmed THEN [masked EXCEPT ![p] = LvtMask] ELSE masked
  /\ initial_count' = IF programmed THEN [initial_count EXCEPT ![p] = CountFor(apic_timer_frequency)]
                      ELSE initial_count
  /\ in_service' = in_service \ {p}
  /\ UNCHANGED <<machine, apic_base, apic_timer_frequency>>

\* A write without apic_base is dropped.
apic_timer_enable(p) ==
  /\ masked' = [masked EXCEPT ![p] = ~apic_base]
  /\ UNCHANGED <<machine, apic_base, apic_timer_frequency, initial_count, in_service>>

\* The timer can interrupt processor p.
Ticks(p) == ~masked[p] /\ initial_count[p] # 0 /\ p \notin in_service

\* What a timer interrupt leaves in service: apic_timer_handler writes the EOI before
\* it calls schedule(), which does not come back.
Eoi_AfterSchedule(p) == in_service' = in_service \cup {p}

Eoi(p) == in_service' = in_service \ {p}

-----------------------------------------------------------------------------
(* Properties *)

\* The first source of the frequency that reports anything is right, and the
\* frequency is one calibrate_cpu_timing takes for sane (100 MHz to 10 GHz).
Truthful(m) ==
  LET l == m.leaf15 IN
  /\ m.hz \div 100 \in Sane
  /\ IF 0 \notin {l.eax, l.ebx, l.ecx} THEN (l.ecx * l.ebx) \div l.eax = m.hz
     ELSE IF m.leaf16 # 0 THEN m.leaf16 = m.hz \div MHZ
     ELSE m.second = m.hz

\* Whichever of CPUID 0x15, CPUID 0x16 and the clock's second the calibration of the
\* boot processor used, the timer every processor starts ticks each 10 ms, to one
\* count and to the megahertz CPUID is rounded to.
TickEvery10ms ==
  LET m == machine IN
  Truthful(m) /\ m.per_count # 0 => \A p \in Processors : initial_count[p] # 0 =>
    initial_count[p] * m.per_count \in
      (m.hz \div 100 - m.per_count - MHZ \div 100) + 1 .. m.hz \div 100
=============================================================================
