------------------------------- MODULE Timers -------------------------------
(***************************************************************************)
(* The two timers of the kernel against the clock: the HPET's timers       *)
(* (drivers/src/timer/hpet.rs) and the local APIC's timer, which is        *)
(* calibrated with the HPET (drivers/src/timer/apic.rs and the timer part  *)
(* of kernel/src/arch/x86_64/apic/lapic.rs).                               *)
(*                                                                         *)
(* Time passes between any two accesses to a register.  The IRQ that an    *)
(* HPET timer takes is modelled in InterruptRouting; here it is a step     *)
(* that lasts any time and may fail.                                       *)
(*                                                                         *)
(* Definitions named <definition>_<defect> are defective variants of the   *)
(* definition that follows; the README says which property each breaks.    *)
(***************************************************************************)
EXTENDS Integers, FiniteSets

CONSTANTS
    MaxTime,          \* bound: the time up to which the clock runs
    MaxCalls,         \* bound: the calls of configure and set_disabled
    Period,           \* main_clock_period, in units of time
    LastTimer,        \* num_tim_cap, the index of the last HPET timer
    EntryBits,        \* the bits of an entry of a Bitmap
    PeriodicCapable,  \* the timers with periodic_int_capable
    HpetTimes,        \* the times callers of an HPET timer ask for
    ApicTimes,        \* the times callers of the APIC timer ask for
    Second,           \* the time find_base_frequency measures for
    CountMax,         \* u32::MAX, the count the measurement starts from
    Mega,             \* 1_000_000
    CpuidFrequencies, \* what CPUID leaf 0x15 may say, 0 for nothing
    TscDeadline       \* tsc_deadline_supported

ASSUME TimesAssumption ==
    /\ Period \in Nat \ {0} /\ LastTimer \in Nat
    /\ HpetTimes \subseteq Nat /\ Second \in Nat

Timers == 0..LastTimer
None == -1

VARIABLES
    now,        \* the time since Hpet::init, which resets the main counter
    timer_ids,  \* Hpet.timer_ids
    timer,      \* timer[t]: the registers of HPET timer t
    call,       \* call[t]: the configure call of t in progress
    asked,      \* asked[t]: when the target in the comparator was asked for, and for how long
    fired,      \* fired[t]: when the timer first interrupted for that target
    lapic,      \* the timer registers of the local APIC
    measure,    \* the progress of ApicTimer::new
    frequency,  \* ApicTimer.base_frequency, None before it is known
    calls,      \* the calls of configure and set_disabled so far
    panic       \* an unwrap or the arithmetic failed; the kernel stops

hpetState == <<timer_ids, timer, call, asked, fired>>
apicState == <<lapic, measure, frequency>>
vars == <<now, hpetState, apicState, calls, panic>>

Ids == INSTANCE IdTracker
-----------------------------------------------------------------------------
(* The HPET.                                                               *)

(* read_main_counter; a counter of 64 bits does not wrap. *)
MainCounter == now \div Period

(* time_to_cycles, rounding down. *)
time_to_cycles_floor(time) == time \div Period

time_to_cycles(time) ==
    LET remainder == time % Period
    IN  (IF remainder # 0 THEN time + (Period - remainder) ELSE time) \div Period

Reset == [int_enable |-> FALSE, periodic |-> FALSE, comparator |-> None, period |-> 0]
Idle == [pc |-> "idle", at |-> 0, time |-> 0, cycles |-> 0, target |-> 0,
         periodic |-> FALSE, receive |-> FALSE]
NotAsked == [at |-> None, time |-> 0]

(* Hpet::new and Hpet::init *)
Init ==
    /\ now = 0 /\ timer_ids = Ids!new(0, LastTimer)
    /\ timer = [t \in Timers |-> Reset] /\ call = [t \in Timers |-> Idle]
    /\ asked = [t \in Timers |-> NotAsked] /\ fired = [t \in Timers |-> None]
    /\ lapic = [mode |-> "OneShot", masked |-> TRUE, divide |-> 2, initial |-> 0, since |-> 0]
    /\ measure = [pc |-> "new", timer |-> None] /\ frequency = None
    /\ calls = 0 /\ panic = FALSE

(* The clock, and the comparators that the main counter reaches.  In       *)
(* periodic mode the comparator moves on by the period.                    *)
Matches(t) == timer[t].comparator = (now + 1) \div Period /\ (now + 1) % Period = 0
Tick ==
    /\ ~ panic /\ now < MaxTime
    /\ now' = now + 1
    /\ timer' = [t \in Timers |->
          IF Matches(t) /\ timer[t].periodic
          THEN [timer[t] EXCEPT !.comparator = @ + timer[t].period] ELSE timer[t]]
    /\ fired' = [t \in Timers |->
          IF Matches(t) /\ timer[t].int_enable /\ asked[t] # NotAsked /\ fired[t] = None
          THEN now' ELSE fired[t]]
    /\ UNCHANGED <<timer_ids, call, asked, apicState, panic, calls>>

Called == calls < MaxCalls /\ calls' = calls + 1

Owned(t) == t \in Ids!Taken(timer_ids) /\ t # measure.timer

(* HpetTimer::new by somebody who wants a timer. *)
new ==
    /\ ~ panic
    /\ LET a == Ids!allocate(timer_ids)
       IN  a.ok /\ timer_ids' = a.tracker
    /\ UNCHANGED <<now, timer, call, asked, fired, apicState, panic, calls>>

(* configure up to config_delivery_mode: the main counter is read under    *)
(* the HPET's lock, which is then released.                                *)
Configuring(t, time, periodic, receive) ==
    call' = [call EXCEPT ![t] =
        [pc |-> "register", at |-> now, time |-> time, cycles |-> time_to_cycles(time),
         target |-> MainCounter + time_to_cycles(time), periodic |-> periodic,
         receive |-> receive]]

(* HpetTimer::configure; a periodic mode the timer lacks changes nothing. *)
configure(t) ==
    /\ ~ panic /\ Owned(t) /\ call[t].pc = "idle" /\ Called
    /\ \E time \in HpetTimes, periodic \in BOOLEAN, receive \in BOOLEAN :
         (periodic => t \in PeriodicCapable) /\ Configuring(t, time, periodic, receive)
    /\ UNCHANGED <<now, timer_ids, timer, asked, fired, apicState, panic>>

(* config_delivery_mode, when no IRQ is free; the measurement unwraps. *)
register_fails(t) ==
    /\ ~ panic /\ call[t].pc = "register"
    /\ call' = [call EXCEPT ![t] = Idle] /\ panic' = (t = measure.timer)
    /\ UNCHANGED <<now, timer_ids, timer, asked, fired, apicState, calls>>

(* The write of the configuration register.  From here on the timer may    *)
(* interrupt for the target that is still in the comparator.               *)
WriteConfig(t) ==
    /\ ~ panic /\ call[t].pc = "register"
    /\ timer' = [timer EXCEPT ![t].int_enable = call[t].receive, ![t].periodic = call[t].periodic]
    /\ asked' = [asked EXCEPT ![t] = NotAsked] /\ fired' = [fired EXCEPT ![t] = None]
    /\ call' = [call EXCEPT ![t].pc = "comparator"]
    /\ UNCHANGED <<now, timer_ids, apicState, panic, calls>>

(* The write of the target to the comparator. *)
WriteComparator(t) ==
    /\ ~ panic /\ call[t].pc = "comparator"
    /\ timer' = [timer EXCEPT ![t].comparator = call[t].target]
    /\ asked' = [asked EXCEPT ![t] = [at |-> call[t].at, time |-> call[t].time]]
    /\ call' = [call EXCEPT ![t] = IF call[t].periodic THEN [@ EXCEPT !.pc = "period"] ELSE Idle]
    /\ UNCHANGED <<now, timer_ids, fired, apicState, panic, calls>>

(* The second write in periodic mode, which sets the period. *)
WritePeriod(t) ==
    /\ ~ panic /\ call[t].pc = "period"
    /\ timer' = [timer EXCEPT ![t].period = call[t].cycles]
    /\ call' = [call EXCEPT ![t] = Idle]
    /\ UNCHANGED <<now, timer_ids, asked, fired, apicState, panic, calls>>

(* HpetTimer::set_disabled *)
set_disabled(t) ==
    /\ ~ panic /\ Owned(t) /\ call[t].pc = "idle" /\ Called
    /\ \E state \in BOOLEAN : timer' = [timer EXCEPT ![t].int_enable = ~ state]
    /\ UNCHANGED <<now, timer_ids, call, asked, fired, apicState, panic>>
-----------------------------------------------------------------------------
(* The local APIC's timer.                                                 *)

(* set_timer_divider_config, on the sets of the one bits; the processor    *)
(* divides by the power of 2 in bits 0, 1 and 3, or by 1 if all are ones.  *)
set_timer_divider_config(divider) == (divider \cap {0, 1}) \cup {b + 1 : b \in divider}
Divisor(config) ==
    IF {0, 1, 3} \subseteq config THEN 1
    ELSE 2 ^ (1 + Cardinality(config \cap {0}) + 2 * Cardinality(config \cap {1})
                + 4 * Cardinality(config \cap {3}))
Div1 == {0, 1, 2}

(* read_current_timer_count, in one-shot mode: the count stops at 0. *)
CurrentCount ==
    LET passed == (now - lapic.since) \div lapic.divide
    IN  IF passed < lapic.initial THEN lapic.initial - passed ELSE 0

(* config_timer: the mode, then the initial count, which starts the timer; *)
(* the processor ignores it in the TSC deadline mode.                      *)
config_timer(l, count, mode) ==
    [l EXCEPT !.mode = mode, !.initial = IF mode = "Tsc" THEN 0 ELSE count, !.since = now]

Goto(next) == measure' = [measure EXCEPT !.pc = next]

(* ApicTimer::new and find_base_frequency, up to HpetTimer::new().unwrap(). *)
find_base_frequency ==
    /\ ~ panic /\ measure.pc = "new"
    /\ \/ /\ frequency' \in CpuidFrequencies \ {0}
          /\ Goto("done") /\ UNCHANGED <<timer_ids, panic>>
       \/ /\ 0 \in CpuidFrequencies
          /\ LET a == Ids!allocate(timer_ids)
             IN  /\ panic' = ~ a.ok
                 /\ timer_ids' = IF a.ok THEN a.tracker ELSE timer_ids
                 /\ measure' = IF a.ok THEN [pc |-> "config_apic", timer |-> a.id] ELSE measure
          /\ UNCHANGED frequency
    /\ UNCHANGED <<now, timer, call, asked, fired, lapic, calls>>

(* The APIC timer starts at its highest count. *)
config_apic ==
    /\ ~ panic /\ measure.pc = "config_apic"
    /\ lapic' = config_timer([lapic EXCEPT !.divide = Divisor(set_timer_divider_config(Div1))],
                           CountMax, "OneShot")
    /\ Goto("config_hpet")
    /\ UNCHANGED <<now, hpetState, frequency, panic, calls>>

(* hpet_timer.configure(5000 s), without interrupts. *)
config_hpet ==
    /\ ~ panic /\ measure.pc = "config_hpet"
    /\ Configuring(measure.timer, 5000 * Second, FALSE, FALSE)
    /\ Goto("unmask")
    /\ UNCHANGED <<now, timer_ids, timer, asked, fired, lapic, frequency, panic, calls>>

(* apic.set_timer_disabled(false), once configure has returned. *)
unmask ==
    /\ ~ panic /\ measure.pc = "unmask" /\ call[measure.timer].pc = "idle"
    /\ lapic' = [lapic EXCEPT !.masked = FALSE] /\ Goto("poll")
    /\ UNCHANGED <<now, hpetState, frequency, panic, calls>>


(* The test that ends the loop: the main counter against the number of     *)
(* cycles of the measurement.                                              *)
Reached == MainCounter >= time_to_cycles(Second)

(* The loop: both timers are disabled when the test holds. *)
poll ==
    /\ ~ panic /\ measure.pc = "poll" /\ Reached
    /\ lapic' = [lapic EXCEPT !.masked = TRUE]
    /\ timer' = [timer EXCEPT ![measure.timer].int_enable = FALSE]
    /\ Goto("read")
    /\ UNCHANGED <<now, timer_ids, call, asked, fired, frequency, panic, calls>>

(* The frequency from the count; the HPET timer is dropped, which does not *)
(* give its id back.                                                       *)
read_count ==
    /\ ~ panic /\ measure.pc = "read"
    /\ frequency' = (CountMax - CurrentCount) \div Mega
    /\ Goto("done")
    /\ UNCHANGED <<now, hpetState, lapic, panic, calls>>

(* time_to_ticks *)
time_to_ticks(time) == (frequency * Mega) \div time

(* ApicTimer::configure; the TSC deadline mode needs the processor's.  The *)
(* conversion panics when the product passes u32 or the time is below one. *)
apic_configure ==
    /\ ~ panic /\ measure.pc = "done" /\ Called
    /\ \E time \in ApicTimes, mode \in {"OneShot", "Periodic", "Tsc"} :
         /\ mode = "Tsc" => TscDeadline
         /\ IF time = 0 \/ frequency * Mega > CountMax
            THEN panic' = TRUE /\ UNCHANGED lapic
            ELSE /\ lapic' = [config_timer(lapic, time_to_ticks(time), mode) EXCEPT !.masked = FALSE]
                 /\ UNCHANGED panic
    /\ UNCHANGED <<now, hpetState, measure, frequency>>

(* ApicTimer::set_disabled *)
apic_set_disabled ==
    /\ ~ panic /\ measure.pc = "done" /\ Called
    /\ \E disable \in BOOLEAN : lapic' = [lapic EXCEPT !.masked = disable]
    /\ UNCHANGED <<now, hpetState, measure, frequency, panic>>
-----------------------------------------------------------------------------
(* The registers of the measurement's HPET timer are written by the same   *)
(* processor that measures.                                                *)
Writes(t) == WriteConfig(t) \/ WriteComparator(t) \/ WritePeriod(t)
Measuring ==
    \/ find_base_frequency \/ config_apic \/ config_hpet \/ unmask \/ poll \/ read_count
    \/ \E t \in Timers : t = measure.timer /\ Writes(t)

Next ==
    \/ Tick \/ new \/ find_base_frequency \/ config_apic \/ config_hpet \/ unmask \/ poll
    \/ read_count \/ apic_configure \/ apic_set_disabled
    \/ \E t \in Timers :
         \/ configure(t) \/ register_fails(t) \/ WriteConfig(t) \/ WriteComparator(t)
         \/ WritePeriod(t) \/ set_disabled(t)

Spec == Init /\ [][Next]_vars

(* The clock runs, and the processor that measures is not stopped. *)
FairSpec == Spec /\ WF_vars(Tick) /\ WF_vars(Measuring)
-----------------------------------------------------------------------------
(* Properties.                                                             *)

(* An HPET timer never interrupts for a target before the time its caller  *)
(* asked for has passed since the call, up to the part of a cycle that had *)
(* passed when the main counter was read: however long the IRQ takes to    *)
(* register between that reading and the write of the comparator.          *)
NeverEarly ==
    \A t \in Timers : fired[t] # None => fired[t] - asked[t].at > asked[t].time - Period

=============================================================================
