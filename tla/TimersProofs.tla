---------------------------- MODULE TimersProofs ----------------------------
(***************************************************************************)
(* For every period of the HPET's clock, every number of timers and every  *)
(* time asked for: an HPET timer never interrupts for a target early.      *)
(***************************************************************************)
EXTENDS Timers, TLAPS

Registers == [int_enable : BOOLEAN, periodic : BOOLEAN, comparator : Int, period : Nat]
Calls == [pc : {"idle", "register", "comparator", "period"}, at : Nat, time : Nat,
          cycles : Nat, target : Nat, periodic : BOOLEAN, receive : BOOLEAN]

TypeInv ==
    /\ now \in Nat
    /\ timer \in [Timers -> Registers]
    /\ call \in [Timers -> Calls]
    /\ asked \in [Timers -> [at : Int, time : Nat]]
    /\ fired \in [Timers -> Int]

(* When the main counter is c, at least that much time has passed since    *)
(* at, up to a part of a cycle.                                            *)
NotBefore(c, at, time) == c * Period > at + time - Period

(* The target of a call in progress is late enough.  Between the writes of *)
(* the configuration and the comparator no interrupt counts for a call.    *)
CallInv(t) ==
    /\ call[t].pc # "idle" => NotBefore(call[t].target, call[t].at, call[t].time)
    /\ call[t].pc = "comparator" => asked[t] = NotAsked /\ fired[t] = None

(* The comparator of a timer that may still interrupt is late enough. *)
WaitInv(t) ==
    asked[t] # NotAsked => NotBefore(timer[t].comparator, asked[t].at, asked[t].time)

FiredInv(t) == fired[t] # None => fired[t] - asked[t].at > asked[t].time - Period

(* The inductive invariant.  NeverEarly says nothing before the interrupt; *)
(* what is to be known then is in the comparator, and before its write in  *)
(* the call.                                                               *)
Inv == TypeInv /\ \A t \in Timers : CallInv(t) /\ WaitInv(t) /\ FiredInv(t)

LEMMA Division ==
    ASSUME NEW n \in Nat
    PROVE  /\ n \div Period \in Nat /\ n % Period \in Nat
           /\ n < (n \div Period) * Period + Period
           /\ n % Period = 0 => n = (n \div Period) * Period
BY TimesAssumption

(* time_to_cycles rounds up. *)
LEMMA RoundsUp ==
    ASSUME NEW time \in Nat
    PROVE  time_to_cycles(time) \in Nat /\ time_to_cycles(time) * Period >= time
<1>1. CASE time % Period = 0
  <2>1. time_to_cycles(time) = time \div Period
    BY <1>1 DEF time_to_cycles
  <2> QED BY <1>1, <2>1, Division
<1>2. CASE time % Period # 0
  <2>1. time_to_cycles(time) = (time + (Period - (time % Period))) \div Period
    BY <1>2 DEF time_to_cycles
  <2>2. time % Period \in Nat /\ time % Period < Period
    BY TimesAssumption
  <2> DEFINE n == time + (Period - (time % Period))
  <2>3. n \in Nat /\ n > time
    BY <2>2, TimesAssumption
  <2>4. n % Period = 0
    <3> DEFINE q == time \div Period
    <3>1. q \in Nat /\ time = (q * Period) + (time % Period)
      BY TimesAssumption
    <3> HIDE DEF q
    <3>2. n = (q + 1) * Period
      BY <2>2, <3>1, TimesAssumption
    <3>3. \A k \in Nat : (k * Period) % Period = 0
      BY TimesAssumption
    <3> QED BY <3>1, <3>2, <3>3
  <2> HIDE DEF n
  <2>5. n \div Period \in Nat /\ n = (n \div Period) * Period
    BY <2>3, <2>4, Division
  <2> QED BY <2>1, <2>3, <2>5 DEF n
<1> QED BY <1>1, <1>2

(* The target that configure computes is late enough. *)
LEMMA TargetIsLate ==
    ASSUME now \in Nat, NEW time \in Nat
    PROVE  /\ MainCounter + time_to_cycles(time) \in Nat
           /\ NotBefore(MainCounter + time_to_cycles(time), now, time)
<1> DEFINE c == now \div Period
           d == time_to_cycles(time)
<1>1. c \in Nat /\ now < c * Period + Period
  BY Division
<1>2. d \in Nat /\ d * Period >= time
  BY RoundsUp
<1> HIDE DEF c, d
<1>3. (c + d) * Period = c * Period + d * Period /\ c * Period \in Nat /\ d * Period \in Nat
  BY <1>1, <1>2, TimesAssumption
<1>4. (c + d) * Period > now + time - Period
  BY <1>1, <1>2, <1>3, TimesAssumption
<1>5. MainCounter + time_to_cycles(time) = c + d
  BY DEF MainCounter, c, d
<1> QED BY <1>1, <1>2, <1>4, <1>5 DEF NotBefore

LEMMA InitInv == Init => Inv
<1> SUFFICES ASSUME Init PROVE Inv
  OBVIOUS
<1>1. TypeInv
  BY DEF Init, TypeInv, Registers, Calls, Reset, Idle, NotAsked, None
<1>2. ASSUME NEW t \in Timers PROVE CallInv(t) /\ WaitInv(t) /\ FiredInv(t)
  BY DEF Init, CallInv, WaitInv, FiredInv, Idle, NotAsked, None
<1> QED BY <1>1, <1>2 DEF Inv

(* A step that leaves the HPET's timers alone. *)
LEMMA OthersPreserve ==
    ASSUME Inv, UNCHANGED <<now, timer, call, asked, fired>>
    PROVE  Inv'
BY DEF Inv, TypeInv, CallInv, WaitInv, FiredInv, NotBefore

(* A step that at most enables or disables interrupts of a timer. *)
LEMMA EnablePreserves ==
    ASSUME Inv, NEW x, NEW e \in BOOLEAN,
           timer' = [timer EXCEPT ![x].int_enable = e], UNCHANGED <<now, call, asked, fired>>
    PROVE  Inv'
<1>1. timer' \in [Timers -> Registers]
  BY DEF Inv, TypeInv, Registers
<1>2. \A t \in Timers : timer'[t].comparator = timer[t].comparator
  BY DEF Inv, TypeInv, Registers
<1> QED BY <1>1, <1>2 DEF Inv, TypeInv, CallInv, WaitInv, FiredInv, NotBefore

LEMMA TickPreserves ==
    ASSUME Inv, Tick
    PROVE  Inv'
<1>0. TypeInv /\ now + 1 \in Nat /\ now' = now + 1
  BY DEF Inv, TypeInv, Tick
<1>1. timer' \in [Timers -> Registers]
  BY <1>0 DEF TypeInv, Tick, Registers
<1>2. fired' \in [Timers -> Int]
  BY <1>0 DEF TypeInv, Tick
<1>3. TypeInv'
  BY <1>0, <1>1, <1>2 DEF TypeInv, Tick
<1>4. ASSUME NEW t \in Timers PROVE CallInv(t)' /\ WaitInv(t)' /\ FiredInv(t)'
  <2>0. CallInv(t) /\ WaitInv(t) /\ FiredInv(t)
    BY DEF Inv
  <2>1. CallInv(t)'
    BY <1>0, <2>0 DEF CallInv, NotBefore, Tick, TypeInv
  <2>2. WaitInv(t)'
    <3> DEFINE c == timer[t].comparator
               q == timer[t].period
    <3>1. c \in Int /\ q \in Nat /\ asked[t].at \in Int /\ asked[t].time \in Nat
      BY <1>0 DEF TypeInv, Registers
    <3>2. timer'[t].comparator \in {c, c + q}
      BY <1>0 DEF Tick, TypeInv, Registers
    <3> HIDE DEF c, q
    <3>3. (c + q) * Period = c * Period + q * Period /\ q * Period \in Nat /\ c * Period \in Int
      BY <3>1, TimesAssumption
    <3>4. NotBefore(c, asked[t].at, asked[t].time) =>
            NotBefore(timer'[t].comparator, asked[t].at, asked[t].time)
      BY <3>1, <3>2, <3>3, TimesAssumption DEF NotBefore
    <3> QED BY <2>0, <3>4 DEF WaitInv, NotBefore, Tick, c
  <2>3. FiredInv(t)'
    <3>1. CASE fired'[t] = fired[t]
      BY <2>0, <3>1 DEF FiredInv, Tick
    <3>2. CASE fired'[t] # fired[t]
      <4>1. Matches(t) /\ asked[t] # NotAsked /\ fired'[t] = now + 1
        BY <1>0, <3>2 DEF Tick, TypeInv
      <4>2. timer[t].comparator * Period = now + 1
        BY <1>0, <4>1, Division DEF Matches
      <4>3. now + 1 > asked[t].at + asked[t].time - Period
        BY <2>0, <4>1, <4>2 DEF WaitInv, NotBefore
      <4>4. asked[t].at \in Int /\ asked[t].time \in Nat
        BY <1>0 DEF TypeInv
      <4>5. (now + 1) - asked[t].at > asked[t].time - Period
        BY <1>0, <4>3, <4>4, TimesAssumption
      <4> QED BY <4>1, <4>5 DEF FiredInv, Tick
    <3> QED BY <3>1, <3>2
  <2> QED BY <2>1, <2>2, <2>3
<1> QED BY <1>3, <1>4 DEF Inv

(* The start of a configure call, of a caller or of the measurement. *)
LEMMA ConfiguringPreserves ==
    ASSUME Inv, NEW x, NEW time \in Nat, NEW p \in BOOLEAN, NEW r \in BOOLEAN,
           Configuring(x, time, p, r), UNCHANGED <<now, timer, asked, fired>>
    PROVE  Inv'
<1> DEFINE target == MainCounter + time_to_cycles(time)
<1>0. TypeInv /\ now \in Nat
  BY DEF Inv, TypeInv
<1>1. target \in Nat /\ NotBefore(target, now, time) /\ time_to_cycles(time) \in Nat
  BY <1>0, TargetIsLate, RoundsUp
<1>2. call' = [call EXCEPT ![x] =
         [pc |-> "register", at |-> now, time |-> time, cycles |-> time_to_cycles(time),
          target |-> target, periodic |-> p, receive |-> r]]
  BY DEF Configuring
<1> HIDE DEF target
<1>3. TypeInv'
  BY <1>0, <1>1, <1>2 DEF TypeInv, Calls
<1>4. ASSUME NEW t \in Timers PROVE CallInv(t)' /\ WaitInv(t)' /\ FiredInv(t)'
  <2>0. CallInv(t) /\ WaitInv(t) /\ FiredInv(t)
    BY DEF Inv
  <2>1. CallInv(t)'
    <3>1. CASE t = x
      BY <1>0, <1>1, <1>2, <3>1 DEF CallInv, NotBefore, TypeInv
    <3>2. CASE t # x
      BY <1>0, <1>2, <2>0, <3>2 DEF CallInv, NotBefore, TypeInv
    <3> QED BY <3>1, <3>2
  <2> QED BY <2>0, <2>1 DEF WaitInv, FiredInv, NotBefore
<1> QED BY <1>3, <1>4 DEF Inv

LEMMA WritesPreserve ==
    ASSUME Inv, NEW x \in Timers,
           register_fails(x) \/ WriteConfig(x) \/ WriteComparator(x) \/ WritePeriod(x)
    PROVE  Inv'
<1>0. TypeInv /\ now' = now /\ Idle \in Calls /\ NotAsked \in [at : Int, time : Nat] /\ None \in Int
  BY DEF Inv, TypeInv, register_fails, WriteConfig, WriteComparator, WritePeriod, Idle, Calls,
         NotAsked, None
<1>1. CASE register_fails(x)
  <2>1. TypeInv'
    BY <1>0, <1>1 DEF TypeInv, register_fails
  <2>2. ASSUME NEW t \in Timers PROVE CallInv(t)' /\ WaitInv(t)' /\ FiredInv(t)'
    BY <1>0, <1>1 DEF Inv, TypeInv, register_fails, CallInv, WaitInv, FiredInv, NotBefore, Idle
  <2> QED BY <2>1, <2>2 DEF Inv
<1>2. CASE WriteConfig(x)
  <2>1. TypeInv'
    <3>0. /\ call[x].receive \in BOOLEAN /\ call[x].periodic \in BOOLEAN
          /\ call[x].target \in Int /\ timer[x] \in Registers
      BY <1>0 DEF TypeInv, Calls
    <3>1. timer' \in [Timers -> Registers]
      BY <1>0, <1>2, <3>0 DEF TypeInv, WriteConfig, Registers
    <3>2. call' \in [Timers -> Calls]
      BY <1>0, <1>2 DEF TypeInv, WriteConfig, Calls
    <3>3. asked' \in [Timers -> [at : Int, time : Nat]] /\ fired' \in [Timers -> Int]
      BY <1>0, <1>2 DEF TypeInv, WriteConfig, Calls
    <3> QED BY <1>0, <3>1, <3>2, <3>3 DEF TypeInv
  <2>2. ASSUME NEW t \in Timers PROVE CallInv(t)' /\ WaitInv(t)' /\ FiredInv(t)'
    <3>1. CASE t = x
      BY <1>0, <1>2, <3>1 DEF Inv, TypeInv, WriteConfig, CallInv, WaitInv, FiredInv, NotBefore,
                              Calls
    <3>2. CASE t # x
      BY <1>0, <1>2, <3>2 DEF Inv, TypeInv, WriteConfig, CallInv, WaitInv, FiredInv, NotBefore
    <3> QED BY <3>1, <3>2
  <2> QED BY <2>1, <2>2 DEF Inv
<1>3. CASE WriteComparator(x)
  <2>1. TypeInv'
    <3>0. /\ call[x].receive \in BOOLEAN /\ call[x].periodic \in BOOLEAN
          /\ call[x].target \in Int /\ timer[x] \in Registers
      BY <1>0 DEF TypeInv, Calls
    <3>1. timer' \in [Timers -> Registers]
      BY <1>0, <1>3, <3>0 DEF TypeInv, WriteComparator, Registers
    <3>2. call' \in [Timers -> Calls]
      <4>1. call[x] \in Calls
        BY <1>0 DEF TypeInv
      <4>2. [call[x] EXCEPT !.pc = "period"] \in Calls /\ Idle \in Calls
        BY <4>1 DEF Calls, Idle
      <4>3. call' = [call EXCEPT ![x] = IF call[x].periodic
                                        THEN [call[x] EXCEPT !.pc = "period"] ELSE Idle]
        BY <1>0, <1>3 DEF TypeInv, WriteComparator
      <4> QED BY <1>0, <4>2, <4>3 DEF TypeInv
    <3>3. asked' \in [Timers -> [at : Int, time : Nat]] /\ fired' \in [Timers -> Int]
      BY <1>0, <1>3 DEF TypeInv, WriteComparator, Calls
    <3> QED BY <1>0, <3>1, <3>2, <3>3 DEF TypeInv
  <2>2. ASSUME NEW t \in Timers PROVE CallInv(t)' /\ WaitInv(t)' /\ FiredInv(t)'
    <3>1. CASE t = x
      <4>1. /\ call[x] \in Calls /\ call[x].pc = "comparator"
            /\ NotBefore(call[x].target, call[x].at, call[x].time) /\ fired[x] = None
        BY <1>0, <1>3 DEF Inv, TypeInv, WriteComparator, CallInv
      <4>2. /\ asked'[x] = [at |-> call[x].at, time |-> call[x].time]
            /\ timer'[x].comparator = call[x].target /\ fired'[x] = None
        BY <1>0, <1>3, <4>1 DEF TypeInv, WriteComparator, Registers
      <4>3. call'[x] = Idle \/ call'[x] = [call[x] EXCEPT !.pc = "period"]
        BY <1>0, <1>3 DEF TypeInv, WriteComparator
      <4>4. CallInv(x)'
        BY <4>1, <4>3 DEF CallInv, NotBefore, Idle, Calls
      <4>5. WaitInv(x)' /\ FiredInv(x)'
        BY <4>1, <4>2 DEF WaitInv, FiredInv, NotBefore
      <4> QED BY <3>1, <4>4, <4>5
    <3>2. CASE t # x
      BY <1>0, <1>3, <3>2 DEF Inv, TypeInv, WriteComparator, CallInv, WaitInv, FiredInv, NotBefore
    <3> QED BY <3>1, <3>2
  <2> QED BY <2>1, <2>2 DEF Inv
<1>4. CASE WritePeriod(x)
  <2>1. TypeInv'
    <3>0. call[x].cycles \in Nat /\ timer[x] \in Registers
      BY <1>0 DEF TypeInv, Calls
    <3>1. timer' \in [Timers -> Registers]
      BY <1>0, <1>4, <3>0 DEF TypeInv, WritePeriod, Registers
    <3>2. call' \in [Timers -> Calls]
      BY <1>0, <1>4 DEF TypeInv, WritePeriod, Calls
    <3>3. asked' \in [Timers -> [at : Int, time : Nat]] /\ fired' \in [Timers -> Int]
      BY <1>0, <1>4 DEF TypeInv, WritePeriod, Calls
    <3> QED BY <1>0, <3>1, <3>2, <3>3 DEF TypeInv
  <2>2. ASSUME NEW t \in Timers PROVE CallInv(t)' /\ WaitInv(t)' /\ FiredInv(t)'
    BY <1>0, <1>4 DEF Inv, TypeInv, WritePeriod, CallInv, WaitInv, FiredInv, NotBefore, Idle,
                      Registers
  <2> QED BY <2>1, <2>2 DEF Inv
<1> QED BY <1>1, <1>2, <1>3, <1>4

LEMMA NextPreserves ==
    ASSUME Inv, [Next]_vars
    PROVE  Inv'
<1>1. CASE Tick
  BY <1>1, TickPreserves
<1>2. CASE new \/ find_base_frequency
  BY <1>2, OthersPreserve DEF new, find_base_frequency
<1>3. CASE config_apic \/ unmask \/ read_count \/ apic_configure \/ apic_set_disabled
  BY <1>3, OthersPreserve DEF config_apic, unmask, read_count, apic_configure,
                              apic_set_disabled, hpetState
<1>4. CASE config_hpet
  <2>1. 5000 * Second \in Nat
    BY TimesAssumption
  <2>2. PICK x : x = measure.timer
    OBVIOUS
  <2>3. PICK time \in Nat : time = 5000 * Second
    BY <2>1
  <2>4. Configuring(x, time, FALSE, FALSE) /\ UNCHANGED <<now, timer, asked, fired>>
    BY <1>4, <2>2, <2>3 DEF config_hpet, Configuring
  <2> QED BY <2>4, ConfiguringPreserves
<1>5. CASE poll
  BY <1>5, EnablePreserves DEF poll
<1>6. ASSUME NEW t \in Timers, configure(t) PROVE Inv'
  <2>1. PICK time \in HpetTimes, p \in BOOLEAN, r \in BOOLEAN : Configuring(t, time, p, r)
    BY <1>6 DEF configure
  <2>2. time \in Nat
    BY <2>1, TimesAssumption
  <2> QED BY <1>6, <2>1, <2>2, ConfiguringPreserves DEF configure
<1>7. ASSUME NEW t \in Timers,
             register_fails(t) \/ WriteConfig(t) \/ WriteComparator(t) \/ WritePeriod(t)
      PROVE Inv'
  BY <1>7, WritesPreserve
<1>8. ASSUME NEW t \in Timers, set_disabled(t) PROVE Inv'
  <2>1. PICK e \in BOOLEAN : timer' = [timer EXCEPT ![t].int_enable = e]
    BY <1>8 DEF set_disabled
  <2>2. UNCHANGED <<now, call, asked, fired>>
    BY <1>8 DEF set_disabled
  <2> QED BY <2>1, <2>2, EnablePreserves
<1>9. CASE UNCHANGED vars
  BY <1>9, OthersPreserve DEF vars, hpetState
<1> QED BY <1>1, <1>2, <1>3, <1>4, <1>5, <1>6, <1>7, <1>8, <1>9 DEF Next

(* For every clock period, every number of timers, every time asked for    *)
(* and every delay between the steps of HpetTimer::configure: no timer     *)
(* interrupts for a target before its time.                                *)
THEOREM AlwaysOnTime == Spec => []NeverEarly
<1>1. Init => Inv
  BY InitInv
<1>2. Inv /\ [Next]_vars => Inv'
  BY NextPreserves
<1>3. Inv => NeverEarly
  BY DEF Inv, FiredInv, NeverEarly
<1> QED BY <1>1, <1>2, <1>3, PTL DEF Spec
=============================================================================
