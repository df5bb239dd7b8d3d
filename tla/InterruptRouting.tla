-------------------------- MODULE InterruptRouting --------------------------
(***************************************************************************)
(* From a timer to its handler: the IO APICs and the IRQ overrides that    *)
(* the MADT describes (kernel/src/arch/x86_64/apic/ioapic.rs), the IRQ     *)
(* allocator (an IdTracker), the IDT (interrupts.rs) and the HPET timers   *)
(* that claim an IRQ and register an ISR on it (drivers/src/timer/hpet.rs).*)
(*                                                                         *)
(* Boot runs alone.  Afterwards every timer object may be configured by    *)
(* its owner while other owners configure theirs: each call that takes a   *)
(* lock (HPET, IRQ_ALLOCATOR, IDT, an IO APIC) is one step, and so is the  *)
(* final write of the timer's own registers.                               *)
(*                                                                         *)
(* Definitions named <definition>_<defect> are defective variants of the   *)
(* definition that follows; the README says which property each breaks.    *)
(***************************************************************************)
EXTENDS Integers, Sequences, FiniteSets, SequencesExt

CONSTANTS
    Madt,            \* the MADT's entries about IO APICs, in table order
    Vectors,         \* the indices of the IDT, 0 .. IDT_ENTRIES_NUM - 1
    BootVectors,     \* the gates install_exception_isrs fills
    Timers,          \* the HPET's timers, 0 .. num_tim_cap
    RoutingMode,     \* the InterruptRoutingMode boot passes to Hpet::init
    RouteCap,        \* RouteCap[t]: the GSIs in the timer's int_route_cap
    PeriodicCapable, \* timers with periodic_int_capable
    FsbCapable,      \* timers with fsb_int_delivery
    StubsOf,         \* StubsOf[t]: ISR stubs that the owner of timer t passes
    Receive          \* the values of receive_interrupts that callers pass

PIT_IRQ == 0
RTC_IRQ == 8
Stubs == UNION {StubsOf[t] : t \in Timers}
BootStub == "boot"
Absent == "absent"
Fsb == "fsb"
None == -1

ASSUME RoutingAssumption ==
    /\ Vectors \subseteq Nat /\ BootVectors \subseteq Vectors
    /\ Timers \subseteq Nat /\ PeriodicCapable \subseteq Timers /\ FsbCapable \subseteq Timers
    /\ RoutingMode \in {"Normal", "Legacy"}
    /\ RouteCap \in [Timers -> SUBSET (0..31)]
    /\ Receive \subseteq BOOLEAN
    /\ Stubs \cap {BootStub, Absent, Fsb} = {}

VARIABLES
    madt,       \* the MADT entries still to parse
    ioapics,    \* IO_APICS: records [gsi_base, gsi_count, apic_id]
    regs,       \* regs[a]: the redirection table registers of ioapics[a]
    overrides,  \* IRQ_OVERRIDES
    irqs,       \* the range of IRQ_ALLOCATOR, empty before it is initialised
    taken,      \* its allocated IRQs
    idt,        \* idt[v]: the stub of gate v, or Absent
    hpet,       \* HPET: its int_routing_mode and the range of its timer_ids
    timer_ids,  \* the allocated ids of Hpet.timer_ids
    config,     \* config[t]: the timer's configuration register
    call,       \* call[t]: the configure call in progress
    route,      \* route[t]: what the last successful configure set up
    result,     \* result[t]: what the last configure of t returned
    panic       \* an unwrap, expect or panic! was hit; the kernel stops

vars == <<madt, ioapics, regs, overrides, irqs, taken, idt, hpet,
          timer_ids, config, call, route, result, panic>>
-----------------------------------------------------------------------------
(* The redirection table.  A dword is a record: vector, delivery, pins     *)
(* (polarity and trigger mode) and masked are the fields of an entry's low *)
(* half, top is bits 24 to 31, in the high half the destination.           *)

red_tbl_to_index(i) == i * 2 + 16

ResetDword == [vector |-> 0, delivery |-> "Fixed", pins |-> 0, masked |-> TRUE, top |-> 0]
ZeroDword  == [ResetDword EXCEPT !.masked = FALSE]

(* The table of an IO APIC after reset: every line is masked. *)
ResetTable(count) ==
    [r \in 16..(15 + 2 * count) |-> IF r % 2 = 0 THEN ResetDword ELSE ZeroDword]

(* Reads of registers the IO APIC does not have return 0. *)
ReadRegister(table, r) == IF r \in DOMAIN table THEN table[r] ELSE ZeroDword

(* Writes to registers the IO APIC does not have are ignored. *)
WriteRegister(table, r, dword) ==
    IF r \in DOMAIN table THEN [table EXCEPT ![r] = dword] ELSE table

(* The register the code takes for the high half of the entry at offset. *)
HighRegister(offset) == offset + red_tbl_to_index(1)

read_redirection_entry(table, offset) ==
    [low  |-> ReadRegister(table, offset),
     high |-> ReadRegister(table, HighRegister(offset))]

(* write_redirection_entry, with a high half of only the destination. *)
write_redirection_entry_rebuilt(table, offset, entry) ==
    WriteRegister(WriteRegister(table, offset, entry.low), HighRegister(offset),
                  [ZeroDword EXCEPT !.top = entry.high.top])

write_redirection_entry(table, offset, entry) ==
    WriteRegister(WriteRegister(table, offset, entry.low), HighRegister(offset), entry.high)
-----------------------------------------------------------------------------
(* IRQs and GSIs.                                                          *)

First(s, Test(_)) == s[CHOOSE n \in 1..Len(s) :
                          Test(s[n]) /\ \A m \in 1..(n - 1) : ~ Test(s[m])]

gsi_to_irq(gsi) ==
    LET matches(o) == o.gsi = gsi
    IN  IF \E o \in ToSet(overrides) : matches(o) THEN First(overrides, matches).irq ELSE gsi

irq_to_gsi(irq) ==
    LET matches(o) == o.irq = irq
    IN  IF \E o \in ToSet(overrides) : matches(o) THEN First(overrides, matches).gsi ELSE irq


(* The test by which every function finds the IO APIC of a GSI. *)
Owns(ioapic, gsi) == ioapic.gsi_base <= gsi /\ gsi < ioapic.gsi_base + ioapic.gsi_count

OwnersOf(gsi) == {a \in DOMAIN ioapics : Owns(ioapics[a], gsi)}

(* The IO APIC of a GSI that has one. *)
OwnerOf(gsi) == CHOOSE a \in OwnersOf(gsi) : \A b \in OwnersOf(gsi) : a <= b

OffsetOf(gsi) == red_tbl_to_index(gsi - ioapics[OwnerOf(gsi)].gsi_base)

(* Reading, changing and writing back the entry of a GSI, under the lock   *)
(* of its IO APIC.                                                         *)
EntryOf(gsi) == read_redirection_entry(regs[OwnerOf(gsi)], OffsetOf(gsi))
Rewrite(gsi, entry) ==
    regs' = [regs EXCEPT ![OwnerOf(gsi)] = write_redirection_entry(@, OffsetOf(gsi), entry)]

(* IdTracker::allocate_at on the IRQ allocator: the IRQ is legal and free. *)
CanAllocate(irq) == irq \in irqs \ taken
-----------------------------------------------------------------------------
(* Boot: the MADT is parsed entry by entry, then the IRQ allocator is      *)
(* created over as many IRQs as the IO APICs have lines.                   *)

Idle == [pc |-> "idle", delivery |-> Absent, receive |-> FALSE,
         left |-> {}, irq |-> None, vector |-> None]
NoRoute == [stub |-> Absent, irq |-> None, vector |-> None]

(* Idt::init: the gates of the exceptions and of the generic ISR. *)
BootIdt == [v \in Vectors |-> IF v \in BootVectors THEN BootStub ELSE Absent]

Init ==
    /\ madt = Madt /\ ioapics = << >> /\ regs = << >> /\ overrides = << >>
    /\ irqs = {} /\ taken = {} /\ timer_ids = {}
    /\ idt = BootIdt /\ hpet = [mode |-> "Normal", ids |-> {}]
    /\ config = [t \in Timers |-> [int_enable |-> FALSE, fsb |-> FALSE]]
    /\ call = [t \in Timers |-> Idle] /\ route = [t \in Timers |-> NoRoute]
    /\ result = [t \in Timers |-> "none"] /\ panic = FALSE

afterBoot == <<irqs, taken, idt, timer_ids, config, call, route, result>>

(* ioapic::add, for an IO APIC entry of the MADT. *)
add ==
    /\ ~ panic /\ madt # << >> /\ Head(madt).type = "IO_APIC"
    /\ LET e == Head(madt)
       IN  /\ ioapics' = Append(ioapics, [gsi_base |-> e.gsi_base, gsi_count |-> e.gsi_count,
                                          apic_id |-> e.apic_id])
           /\ regs' = Append(regs, ResetTable(e.gsi_count))
    /\ madt' = Tail(madt)
    /\ UNCHANGED <<overrides, hpet, panic, afterBoot>>

(* override_irq, for a source override or an NMI source of the MADT. *)
override_irq ==
    /\ ~ panic /\ madt # << >> /\ Head(madt).type \in {"IO_APIC_ISO", "IO_APIC_NMI_ISO"}
    /\ LET e == Head(madt)
       IN  IF OwnersOf(e.gsi) = {}
           THEN panic' = TRUE /\ UNCHANGED <<madt, regs, overrides>>
           ELSE LET old == EntryOf(e.gsi)
                IN  /\ Rewrite(e.gsi,
                         [low  |-> [old.low EXCEPT !.pins = e.flags,
                                      !.delivery = IF e.type = "IO_APIC_NMI_ISO" THEN "Nmi" ELSE @],
                          high |-> [old.high EXCEPT !.top = ioapics[OwnerOf(e.gsi)].apic_id]])
                    /\ overrides' = Append(overrides, [irq |-> e.irq, gsi |-> e.gsi])
                    /\ madt' = Tail(madt) /\ UNCHANGED panic
    /\ UNCHANGED <<ioapics, hpet, afterBoot>>

(* init_irq_allocator, the last statement of Madt::parse. *)
init_irq_allocator ==
    /\ ~ panic /\ madt = << >> /\ irqs = {} /\ ioapics # << >>
    /\ LET count == FoldLeft(LAMBDA n, i : n + i.gsi_count, 0, ioapics)
       IN  irqs' = 0..(count - 1)
    /\ UNCHANGED <<madt, ioapics, regs, overrides, taken, idt, hpet, timer_ids, config,
                   call, route, result, panic>>

(* Hpet::init, for the HPET's table, which may come before or after the    *)
(* MADT; the routing mode must be one the HPET supports.                   *)
setup_hpet ==
    /\ ~ panic /\ hpet.ids = {} /\ (madt = Madt \/ irqs # {})
    /\ hpet' = [mode |-> RoutingMode, ids |-> Timers]
    /\ UNCHANGED <<madt, ioapics, regs, overrides, panic, afterBoot>>

Booted == irqs # {} /\ hpet.ids # {} /\ ~ panic
boot == <<madt, ioapics, overrides, irqs, hpet>>
-----------------------------------------------------------------------------
(* The HPET's timers.                                                      *)

(* IdTracker::allocate, and the searches for the first entry in order. *)
LowestOf(S) == CHOOSE i \in S : \A j \in S : i <= j

(* HpetTimer::new: the lowest free id.  Nothing in the system gives an id  *)
(* back: HpetTimer has no Drop, and no timer is kept in a SpinLock, whose  *)
(* guard would free it.                                                    *)
new ==
    /\ Booted
    /\ timer_ids # hpet.ids
    /\ timer_ids' = timer_ids \cup {LowestOf(hpet.ids \ timer_ids)}
    /\ UNCHANGED <<boot, regs, taken, idt, config, call, route, result, panic>>

(* The IRQs config_delivery_mode tries for timer t. *)
Candidates(t) ==
    CASE hpet.mode = "Legacy" /\ t = 0 -> {PIT_IRQ}
      [] hpet.mode = "Legacy" /\ t = 1 -> {RTC_IRQ}
      [] OTHER -> RouteCap[t]

(* The IRQ that is registered once candidate i is allocated. *)
IrqFor(t, i) == IF hpet.mode = "Legacy" /\ t \in {0, 1} THEN i ELSE gsi_to_irq(i)

Returns(t, r) == result' = [result EXCEPT ![t] = r]

(* HpetTimer::configure up to config_delivery_mode: the mode is checked    *)
(* and the configuration register is read under the HPET's lock.           *)
configure(t) ==
    /\ Booted /\ t \in timer_ids /\ call[t].pc = "idle"
    /\ \/ /\ t \notin PeriodicCapable
          /\ Returns(t, "UnsupportedTimerMode") /\ UNCHANGED call
       \/ \E stub \in StubsOf[t], receive \in Receive :
            /\ call' = [call EXCEPT ![t] = [Idle EXCEPT !.pc = "probe", !.delivery = stub,
                                              !.receive = receive, !.left = Candidates(t)]]
            /\ Returns(t, "pending")
    /\ UNCHANGED <<boot, regs, taken, idt, timer_ids, config, route, panic>>

(* configure with FSB delivery; it takes no IRQ and touches only the       *)
(* timer's own registers.                                                  *)
configure_fsb(t) ==
    /\ Booted /\ t \in timer_ids /\ call[t].pc = "idle"
    /\ \/ t \notin FsbCapable /\ Returns(t, "InvalidTimerFlags") /\ UNCHANGED <<config, route>>
       \/ /\ t \in FsbCapable
          /\ \E receive \in Receive :
               config' = [config EXCEPT ![t] = [int_enable |-> receive, fsb |-> TRUE]]
          /\ route' = [route EXCEPT ![t] = NoRoute] /\ Returns(t, "Ok")
    /\ UNCHANGED <<boot, regs, taken, idt, timer_ids, call, panic>>

(* The search, giving up at the first candidate that is taken. *)
Probe_one_try(t) ==
    /\ Booted /\ call[t].pc = "probe"
    /\ IF call[t].left # {} /\ CanAllocate(LowestOf(call[t].left))
       THEN LET i == LowestOf(call[t].left)
            IN  /\ taken' = taken \cup {i}
                /\ call' = [call EXCEPT ![t].pc = "mask", ![t].irq = IrqFor(t, i)]
                /\ UNCHANGED result
       ELSE call' = [call EXCEPT ![t] = Idle] /\ Returns(t, "IrqError") /\ UNCHANGED taken
    /\ UNCHANGED <<boot, regs, idt, timer_ids, config, route, panic>>

(* One turn of the search for an IRQ: allocate_irq_at takes the lock of    *)
(* the allocator anew for every candidate.                                 *)
Probe(t) ==
    /\ Booted /\ call[t].pc = "probe"
    /\ \/ /\ call[t].left = {}
          /\ call' = [call EXCEPT ![t] = Idle] /\ Returns(t, "IrqError") /\ UNCHANGED taken
       \/ /\ call[t].left # {}
          /\ LET i == LowestOf(call[t].left)
             IN  \/ /\ CanAllocate(i)
                    /\ taken' = taken \cup {i}
                    /\ call' = [call EXCEPT ![t].pc = "mask", ![t].irq = IrqFor(t, i)]
                 \/ /\ ~ CanAllocate(i)
                    /\ call' = [call EXCEPT ![t].left = @ \ {i}]
                    /\ UNCHANGED taken
          /\ UNCHANGED result
    /\ UNCHANGED <<boot, regs, idt, timer_ids, config, route, panic>>
-----------------------------------------------------------------------------
(* register_irq: four calls, each with a lock of its own.                  *)

(* ioapic::set_disabled on the IRQ of t's call, and the call moves on. *)
SetDisabled(t, status, next) ==
    LET gsi == irq_to_gsi(call[t].irq)
    IN  IF OwnersOf(gsi) = {}
        THEN panic' = TRUE /\ UNCHANGED <<regs, call>>
        ELSE /\ LET old == EntryOf(gsi)
                IN  Rewrite(gsi, [old EXCEPT !.low.masked = status])
             /\ call' = [call EXCEPT ![t].pc = next] /\ UNCHANGED panic

(* The first step of register_irq with the status inverted. *)
Mask_inverted(t) ==
    /\ Booted /\ call[t].pc = "mask" /\ SetDisabled(t, FALSE, "install")
    /\ UNCHANGED <<boot, taken, idt, timer_ids, config, route, result>>

Mask(t) ==
    /\ Booted /\ call[t].pc = "mask" /\ SetDisabled(t, TRUE, "install")
    /\ UNCHANGED <<boot, taken, idt, timer_ids, config, route, result>>

FreeGates == {v \in Vectors : idt[v] = Absent}

(* install_isr: the first free gate; unwrap panics when there is none. *)
install_isr(t) ==
    /\ Booted /\ call[t].pc = "install"
    /\ IF FreeGates = {}
       THEN panic' = TRUE /\ UNCHANGED <<idt, call>>
       ELSE LET v == LowestOf(FreeGates)
            IN  /\ idt' = [idt EXCEPT ![v] = call[t].delivery]
                /\ call' = [call EXCEPT ![t].pc = "map", ![t].vector = v]
                /\ UNCHANGED panic
    /\ UNCHANGED <<boot, regs, taken, timer_ids, config, route, result>>

(* map_irq_to_vector, which leaves the line masked. *)
map_irq_to_vector(t) ==
    /\ Booted /\ call[t].pc = "map"
    /\ LET gsi == irq_to_gsi(call[t].irq)
       IN  IF OwnersOf(gsi) = {}
           THEN panic' = TRUE /\ UNCHANGED <<regs, call>>
           ELSE /\ LET old == EntryOf(gsi)
                   IN  Rewrite(gsi, [old EXCEPT !.low.vector = call[t].vector,
                                                !.low.masked = TRUE])
                /\ call' = [call EXCEPT ![t].pc = "unmask"] /\ UNCHANGED panic
    /\ UNCHANGED <<boot, taken, idt, timer_ids, config, route, result>>

Unmask(t) ==
    /\ Booted /\ call[t].pc = "unmask" /\ SetDisabled(t, FALSE, "write")
    /\ UNCHANGED <<boot, taken, idt, timer_ids, config, route, result>>


(* The rest of configure: the timer's registers are written. *)
WriteTimer(t) ==
    /\ Booted /\ call[t].pc = "write"
    /\ config' = [config EXCEPT ![t] = [int_enable |-> call[t].receive, fsb |-> FALSE]]
    /\ route' = [route EXCEPT ![t] = [stub |-> call[t].delivery, irq |-> call[t].irq,
                                      vector |-> call[t].vector]]
    /\ call' = [call EXCEPT ![t] = Idle] /\ Returns(t, "Ok")
    /\ UNCHANGED <<boot, regs, taken, idt, timer_ids, panic>>

(* HpetTimer::set_disabled *)
set_disabled(t) ==
    /\ Booted /\ t \in timer_ids /\ call[t].pc = "idle"
    /\ \E state \in BOOLEAN : config' = [config EXCEPT ![t].int_enable = ~ state]
    /\ UNCHANGED <<boot, regs, taken, idt, timer_ids, call, route, result, panic>>

Next ==
    \/ add \/ override_irq \/ init_irq_allocator \/ setup_hpet \/ new
    \/ \E t \in Timers :
         \/ configure(t) \/ configure_fsb(t) \/ set_disabled(t)
         \/ Probe(t) \/ Mask(t) \/ install_isr(t)
         \/ map_irq_to_vector(t) \/ Unmask(t) \/ WriteTimer(t)

Spec == Init /\ [][Next]_vars
-----------------------------------------------------------------------------
(* Properties.                                                             *)

Lines(a) == {red_tbl_to_index(i) : i \in 0..(ioapics[a].gsi_count - 1)}

(* Type invariant. *)
TypeOK ==
    /\ madt \in Seq(ToSet(Madt)) /\ Len(regs) = Len(ioapics)
    /\ \A a \in DOMAIN regs : \A r \in DOMAIN regs[a] :
         /\ regs[a][r].vector \in Vectors /\ regs[a][r].masked \in BOOLEAN
    /\ taken \subseteq irqs /\ timer_ids \subseteq hpet.ids /\ hpet.ids \in {{}, Timers}
    /\ idt \in [Vectors -> Stubs \cup {BootStub, Absent}]
    /\ \A t \in Timers :
         /\ call[t].pc \in {"idle", "probe", "mask", "install", "map", "unmask", "write"}
         /\ call[t].left \subseteq Candidates(t)
         /\ call[t].irq \in irqs \cup {None} /\ call[t].vector \in Vectors \cup {None}
         /\ result[t] \in {"none", "pending", "Ok", "IrqError", "UnsupportedTimerMode",
                           "InvalidTimerFlags"}
    /\ panic \in BOOLEAN

(* At every step of register_irq, whoever else registers at the same time, *)
(* a line that is not masked names a gate that some register_irq installed:*)
(* no device can raise an exception's vector or a gate that is absent.     *)
UnmaskedHasHandler ==
    TypeOK /\ \A a \in DOMAIN regs : \A r \in Lines(a) :
      ~ regs[a][r].masked => idt[regs[a][r].vector] \in Stubs


(* After boot a step changes at most the mask and the vector of one line,  *)
(* the one of the caller's IRQ: the entry's other half, which the code     *)
(* reads and writes back in another line's register, and the settings of   *)
(* the MADT are as they were.                                              *)
OnlyOwnLineChanges ==
    [][Booted =>
         \A a \in DOMAIN regs : \A r \in DOMAIN regs[a] : regs'[a][r] # regs[a][r] =>
           /\ regs'[a][r] = [regs[a][r] EXCEPT !.masked = regs'[a][r].masked,
                                               !.vector = regs'[a][r].vector]
           /\ \E t \in Timers : /\ call'[t] # call[t]
                                /\ a = OwnerOf(irq_to_gsi(call[t].irq))
                                /\ r = OffsetOf(irq_to_gsi(call[t].irq))]_vars

(* configure returns IrqError only when every IRQ the timer may use is     *)
(* allocated or is no IRQ of the IO APICs, although other timers allocate  *)
(* IRQs between the turns of the search.                                   *)
IrqErrorMeansTaken ==
    \A t \in Timers : result[t] = "IrqError" => Candidates(t) \cap irqs \subseteq taken

=============================================================================
