------------------------- MODULE MCInterruptRouting -------------------------
(* InterruptRouting with the usual tables of a PC: the PIT's IRQ 0 is wired *)
(* to GSI 2, and two IO APICs share the GSIs.  An IO APIC with 12 lines is  *)
(* large enough for the register that is taken for the high half of line 2  *)
(* to be the one of line 11.                                                *)
EXTENDS InterruptRouting

MCIoApic(gsi_base, gsi_count, apic_id) ==
    [type |-> "IO_APIC", gsi_base |-> gsi_base, gsi_count |-> gsi_count, apic_id |-> apic_id]
MCMadt ==
    << MCIoApic(0, 12, 1),
       [type |-> "IO_APIC_ISO", irq |-> 0, gsi |-> 2, flags |-> 0],
       [type |-> "IO_APIC_ISO", irq |-> 9, gsi |-> 9, flags |-> 15],
       MCIoApic(12, 2, 2),
       [type |-> "IO_APIC_NMI_ISO", irq |-> 13, gsi |-> 13, flags |-> 0] >>

(* Three gates are left to interrupts, so that the IDT fills up. *)
MCVectors == 0..5
MCBootVectors == {0, 1, 5}

MCTimers == 0..2
(* The third timer may use the RTC's line, one line of each IO APIC and a  *)
(* line no IO APIC has.                                                    *)
MCRouteCap == [t \in MCTimers |-> {8, 11, 12, 20}]
MCPeriodicCapable == {0, 1}
MCFsbCapable == {2}
(* The caller in timer/apic.rs polls, without interrupts. *)
MCReceive == {FALSE}
MCStubsOf == [t \in MCTimers |-> IF t = 1 THEN {"isr_b"} ELSE {"isr_a"}]
=============================================================================
