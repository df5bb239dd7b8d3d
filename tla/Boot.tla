-------------------------------- MODULE Boot --------------------------------
(***************************************************************************)
(* From kmain to the idle loop: the boot sequence (boot/src/boot/limine.rs,*)
(* main.rs), the ACPI tables (boot/src/acpi), the local APICs of the MADT  *)
(* (kernel/src/arch/x86_64/apic/lapic.rs), the PCIe scan of the MCFG       *)
(* (drivers/src/bus/pcie.rs) and the console every step logs to (logger).  *)
(*                                                                         *)
(* One processor runs, and nothing that returns interrupts it: every gate  *)
(* that is installed before the idle loop panics or only signals an EOI.   *)
(* A step is one call of kmain, one ACPI table, one MADT entry or one PCIe *)
(* device.  What the firmware and the boot loader left behind is the       *)
(* constant record machine, chosen at the start.                           *)
(*                                                                         *)
(* Definitions named <definition>_<defect> are defective variants of the   *)
(* definition that follows; the README says which property each breaks.    *)
(***************************************************************************)
EXTENDS Integers, Sequences, FiniteSets, SequencesExt

CONSTANTS
    Machines,       \* the machines the kernel may be booted on
    LineLength,     \* the characters of a message, without its newline
    LastDevice      \* the highest device number of a bus, 31 in the code

VARIABLES
    machine,   \* what firmware and boot loader provide
    pc,        \* the call of kmain that is next, or the table being parsed
    stopped,   \* "", or how the kernel ended
    console,   \* FRAMEBUFFER_WRITER, and the pixels drawn so far
    mapped,    \* mapped[v]: the physical page behind the v-th page handed out
    tables,    \* the tables of the XSDT still to parse
    entries,   \* the MADT entries still to parse
    left,      \* Iter.len: the bytes of the MADT still to parse
    lapics,    \* LOCAL_APICS
    apic,      \* the registers of the local APIC of the processor that runs
    ioapics,   \* IO_APICS, as the ranges of their GSIs
    irqs,      \* the number of IRQs of IRQ_ALLOCATOR
    hpet,      \* whether HPET is initialised
    groups,    \* the segment groups of the MCFG still to scan
    scan,      \* the bus and the device of groups[1] that are next
    devices    \* PcieManager::devices, as indices of mapped

memory == <<mapped, tables>>
madtState == <<entries, left, lapics, apic, ioapics, irqs>>
pcieState == <<groups, scan, devices>>
vars == <<machine, pc, stopped, console, memory, madtState, hpet, pcieState>>
-----------------------------------------------------------------------------
(* The console.  The cursor is in pixels; a character is 8 by 16.  right   *)
(* and bottom bound the pixels that were drawn, pending is the number of   *)
(* characters of the current messages that are not written yet.            *)

(* scroll_y, disabling the console one line too late. *)
scroll_y_late(c) == [c EXCEPT !.y = @ + 16, !.disabled = @ \/ c.y >= c.height]

scroll_y(c) == [c EXCEPT !.y = @ + 16, !.disabled = @ \/ c.y + 16 >= c.height]

scroll_x(c, newline) ==
    IF c.x + 8 >= c.width \/ newline THEN scroll_y([c EXCEPT !.x = 0])
                                     ELSE [c EXCEPT !.x = @ + 8]

Larger(a, b) == IF a < b THEN b ELSE a

draw_char(c, newline) ==
    IF c.disabled
    THEN c
    ELSE scroll_x([c EXCEPT !.right = Larger(@, c.x + 8), !.bottom = Larger(@, c.y + 16)],
                  newline)

(* println!, of messages that each end in a newline. *)
println(c, messages) == [c EXCEPT !.pending = messages * (LineLength + 1)]

(* FRAMEBUFFER_WRITER before init_from_limine: no pointer, no size. *)
NoConsole == [ready |-> FALSE, x |-> 0, y |-> 0, width |-> 0, height |-> 0,
              disabled |-> FALSE, right |-> 0, bottom |-> 0, pending |-> 0]

(* FramebufferWriter::new *)
NewConsole(screen) ==
    [NoConsole EXCEPT !.ready = TRUE, !.width = screen.width, !.height = screen.height]

(* The messages are written before anything else happens. *)
Running == stopped = "" /\ console.pending = 0

Log(messages) == console' = println(console, messages)

(* A panic: panic_handler logs and halts.  Without a framebuffer the log   *)
(* writes through a null pointer, and there is no IDT to catch the fault.  *)
Panic ==
    /\ stopped' = IF console.ready THEN "panic" ELSE "fault"
    /\ console' = IF console.ready THEN println(console, 1) ELSE console

(* Writer::write_str and draw_char, for the next character. *)
write_str ==
    /\ console.pending > 0
    /\ console' = [draw_char(console, console.pending % (LineLength + 1) = 1)
                     EXCEPT !.pending = @ - 1]
    /\ UNCHANGED <<machine, pc, stopped, memory, madtState, hpet, pcieState>>
-----------------------------------------------------------------------------
(* PagingManager::map_pages, of one page after the other: the virtual page *)
(* is the next one, and is never handed out again.  All callers unwrap; it *)
(* fails when the machine has no memory for more.                          *)
Fits(pages) == Len(mapped) + Len(pages) <= machine.pages
UpToLimit(pages) == [v \in {i \in DOMAIN pages : i <= machine.pages} |-> pages[v]]
map_pages(pages) == mapped' = UpToLimit(mapped \o pages)
HandedOut == Len(mapped) + 1
Unmapped == 0   \* no other page of the model
-----------------------------------------------------------------------------
(* kmain up to the ACPI tables.  machine.lacks is what is missing or wrong.*)

Init ==
    /\ machine \in Machines
    /\ pc = "base_revision" /\ stopped = "" /\ console = NoConsole
    /\ mapped = << >> /\ tables = machine.tables
    /\ entries = << >> /\ left = 0 /\ lapics = << >> /\ ioapics = << >> /\ irqs = 0
    /\ apic = machine.apic
    /\ hpet = FALSE /\ groups = << >> /\ scan = [bus |-> 0, device |-> 0] /\ devices = << >>

Step(here, next, lack) ==
    /\ Running /\ pc = here
    /\ \/ machine.lacks = lack /\ Panic /\ UNCHANGED pc
       \/ machine.lacks # lack /\ pc' = next /\ UNCHANGED stopped
    /\ UNCHANGED <<machine, memory, madtState, hpet, pcieState>>

(* assert!(BASE_REVISION.is_supported()) *)
base_revision ==
    /\ Step("base_revision", "framebuffer", "base_revision")
    /\ stopped' = "" => UNCHANGED console

(* logger::framebuffer::init_from_limine *)
init_from_limine ==
    /\ Step("framebuffer", "responses", "framebuffer")
    /\ stopped' = "" => console' = NewConsole(machine.screen)

(* The HHDM, memory map, kernel address and RSDP responses are expected. *)
responses ==
    /\ Step("responses", "early_boot_init", "response")
    /\ stopped' = "" => UNCHANGED console

(* early_boot_init: Idt::init logs twice, find_cpu_vendor once. *)
early_boot_init ==
    /\ Step("early_boot_init", "init_vaa", "vendor")
    /\ stopped' = "" => Log(3)

init_vaa_from_limine ==
    /\ Step("init_vaa", "init_pmm", "address_span")
    /\ stopped' = "" => Log(1)

(* pmm::init_from_limine *)
init_pmm ==
    /\ Step("init_pmm", "init_paging", "memory")
    /\ stopped' = "" => Log(1)

init_paging_from_limine ==
    /\ Step("init_paging", "rsdp", "paging")
    /\ stopped' = "" => Log(1)
-----------------------------------------------------------------------------
(* The ACPI tables.  A table that does not lie in one page cannot be read  *)
(* to its end: only the page of its first byte is mapped, and the page     *)
(* after the last one handed out is not mapped.                            *)


Readable(table) == table.ok /\ table.pages = 1

(* acpi::init: the RSDP, its two checksums, and the XSDT's page. *)
init_acpi ==
    /\ Running /\ pc = "rsdp"
    /\ LET valid == machine.lacks # "rsdp"
           pages == IF valid THEN <<machine.rsdp, machine.xsdt>> ELSE <<machine.rsdp>>
       IN  /\ map_pages(pages)
           /\ IF valid /\ Fits(pages)
              THEN pc' = "xsdt" /\ UNCHANGED <<stopped, console>>
              ELSE Panic /\ UNCHANGED pc
    /\ UNCHANGED <<machine, tables, madtState, hpet, pcieState>>

(* The checksum of the XSDT, at the head of Xsdt::parse_tables. *)
parse_tables ==
    /\ Running /\ pc = "xsdt"
    /\ \/ machine.lacks = "xsdt" /\ Panic /\ UNCHANGED pc
       \/ machine.lacks # "xsdt" /\ pc' = "tables" /\ UNCHANGED <<stopped, console>>
    /\ UNCHANGED <<machine, memory, madtState, hpet, pcieState>>

(* Iter::next of the XSDT, and the checksum that every parser starts with. *)
NextTable(signature) ==
    /\ Running /\ pc = "tables" /\ tables # << >>
    /\ Head(tables).signature = signature
    /\ tables' = Tail(tables)
    /\ UNCHANGED machine

(* A table whose signature is not matched is skipped without a log. *)
SkipTable ==
    /\ NextTable("other")
    /\ map_pages(<<Head(tables).page>>)
    /\ IF Fits(<<Head(tables).page>>) THEN UNCHANGED <<stopped, console>> ELSE Panic
    /\ UNCHANGED <<pc, madtState, hpet, pcieState>>

(* Hpet::setup_hpet, with its two logs, and Hpet::init in legacy mode. *)
setup_hpet ==
    /\ NextTable("HPET")
    /\ LET table == Head(tables)
           pages == IF Readable(table) THEN <<table.page, table.base>> ELSE <<table.page>>
       IN  /\ map_pages(pages)
           /\ IF Readable(table) /\ Fits(pages) /\ machine.lacks # "leg_route_cap"
              THEN hpet' = TRUE /\ Log(2) /\ UNCHANGED stopped
              ELSE Panic /\ UNCHANGED hpet
    /\ UNCHANGED <<pc, madtState, pcieState>>

(* Madt::parse up to its loop; the PIC it masks is not modelled. *)
Madt_parse ==
    /\ NextTable("APIC")
    /\ LET table == Head(tables)
       IN  /\ map_pages(<<table.page>>)
           /\ IF Readable(table) /\ Fits(<<table.page>>)
              THEN /\ entries' = table.entries /\ left' = table.length
                   /\ pc' = "madt" /\ UNCHANGED <<stopped, console>>
              ELSE Panic /\ UNCHANGED <<entries, left, pc>>
    /\ UNCHANGED <<lapics, apic, ioapics, irqs, hpet, pcieState>>

(* The loops of brute_force_discover start at the first bus of a group. *)
ScanFrom(gs) == [bus |-> IF gs = << >> THEN 0 ELSE Head(gs).start, device |-> 0]

(* Mcfg::parse up to the scan. *)
Mcfg_parse ==
    /\ NextTable("MCFG")
    /\ LET table == Head(tables)
       IN  /\ map_pages(<<table.page>>)
           /\ IF Readable(table) /\ Fits(<<table.page>>)
              THEN /\ groups' = table.groups /\ scan' = ScanFrom(table.groups)
                   /\ pc' = "pcie" /\ UNCHANGED <<stopped, console>>
              ELSE Panic /\ UNCHANGED <<groups, scan, pc>>
    /\ UNCHANGED <<madtState, hpet, devices>>
-----------------------------------------------------------------------------
(* The local APICs.  Their registers are at the same physical page on      *)
(* every processor, so an access reaches the APIC of the processor that    *)
(* runs, whichever LocalApic it goes through.                              *)

(* TryFrom<u16> for PinPolarity and for TriggerMode *)
PinPolarity == (1 :> "ActiveHigh") @@ (3 :> "ActiveLow") @@ (0 :> "ActiveLow")
TriggerMode == (1 :> "Edge") @@ (0 :> "Edge") @@ (3 :> "Level")

(* A write through base page b to the register the update changes. *)
Written(a, b, update) == IF b = machine.apic_page THEN update ELSE a

(* LocalApic::new: the spurious vector with the enable bit, and the TPR. *)
Enabled(a, b) == Written(a, b, [a EXCEPT !.siv = 511, !.tpr = 0])

(* setup_lvts, leaving the LINTs masked. *)
setup_lvts_masked(a, b, lint, polarity, trigger) ==
    Written(a, b, [a EXCEPT
        !.lint[lint]     = [@ EXCEPT !.mode = "Nmi", !.trigger = trigger, !.polarity = polarity],
        !.lint[1 - lint] = [@ EXCEPT !.mode = "ExtInt", !.trigger = "Edge"],
        !.error_masked   = FALSE])

(* setup_lvts: the LINT becomes an NMI, the other one an ExtInt. *)
setup_lvts(a, b, lint, polarity, trigger) ==
    Written(a, b, [a EXCEPT
        !.lint[lint]     = [mode |-> "Nmi", trigger |-> trigger, polarity |-> polarity,
                            masked |-> FALSE],
        !.lint[1 - lint] = [@ EXCEPT !.mode = "ExtInt", !.trigger = "Edge", !.masked = FALSE],
        !.error_masked   = FALSE])


(* Iter::next of the MADT: the entry's length is taken off first, and      *)
(* panics when the table ends within the entry.                            *)
NextEntry(types) ==
    /\ Running /\ pc = "madt" /\ left # 0
    /\ Head(entries).type \in types /\ Head(entries).length <= left
    /\ left' = left - Head(entries).length /\ entries' = Tail(entries)
    /\ UNCHANGED <<machine, tables, hpet, pcieState>>

Truncated ==
    /\ Running /\ pc = "madt" /\ left # 0 /\ Head(entries).length > left
    /\ Panic
    /\ UNCHANGED <<machine, pc, memory, madtState, hpet, pcieState>>

(* The test of lapic::add: enabled or online capable. *)
Usable(flags) == flags % 2 = 1 \/ (flags \div 2) % 2 = 1

(* lapic::add *)
add ==
    /\ NextEntry({"LOCAL_APIC", "PROCESSOR_LOCAL_X2APIC"})
    /\ LET e == Head(entries)
       IN  \/ /\ ~ Usable(e.flags)
              /\ Log(1) /\ UNCHANGED <<mapped, lapics, apic, stopped>>
           \/ /\ Usable(e.flags)
              /\ map_pages(<<machine.madt_page>>)
              /\ IF Fits(<<machine.madt_page>>) /\ machine.lacks # "apic"
                 THEN /\ lapics' = Append(lapics, [processor |-> e.processor, base |-> HandedOut])
                      /\ apic' = Enabled(apic, machine.madt_page)
                      /\ UNCHANGED <<stopped, console>>
                 ELSE Panic /\ UNCHANGED <<lapics, apic>>
    /\ UNCHANGED <<pc, ioapics, irqs>>

ALL_PROCESSORS_ID == 255

Matches(lapic, processor) == processor \in {ALL_PROCESSORS_ID, lapic.processor}

(* config_lints: every matching LocalApic in turn. *)
config_lints ==
    /\ NextEntry({"LOCAL_APIC_NMI"})
    /\ LET e        == Head(entries)
           matching == SelectSeq(lapics, LAMBDA l : Matches(l, e.processor))
           polarity == e.flags % 4
           trigger  == (e.flags \div 4) % 4
       IN  IF matching = << >>
           THEN UNCHANGED <<apic, stopped, console>>
           ELSE IF /\ e.lint \in {0, 1}
                   /\ polarity \in DOMAIN PinPolarity /\ trigger \in DOMAIN TriggerMode
                THEN /\ apic' = FoldLeft(LAMBDA a, l : setup_lvts(a, mapped[l.base], e.lint,
                                             PinPolarity[polarity], TriggerMode[trigger]),
                                         apic, matching)
                     /\ UNCHANGED <<stopped, console>>
                ELSE Panic /\ UNCHANGED apic
    /\ UNCHANGED <<pc, mapped, lapics, ioapics, irqs>>

(* The address override, with override_base of the LAPICs added so far. *)
override_base ==
    /\ NextEntry({"LOCAL_APIC_ADDR_OVERRIDE"})
    /\ map_pages(<<Head(entries).page>>)
    /\ IF Fits(<<Head(entries).page>>)
       THEN /\ lapics' = [l \in DOMAIN lapics |-> [lapics[l] EXCEPT !.base = HandedOut]]
            /\ UNCHANGED <<stopped, console>>
       ELSE Panic /\ UNCHANGED lapics
    /\ UNCHANGED <<pc, apic, ioapics, irqs>>

(* ioapic::add; InterruptRouting models the IO APICs in detail. *)
ioapic_add ==
    /\ NextEntry({"IO_APIC"})
    /\ map_pages(<<Head(entries).page>>)
    /\ IF Fits(<<Head(entries).page>>)
       THEN /\ ioapics' = Append(ioapics, Head(entries).gsis)
            /\ UNCHANGED <<stopped, console>>
       ELSE Panic /\ UNCHANGED ioapics
    /\ UNCHANGED <<pc, lapics, apic, irqs>>

(* override_irq: some IO APIC already added has the GSI, or expect panics. *)
override_irq ==
    /\ NextEntry({"IO_APIC_ISO", "IO_APIC_NMI_ISO"})
    /\ IF \E gsis \in ToSet(ioapics) : Head(entries).gsi \in gsis
       THEN UNCHANGED <<stopped, console>>
       ELSE Panic
    /\ UNCHANGED <<pc, mapped, lapics, apic, ioapics, irqs>>

(* An entry of another type is logged and left. *)
UnknownEntry ==
    /\ NextEntry({"unknown"})
    /\ Log(1)
    /\ UNCHANGED <<pc, stopped, mapped, lapics, apic, ioapics, irqs>>

(* init_irq_allocator, after the loop: the last IRQ is the number of GSIs  *)
(* less one, which underflows without an IO APIC.                          *)
init_irq_allocator ==
    /\ Running /\ pc = "madt" /\ left = 0
    /\ IF ioapics = << >>
       THEN Panic /\ UNCHANGED <<pc, irqs>>
       ELSE /\ irqs' = FoldLeft(LAMBDA n, gsis : n + Cardinality(gsis), 0, ioapics)
            /\ pc' = "tables" /\ Log(1) /\ UNCHANGED stopped
    /\ UNCHANGED <<machine, memory, entries, left, lapics, apic, ioapics, hpet, pcieState>>
-----------------------------------------------------------------------------
(* The PCIe scan.                                                          *)

(* PcieDevice::get_base_address, in pages. *)
get_base_address(bus, device, function, base) == base + bus * 256 + device * 8 + function

Present(page) == page \in machine.functions

(* check_device without the unmap of a function that is absent. *)
check_device_kept(found, page) ==
    [mapped  |-> Append(found.mapped, page),
     devices |-> IF Present(page) THEN Append(found.devices, Len(found.mapped) + 1)
                 ELSE found.devices]

(* check_device, and the push of a function that is present. *)
check_device(found, page) ==
    [mapped  |-> Append(found.mapped, IF Present(page) THEN page ELSE Unmapped),
     devices |-> IF Present(page) THEN Append(found.devices, Len(found.mapped) + 1)
                 ELSE found.devices]

(* The functions discover_device_functions looks at after function 0. *)
OtherFunctions(page) ==
    IF page \in machine.multifunction THEN [f \in 1..7 |-> page + f] ELSE << >>

(* discover_device_functions *)
Discovered(page) ==
    LET first == check_device([mapped |-> mapped, devices |-> devices], page)
    IN  IF Present(page) THEN FoldLeft(check_device, first, OtherFunctions(page)) ELSE first

(* The next bus and device of the three loops of brute_force_discover. *)
NextScan ==
    CASE scan.device < LastDevice ->
           [groups |-> groups, scan |-> [scan EXCEPT !.device = @ + 1]]
      [] scan.device = LastDevice /\ scan.bus < Head(groups).end ->
           [groups |-> groups, scan |-> [bus |-> scan.bus + 1, device |-> 0]]
      [] OTHER -> [groups |-> Tail(groups), scan |-> ScanFrom(Tail(groups))]

brute_force_discover ==
    /\ Running /\ pc = "pcie" /\ groups # << >>
    /\ LET found == Discovered(get_base_address(scan.bus, scan.device, 0, Head(groups).base))
       IN  /\ mapped' = UpToLimit(found.mapped)
           /\ devices' = SelectSeq(found.devices, LAMBDA d : d <= machine.pages)
           /\ IF Len(found.mapped) <= machine.pages
              THEN /\ groups' = NextScan.groups /\ scan' = NextScan.scan
                   /\ UNCHANGED <<stopped, console>>
              ELSE Panic /\ UNCHANGED <<groups, scan>>
    /\ UNCHANGED <<machine, pc, tables, madtState, hpet>>

(* load_device_drivers, which only logs the NVMe controllers. *)
load_device_drivers ==
    /\ Running /\ pc = "pcie" /\ groups = << >>
    /\ Log(1 + Cardinality({d \in ToSet(devices) : mapped[d] \in machine.nvme}))
    /\ pc' = "tables"
    /\ UNCHANGED <<machine, stopped, memory, madtState, hpet, pcieState>>

(* The end of acpi::init, and funderberker_start. *)
funderberker_start ==
    /\ Running /\ pc = "tables" /\ tables = << >>
    /\ Log(2) /\ stopped' = "hcf"
    /\ UNCHANGED <<machine, pc, memory, madtState, hpet, pcieState>>
-----------------------------------------------------------------------------
Next ==
    \/ write_str \/ base_revision \/ init_from_limine \/ responses \/ early_boot_init
    \/ init_vaa_from_limine \/ init_pmm \/ init_paging_from_limine
    \/ init_acpi \/ parse_tables \/ SkipTable \/ setup_hpet \/ Madt_parse \/ Mcfg_parse
    \/ Truncated \/ add \/ config_lints \/ override_base \/ ioapic_add \/ override_irq
    \/ UnknownEntry \/ init_irq_allocator
    \/ brute_force_discover \/ load_device_drivers \/ funderberker_start

Spec == Init /\ [][Next]_vars

(* The processor keeps running. *)
FairSpec == Spec /\ WF_vars(Next)
-----------------------------------------------------------------------------
(* Properties.                                                             *)

TableOf(signature) == SelectSeq(machine.tables, LAMBDA t : t.signature = signature)

(* The config space pages of a group, and of all groups of the MCFG. *)
ConfigPages(group) ==
    {get_base_address(b, d, f, group.base) :
        b \in group.start..group.end, d \in 0..LastDevice, f \in 0..7}
AllConfigPages ==
    UNION {UNION {ConfigPages(g) : g \in ToSet(t.groups)} : t \in ToSet(TableOf("MCFG"))}

(* A function of a device that has a function 0 which admits it. *)
Reachable(page) ==
    LET first == page - (page % 8)
    IN  Present(page) /\ Present(first) /\ (page = first \/ first \in machine.multifunction)

(* At every moment of the scan, the pages of PCIe configuration space that *)
(* are mapped are those of the functions in the list of devices, each of   *)
(* them once: a probe of an absent function leaves no mapping behind.      *)
(* When the kernel has started, the list has every function that is        *)
(* present and that its function 0 admits, and no other: on every bus of   *)
(* every segment group, the first and the last included.                   *)
ConfigSpaceMapped ==
    /\ stopped \in {"", "hcf", "panic", "fault"} /\ Len(mapped) <= machine.pages
    /\ \A v \in DOMAIN mapped :
         (mapped[v] # Unmapped /\ mapped[v] \in AllConfigPages) <=> v \in ToSet(devices)
    /\ \A i, j \in DOMAIN devices : i # j => mapped[devices[i]] # mapped[devices[j]]
    /\ stopped = "hcf" =>
         {mapped[d] : d \in ToSet(devices)} = {p \in AllConfigPages : Reachable(p)}

(* The entries of the MADT that are applied to the local APICs. *)
MadtEntries == IF TableOf("APIC") = << >> THEN << >> ELSE TableOf("APIC")[1].entries
UsableLapics == SelectSeq(MadtEntries, LAMBDA e :
    e.type \in {"LOCAL_APIC", "PROCESSOR_LOCAL_X2APIC"} /\ (e.flags % 4) # 0)
Nmis == SelectSeq(MadtEntries, LAMBDA e : e.type = "LOCAL_APIC_NMI")
Own == {ALL_PROCESSORS_ID, machine.processor}

(* The kernel writes the APIC of the processor that runs whichever APIC it *)
(* means: no entry for another processor may differ from its own, and the  *)
(* registers are where the MADT's header says.                             *)
LapicsAlike ==
    /\ machine.apic_page = machine.madt_page
    /\ \A e \in ToSet(MadtEntries) : e.type # "LOCAL_APIC_ADDR_OVERRIDE"
    /\ \E e \in ToSet(Nmis) : \A n \in ToSet(Nmis) : n.lint = e.lint /\ n.flags = e.flags
    /\ \E n \in ToSet(Nmis) : n.processor \in Own
    /\ \A i, j \in DOMAIN MadtEntries :
         (MadtEntries[i] \in ToSet(Nmis) /\ MadtEntries[j] \in ToSet(UsableLapics)) => j < i

(* When the kernel has started on a machine whose local APICs are alike,   *)
(* LOCAL_APICS holds the processors that are enabled or can be, in the     *)
(* order of the MADT, and the boot processor's APIC is enabled: the LINT   *)
(* the MADT names is an unmasked NMI with its polarity and trigger mode,   *)
(* the other LINT takes external interrupts, and errors are reported.      *)
BootApicReady ==
    (stopped = "hcf" /\ MadtEntries # << >>) =>
      /\ [l \in DOMAIN lapics |-> lapics[l].processor]
           = [l \in DOMAIN UsableLapics |-> UsableLapics[l].processor]
      /\ LapicsAlike =>
           LET nmi == Nmis[1]
           IN  /\ apic.siv = 511 /\ apic.tpr = 0 /\ ~ apic.error_masked
               /\ apic.lint[nmi.lint] = [mode |-> "Nmi", masked |-> FALSE,
                                         polarity |-> PinPolarity[nmi.flags % 4],
                                         trigger |-> TriggerMode[(nmi.flags \div 4) % 4]]
               /\ apic.lint[1 - nmi.lint].mode = "ExtInt"
               /\ ~ apic.lint[1 - nmi.lint].masked

(* What is wrong with the tables themselves. *)
BadLints(i) ==
    LET e == MadtEntries[i]
    IN  /\ e.type = "LOCAL_APIC_NMI"
        /\ \E j \in 1..(i - 1) : /\ MadtEntries[j] \in ToSet(UsableLapics)
                                 /\ Matches(MadtEntries[j], e.processor)
        /\ e.lint \notin {0, 1} \/ e.flags % 4 = 2 \/ (e.flags \div 4) % 4 = 2
BadGsi(i) ==
    /\ MadtEntries[i].type \in {"IO_APIC_ISO", "IO_APIC_NMI_ISO"}
    /\ \A j \in 1..(i - 1) :
         MadtEntries[j].type = "IO_APIC" => MadtEntries[i].gsi \notin MadtEntries[j].gsis
BadMadt ==
    /\ TableOf("APIC") # << >>
    /\ \/ \E i \in DOMAIN MadtEntries : BadLints(i) \/ BadGsi(i)
       \/ \A e \in ToSet(MadtEntries) : e.type # "IO_APIC"
       \/ TableOf("APIC")[1].length
            # FoldLeft(LAMBDA n, e : n + e.length, 0, MadtEntries)
BadTable ==
    \/ \E t \in ToSet(machine.tables) : t.signature # "other" /\ (~ t.ok \/ t.pages > 1)
    \/ BadMadt
    \/ machine.lacks = "leg_route_cap" /\ TableOf("HPET") # << >>
    \/ machine.lacks = "apic" /\ UsableLapics # << >>
BadPlatform == machine.lacks \notin {"", "leg_route_cap", "apic"}


(* However much is logged, the console stops at the last line: no pixel is *)
(* drawn outside a framebuffer that is a whole number of characters wide   *)
(* and high, and outside another one only those of the last character of a *)
(* line, or of the last line, that its edge cuts.                          *)
DrawsInside ==
    console.ready =>
      /\ console.right  <= ((console.width + 7) \div 8) * 8
      /\ console.bottom <= ((console.height + 15) \div 16) * 16

=============================================================================
