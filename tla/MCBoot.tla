------------------------------- MODULE MCBoot -------------------------------
(* Boot on machines that differ from an ordinary one in one respect: what  *)
(* the boot loader and the processor provide, the memory for mappings, the *)
(* order and the validity of the tables, the MADT, or the PCIe functions.  *)
EXTENDS Boot

MCPage == [rsdp |-> 1, xsdt |-> 2, madt |-> 3, hpet |-> 4, mcfg |-> 5, other |-> 6,
           lapic |-> 10, moved |-> 11, ioapic |-> 12, timers |-> 13]

MCLapic(type, processor, flags) ==
    [type |-> type, length |-> IF type = "LOCAL_APIC" THEN 8 ELSE 16,
     processor |-> processor, flags |-> flags]
MCNmi(processor, lint, flags) ==
    [type |-> "LOCAL_APIC_NMI", length |-> 6, processor |-> processor, lint |-> lint,
     flags |-> flags]
MCIoApic(gsis) == [type |-> "IO_APIC", length |-> 12, page |-> MCPage.ioapic, gsis |-> gsis]
MCIso(type, gsi) == [type |-> type, length |-> 10, gsi |-> gsi]
MCMove(page) == [type |-> "LOCAL_APIC_ADDR_OVERRIDE", length |-> 12, page |-> page]
MCUnknown == [type |-> "unknown", length |-> 12]

(* Processors 0 and 1 run or can be brought up, processor 2 cannot. *)
MCLapics == << MCLapic("LOCAL_APIC", 0, 1), MCLapic("PROCESSOR_LOCAL_X2APIC", 1, 2),
               MCLapic("LOCAL_APIC", 2, 0) >>
MCIoApics == << MCIoApic(0..3), MCIoApic(4..5), MCIso("IO_APIC_ISO", 2),
                MCIso("IO_APIC_NMI_ISO", 5), MCUnknown >>

MCMadts ==
    {MCLapics \o MCIoApics \o << MCNmi(p, l, f) >> :
        p \in {ALL_PROCESSORS_ID, 0, 1}, l \in {0, 1, 2}, f \in {0, 5, 15, 2}}
    \cup {MCLapics \o MCIoApics \o << MCNmi(0, l, 0), MCNmi(1, m, 0) >> : l, m \in {0, 1}}
    \cup { << MCNmi(ALL_PROCESSORS_ID, 1, 5) >> \o MCLapics \o MCIoApics,
           << MCMove(MCPage.moved) >> \o MCLapics \o MCIoApics,
           MCLapics \o MCIoApics \o << MCMove(MCPage.moved), MCNmi(ALL_PROCESSORS_ID, 1, 5) >>,
           MCLapics \o << MCIoApic(0..3), MCIso("IO_APIC_ISO", 4), MCIoApic(4..5) >>,
           MCLapics, << >> }

MCMadt == MCLapics \o MCIoApics \o << MCNmi(ALL_PROCESSORS_ID, 1, 5) >>
MCLength(es) == FoldLeft(LAMBDA n, e : n + e.length, 0, es)

MCTable(signature, page) == [signature |-> signature, page |-> page, ok |-> TRUE, pages |-> 1]
MCApic(es, length) ==
    MCTable("APIC", MCPage.madt) @@ [entries |-> es, length |-> length]
MCHpet == MCTable("HPET", MCPage.hpet) @@ [base |-> MCPage.timers]

(* Two segment groups; pages of configuration space start at these. *)
MCGroups == << [base |-> 1024, start |-> 0, end |-> 1], [base |-> 4096, start |-> 2, end |-> 2] >>
MCMcfg == MCTable("MCFG", MCPage.mcfg) @@ [groups |-> MCGroups]
MCOther == MCTable("other", MCPage.other)

MCTables == << MCOther, MCApic(MCMadt, MCLength(MCMadt)), MCHpet, MCMcfg >>
MCBroken(t) == {[t EXCEPT !.ok = FALSE], [t EXCEPT !.pages = 2]}

MCLint == [mode |-> "Fixed", trigger |-> "Edge", polarity |-> "ActiveHigh", masked |-> TRUE]
MCMachine ==
    [lacks |-> "", pages |-> 60, screen |-> [width |-> 40, height |-> 160],
     rsdp |-> MCPage.rsdp, xsdt |-> MCPage.xsdt, tables |-> MCTables,
     processor |-> 0, apic_page |-> MCPage.lapic, madt_page |-> MCPage.lapic,
     apic |-> [siv |-> 255, tpr |-> 16, lint |-> [l \in 0..1 |-> MCLint], error_masked |-> TRUE],
     functions |-> {1024, 1032, 1033, 4616}, multifunction |-> {1032}, nvme |-> {1033}]

MCLacks ==
    {"base_revision", "framebuffer", "response", "vendor", "address_span", "memory", "paging",
     "rsdp", "xsdt", "leg_route_cap", "apic"}

(* The first and the last function of the first and of the last device of  *)
(* a bus, and a function of each other bus.                                *)
MCFunctions == {1024, 1025, 1032, 1039, 1280, 4616}

MCMachines ==
    {[MCMachine EXCEPT !.lacks = l] : l \in MCLacks}
    \cup {[MCMachine EXCEPT !.pages = p] : p \in 0..40}
    \cup {[MCMachine EXCEPT !.screen = [width |-> w, height |-> h]] :
             w \in {20, 24}, h \in {16, 40, 48}}
    \cup {[MCMachine EXCEPT !.tables[2] = MCApic(es, MCLength(es))] : es \in MCMadts}
    \cup {[MCMachine EXCEPT !.tables[2] = MCApic(MCMadt, MCLength(MCMadt) - 1)]}
    \cup UNION {{[MCMachine EXCEPT !.tables[i] = t] : t \in MCBroken(MCTables[i])} :
                   i \in DOMAIN MCTables}
    \cup {[MCMachine EXCEPT !.tables = ts] : ts \in SetToSeqs(ToSet(MCTables))}
    \cup {[MCMachine EXCEPT !.tables = SubSeq(MCTables, 1, n)] : n \in 0..3}
    \cup {[MCMachine EXCEPT !.functions = fs, !.multifunction = ms] :
             fs \in SUBSET MCFunctions, ms \in SUBSET {1024, 1032}}
=============================================================================
