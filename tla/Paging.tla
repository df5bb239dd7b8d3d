------------------------------- MODULE Paging -------------------------------
(***************************************************************************)
(* The kernel's virtual memory: the page tables of                         *)
(* kernel/src/arch/x86_64/paging, built from the memory map at boot        *)
(* (init_from_limine), and what the rest of the kernel calls afterwards    *)
(* (mem/paging.rs), with the virtual address allocator (mem/vaa.rs) and    *)
(* the processor's translation cache.                                      *)
(*                                                                         *)
(* Addresses are page numbers.  Frames come from the physical memory       *)
(* manager, here the set of frames it has; BuddyAllocator implements it.   *)
(* A frame that was made a page table stays one for ever.  The calls of    *)
(* one processor do not interleave and interrupt handlers map nothing, so  *)
(* a call is one step; the boot loop takes a step per page it maps.        *)
(*                                                                         *)
(* Definitions named <definition>_<defect> are defective variants of the   *)
(* definition that follows; the README says which property each breaks.    *)
(***************************************************************************)
EXTENDS Integers, Sequences, FiniteSets, SequencesExt

CONSTANTS
    Entries,     \* ENTRIES_PER_TABLE
    Top,         \* MAX_BOTTOM_PAGING_LEVEL
    MemMap,      \* the memory map: records [base, length, kind], in pages
    PmmEntry,    \* the index of used_by_pmm in it
    PmmFrames,   \* the frames the physical memory manager has at boot
    HhdmOffset,  \* HHDM_OFFSET
    KernelVirt, KernelPhys,
    Devices,     \* frames of devices and tables, which callers map
    DeviceTypes, \* the memory types they ask for
    LastPage,    \* bound: the highest virtual page handed out
    Pick(_)      \* the frame the memory manager takes from a set of frames

ASSUME ConstantsAssumption ==
    /\ Entries \in Nat \ {0, 1} /\ Top \in Nat \ {0}
    /\ \A S \in SUBSET PmmFrames : S # {} => Pick(S) \in S
    /\ PmmEntry \in 1..Len(MemMap)

VARIABLES
    tables,   \* tables[f]: the entries of the page table in frame f
    frames,   \* free frames of the physical memory manager
    next,     \* IdHander::next of the virtual address allocator
    live,     \* what callers have mapped: [page, frame, kind, type]
    tlb,      \* cached translations <<page, frame>>
    region,   \* boot: the region being mapped, 0 when it is done
    done,     \* boot: pages of the region mapped so far
    flags,    \* boot: the flags variable of map_in_entry
    panic     \* an unwrap, expect or assert was hit; the kernel stops

vars == <<tables, frames, next, live, tlb, region, done, flags, panic>>
boot == <<region, done, flags>>

NoType == "None"
-----------------------------------------------------------------------------
(* Entries.  bit7 is the page size bit of a big page and the PAT bit of a  *)
(* 4 KB one.  Bit 12, the PAT bit of a big page, is the lowest bit of the  *)
(* page number in addr.                                                    *)

NoFlags == [bit7 |-> FALSE, bit12 |-> FALSE, pwt |-> FALSE, pcd |-> FALSE]

EmptyEntry == [present |-> FALSE, last |-> FALSE, addr |-> 0,
               bit7 |-> FALSE, pwt |-> FALSE, pcd |-> FALSE]

EmptyTable == [i \in 0..(Entries - 1) |-> EmptyEntry]

(* The page table of the highest level, which CR3 points to: the first     *)
(* frame init_from_limine takes.                                           *)
pml == Pick(PmmFrames)

(* Pages mapped by an entry of a level. *)
Size(level) == Entries^level


next_level_index(page, level) == (page \div Size(level)) % Entries

(* The PAT, as setup_pat leaves it: entries 0 to 5 are set, 6 and 7 keep   *)
(* what the processor starts with.                                         *)
Pat == <<"WriteBack", "WriteThrough", "Uncached", "Uncacheable",
         "WriteCombining", "WriteProtected", "Uncached", "Uncacheable">>

(* From<PatType> for PatEntry *)
PatEntry(type) == CHOOSE i \in 0..5 : Pat[i + 1] = type

(* Flags::set_pat *)
set_pat(f, type, level) ==
    IF type = NoType THEN f
    ELSE [ (IF level = 0 THEN [f EXCEPT !.bit7 = PatEntry(type) \div 4 = 1]
                         ELSE [f EXCEPT !.bit12 = PatEntry(type) \div 4 = 1])
           EXCEPT !.pwt = (PatEntry(type) \div 2) % 2 = 1,
                  !.pcd = PatEntry(type) % 2 = 1 ]

(* Entry::map refuses a present entry and flags that overlap the page size *)
(* bit.                                                                    *)
entry_map_returns(e, f, level) ==
    IF e.present THEN "PageAlreadyPresent"
    ELSE IF level > 0 /\ f.bit7 THEN "InvalidFlags"
    ELSE "Ok"

(* The caller's flags without the last-entry bit. *)
entry_map_not_last(frame, f, level) ==
    [present |-> TRUE, last |-> FALSE,
     addr |-> IF f.bit12 /\ frame % 2 = 0 THEN frame + 1 ELSE frame,
     bit7 |-> f.bit7 \/ level > 0, pwt |-> f.pwt, pcd |-> f.pcd]


(* Entry::map: set_addr, then set_flags, which adds the flags to the word. *)
entry_map(frame, f, level) ==
    [present |-> TRUE, last |-> TRUE,
     addr |-> IF f.bit12 /\ frame % 2 = 0 THEN frame + 1 ELSE frame,
     bit7 |-> f.bit7 \/ level > 0, pwt |-> f.pwt, pcd |-> f.pcd]
-----------------------------------------------------------------------------
(* Walks.  A walk is a function of the level; None where it has ended.     *)

None == -1

(* get_table_range and the processor: the table of each level on the way   *)
(* to a page.  The code follows present entries, leaf or not.              *)
TablesTo(tbls, page) ==
    LET at[l \in 0..Top] ==
          IF l = Top THEN pml
          ELSE IF at[l + 1] = None THEN None
          ELSE LET e == tbls[at[l + 1]][next_level_index(page, l + 1)]
               IN  IF e.present /\ e.addr \in DOMAIN tbls THEN e.addr ELSE None
    IN  at

(* get_entry: the level of the entry that maps a page, which is the first  *)
(* marked as last.                                                         *)
LeafLevels(tbls, page) ==
    LET at == TablesTo(tbls, page)
    IN  {l \in 0..Top : at[l] # None /\ tbls[at[l]][next_level_index(page, l)].last}

EntryOf(tbls, page, l) == tbls[TablesTo(tbls, page)[l]][next_level_index(page, l)]

(* PageTable::translate; None when the page is not mapped.  Callers only   *)
(* translate pages of the virtual address allocator, which are 4 KB ones.  *)
translate(tbls, page) ==
    LET levels == LeafLevels(tbls, page)
    IN  IF levels = {} \/ ~EntryOf(tbls, page, Max(levels)).present THEN None
        ELSE EntryOf(tbls, page, Max(levels)).addr

(* get_create_table_range: the table that maps the page at a level, after  *)
(* the tables missing on the way were taken from the memory manager.  The  *)
(* code panics without a free frame; an entry that leads to no table makes *)
(* it use arbitrary memory as one.  Both are ~ok.                          *)
get_create_table_range(tbls, frs, page, level) ==
    LET walk[l \in level..Top] ==
          IF l = Top THEN [at |-> pml, tables |-> tbls, frames |-> frs, ok |-> TRUE]
          ELSE LET up  == walk[l + 1]
                   i   == next_level_index(page, l + 1)
                   e   == up.tables[up.at][i]
                   new == Pick(up.frames)
               IN  IF ~up.ok THEN up
                   ELSE IF e.present
                   THEN [up EXCEPT !.at = e.addr, !.ok = e.addr \in DOMAIN up.tables]
                   ELSE IF up.frames = {} THEN [up EXCEPT !.ok = FALSE]
                   ELSE [at |-> new, ok |-> TRUE, frames |-> up.frames \ {new},
                         tables |-> [t \in DOMAIN up.tables \cup {new} |->
                             IF t = new THEN EmptyTable
                             ELSE IF t = up.at
                             THEN [up.tables[t] EXCEPT ![i].present = TRUE, ![i].addr = new]
                             ELSE up.tables[t]]]
    IN  walk[level]

Result(tbls, frs, returned) == [tables |-> tbls, frames |-> frs, returned |-> returned]

(* PageTable::map_pages; it stops at the first entry that cannot be set.   *)
map_pages(tbls, frs, page, frame, count, level, f) ==
    LET range == get_create_table_range(tbls, frs, page, level)
        skip  == next_level_index(page, level)
        table == range.tables[range.at]
        bad   == {i \in skip..(skip + count - 1) : entry_map_returns(table[i], f, level) # "Ok"}
        end   == IF bad = {} THEN skip + count ELSE Min(bad)
    IN  IF page % Size(level) # 0 THEN Result(tbls, frs, "InvalidVirtualAddress")
        ELSE IF frame % Size(level) # 0 THEN Result(tbls, frs, "InvalidPhysicalAddress")
        ELSE IF ~range.ok THEN Result(range.tables, range.frames, "Panic")
        ELSE IF skip + count > Entries
        THEN Result(range.tables, range.frames, "BadPageCountAndAddressCombination")
        ELSE Result([range.tables EXCEPT ![range.at] =
                        [i \in 0..(Entries - 1) |->
                            IF i \in skip..(end - 1)
                            THEN entry_map(frame + (i - skip) * Size(level), f, level)
                            ELSE table[i]]],
                    range.frames,
                    IF bad = {} THEN "Ok" ELSE entry_map_returns(table[end], f, level))

(* PageTable::unmap_pages of 4 KB pages and Entry::release; it stops at    *)
(* the first entry that is not present.  Nothing is flushed.               *)
unmap_pages(tbls, page, count) ==
    LET at   == TablesTo(tbls, page)[0]
        skip == next_level_index(page, 0)
        bad  == {i \in skip..(skip + count - 1) : ~tbls[at][i].present}
        end  == IF bad = {} THEN skip + count ELSE Min(bad)
    IN  IF at = None THEN [tables |-> tbls, returned |-> "PageNotPresent"]
        ELSE IF skip + count > Entries
        THEN [tables |-> tbls, returned |-> "BadPageCountAndAddressCombination"]
        ELSE [tables |-> [tbls EXCEPT ![at] =
                             [i \in 0..(Entries - 1) |->
                                 [tbls[at][i] EXCEPT !.present = @ /\ i \notin skip..(end - 1)]]],
              returned |-> IF bad = {} THEN "Ok" ELSE "PageNotPresent"]
-----------------------------------------------------------------------------
(* Boot.                                                                   *)

RamKinds == {"USABLE", "ACPI_RECLAIMABLE", "BOOTLOADER_RECLAIMABLE"}
MappedKinds == RamKinds \cup {"EXECUTABLE_AND_MODULES", "FRAMEBUFFER"}

(* What map_in_entry is called with for an entry of the memory map. *)
RegionOf(e) ==
    [virt   |-> IF e.kind = "EXECUTABLE_AND_MODULES" THEN KernelVirt ELSE HhdmOffset + e.base,
     phys   |-> IF e.kind = "EXECUTABLE_AND_MODULES" THEN KernelPhys ELSE e.base,
     length |-> e.length,
     type   |-> IF e.kind = "FRAMEBUFFER" THEN "WriteCombining" ELSE NoType]

(* init_from_limine: the memory manager's entry first, then the others.    *)
Regions ==
    LET others == SelectSeq(MemMap, LAMBDA e : /\ e.base # MemMap[PmmEntry].base
                                               /\ e.kind \in MappedKinds)
        all == <<MemMap[PmmEntry]>> \o others
    IN  [i \in 1..Len(all) |-> RegionOf(all[i])]

Init ==
    /\ tables = [f \in {pml} |-> EmptyTable]
    /\ frames = PmmFrames \ {pml}
    /\ next = Last(MemMap).base + Last(MemMap).length
    /\ live = {} /\ tlb = {}
    /\ region = 1 /\ done = 0 /\ flags = NoFlags
    /\ panic = FALSE

(* map_in_entry: the largest page that fits. *)
LevelFor(virt, phys, size) ==
    Max({l \in 0..(Top - 1) : size >= Size(l) /\ phys % Size(l) = 0 /\ virt % Size(l) = 0})

(* One turn of map_in_entry's loop; after the last one CR3 is loaded.      *)
map_in_entry ==
    /\ region # 0 /\ ~panic
    /\ LET r     == Regions[region]
           level == LevelFor(r.virt + done, r.phys + done, r.length - done)
           f     == set_pat(flags, r.type, level)
           m     == map_pages(tables, frames, r.virt + done, r.phys + done, 1, level, f)
           ends  == done + Size(level) = r.length
       IN  /\ tables' = m.tables /\ frames' = m.frames
           /\ panic' = (m.returned # "Ok")
           /\ done' = IF ends THEN 0 ELSE done + Size(level)
           /\ flags' = IF ends THEN NoFlags ELSE f
           /\ region' = IF ~ends THEN region ELSE IF region = Len(Regions) THEN 0 ELSE region + 1
    /\ UNCHANGED <<next, live, tlb>>
-----------------------------------------------------------------------------
(* The interface the kernel uses.  Every caller maps one 4 KB page.        *)

Running == region = 0 /\ ~panic

(* A lowest page nobody has, instead of one never used before. *)
HandedOut_reused == Min({p \in (Last(MemMap).base + Last(MemMap).length)..next :
                            \A l \in live : l.page # p})

(* VirtualAddressAllocator::handout and IdHander::handout_and_skip for one *)
(* page: the next page, which the callers below then advance.              *)
HandedOut == next

(* PagingManager::allocate_pages; a memory manager without frames and a    *)
(* page table that cannot be made panic, another error is returned.        *)
allocate_pages ==
    /\ Running /\ next < LastPage
    /\ next' = next + 1
    /\ IF frames = {}
       THEN panic' = TRUE /\ UNCHANGED <<tables, frames, live>>
       ELSE LET frame == Pick(frames)
                m == map_pages(tables, frames \ {frame}, HandedOut, frame, 1, 0, NoFlags)
            IN  /\ tables' = m.tables /\ frames' = m.frames
                /\ panic' = (m.returned = "Panic")
                /\ live' = IF m.returned # "Ok" THEN live
                           ELSE live \cup {[page |-> HandedOut, frame |-> frame,
                                            kind |-> "ram", type |-> NoType]}
    /\ UNCHANGED <<tlb, boot>>

(* PagingManager::map_pages; its callers unwrap the result. *)
map_device(frame, type) ==
    /\ Running /\ next < LastPage
    /\ next' = next + 1
    /\ LET m == map_pages(tables, frames, HandedOut, frame, 1, 0, set_pat(NoFlags, type, 0))
       IN  /\ tables' = m.tables /\ frames' = m.frames
           /\ panic' = (m.returned # "Ok")
           /\ live' = IF m.returned # "Ok" THEN live
                      ELSE live \cup {[page |-> HandedOut, frame |-> frame,
                                       kind |-> "device", type |-> type]}
    /\ UNCHANGED <<tlb, boot>>

(* The frame stays with nobody. *)
free_pages_frame_lost(l) ==
    LET frame == translate(tables, l.page)
        u     == unmap_pages(tables, l.page, 1)
    IN  /\ Running /\ l.kind = "ram"
        /\ tables' = u.tables
        /\ panic' = (frame = None \/ u.returned # "Ok")
        /\ live' = live \ {l}
        /\ UNCHANGED <<frames, next, tlb, boot>>

(* PagingManager::free_pages of one page; the slab allocator unwraps it.   *)
free_pages(l) ==
    LET frame == translate(tables, l.page)
        u     == unmap_pages(tables, l.page, 1)
    IN  /\ Running /\ l.kind = "ram"
        /\ IF frame = None \/ u.returned # "Ok"
           THEN panic' = TRUE /\ UNCHANGED <<tables, frames, live>>
           ELSE /\ tables' = u.tables /\ frames' = frames \cup {frame}
                /\ live' = live \ {l}
                /\ UNCHANGED panic
        /\ UNCHANGED <<next, tlb, boot>>

(* unmap_pages of a device's page, which the PCIe driver unwraps. *)
unmap_device(l) ==
    LET u == unmap_pages(tables, l.page, 1)
    IN  /\ Running /\ l.kind = "device"
        /\ tables' = u.tables /\ panic' = (u.returned # "Ok")
        /\ live' = live \ {l}
        /\ UNCHANGED <<frames, next, tlb, boot>>
-----------------------------------------------------------------------------
(* The processor.                                                          *)

(* A walk ends at a present entry that has the page size bit or is on the  *)
(* lowest level; a big page ignores the address bits below its size.       *)
Resolve(tbls, page) ==
    LET at       == TablesTo(tbls, page)
        entry(l) == tbls[at[l]][next_level_index(page, l)]
        leaves   == {l \in 0..Top : at[l] # None /\ entry(l).present /\ (l = 0 \/ entry(l).bit7)}
        leaf     == Max(leaves)
        addr     == entry(leaf).addr
    IN  IF leaves = {} THEN None ELSE (addr - (addr % Size(leaf))) + (page % Size(leaf))

(* The memory type of a 4 KB page: the PAT entry selected by the bits PAT, *)
(* PCD and PWT of its page table entry.                                    *)
MemoryType(page) ==
    LET e == EntryOf(tables, page, 0)
        bit(b, weight) == IF b THEN weight ELSE 0
    IN  Pat[1 + bit(e.bit7, 4) + bit(e.pcd, 2) + bit(e.pwt, 1)]

(* The kernel uses a page; without a cached translation the processor      *)
(* walks the tables and caches what it finds.                              *)
Access(l) ==
    /\ Running
    /\ \A t \in tlb : t[1] # l.page
    /\ Resolve(tables, l.page) # None
    /\ tlb' = tlb \cup {<<l.page, Resolve(tables, l.page)>>}
    /\ UNCHANGED <<tables, frames, next, live, boot, panic>>

Next ==
    \/ map_in_entry
    \/ allocate_pages
    \/ \E d \in Devices, type \in DeviceTypes : map_device(d, type)
    \/ \E l \in live : free_pages(l) \/ unmap_device(l) \/ Access(l)

Spec == Init /\ [][Next]_vars
-----------------------------------------------------------------------------
Entry == [present : BOOLEAN, last : BOOLEAN, addr : Nat,
          bit7 : BOOLEAN, pwt : BOOLEAN, pcd : BOOLEAN]

(* The type invariant: page tables are arrays of entries in the frames of  *)
(* the physical memory manager.                                            *)
TypeOK ==
    /\ DOMAIN tables \subseteq PmmFrames
    /\ \A t \in DOMAIN tables : tables[t] \in [0..(Entries - 1) -> Entry]
    /\ frames \subseteq PmmFrames
    /\ next \in Nat /\ next <= LastPage
    /\ live \subseteq [page : Nat, frame : Nat, kind : {"ram", "device"}, type : DeviceTypes \cup {NoType}]
    /\ tlb \subseteq Nat \X Nat
    /\ region \in 0..Len(Regions) /\ done \in Nat
    /\ flags \in [{"bit7", "bit12", "pwt", "pcd"} -> BOOLEAN]
    /\ panic \in BOOLEAN

RamFrames == {l.frame : l \in {m \in live : m.kind = "ram"}}

(* Every frame of the memory manager is free, a page table, or behind one  *)
(* allocation: page tables are never handed out and no order of            *)
(* allocate_pages and free_pages loses a frame or gives it to two owners.  *)
FramesPartitioned ==
    TypeOK /\ (~panic =>
      /\ frames \cup DOMAIN tables \cup RamFrames = PmmFrames
      /\ frames \cap (DOMAIN tables \cup RamFrames) = {}
      /\ DOMAIN tables \cap RamFrames = {}
      /\ \A l, m \in live : l.kind = "ram" /\ m.kind = "ram" /\ l.frame = m.frame => l = m)

(* What a caller was given stays mapped to its frame until the caller      *)
(* gives it back, whatever else is mapped and unmapped next to it, both    *)
(* for the processor and for translate; no two callers share a page, and   *)
(* registers mapped with a memory type are not behind a write-back cache.  *)
LiveStaysMapped ==
    /\ \A l \in live : Resolve(tables, l.page) = l.frame /\ translate(tables, l.page) = l.frame
    /\ \A l, m \in live : l.page = m.page => l = m
    /\ \A l \in live : l.type # NoType => MemoryType(l.page) # "WriteBack"

(* The pages the boot loop maps for the regions before r and the first n   *)
(* pages of r.                                                             *)
BootPages(r, n) ==
    UNION {{<<Regions[i].virt + k, Regions[i].phys + k>> :
               k \in 0..((IF i = r THEN n ELSE Regions[i].length) - 1)} : i \in 1..r}


(* unmap_pages does not flush the translation cache.  A page somebody has  *)
(* is nevertheless never reached through a stale translation, because the  *)
(* virtual address allocator hands no page out twice.                      *)
NoStaleTranslation == \A l \in live, t \in tlb : t[1] = l.page => t[2] = l.frame

=============================================================================
