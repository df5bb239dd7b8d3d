--------------------------- MODULE BuddyAllocator ---------------------------
(***************************************************************************)
(* The buddy allocator of the physical memory manager (pmm/src/buddy.rs)   *)
(* together with its construction from the boot loader's memory map        *)
(* (new_from_limine, init_from_limine) and its callers.                    *)
(*                                                                         *)
(* Addresses are page numbers (a physical address divided by               *)
(* BASIC_PAGE_SIZE).  The allocator is a static behind a spin lock and     *)
(* every operation holds the lock from its first to its last line, so one  *)
(* operation is one step.                                                  *)
(*                                                                         *)
(* zones[i] is the set of buckets on the i-th list.  The order of a list   *)
(* is left out: where the code takes the first bucket that fits, the model *)
(* takes any that fits.  The freelist only supplies list nodes, so it is   *)
(* its length; a node that went missing shows when a later split finds     *)
(* none.                                                                   *)
(***************************************************************************)
EXTENDS Integers, Sequences, FiniteSets

CONSTANTS
    MemMap,      \* the memory map: records [base, length, kind], in pages
    Nodes,       \* list nodes that create_freelist carves out of its 2 MB
    MetaPages,   \* pages taken by the zone array and the list nodes
    AllocCounts, \* page counts callers pass to allocate
    AtCounts,    \* page counts callers pass to allocate_at
    Alignments   \* page alignments callers pass to allocate

VARIABLES
    zones,       \* zones[i]: start pages of the free buckets of 2^i pages
    freelist,    \* number of unused list nodes
    held,        \* blocks [addr, count] handed out and not yet freed
    result,      \* what the last operation returned
    panic,       \* an unwrap, assert or unreachable! was hit; the kernel stops
    phase,       \* "free", "reserve": init_from_limine's two loops; "ready"
    entry,       \* index of the memory map entry the first loop is at
    pos,         \* addr_id (first loop) or the page to reserve (second loop)
    left         \* total_page_count still to free, or pages still to reserve

vars == <<zones, freelist, held, result, panic, phase, entry, pos, left>>
boot == <<phase, entry, pos, left>>
-----------------------------------------------------------------------------
(* The memory map.  RECLAIMABLE stands for the three kinds that count      *)
(* towards the highest page but are not handed to the allocator.           *)

Kinds == {"USABLE", "RECLAIMABLE", "RESERVED"}

(* Limine reports entries in ascending order that do not overlap, at least *)
(* one of them usable and big enough for the allocator's own tables.       *)
ASSUME MemMapAssumption ==
    /\ MemMap \in Seq([base : Nat, length : Nat \ {0}, kind : Kinds])
    /\ \A e, f \in 1..Len(MemMap) :
         e < f => MemMap[e].base + MemMap[e].length <= MemMap[f].base
    /\ \E e \in 1..Len(MemMap) :
         MemMap[e].kind = "USABLE" /\ MetaPages <= MemMap[e].length

ASSUME ConstantsAssumption ==
    /\ Nodes \in Nat
    /\ MetaPages \in Nat \ {0}
    /\ AllocCounts \subseteq Nat
    /\ AtCounts \subseteq Nat
    /\ Alignments \subseteq Nat

Counted == {e \in 1..Len(MemMap) : MemMap[e].kind \in {"USABLE", "RECLAIMABLE"}}

(* get_page_count_from_mem_map: the end of the last entry that counts.     *)
TotalPages ==
    LET last == CHOOSE e \in Counted : \A f \in Counted : f <= e
    IN  MemMap[last].base + MemMap[last].length

Page == 0..(TotalPages - 1)

(* usize::ilog2 *)
ILog2(n) == CHOOSE i \in 0..n : 2^i <= n /\ n < 2^(i + 1)

(* new_from_limine: zones_count *)
ZonesLen == ILog2(TotalPages) + 1

Levels == 0..(ZonesLen - 1)

(* Arithmetic of the powers of two in use.  TLC computes it; the proofs,   *)
(* whose provers know nothing about exponentiation, rest on it.            *)
ASSUME PowersOfTwo ==
    /\ 2^0 = 1
    /\ \A i \in 0..(TotalPages + 1) : 2^i \in Nat /\ 2^(i + 1) = 2 * 2^i

(* new_from_limine: the first usable entry the allocator's tables fit in.  *)
MetaEntry ==
    CHOOSE e \in 1..Len(MemMap) :
        LET fits(f) == MemMap[f].kind = "USABLE" /\ MetaPages <= MemMap[f].length
        IN  fits(e) /\ \A f \in 1..(e - 1) : ~fits(f)

MetaRange == MemMap[MetaEntry].base .. (MemMap[MetaEntry].base + MetaPages - 1)
-----------------------------------------------------------------------------
(* Addresses.                                                              *)

(* checked_next_power_of_two followed by ilog2: the zone for n pages.      *)
Order(n) == CHOOSE i \in 0..ZonesLen : n <= 2^i /\ \A j \in 0..(i - 1) : 2^j < n

(* The pages of a bucket of zone i. *)
Block(addr, i) == addr .. (addr + 2^i - 1)

(* Definitions named <definition>_<defect> are defective variants of the   *)
(* definition that follows; the README says which property each breaks.    *)
get_buddy_addr_upper(addr, i) == addr + 2^i

(* get_buddy_addr *)
get_buddy_addr(addr, i) ==
    IF addr % 2^(i + 1) = 0 THEN addr + 2^i ELSE addr - 2^i

addr_at_unmoved(addr, i) == addr

(* The value of `addr` when the loops of disband and coalesce reach zone   *)
(* i.  Every iteration replaces addr by the lower of it and its buddy      *)
(* (determine_next_bucket_addr), that is, rounds it down to a multiple of  *)
(* the next bucket size.                                                   *)
addr_at(addr, i) == addr - (addr % 2^i)

(* The buddy that the iteration for zone i pushes or looks for. *)
buddy_at(addr, i) == get_buddy_addr(addr_at(addr, i), i)

(* What a block handed out for n pages occupies: n rounded up to a power   *)
(* of two.                                                                 *)
Span(h) == Block(h.addr, Order(h.count))

FreePages == {p \in Page : \E i \in Levels : \E b \in zones[i] : p \in Block(b, i)}
-----------------------------------------------------------------------------
(* The private helpers.  Each operator below is the effect on zones,       *)
(* freelist and panic; a kernel that panicked takes no further step, so    *)
(* what the aborted operation had already changed is left out.             *)

(* find_bucket, find_bucket_at, is_page_free: zones from start_index up    *)
(* that have a bucket whose start is aligned / that contains addr.         *)
ZonesAligned(alignment, start_index) ==
    {i \in start_index..(ZonesLen - 1) : \E b \in zones[i] : b % alignment = 0}

ZonesContaining_one_zone(addr, start_index) ==
    {i \in {start_index} \cap Levels : \E b \in zones[i] : addr \in Block(b, i)}

ZonesContaining_end_included(addr, start_index) ==
    {i \in start_index..(ZonesLen - 1) : \E b \in zones[i] : addr \in b..(b + 2^i)}

ZonesContaining(addr, start_index) ==
    {i \in start_index..(ZonesLen - 1) : \E b \in zones[i] : addr \in Block(b, i)}

Lowest(S) == CHOOSE i \in S : \A j \in S : i <= j


(* The loop runs to used_index - 1 exclusive: one piece is not pushed.     *)
pop_and_disband_piece_lost(bucket, addr, start_index, used_index) ==
    /\ panic' = FALSE
    /\ zones' = [i \in Levels |->
          CASE i = used_index -> zones[i] \ {bucket}
            [] i \in start_index..(used_index - 2) -> zones[i] \cup {buddy_at(addr, i)}
            [] OTHER -> zones[i]]
    /\ freelist' = freelist

(* pop_from_zone of `bucket`, then disband: the popped node goes to the    *)
(* freelist, and one node per zone below used_index comes from it.         *)
(* get_buddy_addr asserts that addr belongs to zone start_index.           *)
pop_and_disband(bucket, addr, start_index, used_index) ==
    /\ panic' = \/ start_index < used_index /\ addr % 2^start_index # 0
                \/ freelist + 1 < used_index - start_index
    /\ IF panic' THEN UNCHANGED <<zones, freelist>>
       ELSE /\ zones' = [i \in Levels |->
                  CASE i = used_index -> zones[i] \ {bucket}
                    [] i \in start_index..(used_index - 1) ->
                          zones[i] \cup {buddy_at(addr, i)}
                    [] OTHER -> zones[i]]
            /\ freelist' = freelist + 1 - (used_index - start_index)

(* coalesce: merge with the buddy for as long as it is free, then push.    *)
(* Running off the last zone is unreachable!() in the code.                *)
coalesce(addr, start_index) ==
    LET stops == {i \in start_index..(ZonesLen - 1) : buddy_at(addr, i) \notin zones[i]}
        top   == Lowest(stops)
    IN  /\ panic' = \/ start_index < ZonesLen /\ addr % 2^start_index # 0
                    \/ stops = {}
                    \/ freelist + (top - start_index) = 0
        /\ IF panic' THEN UNCHANGED <<zones, freelist>>
           ELSE /\ zones' = [i \in Levels |->
                      CASE i = top -> zones[i] \cup {addr_at(addr, top)}
                        [] i \in start_index..(top - 1) ->
                              zones[i] \ {buddy_at(addr, i)}
                        [] OTHER -> zones[i]]
                /\ freelist' = freelist + (top - start_index) - 1
-----------------------------------------------------------------------------
(* The operations of the trait: what each returns, and its effect when it  *)
(* succeeds.                                                               *)

is_page_free(addr, page_count) ==
    IF page_count = 0 THEN "EmptyAllocation"
    ELSE IF addr % page_count # 0 THEN "InvalidAlignment"
    ELSE IF ZonesContaining(addr, Order(page_count)) = {} THEN "false"
    ELSE "true"

allocate_returns(alignment, page_count) ==
    IF page_count = 0 THEN "EmptyAllocation"
    ELSE IF page_count > 2^ZonesLen THEN "TooBigAllocation"
    ELSE IF \A i \in 0..alignment : alignment # 2^i THEN "InvalidAlignment"
    ELSE IF ZonesAligned(alignment, Order(page_count)) = {} THEN "NoAvailableBlock"
    ELSE "Ok"

allocate_at_returns(addr, page_count) ==
    IF page_count = 0 THEN "EmptyAllocation"
    ELSE IF page_count > 2^ZonesLen THEN "TooBigAllocation"
    ELSE IF addr % page_count # 0 THEN "InvalidAlignment"
    ELSE IF ZonesContaining(addr, Order(page_count)) = {} THEN "NoAvailableBlock"
    ELSE "Ok"

free_returns_unchecked(addr, page_count) ==
    IF page_count = 0 THEN "EmptyFree" ELSE "Ok"

free_returns(addr, page_count) ==
    IF page_count = 0 THEN "EmptyFree"
    ELSE IF is_page_free(addr, page_count) = "true" THEN "FreeOfAlreadyFree"
    ELSE IF is_page_free(addr, page_count) = "false" THEN "Ok"
    ELSE is_page_free(addr, page_count)

allocate_effect(bucket, alignment, page_count) ==
    LET used_index == Lowest(ZonesAligned(alignment, Order(page_count)))
    IN  /\ bucket \in zones[used_index]
        /\ bucket % alignment = 0
        /\ pop_and_disband(bucket, bucket, Order(page_count), used_index)

allocate_at_effect(addr, page_count) ==
    LET used_index == Lowest(ZonesContaining(addr, Order(page_count)))
    IN  \E bucket \in zones[used_index] :
            /\ addr \in Block(bucket, used_index)
            /\ pop_and_disband(bucket, addr, Order(page_count), used_index)

free_effect(addr, page_count) == coalesce(addr, Order(page_count))
-----------------------------------------------------------------------------
(* Boot: init_from_limine, one step per iteration of its loops.            *)

Usable(e) == MemMap[e].kind = "USABLE"

(* Where the first loop starts on an entry: nothing to do unless usable.   *)
Pages(e) == IF Usable(e) THEN MemMap[e].length ELSE 0

(* new_from_limine: empty zones, every node on the freelist. *)
Init ==
    /\ zones = [i \in Levels |-> {}]
    /\ freelist = Nodes
    /\ held = {}
    /\ result = "none"
    /\ panic = FALSE
    /\ phase = "free"
    /\ entry = 1
    /\ pos = MemMap[1].base
    /\ left = Pages(1)

(* break_into_buckets_n_free: free the largest bucket that starts here and *)
(* still fits; the result is unwrapped.                                    *)
Fits(i) == pos % 2^i = 0 /\ 2^i <= left

BreakIntoBuckets ==
    /\ ~panic
    /\ phase = "free"
    /\ left > 0
    /\ \E i \in Levels :
         /\ Fits(i)
         /\ \A j \in Levels : j > i => ~Fits(j)
         /\ result' = free_returns(pos, 2^i)
         /\ IF result' = "Ok"
            THEN free_effect(pos, 2^i)
            ELSE panic' = TRUE /\ UNCHANGED <<zones, freelist>>
         /\ pos' = pos + 2^i
         /\ left' = left - 2^i
    /\ UNCHANGED <<held, phase, entry>>

NextEntry ==
    /\ ~panic
    /\ phase = "free"
    /\ left = 0
    /\ entry < Len(MemMap)
    /\ entry' = entry + 1
    /\ pos' = MemMap[entry + 1].base
    /\ left' = Pages(entry + 1)
    /\ UNCHANGED <<zones, freelist, held, result, panic, phase>>

StartReserving ==
    /\ ~panic
    /\ phase = "free"
    /\ left = 0
    /\ entry = Len(MemMap)
    /\ phase' = "reserve"
    /\ pos' = MemMap[MetaEntry].base
    /\ left' = MetaPages
    /\ UNCHANGED <<zones, freelist, held, result, panic, entry>>

(* The second loop takes the pages of the allocator's own tables, one by   *)
(* one; an error is an expect.                                             *)
ReserveMetaPage ==
    /\ ~panic
    /\ phase = "reserve"
    /\ left > 0
    /\ result' = allocate_at_returns(pos, 1)
    /\ IF result' = "Ok"
       THEN allocate_at_effect(pos, 1)
       ELSE panic' = TRUE /\ UNCHANGED <<zones, freelist>>
    /\ held' = IF panic' THEN held ELSE held \cup {[addr |-> pos, count |-> 1]}
    /\ pos' = pos + 1
    /\ left' = left - 1
    /\ phase' = IF left = 1 THEN "ready" ELSE phase
    /\ UNCHANGED entry
-----------------------------------------------------------------------------
(* The callers.                                                            *)

Ready == ~panic /\ phase = "ready"

allocate(alignment, page_count) ==
    /\ Ready
    /\ result' = allocate_returns(alignment, page_count)
    /\ IF result' = "Ok"
       THEN \E bucket \in Page :
              /\ allocate_effect(bucket, alignment, page_count)
              /\ held' = IF panic' THEN held
                         ELSE held \cup {[addr |-> bucket, count |-> page_count]}
       ELSE UNCHANGED <<zones, freelist, held, panic>>
    /\ UNCHANGED boot

allocate_at(addr, page_count) ==
    /\ Ready
    /\ result' = allocate_at_returns(addr, page_count)
    /\ IF result' = "Ok"
       THEN /\ allocate_at_effect(addr, page_count)
            /\ held' = IF panic' THEN held
                       ELSE held \cup {[addr |-> addr, count |-> page_count]}
       ELSE UNCHANGED <<zones, freelist, held, panic>>
    /\ UNCHANGED boot

(* free is unsafe: its callers pass the address and the count of a block   *)
(* they were given, or, freeing twice, of one that is free already.  The   *)
(* allocator's own pages are never given back.                             *)
free(addr, page_count) ==
    LET h == [addr |-> addr, count |-> page_count]
    IN  /\ Ready
        /\ \/ h \in held /\ addr \notin MetaRange
           \/ addr % 2^Order(page_count) = 0 /\ Span(h) \subseteq FreePages
        /\ result' = free_returns(addr, page_count)
        /\ IF result' = "Ok"
           THEN /\ free_effect(addr, page_count)
                /\ held' = IF panic' THEN held ELSE held \ {h}
           ELSE UNCHANGED <<zones, freelist, held, panic>>
        /\ UNCHANGED boot

Next ==
    \/ BreakIntoBuckets
    \/ NextEntry
    \/ StartReserving
    \/ ReserveMetaPage
    \/ \E alignment \in Alignments, page_count \in AllocCounts :
          allocate(alignment, page_count)
    \/ \E addr \in Page, page_count \in AtCounts : allocate_at(addr, page_count)
    \/ \E addr \in Page, page_count \in (AllocCounts \cup AtCounts) \ {0} :
          page_count <= 2^ZonesLen /\ free(addr, page_count)

Spec == Init /\ [][Next]_vars
-----------------------------------------------------------------------------
(* Properties.                                                             *)

Outcomes == {"none", "Ok", "EmptyAllocation", "TooBigAllocation",
             "InvalidAlignment", "NoAvailableBlock", "FreeOfAlreadyFree"}

(* Type invariant: every list holds page addresses, the callers' blocks    *)
(* have a size the zones can represent, and boot stays within the map.     *)
TypeOK ==
    /\ zones \in [Levels -> SUBSET Page]
    /\ freelist \in Nat
    /\ held \in SUBSET [addr : Page, count : (AllocCounts \cup AtCounts \cup {1}) \ {0}]
    /\ \A h \in held : h.count <= 2^ZonesLen
    /\ result \in Outcomes
    /\ panic \in BOOLEAN
    /\ phase \in {"free", "reserve", "ready"}
    /\ entry \in 1..Len(MemMap)
    /\ pos \in Nat
    /\ left \in Nat

(* Every bucket is aligned to its size and made of pages below the highest *)
(* page: what get_buddy_addr asserts of its argument.                      *)
BucketsAligned ==
    \A i \in Levels : \A b \in zones[i] : b % 2^i = 0 /\ b + 2^i <= TotalPages

BucketsDisjoint ==
    \A i, j \in Levels : \A b \in zones[i], c \in zones[j] :
        Block(b, i) \cap Block(c, j) # {} => i = j /\ b = c

HeldNotFree == \A h \in held : Span(h) \cap FreePages = {}

HeldDisjoint == \A g, h \in held : Span(g) \cap Span(h) # {} => g = h

(* No page is given to two callers, is on two lists, or is on a list while *)
(* a caller has it (allocate, allocate_at, free with disband, coalesce).   *)
NoOverlap == BucketsDisjoint /\ HeldNotFree /\ HeldDisjoint

HeldPages == UNION {Span(h) : h \in held}

(* The pages that boot has donated so far. *)
Donated ==
    {p \in Page : \E e \in 1..Len(MemMap) :
        /\ Usable(e)
        /\ p \in MemMap[e].base .. (MemMap[e].base + MemMap[e].length - 1)
        /\ phase = "free" => e < entry \/ (e = entry /\ p < pos)}

(* No page is lost: each one boot donated is on a list or in a block that  *)
(* a caller has, and no other page ever is.                                *)
Conservation == ~panic => FreePages \cup HeldPages = Donated

(* Freeing merges as far as possible: two buddies are never both free.     *)
(* Allocation requests larger than one bucket depend on it.                *)
Coalesced ==
    \A i \in Levels : \A b \in zones[i] : get_buddy_addr(b, i) \notin zones[i]

Buckets == UNION {{<<i, b>> : b \in zones[i]} : i \in Levels}


(* If an aligned run of 2^i free pages exists, then the search of the      *)
(* lists finds a bucket for it: is_page_free is exact, allocate and        *)
(* allocate_at report NoAvailableBlock only when there is no such run, and *)
(* a second free of a free block is rejected.                              *)
FreeRunsAreFound ==
    \A i, k \in Levels : \A a \in Page :
        /\ a % 2^i = 0
        /\ Block(a, i) \subseteq FreePages
        => /\ ZonesContaining(a, i) # {}
           /\ a % 2^k = 0 => ZonesAligned(2^k, i) # {}

(* A caller can always give back a block whose size is a power of two.     *)
HeldCanBeFreed ==
    \A h \in held : (\E i \in Levels : h.count = 2^i) => free_returns(h.addr, h.count) = "Ok"

(* The abstract page frames that this allocator implements: its free pages *)
(* are those of the buckets on the lists.                                  *)
Frames == INSTANCE PageFrames WITH
            avail <- FreePages, granted <- {Span(h) : h \in held}

(* Every step of the allocator is a step of PageFrames or changes nothing. *)
ImplementsPageFrames == Frames!Spec
=============================================================================
