---------------------------- MODULE SlabAllocator ---------------------------
(***************************************************************************)
(* The kernel heap (slab/src/heap.rs) and the slab allocators it is made   *)
(* of (slab/src/internal.rs): one allocator per size class, each a list of *)
(* slabs; a slab is one page that holds its objects and, behind them, its  *)
(* own list node.                                                          *)
(*                                                                         *)
(* Every call runs under the spin lock of its class, and pages come from   *)
(* the paging code under its own locks, so a call is one step.  The heap   *)
(* is a static and is never dropped.                                       *)
(*                                                                         *)
(* Definitions named <definition>_<defect> are defective variants of the   *)
(* definition that follows; the README says which property each breaks.    *)
(***************************************************************************)
EXTENDS Integers, Sequences, FiniteSets, FiniteSetsExt, Functions

CONSTANTS
    PageSize,    \* BASIC_PAGE_SIZE, in bytes
    NodeSize,    \* size_of::<SlabNode>()
    NodeAlign,   \* align_of::<SlabNode>()
    Classes,     \* the object sizes of the heap's allocators, ascending
    Layouts,     \* the layouts <<size, align>> callers ask for
    Pages        \* the pages the paging code can provide

ASSUME SizesAssumption ==
    /\ {PageSize, NodeSize, NodeAlign} \subseteq Nat \ {0}
    /\ NodeSize <= PageSize
    /\ Classes \in Seq(Nat \ {0}) /\ Classes # << >>
    /\ \A a, b \in 1..Len(Classes) : a < b => Classes[a] < Classes[b]

VARIABLES
    slabs,          \* slabs[c]: the list of class c, front first
    free_objects,   \* free_objects[p]: the slab's stack of free objects, top first
    allocated_count,\* allocated_count[p]
    pool,           \* pages not in use
    held,           \* objects [class, page, index] that callers have
    result,         \* <<class, outcome>> of the last call
    panic           \* an unwrap, expect or panic! was hit; the kernel stops

vars == <<slabs, free_objects, allocated_count, pool, held, result, panic>>

Class == 1..Len(Classes)
-----------------------------------------------------------------------------
(* Sizes.                                                                  *)

(* calculate_object_count *)
ObjectCount(c) ==
    LET available == PageSize - NodeSize
    IN  (available - (available % NodeAlign)) \div Classes[c]

(* The alignments are powers of two; masking the low bits divides. *)
align_up(value, align) == ((value + (align - 1)) \div align) * align

(* grow: metadata_offset *)
MetadataOffset(c) == align_up(ObjectCount(c) * Classes[c], NodeAlign)

(* Layout::pad_to_align *)
Padded(layout) == align_up(layout[1], layout[2])

(* layout_to_allocator: the classes that can serve a layout; the code      *)
(* takes the first and panics when there is none.                          *)
Suitable(layout) == {c \in Class : Padded(layout) <= Classes[c] /\ layout[2] <= Classes[c]}

(* Slab::new pushes the objects in ascending order on the free stack.      *)
NewStack(c) == [i \in 1..ObjectCount(c) |-> ObjectCount(c) - i]
-----------------------------------------------------------------------------
(* InternalSlabAllocator::new for every class. *)
Init ==
    /\ slabs = [c \in Class |-> << >>]
    /\ free_objects = [p \in Pages |-> << >>]
    /\ allocated_count = [p \in Pages |-> 0]
    /\ pool = Pages
    /\ held = {}
    /\ result = << >>
    /\ panic = FALSE

(* The positions on the list of class c of the slabs with a free object.   *)
WithRoom(c) == {i \in 1..Len(slabs[c]) : free_objects[slabs[c][i]] # << >>}

(* A stack that is read but not popped. *)
TakeFrom_not_popped(c, p, stack, count) ==
    /\ free_objects' = [free_objects EXCEPT ![p] = stack]
    /\ allocated_count' = [allocated_count EXCEPT ![p] = count + 1]
    /\ held' = held \cup {[class |-> c, page |-> p, index |-> Head(stack)]}
    /\ result' = <<c, "Ok">>

(* Slab::allocate on a slab whose free stack and count are given.          *)
TakeFrom(c, p, stack, count) ==
    /\ free_objects' = [free_objects EXCEPT ![p] = Tail(stack)]
    /\ allocated_count' = [allocated_count EXCEPT ![p] = count + 1]
    /\ held' = held \cup {[class |-> c, page |-> p, index |-> Head(stack)]}
    /\ result' = <<c, "Ok">>

(* grow, then Slab::allocate on the new slab at the back of the list.      *)
GrowAndTake(c, p) ==
    /\ slabs' = [slabs EXCEPT ![c] = Append(@, p)]
    /\ pool' = pool \ {p}
    /\ IF ObjectCount(c) > 0
       THEN TakeFrom(c, p, NewStack(c), 0)
       ELSE /\ result' = <<c, "SlabFullInternalError">>
            /\ UNCHANGED <<free_objects, allocated_count, held>>

(* Gives up on a full first slab instead of trying the others. *)
allocate_first_slab_only(c) ==
    IF slabs[c] # << >>
    THEN LET p == slabs[c][1]
         IN  IF free_objects[p] # << >>
             THEN TakeFrom(c, p, free_objects[p], allocated_count[p]) /\ UNCHANGED <<slabs, pool>>
             ELSE /\ result' = <<c, "SlabFullInternalError">>
                  /\ UNCHANGED <<slabs, free_objects, allocated_count, pool, held>>
    ELSE \E p \in pool : GrowAndTake(c, p)

(* InternalSlabAllocator::allocate.  Without a free frame the kernel's      *)
(* allocate_pages does not return its error but panics (mem/paging.rs:69). *)
allocate(c) ==
    IF WithRoom(c) # {}
    THEN LET p == slabs[c][Min(WithRoom(c))]
         IN  TakeFrom(c, p, free_objects[p], allocated_count[p]) /\ UNCHANGED <<slabs, pool>>
    ELSE IF pool # {}
    THEN \E p \in pool : GrowAndTake(c, p)
    ELSE /\ result' = <<c, "OutOfMemory">>
         /\ UNCHANGED <<slabs, free_objects, allocated_count, pool, held>>

(* GlobalAlloc::alloc; an error of the allocator becomes a null pointer.   *)
alloc(layout) ==
    /\ ~panic
    /\ IF Suitable(layout) = {}
       THEN /\ panic' = TRUE /\ result' = <<0, "NoAllocator">>
            /\ UNCHANGED <<slabs, free_objects, allocated_count, pool, held>>
       ELSE /\ allocate(Min(Suitable(layout)))
            /\ panic' = (result'[2] = "OutOfMemory")

(* InternalSlabAllocator::free and Slab::free: what they return, without   *)
(* the alignment tests, which every pointer that was handed out passes.    *)
free_returns(c, p, index) ==
    IF p \notin Range(slabs[c]) \/ index >= ObjectCount(c) THEN "BadPtrRange"
    ELSE IF index \in Range(free_objects[p]) THEN "DoubleFree"
    ELSE "Ok"

(* Slab::free; the count is decremented with saturating_sub. *)
PutBack(h) ==
    /\ free_objects' = [free_objects EXCEPT ![h.page] = <<h.index>> \o @]
    /\ held' = held \ {h}
    /\ allocated_count' = [allocated_count EXCEPT ![h.page] = IF @ = 0 THEN 0 ELSE @ - 1]

(* GlobalAlloc::dealloc: an error is unwrapped.  Callers pass an object    *)
(* they have or, freeing twice, one that is free.                          *)
dealloc(h) ==
    LET returned == free_returns(h.class, h.page, h.index)
    IN  /\ ~panic
        /\ result' = <<h.class, returned>>
        /\ panic' = (returned # "Ok")
        /\ IF returned = "Ok" THEN PutBack(h) ELSE UNCHANGED <<free_objects, allocated_count, held>>
        /\ UNCHANGED <<slabs, pool>>

(* Counts the empty slabs, and takes that many off the front. *)
Reapable_counted(c) == Cardinality({i \in 1..Len(slabs[c]) : allocated_count[slabs[c][i]] = 0})

(* How many slabs reap takes off the front: it stops at one in use.        *)
Reapable(c) ==
    LET used == {i \in 1..Len(slabs[c]) : allocated_count[slabs[c][i]] # 0}
    IN  IF used = {} THEN Len(slabs[c]) ELSE Min(used) - 1

(* Forgets to return the pages of the slabs it takes off the list. *)
reap_pages_lost(c) ==
    /\ ~panic
    /\ slabs' = [slabs EXCEPT ![c] = SubSeq(@, Reapable(c) + 1, Len(@))]
    /\ result' = <<c, "Reaped">>
    /\ UNCHANGED <<free_objects, allocated_count, pool, held, panic>>

(* InternalSlabAllocator::reap, called by Heap::reap for every class but   *)
(* the first.  What the freed pages held is gone.                          *)
reap(c) ==
    LET freed == Range(SubSeq(slabs[c], 1, Reapable(c)))
    IN  /\ ~panic
        /\ slabs' = [slabs EXCEPT ![c] = SubSeq(@, Reapable(c) + 1, Len(@))]
        /\ pool' = pool \cup freed
        /\ free_objects' = [p \in Pages |-> IF p \in freed THEN << >> ELSE free_objects[p]]
        /\ result' = <<c, "Reaped">>
        /\ UNCHANGED <<allocated_count, held, panic>>

(* The objects of the slabs that are on a list. *)
Objects ==
    {h \in [class : Class, page : Pages, index : 0..PageSize] :
        h.page \in Range(slabs[h.class]) /\ h.index < ObjectCount(h.class)}

Next ==
    \/ \E layout \in Layouts : alloc(layout)
    \/ \E h \in held \cup Objects : dealloc(h)
    \/ \E c \in Class \ {1} : reap(c)

Spec == Init /\ [][Next]_vars
-----------------------------------------------------------------------------
Outcomes == {"Ok", "SlabFullInternalError", "OutOfMemory", "NoAllocator",
             "BadPtrRange", "DoubleFree", "Reaped"}

(* The type invariant: the state of InternalSlabAllocator and Slab; no     *)
(* object is outside the part of the page in front of the slab's node.     *)
TypeOK ==
    /\ slabs \in [Class -> Seq(Pages)]
    /\ free_objects \in [Pages -> Seq(0..PageSize)]
    /\ allocated_count \in [Pages -> 0..PageSize]
    /\ pool \subseteq Pages
    /\ held \subseteq [class : Class, page : Pages, index : Nat]
    /\ \A h \in held : (h.index + 1) * Classes[h.class] <= MetadataOffset(h.class)
    /\ \A c \in Class : MetadataOffset(c) + NodeSize <= PageSize
    /\ result = << >> \/ result \in (0..Len(Classes)) \X Outcomes
    /\ panic \in BOOLEAN

(* allocated_count, which reap and is_empty trust, is the number of the    *)
(* slab's objects that callers hold; so a class nobody holds an object of  *)
(* gives every page back when it is reaped.                                *)
CountsExact ==
    /\ \A p \in Pages : allocated_count[p] = Cardinality({h \in held : h.page = p})
    /\ \A c \in Class : (\A h \in held : h.class # c) => Reapable(c) = Len(slabs[c])

(* Every object of a slab is either once on its free stack or with one     *)
(* caller, whatever order objects are allocated and freed in and however   *)
(* often pages move between classes; and a caller's object always lies in  *)
(* a slab of its class, so reap never takes a page somebody uses (allocate,*)
(* free and reap of internal.rs).                                          *)
ObjectsPartitioned ==
    /\ TypeOK /\ CountsExact
    /\ held \subseteq Objects
    /\ \A c \in Class : \A p \in Range(slabs[c]) :
        LET given == {h.index : h \in {g \in held : g.page = p}}
        IN  /\ given \cap Range(free_objects[p]) = {}
            /\ given \cup Range(free_objects[p]) = 0..(ObjectCount(c) - 1)
            /\ IsInjective(free_objects[p])

(* A page is in the pool or one slab of one class, never both, never lost: *)
(* grow and reap neither leak pages nor give one page to two classes.      *)
PagesPartitioned ==
    /\ \A c \in Class : IsInjective(slabs[c]) /\ Range(slabs[c]) \cap pool = {}
    /\ \A c, d \in Class : c # d => Range(slabs[c]) \cap Range(slabs[d]) = {}
    /\ pool \cup UNION {Range(slabs[c]) : c \in Class} = Pages

(* dealloc unwraps what free returns: freeing an object that alloc         *)
(* returned never brings the kernel down; only a double free, a layout     *)
(* larger than every class and an allocation without memory do.            *)
HeldCanBeFreed ==
    /\ \A h \in held : free_returns(h.class, h.page, h.index) = "Ok"
    /\ panic => result[2] \in {"DoubleFree", "NoAllocator", "OutOfMemory"}

Failed(c) == result \in {<<c, "SlabFullInternalError">>, <<c, "OutOfMemory">>}

(* alloc fails only when the class has no free object and there is no page *)
(* left, for the classes whose slabs have room for an object.              *)
FailureMeansNoMemory ==
    \A c \in Class : Failed(c) /\ ObjectCount(c) > 0 => WithRoom(c) = {} /\ pool = {}
=============================================================================
