----------------------------- MODULE BuddyProofs -----------------------------
(***************************************************************************)
(* The buddy allocator is correct for every memory map: the inductive      *)
(* invariant and the theorems about BuddyAllocator.                        *)
(***************************************************************************)
EXTENDS BuddyLists, FiniteSetTheorems

-----------------------------------------------------------------------------
(* The memory map and the pages boot has donated.                          *)

LEMMA MapEntry ==
    /\ Len(MemMap) \in Nat \ {0}
    /\ \A e \in 1..Len(MemMap) : /\ MemMap[e].base \in Nat
                                 /\ MemMap[e].length \in Nat \ {0}
<1> DEFINE R == [base : Nat, length : Nat \ {0}, kind : Kinds]
<1>1. MemMap \in Seq(R) /\ \E e \in 1..Len(MemMap) : TRUE
  BY MemMapAssumption
<1> HIDE DEF R
<1>2. Len(MemMap) \in Nat \ {0} /\ \A e \in 1..Len(MemMap) : MemMap[e] \in R
  BY <1>1
<1> QED
  BY <1>2 DEF R

LEMMA MetaEntryFact ==
    /\ MetaEntry \in 1..Len(MemMap)
    /\ Usable(MetaEntry)
    /\ MetaPages <= MemMap[MetaEntry].length
    /\ MemMap[MetaEntry].base \in Nat
<1> DEFINE Good == {e \in 1..Len(MemMap) : MemMap[e].kind = "USABLE" /\ MetaPages <= MemMap[e].length}
<1>1. Good \in SUBSET Nat /\ Good # {}
  BY MemMapAssumption, MapEntry
<1>2. PICK n \in Good : \A m \in Good : n <= m
  BY <1>1, LeastNatural
<1>3. \A f \in 1..(n - 1) : ~(MemMap[f].kind = "USABLE" /\ MetaPages <= MemMap[f].length)
  <2> TAKE f \in 1..(n - 1)
  <2>1. f \in 1..Len(MemMap) /\ ~(n <= f)
    BY <1>2, MapEntry
  <2> QED
    BY <1>2, <2>1
<1>4. n \in 1..Len(MemMap) /\ MemMap[n].kind = "USABLE" /\ MetaPages <= MemMap[n].length
  BY <1>2
<1> HIDE DEF Good
<1>5. \E e \in 1..Len(MemMap) :
        /\ MemMap[e].kind = "USABLE" /\ MetaPages <= MemMap[e].length
        /\ \A f \in 1..(e - 1) : ~(MemMap[f].kind = "USABLE" /\ MetaPages <= MemMap[f].length)
  BY <1>3, <1>4
<1>6. /\ MetaEntry \in 1..Len(MemMap)
      /\ MemMap[MetaEntry].kind = "USABLE" /\ MetaPages <= MemMap[MetaEntry].length
  BY <1>5 DEF MetaEntry
<1> QED
  BY <1>6, MapEntry DEF Usable

(* Where init_from_limine is. *)
BootInv ==
    ~panic =>
      /\ phase = "free" =>
           /\ held = {}
           /\ IF Usable(entry)
              THEN /\ MemMap[entry].base <= pos
                   /\ pos + left = MemMap[entry].base + MemMap[entry].length
              ELSE left = 0
      /\ phase = "reserve" =>
           /\ left > 0
           /\ MemMap[MetaEntry].base <= pos
           /\ pos + left = MemMap[MetaEntry].base + MetaPages
           /\ held = {[addr |-> p, count |-> 1] : p \in MemMap[MetaEntry].base .. (pos - 1)}

(* The pages of an entry. *)
Region(e) == MemMap[e].base .. (MemMap[e].base + MemMap[e].length - 1)

LEMMA RegionInPage ==
    ASSUME NEW e \in 1..Len(MemMap), Usable(e)
    PROVE  Region(e) \subseteq Page
BY TotalPagesFact, MapEntry DEF Usable, Region, Page

(* Donating the first 2^i pages that are left of the current entry. *)
LEMMA DonatedGrows ==
    ASSUME phase = "free", phase' = "free", entry \in 1..Len(MemMap), entry' = entry,
           Usable(entry), pos \in Nat, left \in Nat,
           MemMap[entry].base <= pos,
           pos + left = MemMap[entry].base + MemMap[entry].length,
           NEW n \in Nat \ {0}, n <= left, pos' = pos + n
    PROVE  /\ pos..(pos + n - 1) \subseteq Page
           /\ pos..(pos + n - 1) \cap Donated = {}
           /\ Donated' = Donated \cup pos..(pos + n - 1)
<1> DEFINE N == pos..(pos + n - 1)
<1>1. MemMap[entry].base \in Nat /\ MemMap[entry].length \in Nat \ {0}
  BY MapEntry
<1> DEFINE lo == MemMap[entry].base
           hi == MemMap[entry].base + MemMap[entry].length
<1>2. N \subseteq Region(entry)
  <2>1. lo \in Nat /\ hi \in Nat /\ lo <= pos /\ pos + left = hi
    BY <1>1
  <2>2. Region(entry) = lo..(hi - 1)
    BY <1>1 DEF Region
  <2> HIDE DEF lo, hi
  <2>3. N \subseteq lo..(hi - 1)
    BY <2>1
  <2> QED
    BY <2>2, <2>3
<1>3. N \subseteq Page
  BY <1>2, RegionInPage
<1>4. \A p : p \in Donated <=> /\ p \in Page
                               /\ \E e \in 1..Len(MemMap) :
                                    /\ Usable(e) /\ p \in Region(e)
                                    /\ e < entry \/ (e = entry /\ p < pos)
  BY DEF Donated, Region
<1>5. \A p : p \in Donated' <=> /\ p \in Page
                                /\ \E e \in 1..Len(MemMap) :
                                     /\ Usable(e) /\ p \in Region(e)
                                     /\ e < entry \/ (e = entry /\ p < pos + n)
  BY DEF Donated, Region
<1>6. N \cap Donated = {}
  <2> SUFFICES ASSUME NEW p \in N, p \in Donated PROVE FALSE
    OBVIOUS
  <2>1. PICK e \in 1..Len(MemMap) : /\ Usable(e) /\ p \in Region(e)
                                    /\ e < entry \/ (e = entry /\ p < pos)
    BY <1>4
  <2>2. CASE e < entry
    <3>1. MemMap[e].base + MemMap[e].length <= MemMap[entry].base
      BY <2>2, MemMapAssumption
    <3> DEFINE end == MemMap[e].base + MemMap[e].length
    <3>2. MemMap[e].base \in Nat /\ MemMap[e].length \in Nat
      BY MapEntry
    <3>3. p \in Nat /\ p < end /\ end \in Nat
      BY <2>1, <3>2 DEF Region
    <3>4. end <= lo /\ lo \in Nat /\ lo <= pos
      BY <3>1, <1>1
    <3> HIDE DEF end, lo
    <3> QED
      BY <3>3, <3>4
  <2>3. CASE e = entry /\ p < pos
    BY <2>3
  <2> QED
    BY <2>1, <2>2, <2>3
<1>7. ASSUME NEW p \in Donated' PROVE p \in Donated \cup N
  <2>1. PICK e \in 1..Len(MemMap) : /\ Usable(e) /\ p \in Region(e)
                                    /\ e < entry \/ (e = entry /\ p < pos + n)
    BY <1>5
  <2>2. p \in Page /\ p \in Nat
    BY <1>5, TotalPagesFact DEF Page
  <2>3. CASE e < entry \/ p < pos
    BY <2>1, <2>2, <2>3, <1>4
  <2>4. CASE e = entry /\ p < pos + n /\ ~(p < pos)
    BY <2>2, <2>4
  <2> QED
    BY <2>1, <2>3, <2>4
<1>8. ASSUME NEW p \in Donated PROVE p \in Donated'
  <2>1. p \in Nat
    BY TotalPagesFact DEF Donated, Page
  <2> QED
    BY <2>1, <1>4, <1>5
<1>9. ASSUME NEW p \in N PROVE p \in Donated'
  BY <1>2, <1>3, <1>5
<1> QED
  BY <1>3, <1>6, <1>7, <1>8, <1>9

-----------------------------------------------------------------------------
(* The inductive invariant.                                                *)

Inv == TypeOK /\ SafeInv /\ BootInv /\ Conservation

(* Callers of allocate_at ask for a power of two of pages.                 *)
AtCountsArePowers ==
    \A n \in AtCounts \ {0} : n <= 2^ZonesLen => \E i \in 0..ZonesLen : n = 2^i

LEMMA LevelsFact == 0 \in Levels /\ Levels \subseteq Nat /\ Page \subseteq Nat /\ ZonesLen \in Nat \ {0}
BY ZonesLenNat, TotalPagesFact DEF Levels, Page

(* What a step may do to the free pages and the callers' blocks: nothing,  *)
(* move one block from the free pages to a caller, move one back, or add   *)
(* pages that boot found in the memory map.                                *)
Untouched == FreePages' = FreePages /\ held' = held
Taken(h) == /\ held' = held \cup {h} /\ Span(h) \subseteq FreePages
            /\ FreePages' = FreePages \ Span(h)
Given(h) == /\ h \in held /\ held' = held \ {h}
            /\ FreePages' = FreePages \cup Span(h)
Added(S) == /\ held = {} /\ held' = {} /\ S \cap FreePages = {}
            /\ FreePages' = FreePages \cup S

MemoryStep ==
    \/ Untouched
    \/ \E h \in held' : Taken(h)
    \/ \E h \in held : Given(h)
    \/ \E a \in Nat : \E i \in Levels : Block(a, i) \subseteq Page /\ Added(Block(a, i))

LEMMA CountsFact == \A n \in (AllocCounts \cup AtCounts \cup {1}) \ {0} : n \in Nat \ {0}
<1>1. AllocCounts \subseteq Nat /\ AtCounts \subseteq Nat
  BY ConstantsAssumption
<1> QED
  BY <1>1

(* A step that changes neither lists nor blocks: an operation that returns *)
(* an error, and the step that panics.                                     *)
LEMMA IdleStep ==
    ASSUME Inv, UNCHANGED <<zones, freelist, held>>,
           result' \in Outcomes, panic' \in BOOLEAN,
           phase' \in {"free", "reserve", "ready"}, entry' \in 1..Len(MemMap),
           pos' \in Nat, left' \in Nat,
           panic' \/ UNCHANGED <<panic, phase, entry, pos, left>>
    PROVE  Inv' /\ MemoryStep
<1>1. TypeOK'
  BY DEF Inv, TypeOK
<1>2. SafeInv' /\ FreePages' = FreePages /\ HeldPages' = HeldPages
  BY DEF Inv, SafeInv, ListsInv, BucketsAligned, BucketsDisjoint, Coalesced, HeldInv,
         HeldNotFree, HeldDisjoint, FreePages, HeldPages
<1>3. BootInv' /\ Conservation'
  <2>1. CASE panic'
    BY <2>1 DEF BootInv, Conservation
  <2>2. CASE UNCHANGED <<panic, phase, entry, pos, left>>
    <3>1. Donated' = Donated
      BY <2>2 DEF Donated
    <3>2. BootInv'
      BY <2>2 DEF Inv, BootInv
    <3> QED
      BY <2>2, <3>1, <3>2, <1>2 DEF Inv, Conservation
  <2> QED
    BY <2>1, <2>2
<1> QED
  BY <1>1, <1>2, <1>3 DEF Inv, MemoryStep, Untouched

LEMMA FreelistStep ==
    ASSUME freelist \in Nat, NEW s \in Levels
    PROVE  /\ \A u \in Levels : \A b, a : s <= u /\ pop_and_disband(b, a, s, u)
                => panic' \in BOOLEAN /\ (~panic' => freelist' \in Nat)
                                      /\ (panic' => UNCHANGED <<zones, freelist>>)
           /\ \A a : coalesce(a, s) /\ Stops(a, s) # {}
                => panic' \in BOOLEAN /\ (~panic' => freelist' \in Nat)
                                      /\ (panic' => UNCHANGED <<zones, freelist>>)
<1>0. Levels \subseteq Nat /\ ZonesLen \in Nat /\ s \in Nat
  BY LevelsFact
<1>1. ASSUME NEW u \in Levels, NEW b, NEW a, s <= u, pop_and_disband(b, a, s, u)
      PROVE  panic' \in BOOLEAN /\ (~panic' => freelist' \in Nat)
                                /\ (panic' => UNCHANGED <<zones, freelist>>)
  <2>1. panic' = ((s < u /\ a % 2^s # 0) \/ freelist + 1 < u - s)
    BY <1>1 DEF pop_and_disband
  <2>2. panic' => UNCHANGED <<zones, freelist>>
    BY <1>1 DEF pop_and_disband
  <2>3. ~panic' => freelist' = freelist + 1 - (u - s)
    BY <1>1 DEF pop_and_disband
  <2>4. ~panic' => ~(freelist + 1 < u - s)
    BY <2>1
  <2>5. panic' \in BOOLEAN
    BY <2>1, Zenon
  <2> QED
    BY <2>2, <2>3, <2>4, <2>5, <1>0
<1>2. ASSUME NEW a, coalesce(a, s), Stops(a, s) # {}
      PROVE  panic' \in BOOLEAN /\ (~panic' => freelist' \in Nat)
                                /\ (panic' => UNCHANGED <<zones, freelist>>)
  <2> DEFINE top == Lowest(Stops(a, s))
  <2>0. Stops(a, s) \subseteq Nat /\ \A i \in Stops(a, s) : s <= i
    BY <1>0 DEF Stops
  <2>1. top \in Nat /\ s <= top
    BY <2>0, <1>2, LowestFact
  <2>2. panic' = ((s < ZonesLen /\ a % 2^s # 0) \/ Stops(a, s) = {} \/ freelist + (top - s) = 0)
    BY <1>2 DEF coalesce, Stops
  <2>3. panic' => UNCHANGED <<zones, freelist>>
    BY <1>2 DEF coalesce, Stops
  <2>4. ~panic' => freelist' = freelist + (top - s) - 1
    BY <1>2 DEF coalesce, Stops
  <2> HIDE DEF top
  <2>5. ~panic' => freelist + (top - s) # 0
    BY <2>2
  <2>6. panic' \in BOOLEAN
    BY <2>2, Zenon
  <2> QED
    BY <2>1, <2>3, <2>4, <2>5, <2>6, <1>0
<1> QED
  BY <1>1, <1>2

(* A caller, or boot, is given a block. *)
LEMMA TakeStep ==
    ASSUME Inv, phase # "free",
           NEW n \in (AllocCounts \cup AtCounts \cup {1}) \ {0}, n <= 2^ZonesLen,
           NEW u \in Levels, Order(n) <= u,
           NEW bucket \in zones[u], NEW a \in Block(bucket, u), a % 2^Order(n) = 0,
           pop_and_disband(bucket, a, Order(n), u),
           held' = IF panic' THEN held ELSE held \cup {[addr |-> a, count |-> n]},
           ~panic
    PROVE  /\ panic' \in BOOLEAN
           /\ panic' => UNCHANGED <<zones, freelist, held>>
           /\ ~panic' => /\ SafeInv' /\ freelist' \in Nat
                         /\ held' = held \cup {[addr |-> a, count |-> n]}
                         /\ a \in Page
                         /\ FreePages' \cup HeldPages' = FreePages \cup HeldPages
                         /\ MemoryStep
<1>0. Order(n) \in Levels
  <2>1. n \in Nat \ {0}
    BY CountsFact
  <2>2. Order(n) \in 0..ZonesLen
    BY <2>1, OrderFact
  <2> QED
    BY <2>2, LevelsFact DEF Levels
<1>1. panic' \in BOOLEAN /\ (~panic' => freelist' \in Nat)
                         /\ (panic' => UNCHANGED <<zones, freelist>>)
  BY <1>0, FreelistStep DEF Inv, TypeOK
<1>2. ASSUME ~panic'
      PROVE  /\ SafeInv' /\ FreePages' \cup HeldPages' = FreePages \cup HeldPages
             /\ Block(a, Order(n)) \subseteq FreePages
             /\ FreePages' = FreePages \ Block(a, Order(n))
  BY <1>0, <1>2, TakeLemma DEF Inv
<1>3. a \in Page
  BY BucketPages DEF Inv, SafeInv
<1>4. ASSUME ~panic' PROVE MemoryStep
  <2> DEFINE h == [addr |-> a, count |-> n]
  <2>1. h \in held' /\ held' = held \cup {h} /\ Span(h) = Block(a, Order(n))
    BY <1>4 DEF Span
  <2> QED
    BY <1>2, <1>4, <2>1 DEF MemoryStep, Taken
<1> QED
  BY <1>1, <1>2, <1>3, <1>4

(* The zones the searches look at are zones, from the requested one up. *)
LEMMA SearchFact ==
    ASSUME NEW n \in Nat \ {0}, n <= 2^ZonesLen, NEW Z, Z # {}, Z \subseteq Order(n)..(ZonesLen - 1)
    PROVE  /\ Lowest(Z) \in Z /\ Lowest(Z) \in Levels
           /\ Order(n) <= Lowest(Z) /\ Order(n) \in Levels
<1>1. Order(n) \in 0..ZonesLen
  BY OrderFact
<1>2. ZonesLen \in Nat
  BY LevelsFact
<1>3. Z \in SUBSET Nat
  BY <1>1, <1>2
<1>4. Lowest(Z) \in Z
  BY <1>3, LowestFact
<1>5. Lowest(Z) \in Order(n)..(ZonesLen - 1)
  BY <1>4
<1> QED
  BY <1>1, <1>2, <1>4, <1>5 DEF Levels

(* The three ways of taking a block are steps of TakeStep's form. *)
LEMMA AllocateTakes ==
    ASSUME Inv, NEW al, NEW n \in Nat \ {0}, n <= 2^ZonesLen, NEW bucket,
           ZonesAligned(al, Order(n)) # {}, allocate_effect(bucket, al, n)
    PROVE  \E u \in Levels : /\ Order(n) <= u /\ bucket \in zones[u]
                             /\ bucket \in Block(bucket, u)
                             /\ bucket % 2^Order(n) = 0
                             /\ pop_and_disband(bucket, bucket, Order(n), u)
<1> DEFINE u == Lowest(ZonesAligned(al, Order(n)))
<1>1. u \in Levels /\ Order(n) <= u /\ Order(n) \in Levels
  <2>1. ZonesAligned(al, Order(n)) \subseteq Order(n)..(ZonesLen - 1)
    BY DEF ZonesAligned
  <2> QED
    BY <2>1, SearchFact
<1>2. bucket \in zones[u] /\ pop_and_disband(bucket, bucket, Order(n), u)
  BY DEF allocate_effect
<1> HIDE DEF u
<1>3. bucket \in Nat /\ bucket % 2^u = 0 /\ u \in 0..ZonesLen /\ Order(n) \in 0..ZonesLen
  BY <1>1, <1>2, BucketPages, ZonesLenNat DEF Inv, SafeInv
<1>4. bucket % 2^Order(n) = 0 /\ bucket \in Block(bucket, u)
  BY <1>1, <1>3, AlignedDown, InOwnBlock
<1> QED
  BY <1>1, <1>2, <1>4

LEMMA AllocateAtTakes ==
    ASSUME Inv, NEW a \in Nat, NEW i \in 0..ZonesLen, NEW n, n = 2^i, a % n = 0,
           ZonesContaining(a, Order(n)) # {}, allocate_at_effect(a, n)
    PROVE  \E u \in Levels : \E bucket \in zones[u] :
             /\ Order(n) <= u /\ a \in Block(bucket, u)
             /\ a % 2^Order(n) = 0
             /\ pop_and_disband(bucket, a, Order(n), u)
<1> DEFINE u == Lowest(ZonesContaining(a, Order(n)))
<1>0. n \in Nat \ {0} /\ n <= 2^ZonesLen /\ Order(n) = i
  <2>1. ZonesLen \in 0..ZonesLen /\ i <= ZonesLen
    BY LevelsFact
  <2> QED
    BY <2>1, Size, SizeMonotone, OrderOfSize
<1>1. u \in Levels /\ Order(n) <= u
  <2>1. ZonesContaining(a, Order(n)) \subseteq Order(n)..(ZonesLen - 1)
    BY DEF ZonesContaining
  <2> QED
    BY <2>1, <1>0, SearchFact
<1>2. PICK bucket \in zones[u] : /\ a \in Block(bucket, u)
                                 /\ pop_and_disband(bucket, a, Order(n), u)
  BY DEF allocate_at_effect
<1> QED
  BY <1>0, <1>1, <1>2

LEMMA AllocateStep ==
    ASSUME Inv, NEW al \in Alignments, NEW n \in AllocCounts, allocate(al, n)
    PROVE  Inv' /\ MemoryStep
<1>0. ~panic /\ phase = "ready" /\ UNCHANGED <<phase, entry, pos, left>>
  BY DEF allocate, Ready, boot
<1>1. result' = allocate_returns(al, n)
  BY DEF allocate
<1>2. result' \in Outcomes
  BY <1>1 DEF allocate_returns, Outcomes
<1>3. CASE result' # "Ok"
  <2>1. UNCHANGED <<zones, freelist, held, panic>>
    BY <1>3 DEF allocate
  <2> QED
    BY <1>0, <1>2, <2>1, IdleStep DEF Inv, TypeOK
<1>4. CASE result' = "Ok"
  <2>1. /\ n # 0 /\ ~(n > 2^ZonesLen)
        /\ ZonesAligned(al, Order(n)) # {}
    BY <1>1, <1>4 DEF allocate_returns
  <2>2. PICK bucket \in Page :
          /\ allocate_effect(bucket, al, n)
          /\ held' = IF panic' THEN held ELSE held \cup {[addr |-> bucket, count |-> n]}
    BY <1>4 DEF allocate
  <2>3. n \in (AllocCounts \cup AtCounts \cup {1}) \ {0} /\ n \in Nat \ {0} /\ n <= 2^ZonesLen
    <3>1. n \in (AllocCounts \cup AtCounts \cup {1}) \ {0}
      BY <2>1
    <3>2. n \in Nat \ {0}
      BY <3>1, CountsFact
    <3>3. 2^ZonesLen \in Nat
      BY Size, LevelsFact
    <3> QED
      BY <3>1, <3>2, <3>3, <2>1
  <2>4. PICK u \in Levels : /\ Order(n) <= u /\ bucket \in zones[u]
                            /\ bucket \in Block(bucket, u)
                            /\ bucket % 2^Order(n) = 0
                            /\ pop_and_disband(bucket, bucket, Order(n), u)
    BY <2>1, <2>2, <2>3, AllocateTakes
  <2>5. /\ panic' \in BOOLEAN
        /\ panic' => UNCHANGED <<zones, freelist, held>>
        /\ ~panic' => /\ SafeInv' /\ freelist' \in Nat
                      /\ held' = held \cup {[addr |-> bucket, count |-> n]}
                      /\ FreePages' \cup HeldPages' = FreePages \cup HeldPages
                      /\ MemoryStep
    BY <1>0, <2>2, <2>3, <2>4, TakeStep
  <2>6. CASE panic'
    BY <1>0, <1>2, <2>5, <2>6, IdleStep DEF Inv, TypeOK
  <2>7. CASE ~panic'
    <3>1. TypeOK'
      BY <1>0, <1>2, <2>2, <2>3, <2>5, <2>7 DEF Inv, TypeOK, SafeInv, ListsInv
    <3>2. BootInv'
      BY <1>0 DEF BootInv
    <3>3. Donated' = Donated
      BY <1>0 DEF Donated
    <3>4. Conservation'
      BY <1>0, <2>5, <2>7, <3>3 DEF Inv, Conservation
    <3> QED
      BY <2>5, <2>7, <3>1, <3>2, <3>4 DEF Inv
  <2> QED
    BY <2>6, <2>7
<1> QED
  BY <1>3, <1>4

LEMMA AllocateAtStep ==
    ASSUME Inv, AtCountsArePowers, NEW a \in Page, NEW n \in AtCounts, allocate_at(a, n)
    PROVE  Inv' /\ MemoryStep
<1>0. ~panic /\ phase = "ready" /\ UNCHANGED <<phase, entry, pos, left>>
  BY DEF allocate_at, Ready, boot
<1>1. result' = allocate_at_returns(a, n)
  BY DEF allocate_at
<1>2. result' \in Outcomes
  BY <1>1 DEF allocate_at_returns, Outcomes
<1>3. CASE result' # "Ok"
  <2>1. UNCHANGED <<zones, freelist, held, panic>>
    BY <1>3 DEF allocate_at
  <2> QED
    BY <1>0, <1>2, <2>1, IdleStep DEF Inv, TypeOK
<1>4. CASE result' = "Ok"
  <2>1. /\ n # 0 /\ ~(n > 2^ZonesLen) /\ a % n = 0
        /\ ZonesContaining(a, Order(n)) # {}
    BY <1>1, <1>4 DEF allocate_at_returns
  <2>2. /\ allocate_at_effect(a, n)
        /\ held' = IF panic' THEN held ELSE held \cup {[addr |-> a, count |-> n]}
    BY <1>4 DEF allocate_at
  <2>3. n \in (AllocCounts \cup AtCounts \cup {1}) \ {0} /\ n \in Nat \ {0} /\ n <= 2^ZonesLen
    <3>1. n \in (AllocCounts \cup AtCounts \cup {1}) \ {0}
      BY <2>1
    <3>2. n \in Nat \ {0}
      BY <3>1, CountsFact
    <3>3. 2^ZonesLen \in Nat
      BY Size, LevelsFact
    <3> QED
      BY <3>1, <3>2, <3>3, <2>1
  <2>4. PICK i \in 0..ZonesLen : n = 2^i
    BY <2>1, <2>3 DEF AtCountsArePowers
  <2>5. PICK u \in Levels : \E bucket \in zones[u] :
          /\ Order(n) <= u /\ a \in Block(bucket, u)
          /\ a % 2^Order(n) = 0
          /\ pop_and_disband(bucket, a, Order(n), u)
    BY <2>1, <2>2, <2>4, AllocateAtTakes, LevelsFact
  <2>6. /\ panic' \in BOOLEAN
        /\ panic' => UNCHANGED <<zones, freelist, held>>
        /\ ~panic' => /\ SafeInv' /\ freelist' \in Nat
                      /\ held' = held \cup {[addr |-> a, count |-> n]}
                      /\ FreePages' \cup HeldPages' = FreePages \cup HeldPages
                      /\ MemoryStep
    BY <1>0, <2>2, <2>3, <2>5, TakeStep
  <2>7. CASE panic'
    BY <1>0, <1>2, <2>6, <2>7, IdleStep DEF Inv, TypeOK
  <2>8. CASE ~panic'
    <3>1. TypeOK'
      BY <1>0, <1>2, <2>3, <2>6, <2>8 DEF Inv, TypeOK, SafeInv, ListsInv
    <3>2. BootInv'
      BY <1>0 DEF BootInv
    <3>3. Donated' = Donated
      BY <1>0 DEF Donated
    <3>4. Conservation'
      BY <1>0, <2>6, <2>8, <3>3 DEF Inv, Conservation
    <3> QED
      BY <2>6, <2>8, <3>1, <3>2, <3>4 DEF Inv
  <2> QED
    BY <2>7, <2>8
<1> QED
  BY <1>3, <1>4

LEMMA ReserveStep ==
    ASSUME Inv, ReserveMetaPage
    PROVE  Inv' /\ MemoryStep
<1>0. /\ ~panic /\ phase = "reserve" /\ left > 0 /\ entry' = entry
      /\ pos' = pos + 1 /\ left' = left - 1
      /\ phase' = IF left = 1 THEN "ready" ELSE phase
  BY DEF ReserveMetaPage
<1>1. result' = allocate_at_returns(pos, 1)
  BY DEF ReserveMetaPage
<1>2. result' \in Outcomes
  BY <1>1 DEF allocate_at_returns, Outcomes
<1>3. /\ pos \in Nat /\ left \in Nat /\ pos' \in Nat /\ left' \in Nat
      /\ phase' \in {"free", "reserve", "ready"} /\ entry' \in 1..Len(MemMap)
  BY <1>0 DEF Inv, TypeOK
<1>4. CASE result' # "Ok"
  <2>1. panic' = TRUE /\ UNCHANGED <<zones, freelist, held>>
    BY <1>4 DEF ReserveMetaPage
  <2> QED
    BY <1>2, <1>3, <2>1, IdleStep
<1>5. CASE result' = "Ok"
  <2>1. pos % 1 = 0 /\ ZonesContaining(pos, Order(1)) # {}
    BY <1>1, <1>5 DEF allocate_at_returns
  <2>2. /\ allocate_at_effect(pos, 1)
        /\ held' = IF panic' THEN held ELSE held \cup {[addr |-> pos, count |-> 1]}
    BY <1>5 DEF ReserveMetaPage
  <2>3. 2^0 = 1 /\ 0 \in 0..ZonesLen /\ 1 <= 2^ZonesLen
    <3>1. 0 \in 0..ZonesLen /\ ZonesLen \in 0..ZonesLen
      BY LevelsFact
    <3>2. 2^0 = 1
      BY PowersOfTwo
    <3>3. 2^ZonesLen \in Nat \ {0}
      BY <3>1, Size
    <3> QED
      BY <3>1, <3>2, <3>3
  <2>4. PICK u \in Levels : \E bucket \in zones[u] :
          /\ Order(1) <= u /\ pos \in Block(bucket, u)
          /\ pos % 2^Order(1) = 0
          /\ pop_and_disband(bucket, pos, Order(1), u)
    BY <1>3, <2>1, <2>2, <2>3, AllocateAtTakes
  <2>5. 1 \in (AllocCounts \cup AtCounts \cup {1}) \ {0}
    OBVIOUS
  <2>6. /\ panic' \in BOOLEAN
        /\ panic' => UNCHANGED <<zones, freelist, held>>
        /\ ~panic' => /\ SafeInv' /\ freelist' \in Nat /\ pos \in Page
                      /\ held' = held \cup {[addr |-> pos, count |-> 1]}
                      /\ FreePages' \cup HeldPages' = FreePages \cup HeldPages
                      /\ MemoryStep
    BY <1>0, <2>2, <2>3, <2>4, <2>5, TakeStep
  <2>7. CASE panic'
    BY <1>2, <1>3, <2>6, <2>7, IdleStep
  <2>8. CASE ~panic'
    <3>1. TypeOK'
      BY <1>0, <1>2, <1>3, <2>3, <2>5, <2>6, <2>8 DEF Inv, TypeOK, SafeInv, ListsInv
    <3>2. BootInv'
      <4> DEFINE B == MemMap[MetaEntry].base
      <4>1. /\ B <= pos /\ pos + left = B + MetaPages
            /\ held = {[addr |-> p, count |-> 1] : p \in B .. (pos - 1)}
        BY <1>0 DEF Inv, BootInv
      <4>2. B \in Nat /\ MetaPages \in Nat
        BY MetaEntryFact, ConstantsAssumption
      <4> HIDE DEF B
      <4>3. B <= pos' /\ pos' + left' = B + MetaPages
        BY <1>0, <1>3, <4>1, <4>2
      <4>4. B .. (pos' - 1) = (B .. (pos - 1)) \cup {pos}
        BY <1>0, <1>3, <4>1, <4>2
      <4>5. held' = {[addr |-> p, count |-> 1] : p \in B .. (pos' - 1)}
        BY <2>6, <2>8, <4>1, <4>4
      <4>6. phase' = "reserve" => left' > 0
        BY <1>0, <1>3
      <4> QED
        BY <1>0, <4>3, <4>5, <4>6 DEF BootInv, B
    <3>3. Donated' = Donated
      BY <1>0 DEF Donated
    <3>4. Conservation'
      BY <1>0, <2>6, <2>8, <3>3 DEF Inv, Conservation
    <3> QED
      BY <2>6, <2>8, <3>1, <3>2, <3>4 DEF Inv
  <2> QED
    BY <2>7, <2>8
<1> QED
  BY <1>4, <1>5

(* free succeeds only for a block its caller has: a second free is caught. *)
LEMMA FreeOnlyHeld ==
    ASSUME Inv, NEW a \in Page, NEW n \in Nat \ {0}, n <= 2^ZonesLen,
           free(a, n), result' = "Ok"
    PROVE  [addr |-> a, count |-> n] \in held
<1> DEFINE h == [addr |-> a, count |-> n]
<1>0. a \in Nat /\ ZonesLen \in Nat /\ Order(n) \in 0..ZonesLen
  BY LevelsFact, OrderFact
<1>1. ZonesContaining(a, Order(n)) = {}
  <2>1. free_returns(a, n) = "Ok"
    BY DEF free
  <2>2. is_page_free(a, n) = "false"
    BY <2>1 DEF free_returns, is_page_free
  <2> QED
    BY <2>2 DEF is_page_free
<1>2. ~(a % 2^Order(n) = 0 /\ Span(h) \subseteq FreePages)
  <2> SUFFICES ASSUME a % 2^Order(n) = 0, Block(a, Order(n)) \subseteq FreePages PROVE FALSE
    BY DEF Span
  <2>1. CASE Order(n) \in Levels
    <3>1. \E j \in Order(n)..(ZonesLen - 1) : \E b \in zones[j] : a \in Block(b, j)
      BY <1>0, <2>1, RunInBucket DEF Inv, SafeInv
    <3> QED
      BY <3>1, <1>1 DEF ZonesContaining
  <2>2. CASE Order(n) \notin Levels
    <3>1. Order(n) = ZonesLen
      BY <1>0, <2>2 DEF Levels
    <3>2. (a + 2^ZonesLen) - 1 \in Block(a, ZonesLen) /\ 2^ZonesLen \in Nat
      BY <1>0, <3>1, InOwnBlock
    <3>3. (a + 2^ZonesLen) - 1 \in Page
      BY <3>1, <3>2 DEF FreePages
    <3> QED
      BY <1>0, <3>2, <3>3, ZonesLenFact, TotalPagesFact DEF Page
  <2> QED
    BY <2>1, <2>2
<1> QED
  BY <1>2 DEF free

LEMMA FreeStep ==
    ASSUME Inv, NEW a \in Page, NEW n \in (AllocCounts \cup AtCounts) \ {0}, n <= 2^ZonesLen,
           free(a, n)
    PROVE  Inv' /\ MemoryStep
<1> DEFINE h == [addr |-> a, count |-> n]
<1>0. ~panic /\ phase = "ready" /\ UNCHANGED <<phase, entry, pos, left>>
  BY DEF free, Ready, boot
<1>1. result' = free_returns(a, n) /\ n \in Nat \ {0}
  <2>1. n \in (AllocCounts \cup AtCounts \cup {1}) \ {0}
    OBVIOUS
  <2> QED
    BY <2>1, CountsFact DEF free
<1>2. result' \in Outcomes
  <2>1. n # 0
    BY <1>1
  <2>2. is_page_free(a, n) \in {"InvalidAlignment", "true", "false"}
    BY <2>1 DEF is_page_free
  <2>3. free_returns(a, n) \in {"FreeOfAlreadyFree", "Ok", "InvalidAlignment"}
    BY <2>1, <2>2 DEF free_returns
  <2> QED
    BY <1>1, <2>3 DEF Outcomes
<1>3. CASE result' # "Ok"
  <2>1. UNCHANGED <<zones, freelist, held, panic>>
    BY <1>3 DEF free
  <2> QED
    BY <1>0, <1>2, <2>1, IdleStep DEF Inv, TypeOK
<1>4. CASE result' = "Ok"
  <2>1. h \in held
    BY <1>1, <1>4, FreeOnlyHeld
  <2>2. coalesce(a, Order(n)) /\ held' = IF panic' THEN held ELSE held \ {h}
    BY <1>4 DEF free, free_effect
  <2>3. a \in Nat /\ Order(n) \in Levels /\ a % 2^Order(n) = 0 /\ Block(a, Order(n)) \subseteq Page
    <3>1. /\ h.addr \in Nat /\ Order(h.count) \in Levels
          /\ h.addr % 2^Order(h.count) = 0 /\ Span(h) \subseteq Page
      BY <2>1 DEF Inv, SafeInv, HeldInv
    <3> QED
      BY <3>1 DEF Span
  <2>4. panic' \in BOOLEAN /\ (~panic' => freelist' \in Nat)
                           /\ (panic' => UNCHANGED <<zones, freelist>>)
    <3>1. Stops(a, Order(n)) # {}
      BY <2>3, CoalesceStops DEF Inv, SafeInv
    <3> QED
      BY <2>2, <2>3, <3>1, FreelistStep DEF Inv, TypeOK
  <2>5. CASE panic'
    BY <1>0, <1>2, <2>2, <2>4, <2>5, IdleStep DEF Inv, TypeOK
  <2>6. CASE ~panic'
    <3>1. held' = held \ {h} /\ coalesce(h.addr, Order(h.count))
      BY <2>2, <2>6
    <3>2. /\ SafeInv' /\ FreePages' \cup HeldPages' = FreePages \cup HeldPages
          /\ FreePages' = FreePages \cup Span(h)
      BY <2>1, <2>6, <3>1, GiveLemma DEF Inv
    <3>7. MemoryStep
      BY <2>1, <3>1, <3>2 DEF MemoryStep, Given
    <3>3. TypeOK'
      BY <1>0, <1>2, <2>4, <2>6, <3>1, <3>2 DEF Inv, TypeOK, SafeInv, ListsInv
    <3>4. BootInv'
      BY <1>0 DEF BootInv
    <3>5. Donated' = Donated
      BY <1>0 DEF Donated
    <3>6. Conservation'
      BY <1>0, <2>6, <3>2, <3>5 DEF Inv, Conservation
    <3> QED
      BY <3>2, <3>3, <3>4, <3>6, <3>7 DEF Inv
  <2> QED
    BY <2>4, <2>5, <2>6
<1> QED
  BY <1>3, <1>4

LEMMA BreakStep ==
    ASSUME Inv, BreakIntoBuckets
    PROVE  Inv' /\ MemoryStep
<1>0. ~panic /\ phase = "free" /\ left > 0 /\ UNCHANGED <<held, phase, entry>>
  BY DEF BreakIntoBuckets
<1>1. PICK i \in Levels :
        /\ Fits(i)
        /\ result' = free_returns(pos, 2^i)
        /\ IF result' = "Ok" THEN free_effect(pos, 2^i)
           ELSE panic' = TRUE /\ UNCHANGED <<zones, freelist>>
        /\ pos' = pos + 2^i
        /\ left' = left - 2^i
  BY DEF BreakIntoBuckets
<1>2. /\ 2^i \in Nat \ {0} /\ Order(2^i) = i /\ i \in 0..ZonesLen
      /\ pos \in Nat /\ left \in Nat /\ pos % 2^i = 0 /\ 2^i <= left
      /\ pos' \in Nat /\ left' \in Nat
  <2>1. i \in 0..ZonesLen /\ pos \in Nat /\ left \in Nat
    BY ZonesLenNat DEF Inv, TypeOK
  <2>2. 2^i \in Nat \ {0} /\ Order(2^i) = i
    BY <2>1, Size, OrderOfSize
  <2> QED
    BY <1>1, <2>1, <2>2 DEF Fits
<1>3. result' \in Outcomes
  <2>1. is_page_free(pos, 2^i) \in {"InvalidAlignment", "true", "false"}
    BY <1>2 DEF is_page_free
  <2>2. free_returns(pos, 2^i) \in {"FreeOfAlreadyFree", "Ok", "InvalidAlignment"}
    BY <1>2, <2>1 DEF free_returns
  <2> QED
    BY <1>1, <2>2 DEF Outcomes
<1>4. /\ held = {} /\ Usable(entry) /\ MemMap[entry].base <= pos
      /\ pos + left = MemMap[entry].base + MemMap[entry].length
  BY <1>0, <1>2 DEF Inv, BootInv
<1>5. entry \in 1..Len(MemMap) /\ phase' \in {"free", "reserve", "ready"}
  BY <1>0 DEF Inv, TypeOK
<1>6. /\ Block(pos, i) \subseteq Page
      /\ Block(pos, i) \cap Donated = {}
      /\ Donated' = Donated \cup Block(pos, i)
  <2>1. phase' = "free" /\ entry' = entry /\ pos' = pos + 2^i
    BY <1>0, <1>1
  <2> QED
    BY <1>0, <1>2, <1>4, <1>5, <2>1, DonatedGrows DEF Block
<1>7. HeldPages = {} /\ HeldPages' = {}
  BY <1>0, <1>4 DEF HeldPages
<1>8. CASE result' # "Ok"
  BY <1>0, <1>1, <1>2, <1>3, <1>5, <1>8, IdleStep
<1>9. CASE result' = "Ok"
  <2>1. coalesce(pos, i)
    BY <1>1, <1>2, <1>9 DEF free_effect
  <2>2. FreePages = Donated
    BY <1>0, <1>7 DEF Inv, Conservation
  <2>3. panic' \in BOOLEAN /\ (~panic' => freelist' \in Nat)
                           /\ (panic' => UNCHANGED <<zones, freelist>>)
    <3>1. Stops(pos, i) # {}
      BY <1>2, <1>6, CoalesceStops DEF Inv, SafeInv
    <3> QED
      BY <2>1, <3>1, FreelistStep DEF Inv, TypeOK
  <2>4. CASE panic'
    BY <1>0, <1>2, <1>3, <1>5, <2>3, <2>4, IdleStep
  <2>5. CASE ~panic'
    <3>1. ListsInv' /\ FreePages' = FreePages \cup Block(pos, i)
      BY <1>2, <1>6, <2>1, <2>2, <2>5, CoalesceLemma DEF Inv, SafeInv
    <3>2. SafeInv'
      BY <1>0, <1>4, <3>1 DEF SafeInv, HeldInv, HeldNotFree, HeldDisjoint
    <3>3. TypeOK'
      BY <1>0, <1>2, <1>3, <2>3, <2>5, <3>1 DEF Inv, TypeOK, ListsInv
    <3>4. BootInv'
      <4> DEFINE B == MemMap[entry].base
                 E == MemMap[entry].base + MemMap[entry].length
      <4>1. B \in Nat /\ E \in Nat /\ B <= pos /\ pos + left = E
        BY <1>4, <1>5, MapEntry
      <4> HIDE DEF B, E
      <4>2. B <= pos' /\ pos' + left' = E
        BY <4>1, <1>1, <1>2
      <4>3. MemMap[entry'].base <= pos' /\ pos' + left' = MemMap[entry'].base + MemMap[entry'].length
        BY <4>2, <1>0 DEF B, E
      <4>4. Usable(entry')
        BY <1>0, <1>4
      <4> QED
        BY <1>0, <1>4, <4>3, <4>4 DEF BootInv
    <3>5. Conservation'
      BY <1>6, <1>7, <2>2, <3>1 DEF Conservation
    <3>6. MemoryStep
      BY <1>0, <1>2, <1>4, <1>6, <2>2, <3>1 DEF MemoryStep, Added
    <3> QED
      BY <3>2, <3>3, <3>4, <3>5, <3>6 DEF Inv
  <2> QED
    BY <2>3, <2>4, <2>5
<1> QED
  BY <1>8, <1>9

(* Nothing but the position of boot changes, and no page is donated. *)
LEMMA EntryStep ==
    ASSUME Inv, NextEntry \/ StartReserving
    PROVE  Inv' /\ MemoryStep
<1>0. /\ ~panic /\ phase = "free" /\ left = 0
      /\ UNCHANGED <<zones, freelist, held, result, panic>>
  BY DEF NextEntry, StartReserving
<1>1. /\ entry \in 1..Len(MemMap) /\ pos \in Nat
      /\ held = {}
      /\ Usable(entry) => pos = MemMap[entry].base + MemMap[entry].length
  <2>1. entry \in 1..Len(MemMap) /\ pos \in Nat
    BY DEF Inv, TypeOK
  <2>2. MemMap[entry].base + MemMap[entry].length \in Nat
    BY <2>1, MapEntry
  <2>3. /\ held = {}
        /\ Usable(entry) => pos + left = MemMap[entry].base + MemMap[entry].length
    BY <1>0 DEF Inv, BootInv
  <2> QED
    BY <1>0, <2>1, <2>2, <2>3
<1>2. SafeInv' /\ FreePages' = FreePages /\ HeldPages' = HeldPages
  BY <1>0 DEF Inv, SafeInv, ListsInv, BucketsAligned, BucketsDisjoint, Coalesced, HeldInv,
              HeldNotFree, HeldDisjoint, FreePages, HeldPages
<1>3. \A p : p \in Donated <=> /\ p \in Page
                               /\ \E e \in 1..Len(MemMap) :
                                    Usable(e) /\ p \in Region(e) /\ e <= entry
  <2>1. \A p : p \in Donated <=> /\ p \in Page
                                 /\ \E e \in 1..Len(MemMap) :
                                      /\ Usable(e) /\ p \in Region(e)
                                      /\ e < entry \/ (e = entry /\ p < pos)
    BY <1>0 DEF Donated, Region
  <2>2. ASSUME NEW e \in 1..Len(MemMap), Usable(e), NEW p \in Region(e)
        PROVE  e < entry \/ (e = entry /\ p < pos) <=> e <= entry
    <3>1. CASE e = entry
      <4> DEFINE B == MemMap[entry].base
                 E == MemMap[entry].base + MemMap[entry].length
      <4>1. B \in Nat /\ E \in Nat /\ pos = E
        BY <2>2, <3>1, <1>1, MapEntry
      <4>2. p \in B..(E - 1)
        BY <2>2, <3>1, MapEntry DEF Region
      <4> HIDE DEF B, E
      <4> QED
        BY <3>1, <4>1, <4>2
    <3>2. CASE e # entry
      BY <3>2, <1>1
    <3> QED
      BY <3>1, <3>2
  <2> QED
    BY <2>1, <2>2
<1>4. CASE NextEntry
  <2>1. /\ entry < Len(MemMap) /\ entry' = entry + 1 /\ phase' = "free"
        /\ pos' = MemMap[entry + 1].base /\ left' = Pages(entry + 1)
    BY <1>0, <1>4 DEF NextEntry
  <2>2. /\ entry' \in 1..Len(MemMap) /\ pos' = MemMap[entry'].base /\ pos' \in Nat
        /\ MemMap[entry'].length \in Nat
    BY <1>1, <2>1, MapEntry
  <2>3. left' = IF Usable(entry') THEN MemMap[entry'].length ELSE 0
    BY <2>1 DEF Pages
  <2>4. left' \in Nat
    BY <2>2, <2>3
  <2>5. TypeOK'
    BY <1>0, <2>1, <2>2, <2>4 DEF Inv, TypeOK
  <2>6. BootInv'
    BY <1>0, <1>1, <2>1, <2>2, <2>3 DEF BootInv
  <2>7. Donated' = Donated
    <3>1. \A p : p \in Donated' <=> /\ p \in Page
                                    /\ \E e \in 1..Len(MemMap) :
                                         /\ Usable(e) /\ p \in Region(e)
                                         /\ e < entry' \/ (e = entry' /\ p < pos')
      BY <2>1 DEF Donated, Region
    <3>2. ASSUME NEW e \in 1..Len(MemMap), Usable(e), NEW p \in Region(e)
          PROVE  e < entry' \/ (e = entry' /\ p < pos') <=> e <= entry
      <4>1. CASE e = entry'
        <5>1. MemMap[e].base \in Nat /\ p \in Nat /\ MemMap[e].base <= p
          BY <3>2, MapEntry DEF Region
        <5> QED
          BY <4>1, <5>1, <2>1, <2>2, <1>1
      <4>2. CASE e # entry'
        BY <4>2, <2>1, <1>1
      <4> QED
        BY <4>1, <4>2
    <3> QED
      BY <1>3, <3>1, <3>2
  <2>8. Conservation'
    BY <1>0, <1>2, <2>7 DEF Inv, Conservation
  <2> QED
    BY <1>0, <1>2, <2>5, <2>6, <2>8 DEF Inv, MemoryStep, Untouched
<1>5. CASE StartReserving
  <2>1. /\ entry = Len(MemMap) /\ entry' = entry /\ phase' = "reserve"
        /\ pos' = MemMap[MetaEntry].base /\ left' = MetaPages
    BY <1>0, <1>5 DEF StartReserving
  <2>2. pos' \in Nat /\ left' \in Nat \ {0}
    BY <2>1, MetaEntryFact, ConstantsAssumption
  <2>3. TypeOK'
    BY <1>0, <1>1, <2>1, <2>2 DEF Inv, TypeOK
  <2>4. BootInv'
    <3>1. MemMap[MetaEntry].base .. (pos' - 1) = {}
      BY <2>1, <2>2
    <3>2. held' = {[addr |-> p, count |-> 1] : p \in MemMap[MetaEntry].base .. (pos' - 1)}
      BY <1>0, <1>1, <3>1
    <3>3. left' > 0 /\ MemMap[MetaEntry].base <= pos'
          /\ pos' + left' = MemMap[MetaEntry].base + MetaPages
      BY <2>1, <2>2
    <3> QED
      BY <2>1, <3>2, <3>3 DEF BootInv
  <2>5. Donated' = Donated
    <3>1. \A p : p \in Donated' <=> /\ p \in Page
                                    /\ \E e \in 1..Len(MemMap) : Usable(e) /\ p \in Region(e)
      BY <2>1 DEF Donated, Region
    <3>2. \A e \in 1..Len(MemMap) : e <= entry
      BY <2>1, <1>1
    <3> QED
      BY <1>3, <3>1, <3>2
  <2>6. Conservation'
    BY <1>0, <1>2, <2>5 DEF Inv, Conservation
  <2> QED
    BY <1>0, <1>2, <2>3, <2>4, <2>6 DEF Inv, MemoryStep, Untouched
<1> QED
  BY <1>4, <1>5

LEMMA InitInv ==
    ASSUME Init
    PROVE  Inv
<1>1. 1 \in 1..Len(MemMap) /\ MemMap[1].base \in Nat /\ MemMap[1].length \in Nat
  BY MapEntry
<1>2. \A i \in Levels : zones[i] = {}
  BY DEF Init
<1>3. TypeOK
  BY <1>1, ConstantsAssumption DEF Init, TypeOK, Outcomes, Pages
<1>4. FreePages = {} /\ HeldPages = {}
  BY <1>2 DEF FreePages, HeldPages, Init
<1>5. SafeInv
  BY <1>2, <1>4 DEF Init, SafeInv, ListsInv, BucketsAligned, BucketsDisjoint, Coalesced,
                    HeldInv, HeldNotFree, HeldDisjoint
<1>6. BootInv
  BY <1>1 DEF Init, BootInv, Pages
<1>7. Donated = {}
  <2> SUFFICES ASSUME NEW p \in Donated PROVE FALSE
    OBVIOUS
  <2>1. PICK e \in 1..Len(MemMap) : /\ p \in MemMap[e].base .. (MemMap[e].base + MemMap[e].length - 1)
                                    /\ e < 1 \/ (e = 1 /\ p < MemMap[1].base)
    BY DEF Donated, Init
  <2>2. e = 1 /\ p < MemMap[1].base /\ p \in Nat
    BY <2>1, <1>1, TotalPagesFact, LevelsFact DEF Donated
  <2> QED
    BY <2>1, <2>2, <1>1, MapEntry
<1>8. Conservation
  BY <1>4, <1>7 DEF Conservation
<1> QED
  BY <1>3, <1>5, <1>6, <1>8 DEF Inv

(* Every step of the allocator preserves the invariant. *)
LEMMA InvStep ==
    ASSUME Inv, AtCountsArePowers, [Next]_vars
    PROVE  Inv' /\ MemoryStep
<1>1. CASE BreakIntoBuckets
  BY <1>1, BreakStep
<1>2. CASE NextEntry \/ StartReserving
  BY <1>2, EntryStep
<1>3. CASE ReserveMetaPage
  BY <1>3, ReserveStep
<1>4. ASSUME NEW al \in Alignments, NEW n \in AllocCounts, allocate(al, n)
      PROVE  Inv' /\ MemoryStep
  BY <1>4, AllocateStep
<1>5. ASSUME NEW a \in Page, NEW n \in AtCounts, allocate_at(a, n)
      PROVE  Inv' /\ MemoryStep
  BY <1>5, AllocateAtStep
<1>6. ASSUME NEW a \in Page, NEW n \in (AllocCounts \cup AtCounts) \ {0}, n <= 2^ZonesLen,
             free(a, n)
      PROVE  Inv' /\ MemoryStep
  BY <1>6, FreeStep
<1>7. CASE UNCHANGED vars
  <2>1. UNCHANGED <<zones, freelist, held, result, panic, phase, entry, pos, left>>
    BY <1>7 DEF vars
  <2> QED
    BY <2>1, IdleStep DEF Inv, TypeOK
<1> QED
  BY <1>1, <1>2, <1>3, <1>4, <1>5, <1>6, <1>7 DEF Next

-----------------------------------------------------------------------------
(* Every reachable state satisfies the invariant, whatever the memory map, *)
(* the number of nodes and the requests.                                   *)
THEOREM InvariantHolds == AtCountsArePowers => (Spec => []Inv)
<1> SUFFICES ASSUME AtCountsArePowers PROVE Spec => []Inv
  OBVIOUS
<1>1. Init => Inv
  BY InitInv
<1>2. Inv /\ [Next]_vars => Inv'
  BY InvStep
<1> QED
  BY <1>1, <1>2, PTL DEF Spec

(* The type invariant. *)
THEOREM TypeCorrect == AtCountsArePowers => (Spec => []TypeOK)
<1>1. Inv => TypeOK
  BY DEF Inv
<1> QED
  BY <1>1, InvariantHolds, PTL

(* No page is on two lists, held by two callers, or free while it is held. *)
THEOREM NeverOverlaps == AtCountsArePowers => (Spec => []NoOverlap)
<1>1. Inv => NoOverlap
  BY DEF Inv, SafeInv, ListsInv, NoOverlap
<1> QED
  BY <1>1, InvariantHolds, PTL

(* Every donated page is free or held. *)
THEOREM PagesConserved == AtCountsArePowers => (Spec => []Conservation)
<1>1. Inv => Conservation
  BY DEF Inv
<1> QED
  BY <1>1, InvariantHolds, PTL

(* Two buddies are never both free. *)
THEOREM AlwaysCoalesced == AtCountsArePowers => (Spec => []Coalesced)
<1>1. Inv => Coalesced
  BY DEF Inv, SafeInv, ListsInv
<1> QED
  BY <1>1, InvariantHolds, PTL

(* The searches miss no free run. *)
THEOREM SearchesAreComplete == AtCountsArePowers => (Spec => []FreeRunsAreFound)
<1>1. Inv => FreeRunsAreFound
  BY ListsInvFindsRuns DEF Inv, SafeInv
<1> QED
  BY <1>1, InvariantHolds, PTL
=============================================================================
