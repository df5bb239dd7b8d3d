----------------------------- MODULE BuddyLists ------------------------------
(***************************************************************************)
(* What the operations of the buddy allocator do to its lists, for every   *)
(* memory map: taking a bucket apart and merging buddies keep the lists    *)
(* aligned, disjoint and merged, and move exactly one block in or out.     *)
(***************************************************************************)
EXTENDS BuddyArithmetic

(* The part of the invariant that is about the lists alone. *)
ListsInv ==
    /\ zones \in [Levels -> SUBSET Page]
    /\ BucketsAligned
    /\ BucketsDisjoint
    /\ Coalesced

LEMMA ZonesLenNat == ZonesLen \in Nat \ {0} /\ \A i \in Levels : i \in 0..ZonesLen
BY ZonesLenFact, TotalPagesFact DEF Levels

(* The pages of a bucket are pages of the machine, and they are free. *)
LEMMA BucketPages ==
    ASSUME ListsInv, NEW i \in Levels, NEW b \in zones[i]
    PROVE  /\ b \in Nat /\ b % 2^i = 0
           /\ Block(b, i) \subseteq Page
           /\ Block(b, i) \subseteq FreePages
<1>1. i \in 0..ZonesLen /\ 2^i \in Nat \ {0}
  BY ZonesLenNat, Size
<1>2. b \in Page /\ b + 2^i <= TotalPages /\ b % 2^i = 0
  BY DEF ListsInv, BucketsAligned
<1>3. TotalPages \in Nat /\ Page \subseteq Nat
  BY TotalPagesFact DEF Page
<1>4. Block(b, i) \subseteq Page
  BY <1>1, <1>2, <1>3 DEF Block, Page
<1>5. Block(b, i) \subseteq FreePages
  BY <1>4 DEF FreePages
<1> QED
  BY <1>2, <1>3, <1>4, <1>5

(* An aligned block is the tower's block at its own zone. *)
LEMMA AroundSelf ==
    ASSUME NEW i \in 0..ZonesLen, NEW a \in Nat, NEW b \in Nat, b % 2^i = 0, a \in Block(b, i)
    PROVE  addr_at(a, i) = b /\ Around(a, i) = Block(b, i)
<1>1. b = addr_at(a, i)
  BY AddrAtUnique
<1> QED
  BY <1>1 DEF Around

LEMMA InOwnBlock ==
    ASSUME NEW i \in 0..ZonesLen, NEW a \in Nat
    PROVE  a \in Block(a, i) /\ (a + 2^i) - 1 \in Block(a, i) /\ 2^i \in Nat \ {0}
<1>1. 2^i \in Nat \ {0}
  BY Size
<1> QED
  BY <1>1 DEF Block

-----------------------------------------------------------------------------
(* pop_and_disband takes the block at addr, and only it, off the lists.    *)
LEMMA DisbandLemma ==
    ASSUME ListsInv,
           NEW s \in Levels, NEW u \in Levels, s <= u,
           NEW bucket \in zones[u], NEW a \in Block(bucket, u), a % 2^s = 0,
           pop_and_disband(bucket, a, s, u), ~panic'
    PROVE  /\ ListsInv'
           /\ Block(a, s) \subseteq FreePages
           /\ FreePages' = FreePages \ Block(a, s)
<1>0. /\ ZonesLen \in Nat /\ s \in 0..ZonesLen /\ u \in 0..ZonesLen
      /\ \A k \in s..(u - 1) : k \in Levels /\ k \in 0..ZonesLen
  BY ZonesLenNat DEF Levels
<1>1. /\ bucket \in Nat /\ bucket % 2^u = 0
      /\ Block(bucket, u) \subseteq Page /\ Block(bucket, u) \subseteq FreePages
  BY BucketPages
<1>2. a \in Nat /\ Page \subseteq Nat /\ TotalPages \in Nat
  BY <1>1, TotalPagesFact DEF Page
<1>3. Around(a, s) = Block(a, s) /\ Around(a, u) = Block(bucket, u)
  BY <1>0, <1>1, <1>2, AroundSelf, InOwnBlock
<1>4. zones' = [i \in Levels |->
                  CASE i = u -> zones[i] \ {bucket}
                    [] i \in s..(u - 1) -> zones[i] \cup {buddy_at(a, i)}
                    [] OTHER -> zones[i]]
  BY DEF pop_and_disband
(* What is on the lists afterwards. *)
<1>5. ASSUME NEW i \in Levels, NEW b
      PROVE  b \in zones'[i] <=> \/ b \in zones[i] /\ ~(i = u /\ b = bucket)
                                 \/ i \in s..(u - 1) /\ b = buddy_at(a, i)
  <2>1. CASE i = u
    <3>1. zones'[i] = zones[i] \ {bucket}
      BY <1>4, <2>1
    <3>2. i \notin s..(u - 1)
      BY <2>1, <1>0
    <3> QED
      BY <3>1, <3>2, <2>1
  <2>2. CASE i \in s..(u - 1)
    <3>1. i # u
      BY <2>2, <1>0
    <3>2. zones'[i] = zones[i] \cup {buddy_at(a, i)}
      BY <1>4, <2>2, <3>1
    <3> QED
      BY <3>1, <3>2, <2>2
  <2>3. CASE i # u /\ i \notin s..(u - 1)
    <3>1. zones'[i] = zones[i]
      BY <1>4, <2>3
    <3> QED
      BY <3>1, <2>3
  <2> QED
    BY <2>1, <2>2, <2>3
(* The buckets that were pushed lie in the one that was popped. *)
<1>6. ASSUME NEW k \in s..(u - 1)
      PROVE  /\ Beside(a, k) \subseteq Block(bucket, u)
             /\ Beside(a, k) \cap Block(a, s) = {}
             /\ buddy_at(a, k) \in Page /\ buddy_at(a, k) % 2^k = 0
             /\ buddy_at(a, k) + 2^k <= TotalPages
             /\ get_buddy_addr(buddy_at(a, k), k) = addr_at(a, k)
             /\ addr_at(a, k) # buddy_at(a, k)
             /\ addr_at(a, k) \notin zones[k]
  <2>0. k \in Levels /\ k \in 0..ZonesLen /\ s <= k /\ k <= u /\ k # u
    BY <1>0
  <2>1. Beside(a, k) \subseteq Around(a, u)
    BY <2>0, <1>2, TowerDisjoint
  <2>2. Beside(a, k) \cap Around(a, s) = {}
    BY <2>0, <1>2, TowerDisjoint
  <2>3. /\ buddy_at(a, k) \in Nat /\ buddy_at(a, k) % 2^k = 0
        /\ buddy_at(a, k) # addr_at(a, k)
        /\ get_buddy_addr(buddy_at(a, k), k) = addr_at(a, k)
    BY <2>0, <1>2, TowerStep
  <2>4. Beside(a, k) \subseteq Page
    BY <2>1, <1>1, <1>3
  <2>5. /\ buddy_at(a, k) \in Beside(a, k)
        /\ (buddy_at(a, k) + 2^k) - 1 \in Beside(a, k) /\ 2^k \in Nat
    BY <2>0, <2>3, InOwnBlock DEF Beside
  <2>6. buddy_at(a, k) \in Page /\ buddy_at(a, k) + 2^k <= TotalPages
    <3>1. (buddy_at(a, k) + 2^k) - 1 \in Page /\ buddy_at(a, k) \in Page
      BY <2>4, <2>5
    <3> QED
      BY <3>1, <2>3, <2>5, <1>2 DEF Page
  <2>7. addr_at(a, k) \notin zones[k]
    <3> SUFFICES ASSUME addr_at(a, k) \in zones[k] PROVE FALSE
      OBVIOUS
    <3>1. a \in Block(addr_at(a, k), k)
      BY <2>0, <1>2, AddrAtFact
    <3>2. Block(addr_at(a, k), k) \cap Block(bucket, u) # {}
      BY <3>1
    <3> QED
      BY <3>2, <2>0 DEF ListsInv, BucketsDisjoint
  <2> QED
    BY <2>1, <2>2, <2>3, <2>6, <2>7, <1>3
(* A bucket that stayed does not meet the one that was popped. *)
<1>7. ASSUME NEW i \in Levels, NEW b \in zones[i], ~(i = u /\ b = bucket)
      PROVE  Block(b, i) \cap Block(bucket, u) = {}
  BY <1>7 DEF ListsInv, BucketsDisjoint
<1>8. zones' \in [Levels -> SUBSET Page]
  <2>1. \A i \in Levels : zones[i] \subseteq Page
    BY DEF ListsInv
  <2>2. \A i \in Levels : zones'[i] \subseteq Page
    BY <1>5, <1>6, <2>1
  <2>3. DOMAIN zones' = Levels /\ zones' = [i \in Levels |-> zones'[i]]
    BY <1>4
  <2> QED
    BY <2>2, <2>3
<1>9. BucketsAligned'
  <2> SUFFICES ASSUME NEW i \in Levels, NEW b \in zones'[i]
               PROVE  b % 2^i = 0 /\ b + 2^i <= TotalPages
    BY DEF BucketsAligned
  <2> QED
    BY <1>5, <1>6 DEF ListsInv, BucketsAligned
<1>10. BucketsDisjoint'
  <2> SUFFICES ASSUME NEW i \in Levels, NEW j \in Levels,
                      NEW b \in zones'[i], NEW c \in zones'[j],
                      Block(b, i) \cap Block(c, j) # {}
               PROVE  i = j /\ b = c
    BY DEF BucketsDisjoint
  <2>1. CASE b \in zones[i] /\ ~(i = u /\ b = bucket) /\ c \in zones[j] /\ ~(j = u /\ c = bucket)
    BY <2>1 DEF ListsInv, BucketsDisjoint
  <2>2. CASE /\ b \in zones[i] /\ ~(i = u /\ b = bucket)
             /\ j \in s..(u - 1) /\ c = buddy_at(a, j)
    <3>1. Block(c, j) \subseteq Block(bucket, u)
      BY <2>2, <1>6 DEF Beside
    <3> QED
      BY <3>1, <2>2, <1>7
  <2>3. CASE /\ c \in zones[j] /\ ~(j = u /\ c = bucket)
             /\ i \in s..(u - 1) /\ b = buddy_at(a, i)
    <3>1. Block(b, i) \subseteq Block(bucket, u)
      BY <2>3, <1>6 DEF Beside
    <3> QED
      BY <3>1, <2>3, <1>7
  <2>4. CASE /\ i \in s..(u - 1) /\ b = buddy_at(a, i)
             /\ j \in s..(u - 1) /\ c = buddy_at(a, j)
    <3>1. Block(b, i) = Beside(a, i) /\ Block(c, j) = Beside(a, j)
      BY <2>4 DEF Beside
    <3>2. CASE i = j
      BY <3>2, <2>4
    <3>3. CASE i < j
      BY <3>1, <3>3, <1>2, <1>0, TowerDisjoint
    <3>4. CASE j < i
      BY <3>1, <3>4, <1>2, <1>0, TowerDisjoint
    <3> QED
      BY <3>2, <3>3, <3>4, <2>4, <1>0
  <2> QED
    BY <1>5, <2>1, <2>2, <2>3, <2>4
<1>11. Coalesced'
  <2> SUFFICES ASSUME NEW i \in Levels, NEW b \in zones'[i], get_buddy_addr(b, i) \in zones'[i]
               PROVE  FALSE
    BY DEF Coalesced
  <2> DEFINE c == get_buddy_addr(b, i)
  <2>1. CASE b \in zones[i] /\ c \in zones[i]
    BY <2>1 DEF ListsInv, Coalesced
  <2>2. CASE i \in s..(u - 1) /\ b = buddy_at(a, i)
    <3>1. c = addr_at(a, i) /\ addr_at(a, i) # buddy_at(a, i) /\ addr_at(a, i) \notin zones[i]
      BY <2>2, <1>6
    <3> QED
      BY <3>1, <1>5
  <2>3. CASE b \in zones[i] /\ i \in s..(u - 1) /\ c = buddy_at(a, i)
    <3>1. b \in Nat /\ b % 2^i = 0 /\ i \in 0..ZonesLen
      BY <2>3, BucketPages, <1>0
    <3>2. get_buddy_addr(c, i) = b
      BY <3>1, BuddyFact
    <3>3. b = addr_at(a, i)
      BY <3>2, <2>3, <1>6
    <3> QED
      BY <3>3, <2>3, <1>6
  <2> QED
    BY <1>5, <2>1, <2>2, <2>3
<1>12. Block(a, s) \subseteq FreePages
  BY <1>0, <1>1, <1>2, <1>3, TowerGrows
<1>13. FreePages' = FreePages \ Block(a, s)
  <2>1. ASSUME NEW p \in FreePages'
        PROVE  p \in FreePages /\ p \notin Block(a, s)
    <3>0. PICK i \in Levels : \E b \in zones'[i] : p \in Block(b, i)
      BY DEF FreePages
    <3>1. PICK b \in zones'[i] : p \in Block(b, i)
      BY <3>0
    <3>2. CASE b \in zones[i] /\ ~(i = u /\ b = bucket)
      <4>1. p \notin Block(bucket, u)
        BY <3>1, <3>2, <1>7
      <4>2. Block(a, s) \subseteq Block(bucket, u)
        BY <1>0, <1>2, <1>3, TowerGrows
      <4> QED
        BY <4>1, <4>2, <3>1, <3>2, BucketPages
    <3>3. CASE i \in s..(u - 1) /\ b = buddy_at(a, i)
      BY <3>1, <3>3, <1>1, <1>6 DEF Beside
    <3> QED
      BY <1>5, <3>1, <3>2, <3>3
  <2>2. ASSUME NEW p \in FreePages, p \notin Block(a, s)
        PROVE  p \in FreePages'
    <3>0. PICK i \in Levels : \E b \in zones[i] : p \in Block(b, i)
      BY DEF FreePages
    <3>1. PICK b \in zones[i] : p \in Block(b, i)
      BY <3>0
    <3>2. p \in Page
      BY DEF FreePages
    <3>3. CASE ~(i = u /\ b = bucket)
      <4>1. b \in zones'[i]
        BY <1>5, <3>3
      <4> QED
        BY <4>1, <3>1, <3>2 DEF FreePages
    <3>4. CASE i = u /\ b = bucket
      <4>1. p \in Around(a, u) /\ p \notin Around(a, s)
        BY <3>1, <3>4, <2>2, <1>3
      <4>2. PICK k \in s..(u - 1) : p \in Beside(a, k)
        BY <4>1, <1>0, <1>2, TowerCover
      <4>3. k \in Levels /\ buddy_at(a, k) \in zones'[k] /\ p \in Block(buddy_at(a, k), k)
        BY <4>2, <1>0, <1>5 DEF Beside
      <4> QED
        BY <4>3, <3>2 DEF FreePages
    <3> QED
      BY <3>3, <3>4
  <2> QED
    BY <2>1, <2>2
<1> QED
  BY <1>8, <1>9, <1>10, <1>11, <1>12, <1>13 DEF ListsInv

-----------------------------------------------------------------------------
(* The zones in which coalesce finds no buddy. *)
Stops(a, s) == {i \in s..(ZonesLen - 1) : buddy_at(a, i) \notin zones[i]}

(* If the buddy is free in every zone from s up to k, then so is the whole *)
(* block of zone k except the part the loop started from.                  *)
LEMMA MergedPages ==
    ASSUME ListsInv, NEW s \in Levels, NEW a \in Nat, a % 2^s = 0,
           NEW k \in s..ZonesLen, \A i \in s..(k - 1) : buddy_at(a, i) \in zones[i],
           NEW p \in Around(a, k)
    PROVE  p \in Block(a, s) \/ \E i \in s..(k - 1) : p \in Beside(a, i) /\ p \in FreePages
<1>0. ZonesLen \in Nat /\ s \in 0..ZonesLen /\ k \in 0..ZonesLen /\ s <= k
  BY ZonesLenNat DEF Levels
<1>1. Around(a, s) = Block(a, s)
  BY <1>0, AroundSelf, InOwnBlock
<1>2. ASSUME p \notin Block(a, s)
      PROVE  \E i \in s..(k - 1) : p \in Beside(a, i) /\ p \in FreePages
  <2>1. PICK i \in s..(k - 1) : p \in Beside(a, i)
    BY <1>0, <1>1, <1>2, TowerCover
  <2>2. i \in Levels /\ buddy_at(a, i) \in zones[i]
    BY <1>0, <2>1 DEF Levels
  <2>3. Block(buddy_at(a, i), i) \subseteq FreePages
    BY <2>2, BucketPages
  <2> QED
    BY <2>1, <2>3 DEF Beside
<1> QED
  BY <1>2

(* coalesce never reaches its unreachable!(): a block of the size after    *)
(* the last zone does not fit in memory.                                   *)
LEMMA CoalesceStops ==
    ASSUME ListsInv, NEW s \in Levels, NEW a \in Nat, a % 2^s = 0, Block(a, s) \subseteq Page
    PROVE  Stops(a, s) # {}
<1> SUFFICES ASSUME Stops(a, s) = {} PROVE FALSE
  OBVIOUS
<1>0. ZonesLen \in Nat /\ s \in 0..ZonesLen /\ ZonesLen \in s..ZonesLen /\ ZonesLen \in 0..ZonesLen
  BY ZonesLenNat DEF Levels
<1>1. \A i \in s..(ZonesLen - 1) : buddy_at(a, i) \in zones[i]
  BY DEF Stops
<1>2. FreePages \subseteq Page
  BY DEF FreePages
<1>3. Around(a, ZonesLen) \subseteq Page
  BY <1>0, <1>1, <1>2, MergedPages
<1> DEFINE x == addr_at(a, ZonesLen)
<1>4. x \in Nat /\ (x + 2^ZonesLen) - 1 \in Block(x, ZonesLen) /\ 2^ZonesLen \in Nat
  BY <1>0, AddrAtFact, InOwnBlock
<1>5. (x + 2^ZonesLen) - 1 \in Page
  BY <1>3, <1>4 DEF Around
<1> HIDE DEF x
<1> QED
  BY <1>4, <1>5, ZonesLenFact, TotalPagesFact DEF Page

(* Lowest picks the least element of a set of zones. *)
LEMMA LowestFact ==
    ASSUME NEW S \in SUBSET Nat, S # {}
    PROVE  Lowest(S) \in S /\ \A j \in S : Lowest(S) <= j
<1>1. \E i \in S : \A j \in S : i <= j
  BY LeastNatural
<1> QED
  BY <1>1 DEF Lowest

(* coalesce puts the block at addr, and only it, on the lists.             *)
LEMMA CoalesceLemma ==
    ASSUME ListsInv, NEW s \in Levels, NEW a \in Nat, a % 2^s = 0,
           Block(a, s) \subseteq Page, Block(a, s) \cap FreePages = {},
           coalesce(a, s), ~panic'
    PROVE  ListsInv' /\ FreePages' = FreePages \cup Block(a, s)
<1> DEFINE top == Lowest(Stops(a, s))
<1>0. /\ ZonesLen \in Nat /\ s \in 0..ZonesLen
      /\ Stops(a, s) \subseteq Levels /\ Stops(a, s) \subseteq Nat
      /\ Page \subseteq Nat /\ TotalPages \in Nat
  BY ZonesLenNat, TotalPagesFact DEF Levels, Stops, Page
<1>1. top \in Stops(a, s) /\ \A j \in Stops(a, s) : top <= j
  BY <1>0, CoalesceStops, LowestFact
<1>2. zones' = [i \in Levels |->
                  CASE i = top -> zones[i] \cup {addr_at(a, top)}
                    [] i \in s..(top - 1) -> zones[i] \ {buddy_at(a, i)}
                    [] OTHER -> zones[i]]
  BY DEF coalesce, Stops
<1> HIDE DEF top
<1>3. top \in Levels /\ s <= top /\ top \in 0..ZonesLen /\ buddy_at(a, top) \notin zones[top]
  BY <1>0, <1>1 DEF Stops, Levels
<1>4. \A i \in s..(top - 1) : i \in Levels /\ i # top /\ buddy_at(a, i) \in zones[i]
  <2> TAKE i \in s..(top - 1)
  <2>1. i \in Levels /\ i < top /\ i \in s..(ZonesLen - 1)
    BY <1>0, <1>3 DEF Levels
  <2>2. i \notin Stops(a, s)
    BY <2>1, <1>1, <1>3, <1>0
  <2> QED
    BY <2>1, <2>2, <1>3 DEF Stops
<1>5. ASSUME NEW i \in Levels, NEW b
      PROVE  b \in zones'[i] <=> \/ b \in zones[i] /\ ~(i \in s..(top - 1) /\ b = buddy_at(a, i))
                                 \/ i = top /\ b = addr_at(a, top)
  <2>1. CASE i = top
    <3>1. zones'[i] = zones[i] \cup {addr_at(a, top)}
      BY <1>2, <2>1
    <3>2. i \notin s..(top - 1)
      BY <2>1, <1>4
    <3> QED
      BY <3>1, <3>2, <2>1
  <2>2. CASE i \in s..(top - 1)
    <3>1. i # top
      BY <2>2, <1>4
    <3>2. zones'[i] = zones[i] \ {buddy_at(a, i)}
      BY <1>2, <2>2, <3>1
    <3> QED
      BY <3>1, <3>2, <2>2
  <2>3. CASE i # top /\ i \notin s..(top - 1)
    <3>1. zones'[i] = zones[i]
      BY <1>2, <2>3
    <3> QED
      BY <3>1, <2>3
  <2> QED
    BY <2>1, <2>2, <2>3
(* The pushed bucket: the block itself and the buddies that were popped. *)
<1>6. ASSUME NEW p \in Around(a, top)
      PROVE  p \in Block(a, s) \/ \E i \in s..(top - 1) : p \in Beside(a, i) /\ p \in FreePages
  BY <1>0, <1>3, <1>4, MergedPages
<1>7. Block(a, s) \subseteq Around(a, top)
  <2>1. Around(a, s) = Block(a, s)
    BY <1>0, AroundSelf, InOwnBlock
  <2> QED
    BY <2>1, <1>0, <1>3, TowerGrows
<1>8. /\ addr_at(a, top) \in Page /\ addr_at(a, top) % 2^top = 0
      /\ addr_at(a, top) + 2^top <= TotalPages
      /\ Around(a, top) \subseteq Page
  <2>1. Around(a, top) \subseteq Page
    BY <1>6 DEF FreePages
  <2>2. addr_at(a, top) \in Nat /\ addr_at(a, top) % 2^top = 0
    BY <1>3, AddrAtFact
  <2>3. /\ addr_at(a, top) \in Around(a, top) /\ 2^top \in Nat
        /\ (addr_at(a, top) + 2^top) - 1 \in Around(a, top)
    BY <1>3, <2>2, InOwnBlock DEF Around
  <2>4. (addr_at(a, top) + 2^top) - 1 \in Page /\ addr_at(a, top) \in Page
    BY <2>1, <2>3
  <2> QED
    BY <2>1, <2>2, <2>3, <2>4, <1>0 DEF Page
(* A bucket that stayed does not meet the pushed one. *)
<1>9. ASSUME NEW i \in Levels, NEW b \in zones[i], ~(i \in s..(top - 1) /\ b = buddy_at(a, i))
      PROVE  Block(b, i) \cap Block(addr_at(a, top), top) = {}
  <2> SUFFICES ASSUME NEW p \in Block(b, i), p \in Around(a, top) PROVE FALSE
    BY DEF Around
  <2>1. p \in FreePages
    BY BucketPages
  <2>2. PICK k \in s..(top - 1) : p \in Beside(a, k)
    BY <2>1, <1>6
  <2>3. buddy_at(a, k) \in zones[k] /\ k \in Levels /\ p \in Block(buddy_at(a, k), k)
    BY <2>2, <1>4 DEF Beside
  <2>4. i = k /\ b = buddy_at(a, k)
    BY <2>3 DEF ListsInv, BucketsDisjoint
  <2> QED
    BY <2>4, <2>2, <1>9
<1>10. zones' \in [Levels -> SUBSET Page]
  <2>1. \A i \in Levels : zones[i] \subseteq Page
    BY DEF ListsInv
  <2>2. \A i \in Levels : zones'[i] \subseteq Page
    BY <1>5, <1>8, <2>1
  <2>3. zones' = [i \in Levels |-> zones'[i]]
    BY <1>2
  <2> QED
    BY <2>2, <2>3
<1>11. BucketsAligned'
  <2> SUFFICES ASSUME NEW i \in Levels, NEW b \in zones'[i]
               PROVE  b % 2^i = 0 /\ b + 2^i <= TotalPages
    BY DEF BucketsAligned
  <2> QED
    BY <1>5, <1>8 DEF ListsInv, BucketsAligned
<1>12. BucketsDisjoint'
  <2> SUFFICES ASSUME NEW i \in Levels, NEW j \in Levels,
                      NEW b \in zones'[i], NEW c \in zones'[j],
                      Block(b, i) \cap Block(c, j) # {}
               PROVE  i = j /\ b = c
    BY DEF BucketsDisjoint
  <2> DEFINE Stayed(k, d) == d \in zones[k] /\ ~(k \in s..(top - 1) /\ d = buddy_at(a, k))
             Pushed(k, d) == k = top /\ d = addr_at(a, top)
  <2>1. CASE Stayed(i, b) /\ Stayed(j, c)
    BY <2>1 DEF ListsInv, BucketsDisjoint
  <2>2. CASE Stayed(i, b) /\ Pushed(j, c)
    BY <2>2, <1>9
  <2>3. CASE Pushed(i, b) /\ Stayed(j, c)
    BY <2>3, <1>9
  <2>4. CASE Pushed(i, b) /\ Pushed(j, c)
    BY <2>4
  <2> QED
    BY <1>5, <2>1, <2>2, <2>3, <2>4
<1>13. Coalesced'
  <2> SUFFICES ASSUME NEW i \in Levels, NEW b \in zones'[i], get_buddy_addr(b, i) \in zones'[i]
               PROVE  FALSE
    BY DEF Coalesced
  <2> DEFINE c == get_buddy_addr(b, i)
  <2>1. CASE b \in zones[i] /\ c \in zones[i]
    BY <2>1 DEF ListsInv, Coalesced
  <2>2. CASE i = top /\ b = addr_at(a, top)
    <3>1. c = buddy_at(a, top)
      BY <2>2 DEF buddy_at
    <3>2. buddy_at(a, top) # addr_at(a, top)
      BY <1>3, TowerStep
    <3> QED
      BY <3>1, <3>2, <2>2, <1>3, <1>5
  <2>3. CASE b \in zones[i] /\ i = top /\ c = addr_at(a, top)
    <3>1. b \in Nat /\ b % 2^i = 0 /\ i \in 0..ZonesLen
      BY <2>3, BucketPages, <1>3
    <3>2. get_buddy_addr(c, i) = b
      BY <3>1, BuddyFact
    <3>3. b = buddy_at(a, top)
      BY <3>2, <2>3 DEF buddy_at
    <3> QED
      BY <3>3, <2>3, <1>3
  <2> QED
    BY <1>5, <2>1, <2>2, <2>3
<1>14. FreePages' = FreePages \cup Block(a, s)
  <2>1. ASSUME NEW p \in FreePages'
        PROVE  p \in FreePages \/ p \in Block(a, s)
    <3>0. PICK i \in Levels : \E b \in zones'[i] : p \in Block(b, i)
      BY DEF FreePages
    <3>1. PICK b \in zones'[i] : p \in Block(b, i)
      BY <3>0
    <3>2. CASE b \in zones[i]
      BY <3>1, <3>2, BucketPages
    <3>3. CASE i = top /\ b = addr_at(a, top)
      BY <3>1, <3>3, <1>6 DEF Around
    <3> QED
      BY <1>5, <3>1, <3>2, <3>3
  <2>2. ASSUME NEW p \in Around(a, top)
        PROVE  p \in FreePages'
    <3>1. addr_at(a, top) \in zones'[top]
      BY <1>3, <1>5
    <3> QED
      BY <3>1, <1>3, <1>8 DEF FreePages, Around
  <2>3. ASSUME NEW p \in FreePages
        PROVE  p \in FreePages'
    <3>0. PICK i \in Levels : \E b \in zones[i] : p \in Block(b, i)
      BY DEF FreePages
    <3>1. PICK b \in zones[i] : p \in Block(b, i)
      BY <3>0
    <3>2. CASE i \in s..(top - 1) /\ b = buddy_at(a, i)
      <4>1. p \in Beside(a, i)
        BY <3>1, <3>2 DEF Beside
      <4>2. Beside(a, i) \subseteq Around(a, top)
        BY <3>2, <1>3, <1>4, <1>0, TowerDisjoint
      <4> QED
        BY <4>1, <4>2, <2>2
    <3>3. CASE ~(i \in s..(top - 1) /\ b = buddy_at(a, i))
      <4>1. b \in zones'[i]
        BY <3>1, <3>3, <1>5
      <4> QED
        BY <4>1, <3>1 DEF FreePages
    <3> QED
      BY <3>2, <3>3
  <2> QED
    BY <2>1, <2>2, <2>3, <1>7
<1> QED
  BY <1>10, <1>11, <1>12, <1>13, <1>14 DEF ListsInv

-----------------------------------------------------------------------------
(* A free aligned run is always inside one bucket, because buddies are     *)
(* merged: otherwise the smallest bucket in the run has a buddy that is    *)
(* free but lies in no bucket.                                             *)
LEMMA RunInBucket ==
    ASSUME ListsInv, NEW i \in Levels, NEW a \in Nat, a % 2^i = 0, Block(a, i) \subseteq FreePages
    PROVE  \E j \in i..(ZonesLen - 1) : \E b \in zones[j] : a \in Block(b, j)
<1> SUFFICES ASSUME ~\E j \in i..(ZonesLen - 1) : \E b \in zones[j] : a \in Block(b, j)
             PROVE  FALSE
  OBVIOUS
<1>0. /\ ZonesLen \in Nat /\ \A k \in Levels : k \in 0..ZonesLen /\ k + 1 \in 0..ZonesLen
      /\ a \in Block(a, i) /\ Page \subseteq Nat
  BY ZonesLenNat, InOwnBlock, TotalPagesFact DEF Levels, Page
<1> DEFINE S == {k \in Levels : \E b \in zones[k] : b \in Block(a, i) /\ k < i}
(* Every bucket that meets the run is smaller than it, and inside it. *)
<1>1. ASSUME NEW m \in Levels, NEW d \in zones[m], NEW p \in Block(a, i), p \in Block(d, m)
      PROVE  m < i /\ d \in Block(a, i) /\ m \in S
  <2>1. d \in Nat /\ d % 2^m = 0 /\ d \in Block(d, m)
    BY BucketPages, <1>0, InOwnBlock
  <2>2. ~(i <= m)
    <3> SUFFICES ASSUME i <= m PROVE FALSE
      OBVIOUS
    <3>1. Block(a, i) \subseteq Block(d, m)
      BY <1>0, <1>1, <2>1, Nested
    <3>2. m \in i..(ZonesLen - 1)
      BY <1>0 DEF Levels
    <3> QED
      BY <3>1, <3>2, <1>0
  <2>3. m < i
    BY <2>2 DEF Levels
  <2>4. Block(d, m) \subseteq Block(a, i)
    BY <1>0, <1>1, <2>1, <2>3, Nested
  <2> QED
    BY <2>1, <2>3, <2>4
<1>2. S # {}
  <2>1. PICK m \in Levels : \E d \in zones[m] : a \in Block(d, m)
    BY <1>0 DEF FreePages
  <2> QED
    BY <2>1, <1>0, <1>1
<1>3. S \subseteq Nat
  BY DEF Levels
<1>4. PICK k \in S : \A m \in S : k <= m
  BY <1>2, <1>3, LeastNatural
<1>5. k \in Levels /\ k < i
  BY <1>4
<1>6. PICK b \in zones[k] : b \in Block(a, i)
  BY <1>4
<1> HIDE DEF S
<1>7. b \in Nat /\ b % 2^k = 0 /\ b \in Block(b, k)
  BY <1>5, BucketPages, <1>0, InOwnBlock
<1>8. addr_at(b, k) = b
  BY <1>0, <1>5, <1>7, AroundSelf
<1> DEFINE c == buddy_at(b, k)
<1>9. /\ c \in Nat /\ c % 2^k = 0 /\ c = get_buddy_addr(b, k)
      /\ Around(b, k + 1) = Block(b, k) \cup Block(c, k)
  BY <1>5, <1>7, <1>8, TowerStep DEF Around, Beside, buddy_at
<1> HIDE DEF c
<1>10. c \in Block(c, k)
  BY <1>9, <1>5, <1>0, InOwnBlock
<1> DEFINE y == addr_at(b, k + 1)
<1>11. y \in Nat /\ y % 2^(k + 1) = 0 /\ Around(b, k + 1) = Block(y, k + 1)
  BY <1>0, <1>5, <1>7, AddrAtFact DEF Around
<1> HIDE DEF y
<1>12. Around(b, k + 1) \subseteq Block(a, i)
  <2>1. k + 1 <= i
    BY <1>5 DEF Levels
  <2>2. Block(y, k + 1) \cap Block(a, i) # {}
    BY <1>6, <1>7, <1>9, <1>11
  <2> QED
    BY <2>1, <2>2, <1>0, <1>5, <1>11, Nested
<1>13. c \in Block(a, i) /\ c \in FreePages
  BY <1>9, <1>10, <1>12
<1>14. PICK m \in Levels : \E d \in zones[m] : c \in Block(d, m)
  BY <1>13 DEF FreePages
<1>15. PICK d \in zones[m] : c \in Block(d, m)
  BY <1>14
<1>16. d \in Nat /\ d % 2^m = 0
  BY BucketPages
<1>17. k <= m
  BY <1>1, <1>4, <1>13, <1>15
<1>18. CASE m = k
  <2>1. d = c
    <3>1. d = addr_at(c, k) /\ c = addr_at(c, k)
      BY <1>0, <1>5, <1>9, <1>10, <1>15, <1>16, <1>18, AroundSelf
    <3> QED
      BY <3>1
  <2> QED
    BY <2>1, <1>18, <1>5, <1>9 DEF ListsInv, Coalesced
<1>19. CASE m # k
  <2>1. k + 1 <= m
    BY <1>5, <1>17, <1>19 DEF Levels
  <2>2. Block(y, k + 1) \cap Block(d, m) # {}
    BY <1>9, <1>10, <1>11, <1>15
  <2>3. Block(y, k + 1) \subseteq Block(d, m)
    BY <2>1, <2>2, <1>0, <1>5, <1>11, <1>16, Nested
  <2>4. b \in Block(d, m)
    BY <2>3, <1>7, <1>9, <1>11
  <2>5. Block(b, k) \cap Block(d, m) # {}
    BY <2>4, <1>7
  <2> QED
    BY <2>5, <1>5, <1>19 DEF ListsInv, BucketsDisjoint
<1> QED
  BY <1>18, <1>19

LEMMA ListsInvFindsRuns ==
    ASSUME ListsInv
    PROVE  FreeRunsAreFound
<1> SUFFICES ASSUME NEW i \in Levels, NEW k \in Levels, NEW a \in Page,
                    a % 2^i = 0, Block(a, i) \subseteq FreePages
             PROVE  /\ ZonesContaining(a, i) # {}
                    /\ a % 2^k = 0 => ZonesAligned(2^k, i) # {}
  BY DEF FreeRunsAreFound
<1>0. a \in Nat /\ ZonesLen \in Nat /\ \A l \in Levels : l \in 0..ZonesLen
  BY ZonesLenNat, TotalPagesFact DEF Page
<1>1. PICK j \in i..(ZonesLen - 1) : \E b \in zones[j] : a \in Block(b, j)
  BY <1>0, RunInBucket
<1>2. PICK b \in zones[j] : a \in Block(b, j)
  BY <1>1
<1>3. j \in Levels /\ j \in 0..ZonesLen /\ k \in 0..ZonesLen
  BY <1>0, <1>1 DEF Levels
<1>4. b \in Nat /\ b % 2^j = 0
  BY <1>3, BucketPages
<1>5. ASSUME a % 2^k = 0
      PROVE  b % 2^k = 0
  <2>1. CASE k <= j
    BY <2>1, <1>3, <1>4, AlignedDown
  <2>2. CASE j <= k
    <3>1. a % 2^j = 0
      BY <2>2, <1>0, <1>3, <1>5, AlignedDown
    <3>2. a = addr_at(a, j) /\ b = addr_at(a, j)
      BY <3>1, <1>0, <1>2, <1>3, <1>4, AroundSelf, InOwnBlock
    <3> QED
      BY <3>2, <1>5
  <2> QED
    BY <2>1, <2>2, <1>3
<1> QED
  BY <1>1, <1>2, <1>5 DEF ZonesContaining, ZonesAligned

-----------------------------------------------------------------------------
(* The callers' blocks.                                                    *)

HeldInv ==
    \A h \in held : /\ h.addr \in Nat
                    /\ Order(h.count) \in Levels
                    /\ h.addr % 2^Order(h.count) = 0
                    /\ Span(h) \subseteq Page

(* The lists and the callers' blocks together. *)
SafeInv == ListsInv /\ HeldInv /\ HeldNotFree /\ HeldDisjoint

(* Giving out the block at a: the free pages lose exactly that block. *)
LEMMA TakeLemma ==
    ASSUME SafeInv,
           NEW s \in Levels, NEW u \in Levels, s <= u,
           NEW bucket \in zones[u], NEW a \in Block(bucket, u), a % 2^s = 0,
           NEW n, Order(n) = s,
           pop_and_disband(bucket, a, s, u), ~panic',
           held' = held \cup {[addr |-> a, count |-> n]}
    PROVE  /\ SafeInv'
           /\ Block(a, s) \subseteq FreePages
           /\ FreePages' = FreePages \ Block(a, s)
           /\ FreePages' \cup HeldPages' = FreePages \cup HeldPages
<1> DEFINE new == [addr |-> a, count |-> n]
<1>1. /\ ListsInv' /\ Block(a, s) \subseteq FreePages
      /\ FreePages' = FreePages \ Block(a, s)
  BY DisbandLemma DEF SafeInv
<1>2. Span(new) = Block(a, s)
  BY DEF Span
<1>3. a \in Nat /\ FreePages \subseteq Page
  <2>1. Block(bucket, u) \subseteq Page /\ Page \subseteq Nat
    BY BucketPages, TotalPagesFact DEF SafeInv, Page
  <2> QED
    BY <2>1 DEF FreePages
<1>4. \A h : Span(h)' = Span(h)
  BY DEF Span, Block
<1>5. HeldInv'
  <2> SUFFICES ASSUME NEW h \in held'
               PROVE  /\ h.addr \in Nat /\ Order(h.count) \in Levels
                      /\ h.addr % 2^Order(h.count) = 0 /\ Span(h) \subseteq Page
    BY <1>4 DEF HeldInv
  <2>1. CASE h \in held
    BY <2>1 DEF SafeInv, HeldInv
  <2>2. CASE h = new
    BY <2>2, <1>1, <1>2, <1>3
  <2> QED
    BY <2>1, <2>2
<1>6. \A h \in held : Span(h) \cap FreePages = {}
  BY DEF SafeInv, HeldNotFree
<1>7. HeldNotFree'
  BY <1>1, <1>2, <1>6 DEF HeldNotFree
<1>8. HeldDisjoint'
  <2> SUFFICES ASSUME NEW g \in held', NEW h \in held', Span(g) \cap Span(h) # {}
               PROVE  g = h
    BY DEF HeldDisjoint
  <2>1. CASE g \in held /\ h \in held
    BY <2>1 DEF SafeInv, HeldDisjoint
  <2>2. CASE g \in held /\ h = new
    BY <2>2, <1>1, <1>2, <1>6
  <2>3. CASE g = new /\ h \in held
    BY <2>3, <1>1, <1>2, <1>6
  <2>4. CASE g = new /\ h = new
    BY <2>4
  <2> QED
    BY <2>1, <2>2, <2>3, <2>4
<1>9. HeldPages' = HeldPages \cup Block(a, s)
  BY <1>2 DEF HeldPages
<1> QED
  BY <1>1, <1>5, <1>7, <1>8, <1>9 DEF SafeInv

(* Taking back a block: the free pages gain exactly that block. *)
LEMMA GiveLemma ==
    ASSUME SafeInv, NEW h \in held,
           coalesce(h.addr, Order(h.count)), ~panic', held' = held \ {h}
    PROVE  /\ SafeInv'
           /\ FreePages' = FreePages \cup Span(h)
           /\ FreePages' \cup HeldPages' = FreePages \cup HeldPages
<1>1. /\ h.addr \in Nat /\ Order(h.count) \in Levels
      /\ h.addr % 2^Order(h.count) = 0 /\ Span(h) \subseteq Page
      /\ Span(h) \cap FreePages = {} /\ Span(h) = Block(h.addr, Order(h.count))
  BY DEF SafeInv, HeldInv, HeldNotFree, Span
<1>2. ListsInv' /\ FreePages' = FreePages \cup Span(h)
  BY <1>1, CoalesceLemma DEF SafeInv
<1>3. \A g \in held' : g \in held /\ Span(g) \cap Span(h) = {}
  BY DEF SafeInv, HeldDisjoint
<1>4. HeldInv'
  BY <1>3 DEF SafeInv, HeldInv
<1>5. HeldNotFree'
  BY <1>2, <1>3 DEF SafeInv, HeldNotFree
<1>6. HeldDisjoint'
  BY <1>3 DEF SafeInv, HeldDisjoint
<1>7. HeldPages = HeldPages' \cup Span(h)
  BY <1>3 DEF HeldPages
<1> QED
  BY <1>2, <1>4, <1>5, <1>6, <1>7 DEF SafeInv
=============================================================================
