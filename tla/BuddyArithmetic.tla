--------------------------- MODULE BuddyArithmetic ---------------------------
(***************************************************************************)
(* What the address arithmetic of the buddy allocator computes, for every  *)
(* memory map: powers of two, aligned blocks, buddies, and the tower of    *)
(* blocks that the loops of disband and coalesce climb.                    *)
(***************************************************************************)
EXTENDS BuddyAllocator, NaturalsInduction, WellFoundedInduction, TLAPS

(* The order of the naturals, as the relation the library's theorem about  *)
(* minimal elements wants.                                                 *)
Below == {ss \in Nat \X Nat : ss[1] < ss[2]}

LEMMA BelowWellFounded == IsWellFoundedOn(Below, Nat)
<1>1. Below = OpToRel(<, Nat)
  BY Zenon DEF Below, OpToRel
<1> QED
  BY <1>1, NatLessThanWellFounded, Zenon

(* Every non-empty set of naturals has a least element.  This is how the   *)
(* proofs below do induction: by a least counterexample.                   *)
LEMMA LeastNatural ==
    ASSUME NEW S \in SUBSET Nat, S # {}
    PROVE  \E n \in S : \A m \in S : n <= m
<1>1. \E x \in S : \A y \in S : ~(<<y, x>> \in Below)
  BY BelowWellFounded, WFMin, Zenon
<1>2. \A x, y \in S : <<y, x>> \notin Below => x <= y
  BY DEF Below
<1> QED
  BY <1>1, <1>2

-----------------------------------------------------------------------------
(* The memory map: the highest page and the number of zones.               *)

(* Some entry counts, so get_page_count_from_mem_map finds a last one, and *)
(* no usable entry ends after it.                                          *)
LEMMA TotalPagesFact ==
    /\ TotalPages \in Nat \ {0}
    /\ \A e \in 1..Len(MemMap) :
         MemMap[e].kind = "USABLE" => MemMap[e].base + MemMap[e].length <= TotalPages
<1> DEFINE Back == {Len(MemMap) - e : e \in Counted}
<1>0. /\ Len(MemMap) \in Nat
      /\ Counted \subseteq 1..Len(MemMap)
      /\ Counted # {}
      /\ \A e \in 1..Len(MemMap) : MemMap[e] \in [base : Nat, length : Nat \ {0}, kind : Kinds]
  <2>1. MemMap \in Seq([base : Nat, length : Nat \ {0}, kind : Kinds])
    BY MemMapAssumption
  <2>2. Len(MemMap) \in Nat
    BY <2>1
  <2>3. \A e \in 1..Len(MemMap) : MemMap[e] \in [base : Nat, length : Nat \ {0}, kind : Kinds]
    <3> DEFINE R == [base : Nat, length : Nat \ {0}, kind : Kinds]
    <3>1. MemMap \in Seq(R)
      BY <2>1
    <3> HIDE DEF R
    <3>2. \A e \in 1..Len(MemMap) : MemMap[e] \in R
      BY <3>1
    <3> QED
      BY <3>2 DEF R
  <2>4. Counted \subseteq 1..Len(MemMap)
    BY DEF Counted
  <2>5. \E e \in 1..Len(MemMap) : MemMap[e].kind = "USABLE"
    BY MemMapAssumption
  <2>6. Counted # {}
    BY <2>5 DEF Counted
  <2> QED
    BY <2>2, <2>3, <2>4, <2>6
<1>1. Back \in SUBSET Nat /\ Back # {}
  <2>1. \A e \in Counted : Len(MemMap) - e \in Nat
    BY <1>0
  <2>2. PICK e \in Counted : TRUE
    BY <1>0
  <2>3. Len(MemMap) - e \in Back
    BY <2>2
  <2> QED
    BY <2>1, <2>3
<1>2. PICK n \in Back : \A m \in Back : n <= m
  BY <1>1, LeastNatural
<1>3. \E e \in Counted : \A f \in Counted : f <= e
  <2>1. PICK e \in Counted : n = Len(MemMap) - e
    OBVIOUS
  <2>2. \A f \in Counted : n <= Len(MemMap) - f
    BY <1>2
  <2> QED
    BY <2>1, <2>2, <1>0
<1> DEFINE last == CHOOSE e \in Counted : \A f \in Counted : f <= e
<1>4. last \in Counted /\ \A f \in Counted : f <= last
  BY <1>3
<1>5. TotalPages = MemMap[last].base + MemMap[last].length
  BY DEF TotalPages
<1> HIDE DEF last
<1>6. last \in 1..Len(MemMap)
  BY <1>4, <1>0
<1>7. MemMap[last].base \in Nat /\ MemMap[last].length \in Nat \ {0}
  BY <1>6, <1>0
<1>8. TotalPages \in Nat \ {0}
  BY <1>5, <1>7
<1>9. ASSUME NEW e \in 1..Len(MemMap), MemMap[e].kind = "USABLE"
      PROVE  MemMap[e].base + MemMap[e].length <= TotalPages
  <2>1. e \in Counted /\ e <= last
    BY <1>9, <1>4 DEF Counted
  <2>2. MemMap[e].base \in Nat /\ MemMap[e].length \in Nat \ {0}
    BY <1>0
  <2>3. CASE e = last
    BY <2>3, <1>5, <2>2
  <2>4. CASE e < last
    <3>1. MemMap[e].base + MemMap[e].length <= MemMap[last].base
      BY <2>4, <1>6, MemMapAssumption
    <3> QED
      BY <3>1, <2>2, <1>5, <1>7
  <2> QED
    BY <2>1, <2>3, <2>4, <1>6, <1>0
<1> QED
  BY <1>8, <1>9

(* Powers of two are positive and double. *)
LEMMA Pow ==
    ASSUME NEW i \in 0..(TotalPages + 1)
    PROVE  2^i \in Nat \ {0} /\ 2^(i + 1) = 2 * 2^i /\ 2^(i + 1) \in Nat \ {0}
<1> DEFINE Bad == {k \in 0..(TotalPages + 1) : 2^k = 0}
<1>0. TotalPages \in Nat
  BY TotalPagesFact
<1>1. \A k \in 0..(TotalPages + 1) : 2^k \in Nat /\ 2^(k + 1) = 2 * 2^k
  BY PowersOfTwo
<1>2. Bad = {}
  <2> SUFFICES ASSUME Bad # {} PROVE FALSE
    OBVIOUS
  <2>1. Bad \in SUBSET Nat
    BY <1>0
  <2>2. PICK n \in Bad : \A m \in Bad : n <= m
    BY <2>1, LeastNatural
  <2>3. n # 0
    <3>1. 2^0 = 1
      BY PowersOfTwo
    <3>2. 2^n = 0
      BY <2>2
    <3>3. n = 0 => 2^n = 1
      BY <3>1, Zenon
    <3> QED
      BY <3>2, <3>3
  <2>4. n - 1 \in 0..(TotalPages + 1) /\ (n - 1) + 1 = n
    BY <2>3, <1>0
  <2>5. 2^n = 2 * 2^(n - 1) /\ 2^(n - 1) \in Nat
    BY <2>4, <1>1
  <2>6. 2^(n - 1) = 0
    BY <2>5
  <2>7. n - 1 \in Bad
    BY <2>6, <2>4
  <2> QED
    BY <2>7, <2>2, <1>0
<1>3. 2^i # 0
  BY <1>2
<1> QED
  BY <1>1, <1>3

LEMMA PowAbove ==
    ASSUME NEW i \in 0..(TotalPages + 1)
    PROVE  i < 2^i
<1> DEFINE Bad == {k \in 0..(TotalPages + 1) : ~(k < 2^k)}
<1>0. TotalPages \in Nat
  BY TotalPagesFact
<1>1. Bad = {}
  <2> SUFFICES ASSUME Bad # {} PROVE FALSE
    OBVIOUS
  <2>1. Bad \in SUBSET Nat
    BY <1>0
  <2>2. PICK n \in Bad : \A m \in Bad : n <= m
    BY <2>1, LeastNatural
  <2>3. n # 0
    <3>1. 2^0 \in Nat \ {0} /\ 0 \in 0..(TotalPages + 1)
      BY <1>0, Pow
    <3>2. 0 < 2^0
      BY <3>1
    <3> QED
      BY <3>2, <2>2
  <2>4. n - 1 \in 0..(TotalPages + 1) /\ (n - 1) + 1 = n
    BY <2>3, <1>0
  <2>5. 2^n = 2 * 2^(n - 1) /\ 2^(n - 1) \in Nat \ {0}
    BY <2>4, Pow
  <2>6. n - 1 < 2^(n - 1)
    BY <2>4, <2>2, <1>0
  <2>7. n < 2^n
    BY <2>6, <2>5, <2>4, <1>0
  <2> QED
    BY <2>7, <2>2
<1> QED
  BY <1>1

(* ilog2 is defined on the page count, and the largest bucket size is the  *)
(* largest power of two that does not exceed it.                           *)
LEMMA ZonesLenFact ==
    /\ ZonesLen \in 1..(TotalPages + 1)
    /\ 2^(ZonesLen - 1) <= TotalPages
    /\ TotalPages < 2^ZonesLen
<1> DEFINE Over == {k \in 0..TotalPages : TotalPages < 2^(k + 1)}
<1>0. TotalPages \in Nat \ {0}
  BY TotalPagesFact
<1>1. Over \in SUBSET Nat
  BY <1>0
<1>2. TotalPages \in Over
  <2>1. TotalPages \in 0..(TotalPages + 1) /\ TotalPages + 1 \in 0..(TotalPages + 1)
    BY <1>0
  <2>2. TotalPages + 1 < 2^(TotalPages + 1) /\ 2^(TotalPages + 1) \in Nat
    BY <2>1, PowAbove, Pow
  <2> QED
    BY <2>1, <2>2, <1>0
<1>3. PICK n \in Over : \A m \in Over : n <= m
  BY <1>1, <1>2, LeastNatural
<1>4. 2^n <= TotalPages
  <2>1. CASE n = 0
    <3>1. 2^0 = 1
      BY PowersOfTwo
    <3>2. 2^n = 1
      BY <3>1, <2>1, Zenon
    <3> QED
      BY <3>2, <1>0
  <2>2. CASE n # 0
    <3>1. n - 1 \in 0..TotalPages /\ (n - 1) + 1 = n /\ n \in 0..(TotalPages + 1)
      BY <2>2, <1>3, <1>0
    <3>2. n - 1 \notin Over
      BY <1>3, <3>1
    <3>3. ~(TotalPages < 2^n) /\ 2^n \in Nat
      BY <3>2, <3>1, Pow
    <3> QED
      BY <3>3, <1>0
  <2> QED
    BY <2>1, <2>2
<1>5. \E i \in 0..TotalPages : 2^i <= TotalPages /\ TotalPages < 2^(i + 1)
  BY <1>3, <1>4
<1>6. /\ ILog2(TotalPages) \in 0..TotalPages
      /\ 2^ILog2(TotalPages) <= TotalPages
      /\ TotalPages < 2^(ILog2(TotalPages) + 1)
  BY <1>5 DEF ILog2
<1>7. ILog2(TotalPages) = ZonesLen - 1 /\ ZonesLen \in 1..(TotalPages + 1)
  BY <1>6, <1>0 DEF ZonesLen
<1>8. ZonesLen = ILog2(TotalPages) + 1
  BY DEF ZonesLen
<1> QED
  BY <1>6, <1>7, <1>8

(* The facts about sizes that the rest of the proofs use. *)
LEMMA Size ==
    ASSUME NEW i \in 0..ZonesLen
    PROVE  2^i \in Nat \ {0} /\ 2^(i + 1) \in Nat \ {0} /\ 2^(i + 1) = 2 * 2^i
<1>1. i \in 0..(TotalPages + 1)
  BY ZonesLenFact, TotalPagesFact
<1> QED
  BY <1>1, Pow

(* A smaller bucket size divides a larger one. *)
LEMMA SizeDivides ==
    ASSUME NEW i \in 0..ZonesLen, NEW j \in 0..ZonesLen, i <= j
    PROVE  \E m \in Nat \ {0} : 2^j = m * 2^i
<1> DEFINE Bad == {k \in 0..ZonesLen : i <= k /\ ~\E m \in Nat \ {0} : 2^k = m * 2^i}
<1>0. ZonesLen \in Nat
  BY ZonesLenFact, TotalPagesFact
<1>1. Bad = {}
  <2> SUFFICES ASSUME Bad # {} PROVE FALSE
    OBVIOUS
  <2>1. Bad \in SUBSET Nat
    BY <1>0
  <2>2. PICK n \in Bad : \A m \in Bad : n <= m
    BY <2>1, LeastNatural
  <2>3. n # i
    <3>1. 2^i = 1 * 2^i
      BY Size
    <3> QED
      BY <3>1, <2>2
  <2>4. n - 1 \in 0..ZonesLen /\ i <= n - 1 /\ (n - 1) + 1 = n
    BY <2>2, <2>3, <1>0
  <2>5. PICK m \in Nat \ {0} : 2^(n - 1) = m * 2^i
    <3>1. n - 1 \notin Bad
      BY <2>2, <2>4, <1>0
    <3> QED
      BY <3>1, <2>4
  <2>6. 2^n = 2 * 2^(n - 1)
    BY <2>4, Size
  <2>7. 2^n = (2 * m) * 2^i /\ 2 * m \in Nat \ {0}
    BY <2>5, <2>6, Size
  <2> QED
    BY <2>7, <2>2
<1> QED
  BY <1>1

LEMMA SizeMonotone ==
    ASSUME NEW i \in 0..ZonesLen, NEW j \in 0..ZonesLen
    PROVE  /\ i <= j => 2^i <= 2^j
           /\ i < j => 2^i < 2^j
<1>0. ZonesLen \in Nat
  BY ZonesLenFact, TotalPagesFact
<1>1. ASSUME NEW k \in 0..ZonesLen, NEW l \in 0..ZonesLen, k <= l
      PROVE  2^k <= 2^l
  <2>1. PICK m \in Nat \ {0} : 2^l = m * 2^k
    BY <1>1, SizeDivides
  <2>2. 2^k \in Nat \ {0}
    BY Size
  <2> QED
    BY <2>1, <2>2
<1>2. ASSUME i < j PROVE 2^i < 2^j
  <2>1. i + 1 \in 0..ZonesLen /\ i + 1 <= j
    BY <1>2, <1>0
  <2>2. 2^(i + 1) <= 2^j
    BY <2>1, <1>1
  <2>3. 2^(i + 1) = 2 * 2^i /\ 2^i \in Nat \ {0} /\ 2^j \in Nat
    BY Size
  <2> QED
    BY <2>2, <2>3
<1> QED
  BY <1>1, <1>2

(* A request is rounded up to the next power of two. *)
LEMMA OrderFact ==
    ASSUME NEW n \in Nat \ {0}, n <= 2^ZonesLen
    PROVE  Order(n) \in 0..ZonesLen /\ n <= 2^Order(n) /\ \A j \in 0..(Order(n) - 1) : 2^j < n
<1> DEFINE Fit == {k \in 0..ZonesLen : n <= 2^k}
<1>0. ZonesLen \in Nat
  BY ZonesLenFact, TotalPagesFact
<1>1. Fit \in SUBSET Nat /\ ZonesLen \in Fit
  BY <1>0
<1>2. PICK k \in Fit : \A m \in Fit : k <= m
  BY <1>1, LeastNatural
<1>3. \A j \in 0..(k - 1) : 2^j < n
  <2> TAKE j \in 0..(k - 1)
  <2>1. j \in 0..ZonesLen /\ j < k
    BY <1>2, <1>0
  <2>2. j \notin Fit
    BY <2>1, <1>2, <1>0
  <2>3. 2^j \in Nat
    BY <2>1, Size
  <2> QED
    BY <2>1, <2>2, <2>3
<1>4. \E i \in 0..ZonesLen : n <= 2^i /\ \A j \in 0..(i - 1) : 2^j < n
  BY <1>2, <1>3
<1> QED
  BY <1>4 DEF Order

LEMMA OrderOfSize ==
    ASSUME NEW i \in 0..ZonesLen
    PROVE  Order(2^i) = i
<1>0. ZonesLen \in Nat /\ 2^i \in Nat \ {0} /\ 2^i <= 2^ZonesLen
  <2>1. ZonesLen \in Nat
    BY ZonesLenFact, TotalPagesFact
  <2> QED
    BY <2>1, Size, SizeMonotone
<1>1. Order(2^i) \in 0..ZonesLen /\ 2^i <= 2^Order(2^i) /\ \A j \in 0..(Order(2^i) - 1) : 2^j < 2^i
  BY <1>0, OrderFact
<1> DEFINE o == Order(2^i)
<1>2. o \in 0..ZonesLen /\ 2^i <= 2^o /\ \A j \in 0..(o - 1) : 2^j < 2^i
  BY <1>1
<1> HIDE DEF o
<1>3. ~(o < i)
  <2>1. 2^o \in Nat /\ (o < i => 2^o < 2^i)
    BY <1>2, Size, SizeMonotone
  <2> QED
    BY <2>1, <1>2, <1>0
<1>4. ~(i < o)
  <2>1. i < o => i \in 0..(o - 1)
    BY <1>2, <1>0
  <2> QED
    BY <2>1, <1>2, <1>0
<1>5. o = i
  BY <1>2, <1>3, <1>4, <1>0
<1> QED
  BY <1>5 DEF o

-----------------------------------------------------------------------------
(* Aligned blocks.                                                         *)

(* An address is aligned to a size exactly when it is a multiple of it. *)
LEMMA Multiple ==
    ASSUME NEW a \in Nat, NEW s \in Nat \ {0}
    PROVE  /\ a % s = 0 => \E k \in Nat : a = k * s
           /\ \A k \in Nat : a = k * s => a % s = 0
<1>1. a = s * (a \div s) + (a % s) /\ a \div s \in Nat
  OBVIOUS
<1>2. \A k \in Nat : (k * s) % s = 0
  OBVIOUS
<1>3. a % s = 0 => a = (a \div s) * s
  BY <1>1
<1> QED
  BY <1>1, <1>2, <1>3

LEMMA DivMod ==
    ASSUME NEW a \in Nat, NEW s \in Nat \ {0}
    PROVE  a \div s \in Nat /\ a % s \in Nat /\ a % s < s /\ a = (s * (a \div s)) + (a % s)
OBVIOUS

LEMMA Remainder ==
    ASSUME NEW k \in Nat, NEW s \in Nat \ {0}, NEW r \in Nat, r < s, NEW a, a = (k * s) + r
    PROVE  a % s = r
<1>1. ((k * s) + r) % s = r
  OBVIOUS
<1> QED
  BY <1>1

LEMMA AlignedDown ==
    ASSUME NEW a \in Nat, NEW i \in 0..ZonesLen, NEW j \in 0..ZonesLen, i <= j, a % 2^j = 0
    PROVE  a % 2^i = 0
<1>1. 2^i \in Nat \ {0} /\ 2^j \in Nat \ {0}
  BY Size
<1>2. PICK m \in Nat \ {0} : 2^j = m * 2^i
  BY SizeDivides
<1>3. PICK k \in Nat : a = k * 2^j
  BY <1>1, Multiple
<1>4. a = (k * m) * 2^i /\ k * m \in Nat
  BY <1>1, <1>2, <1>3
<1> QED
  BY <1>1, <1>4, Multiple

(* Two aligned blocks that meet are nested: the smaller lies in the larger. *)
LEMMA Nested ==
    ASSUME NEW i \in 0..ZonesLen, NEW j \in 0..ZonesLen, i <= j,
           NEW a \in Nat, a % 2^i = 0, NEW b \in Nat, b % 2^j = 0,
           Block(a, i) \cap Block(b, j) # {}
    PROVE  Block(a, i) \subseteq Block(b, j)
<1> DEFINE s == 2^i
           t == 2^j
<1>1. s \in Nat \ {0} /\ t \in Nat \ {0}
  BY Size
<1>2. PICK m \in Nat \ {0} : t = m * s
  BY SizeDivides
<1>3. PICK x \in Nat : a = x * s
  BY <1>1, Multiple
<1>4. PICK y \in Nat : b = y * t
  BY <1>1, Multiple
<1>5. PICK p \in Nat : a <= p /\ p <= a + s - 1 /\ b <= p /\ p <= b + t - 1
  BY <1>1 DEF Block
<1>6. Block(a, i) = a..(a + s - 1) /\ Block(b, j) = b..(b + t - 1)
  BY DEF Block
<1> HIDE DEF s, t
<1> DEFINE z == y * m
<1>7. z \in Nat /\ b = z * s /\ b + t = (z + m) * s /\ a + s = (x + 1) * s
  BY <1>1, <1>2, <1>3, <1>4
<1>8. z * s < (x + 1) * s /\ x * s < (z + m) * s
  BY <1>1, <1>3, <1>5, <1>7
<1> HIDE DEF z
<1>9. z < x + 1 /\ x < z + m
  BY <1>1, <1>7, <1>8
<1>10. z * s <= x * s /\ (x + 1) * s <= (z + m) * s
  <2>1. z <= x /\ x + 1 <= z + m
    BY <1>7, <1>9
  <2> QED
    BY <2>1, <1>7, <1>1
<1>11. b <= a /\ a + s <= b + t
  BY <1>3, <1>7, <1>10
<1> QED
  BY <1>1, <1>6, <1>11

(* What get_buddy_addr returns: the other half of the block of the next    *)
(* size, and the lower of the two halves is where that block starts.       *)
LEMMA BuddyFact ==
    ASSUME NEW i \in 0..ZonesLen, NEW a \in Nat, a % 2^i = 0,
           NEW b, b = get_buddy_addr(a, i)
    PROVE  /\ b \in Nat /\ b % 2^i = 0 /\ b # a
           /\ get_buddy_addr(b, i) = a
           /\ Block(a, i) \cap Block(b, i) = {}
           /\ \E l \in Nat : /\ l % 2^(i + 1) = 0
                             /\ Block(l, i + 1) = Block(a, i) \cup Block(b, i)
<1> DEFINE s == 2^i
           t == 2^(i + 1)
<1>1. s \in Nat \ {0} /\ t \in Nat \ {0} /\ t = 2 * s
  BY Size
<1>2. PICK k \in Nat : a = k * s
  BY <1>1, Multiple
<1>3. k % 2 \in {0, 1} /\ k = 2 * (k \div 2) + (k % 2) /\ k \div 2 \in Nat
  OBVIOUS
<1> DEFINE q == k \div 2
<1>4. /\ get_buddy_addr(a, i) = IF a % t = 0 THEN a + s ELSE a - s
      /\ get_buddy_addr(b, i) = IF b % t = 0 THEN b + s ELSE b - s
      /\ Block(a, i) = a..(a + s - 1) /\ Block(b, i) = b..(b + s - 1)
      /\ \A l : Block(l, i + 1) = l..(l + t - 1)
  BY DEF get_buddy_addr, Block
<1> HIDE DEF s, t
<1>5. CASE k % 2 = 0
  <2>1. a = q * t /\ q \in Nat
    BY <1>5, <1>1, <1>2, <1>3
  <2>2. a % t = 0
    BY <2>1, <1>1, Multiple
  <2>3. b = a + s
    BY <2>2, <1>4
  <2>4. b = (k + 1) * s
    BY <2>3, <1>1, <1>2
  <2>5. b \in Nat /\ b % s = 0
    <3>1. b \in Nat
      BY <2>3, <1>1
    <3> QED
      BY <3>1, <2>4, <1>1, Multiple
  <2>6. b % t = s
    <3>1. s < t
      BY <1>1
    <3> HIDE DEF q
    <3>2. b = (q * t) + s /\ q \in Nat
      BY <2>1, <2>3
    <3>3. s \in Nat /\ t \in Nat \ {0}
      BY <1>1
    <3> QED
      BY <3>1, <3>2, <3>3, Remainder
  <2>7. get_buddy_addr(b, i) = a
    BY <2>6, <2>3, <1>1, <1>4
  <2>8. (a..(a + s - 1)) \cap (b..(b + s - 1)) = {}
    BY <2>3, <1>1
  <2>9. a..(a + t - 1) = (a..(a + s - 1)) \cup (b..(b + s - 1))
    BY <2>3, <1>1
  <2> QED
    BY <2>2, <2>3, <2>5, <2>7, <2>8, <2>9, <1>1, <1>4 DEF s, t
<1>6. CASE k % 2 = 1
  <2>1. a = (q * t) + s /\ q \in Nat
    BY <1>6, <1>1, <1>2, <1>3
  <2>2. a % t = s
    <3>1. s < t
      BY <1>1
    <3> HIDE DEF q
    <3> QED
      BY <3>1, <1>1, <2>1, Remainder
  <2>3. b = a - s
    BY <2>2, <1>1, <1>4
  <2>4. b = q * t
    <3> HIDE DEF q
    <3> QED
      BY <2>1, <2>3, <1>1
  <2>5. b = (2 * q) * s /\ b \in Nat
    <3> HIDE DEF q
    <3> QED
      BY <2>1, <2>4, <1>1
  <2>6. b % s = 0
    <3>1. 2 * q \in Nat
      BY <2>1
    <3> HIDE DEF q
    <3> QED
      BY <3>1, <2>5, <1>1, Multiple
  <2>7. b % t = 0
    BY <2>1, <2>4, <2>5, <1>1, Multiple
  <2>8. get_buddy_addr(b, i) = a
    BY <2>3, <2>5, <2>7, <1>1, <1>4
  <2>9. (a..(a + s - 1)) \cap (b..(b + s - 1)) = {}
    BY <2>3, <2>5, <1>1
  <2>10. b..(b + t - 1) = (a..(a + s - 1)) \cup (b..(b + s - 1))
    BY <2>3, <2>5, <1>1
  <2>11. b # a
    BY <2>3, <1>1
  <2> QED
    BY <2>5, <2>6, <2>7, <2>8, <2>9, <2>10, <2>11, <1>4 DEF s, t
<1> QED
  BY <1>3, <1>5, <1>6

(* addr_at rounds down to the start of the aligned block around addr... *)
LEMMA AddrAtFact ==
    ASSUME NEW i \in 0..ZonesLen, NEW a \in Nat
    PROVE  /\ addr_at(a, i) \in Nat
           /\ addr_at(a, i) % 2^i = 0
           /\ a \in Block(addr_at(a, i), i)
<1> DEFINE s == 2^i
           q == a \div s
           r == a % s
<1>1. s \in Nat \ {0}
  BY Size
<1>2. r \in Nat /\ r < s /\ q \in Nat /\ a = (s * q) + r
  BY <1>1, DivMod
<1>3. addr_at(a, i) = a - r /\ Block(addr_at(a, i), i) = (a - r)..((a - r) + s - 1)
  BY DEF addr_at, Block
<1> HIDE DEF s, q, r
<1>4. a - r = q * s /\ a - r \in Nat
  BY <1>1, <1>2
<1>5. (a - r) % s = 0
  BY <1>1, <1>2, <1>4, Multiple
<1>6. a \in (a - r)..((a - r) + s - 1)
  BY <1>1, <1>2
<1> QED
  BY <1>3, <1>4, <1>5, <1>6 DEF s

(* ... and that block is the only one around addr. *)
LEMMA AddrAtUnique ==
    ASSUME NEW i \in 0..ZonesLen, NEW a \in Nat, NEW b \in Nat, b % 2^i = 0,
           a \in Block(b, i)
    PROVE  b = addr_at(a, i)
<1> DEFINE s == 2^i
           r == a - b
<1>1. s \in Nat \ {0}
  BY Size
<1>2. PICK k \in Nat : b = k * s
  BY <1>1, Multiple
<1>3. r \in Nat /\ r < s
  BY <1>1 DEF Block
<1>4. a = (k * s) + r
  BY <1>2, <1>3, <1>1
<1>5. addr_at(a, i) = a - (a % s)
  BY DEF addr_at
<1> HIDE DEF s, r
<1>6. a % s = r
  BY <1>1, <1>2, <1>3, <1>4, Remainder
<1> QED
  BY <1>5, <1>6, <1>4, <1>2, <1>3, <1>1

-----------------------------------------------------------------------------
(* The tower of aligned blocks around one address.                         *)

(* The blocks that the loops of disband and coalesce work with at zone i:  *)
(* the one around addr and the one of its buddy.                           *)
Around(a, i) == Block(addr_at(a, i), i)
Beside(a, i) == Block(buddy_at(a, i), i)

(* One iteration of the loops: the block of the next zone is the two       *)
(* halves.                                                                 *)
LEMMA TowerStep ==
    ASSUME NEW a \in Nat, NEW i \in Levels
    PROVE  /\ Around(a, i + 1) = Around(a, i) \cup Beside(a, i)
           /\ Around(a, i) \cap Beside(a, i) = {}
           /\ buddy_at(a, i) \in Nat /\ buddy_at(a, i) % 2^i = 0
           /\ buddy_at(a, i) # addr_at(a, i)
           /\ get_buddy_addr(buddy_at(a, i), i) = addr_at(a, i)
<1>0. ZonesLen \in Nat /\ i \in 0..ZonesLen /\ i + 1 \in 0..ZonesLen
  BY ZonesLenFact, TotalPagesFact DEF Levels
<1> DEFINE x == addr_at(a, i)
           b == buddy_at(a, i)
<1>1. x \in Nat /\ x % 2^i = 0 /\ a \in Block(x, i)
  BY <1>0, AddrAtFact
<1>2. b = get_buddy_addr(x, i)
  BY DEF buddy_at
<1>3. Around(a, i) = Block(x, i) /\ Beside(a, i) = Block(b, i)
  BY DEF Around, Beside
<1> HIDE DEF x, b
<1>4. /\ b \in Nat /\ b % 2^i = 0 /\ b # x
      /\ get_buddy_addr(b, i) = x
      /\ Block(x, i) \cap Block(b, i) = {}
      /\ \E l \in Nat : /\ l % 2^(i + 1) = 0
                        /\ Block(l, i + 1) = Block(x, i) \cup Block(b, i)
  BY <1>0, <1>1, <1>2, BuddyFact
<1>5. PICK l \in Nat : /\ l % 2^(i + 1) = 0
                       /\ Block(l, i + 1) = Block(x, i) \cup Block(b, i)
  BY <1>4
<1>6. l = addr_at(a, i + 1)
  BY <1>0, <1>1, <1>5, AddrAtUnique
<1> QED
  BY <1>3, <1>4, <1>5, <1>6 DEF Around, x, b

LEMMA TowerGrows ==
    ASSUME NEW a \in Nat, NEW i \in 0..ZonesLen, NEW j \in 0..ZonesLen, i <= j
    PROVE  Around(a, i) \subseteq Around(a, j)
<1> DEFINE Bad == {k \in 0..ZonesLen : i <= k /\ ~(Around(a, i) \subseteq Around(a, k))}
<1>0. ZonesLen \in Nat
  BY ZonesLenFact, TotalPagesFact
<1>1. Bad = {}
  <2> SUFFICES ASSUME Bad # {} PROVE FALSE
    OBVIOUS
  <2>1. Bad \in SUBSET Nat
    BY <1>0
  <2>2. PICK n \in Bad : \A m \in Bad : n <= m
    BY <2>1, LeastNatural
  <2>3. n # i
    BY <2>2
  <2>4. n - 1 \in Levels /\ n - 1 \in 0..ZonesLen /\ i <= n - 1 /\ (n - 1) + 1 = n
    BY <2>2, <2>3, <1>0 DEF Levels
  <2>5. Around(a, i) \subseteq Around(a, n - 1)
    BY <2>2, <2>4, <1>0
  <2>6. Around(a, n - 1) \subseteq Around(a, (n - 1) + 1)
    BY <2>4, TowerStep
  <2> QED
    BY <2>2, <2>4, <2>5, <2>6
<1> QED
  BY <1>1

(* disband and coalesce leave no page out: what lies in the block of zone  *)
(* j but not in the one of zone i lies in the buddy of a zone in between.  *)
LEMMA TowerCover ==
    ASSUME NEW a \in Nat, NEW i \in 0..ZonesLen, NEW j \in 0..ZonesLen, i <= j,
           NEW p \in Around(a, j), p \notin Around(a, i)
    PROVE  \E k \in i..(j - 1) : p \in Beside(a, k)
<1> DEFINE In == {k \in i..j : p \in Around(a, k)}
<1>0. ZonesLen \in Nat
  BY ZonesLenFact, TotalPagesFact
<1>1. In \in SUBSET Nat /\ j \in In
  BY <1>0
<1>2. PICK n \in In : \A m \in In : n <= m
  BY <1>1, LeastNatural
<1>3. n # i
  BY <1>2
<1>4. n - 1 \in Levels /\ n - 1 \in i..(j - 1) /\ n - 1 \in i..j /\ (n - 1) + 1 = n
  BY <1>2, <1>3, <1>0 DEF Levels
<1>5. p \notin Around(a, n - 1)
  BY <1>2, <1>4, <1>0
<1>6. Around(a, (n - 1) + 1) = Around(a, n - 1) \cup Beside(a, n - 1)
  BY <1>4, TowerStep
<1> QED
  BY <1>2, <1>4, <1>5, <1>6

(* The buddies of different zones do not meet, nor do they meet the block  *)
(* the loop started from.                                                  *)
LEMMA TowerDisjoint ==
    ASSUME NEW a \in Nat, NEW i \in Levels, NEW j \in Levels, i <= j
    PROVE  /\ Beside(a, j) \cap Around(a, i) = {}
           /\ i # j => Beside(a, j) \cap Beside(a, i) = {}
           /\ i # j => Beside(a, i) \subseteq Around(a, j)
<1>0. ZonesLen \in Nat /\ i \in 0..ZonesLen /\ j \in 0..ZonesLen /\ i + 1 \in 0..ZonesLen
  BY ZonesLenFact, TotalPagesFact DEF Levels
<1>1. Beside(a, j) \cap Around(a, j) = {}
  BY TowerStep
<1>2. Around(a, i) \subseteq Around(a, j)
  BY <1>0, TowerGrows
<1>3. ASSUME i # j
      PROVE  Beside(a, i) \subseteq Around(a, j)
  <2>1. i + 1 <= j
    BY <1>3, <1>0
  <2>2. Around(a, i + 1) \subseteq Around(a, j)
    BY <2>1, <1>0, TowerGrows
  <2>3. Beside(a, i) \subseteq Around(a, i + 1)
    BY TowerStep
  <2> QED
    BY <2>2, <2>3
<1> QED
  BY <1>1, <1>2, <1>3
=============================================================================
