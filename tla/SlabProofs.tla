----------------------------- MODULE SlabProofs -----------------------------
(***************************************************************************)
(* For every page size, every list of classes, every set of pages and all  *)
(* layouts: the heap neither loses nor doubles an object or a page, the    *)
(* slab's node never overlaps an object, and legal frees succeed.          *)
(***************************************************************************)
EXTENDS SlabAllocator, FiniteSetTheorems, SequenceTheorems, TLAPS

(* The order of the naturals, for the library's theorem on least elements. *)
Below == {ss \in Nat \X Nat : ss[1] < ss[2]}

(* What Min returns for the positions that allocate and reap look for. *)
LEMMA MinIsLeast ==
    ASSUME NEW S \in SUBSET Nat, S # {}
    PROVE  Min(S) \in S /\ \A m \in S : Min(S) <= m
<1>1. IsWellFoundedOn(Below, Nat)
  <2>1. Below = OpToRel(<, Nat)
    BY Zenon DEF Below, OpToRel
  <2> QED BY <2>1, NatLessThanWellFounded, Zenon
<1>2. \E x \in S : \A y \in S : ~(<<y, x>> \in Below)
  BY <1>1, WFMin, Zenon
<1>3. \A x, y \in S : <<y, x>> \notin Below => x <= y
  BY DEF Below
<1>4. \E x \in S : \A y \in S : x <= y
  BY <1>2, <1>3
<1> QED BY <1>4 DEF Min
-----------------------------------------------------------------------------
(* Sizes.                                                                  *)

(* A class's size is a positive number.                                    *)
LEMMA ClassFacts ==
    ASSUME NEW c \in Class
    PROVE  Classes[c] \in Nat \ {0}
BY SizesAssumption DEF Class

(* The number of objects in a slab, and the bytes that are theirs. *)
LEMMA ObjectCountFacts ==
    ASSUME NEW c \in Class
    PROVE  /\ ObjectCount(c) \in Nat
           /\ ObjectCount(c) <= PageSize
           /\ \E q \in Nat : /\ q * NodeAlign + NodeSize <= PageSize
                             /\ ObjectCount(c) * Classes[c] <= q * NodeAlign
<1> DEFINE available == PageSize - NodeSize
           q == available \div NodeAlign
<1>1. available \in Nat /\ NodeAlign \in Nat \ {0} /\ PageSize \in Nat /\ NodeSize \in Nat \ {0}
  BY SizesAssumption
<1>2. Classes[c] \in Nat \ {0}
  BY ClassFacts
<1>3. \A a \in Nat, k \in Nat \ {0} : a \div k \in Nat /\ a - (a % k) = (a \div k) * k /\ a % k \in Nat
  OBVIOUS
<1>4. q \in Nat /\ available - (available % NodeAlign) = q * NodeAlign /\ q * NodeAlign <= available
  <2>1. available % NodeAlign \in Nat
    BY <1>1, <1>3
  <2>2. q \in Nat /\ available - (available % NodeAlign) = q * NodeAlign
    BY <1>1, <1>3
  <2> QED BY <2>1, <2>2, <1>1
<1>5. ObjectCount(c) = (q * NodeAlign) \div Classes[c]
  BY <1>4 DEF ObjectCount
<1> HIDE DEF q
<1> DEFINE room == q * NodeAlign
<1>6. room \in Nat
  BY <1>4, <1>1
<1> HIDE DEF room
<1>7. \A a \in Nat, k \in Nat \ {0} : (a \div k) * k <= a /\ a \div k <= a
  OBVIOUS
<1>8. ObjectCount(c) \in Nat /\ ObjectCount(c) * Classes[c] <= room /\ ObjectCount(c) <= room
  BY <1>2, <1>3, <1>5, <1>6, <1>7 DEF room
<1>9. room + NodeSize <= PageSize
  BY <1>4, <1>1 DEF room
<1> QED BY <1>1, <1>4, <1>6, <1>8, <1>9 DEF room

(* Rounding up does not pass a multiple that is not below. *)
LEMMA AlignUpFacts ==
    ASSUME NEW v \in Nat, NEW a \in Nat \ {0}
    PROVE  /\ align_up(v, a) >= v
           /\ \A q \in Nat : v <= q * a => align_up(v, a) <= q * a
<1> DEFINE n == (v + (a - 1)) \div a
<1>1. n \in Nat /\ n * a <= v + (a - 1) /\ v + (a - 1) < n * a + a
  OBVIOUS
<1>2. align_up(v, a) = n * a
  BY DEF align_up
<1> HIDE DEF n
<1>3. n * a >= v
  BY <1>1
<1>4. ASSUME NEW q \in Nat, v <= q * a
      PROVE  n * a <= q * a
  <2>1. n * a < (q + 1) * a
    BY <1>1, <1>4
  <2>2. n < q + 1
    BY <2>1, <1>1
  <2> QED BY <2>2, <1>1
<1> QED BY <1>2, <1>3, <1>4

(* A slab's objects lie in front of its node, and the node in the page. *)
LEMMA LayoutFacts ==
    ASSUME NEW c \in Class
    PROVE  /\ MetadataOffset(c) + NodeSize <= PageSize
           /\ \A i \in Nat : i < ObjectCount(c) => (i + 1) * Classes[c] <= MetadataOffset(c)
<1>1. /\ PageSize \in Nat /\ NodeSize \in Nat /\ NodeAlign \in Nat \ {0}
      /\ Classes[c] \in Nat \ {0} /\ ObjectCount(c) \in Nat
  BY SizesAssumption, ClassFacts, ObjectCountFacts
<1> DEFINE used == ObjectCount(c) * Classes[c]
<1>2. PICK q \in Nat : q * NodeAlign + NodeSize <= PageSize /\ used <= q * NodeAlign
  BY ObjectCountFacts
<1>3. used \in Nat
  BY <1>1
<1>4. MetadataOffset(c) = align_up(used, NodeAlign)
  BY DEF MetadataOffset
<1>5. ASSUME NEW i \in Nat, i < ObjectCount(c)
      PROVE  (i + 1) * Classes[c] <= used
  BY <1>1, <1>5
<1> HIDE DEF used
<1>6. align_up(used, NodeAlign) >= used /\ align_up(used, NodeAlign) <= q * NodeAlign
  BY <1>1, <1>2, <1>3, AlignUpFacts
<1>7. align_up(used, NodeAlign) \in Int
  BY <1>1, <1>3 DEF align_up
<1>8. q * NodeAlign \in Int
  BY <1>1
<1> QED BY <1>1, <1>2, <1>3, <1>4, <1>5, <1>6, <1>7, <1>8
-----------------------------------------------------------------------------
(* Sequences: the list of slabs and the stack of free objects.             *)

(* The range of a list, and where its members are.                         *)
LEMMA RangeFacts ==
    ASSUME NEW S, NEW s \in Seq(S)
    PROVE  /\ \A x : x \in Range(s) <=> \E i \in 1..Len(s) : x = s[i]
           /\ Range(s) \subseteq S
           /\ DOMAIN s = 1..Len(s) /\ Len(s) \in Nat
BY DEF Range

(* Pop of a stack. *)
LEMMA TailFacts ==
    ASSUME NEW S, NEW s \in Seq(S), s # << >>, IsInjective(s)
    PROVE  /\ Tail(s) \in Seq(S) /\ IsInjective(Tail(s))
           /\ Head(s) \in Range(s) /\ Range(Tail(s)) = Range(s) \ {Head(s)}
<1> DEFINE t == Tail(s)
<1>1. /\ t \in Seq(S) /\ Len(t) = Len(s) - 1
      /\ \A i \in 1..Len(t) : t[i] = s[i + 1]
  BY HeadTailProperties
<1>2. Len(s) \in Nat \ {0} /\ Head(s) = s[1]
  OBVIOUS
<1> HIDE DEF t
<1>3. DOMAIN s = 1..Len(s) /\ DOMAIN t = 1..Len(t) /\ Len(t) \in Nat
  BY <1>1
<1>4. \A i, j \in 1..Len(s) : s[i] = s[j] => i = j
  BY <1>3 DEF IsInjective
<1>5. \A i \in 1..Len(t) : i \in Nat /\ i + 1 \in 1..Len(s) /\ i + 1 # 1
  BY <1>1, <1>2, <1>3
<1>6. IsInjective(t)
  <2>1. ASSUME NEW i \in 1..Len(t), NEW j \in 1..Len(t), t[i] = t[j]
        PROVE  i = j
    <3>1. s[i + 1] = s[j + 1]
      BY <2>1, <1>1
    <3>2. i + 1 = j + 1
      BY <3>1, <1>4, <1>5
    <3> QED BY <3>2, <1>5
  <2> QED BY <2>1, <1>3 DEF IsInjective
<1>7. Range(t) = Range(s) \ {s[1]}
  <2>1. ASSUME NEW x \in Range(t)
        PROVE  x \in Range(s) \ {s[1]}
    <3>1. PICK i \in 1..Len(t) : x = t[i]
      BY <1>1, RangeFacts
    <3>2. x = s[i + 1] /\ i + 1 \in 1..Len(s) /\ i + 1 # 1
      BY <3>1, <1>1, <1>5
    <3> QED BY <3>2, <1>2, <1>4, RangeFacts
  <2>2. ASSUME NEW x \in Range(s) \ {s[1]}
        PROVE  x \in Range(t)
    <3>1. PICK i \in 1..Len(s) : x = s[i]
      BY RangeFacts
    <3>2. i - 1 \in 1..Len(t) /\ (i - 1) + 1 = i
      BY <3>1, <2>2, <1>1, <1>2
    <3>3. x = t[i - 1]
      BY <3>1, <3>2, <1>1
    <3> QED BY <3>2, <3>3, <1>1, RangeFacts
  <2> QED BY <2>1, <2>2
<1>8. s[1] \in Range(s)
  BY <1>2, RangeFacts
<1> QED BY <1>1, <1>2, <1>6, <1>7, <1>8 DEF t

(* Push on a stack. *)
LEMMA PushFacts ==
    ASSUME NEW S, NEW s \in Seq(S), NEW x \in S, x \notin Range(s), IsInjective(s)
    PROVE  /\ <<x>> \o s \in Seq(S) /\ IsInjective(<<x>> \o s)
           /\ Range(<<x>> \o s) = Range(s) \cup {x}
<1> DEFINE t == <<x>> \o s
<1>1. /\ t \in Seq(S) /\ Len(t) = Len(s) + 1
      /\ \A i \in 1..Len(t) : t[i] = IF i = 1 THEN x ELSE s[i - 1]
  OBVIOUS
<1> HIDE DEF t
<1>2. DOMAIN s = 1..Len(s) /\ DOMAIN t = 1..Len(t) /\ Len(s) \in Nat
  BY <1>1
<1>3. \A i \in 1..Len(s) : s[i] # x
  BY RangeFacts
<1>4. IsInjective(t)
  <2>1. ASSUME NEW i \in 1..Len(t), NEW j \in 1..Len(t), t[i] = t[j]
        PROVE  i = j
    <3>1. i \in Nat /\ j \in Nat /\ (i # 1 => i - 1 \in 1..Len(s)) /\ (j # 1 => j - 1 \in 1..Len(s))
      BY <1>1, <1>2
    <3>2. CASE i = 1 \/ j = 1
      BY <3>1, <3>2, <2>1, <1>1, <1>3
    <3>3. CASE i # 1 /\ j # 1
      <4>1. s[i - 1] = s[j - 1]
        BY <3>3, <2>1, <1>1
      <4>2. i - 1 = j - 1
        BY <4>1, <3>1, <3>3, <1>2 DEF IsInjective
      <4> QED BY <4>2, <3>1
    <3> QED BY <3>2, <3>3
  <2> QED BY <2>1, <1>2 DEF IsInjective
<1>5. Range(t) = Range(s) \cup {x}
  <2>1. ASSUME NEW y \in Range(t)
        PROVE  y \in Range(s) \cup {x}
    <3>1. PICK i \in 1..Len(t) : y = t[i]
      BY <1>1, RangeFacts
    <3>2. i # 1 => i - 1 \in 1..Len(s)
      BY <1>1, <1>2
    <3> QED BY <3>1, <3>2, <1>1, RangeFacts
  <2>2. ASSUME NEW y \in Range(s)
        PROVE  y \in Range(t)
    <3>1. PICK i \in 1..Len(s) : y = s[i]
      BY RangeFacts
    <3>2. i + 1 \in 1..Len(t) /\ i + 1 # 1 /\ (i + 1) - 1 = i
      BY <1>1, <1>2
    <3>3. y = t[i + 1]
      BY <3>1, <3>2, <1>1
    <3> QED BY <3>2, <3>3, <1>1, RangeFacts
  <2>3. x \in Range(t)
    <3>1. 1 \in 1..Len(t) /\ x = t[1]
      BY <1>1, <1>2
    <3> QED BY <3>1, <1>1, RangeFacts
  <2> QED BY <2>1, <2>2, <2>3
<1> QED BY <1>1, <1>4, <1>5 DEF t

(* push_node_back on the list of slabs. *)
LEMMA AppendFacts ==
    ASSUME NEW S, NEW s \in Seq(S), NEW x \in S, x \notin Range(s), IsInjective(s)
    PROVE  /\ Append(s, x) \in Seq(S) /\ IsInjective(Append(s, x))
           /\ Range(Append(s, x)) = Range(s) \cup {x}
<1> DEFINE t == Append(s, x)
<1>1. /\ t \in Seq(S) /\ Len(t) = Len(s) + 1
      /\ \A i \in 1..Len(s) : t[i] = s[i]
      /\ t[Len(s) + 1] = x
  OBVIOUS
<1> HIDE DEF t
<1>2. DOMAIN s = 1..Len(s) /\ DOMAIN t = 1..Len(t) /\ Len(s) \in Nat
  BY <1>1
<1>3. \A i \in 1..Len(s) : s[i] # x
  BY RangeFacts
<1>4. \A i \in 1..Len(t) : i \in 1..Len(s) \/ i = Len(s) + 1
  BY <1>1, <1>2
<1>5. \A i \in 1..Len(s) : i \in 1..Len(t)
  BY <1>1, <1>2
<1>6. IsInjective(t)
  <2>1. ASSUME NEW i \in 1..Len(t), NEW j \in 1..Len(t), t[i] = t[j]
        PROVE  i = j
    <3>1. CASE i = Len(s) + 1 \/ j = Len(s) + 1
      BY <3>1, <2>1, <1>1, <1>3, <1>4
    <3>2. CASE i \in 1..Len(s) /\ j \in 1..Len(s)
      BY <3>2, <2>1, <1>1, <1>2 DEF IsInjective
    <3> QED BY <3>1, <3>2, <1>4
  <2> QED BY <2>1, <1>2 DEF IsInjective
<1>7. Range(t) = Range(s) \cup {x}
  <2>1. \A y : y \in Range(t) <=> \E i \in 1..Len(t) : y = t[i]
    BY <1>1, RangeFacts
  <2>2. \A y : y \in Range(s) <=> \E i \in 1..Len(s) : y = s[i]
    BY RangeFacts
  <2>3. Len(s) + 1 \in 1..Len(t)
    BY <1>1, <1>2
  <2>4. \A y : y \in Range(t) <=> y \in Range(s) \/ y = x
    BY <2>1, <2>2, <2>3, <1>1, <1>4, <1>5
  <2> QED BY <2>4
<1> QED BY <1>1, <1>6, <1>7 DEF t

(* Taking n slabs off the front of the list. *)
LEMMA DropFacts ==
    ASSUME NEW S, NEW s \in Seq(S), NEW n \in 0..Len(s), IsInjective(s)
    PROVE  LET front == SubSeq(s, 1, n)
               rest  == SubSeq(s, n + 1, Len(s))
           IN  /\ rest \in Seq(S) /\ IsInjective(rest)
               /\ Range(front) \cup Range(rest) = Range(s)
               /\ Range(front) \cap Range(rest) = {}
               /\ \A x \in Range(front) : \E i \in 1..n : x = s[i]
<1> DEFINE front == SubSeq(s, 1, n)
           rest  == SubSeq(s, n + 1, Len(s))
<1>0. Len(s) \in Nat /\ n \in Nat /\ n <= Len(s) /\ DOMAIN s = 1..Len(s)
  OBVIOUS
<1>1. front \in Seq(S) /\ Len(front) = n /\ \A i \in 1..n : front[i] = s[i]
  BY <1>0
<1>2. /\ rest \in Seq(S) /\ Len(rest) = Len(s) - n
      /\ \A i \in 1..(Len(s) - n) : rest[i] = s[n + i]
  <2>1. n + 1 \in Int /\ Len(s) \in Int /\ \A i \in (n + 1)..Len(s) : s[i] \in S
    BY <1>0
  <2>2. /\ rest \in Seq(S)
        /\ Len(rest) = IF n + 1 <= Len(s) THEN Len(s) - (n + 1) + 1 ELSE 0
        /\ \A i \in 1..(Len(s) - (n + 1) + 1) : rest[i] = s[(n + 1) + i - 1]
    BY <2>1, SubSeqProperties
  <2>3. \A l, k \in Nat : /\ k <= l => (IF k + 1 <= l THEN l - (k + 1) + 1 ELSE 0) = l - k
                          /\ l - (k + 1) + 1 = l - k
    OBVIOUS
  <2>4. Len(rest) = Len(s) - n /\ Len(s) - (n + 1) + 1 = Len(s) - n
    BY <2>2, <2>3, <1>0, Zenon
  <2>5. ASSUME NEW i \in 1..(Len(s) - n)
        PROVE  rest[i] = s[n + i]
    <3>1. (n + 1) + i - 1 = n + i
      BY <1>0
    <3>2. rest[i] = s[(n + 1) + i - 1]
      BY <2>2, <2>4, Zenon
    <3> QED BY <3>1, <3>2, Zenon
  <2> QED BY <2>2, <2>4, <2>5
<1> HIDE DEF front, rest
<1>3. \A i, j \in 1..Len(s) : s[i] = s[j] => i = j
  BY <1>0 DEF IsInjective
<1>4. \A x : x \in Range(front) <=> \E i \in 1..n : x = s[i]
  BY <1>1, RangeFacts
<1>5. \A x : x \in Range(rest) <=> \E i \in (n + 1)..Len(s) : x = s[i]
  <2>1. \A x : x \in Range(rest) <=> \E i \in 1..(Len(s) - n) : x = rest[i]
    BY <1>2, RangeFacts
  <2>2. ASSUME NEW x, NEW i \in 1..(Len(s) - n), x = rest[i]
        PROVE  \E j \in (n + 1)..Len(s) : x = s[j]
    <3>1. n + i \in (n + 1)..Len(s)
      BY <1>0
    <3> QED BY <3>1, <2>2, <1>2
  <2>3. ASSUME NEW x, NEW j \in (n + 1)..Len(s), x = s[j]
        PROVE  \E i \in 1..(Len(s) - n) : x = rest[i]
    <3>1. j - n \in 1..(Len(s) - n) /\ n + (j - n) = j
      BY <1>0
    <3> QED BY <3>1, <2>3, <1>2
  <2> QED BY <2>1, <2>2, <2>3
<1>6. \A x : x \in Range(s) <=> \E i \in 1..Len(s) : x = s[i]
  BY RangeFacts
<1>7. /\ \A i \in 1..n : i \in 1..Len(s) /\ i \notin (n + 1)..Len(s)
      /\ \A i \in (n + 1)..Len(s) : i \in 1..Len(s)
      /\ \A i \in 1..Len(s) : i \in 1..n \/ i \in (n + 1)..Len(s)
  BY <1>0
<1>8. Range(front) \cup Range(rest) = Range(s)
  <2>1. \A x : x \in Range(front) \/ x \in Range(rest) <=> x \in Range(s)
    BY <1>4, <1>5, <1>6, <1>7
  <2> QED BY <2>1
<1>9. Range(front) \cap Range(rest) = {}
  <2>1. \A x : ~(x \in Range(front) /\ x \in Range(rest))
    BY <1>3, <1>4, <1>5, <1>7
  <2> QED BY <2>1
<1>10. IsInjective(rest)
  <2>1. ASSUME NEW i \in 1..(Len(s) - n), NEW j \in 1..(Len(s) - n), rest[i] = rest[j]
        PROVE  i = j
    <3>1. n + i \in 1..Len(s) /\ n + j \in 1..Len(s) /\ i \in Nat /\ j \in Nat
      BY <1>0
    <3>2. n + i = n + j
      BY <3>1, <2>1, <1>2, <1>3
    <3> QED BY <3>1, <3>2, <1>0
  <2>2. DOMAIN rest = 1..(Len(s) - n)
    BY <1>2
  <2> QED BY <2>1, <2>2 DEF IsInjective
<1> QED BY <1>2, <1>4, <1>8, <1>9, <1>10 DEF front, rest

(* The stack of a new slab has every object once. *)
LEMMA NewStackFacts ==
    ASSUME NEW c \in Class, ObjectCount(c) > 0
    PROVE  /\ NewStack(c) \in Seq(Nat) /\ NewStack(c) # << >> /\ IsInjective(NewStack(c))
           /\ Range(NewStack(c)) = 0..(ObjectCount(c) - 1)
<1> DEFINE n == ObjectCount(c)
           s == NewStack(c)
<1>1. n \in Nat \ {0}
  BY ObjectCountFacts
<1>2. s = [i \in 1..n |-> n - i]
  BY DEF NewStack
<1> HIDE DEF n, s
<1>3. s \in Seq(Nat) /\ Len(s) = n /\ DOMAIN s = 1..n /\ \A i \in 1..n : s[i] = n - i
  <2>1. s \in [1..n -> Nat]
    BY <1>1, <1>2
  <2> QED BY <2>1, <1>1, <1>2
<1>4. s # << >>
  BY <1>1, <1>3
<1>5. IsInjective(s)
  <2>1. ASSUME NEW i \in 1..n, NEW j \in 1..n, s[i] = s[j]
        PROVE  i = j
    <3>1. n - i = n - j /\ i \in Nat /\ j \in Nat
      BY <2>1, <1>1, <1>3
    <3> QED BY <3>1, <1>1
  <2> QED BY <2>1, <1>3 DEF IsInjective
<1>6. Range(s) = 0..(n - 1)
  <2>1. \A x : x \in Range(s) <=> \E i \in 1..n : x = s[i]
    BY <1>3, RangeFacts
  <2>2. ASSUME NEW x \in Range(s)
        PROVE  x \in 0..(n - 1)
    <3>1. PICK i \in 1..n : x = n - i
      BY <2>1, <1>3
    <3> QED BY <3>1, <1>1
  <2>3. ASSUME NEW x \in 0..(n - 1)
        PROVE  x \in Range(s)
    <3>1. n - x \in 1..n /\ n - (n - x) = x
      BY <1>1
    <3> QED BY <3>1, <2>1, <1>3
  <2> QED BY <2>2, <2>3
<1> QED BY <1>3, <1>4, <1>5, <1>6 DEF n, s
-----------------------------------------------------------------------------
(* The inductive invariant.                                                *)

Handles == [class : Class, page : Pages, index : Nat]

TypeInv ==
    /\ slabs \in [Class -> Seq(Pages)]
    /\ free_objects \in [Pages -> Seq(Nat)]
    /\ allocated_count \in [Pages -> Nat]
    /\ pool \subseteq Pages
    /\ held \subseteq Handles /\ IsFiniteSet(held)
    /\ panic \in BOOLEAN

(* The objects of page p that callers have. *)
Given(p) == {h \in held : h.page = p}
InUse(p, i) == \E h \in held : h.page = p /\ h.index = i

(* The stack of a slab of class c, if it is s, has once what nobody has. *)
Complements(s, c, p) ==
    /\ IsInjective(s)
    /\ \A i \in Nat : i \in Range(s) <=> i < ObjectCount(c) /\ ~InUse(p, i)

HeldInv == \A h \in held : h.page \in Range(slabs[h.class]) /\ h.index < ObjectCount(h.class)
StackInv == \A c \in Class : \A p \in Range(slabs[c]) : Complements(free_objects[p], c, p)
CountInv == \A p \in Pages : allocated_count[p] = Cardinality(Given(p))

(* A page that is not in use has no objects: without this a slab without   *)
(* room for an object could start with those of another class.             *)
PoolInv == \A p \in pool : free_objects[p] = << >>

ResultInv ==
    /\ result = << >> \/ result \in (0..Len(Classes)) \X Outcomes
    /\ panic => result[2] \in {"DoubleFree", "NoAllocator", "OutOfMemory"}

StateInv == TypeInv /\ PagesPartitioned /\ HeldInv /\ StackInv /\ CountInv /\ PoolInv
Inv == StateInv /\ ResultInv /\ FailureMeansNoMemory

(* A page is in the list of one class only, and then not in the pool. *)
LEMMA PageFacts ==
    ASSUME TypeInv, PagesPartitioned, NEW c \in Class, NEW p \in Range(slabs[c])
    PROVE  /\ p \in Pages /\ p \notin pool
           /\ \A d \in Class : p \in Range(slabs[d]) => d = c
<1>1. slabs[c] \in Seq(Pages)
  BY DEF TypeInv
<1>2. p \in Pages
  BY <1>1, RangeFacts
<1> QED BY <1>2 DEF PagesPartitioned

(* A call that fails changes no slab. *)
LEMMA Unchanged ==
    ASSUME StateInv, panic' \in BOOLEAN,
           UNCHANGED <<slabs, free_objects, allocated_count, pool, held>>
    PROVE  StateInv'
<1>1. TypeInv' /\ PagesPartitioned'
  BY DEF StateInv, TypeInv, PagesPartitioned
<1>2. HeldInv' /\ CountInv' /\ PoolInv'
  BY DEF StateInv, HeldInv, CountInv, PoolInv, Given
<1>3. StackInv'
  <2>1. \A p \in Pages, i \in Nat : InUse(p, i)' <=> InUse(p, i)
    BY DEF InUse
  <2>2. \A c \in Class : \A p \in Range(slabs[c]) : p \in Pages
    BY PageFacts DEF StateInv
  <2> QED BY <2>1, <2>2 DEF StateInv, StackInv, Complements
<1> QED BY <1>1, <1>2, <1>3 DEF StateInv

(* Before the first call every page is in the pool with an empty stack.    *)
LEMMA InitInv == Init => Inv
<1> SUFFICES ASSUME Init PROVE Inv
  OBVIOUS
<1> USE DEF Init
<1>1. Range(<< >>) = {}
  BY DEF Range
<1>2. \A c \in Class : slabs[c] = << >> /\ Range(slabs[c]) = {}
  BY <1>1
<1>3. TypeInv
  <2>1. IsFiniteSet(held)
    BY FS_EmptySet
  <2>2. slabs \in [Class -> Seq(Pages)] /\ free_objects \in [Pages -> Seq(Nat)]
    OBVIOUS
  <2>3. allocated_count \in [Pages -> Nat] /\ pool \subseteq Pages /\ held \subseteq Handles
    OBVIOUS
  <2> QED BY <2>1, <2>2, <2>3 DEF TypeInv
<1>4. PagesPartitioned
  <2>1. IsInjective(<< >>)
    BY DEF IsInjective
  <2>2. \A c \in Class : IsInjective(slabs[c]) /\ Range(slabs[c]) \cap pool = {}
    BY <1>2, <2>1
  <2>3. \A c, d \in Class : c # d => Range(slabs[c]) \cap Range(slabs[d]) = {}
    BY <1>2
  <2>4. pool \cup UNION {Range(slabs[c]) : c \in Class} = Pages
    BY <1>2
  <2> QED BY <2>2, <2>3, <2>4 DEF PagesPartitioned
<1>5. HeldInv /\ StackInv /\ PoolInv
  BY <1>2 DEF HeldInv, StackInv, PoolInv
<1>6. CountInv
  <2>1. \A p \in Pages : Given(p) = {}
    BY DEF Given
  <2> QED BY <2>1, FS_EmptySet DEF CountInv
<1>7. ResultInv
  BY DEF ResultInv
<1>8. FailureMeansNoMemory
  <2>1. \A c \in Class : << >> # <<c, "SlabFullInternalError">> /\ << >> # <<c, "OutOfMemory">>
    OBVIOUS
  <2> QED BY <2>1 DEF FailureMeansNoMemory, Failed
<1> QED BY <1>3, <1>4, <1>5, <1>6, <1>7, <1>8 DEF Inv, StateInv
-----------------------------------------------------------------------------
(* Taking an object.                                                       *)

(* TakeFrom moves the top of the stack to a caller and changes no other    *)
(* slab.                                                                   *)
LEMMA TakeFacts ==
    ASSUME TypeInv, CountInv,
           NEW c \in Class, NEW p \in Pages, NEW stack \in Seq(Nat), stack # << >>,
           Complements(stack, c, p),
           TakeFrom(c, p, stack, Cardinality(Given(p)))
    PROVE  /\ free_objects' \in [Pages -> Seq(Nat)]
           /\ allocated_count' \in [Pages -> Nat]
           /\ held' \subseteq Handles /\ IsFiniteSet(held')
           /\ CountInv'
           /\ Complements(free_objects[p], c, p)'
           /\ \A q \in Pages \ {p} : free_objects'[q] = free_objects[q]
           /\ \A q \in Pages \ {p}, i \in Nat : InUse(q, i)' <=> InUse(q, i)
           /\ \A h \in held' : h \in held \/ (h.class = c /\ h.page = p /\ h.index < ObjectCount(c))
           /\ result' = <<c, "Ok">>
<1> DEFINE top == Head(stack)
           new == [class |-> c, page |-> p, index |-> top]
<1>1. /\ Tail(stack) \in Seq(Nat) /\ IsInjective(Tail(stack))
      /\ top \in Range(stack) /\ Range(Tail(stack)) = Range(stack) \ {top}
  BY TailFacts DEF Complements
<1>2. top \in Nat
  BY <1>1, RangeFacts
<1>3. top < ObjectCount(c) /\ ~InUse(p, top)
  BY <1>1, <1>2 DEF Complements
<1>4. /\ free_objects' = [free_objects EXCEPT ![p] = Tail(stack)]
      /\ allocated_count' = [allocated_count EXCEPT ![p] = Cardinality(Given(p)) + 1]
      /\ held' = held \cup {new}
      /\ result' = <<c, "Ok">>
  BY DEF TakeFrom
<1> HIDE DEF top
<1>5. new \in Handles /\ new \notin held /\ new.page = p /\ new.index = top /\ new.class = c
  BY <1>2, <1>3 DEF Handles, InUse
<1> HIDE DEF new
<1>6. free_objects' \in [Pages -> Seq(Nat)] /\ free_objects'[p] = Tail(stack)
  BY <1>1, <1>4 DEF TypeInv
<1>7. \A q \in Pages \ {p} : free_objects'[q] = free_objects[q]
  BY <1>4 DEF TypeInv
<1>8. held' \subseteq Handles /\ IsFiniteSet(held')
  BY <1>4, <1>5, FS_AddElement DEF TypeInv
<1>9. \A q \in Pages : IsFiniteSet(Given(q)) /\ Cardinality(Given(q)) \in Nat
  <2>1. ASSUME NEW q \in Pages
        PROVE  IsFiniteSet(Given(q)) /\ Cardinality(Given(q)) \in Nat
    <3>1. Given(q) \in SUBSET held /\ IsFiniteSet(held)
      BY DEF Given, TypeInv
    <3>2. IsFiniteSet(Given(q))
      BY <3>1, FS_Subset
    <3> QED BY <3>2, FS_CardinalityType
  <2> QED BY <2>1
<1>10. allocated_count' \in [Pages -> Nat]
  BY <1>4, <1>9 DEF TypeInv
<1>11. CountInv'
  <2>1. ASSUME NEW q \in Pages
        PROVE  allocated_count'[q] = Cardinality(Given(q)')
    <3>1. CASE q = p
      <4>1. Given(p)' = Given(p) \cup {new} /\ new \notin Given(p)
        BY <1>4, <1>5 DEF Given
      <4>2. Cardinality(Given(p)') = Cardinality(Given(p)) + 1
        BY <4>1, <1>9, FS_AddElement
      <4> QED BY <3>1, <4>2, <1>4 DEF TypeInv
    <3>2. CASE q # p
      <4>1. Given(q)' = Given(q)
        BY <3>2, <1>4, <1>5 DEF Given
      <4>2. allocated_count'[q] = allocated_count[q]
        BY <3>2, <1>4 DEF TypeInv
      <4> QED BY <4>1, <4>2 DEF CountInv
    <3> QED BY <3>1, <3>2
  <2> QED BY <2>1 DEF CountInv
<1>12. \A i \in Nat : InUse(p, i)' <=> InUse(p, i) \/ i = top
  BY <1>4, <1>5 DEF InUse
<1>13. Complements(free_objects[p], c, p)'
  <2>1. \A i \in Nat : i \in Range(Tail(stack)) <=> i < ObjectCount(c) /\ ~InUse(p, i)'
    BY <1>1, <1>12 DEF Complements
  <2>2. IsInjective(free_objects'[p])
    BY <1>1, <1>6
  <2> QED BY <2>1, <2>2, <1>6 DEF Complements
<1>14. \A q \in Pages \ {p}, i \in Nat : InUse(q, i)' <=> InUse(q, i)
  BY <1>4, <1>5 DEF InUse
<1>15. \A h \in held' : h \in held \/ (h.class = c /\ h.page = p /\ h.index < ObjectCount(c))
  BY <1>3, <1>4, <1>5
<1> QED BY <1>4, <1>6, <1>7, <1>8, <1>10, <1>11, <1>13, <1>14, <1>15

(* What a class has given out after an allocation of class c on page p,    *)
(* in a state where p is on the list of c: the part of the invariant that  *)
(* is about objects.                                                       *)
LEMMA TakeKeepsObjects ==
    ASSUME StateInv, TypeInv', PagesPartitioned',
           NEW c \in Class, NEW p \in Pages,
           p \in Range(slabs'[c]),
           \A d \in Class : Range(slabs[d]) \subseteq Range(slabs'[d]),
           \A d \in Class : Range(slabs'[d]) \subseteq Range(slabs[d]) \cup {p},
           Complements(free_objects[p], c, p)',
           \A q \in Pages \ {p} : free_objects'[q] = free_objects[q],
           \A q \in Pages \ {p}, i \in Nat : InUse(q, i)' <=> InUse(q, i),
           \A h \in held' : h \in held \/ (h.class = c /\ h.page = p /\ h.index < ObjectCount(c))
    PROVE  HeldInv' /\ StackInv'
<1>1. HeldInv'
  <2>1. ASSUME NEW h \in held'
        PROVE  h.page \in Range(slabs'[h.class]) /\ h.index < ObjectCount(h.class)
    <3>1. CASE h \in held
      <4>1. h.class \in Class
        BY <3>1 DEF StateInv, TypeInv, Handles
      <4> QED BY <3>1, <4>1 DEF StateInv, HeldInv
    <3>2. CASE h.class = c /\ h.page = p /\ h.index < ObjectCount(c)
      BY <3>2
    <3> QED BY <3>1, <3>2
  <2> QED BY <2>1 DEF HeldInv
<1>2. StackInv'
  <2>1. ASSUME NEW d \in Class, NEW q \in Range(slabs'[d])
        PROVE  Complements(free_objects[q], d, q)'
    <3>1. CASE q = p
      <4>1. d = c
        BY <3>1, <2>1 DEF PagesPartitioned
      <4> QED BY <3>1, <4>1
    <3>2. CASE q # p
      <4>1. q \in Range(slabs[d])
        BY <3>2
      <4>2. q \in Pages
        BY <4>1, PageFacts DEF StateInv
      <4>3. Complements(free_objects[q], d, q)
        BY <4>1 DEF StateInv, StackInv
      <4>4. free_objects'[q] = free_objects[q] /\ \A i \in Nat : InUse(q, i)' <=> InUse(q, i)
        BY <3>2, <4>2
      <4> QED BY <4>3, <4>4 DEF Complements
    <3> QED BY <3>1, <3>2
  <2> QED BY <2>1 DEF StackInv
<1> QED BY <1>1, <1>2

(* allocate from a slab with a free object. *)
LEMMA TakePreserves ==
    ASSUME StateInv, panic' \in BOOLEAN,
           NEW c \in Class, WithRoom(c) # {}, allocate(c)
    PROVE  StateInv' /\ result' = <<c, "Ok">>
<1>1. slabs[c] \in Seq(Pages)
  BY DEF StateInv, TypeInv
<1>2. Min(WithRoom(c)) \in WithRoom(c)
  <2>1. WithRoom(c) \in SUBSET Nat
    BY <1>1 DEF WithRoom
  <2> QED BY <2>1, MinIsLeast
<1>3. PICK first \in 1..Len(slabs[c]) : first = Min(WithRoom(c)) /\ free_objects[slabs[c][first]] # << >>
  BY <1>2 DEF WithRoom
<1>4. PICK p \in Pages : /\ p \in Range(slabs[c]) /\ free_objects[p] # << >>
                        /\ TakeFrom(c, p, free_objects[p], allocated_count[p])
                        /\ UNCHANGED <<slabs, pool>>
  <2>1. slabs[c][first] \in Range(slabs[c]) /\ slabs[c][first] \in Pages
    BY <1>1, RangeFacts
  <2> QED BY <1>3, <2>1 DEF allocate
<1>5. p \in Pages /\ p \notin pool
  BY <1>4, PageFacts DEF StateInv
<1>6. free_objects[p] \in Seq(Nat) /\ Complements(free_objects[p], c, p)
  BY <1>4, <1>5 DEF StateInv, TypeInv, StackInv
<1>7. allocated_count[p] = Cardinality(Given(p))
  BY <1>5 DEF StateInv, CountInv
<1>8. /\ free_objects' \in [Pages -> Seq(Nat)]
      /\ allocated_count' \in [Pages -> Nat]
      /\ held' \subseteq Handles /\ IsFiniteSet(held')
      /\ CountInv'
      /\ Complements(free_objects[p], c, p)'
      /\ \A q \in Pages \ {p} : free_objects'[q] = free_objects[q]
      /\ \A q \in Pages \ {p}, i \in Nat : InUse(q, i)' <=> InUse(q, i)
      /\ \A h \in held' : h \in held \/ (h.class = c /\ h.page = p /\ h.index < ObjectCount(c))
      /\ result' = <<c, "Ok">>
  <2>1. PICK stack \in Seq(Nat) : stack = free_objects[p]
    BY <1>6
  <2>2. TypeInv /\ CountInv /\ TakeFrom(c, p, stack, Cardinality(Given(p)))
    BY <1>4, <1>7, <2>1 DEF StateInv
  <2>3. stack # << >> /\ Complements(stack, c, p)
    BY <1>4, <1>6, <2>1
  <2> QED BY <1>5, <2>2, <2>3, TakeFacts
<1>9. TypeInv'
  BY <1>4, <1>8 DEF StateInv, TypeInv
<1>10. PagesPartitioned'
  BY <1>4 DEF StateInv, PagesPartitioned
<1>11. HeldInv' /\ StackInv'
  <2>1. /\ p \in Range(slabs'[c])
        /\ \A d \in Class : Range(slabs[d]) \subseteq Range(slabs'[d])
        /\ \A d \in Class : Range(slabs'[d]) \subseteq Range(slabs[d]) \cup {p}
    BY <1>4
  <2> QED BY <1>5, <1>8, <1>9, <1>10, <2>1, TakeKeepsObjects
<1>12. PoolInv'
  <2>1. \A q \in pool : q \in Pages \ {p}
    BY <1>5 DEF StateInv, TypeInv
  <2> QED BY <1>4, <1>8, <2>1 DEF StateInv, PoolInv
<1> QED BY <1>8, <1>9, <1>10, <1>11, <1>12 DEF StateInv

(* grow: the page goes from the pool to the end of one list. *)
LEMMA GrowKeepsPages ==
    ASSUME TypeInv, PagesPartitioned, NEW c \in Class, NEW p \in pool,
           slabs' = [slabs EXCEPT ![c] = Append(@, p)], pool' = pool \ {p}
    PROVE  /\ slabs' \in [Class -> Seq(Pages)] /\ pool' \subseteq Pages
           /\ PagesPartitioned'
           /\ Range(slabs'[c]) = Range(slabs[c]) \cup {p}
           /\ \A d \in Class \ {c} : slabs'[d] = slabs[d]
<1>1. slabs[c] \in Seq(Pages) /\ p \in Pages /\ p \notin Range(slabs[c]) /\ IsInjective(slabs[c])
  BY DEF TypeInv, PagesPartitioned
<1>2. /\ Append(slabs[c], p) \in Seq(Pages) /\ IsInjective(Append(slabs[c], p))
      /\ Range(Append(slabs[c], p)) = Range(slabs[c]) \cup {p}
  BY <1>1, AppendFacts
<1>3. /\ slabs' \in [Class -> Seq(Pages)] /\ slabs'[c] = Append(slabs[c], p)
      /\ \A d \in Class \ {c} : slabs'[d] = slabs[d]
  BY <1>2 DEF TypeInv
<1>4. \A d \in Class : p \notin Range(slabs[d])
  BY DEF PagesPartitioned
<1>5. \A d \in Class : Range(slabs'[d]) = IF d = c THEN Range(slabs[c]) \cup {p} ELSE Range(slabs[d])
  BY <1>2, <1>3
<1>6. \A d \in Class : IsInjective(slabs'[d]) /\ Range(slabs'[d]) \cap pool' = {}
  BY <1>2, <1>3, <1>5 DEF PagesPartitioned
<1>7. \A d, e \in Class : d # e => Range(slabs'[d]) \cap Range(slabs'[e]) = {}
  BY <1>4, <1>5 DEF PagesPartitioned
<1>8. pool' \cup UNION {Range(slabs'[d]) : d \in Class} = Pages
  <2>1. pool \cup UNION {Range(slabs[d]) : d \in Class} = Pages
    BY DEF PagesPartitioned
  <2>2. UNION {Range(slabs'[d]) : d \in Class} = (UNION {Range(slabs[d]) : d \in Class}) \cup {p}
    <3>1. \A x : (\E d \in Class : x \in Range(slabs'[d]))
                 <=> (\E d \in Class : x \in Range(slabs[d])) \/ x = p
      BY <1>5
    <3> QED BY <3>1
  <2> QED BY <2>1, <2>2
<1>9. PagesPartitioned'
  BY <1>6, <1>7, <1>8 DEF PagesPartitioned
<1> QED BY <1>2, <1>3, <1>9 DEF TypeInv

(* allocate with a new slab. *)
LEMMA GrowPreserves ==
    ASSUME StateInv, panic' \in BOOLEAN,
           NEW c \in Class, NEW p \in pool, GrowAndTake(c, p)
    PROVE  /\ StateInv'
           /\ result' = <<c, "Ok">> \/ (result' = <<c, "SlabFullInternalError">> /\ ObjectCount(c) = 0)
<1>1. /\ slabs' \in [Class -> Seq(Pages)] /\ pool' \subseteq Pages
      /\ PagesPartitioned'
      /\ Range(slabs'[c]) = Range(slabs[c]) \cup {p}
      /\ \A d \in Class \ {c} : slabs'[d] = slabs[d]
  BY GrowKeepsPages DEF StateInv, GrowAndTake
<1>2. p \in Pages /\ pool' = pool \ {p}
  BY DEF StateInv, TypeInv, GrowAndTake
<1>3. \A h \in held : h.page # p
  BY DEF StateInv, TypeInv, Handles, HeldInv, PagesPartitioned
<1>4. Given(p) = {} /\ \A i \in Nat : ~InUse(p, i)
  BY <1>3 DEF Given, InUse
<1>5. /\ \A d \in Class : Range(slabs[d]) \subseteq Range(slabs'[d])
      /\ \A d \in Class : Range(slabs'[d]) \subseteq Range(slabs[d]) \cup {p}
      /\ p \in Range(slabs'[c])
  BY <1>1
<1>6. CASE ObjectCount(c) > 0
  <2>1. /\ NewStack(c) \in Seq(Nat) /\ NewStack(c) # << >> /\ IsInjective(NewStack(c))
        /\ Range(NewStack(c)) = 0..(ObjectCount(c) - 1) /\ ObjectCount(c) \in Nat
    BY <1>6, NewStackFacts, ObjectCountFacts
  <2>2. Complements(NewStack(c), c, p)
    BY <2>1, <1>4 DEF Complements
  <2>3. TakeFrom(c, p, NewStack(c), Cardinality(Given(p)))
    BY <1>4, <1>6, FS_EmptySet DEF GrowAndTake
  <2>4. /\ free_objects' \in [Pages -> Seq(Nat)]
        /\ allocated_count' \in [Pages -> Nat]
        /\ held' \subseteq Handles /\ IsFiniteSet(held')
        /\ CountInv'
        /\ Complements(free_objects[p], c, p)'
        /\ \A q \in Pages \ {p} : free_objects'[q] = free_objects[q]
        /\ \A q \in Pages \ {p}, i \in Nat : InUse(q, i)' <=> InUse(q, i)
        /\ \A h \in held' : h \in held \/ (h.class = c /\ h.page = p /\ h.index < ObjectCount(c))
        /\ result' = <<c, "Ok">>
    <3>1. TypeInv /\ CountInv
      BY DEF StateInv
    <3> QED BY <1>2, <2>1, <2>2, <2>3, <3>1, TakeFacts
  <2>5. TypeInv'
    BY <1>1, <2>4 DEF TypeInv
  <2>6. HeldInv' /\ StackInv'
    BY <1>1, <1>2, <1>5, <2>4, <2>5, TakeKeepsObjects
  <2>7. PoolInv'
    <3>1. \A q \in pool' : q \in pool /\ q \in Pages \ {p}
      BY <1>2 DEF StateInv, TypeInv
    <3> QED BY <2>4, <3>1 DEF StateInv, PoolInv
  <2> QED BY <1>1, <2>4, <2>5, <2>6, <2>7 DEF StateInv
<1>7. CASE ~(ObjectCount(c) > 0)
  <2>1. ObjectCount(c) = 0
    BY <1>7, ObjectCountFacts
  <2>2. /\ free_objects' = free_objects /\ allocated_count' = allocated_count /\ held' = held
        /\ result' = <<c, "SlabFullInternalError">>
    BY <1>7 DEF GrowAndTake
  <2>3. TypeInv' /\ CountInv' /\ PoolInv'
    BY <1>1, <1>2, <2>2 DEF StateInv, TypeInv, CountInv, Given, PoolInv
  <2>4. Complements(free_objects[p], c, p)'
    <3>1. free_objects'[p] = << >>
      BY <2>2 DEF StateInv, PoolInv
    <3>2. Range(<< >>) = {} /\ IsInjective(<< >>)
      BY DEF Range, IsInjective
    <3> QED BY <2>1, <3>1, <3>2 DEF Complements
  <2>5. /\ \A q \in Pages \ {p} : free_objects'[q] = free_objects[q]
        /\ \A q \in Pages \ {p}, i \in Nat : InUse(q, i)' <=> InUse(q, i)
        /\ \A h \in held' : h \in held \/ (h.class = c /\ h.page = p /\ h.index < ObjectCount(c))
    BY <2>2 DEF InUse
  <2>6. HeldInv' /\ StackInv'
    BY <1>1, <1>2, <1>5, <2>3, <2>4, <2>5, TakeKeepsObjects
  <2> QED BY <1>1, <2>1, <2>2, <2>3, <2>6 DEF StateInv
<1> QED BY <1>6, <1>7
-----------------------------------------------------------------------------
(* Freeing and reaping.                                                    *)

(* An object that free accepts is one that a caller has. *)
LEMMA AcceptedIsHeld ==
    ASSUME StateInv, NEW h \in Handles, free_returns(h.class, h.page, h.index) = "Ok"
    PROVE  /\ h \in held /\ h.page \in Range(slabs[h.class]) /\ h.index < ObjectCount(h.class)
           /\ h.index \notin Range(free_objects[h.page])
<1>1. h.class \in Class /\ h.page \in Pages /\ h.index \in Nat
  BY DEF Handles
<1>2. /\ h.page \in Range(slabs[h.class]) /\ ~(h.index >= ObjectCount(h.class))
      /\ h.index \notin Range(free_objects[h.page])
  BY DEF free_returns
<1>3. h.index < ObjectCount(h.class)
  BY <1>1, <1>2, ObjectCountFacts
<1>4. InUse(h.page, h.index)
  BY <1>1, <1>2, <1>3 DEF StateInv, StackInv, Complements
<1>5. PICK g \in held : g.page = h.page /\ g.index = h.index
  BY <1>4 DEF InUse
<1>6. g \in Handles /\ g.class \in Class /\ g.page \in Range(slabs[g.class])
  BY DEF StateInv, TypeInv, HeldInv, Handles
<1>7. g.class = h.class
  BY <1>1, <1>2, <1>5, <1>6, PageFacts DEF StateInv
<1>8. g = h
  BY <1>5, <1>6, <1>7 DEF Handles
<1> QED BY <1>2, <1>3, <1>8

(* free gives an object back to the slab it came from.                     *)
LEMMA PutBackPreserves ==
    ASSUME StateInv, panic' \in BOOLEAN, UNCHANGED <<slabs, pool>>,
           NEW h \in Handles, free_returns(h.class, h.page, h.index) = "Ok", PutBack(h)
    PROVE  StateInv'
<1> DEFINE p == h.page
<1>1. h.class \in Class /\ p \in Pages /\ h.index \in Nat
  BY DEF Handles
<1>2. /\ h \in held /\ p \in Range(slabs[h.class]) /\ h.index < ObjectCount(h.class)
      /\ h.index \notin Range(free_objects[p])
  BY AcceptedIsHeld
<1>3. /\ free_objects' = [free_objects EXCEPT ![p] = <<h.index>> \o @]
      /\ held' = held \ {h}
      /\ allocated_count' = [allocated_count EXCEPT ![p] = IF @ = 0 THEN 0 ELSE @ - 1]
  BY DEF PutBack
<1>4. free_objects[p] \in Seq(Nat) /\ Complements(free_objects[p], h.class, p)
  BY <1>1, <1>2 DEF StateInv, TypeInv, StackInv
<1>5. /\ <<h.index>> \o free_objects[p] \in Seq(Nat)
      /\ IsInjective(<<h.index>> \o free_objects[p])
      /\ Range(<<h.index>> \o free_objects[p]) = Range(free_objects[p]) \cup {h.index}
  <2>1. PICK s \in Seq(Nat) : s = free_objects[p] /\ IsInjective(s) /\ h.index \notin Range(s)
    BY <1>2, <1>4 DEF Complements
  <2>2. PICK i \in Nat : i = h.index
    BY <1>1
  <2>3. <<i>> \o s \in Seq(Nat) /\ IsInjective(<<i>> \o s) /\ Range(<<i>> \o s) = Range(s) \cup {i}
    BY <2>1, <2>2, PushFacts
  <2> QED BY <2>1, <2>2, <2>3
<1>6. /\ free_objects' \in [Pages -> Seq(Nat)]
      /\ free_objects'[p] = <<h.index>> \o free_objects[p]
      /\ \A q \in Pages \ {p} : free_objects'[q] = free_objects[q]
  BY <1>1, <1>3, <1>5 DEF StateInv, TypeInv
<1>7. \A q \in Pages : IsFiniteSet(Given(q)) /\ Cardinality(Given(q)) \in Nat
  <2>1. ASSUME NEW q \in Pages
        PROVE  IsFiniteSet(Given(q)) /\ Cardinality(Given(q)) \in Nat
    <3>1. Given(q) \in SUBSET held /\ IsFiniteSet(held)
      BY DEF Given, StateInv, TypeInv
    <3>2. IsFiniteSet(Given(q))
      BY <3>1, FS_Subset
    <3> QED BY <3>2, FS_CardinalityType
  <2> QED BY <2>1
<1>8. CountInv' /\ allocated_count' \in [Pages -> Nat]
  <2>1. h \in Given(p)
    BY <1>2 DEF Given
  <2>2. Cardinality(Given(p)) # 0
    BY <2>1, <1>1, <1>7, FS_EmptySet
  <2>3. Given(p)' = Given(p) \ {h}
    BY <1>3 DEF Given
  <2>4. Cardinality(Given(p)') = Cardinality(Given(p)) - 1
    <3>1. PICK S : S = Given(p) /\ IsFiniteSet(S) /\ h \in S
      BY <2>1, <1>1, <1>7
    <3>2. Cardinality(S \ {h}) = Cardinality(S) - 1
      BY <3>1, FS_RemoveElement
    <3> QED BY <2>3, <3>1, <3>2
  <2>5. allocated_count[p] = Cardinality(Given(p)) /\ allocated_count \in [Pages -> Nat]
    BY <1>1 DEF StateInv, CountInv, TypeInv
  <2>6. allocated_count'[p] = Cardinality(Given(p)')
    BY <2>2, <2>4, <2>5, <1>1, <1>3
  <2>7. ASSUME NEW q \in Pages \ {p}
        PROVE  allocated_count'[q] = Cardinality(Given(q)')
    <3>1. Given(q)' = Given(q)
      BY <1>3 DEF Given
    <3>2. allocated_count'[q] = allocated_count[q]
      BY <1>3, <2>5
    <3> QED BY <3>1, <3>2 DEF StateInv, CountInv
  <2>8. allocated_count' \in [Pages -> Nat]
    BY <1>1, <1>3, <2>5
  <2> QED BY <2>6, <2>7, <2>8 DEF CountInv
<1>9. IsFiniteSet(held') /\ held' \subseteq Handles
  BY <1>3, FS_RemoveElement DEF StateInv, TypeInv
<1>10. TypeInv'
  BY <1>6, <1>8, <1>9 DEF StateInv, TypeInv
<1>11. PagesPartitioned'
  BY DEF StateInv, PagesPartitioned
<1>12. HeldInv'
  BY <1>3 DEF StateInv, HeldInv
<1>13. StackInv'
  <2>1. ASSUME NEW d \in Class, NEW q \in Range(slabs[d])
        PROVE  Complements(free_objects[q], d, q)'
    <3>0. Complements(free_objects[q], d, q) /\ q \in Pages
      BY PageFacts DEF StateInv, StackInv
    <3>1. CASE q = p
      <4>1. d = h.class
        BY <3>1, <1>1, <1>2, PageFacts DEF StateInv
      <4>2. ASSUME NEW i \in Nat
            PROVE  InUse(p, i)' <=> InUse(p, i) /\ i # h.index
        <5>1. \A g \in held : g.page = p /\ g.index = h.index => g = h
          <6>1. ASSUME NEW g \in held, g.page = p, g.index = h.index
                PROVE  g = h
            <7>1. g \in Handles /\ g.class \in Class /\ g.page \in Range(slabs[g.class])
              BY DEF StateInv, TypeInv, HeldInv, Handles
            <7>2. g.class = h.class
              BY <1>1, <1>2, <6>1, <7>1, PageFacts DEF StateInv
            <7> QED BY <6>1, <7>1, <7>2 DEF Handles
          <6> QED BY <6>1
        <5> QED BY <5>1, <1>3 DEF InUse
      <4>3. \A i \in Nat : i \in Range(free_objects'[p])
                             <=> i < ObjectCount(h.class) /\ ~InUse(p, i)'
        BY <1>1, <1>2, <1>4, <1>5, <1>6, <4>2 DEF Complements
      <4>4. IsInjective(free_objects'[p])
        BY <1>5, <1>6
      <4> QED BY <3>1, <4>1, <4>3, <4>4 DEF Complements
    <3>2. CASE q # p
      <4>1. free_objects'[q] = free_objects[q] /\ \A i \in Nat : InUse(q, i)' <=> InUse(q, i)
        BY <1>3, <1>6, <3>0, <3>2 DEF InUse
      <4> QED BY <3>0, <4>1 DEF Complements
    <3> QED BY <3>1, <3>2
  <2> QED BY <2>1 DEF StackInv
<1>14. PoolInv'
  <2>1. \A q \in pool : q \in Pages \ {p}
    BY <1>1, <1>2, PageFacts DEF StateInv, TypeInv
  <2> QED BY <1>6, <2>1 DEF StateInv, PoolInv
<1> QED BY <1>8, <1>10, <1>11, <1>12, <1>13, <1>14 DEF StateInv

(* The slabs that reap takes are on the list and nobody has their objects. *)
LEMMA ReapableFacts ==
    ASSUME StateInv, NEW c \in Class
    PROVE  /\ Reapable(c) \in 0..Len(slabs[c])
           /\ \A i \in 1..Reapable(c) : allocated_count[slabs[c][i]] = 0
<1> DEFINE used == {i \in 1..Len(slabs[c]) : allocated_count[slabs[c][i]] # 0}
<1>1. Len(slabs[c]) \in Nat
  BY DEF StateInv, TypeInv
<1>2. CASE used = {}
  <2>1. Reapable(c) = Len(slabs[c])
    BY <1>2 DEF Reapable
  <2> QED BY <1>1, <1>2, <2>1
<1>3. CASE used # {}
  <2>1. Reapable(c) = Min(used) - 1
    BY <1>3 DEF Reapable
  <2>2. used \in SUBSET Nat
    BY <1>1
  <2>3. Min(used) \in used /\ \A m \in used : Min(used) <= m
    BY <1>3, <2>2, MinIsLeast
  <2>4. Min(used) \in 1..Len(slabs[c])
    BY <2>3
  <2>5. ASSUME NEW i \in 1..(Min(used) - 1)
        PROVE  allocated_count[slabs[c][i]] = 0
    <3>1. i \in 1..Len(slabs[c]) /\ ~(Min(used) <= i)
      BY <1>1, <2>4
    <3> QED BY <3>1, <2>3
  <2> QED BY <1>1, <2>1, <2>4, <2>5
<1> QED BY <1>2, <1>3

(* reap moves only pages without objects in use to the pool.               *)
LEMMA ReapPreserves ==
    ASSUME StateInv, NEW c \in Class, reap(c)
    PROVE  StateInv'
<1> DEFINE n == Reapable(c)
           rest == SubSeq(slabs[c], n + 1, Len(slabs[c]))
<1>1. PICK freed \in SUBSET Range(slabs[c]) : freed = Range(SubSeq(slabs[c], 1, n))
  BY ReapableFacts, DropFacts DEF StateInv, TypeInv, PagesPartitioned
<1>2. /\ slabs' = [slabs EXCEPT ![c] = rest]
      /\ pool' = pool \cup freed
      /\ free_objects' = [p \in Pages |-> IF p \in freed THEN << >> ELSE free_objects[p]]
      /\ UNCHANGED <<allocated_count, held, panic>>
  BY <1>1 DEF reap
<1>3. /\ rest \in Seq(Pages) /\ IsInjective(rest)
      /\ freed \cup Range(rest) = Range(slabs[c])
      /\ freed \cap Range(rest) = {}
      /\ \A p \in freed : \E i \in 1..n : p = slabs[c][i]
  <2>1. slabs[c] \in Seq(Pages) /\ IsInjective(slabs[c])
    BY DEF StateInv, TypeInv, PagesPartitioned
  <2> QED BY <1>1, <2>1, ReapableFacts, DropFacts
<1> HIDE DEF rest
<1>4. freed \subseteq Pages /\ \A d \in Class \ {c} : freed \cap Range(slabs[d]) = {}
  BY PageFacts DEF StateInv
<1>5. \A p \in freed : \A h \in held : h.page # p
  <2>1. ASSUME NEW p \in freed
        PROVE  Given(p) = {}
    <3>1. allocated_count[p] = 0 /\ allocated_count[p] = Cardinality(Given(p))
      BY <1>3, <1>4, ReapableFacts DEF StateInv, CountInv
    <3>2. Given(p) \in SUBSET held /\ IsFiniteSet(held)
      BY DEF Given, StateInv, TypeInv
    <3>3. IsFiniteSet(Given(p))
      BY <3>2, FS_Subset
    <3> QED BY <3>1, <3>3, FS_EmptySet
  <2> QED BY <2>1 DEF Given
<1>6. \A d \in Class : Range(slabs'[d]) = Range(slabs[d]) \ freed
  BY <1>2, <1>3, <1>4 DEF StateInv, TypeInv
<1>7. TypeInv'
  <2>1. slabs' \in [Class -> Seq(Pages)]
    BY <1>2, <1>3 DEF StateInv, TypeInv
  <2>2. free_objects' \in [Pages -> Seq(Nat)]
    BY <1>2 DEF StateInv, TypeInv
  <2> QED BY <1>2, <1>4, <2>1, <2>2 DEF StateInv, TypeInv
<1>8. PagesPartitioned'
  <2>1. \A d \in Class : IsInjective(slabs'[d])
    BY <1>2, <1>3 DEF StateInv, TypeInv, PagesPartitioned
  <2>2. \A d \in Class : Range(slabs'[d]) \cap pool' = {}
    BY <1>2, <1>6 DEF StateInv, PagesPartitioned
  <2>3. \A d, e \in Class : d # e => Range(slabs'[d]) \cap Range(slabs'[e]) = {}
    BY <1>6 DEF StateInv, PagesPartitioned
  <2>4. pool' \cup UNION {Range(slabs'[d]) : d \in Class} = Pages
    <3>1. pool \cup UNION {Range(slabs[d]) : d \in Class} = Pages
      BY DEF StateInv, PagesPartitioned
    <3>2. \A x : (\E d \in Class : x \in Range(slabs'[d]))
                 <=> (\E d \in Class : x \in Range(slabs[d])) /\ x \notin freed
      BY <1>6
    <3>3. UNION {Range(slabs'[d]) : d \in Class} = (UNION {Range(slabs[d]) : d \in Class}) \ freed
      BY <3>2
    <3> QED BY <3>1, <3>3, <1>2, <1>4
  <2> QED BY <2>1, <2>2, <2>3, <2>4 DEF PagesPartitioned
<1>9. HeldInv'
  <2>1. \A h \in held : h.class \in Class
    BY DEF StateInv, TypeInv, Handles
  <2> QED BY <1>2, <1>5, <1>6, <2>1 DEF StateInv, HeldInv
<1>10. StackInv'
  <2>1. ASSUME NEW d \in Class, NEW q \in Range(slabs'[d])
        PROVE  Complements(free_objects[q], d, q)'
    <3>1. q \in Range(slabs[d]) /\ q \notin freed
      BY <1>6
    <3>2. q \in Pages /\ Complements(free_objects[q], d, q)
      BY <3>1, PageFacts DEF StateInv, StackInv
    <3>3. free_objects'[q] = free_objects[q] /\ \A i \in Nat : InUse(q, i)' <=> InUse(q, i)
      BY <1>2, <3>1, <3>2 DEF InUse
    <3> QED BY <3>2, <3>3 DEF Complements
  <2> QED BY <2>1 DEF StackInv
<1>11. CountInv' /\ PoolInv'
  BY <1>2, <1>4 DEF StateInv, TypeInv, CountInv, Given, PoolInv
<1> QED BY <1>7, <1>8, <1>9, <1>10, <1>11 DEF StateInv
-----------------------------------------------------------------------------
(* A result that is no failure says nothing about memory. *)
LEMMA NoFailure ==
    ASSUME NEW k, NEW outcome,
           outcome \notin {"SlabFullInternalError", "OutOfMemory"}, result' = <<k, outcome>>
    PROVE  FailureMeansNoMemory'
<1>1. \A c \in Class : ~Failed(c)'
  BY DEF Failed
<1> QED BY <1>1 DEF FailureMeansNoMemory

(* alloc of heap.rs: allocate, and grow when no slab has room.             *)
LEMMA AllocPreserves ==
    ASSUME Inv, NEW layout \in Layouts, alloc(layout)
    PROVE  Inv'
<1>1. ~panic /\ StateInv
  BY DEF alloc, Inv
<1>2. CASE Suitable(layout) = {}
  <2>1. /\ panic' = TRUE /\ result' = <<0, "NoAllocator">>
        /\ UNCHANGED <<slabs, free_objects, allocated_count, pool, held>>
    BY <1>2 DEF alloc
  <2>2. StateInv'
    BY <1>1, <2>1, Unchanged
  <2>3. ResultInv'
    BY <2>1, SizesAssumption DEF ResultInv, Outcomes
  <2>4. FailureMeansNoMemory'
    BY <2>1, NoFailure
  <2> QED BY <2>2, <2>3, <2>4 DEF Inv
<1>3. CASE Suitable(layout) # {}
  <2>1. PICK c \in Class : allocate(c)
    <3>1. Suitable(layout) \in SUBSET Nat /\ Suitable(layout) \subseteq Class
      BY SizesAssumption DEF Suitable, Class
    <3>2. Min(Suitable(layout)) \in Class
      BY <1>3, <3>1, MinIsLeast
    <3> QED BY <1>3, <3>2 DEF alloc
  <2>2. panic' = (result'[2] = "OutOfMemory")
    BY <1>3 DEF alloc
  <2>3. panic' \in BOOLEAN
    BY <2>2
  <2>4. c \in 0..Len(Classes)
    BY SizesAssumption DEF Class
  <2>5. CASE WithRoom(c) # {}
    <3>1. StateInv' /\ result' = <<c, "Ok">>
      BY <1>1, <2>1, <2>3, <2>5, TakePreserves
    <3>2. ResultInv'
      BY <2>2, <2>4, <3>1 DEF ResultInv, Outcomes
    <3>3. FailureMeansNoMemory'
      BY <3>1, NoFailure
    <3> QED BY <3>1, <3>2, <3>3 DEF Inv
  <2>6. CASE WithRoom(c) = {} /\ pool # {}
    <3>1. PICK p \in pool : GrowAndTake(c, p)
      BY <2>1, <2>6 DEF allocate
    <3>2. /\ StateInv'
          /\ result' = <<c, "Ok">>
             \/ (result' = <<c, "SlabFullInternalError">> /\ ObjectCount(c) = 0)
      BY <1>1, <2>3, <3>1, GrowPreserves
    <3>3. ResultInv'
      <4>1. PICK outcome \in {"Ok", "SlabFullInternalError"} : result' = <<c, outcome>>
        BY <3>2
      <4>2. ~panic' /\ outcome \in Outcomes
        BY <2>2, <4>1 DEF Outcomes
      <4> QED BY <2>4, <4>1, <4>2 DEF ResultInv
    <3>4. FailureMeansNoMemory'
      <4>1. CASE result' = <<c, "Ok">>
        BY <4>1, NoFailure
      <4>2. CASE result' = <<c, "SlabFullInternalError">> /\ ObjectCount(c) = 0
        <5>1. \A d \in Class : Failed(d)' => d = c
          BY <4>2 DEF Failed
        <5>2. ~(ObjectCount(c) > 0)
          BY <4>2
        <5> QED BY <5>1, <5>2 DEF FailureMeansNoMemory
      <4> QED BY <3>2, <4>1, <4>2
    <3> QED BY <3>2, <3>3, <3>4 DEF Inv
  <2>7. CASE WithRoom(c) = {} /\ pool = {}
    <3>1. /\ result' = <<c, "OutOfMemory">>
          /\ UNCHANGED <<slabs, free_objects, allocated_count, pool, held>>
      BY <2>1, <2>7 DEF allocate
    <3>2. StateInv'
      BY <1>1, <2>3, <3>1, Unchanged
    <3>3. ResultInv'
      BY <2>4, <3>1 DEF ResultInv, Outcomes
    <3>4. FailureMeansNoMemory'
      <4>1. \A d \in Class : Failed(d)' => d = c
        BY <3>1 DEF Failed
      <4>2. WithRoom(c)' = {} /\ pool' = {}
        BY <2>7, <3>1 DEF WithRoom
      <4> QED BY <4>1, <4>2 DEF FailureMeansNoMemory
    <3> QED BY <3>2, <3>3, <3>4 DEF Inv
  <2> QED BY <2>5, <2>6, <2>7
<1> QED BY <1>2, <1>3

(* dealloc of heap.rs: free of the object's class.                         *)
LEMMA DeallocPreserves ==
    ASSUME Inv, NEW h \in held \cup Objects, dealloc(h)
    PROVE  Inv'
<1> DEFINE outcome == free_returns(h.class, h.page, h.index)
<1>1. ~panic /\ StateInv
  BY DEF dealloc, Inv
<1>2. h \in Handles /\ h.page \in Range(slabs[h.class]) /\ h.index < ObjectCount(h.class)
  <2>1. PageSize \in Nat
    BY SizesAssumption
  <2> QED BY <1>1, <2>1 DEF Objects, Handles, StateInv, TypeInv, HeldInv
<1>3. h.class \in Class /\ h.class \in 0..Len(Classes) /\ h.index \in Nat
  BY <1>2, SizesAssumption DEF Handles, Class
<1>4. /\ result' = <<h.class, outcome>> /\ panic' = (outcome # "Ok") /\ UNCHANGED <<slabs, pool>>
      /\ outcome = "Ok" => PutBack(h)
      /\ outcome # "Ok" => UNCHANGED <<free_objects, allocated_count, held>>
  BY DEF dealloc
<1>5. outcome \in {"Ok", "DoubleFree"}
  <2>1. ~(h.index >= ObjectCount(h.class))
    BY <1>2, <1>3, ObjectCountFacts
  <2> QED BY <1>2, <2>1 DEF free_returns
<1>6. StateInv'
  <2>1. CASE outcome = "Ok"
    BY <1>1, <1>2, <1>4, <2>1, PutBackPreserves
  <2>2. CASE outcome # "Ok"
    BY <1>1, <1>4, <2>2, Unchanged
  <2> QED BY <2>1, <2>2
<1> HIDE DEF outcome
<1>7. ResultInv'
  BY <1>3, <1>4, <1>5 DEF ResultInv, Outcomes
<1>8. FailureMeansNoMemory'
  BY <1>4, <1>5, NoFailure
<1> QED BY <1>6, <1>7, <1>8 DEF Inv

(* Every call preserves the invariant.                                     *)
LEMMA NextPreserves ==
    ASSUME Inv, [Next]_vars
    PROVE  Inv'
<1>1. CASE \E layout \in Layouts : alloc(layout)
  BY <1>1, AllocPreserves
<1>2. CASE \E h \in held \cup Objects : dealloc(h)
  BY <1>2, DeallocPreserves
<1>3. CASE \E c \in Class \ {1} : reap(c)
  <2>1. PICK c \in Class : reap(c)
    BY <1>3
  <2>2. StateInv'
    BY <2>1, ReapPreserves DEF Inv
  <2>3. result' = <<c, "Reaped">> /\ panic' = panic /\ ~panic /\ c \in 0..Len(Classes)
    BY <2>1, SizesAssumption DEF reap, Class
  <2>4. ResultInv'
    BY <2>3 DEF ResultInv, Outcomes
  <2>5. FailureMeansNoMemory'
    BY <2>3, NoFailure
  <2> QED BY <2>2, <2>4, <2>5 DEF Inv
<1>4. CASE UNCHANGED vars
  <2>1. UNCHANGED <<slabs, free_objects, allocated_count, pool, held>> /\ UNCHANGED <<result, panic>>
    BY <1>4 DEF vars
  <2>2. StateInv'
    BY <2>1, Unchanged DEF Inv, StateInv, TypeInv
  <2>3. ResultInv'
    BY <2>1 DEF Inv, ResultInv
  <2>4. FailureMeansNoMemory'
    BY <2>1 DEF Inv, FailureMeansNoMemory, Failed, WithRoom
  <2> QED BY <2>2, <2>3, <2>4 DEF Inv
<1> QED BY <1>1, <1>2, <1>3, <1>4 DEF Next
-----------------------------------------------------------------------------
(* A slab's callers never have more objects than it has. *)
LEMMA GivenBound ==
    ASSUME StateInv, NEW p \in Pages
    PROVE  Cardinality(Given(p)) \in 0..PageSize
<1>0. PageSize \in Nat
  BY SizesAssumption
<1>1. Given(p) \in SUBSET held /\ IsFiniteSet(held)
  BY DEF Given, StateInv, TypeInv
<1>2. IsFiniteSet(Given(p)) /\ Cardinality(Given(p)) \in Nat
  BY <1>1, FS_Subset, FS_CardinalityType
<1>3. CASE Given(p) = {}
  BY <1>0, <1>3, FS_EmptySet
<1>4. CASE Given(p) # {}
  <2>1. PICK g \in held : g.page = p
    BY <1>4 DEF Given
  <2>2. PICK c \in Class : c = g.class
    BY DEF StateInv, TypeInv, Handles
  <2>3. \A h \in Given(p) : h \in Handles /\ h.class = c /\ h.index \in 0..(ObjectCount(c) - 1)
    <3>1. ASSUME NEW h \in Given(p)
          PROVE  h \in Handles /\ h.class = c /\ h.index \in 0..(ObjectCount(c) - 1)
      <4>1. h \in held /\ h.page = p /\ h \in Handles /\ h.class \in Class /\ h.index \in Nat
        BY DEF Given, StateInv, TypeInv, Handles
      <4>2. p \in Range(slabs[h.class]) /\ p \in Range(slabs[c]) /\ h.index < ObjectCount(h.class)
        BY <4>1, <2>1, <2>2 DEF StateInv, HeldInv
      <4>3. h.class = c
        BY <4>1, <4>2, PageFacts DEF StateInv
      <4> QED BY <4>1, <4>2, <4>3, ObjectCountFacts
    <3> QED BY <3>1
  <2> DEFINE f == [h \in Given(p) |-> h.index]
             T == 0..(ObjectCount(c) - 1)
  <2>4. f \in Injection(Given(p), T)
    <3>1. f \in [Given(p) -> T]
      BY <2>3
    <3>2. ASSUME NEW a \in Given(p), NEW b \in Given(p), a.index = b.index
          PROVE  a = b
      <4>1. a \in Handles /\ b \in Handles /\ a.class = b.class /\ a.page = b.page
        BY <2>3 DEF Given
      <4> QED BY <3>2, <4>1 DEF Handles
    <3>3. IsInjective(f)
      BY <3>2 DEF IsInjective
    <3> QED BY <3>1, <3>3 DEF Injection
  <2>5. ObjectCount(c) \in Nat /\ ObjectCount(c) <= PageSize
    BY ObjectCountFacts
  <2>6. IsFiniteSet(T) /\ Cardinality(T) <= PageSize /\ Cardinality(T) \in Nat
    <3>1. IsFiniteSet(T) /\ Cardinality(T) = IF 0 > ObjectCount(c) - 1 THEN 0
                                             ELSE (ObjectCount(c) - 1) - 0 + 1
      BY <2>5, FS_Interval
    <3> QED BY <3>1, <2>5, <1>0
  <2> HIDE DEF f, T
  <2>7. Cardinality(Given(p)) <= Cardinality(T)
    BY <2>4, <2>6, FS_Injection
  <2> QED BY <1>0, <1>2, <2>6, <2>7
<1> QED BY <1>3, <1>4

(* What the invariant says of objects, in the terms of SlabAllocator. *)
LEMMA InvObjects == Inv => ObjectsPartitioned
<1> SUFFICES ASSUME Inv PROVE ObjectsPartitioned
  OBVIOUS
<1> USE DEF Inv, StateInv
<1>0. PageSize \in Nat
  BY SizesAssumption
<1>1. \A h \in held : h \in Handles /\ h.class \in Class /\ h.page \in Pages /\ h.index \in Nat
  BY DEF TypeInv, Handles
<1>2. \A p \in Pages : free_objects[p] \in Seq(0..PageSize)
  <2>1. ASSUME NEW p \in Pages
        PROVE  free_objects[p] \in Seq(0..PageSize)
    <3>1. CASE p \in pool
      <4>1. free_objects[p] = << >>
        BY <3>1 DEF PoolInv
      <4>2. << >> \in Seq(0..PageSize)
        OBVIOUS
      <4> QED BY <4>1, <4>2
    <3>2. CASE p \notin pool
      <4>1. PICK c \in Class : p \in Range(slabs[c])
        BY <3>2 DEF PagesPartitioned
      <4>2. free_objects[p] \in Seq(Nat) /\ Complements(free_objects[p], c, p)
        BY <4>1 DEF TypeInv, StackInv
      <4>3. PICK s \in Seq(Nat) : s = free_objects[p]
        BY <4>2
      <4>4. \A i \in 1..Len(s) : s[i] \in 0..PageSize
        <5>1. ASSUME NEW i \in 1..Len(s)
              PROVE  s[i] \in 0..PageSize
          <6>1. s[i] \in Nat /\ s[i] \in Range(s)
            BY RangeFacts
          <6>2. s[i] < ObjectCount(c)
            BY <6>1, <4>2, <4>3 DEF Complements
          <6> QED BY <6>1, <6>2, <1>0, ObjectCountFacts
        <5> QED BY <5>1
      <4>5. s \in Seq(0..PageSize)
        <5> DEFINE T == 0..PageSize
        <5>1. PICK n \in Nat : s \in [1..n -> T]
          BY <4>4
        <5> HIDE DEF T
        <5>2. s \in UNION {[1..m -> T] : m \in Nat}
          BY <5>1, Zenon
        <5>3. Seq(T) = UNION {[1..m -> T] : m \in Nat}
          BY SeqDef, Zenon
        <5>4. s \in Seq(T)
          BY <5>2, <5>3, Zenon
        <5> QED BY <5>4 DEF T
      <4> QED BY <4>3, <4>5
    <3> QED BY <3>1, <3>2
  <2> QED BY <2>1
<1>3. TypeOK
  <2>1. free_objects \in [Pages -> Seq(0..PageSize)]
    BY <1>2 DEF TypeInv
  <2>2. allocated_count \in [Pages -> 0..PageSize]
    BY GivenBound DEF TypeInv, CountInv
  <2>3. \A h \in held : (h.index + 1) * Classes[h.class] <= MetadataOffset(h.class)
    BY <1>1, LayoutFacts DEF HeldInv
  <2>4. \A c \in Class : MetadataOffset(c) + NodeSize <= PageSize
    BY LayoutFacts
  <2>5. result = << >> \/ result \in (0..Len(Classes)) \X Outcomes
    BY DEF ResultInv
  <2>6. /\ slabs \in [Class -> Seq(Pages)] /\ pool \subseteq Pages /\ panic \in BOOLEAN
        /\ held \subseteq [class : Class, page : Pages, index : Nat]
    BY DEF TypeInv, Handles
  <2> QED BY <2>1, <2>2, <2>3, <2>4, <2>5, <2>6 DEF TypeOK
<1>4. CountsExact
  <2>1. \A p \in Pages : allocated_count[p] = Cardinality({h \in held : h.page = p})
    BY DEF CountInv, Given
  <2>2. ASSUME NEW c \in Class, \A h \in held : h.class # c
        PROVE  Reapable(c) = Len(slabs[c])
    <3>1. ASSUME NEW i \in 1..Len(slabs[c])
          PROVE  allocated_count[slabs[c][i]] = 0
      <4>1. PICK p \in Pages : p = slabs[c][i] /\ p \in Range(slabs[c])
        BY RangeFacts DEF TypeInv
      <4>2. \A h \in held : h.page # p
        <5>1. ASSUME NEW h \in held, h.page = p PROVE FALSE
          <6>1. p \in Range(slabs[h.class]) /\ h.class \in Class
            BY <1>1, <5>1 DEF HeldInv
          <6> QED BY <2>2, <4>1, <6>1, PageFacts
        <5> QED BY <5>1
      <4>3. Given(p) = {}
        BY <4>2 DEF Given
      <4> QED BY <4>1, <4>3, FS_EmptySet DEF CountInv
    <3>2. {i \in 1..Len(slabs[c]) : allocated_count[slabs[c][i]] # 0} = {}
      BY <3>1
    <3> QED BY <3>2 DEF Reapable
  <2> QED BY <2>1, <2>2 DEF CountsExact
<1>5. held \subseteq Objects
  <2>1. ASSUME NEW h \in held PROVE h \in Objects
    <3>1. h.page \in Range(slabs[h.class]) /\ h.index < ObjectCount(h.class)
      BY DEF HeldInv
    <3>2. h.index \in 0..PageSize
      BY <1>0, <1>1, <3>1, ObjectCountFacts
    <3>3. h \in [class : Class, page : Pages, index : 0..PageSize]
      BY <1>1, <3>2 DEF Handles
    <3> QED BY <3>1, <3>3 DEF Objects
  <2> QED BY <2>1
<1>6. ASSUME NEW c \in Class, NEW p \in Range(slabs[c])
      PROVE  LET given == {h.index : h \in {g \in held : g.page = p}}
             IN  /\ given \cap Range(free_objects[p]) = {}
                 /\ given \cup Range(free_objects[p]) = 0..(ObjectCount(c) - 1)
                 /\ IsInjective(free_objects[p])
  <2> DEFINE given == {h.index : h \in {g \in held : g.page = p}}
             free == Range(free_objects[p])
  <2>1. p \in Pages /\ Complements(free_objects[p], c, p)
    BY PageFacts DEF StackInv
  <2>2. free \subseteq Nat
    BY <2>1, RangeFacts DEF TypeInv
  <2>3. \A i : i \in given <=> InUse(p, i)
    BY DEF InUse
  <2>4. given \subseteq Nat /\ \A i \in given : i < ObjectCount(c)
    <3>1. ASSUME NEW h \in held, h.page = p
          PROVE  h.index \in Nat /\ h.index < ObjectCount(c)
      <4>1. h.class = c
        BY <1>1, <3>1, PageFacts DEF HeldInv
      <4> QED BY <1>1, <3>1, <4>1 DEF HeldInv
    <3> QED BY <3>1
  <2> HIDE DEF given
  <2>5. \A i \in Nat : i \in free <=> i < ObjectCount(c) /\ i \notin given
    BY <2>1, <2>3 DEF Complements
  <2> HIDE DEF free
  <2>6. \A i \in Nat : i \in free \/ i \in given <=> i < ObjectCount(c)
    BY <2>4, <2>5
  <2>7. given \cap free = {}
    BY <2>2, <2>5
  <2>8. ObjectCount(c) \in Nat
    BY ObjectCountFacts
  <2>9. given \cup free = 0..(ObjectCount(c) - 1)
    <3>1. \A i : i \in 0..(ObjectCount(c) - 1) <=> i \in Nat /\ i < ObjectCount(c)
      BY <2>8
    <3>2. \A i : i \in given \cup free <=> i \in 0..(ObjectCount(c) - 1)
      BY <2>2, <2>4, <2>6, <3>1
    <3> QED BY <3>2
  <2>10. IsInjective(free_objects[p])
    BY <2>1 DEF Complements
  <2> QED BY <2>7, <2>9, <2>10 DEF given, free
<1> QED BY <1>3, <1>4, <1>5, <1>6 DEF ObjectsPartitioned

(* The invariant finds a held object's slab, and its stack lacks it.       *)
LEMMA InvFreeable == Inv => HeldCanBeFreed
<1> SUFFICES ASSUME Inv PROVE HeldCanBeFreed
  OBVIOUS
<1>1. ASSUME NEW h \in held
      PROVE  free_returns(h.class, h.page, h.index) = "Ok"
  <2>1. h.class \in Class /\ h.page \in Pages /\ h.index \in Nat
    BY DEF Inv, StateInv, TypeInv, Handles
  <2>2. h.page \in Range(slabs[h.class]) /\ h.index < ObjectCount(h.class)
    BY DEF Inv, StateInv, HeldInv
  <2>3. InUse(h.page, h.index)
    BY DEF InUse
  <2>4. h.index \notin Range(free_objects[h.page])
    BY <2>1, <2>2, <2>3 DEF Inv, StateInv, StackInv, Complements
  <2>5. ~(h.index >= ObjectCount(h.class))
    BY <2>1, <2>2, ObjectCountFacts
  <2> QED BY <2>2, <2>4, <2>5 DEF free_returns
<1> QED BY <1>1 DEF Inv, ResultInv, HeldCanBeFreed

(* The heap's invariant, for all classes, pages and layouts: the counts,   *)
(* stacks, lists and the pool of internal.rs agree after every call.       *)
THEOREM InvariantHolds == Spec => []Inv
BY InitInv, NextPreserves, PTL DEF Spec

(* The heap's objects stay partitioned: for all sizes the slab's node lies *)
(* behind its objects and in its page, and every object is free once or    *)
(* has one caller (allocate, free, grow and reap of internal.rs).          *)
THEOREM AlwaysPartitioned == Spec => []ObjectsPartitioned
BY InvariantHolds, InvObjects, PTL

(* grow and reap neither lose a page nor give it to two classes.           *)
THEOREM PagesAccounted == Spec => []PagesPartitioned
<1>1. Inv => PagesPartitioned
  BY DEF Inv, StateInv
<1> QED BY <1>1, InvariantHolds, PTL

(* dealloc never panics for an object that alloc returned.                 *)
THEOREM FreesSucceed == Spec => []HeldCanBeFreed
BY InvariantHolds, InvFreeable, PTL

(* alloc fails only without a free object and without a page.              *)
THEOREM FailuresAreReal == Spec => []FailureMeansNoMemory
<1>1. Inv => FailureMeansNoMemory
  BY DEF Inv
<1> QED BY <1>1, InvariantHolds, PTL
=============================================================================
