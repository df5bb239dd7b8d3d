--------------------------- MODULE BuddyRefinement ---------------------------
(***************************************************************************)
(* The buddy allocator implements PageFrames: seen through its free pages  *)
(* and the blocks it handed out, every step is one of PageFrames.          *)
(***************************************************************************)
EXTENDS BuddyProofs

Grants == {Span(h) : h \in held}

(* A block of pages is a run. *)
LEMMA BlockIsRun ==
    ASSUME NEW a \in Nat, NEW i \in Levels, Block(a, i) \subseteq Page
    PROVE  Block(a, i) \in Frames!Runs /\ Block(a, i) # {}
<1>1. /\ 2^i \in Nat \ {0} /\ a \in Block(a, i)
      /\ (a + 2^i) - 1 \in Block(a, i)
  BY ZonesLenNat, InOwnBlock
<1>2. a \in Page /\ (a + 2^i) - 1 \in Page
  BY <1>1
<1>3. Block(a, i) = a..((a + 2^i) - 1)
  BY <1>1 DEF Block
<1>4. Block(a, i) \in {ends[1]..ends[2] : ends \in Page \X Page}
  <2> DEFINE ends == <<a, (a + 2^i) - 1>>
  <2>1. ends \in Page \X Page /\ Block(a, i) = ends[1]..ends[2]
    BY <1>2, <1>3
  <2> QED
    BY <2>1
<1> QED
  BY <1>1, <1>4 DEF Frames!Runs

LEMMA HeldIsRun ==
    ASSUME HeldInv, NEW h \in held
    PROVE  Span(h) \in Frames!Runs /\ Span(h) # {}
<1>1. /\ h.addr \in Nat /\ Order(h.count) \in Levels
      /\ Block(h.addr, Order(h.count)) \subseteq Page
  BY DEF HeldInv, Span
<1> QED
  BY <1>1, BlockIsRun DEF Span

(* A step of the allocator is a step of PageFrames. *)
LEMMA FramesStep ==
    ASSUME Inv, Inv', MemoryStep
    PROVE  [Frames!Next]_(Frames!vars)
<1>1. CASE Untouched
  <2>1. FreePages' = FreePages /\ {Span(h) : h \in held}' = {Span(h) : h \in held}
    BY <1>1 DEF Untouched
  <2> QED
    BY <2>1 DEF Frames!vars
<1>2. ASSUME NEW h \in held', Taken(h)
      PROVE  Frames!Next
  <2>1. Span(h) \in Frames!Runs
    <3>1. /\ h.addr \in Nat /\ Order(h.count) \in Levels
          /\ Block(h.addr, Order(h.count)) \subseteq Page
      BY DEF Inv, SafeInv, HeldInv, Span
    <3> QED
      BY <3>1, BlockIsRun DEF Span
  <2>2. {Span(g) : g \in held}' = {Span(g) : g \in held} \cup {Span(h)}
    BY <1>2 DEF Taken
  <2>3. Frames!Grant(Span(h))
    BY <1>2, <2>2 DEF Frames!Grant, Taken
  <2> QED
    BY <2>1, <2>3 DEF Frames!Next
<1>3. ASSUME NEW h \in held, Given(h)
      PROVE  Frames!Next
  <2>1. Span(h) \in Frames!Runs /\ Span(h) # {}
    BY HeldIsRun DEF Inv, SafeInv
  <2>2. \A g \in held : Span(g) = Span(h) => g = h
    BY <2>1 DEF Inv, SafeInv, HeldDisjoint
  <2>3. {Span(g) : g \in held}' = {Span(g) : g \in held} \ {Span(h)}
    BY <1>3, <2>2 DEF Given
  <2>4. Frames!Return(Span(h))
    BY <1>3, <2>3 DEF Frames!Return, Given
  <2> QED
    BY <2>1, <2>4 DEF Frames!Next
<1>4. ASSUME NEW a \in Nat, NEW i \in Levels, Block(a, i) \subseteq Page, Added(Block(a, i))
      PROVE  Frames!Next
  <2>1. Block(a, i) \in Frames!Runs
    BY <1>4, BlockIsRun
  <2>2. {Span(g) : g \in held} = {} /\ {Span(g) : g \in held}' = {}
    BY <1>4 DEF Added
  <2>3. Frames!Donate(Block(a, i))
    BY <1>4, <2>2 DEF Frames!Donate, Added
  <2> QED
    BY <2>1, <2>3 DEF Frames!Next
<1> QED
  BY <1>1, <1>2, <1>3, <1>4 DEF MemoryStep

(* The allocator implements its specification. *)
THEOREM Refinement == AtCountsArePowers => (Spec => ImplementsPageFrames)
<1> SUFFICES ASSUME AtCountsArePowers PROVE Spec => ImplementsPageFrames
  OBVIOUS
<1>1. Init => Frames!Init
  <2> SUFFICES ASSUME Init PROVE Frames!Init
    OBVIOUS
  <2>1. FreePages = {} /\ {Span(h) : h \in held} = {}
    BY DEF Init, FreePages
  <2> QED
    BY <2>1 DEF Frames!Init
<1>2. Inv /\ Inv' /\ [Next]_vars => [Frames!Next]_(Frames!vars)
  BY InvStep, FramesStep
<1>3. Spec => []Inv
  BY InvariantHolds
<1> QED
  BY <1>1, <1>2, <1>3, PTL DEF Spec, ImplementsPageFrames, Frames!Spec
=============================================================================
