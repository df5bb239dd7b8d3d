---------------------------- MODULE LapicProofs -----------------------------
(***************************************************************************)
(* For every list of local APICs with the running processor's in it: the   *)
(* guards of the kernel and of an interrupt handler exclude each other,    *)
(* and no walk over the list runs past its end.                            *)
(***************************************************************************)
EXTENDS LapicInterrupts, TLAPS

(* A search has not passed the entry it looks for. *)
NotPassed ==
    \A x \in Contexts :
      pc[x] \in {"spin", "locked"} /\ Searches(x) =>
        \A j \in 1..(at[x] - 1) : LocalApics[j] # ThisApic

(* The inductive invariant.  GuardsExclusive alone does not bound a search *)
(* that skips an entry.                                                    *)
Inv == GuardsExclusive /\ NotPassed

LEMMA LengthIsNat == Len(LocalApics) \in Nat /\ DOMAIN LocalApics = Entries
BY LocalApicsAssumption DEF Entries

LEMMA InitInv == Init => Inv
<1> SUFFICES ASSUME Init PROVE Inv
  OBVIOUS
<1>1. 1 \in Entries
  BY LengthIsNat, LocalApicsAssumption DEF Entries
<1>2. TypeOK
  BY <1>1 DEF Init, TypeOK, Contexts
<1>3. GuardsExclusive
  BY <1>2 DEF Init, GuardsExclusive, Holds, Contexts
<1>4. NotPassed
  BY DEF Init, NotPassed, Contexts
<1> QED BY <1>3, <1>4 DEF Inv

(* A search that skips an entry has another one in front of it. *)
LEMMA SkipStaysInside ==
    ASSUME Inv, NEW x \in Contexts, Skip(x)
    PROVE  at[x] + 1 \in Entries
<1>1. at[x] \in Entries /\ Len(LocalApics) \in Nat
  BY LengthIsNat DEF Inv, GuardsExclusive, TypeOK
<1>2. \A j \in 1..at[x] : LocalApics[j] # ThisApic
  <2>1. \A j \in 1..(at[x] - 1) : LocalApics[j] # ThisApic
    BY DEF Inv, NotPassed, Skip
  <2>2. LocalApics[at[x]] # ThisApic
    BY DEF Skip
  <2> QED BY <2>1, <2>2, <1>1 DEF Entries
<1>3. PICK i \in 1..Len(LocalApics) : LocalApics[i] = ThisApic
  BY LocalApicsAssumption
<1>4. i > at[x]
  BY <1>1, <1>2, <1>3 DEF Entries
<1> QED BY <1>1, <1>3, <1>4 DEF Entries

LEMMA TypePreserved ==
    ASSUME Inv, [Next]_vars
    PROVE  TypeOK'
<1> USE LengthIsNat
<1>0. TypeOK
  BY DEF Inv, GuardsExclusive
<1>a. 1 \in Entries
  BY LocalApicsAssumption DEF Entries
<1>1. CASE Raise
  BY <1>0, <1>1 DEF Raise, TypeOK
<1>2. CASE Deliver
  BY <1>0, <1>2, <1>a DEF Deliver, TypeOK, Contexts
<1>3. ASSUME NEW all \in BOOLEAN, Call(all) PROVE TypeOK'
  BY <1>0, <1>3, <1>a DEF Call, TypeOK, Contexts
<1>4. ASSUME NEW x \in Contexts, Swap(x) PROVE TypeOK'
  BY <1>0, <1>4 DEF Swap, TypeOK
<1>5. ASSUME NEW x \in Contexts, Skip(x) PROVE TypeOK'
  <2>1. at[x] + 1 \in Entries
    BY <1>5, SkipStaysInside
  <2> QED BY <1>0, <1>5, <2>1 DEF Skip, TypeOK
<1>6. ASSUME NEW x \in Contexts, Use(x) PROVE TypeOK'
  BY <1>0, <1>6 DEF Use, TypeOK
<1>7. ASSUME NEW x \in Contexts, Drop(x) PROVE TypeOK'
  <2>1. at[x] # Len(LocalApics) => at[x] + 1 \in Entries
    BY <1>0 DEF TypeOK, Entries
  <2> QED BY <1>0, <1>7, <2>1 DEF Drop, TypeOK
<1>8. CASE UNCHANGED vars
  BY <1>0, <1>8 DEF vars, TypeOK
<1> QED BY <1>1, <1>2, <1>3, <1>4, <1>5, <1>6, <1>7, <1>8 DEF Next, Step

(* Guards: what a context holds and which flags are set, in one step. *)
Exclusive ==
    \A i \in Entries :
        /\ ~(Holds("kernel", i) /\ Holds("isr", i))
        /\ lock[i] <=> \E x \in Contexts : Holds(x, i)

LEMMA ExclusivePreserved ==
    ASSUME Inv, [Next]_vars
    PROVE  Exclusive'
<1>0. TypeOK /\ Exclusive /\ TypeOK'
  BY TypePreserved DEF Inv, GuardsExclusive, Exclusive
<1> SUFFICES ASSUME NEW i \in Entries
    PROVE /\ ~(Holds("kernel", i) /\ Holds("isr", i))'
          /\ lock'[i] <=> (\E x \in Contexts : Holds(x, i))'
  BY DEF Exclusive, Entries
<1> USE DEF TypeOK, Exclusive, Holds, Contexts
<1>1. CASE Raise
  BY <1>0, <1>1 DEF Raise
<1>2. CASE Deliver
  BY <1>0, <1>2 DEF Deliver
<1>3. ASSUME NEW all \in BOOLEAN, Call(all)
      PROVE /\ ~(Holds("kernel", i) /\ Holds("isr", i))'
            /\ lock'[i] <=> (\E x \in Contexts : Holds(x, i))'
  BY <1>0, <1>3 DEF Call
<1>4. ASSUME NEW y \in Contexts, Swap(y)
      PROVE /\ ~(Holds("kernel", i) /\ Holds("isr", i))'
            /\ lock'[i] <=> (\E x \in Contexts : Holds(x, i))'
  BY <1>0, <1>4 DEF Swap
<1>5. ASSUME NEW y \in Contexts, Skip(y)
      PROVE /\ ~(Holds("kernel", i) /\ Holds("isr", i))'
            /\ lock'[i] <=> (\E x \in Contexts : Holds(x, i))'
  BY <1>0, <1>5 DEF Skip
<1>6. ASSUME NEW y \in Contexts, Use(y)
      PROVE /\ ~(Holds("kernel", i) /\ Holds("isr", i))'
            /\ lock'[i] <=> (\E x \in Contexts : Holds(x, i))'
  BY <1>0, <1>6 DEF Use
<1>7. ASSUME NEW y \in Contexts, Drop(y)
      PROVE /\ ~(Holds("kernel", i) /\ Holds("isr", i))'
            /\ lock'[i] <=> (\E x \in Contexts : Holds(x, i))'
  BY <1>0, <1>7 DEF Drop
<1>8. CASE UNCHANGED vars
  BY <1>0, <1>8 DEF vars
<1> QED BY <1>1, <1>2, <1>3, <1>4, <1>5, <1>6, <1>7, <1>8 DEF Next, Step

LEMMA NotPassedPreserved ==
    ASSUME Inv, [Next]_vars
    PROVE  NotPassed'
<1>0. TypeOK /\ NotPassed /\ Len(LocalApics) \in Nat
  BY LengthIsNat DEF Inv, GuardsExclusive
<1> SUFFICES ASSUME NEW x \in Contexts, pc'[x] \in {"spin", "locked"}, Searches(x)',
                    NEW j \in 1..(at'[x] - 1)
    PROVE LocalApics[j] # ThisApic
  BY DEF NotPassed
<1> USE DEF TypeOK, NotPassed, Searches, Contexts, Entries
<1>1. CASE Raise
  BY <1>0, <1>1 DEF Raise
<1>2. CASE Deliver
  BY <1>0, <1>2 DEF Deliver
<1>3. ASSUME NEW all \in BOOLEAN, Call(all) PROVE LocalApics[j] # ThisApic
  BY <1>0, <1>3 DEF Call
<1>4. ASSUME NEW y \in Contexts, Swap(y) PROVE LocalApics[j] # ThisApic
  BY <1>0, <1>4 DEF Swap
<1>5. ASSUME NEW y \in Contexts, Skip(y) PROVE LocalApics[j] # ThisApic
  <2>1. CASE x = y
    BY <1>0, <1>5, <2>1 DEF Skip
  <2>2. CASE x # y
    BY <1>0, <1>5, <2>2 DEF Skip
  <2> QED BY <2>1, <2>2
<1>6. ASSUME NEW y \in Contexts, Use(y) PROVE LocalApics[j] # ThisApic
  BY <1>0, <1>6 DEF Use
<1>7. ASSUME NEW y \in Contexts, Drop(y) PROVE LocalApics[j] # ThisApic
  <2>1. x # y
    BY <1>0, <1>7 DEF Drop
  <2> QED BY <1>0, <1>7, <2>1 DEF Drop
<1>8. CASE UNCHANGED vars
  BY <1>0, <1>8 DEF vars
<1> QED BY <1>1, <1>2, <1>3, <1>4, <1>5, <1>6, <1>7, <1>8 DEF Next, Step

(* For every list of local APICs: whatever the kernel was doing when the   *)
(* interrupt came, generic_irq_isr and the kernel never have one APIC's    *)
(* registers at the same time, a spin lock's flag is set exactly while its *)
(* guard exists, and get_apic, config_lints and override_base stay inside  *)
(* the list.                                                               *)
THEOREM AlwaysExclusive == Spec => []GuardsExclusive
<1>1. Init => Inv
  BY InitInv
<1>2. Inv /\ [Next]_vars => Inv'
  BY TypePreserved, ExclusivePreserved, NotPassedPreserved
     DEF Inv, GuardsExclusive, Exclusive
<1>3. Inv => GuardsExclusive
  BY DEF Inv
<1> QED BY <1>1, <1>2, <1>3, PTL DEF Spec
=============================================================================
