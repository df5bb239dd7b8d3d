-------------------------- MODULE LapicInterrupts ---------------------------
(***************************************************************************)
(* Interrupts on the boot processor and the locks around the local APICs   *)
(* (kernel/src/arch/x86_64/event.rs, apic/lapic.rs).                       *)
(*                                                                         *)
(* Two contexts share the processor: the kernel, and the handler           *)
(* generic_irq_isr, which runs on top of the kernel until its iretq.  Both *)
(* look the processor's local APIC up with get_apic, which walks           *)
(* LOCAL_APICS and locks each entry on its way.  The lock does not disable *)
(* interrupts, and after Idt::init they stay enabled except in a handler   *)
(* (interrupt gates).  The other processors are never started, so their    *)
(* entries are only visited.                                               *)
(***************************************************************************)
EXTENDS Integers, Sequences

CONSTANTS
    LocalApics,  \* LOCAL_APICS: the APIC ids in the order of the MADT
    ThisApic     \* get_this_apic_id()

ASSUME LocalApicsAssumption ==
    LocalApics \in Seq(Nat) /\ \E i \in 1..Len(LocalApics) : LocalApics[i] = ThisApic

VARIABLES
    lock,        \* lock[i]: the flag of the spin lock of entry i
    pc,          \* where each context is
    at,          \* the entry each context has come to
    walk,        \* the kernel visits every entry instead of looking for one
    irr,         \* an interrupt waits to be delivered
    inService    \* an interrupt was delivered and its EOI is outstanding

vars == <<lock, pc, at, walk, irr, inService>>

Entries == 1..Len(LocalApics)
Contexts == {"kernel", "isr"}

Init ==
    /\ lock = [i \in Entries |-> FALSE]
    /\ pc = [x \in Contexts |-> "idle"]
    /\ at = [x \in Contexts |-> 1]
    /\ walk = FALSE
    /\ irr = FALSE
    /\ inService = FALSE

(* The handler runs to its end before the kernel goes on. *)
Runs(x) == x = "kernel" => pc["isr"] = "idle"

Searches(x) == x = "isr" \/ ~walk
-----------------------------------------------------------------------------
(* Some device or a spurious source raises the vector of generic_irq_isr.  *)
Raise ==
    /\ ~irr
    /\ irr' = TRUE
    /\ UNCHANGED <<lock, pc, at, walk, inService>>

(* The local APIC delivers it once the previous one was acknowledged; the  *)
(* interrupt gate keeps the processor from being interrupted in a handler. *)
Deliver ==
    /\ irr /\ ~inService
    /\ pc["isr"] = "idle"
    /\ irr' = FALSE
    /\ inService' = TRUE
    /\ pc' = [pc EXCEPT !["isr"] = "spin"]
    /\ at' = [at EXCEPT !["isr"] = 1]
    /\ UNCHANGED <<lock, walk>>

(* The kernel calls get_apic (the APIC timer's configure and set_disabled, *)
(* find_base_frequency), or config_lints or override_base, which lock      *)
(* every entry in turn.                                                    *)
Call(all) ==
    /\ pc["kernel"] = "idle" /\ Runs("kernel")
    /\ walk' = all
    /\ pc' = [pc EXCEPT !["kernel"] = "spin"]
    /\ at' = [at EXCEPT !["kernel"] = 1]
    /\ UNCHANGED <<lock, irr, inService>>

(* A lock that is entered whether or not it was free. *)
Swap_unconditional(x) ==
    /\ pc[x] = "spin" /\ Runs(x)
    /\ lock' = [lock EXCEPT ![at[x]] = TRUE]
    /\ pc' = [pc EXCEPT ![x] = "locked"]
    /\ UNCHANGED <<at, walk, irr, inService>>

(* lapic.lock(): one turn of the spin loop. *)
Swap(x) ==
    /\ pc[x] = "spin" /\ Runs(x)
    /\ lock' = [lock EXCEPT ![at[x]] = TRUE]
    /\ pc' = [pc EXCEPT ![x] = IF lock[at[x]] THEN "spin" ELSE "locked"]
    /\ UNCHANGED <<at, walk, irr, inService>>

(* A search that keeps the guards of the entries it passed. *)
Skip_guard_kept(x) ==
    /\ pc[x] = "locked" /\ Runs(x)
    /\ Searches(x) /\ LocalApics[at[x]] # ThisApic
    /\ at' = [at EXCEPT ![x] = @ + 1]
    /\ pc' = [pc EXCEPT ![x] = "spin"]
    /\ UNCHANGED <<lock, walk, irr, inService>>

(* find(...): not this one, its guard is dropped before the next lock.     *)
Skip(x) ==
    /\ pc[x] = "locked" /\ Runs(x)
    /\ Searches(x) /\ LocalApics[at[x]] # ThisApic
    /\ lock' = [lock EXCEPT ![at[x]] = FALSE]
    /\ at' = [at EXCEPT ![x] = @ + 1]
    /\ pc' = [pc EXCEPT ![x] = "spin"]
    /\ UNCHANGED <<walk, irr, inService>>

(* A handler that returns without acknowledging its interrupt. *)
Use_no_eoi(x) ==
    /\ pc[x] = "locked" /\ Runs(x)
    /\ Searches(x) => LocalApics[at[x]] = ThisApic
    /\ pc' = [pc EXCEPT ![x] = "using"]
    /\ UNCHANGED <<lock, at, walk, irr, inService>>

(* The registers are accessed under the guard: the handler calls           *)
(* signal_eoi, the kernel configures the timer or the LINT pins.           *)
Use(x) ==
    /\ pc[x] = "locked" /\ Runs(x)
    /\ Searches(x) => LocalApics[at[x]] = ThisApic
    /\ inService' = (inService /\ x # "isr")
    /\ pc' = [pc EXCEPT ![x] = "using"]
    /\ UNCHANGED <<lock, at, walk, irr>>

(* The guard is dropped.  The handler returns; config_lints and            *)
(* override_base go on to the next entry.                                  *)
Drop(x) ==
    /\ pc[x] = "using" /\ Runs(x)
    /\ lock' = [lock EXCEPT ![at[x]] = FALSE]
    /\ IF Searches(x) \/ at[x] = Len(LocalApics)
       THEN pc' = [pc EXCEPT ![x] = "idle"] /\ at' = at
       ELSE pc' = [pc EXCEPT ![x] = "spin"] /\ at' = [at EXCEPT ![x] = @ + 1]
    /\ UNCHANGED <<walk, irr, inService>>

Step(x) == Swap(x) \/ Skip(x) \/ Use(x) \/ Drop(x)

Next ==
    \/ Raise
    \/ Deliver
    \/ \E all \in BOOLEAN : Call(all)
    \/ \E x \in Contexts : Step(x)

(* The processor keeps executing whichever context is on top, and the APIC *)
(* delivers what it can.                                                   *)
Spec ==
    /\ Init /\ [][Next]_vars
    /\ WF_vars(Deliver)
    /\ \A x \in Contexts : WF_vars(Step(x))
-----------------------------------------------------------------------------
Holds(x, i) == pc[x] \in {"locked", "using"} /\ at[x] = i

(* The handler waits for a guard that the kernel code under it holds.      *)
SelfBlocked ==
    \E i \in Entries : Holds("kernel", i) /\ pc["isr"] = "spin" /\ at["isr"] = i

(* Type invariant. *)
TypeOK ==
    /\ lock \in [Entries -> BOOLEAN]
    /\ pc \in [Contexts -> {"idle", "spin", "locked", "using"}]
    /\ at \in [Contexts -> Entries]
    /\ walk \in BOOLEAN /\ irr \in BOOLEAN /\ inService \in BOOLEAN

(* The kernel and a handler never both have the registers of one local     *)
(* APIC, and a flag is set exactly while a guard for it exists.            *)
GuardsExclusive ==
    TypeOK /\ \A i \in Entries :
        /\ ~(Holds("kernel", i) /\ Holds("isr", i))
        /\ lock[i] <=> \E x \in Contexts : Holds(x, i)

(* Every interrupt is acknowledged, except that a handler which interrupts *)
(* the holder of an entry it has to visit never is.                        *)
EoiUnlessSelfBlocked == inService ~> (~inService \/ SelfBlocked)

(* A pending interrupt is delivered, with the same exception. *)
DeliveredUnlessSelfBlocked == irr ~> (~irr \/ SelfBlocked)

(* "This function MUST be called from every IRQ ISR so new interrupts can  *)
(* be processed": every handler gets to its signal_eoi.                    *)
EoiFollows == inService ~> ~inService
=============================================================================
