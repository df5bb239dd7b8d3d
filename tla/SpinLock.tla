------------------------------ MODULE SpinLock ------------------------------
(***************************************************************************)
(* The spin lock (utils/src/sync/spinlock.rs) that guards every shared     *)
(* structure of the kernel: lock, the guard, and the guard's drop, which   *)
(* runs custom_unlock before it clears the flag.                           *)
(*                                                                         *)
(* One step is one access to shared memory: the atomic swap, the read and  *)
(* the write of a critical section that changes the data, the write made   *)
(* by custom_unlock, and the atomic store.  The data is a log of the       *)
(* writes, so that a lost or misplaced write shows.                        *)
(***************************************************************************)
EXTENDS Integers, Sequences

CONSTANTS
    Threads,     \* processors that use the lock
    MaxLog       \* bound: no new lock() call once the log is this long

ASSUME MaxLogAssumption == MaxLog \in Nat

VARIABLES
    lock,        \* the AtomicBool
    data,        \* the SyncUnsafeCell
    pc,          \* where each thread is
    reg          \* what each thread has read of the data

vars == <<lock, data, pc, reg>>

Op(t) == <<t, "op">>
Cleanup(t) == <<t, "cleanup">>

Init ==
    /\ lock = FALSE
    /\ data = << >>
    /\ pc = [t \in Threads |-> "out"]
    /\ reg = [t \in Threads |-> << >>]

Goto(t, place) == pc' = [pc EXCEPT ![t] = place]

(* A caller of lock() enters spin_until!. *)
Call(t) ==
    /\ pc[t] = "out"
    /\ Len(data) < MaxLog
    /\ Goto(t, "spin")
    /\ UNCHANGED <<lock, data, reg>>

(* The swap of a lock that tests and sets in two steps instead of one.     *)
Swap_not_atomic(t) ==
    \/ /\ pc[t] = "spin" /\ ~lock
       /\ Goto(t, "seen")
       /\ UNCHANGED <<lock, data, reg>>
    \/ /\ pc[t] = "seen"
       /\ lock' = TRUE
       /\ Goto(t, "locked")
       /\ UNCHANGED <<data, reg>>

(* spin_until!(!self.lock.swap(true)): leaves the loop on reading false.   *)
Swap(t) ==
    /\ pc[t] = "spin"
    /\ lock' = TRUE
    /\ Goto(t, IF lock THEN "spin" ELSE "locked")
    /\ UNCHANGED <<data, reg>>

(* The critical section, through the guard's &mut T. *)
Read(t) ==
    /\ pc[t] = "locked"
    /\ reg' = [reg EXCEPT ![t] = data]
    /\ Goto(t, "read")
    /\ UNCHANGED <<lock, data>>

Write(t) ==
    /\ pc[t] = "read"
    /\ data' = Append(reg[t], Op(t))
    /\ reg' = [reg EXCEPT ![t] = << >>]
    /\ Goto(t, "dropping")
    /\ UNCHANGED lock

(* drop: a cleanup that runs after the flag is cleared. *)
CustomUnlock_late(t) ==
    /\ pc[t] = "dropping"
    /\ lock' = FALSE
    /\ Goto(t, "unlocking")
    /\ UNCHANGED <<data, reg>>

(* drop: self.data.custom_unlock() *)
CustomUnlock(t) ==
    /\ pc[t] = "dropping"
    /\ data' = Append(data, Cleanup(t))
    /\ Goto(t, "unlocking")
    /\ UNCHANGED <<lock, reg>>

(* A guard that is dropped without clearing the flag. *)
Unlock_forgotten(t) ==
    /\ pc[t] = "unlocking"
    /\ Goto(t, "out")
    /\ UNCHANGED <<lock, data, reg>>

(* drop: self.lock.unlock() *)
Unlock(t) ==
    /\ pc[t] = "unlocking"
    /\ lock' = FALSE
    /\ Goto(t, "out")
    /\ UNCHANGED <<data, reg>>

Run(t) == Swap(t) \/ Read(t) \/ Write(t) \/ CustomUnlock(t) \/ Unlock(t)

Next == \E t \in Threads : Call(t) \/ Run(t)

Spec == Init /\ [][Next]_vars

(* Processors do not stop between two instructions.  A processor that      *)
(* loses every race for the flag is not helped by the code, so nothing     *)
(* stronger than weak fairness is assumed; nor need a thread ever lock.    *)
FairSpec == Spec /\ \A t \in Threads : WF_vars(Run(t))
-----------------------------------------------------------------------------
Inside(t) == pc[t] \in {"locked", "read", "dropping", "unlocking"}

(* The longest prefix of the log that consists of complete uses. *)
Completed == SubSeq(data, 1, 2 * (Len(data) \div 2))

(* Type invariant. *)
TypeOK ==
    /\ lock \in BOOLEAN
    /\ data \in Seq(Threads \X {"op", "cleanup"})
    /\ pc \in [Threads -> {"out", "spin", "locked", "read", "dropping", "unlocking"}]
    /\ reg \in [Threads -> Seq(Threads \X {"op", "cleanup"})]

(* At most one guard exists, and only while the flag is set: the exclusive *)
(* reference that lock() creates from the cell is really exclusive.        *)
MutualExclusion ==
    /\ \A t \in Threads : Inside(t) => lock
    /\ \A t, u \in Threads : Inside(t) /\ Inside(u) => t = u

(* The flag is never left set by nobody: it would stay set for ever.       *)
LockHasOwner == lock => \E t \in Threads : Inside(t)

(* Every use of the data, with its custom_unlock, appears to happen at     *)
(* once: no write is lost and nobody sees the data between an operation    *)
(* and its cleanup.                                                        *)
Object == INSTANCE AtomicObject WITH log <- Completed

ImplementsAtomicObject == Object!Spec

(* If somebody waits for the lock then somebody gets it.                   *)
SomebodyGetsIn ==
    (\E t \in Threads : pc[t] = "spin") ~> (\E t \in Threads : pc[t] = "locked")
=============================================================================
