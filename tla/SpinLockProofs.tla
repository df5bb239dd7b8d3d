--------------------------- MODULE SpinLockProofs ---------------------------
(***************************************************************************)
(* Mutual exclusion of the spin lock and atomicity of what it guards, for  *)
(* every set of threads.                                                   *)
(***************************************************************************)
EXTENDS SpinLock, SequenceTheorems, TLAPS

Event == Threads \X {"op", "cleanup"}

(* The log is even between two uses and odd from the operation to its      *)
(* cleanup, and what a thread has read is still what is there.             *)
LogInv ==
    /\ \A t \in Threads : pc[t] = "read" => reg[t] = data
    /\ (\A t \in Threads : pc[t] # "dropping") => Len(data) % 2 = 0
    /\ \A t \in Threads : pc[t] = "dropping" =>
          Len(data) % 2 = 1 /\ data[Len(data)] = Op(t)

Inv == TypeOK /\ MutualExclusion /\ LockHasOwner /\ LogInv
-----------------------------------------------------------------------------
LEMMA TypeStep ==
    ASSUME TypeOK, [Next]_vars
    PROVE  TypeOK'
<1> USE DEF TypeOK, vars, Goto, Event
<1>0. \A t \in Threads : Op(t) \in Event /\ Cleanup(t) \in Event
  BY DEF Op, Cleanup
<1>1. ASSUME NEW t \in Threads, Call(t) PROVE TypeOK'
  BY <1>1 DEF Call
<1>2. ASSUME NEW t \in Threads, Swap(t) PROVE TypeOK'
  BY <1>2 DEF Swap
<1>3. ASSUME NEW t \in Threads, Read(t) PROVE TypeOK'
  BY <1>3 DEF Read
<1>4. ASSUME NEW t \in Threads, Write(t) PROVE TypeOK'
  <2>1. reg[t] \in Seq(Event) /\ Op(t) \in Event
    BY <1>0
  <2>2. Append(reg[t], Op(t)) \in Seq(Event)
    BY <2>1, AppendProperties
  <2> QED
    BY <1>4, <2>2 DEF Write
<1>5. ASSUME NEW t \in Threads, CustomUnlock(t) PROVE TypeOK'
  <2>2. Append(data, Cleanup(t)) \in Seq(Event)
    BY <1>0, AppendProperties
  <2> QED
    BY <1>5, <2>2 DEF CustomUnlock
<1>6. ASSUME NEW t \in Threads, Unlock(t) PROVE TypeOK'
  BY <1>6 DEF Unlock
<1> QED
  BY <1>1, <1>2, <1>3, <1>4, <1>5, <1>6 DEF Next, Run

(* Who is inside changes only when a swap reads false and at the store.    *)
LEMMA ExclusionStep ==
    ASSUME TypeOK, MutualExclusion, LockHasOwner, [Next]_vars
    PROVE  MutualExclusion' /\ LockHasOwner'
<1> USE DEF TypeOK, MutualExclusion, LockHasOwner, Inside, Goto
<1>1. ASSUME NEW t \in Threads, Call(t) PROVE MutualExclusion' /\ LockHasOwner'
  BY <1>1 DEF Call
<1>2. ASSUME NEW t \in Threads, Swap(t) PROVE MutualExclusion' /\ LockHasOwner'
  <2>1. CASE lock
    BY <1>2, <2>1 DEF Swap
  <2>2. CASE ~lock
    BY <1>2, <2>2 DEF Swap
  <2> QED
    BY <2>1, <2>2
<1>3. ASSUME NEW t \in Threads, Read(t) PROVE MutualExclusion' /\ LockHasOwner'
  BY <1>3 DEF Read
<1>4. ASSUME NEW t \in Threads, Write(t) PROVE MutualExclusion' /\ LockHasOwner'
  BY <1>4 DEF Write
<1>5. ASSUME NEW t \in Threads, CustomUnlock(t) PROVE MutualExclusion' /\ LockHasOwner'
  BY <1>5 DEF CustomUnlock
<1>6. ASSUME NEW t \in Threads, Unlock(t) PROVE MutualExclusion' /\ LockHasOwner'
  BY <1>6 DEF Unlock
<1>7. CASE UNCHANGED vars
  BY <1>7 DEF vars
<1> QED
  BY <1>1, <1>2, <1>3, <1>4, <1>5, <1>6, <1>7 DEF Next, Run
-----------------------------------------------------------------------------
LEMMA Parity ==
    ASSUME NEW n \in Nat
    PROVE  (n % 2 = 0 => (n + 1) % 2 = 1) /\ (n % 2 = 1 => (n + 1) % 2 = 0)
OBVIOUS

LEMMA PairConcat ==
    ASSUME NEW a, NEW b
    PROVE  <<a>> \o <<b>> = <<a, b>>
<1> DEFINE S == {a, b}
<1>1. <<a>> \in Seq(S) /\ <<b>> \in Seq(S) /\ <<a, b>> \in Seq(S)
  OBVIOUS
<1>2. /\ <<a>> \o <<b>> \in Seq(S)
      /\ Len(<<a>> \o <<b>>) = 2
      /\ (<<a>> \o <<b>>)[1] = a /\ (<<a>> \o <<b>>)[2] = b
  BY <1>1, ConcatProperties
<1>3. Len(<<a, b>>) = 2 /\ <<a, b>>[1] = a /\ <<a, b>>[2] = b
  OBVIOUS
<1>4. \A i \in 1..2 : i = 1 \/ i = 2
  OBVIOUS
<1> HIDE DEF S
<1>5. \A i \in 1..Len(<<a>> \o <<b>>) : (<<a>> \o <<b>>)[i] = <<a, b>>[i]
  BY <1>2, <1>3, <1>4
<1> QED
  BY <1>1, <1>2, <1>3, <1>5, SeqEqual

LEMMA EvenLog ==
    ASSUME NEW s \in Seq(Event), Len(s) % 2 = 0
    PROVE  SubSeq(s, 1, 2 * (Len(s) \div 2)) = s
<1>1. 2 * (Len(s) \div 2) = Len(s)
  OBVIOUS
<1> QED
  BY <1>1, SubSeqFull

LEMMA OddLog ==
    ASSUME NEW s \in Seq(Event), Len(s) % 2 = 0, NEW e \in Event
    PROVE  SubSeq(Append(s, e), 1, 2 * (Len(Append(s, e)) \div 2)) = s
<1>1. Append(s, e) \in Seq(Event) /\ Len(Append(s, e)) = Len(s) + 1
  BY AppendProperties
<1>2. Len(s) \in Nat /\ 2 * ((Len(s) + 1) \div 2) = Len(s)
  OBVIOUS
<1>3. SubSeq(Append(s, e), 1, Len(s)) = s
  <2>1. CASE Len(s) = 0
    BY <2>1, SubSeqEmpty
  <2>2. CASE Len(s) # 0
    <3>1. Append(s, e) = s \o <<e>> /\ <<e>> \in Seq(Event)
      BY AppendIsConcat
    <3>2. SubSeq(s \o <<e>>, 1, Len(s)) = SubSeq(s, 1, Len(s))
      BY <1>2, <2>2, <3>1, SubSeqOfConcat1
    <3> QED
      BY <3>1, <3>2, SubSeqFull
  <2> QED
    BY <2>1, <2>2
<1> QED
  BY <1>1, <1>2, <1>3

(* What each step does to the log and to its complete prefix.              *)
LEMMA LogStep ==
    ASSUME Inv, [Next]_vars
    PROVE  /\ LogInv'
           /\ \/ Completed' = Completed
              \/ \E t \in Threads : Completed' = Completed \o <<Op(t), Cleanup(t)>>
<1> USE DEF Inv, TypeOK, Goto
<1>0. data \in Seq(Event) /\ \A t \in Threads : Op(t) \in Event /\ Cleanup(t) \in Event
  BY DEF Op, Cleanup, Event
<1> DEFINE Goal == /\ LogInv'
                   /\ \/ Completed' = Completed
                      \/ \E t \in Threads : Completed' = Completed \o <<Op(t), Cleanup(t)>>
<1>1. ASSUME NEW t \in Threads, Call(t) PROVE Goal
  BY <1>1 DEF Call, LogInv, Completed
<1>2. ASSUME NEW t \in Threads, Swap(t) PROVE Goal
  BY <1>2 DEF Swap, LogInv, Completed
<1>3. ASSUME NEW t \in Threads, Read(t) PROVE Goal
  BY <1>3 DEF Read, LogInv, Completed
<1>4. ASSUME NEW t \in Threads, Write(t) PROVE Goal
  <2>1. data' = Append(data, Op(t)) /\ pc' = [pc EXCEPT ![t] = "dropping"] /\ Op(t) \in Event
    BY <1>0, <1>4 DEF Write, LogInv
  <2>2. \A u \in Threads : u # t => ~Inside(u)
    BY <1>4 DEF Write, MutualExclusion, Inside
  <2>3. Len(data) % 2 = 0
    BY <1>4, <2>2 DEF Write, LogInv, Inside
  <2>4. Completed = data /\ Completed' = data
    BY <1>0, <2>1, <2>3, EvenLog, OddLog DEF Completed
  <2>5. Len(data') = Len(data) + 1 /\ data'[Len(data) + 1] = Op(t)
    BY <1>0, <2>1, AppendProperties
  <2>6. Len(data') % 2 = 1
    BY <1>0, <2>3, <2>5, Parity
  <2>7. LogInv'
    BY <2>1, <2>2, <2>5, <2>6 DEF LogInv, Inside
  <2> QED
    BY <2>4, <2>7
<1>5. ASSUME NEW t \in Threads, CustomUnlock(t) PROVE Goal
  <2>1. data' = Append(data, Cleanup(t)) /\ pc' = [pc EXCEPT ![t] = "unlocking"]
    BY <1>5 DEF CustomUnlock
  <2>2. \A u \in Threads : u # t => ~Inside(u)
    BY <1>5 DEF CustomUnlock, MutualExclusion, Inside
  <2>3. Len(data) % 2 = 1 /\ data[Len(data)] = Op(t)
    BY <1>5 DEF CustomUnlock, LogInv
  <2> DEFINE s == SubSeq(data, 1, Len(data) - 1)
  <2>4. Len(data) \in Nat \ {0} /\ 2 * (Len(data) \div 2) = Len(data) - 1
    BY <1>0, <2>3
  <2>5. Completed = s /\ data = s \o <<Op(t)>>
    <3>1. SubSeq(data, 1, Len(data)) = s \o <<data[Len(data)]>>
      BY <1>0, <2>4, SubSeqRecursiveSecond
    <3> QED
      BY <1>0, <2>3, <2>4, <3>1, SubSeqFull DEF Completed
  <2>6. s \in Seq(Event)
    BY <1>0, <2>4, SubSeqProperties
  <2>7. Len(data') = Len(data) + 1 /\ data' \in Seq(Event)
    BY <1>0, <2>1, AppendProperties
  <2>8. Len(data') % 2 = 0
    BY <1>0, <2>3, <2>7, Parity
  <2>9. Completed' = data'
    BY <2>7, <2>8, EvenLog DEF Completed
  <2>10. data' = s \o <<Op(t), Cleanup(t)>>
    <3> HIDE DEF s
    <3>1. data' = data \o <<Cleanup(t)>>
      BY <1>0, <2>1, AppendIsConcat
    <3>2. <<Op(t)>> \in Seq(Event) /\ <<Cleanup(t)>> \in Seq(Event)
      BY <1>0
    <3>3. <<Op(t)>> \o <<Cleanup(t)>> = <<Op(t), Cleanup(t)>>
      BY PairConcat
    <3> QED
      BY <2>5, <2>6, <3>1, <3>2, <3>3, ConcatAssociative
  <2>11. LogInv'
    BY <2>1, <2>2, <2>8 DEF LogInv, Inside
  <2> QED
    BY <2>5, <2>9, <2>10, <2>11
<1>6. ASSUME NEW t \in Threads, Unlock(t) PROVE Goal
  BY <1>6 DEF Unlock, LogInv, Completed
<1>7. CASE UNCHANGED vars
  BY <1>7 DEF vars, LogInv, Completed
<1> QED
  BY <1>1, <1>2, <1>3, <1>4, <1>5, <1>6, <1>7 DEF Next, Run

LEMMA InitInv == Init => Inv /\ Completed = << >>
<1> SUFFICES ASSUME Init PROVE Inv /\ Completed = << >>
  OBVIOUS
<1>1. TypeOK /\ MutualExclusion /\ LockHasOwner
  <2>1. << >> \in Seq(Threads \X {"op", "cleanup"})
    OBVIOUS
  <2>2. TypeOK
    BY <2>1 DEF Init, TypeOK
  <2>3. MutualExclusion /\ LockHasOwner
    BY DEF Init, MutualExclusion, LockHasOwner, Inside
  <2> QED
    BY <2>2, <2>3
<1>2. data = << >> /\ Len(data) = 0
  BY DEF Init
<1>3. LogInv
  BY <1>2 DEF Init, LogInv
<1>4. Completed = << >>
  BY <1>2, SubSeqEmpty DEF Completed
<1> QED
  BY <1>1, <1>3, <1>4 DEF Inv

LEMMA InvStep == Inv /\ [Next]_vars => Inv'
BY TypeStep, ExclusionStep, LogStep DEF Inv
-----------------------------------------------------------------------------
THEOREM InvariantHolds == Spec => []Inv
<1>1. Init => Inv
  BY InitInv
<1> QED
  BY <1>1, InvStep, PTL DEF Spec

(* However many processors contend, lock() hands out one guard at a time.  *)
THEOREM Exclusive == Spec => []MutualExclusion
<1>1. Inv => MutualExclusion
  BY DEF Inv
<1> QED
  BY <1>1, InvariantHolds, PTL

(* The flag is never set without a guard that will clear it.               *)
THEOREM Owned == Spec => []LockHasOwner
<1>1. Inv => LockHasOwner
  BY DEF Inv
<1> QED
  BY <1>1, InvariantHolds, PTL

(* Guarded operations with their custom_unlock are atomic: the lock        *)
(* implements AtomicObject.                                                *)
THEOREM Refinement == Spec => ImplementsAtomicObject
<1>1. Init => Object!Init
  BY InitInv DEF Object!Init
<1>2. Inv /\ [Next]_vars => [Object!Next]_Completed
  BY LogStep DEF Object!Next, Object!Use, Op, Cleanup
<1> QED
  BY <1>1, <1>2, InvariantHolds, PTL DEF Spec, ImplementsAtomicObject, Object!Spec
=============================================================================
