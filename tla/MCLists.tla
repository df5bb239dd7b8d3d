------------------------------ MODULE MCLists -------------------------------
(***************************************************************************)
(* A program with one list, a LinkedList or a StackList.                   *)
(***************************************************************************)
EXTENDS Integers, Sequences, FiniteSets, TLC

CONSTANTS Node, Values, None

ASSUME ListsAssumption ==
    /\ IsFiniteSet(Node) /\ Node # {} /\ None \notin Node
    /\ Values # {}

VARIABLES
    kind,       \* the type of the list
    head, tail, len, next, prev, data, boxed, loose, call, returned

vars == <<kind, head, tail, len, next, prev, data, boxed, loose, call, returned>>

L == INSTANCE LinkedList
S == INSTANCE StackList

Init ==
    /\ kind \in {"LinkedList", "StackList"}
    /\ L!Init
    /\ S!Init

Next ==
    /\ UNCHANGED kind
    /\ \/ kind = "LinkedList" /\ L!Next
       \/ kind = "StackList" /\ S!Next /\ UNCHANGED <<tail, prev>>

Spec == Init /\ [][Next]_vars

(* At every moment a LinkedList is one chain in both directions and owns   *)
(* its nodes (see LinkedList).                                             *)
LinkedListWellLinked == kind = "LinkedList" => L!WellLinked

(* At every moment a StackList's length counts the nodes its top reaches,  *)
(* and it owns them (see StackList).                                       *)
StackListOwnsChain == kind = "StackList" => S!ChainOwned

Sequence == INSTANCE ValueSequence WITH
    contents <- IF kind = "LinkedList" THEN L!Contents ELSE S!Contents,
    MaxLen <- Cardinality(Node)

(* Every method of either list does to the values its iterators yield what *)
(* the method of the same name does to a sequence, and returns the same.   *)
ImplementsSequence == Sequence!Spec

NodeSymmetry == Permutations(Node)
=============================================================================
