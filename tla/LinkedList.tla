----------------------------- MODULE LinkedList -----------------------------
(***************************************************************************)
(* LinkedList of utils/src/collections/linkedlist.rs at the level of its   *)
(* pointers: a doubly linked list with head, tail and a length, whose      *)
(* nodes are boxes.  The buddy allocator and the slab allocators move the  *)
(* same nodes from list to list, so a node that leaves the list as a       *)
(* pointer stays allocated, in its caller's hands.                         *)
(*                                                                         *)
(* A method runs with the list borrowed mutably and is one step.           *)
(*                                                                         *)
(* Definitions named <definition>_<defect> are defective variants of the   *)
(* definition that follows; the README says which property each breaks.    *)
(***************************************************************************)
EXTENDS Integers, Sequences, FiniteSets, SequencesExt

CONSTANTS
    Node,       \* the addresses of nodes
    Values,     \* the values the list holds
    None        \* the None of Option<NonNull<Node<T>>>

VARIABLES
    head, tail, len,
    next, prev, data,   \* the fields of the nodes
    boxed,              \* nodes that are allocated
    loose,              \* allocated nodes whose only pointer a caller holds
    call, returned      \* the last method called and the values it returned

vars == <<head, tail, len, next, prev, data, boxed, loose, call, returned>>

(* LinkedList::new *)
Init ==
    /\ head = None /\ tail = None /\ len = 0
    /\ next = [n \in Node |-> None]
    /\ prev = [n \in Node |-> None]
    /\ data \in [Node -> {CHOOSE v \in Values : TRUE}]
    /\ boxed = {} /\ loose = {}
    /\ call = << >> /\ returned = << >>

(* The node i steps from the head, following next as long as there is one. *)
At == [i \in 0..Cardinality(Node) |->
        LET step[k \in 0..i] ==
                IF k = 0 THEN head ELSE IF step[k - 1] = None THEN None ELSE next[step[k - 1]]
        IN  step[i]]

(* The nodes from the head to the first without a next. *)
Chain == SelectSeq([i \in 1..Cardinality(Node) |-> At[i - 1]], LAMBDA n : n # None)

(* iter, iter_mut, iter_nodes and iter_mut_node: the nodes they yield, at  *)
(* most len of them.                                                       *)
Yields == SubSeq(Chain, 1, len)

Contents == [i \in DOMAIN Yields |-> data[Yields[i]]]

Returns(method, values) == call' = method /\ returned' = values
-----------------------------------------------------------------------------
(* push_node_front; push_front does the same with a node of its own. *)
LinkFront(n) ==
    /\ next' = [next EXCEPT ![n] = head]
    /\ prev' = [m \in Node |-> IF m = n THEN None ELSE IF m = head THEN n ELSE prev[m]]
    /\ tail' = IF head = None THEN n ELSE tail
    /\ head' = n
    /\ len' = len + 1

(* push_node_back; push_back does the same with a node of its own. *)
LinkBack(n) ==
    /\ prev' = [prev EXCEPT ![n] = tail]
    /\ next' = [m \in Node |-> IF m = n THEN None ELSE IF m = tail THEN n ELSE next[m]]
    /\ head' = IF tail = None THEN n ELSE head
    /\ tail' = n
    /\ len' = len + 1

(* push_front and push_back: a new box. *)
push(n, v, front) ==
    /\ n \notin boxed
    /\ boxed' = boxed \cup {n}
    /\ data' = [data EXCEPT ![n] = v]
    /\ IF front THEN LinkFront(n) ELSE LinkBack(n)
    /\ Returns(<<IF front THEN "push_front" ELSE "push_back", v>>, << >>)
    /\ UNCHANGED loose

(* push_node_front and push_node_back: a node of the caller's. *)
push_node(n, front) ==
    /\ n \in loose
    /\ loose' = loose \ {n}
    /\ IF front THEN LinkFront(n) ELSE LinkBack(n)
    /\ Returns(<<IF front THEN "push_front" ELSE "push_back", data[n]>>, << >>)
    /\ UNCHANGED <<boxed, data>>
-----------------------------------------------------------------------------
(* pop_front and pop_node_front, up to what becomes of the node. *)
UnlinkFront ==
    LET n == head
    IN  /\ head' = next[n]
        /\ prev' = [m \in Node |-> IF m \in {n, next[n]} THEN None ELSE prev[m]]
        /\ tail' = IF next[n] = None THEN None ELSE tail
        /\ next' = [next EXCEPT ![n] = None]
        /\ len' = len - 1

(* pop_back and pop_node_back, up to what becomes of the node. *)
UnlinkBack ==
    LET n == tail
    IN  /\ tail' = prev[n]
        /\ next' = [m \in Node |-> IF m \in {n, prev[n]} THEN None ELSE next[m]]
        /\ head' = IF prev[n] = None THEN None ELSE head
        /\ prev' = [prev EXCEPT ![n] = None]
        /\ len' = len - 1

(* The successor's prev is left as it was. *)
Unlink_forward_only(n) ==
    /\ next' = [m \in Node |-> IF m = n THEN None ELSE IF m = prev[n] THEN next[n] ELSE next[m]]
    /\ prev' = [prev EXCEPT ![n] = None]
    /\ head' = IF prev[n] = None THEN next[n] ELSE head
    /\ tail' = IF next[n] = None THEN prev[n] ELSE tail
    /\ len' = len - 1

(* remove_at_node, once it has found its node. *)
Unlink(n) ==
    /\ next' = [m \in Node |-> IF m = n THEN None ELSE IF m = prev[n] THEN next[n] ELSE next[m]]
    /\ prev' = [m \in Node |-> IF m = n THEN None ELSE IF m = next[n] THEN prev[n] ELSE prev[m]]
    /\ head' = IF prev[n] = None THEN next[n] ELSE head
    /\ tail' = IF next[n] = None THEN prev[n] ELSE tail
    /\ len' = len - 1

Links == <<head, tail, len, next, prev>>

(* pop_front and pop_back free the box; the _node forms hand it over. *)
pop(front, keep) ==
    LET n == IF front THEN head ELSE tail
        method == IF front THEN <<"remove_at", 1>> ELSE <<"pop_back">>
    IN  /\ IF n = None
           THEN Returns(method, << >>) /\ UNCHANGED <<Links, boxed, loose>>
           ELSE /\ IF front THEN UnlinkFront ELSE UnlinkBack
                /\ boxed' = IF keep THEN boxed ELSE boxed \ {n}
                /\ loose' = IF keep THEN loose \cup {n} ELSE loose
                /\ Returns(method, <<data[n]>>)
        /\ UNCHANGED data

(* remove_at_node; index counts from 0. *)
remove_at_node(index) ==
    /\ IF index >= len \/ At[index] = None
       THEN Returns(<<"remove_at", index + 1>>, << >>) /\ UNCHANGED <<Links, loose>>
       ELSE /\ Unlink(At[index])
            /\ loose' = loose \cup {At[index]}
            /\ Returns(<<"remove_at", index + 1>>, <<data[At[index]]>>)
    /\ UNCHANGED <<boxed, data>>

(* clear, and drop: pop_front until there is no head. *)
clear ==
    /\ boxed' = boxed \ ToSet(Chain)
    /\ next' = [n \in Node |-> IF n \in ToSet(Chain) THEN None ELSE next[n]]
    /\ prev' = [n \in Node |-> IF n \in ToSet(Chain) THEN None ELSE prev[n]]
    /\ head' = None /\ tail' = (IF head = None THEN tail ELSE None)
    /\ len' = len - Len(Chain)
    /\ Returns(<<"clear">>, << >>)
    /\ UNCHANGED <<data, loose>>

(* front_mut, back_mut, iter_mut: a value is written through a reference.  *)
SetNode(i, v) ==
    /\ i \in DOMAIN Yields
    /\ data' = [data EXCEPT ![Yields[i]] = v]
    /\ Returns(<<"set", i, v>>, << >>)
    /\ UNCHANGED <<Links, boxed, loose>>

(* A caller drops the box of a node it holds, as the slab allocator does   *)
(* with the page a slab's node lives in.                                   *)
DropLoose(n) ==
    /\ n \in loose
    /\ loose' = loose \ {n}
    /\ boxed' = boxed \ {n}
    /\ UNCHANGED <<Links, data, call, returned>>

Next ==
    \/ \E n \in Node, v \in Values, front \in BOOLEAN : push(n, v, front)
    \/ \E n \in Node, front \in BOOLEAN : push_node(n, front)
    \/ \E front, keep \in BOOLEAN : pop(front, keep)
    \/ \E index \in 0..Cardinality(Node) : remove_at_node(index)
    \/ clear
    \/ \E i \in 1..Cardinality(Node), v \in Values : SetNode(i, v)
    \/ \E n \in Node : DropLoose(n)

Spec == Init /\ [][Next]_vars
-----------------------------------------------------------------------------
(* Properties.                                                             *)

(* The list is one chain: following next from the head visits len distinct *)
(* nodes and ends at the tail, following prev visits the same nodes in the *)
(* opposite order, and every allocated node is either on the chain or in   *)
(* its caller's hands with both links cleared: no method leaks a node,     *)
(* leaves a pointer to a freed one, or keeps one it gave away.             *)
WellLinked ==
    LET n == Chain
    IN  /\ len = Len(n) /\ Cardinality(ToSet(n)) = len
        /\ head = (IF len = 0 THEN None ELSE n[1])
        /\ tail = (IF len = 0 THEN None ELSE n[len])
        /\ \A i \in 1..len :
              /\ next[n[i]] = (IF i = len THEN None ELSE n[i + 1])
              /\ prev[n[i]] = (IF i = 1 THEN None ELSE n[i - 1])
        /\ boxed = ToSet(n) \cup loose
        /\ ToSet(n) \cap loose = {}
        /\ \A m \in loose : next[m] = None /\ prev[m] = None
=============================================================================
