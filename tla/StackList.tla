----------------------------- MODULE StackList ------------------------------
(***************************************************************************)
(* StackList of utils/src/collections/stacklist.rs at the level of its     *)
(* pointers: a singly linked stack with a length, the list type of the     *)
(* slab allocators' free objects.  A node is a box; one that a _node       *)
(* method takes or gives belongs to the caller meanwhile.                  *)
(*                                                                         *)
(* A method runs with the list borrowed mutably and is one step.  pop      *)
(* moves the value out of its node and does not free the node ("Optional:  *)
(* deallocate node here"), so clear, drop, into_vec and into_iter, which   *)
(* pop, leak their nodes; retain frees the nodes it takes out.             *)
(*                                                                         *)
(* Definitions named <definition>_<defect> are defective variants of the   *)
(* definition that follows; the README says which property each breaks.    *)
(***************************************************************************)
EXTENDS Integers, Sequences, FiniteSets, SequencesExt

CONSTANTS
    Node,       \* the addresses of nodes
    Values,     \* the values the list holds
    None        \* the None of Option<NonNull<Node<T>>>

VARIABLES
    head, len,
    next, data,         \* the fields of the nodes
    boxed,              \* nodes that are allocated
    loose,              \* allocated nodes whose only pointer a caller holds
    call, returned      \* the last method called and the values it returned

vars == <<head, len, next, data, boxed, loose, call, returned>>

(* StackList::new *)
Init ==
    /\ head = None /\ len = 0
    /\ next = [n \in Node |-> None]
    /\ data \in [Node -> {CHOOSE v \in Values : TRUE}]
    /\ boxed = {} /\ loose = {}
    /\ call = << >> /\ returned = << >>

(* The node index steps below the top, as get, get_mut and remove_at walk. *)
At == [i \in 0..Cardinality(Node) |->
        LET step[k \in 0..i] ==
                IF k = 0 THEN head ELSE IF step[k - 1] = None THEN None ELSE next[step[k - 1]]
        IN  step[i]]

(* The nodes from the top to the first without a next. *)
Chain == SelectSeq([i \in 1..Cardinality(Node) |-> At[i - 1]], LAMBDA n : n # None)

(* iter, iter_mut, iter_node, iter_node_mut, Debug and == : the nodes they *)
(* visit, at most len of them.                                             *)
Yields == SubSeq(Chain, 1, len)

Contents == [i \in DOMAIN Yields |-> data[Yields[i]]]

(* Where n is in the sequence s. *)
Position(s, n) == CHOOSE i \in DOMAIN s : s[i] = n

Returns(method, values) == call' = method /\ returned' = values
-----------------------------------------------------------------------------
(* push_node, from the line that links the node. *)
LinkTop(n) ==
    /\ next' = [next EXCEPT ![n] = head]
    /\ head' = n
    /\ len' = len + 1

(* push *)
push(n, v) ==
    /\ n \notin boxed
    /\ boxed' = boxed \cup {n}
    /\ data' = [data EXCEPT ![n] = v]
    /\ LinkTop(n)
    /\ Returns(<<"push_front", v>>, << >>)
    /\ UNCHANGED loose

(* push_node *)
push_node(n) ==
    /\ n \in loose
    /\ loose' = loose \ {n}
    /\ LinkTop(n)
    /\ Returns(<<"push_front", data[n]>>, << >>)
    /\ UNCHANGED <<boxed, data>>

(* pop_node; pop reads the value and forgets the node. *)
pop(keep) ==
    /\ IF head = None
       THEN Returns(<<"remove_at", 1>>, << >>) /\ UNCHANGED <<head, len, next, loose>>
       ELSE /\ head' = next[head]
            /\ next' = [next EXCEPT ![head] = None]
            /\ len' = len - 1
            /\ loose' = IF keep THEN loose \cup {head} ELSE loose
            /\ Returns(<<"remove_at", 1>>, <<data[head]>>)
    /\ UNCHANGED <<boxed, data>>

(* remove_at walks one node too far before it unlinks. *)
remove_at_off_by_one(index) ==
    LET before == At[index]
        n == IF before = None THEN None ELSE next[before]
    IN  /\ IF index >= len \/ n = None
           THEN Returns(<<"remove_at", index + 1>>, << >>) /\ UNCHANGED <<len, next, loose>>
           ELSE /\ next' = [next EXCEPT ![before] = next[n]]
                /\ len' = len - 1
                /\ loose' = loose \cup {n}
                /\ Returns(<<"remove_at", index + 1>>, <<data[n]>>)
        /\ UNCHANGED <<head, boxed, data>>

(* remove_at below the top; at index 0 it is pop_node.  The removed node   *)
(* keeps its next.                                                         *)
remove_at(index) ==
    LET before == At[index - 1]
        n == IF before = None THEN None ELSE next[before]
    IN  /\ IF index >= len \/ n = None
           THEN Returns(<<"remove_at", index + 1>>, << >>) /\ UNCHANGED <<len, next, loose>>
           ELSE /\ next' = [next EXCEPT ![before] = next[n]]
                /\ len' = len - 1
                /\ loose' = loose \cup {n}
                /\ Returns(<<"remove_at", index + 1>>, <<data[n]>>)
        /\ UNCHANGED <<head, boxed, data>>

(* peek_mut, get_mut, iter_mut: a value is written through a reference. *)
SetNode(i, v) ==
    /\ i \in DOMAIN Yields
    /\ data' = [data EXCEPT ![Yields[i]] = v]
    /\ Returns(<<"set", i, v>>, << >>)
    /\ UNCHANGED <<head, len, next, boxed, loose>>

(* pop until the list is empty. *)
Drain ==
    /\ head' = None
    /\ next' = [n \in Node |-> IF n \in ToSet(Chain) THEN None ELSE next[n]]
    /\ len' = len - Len(Chain)
    /\ UNCHANGED <<data, boxed, loose>>

(* clear; drop does the same to a list that ends. *)
clear == Drain /\ Returns(<<"clear">>, << >>)

(* into_vec reverses what it popped; into_iter yields it unreversed. *)
into_vec ==
    Drain /\ Returns(<<"into_vec">>, Reverse([i \in DOMAIN Chain |-> data[Chain[i]]]))

(* The kept nodes of the chain are linked again, the others freed, and the *)
(* length left alone.                                                      *)
retain_len_kept(S) ==
    LET kept == SelectSeq(Chain, LAMBDA n : data[n] \in S)
    IN  /\ head' = IF kept = << >> THEN None ELSE kept[1]
        /\ next' = [n \in Node |->
                      IF n \notin ToSet(Chain) THEN next[n]
                      ELSE IF n \notin ToSet(kept) \/ n = Last(kept) THEN None
                      ELSE kept[Position(kept, n) + 1]]
        /\ boxed' = boxed \ (ToSet(Chain) \ ToSet(kept))
        /\ Returns(<<"retain", S>>, << >>)
        /\ UNCHANGED <<data, loose, len>>

(* retain: the walk patches the link it came through around every node the *)
(* predicate (membership in S) rejects, and frees the node.                *)
retain(S) ==
    LET kept == SelectSeq(Chain, LAMBDA n : data[n] \in S)
    IN  /\ head' = IF kept = << >> THEN None ELSE kept[1]
        /\ next' = [n \in Node |->
                      IF n \notin ToSet(Chain) THEN next[n]
                      ELSE IF n \notin ToSet(kept) \/ n = Last(kept) THEN None
                      ELSE kept[Position(kept, n) + 1]]
        /\ boxed' = boxed \ (ToSet(Chain) \ ToSet(kept))
        /\ len' = len - (Len(Chain) - Len(kept))
        /\ Returns(<<"retain", S>>, << >>)
        /\ UNCHANGED <<data, loose>>

(* clone into new nodes, given bottom first, which replace the list; the   *)
(* list that was cloned is dropped.  extend and from_iter push likewise.   *)
clone(fresh) ==
    /\ ToSet(fresh) \cap boxed = {} /\ Len(fresh) = Len(Yields)
    /\ boxed' = boxed \cup ToSet(fresh)
    /\ data' = [n \in Node |->
                  IF n \in ToSet(fresh) THEN data[Yields[Len(fresh) + 1 - Position(fresh, n)]] ELSE data[n]]
    /\ next' = [n \in Node |->
                  IF n \in ToSet(fresh)
                  THEN IF n = fresh[1] THEN None ELSE fresh[Position(fresh, n) - 1]
                  ELSE IF n \in ToSet(Chain) THEN None ELSE next[n]]
    /\ head' = IF fresh = << >> THEN None ELSE Last(fresh)
    /\ len' = Len(fresh)
    /\ Returns(<<"clone">>, << >>)
    /\ UNCHANGED loose

(* A caller drops the box of a node it holds. *)
DropLoose(n) ==
    /\ n \in loose
    /\ loose' = loose \ {n}
    /\ boxed' = boxed \ {n}
    /\ UNCHANGED <<head, len, next, data, call, returned>>

Orders(S) == {s \in UNION {[1..k -> S] : k \in 0..Cardinality(S)} : IsInjective(s)}

Next ==
    \/ \E n \in Node, v \in Values : push(n, v)
    \/ \E n \in Node : push_node(n)
    \/ \E keep \in BOOLEAN : pop(keep)
    \/ \E index \in 1..Cardinality(Node) : remove_at(index)
    \/ \E i \in 1..Cardinality(Node), v \in Values : SetNode(i, v)
    \/ clear
    \/ into_vec
    \/ \E S \in SUBSET Values : retain(S)
    \/ \E fresh \in Orders(Node \ boxed) : clone(fresh)
    \/ \E n \in Node : DropLoose(n)

Spec == Init /\ [][Next]_vars
-----------------------------------------------------------------------------
(* Properties.                                                             *)

(* The length, by which is_empty's callers and the iterators go, counts    *)
(* the nodes of the chain; every node the chain reaches is allocated, and  *)
(* none of them is one that a caller was given.                            *)
ChainOwned ==
    /\ len = Len(Chain) /\ Cardinality(ToSet(Chain)) = len
    /\ ToSet(Chain) \cup loose \subseteq boxed
    /\ ToSet(Chain) \cap loose = {}
=============================================================================
