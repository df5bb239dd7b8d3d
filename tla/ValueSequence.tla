---------------------------- MODULE ValueSequence ---------------------------
(***************************************************************************)
(* What the two list types of utils/src/collections promise their callers: *)
(* a sequence of values, first element first.  call is the last method     *)
(* called, with its arguments, and returned the values it gave back; the   *)
(* new contents are a function of the call and the old contents.           *)
(***************************************************************************)
EXTENDS Integers, Sequences, SequencesExt

CONSTANTS
    Values,     \* the values the lists hold
    MaxLen      \* the longest list

VARIABLES contents, call, returned

vars == <<contents, call, returned>>

Init ==
    /\ contents = << >>
    /\ call = << >>
    /\ returned = << >>

(* A method with its arguments, its result and the contents it leaves.     *)
Does(method, result, after) ==
    /\ call' = method
    /\ returned' = result
    /\ contents' = after

PushFront(v) == Does(<<"push_front", v>>, << >>, <<v>> \o contents)

PushBack(v) == Does(<<"push_back", v>>, << >>, Append(contents, v))

(* An index past the end takes nothing. *)
Take(i) ==
    Does(<<"remove_at", i>>,
         IF i \in DOMAIN contents THEN <<contents[i]>> ELSE << >>,
         IF i \in DOMAIN contents THEN RemoveAt(contents, i) ELSE contents)

PopBack ==
    Does(<<"pop_back">>,
         IF contents = << >> THEN << >> ELSE <<Last(contents)>>,
         IF contents = << >> THEN << >> ELSE Front(contents))

Set(i, v) == Does(<<"set", i, v>>, << >>, [contents EXCEPT ![i] = v])

Retain(S) == Does(<<"retain", S>>, << >>, SelectSeq(contents, LAMBDA v : v \in S))

Clear == Does(<<"clear">>, << >>, << >>)

(* The values leave the list last element first. *)
IntoVec == Does(<<"into_vec">>, Reverse(contents), << >>)

Clone == Does(<<"clone">>, << >>, contents)

Next ==
    \/ \E v \in Values : PushFront(v) \/ PushBack(v)
    \/ \E i \in 1..(MaxLen + 1) : Take(i)
    \/ PopBack
    \/ \E i \in DOMAIN contents, v \in Values : Set(i, v)
    \/ \E S \in SUBSET Values : Retain(S)
    \/ Clear
    \/ IntoVec
    \/ Clone

Spec == Init /\ [][Next]_vars
=============================================================================
