----------------------------- MODULE PageFrames -----------------------------
(***************************************************************************)
(* What the physical memory manager promises its callers (the trait        *)
(* PmmAllocator, pmm/src/lib.rs): physical pages are either free or part   *)
(* of exactly one block that somebody was given, a block is a contiguous   *)
(* run of free pages when it is handed out, and a block that is given back *)
(* is free again.  How the free pages are organised is not visible here.   *)
(***************************************************************************)
EXTENDS Integers

CONSTANT Page          \* the page numbers of the physical address space

VARIABLES avail,       \* the pages nobody owns
          granted      \* the set of blocks (sets of pages) handed out

vars == <<avail, granted>>

(* The contiguous, non-empty runs of pages. *)
Runs == {ends[1]..ends[2] : ends \in Page \X Page} \ {{}}

Init == avail = {} /\ granted = {}

(* Boot gives the manager a run of pages that it did not have yet. *)
Donate(S) ==
    /\ S \cap avail = {}
    /\ \A g \in granted : S \cap g = {}
    /\ avail' = avail \cup S
    /\ UNCHANGED granted

(* A caller is given a run of free pages. *)
Grant(S) ==
    /\ S \subseteq avail
    /\ avail' = avail \ S
    /\ granted' = granted \cup {S}

(* A caller gives back a block it was given, all of it at once. *)
Return(S) ==
    /\ S \in granted
    /\ avail' = avail \cup S
    /\ granted' = granted \ {S}

Next == \E S \in Runs : Donate(S) \/ Grant(S) \/ Return(S)

Spec == Init /\ [][Next]_vars

=============================================================================
