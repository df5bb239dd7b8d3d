--------------------------- MODULE MCBuddyAllocator ---------------------------
(* A small machine for TLC.                                                *)
EXTENDS BuddyAllocator

(* Two usable entries, the first on an odd page so that boot has to cut it *)
(* into unequal buckets, with reserved pages between them: 13 pages in     *)
(* all, four zones of which the largest is never filled.                   *)
MCMemMap == << [base |-> 0, length |-> 1, kind |-> "RESERVED"],
               [base |-> 1, length |-> 7, kind |-> "USABLE"],
               [base |-> 8, length |-> 2, kind |-> "RESERVED"],
               [base |-> 10, length |-> 2, kind |-> "USABLE"],
               [base |-> 12, length |-> 1, kind |-> "RECLAIMABLE"] >>
===============================================================================
