---------------------------- MODULE MCHypervisor ----------------------------
(***************************************************************************)
(* Hypervisor on small machines: bitmap entries of two bits, so that the   *)
(* ASIDs fill one entry or two, and slabs of three pages, which hold two   *)
(* VMCBs of a page each.                                                   *)
(***************************************************************************)
EXTENDS Hypervisor

ASSUME HypervisorAssumption ==
    /\ EntryBits \in Nat \ {0} /\ MaxVid \in Nat
    /\ MaxAsids \subseteq Nat \ {0}
    /\ NoPage \notin Pages
    /\ HostCr4s \subseteq SUBSET Cr4

MCHostCr4s == {{"PAE", "PGE"}, {"PAE", "CET"}}

PageSymmetry == Permutations(Pages)
=============================================================================
