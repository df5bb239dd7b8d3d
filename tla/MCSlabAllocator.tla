-------------------------- MODULE MCSlabAllocator ---------------------------
(***************************************************************************)
(* SlabAllocator with pages of 40 bytes and a node of 13 bytes, so that    *)
(* the three classes have slabs of 3, 1 and 0 objects: several, exactly    *)
(* one, and, like the 4096-byte class of the heap, none.                   *)
(***************************************************************************)
EXTENDS SlabAllocator, TLC

MCClasses == <<8, 16, 32>>

(* One layout per way of choosing a class: by size, by padding to the      *)
(* alignment, by alignment alone, and larger than all.                     *)
MCLayouts == {<<5, 1>>, <<9, 4>>, <<1, 16>>, <<17, 8>>, <<33, 8>>}

PageSymmetry == Permutations(Pages)
=============================================================================
