------------------------------ MODULE MCPaging ------------------------------
(***************************************************************************)
(* Paging with four levels of tables of four entries: pages of 1, 4 and 16 *)
(* frames stand for 4 KB, 2 MB and 1 GB.                                   *)
(***************************************************************************)
EXTENDS Paging

(* Memory that takes one page of each size, the kernel, and a frame buffer *)
(* of one big page.                                                        *)
MCMemMap == <<
    [base |-> 0,  length |-> 16, kind |-> "USABLE"],
    [base |-> 16, length |-> 4,  kind |-> "ACPI_RECLAIMABLE"],
    [base |-> 20, length |-> 2,  kind |-> "BOOTLOADER_RECLAIMABLE"],
    [base |-> 22, length |-> 1,  kind |-> "EXECUTABLE_AND_MODULES"],
    [base |-> 23, length |-> 1,  kind |-> "RESERVED"],
    [base |-> 24, length |-> 4,  kind |-> "FRAMEBUFFER"],
    [base |-> 28, length |-> 2,  kind |-> "RESERVED"]>>

(* The frames left by the memory manager's own tables.  Paging does not    *)
(* look at a frame's number, so the lowest is taken: a frame that was      *)
(* freed is used again at once.                                            *)
MCPmmFrames == 2..15
MCPick(S) == Min(S)
=============================================================================
