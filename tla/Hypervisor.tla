----------------------------- MODULE Hypervisor -----------------------------
(***************************************************************************)
(* The hypervisor crate: starting SVM on the boot processor, creating and  *)
(* dropping vessels (hypervisor/src/lib.rs), their VMCBs                   *)
(* (hypervisor/src/svm/mod.rs) from the typed slab allocator               *)
(* (slab/src/lib.rs, over SlabAllocator), their ASIDs and VIDs (over       *)
(* IdTracker), and the constant scheduler (scheduler/src/constant.rs) that *)
(* runs one of them.                                                       *)
(*                                                                         *)
(* One processor executes all of this and no interrupt handler touches it, *)
(* so a call is one step; a call that panics leaves what it had done.  A   *)
(* register is the set of the bits that are one, a descriptor its name.    *)
(* VMRUN and the processor's checks of a VMCB are external.                *)
(*                                                                         *)
(* Definitions named <definition>_<defect> are defective variants of the   *)
(* definition that follows; the README says which property each breaks.    *)
(***************************************************************************)
EXTENDS Integers, Sequences, FiniteSets, Functions, TLC

CONSTANTS
    EntryBits,   \* the width of a bitmap entry
    MaxVid,      \* the last VID, 0xffff_ffff
    SlabBytes,   \* page_count * BASIC_PAGE_SIZE of the VMCB allocator
    NodeSize,    \* size_of::<SlabNode>()
    NodeAlign,   \* align_of::<SlabNode>()
    VmcbBytes,   \* size_of::<Vmcb>()
    Pages,       \* the page runs the paging code can provide
    NoPage,
    MaxAsids,    \* what CPUID may report as the number of ASIDs
    HostCr4s,    \* the values of CR4 the bootloader may leave
    Rips         \* the entry points that callers pass

VARIABLES
    machine,         \* the processor and the build: constant after Init
    efer,            \* the EFER MSR
    vm_hsave,        \* the page VM_HSAVE_PA names
    asids,           \* ASID_ALLOCATOR
    vids,            \* VID_ALLOCATOR
    slabs, free_objects, allocated_count, pool, held, result,  \* VMCB_ALLOCATOR
    vmcb,            \* the VMCBs of the vessels, by object
    vessels,         \* the live vessels: records [id, control]
    scheduable,      \* the vessel in SCHEDULER, or NoVessel
    looping,         \* operation_loop has been entered
    stopped          \* the panic that stopped the processor, or ""

slab_vars == <<slabs, free_objects, allocated_count, pool, held, result>>
vars == <<machine, efer, vm_hsave, asids, vids, slab_vars, vmcb, vessels,
          scheduable, looping, stopped>>

Ids == INSTANCE IdTracker
Slab == INSTANCE SlabAllocator
            WITH PageSize <- SlabBytes, Classes <- <<VmcbBytes>>, Layouts <- {},
                 panic <- (stopped # "")

NoVessel == [id |-> -1]
-----------------------------------------------------------------------------
(* The registers: the fields of their bitfields.                           *)

Efer == {"SCE", "LME", "LMA", "NX", "SVM", "LMSLE", "FFXSR", "TCE", "MCOMMIT",
         "INTWB", "UAIE", "AIBRSE"}
Rflags == {"CF", "RESERVED_MBO", "PF", "AF", "ZF", "SF", "TF", "IF", "DF", "OF", "IOPL",
           "NT", "RF", "VM", "AC", "VIF", "VIP", "ID"}
Cr0 == {"PE", "MP", "EM", "TS", "ET", "NE", "WP", "AM", "NW", "CD", "PG"}
Cr3 == {"PWT", "PCD", "TOP_PML"}
Cr4 == {"VME", "PVI", "TSD", "DE", "PSE", "PAE", "MCE", "PGE", "PCE", "OSFXSR",
        "OSXMMEXCPT", "UMIP", "LA57", "VMXE", "SMXE", "FSGSBASE", "PCIDE", "OSXSAVE",
        "SMEP", "SMAP", "PKE", "CET", "PKS"}
AmdDr6 == {"BD0", "BD1", "BD2", "BD3", "RESERVED_MBO_0", "BLD", "BD", "BS", "BT", "RESERVED_MBO_1"}
AmdDr7 == {"L0", "G0", "L1", "G1", "L2", "G2", "L3", "G3", "LE", "GE", "RESERVED_MBO", "GD",
           "TTT_0", "LB_0", "TTT_1", "LB_1", "TTT_2", "LB_2", "TTT_3", "LB_3"}

(* The intercepts that are ever set, of the sixty in the VMCB. *)
Intercepts == {"vmrun", "cpuid", "hlt", "exceptions"}

(* The exit codes that the handlers tell apart; Exception stands for the   *)
(* thirty-two of them, Other for the remaining codes.                      *)
InterceptCode == {"None", "Cpuid", "Hlt", "Vmrun", "Vmload", "Vmsave", "Exception",
                  "Invalid", "QemuInvalid", "Other"}

(* The GDT that the bootloader leaves and the selectors' index fields.     *)
Segments == <<"null", "code16", "data16", "code32", "data32", "code64", "data64">>
Selectors == [cs |-> 5, ss |-> 6, ds |-> 6, es |-> 6]

(* Index<SegmentSelector> for Gdt: the index field is shifted once more.   *)
Descriptor(index) == Segments[index \div 8 + 1]

(* read_full_selector *)
FullSegmentSelector(index) == [selector |-> index, descriptor |-> Descriptor(index)]
-----------------------------------------------------------------------------
(* The VMCB. *)

StateSaveArea(rip, cr4, e) ==
    [cs |-> FullSegmentSelector(Selectors.cs), ss |-> FullSegmentSelector(Selectors.ss),
     ds |-> FullSegmentSelector(Selectors.ds), es |-> FullSegmentSelector(Selectors.es),
     rip |-> rip, rflags |-> {"RF"}, cr0 |-> {"CD", "NW"}, cr3 |-> {"TOP_PML"}, cr4 |-> cr4,
     dr6 |-> {"RESERVED_MBO_0", "RESERVED_MBO_1"}, dr7 |-> {"RESERVED_MBO"},
     efer |-> e, cpl |-> 0]

ControlArea(intercepts, asid) ==
    [intercepts |-> intercepts, guest_asid |-> asid, exitcode |-> "None", exitintinfo |-> FALSE]

(* VMRUN itself is not intercepted, which the processor does not accept. *)
init_guest_state_no_vmrun(rip, asid) ==
    [control |-> ControlArea({"cpuid", "hlt", "exceptions"}, asid),
     state_save |-> StateSaveArea(rip, machine.cr4, efer)]

(* init_guest_state on a zeroed VMCB, with the registers of the host; the  *)
(* caller allocates the ASID and makes the sanity check.                   *)
init_guest_state(rip, asid) ==
    [control |-> ControlArea({"vmrun", "cpuid", "hlt", "exceptions"}, asid),
     state_save |-> StateSaveArea(rip, machine.cr4, efer)]

(* The checks of sanity_check_guest_state up to the ASID; reserved bits    *)
(* are those outside the registers' fields.                                *)
SaneUpToAsid(v) ==
    LET s == v.state_save
    IN  /\ "SVM" \in s.efer
        /\ ~("CD" \notin s.cr0 /\ "NW" \in s.cr0)
        /\ s.cr0 \subseteq Cr0 /\ s.cr3 \subseteq Cr3 /\ s.cr4 \subseteq Cr4
        /\ s.dr6 \subseteq AmdDr6 /\ s.dr7 \subseteq AmdDr7 /\ s.efer \subseteq Efer
        /\ ~("LMA" \in s.efer /\ "PG" \in s.cr0 /\ "PAE" \notin s.cr4)
        /\ ~("LMA" \in s.efer /\ "PG" \in s.cr0 /\ "PE" \notin s.cr0)
        /\ "vmrun" \in v.control.intercepts
        /\ v.control.guest_asid # 0

(* The last check is missing. *)
SaneGuestState_no_cet(v) == SaneUpToAsid(v)

(* sanity_check_guest_state *)
SaneGuestState(v) ==
    SaneUpToAsid(v) /\ ~("CET" \in v.state_save.cr4 /\ "WP" \notin v.state_save.cr0)

(* What VMRUN itself checks before it enters the guest; a VMCB that fails  *)
(* exits at once as Invalid.                                               *)
Consistent(v) ==
    LET s == v.state_save
    IN  /\ "SVM" \in s.efer
        /\ "NW" \in s.cr0 => "CD" \in s.cr0
        /\ s.cr0 \subseteq Cr0 /\ s.cr3 \subseteq Cr3 /\ s.cr4 \subseteq Cr4
        /\ s.efer \subseteq Efer
        /\ {"LME", "PG"} \subseteq s.efer \cup s.cr0 => "PAE" \in s.cr4 /\ "PE" \in s.cr0
        /\ "CET" \in s.cr4 => "WP" \in s.cr0
        /\ "vmrun" \in v.control.intercepts
        /\ v.control.guest_asid # 0
-----------------------------------------------------------------------------
Init ==
    /\ machine \in [debug : BOOLEAN, svm : BOOLEAN, svmdis : BOOLEAN,
                    asids : MaxAsids, cr4 : HostCr4s, pages : SUBSET Pages]
    /\ efer = {"LME", "LMA", "NX"}
    /\ vm_hsave = NoPage
    /\ asids = Ids!uninit
    /\ vids = Ids!new_starting_from(0, MaxVid)
    /\ slabs = <<<< >>>>
    /\ free_objects = [p \in Pages |-> << >>]
    /\ allocated_count = [p \in Pages |-> 0]
    /\ pool = machine.pages
    /\ held = {}
    /\ result = << >>
    /\ vmcb = << >>
    /\ vessels = {}
    /\ scheduable = NoVessel
    /\ looping = FALSE
    /\ stopped = ""

(* The caller is in no call of the crate. *)
Idle == stopped = "" /\ ~looping

(* Svm::check_support and Svm::check_firmware_disabled do not panic. *)
SvmUsable == machine.svm /\ ~machine.svmdis

enable == efer' = efer \cup {"SVM"}


init_asid_allocator == asids' = Ids!new(1, machine.asids)

init_host_state(p) == vm_hsave' = p /\ pool' = pool \ {p}

(* hypervisor::start and Svm::start, called once. *)
start ==
    /\ Idle /\ vm_hsave = NoPage
    /\ IF SvmUsable
       THEN /\ enable
            /\ init_asid_allocator
            /\ IF pool # {}
               THEN (\E p \in pool : init_host_state(p)) /\ UNCHANGED stopped
               ELSE stopped' = "OutOfMemory" /\ UNCHANGED <<vm_hsave, pool>>
       ELSE stopped' = "NoSvm" /\ UNCHANGED <<efer, asids, vm_hsave, pool>>
    /\ UNCHANGED <<machine, vids, slabs, free_objects, allocated_count, held, result,
                   vmcb, vessels, scheduable, looping>>

(* Box::new_in on the typed allocator: Allocator::allocate unwraps what    *)
(* the slab allocator returns.                                             *)
allocate_vmcb == Slab!allocate(1)

(* Vessel::new and Vmcb::new: the VID, the VMCB, the ASID and the check.   *)
(* Struct fields are evaluated in order, so a panic keeps the earlier ones.*)
Vessel_new(rip) ==
    LET vid  == Ids!handout_and_skip(vids, 1)
        asid == Ids!allocate(asids)
        v    == init_guest_state(rip, asid.id)
        h    == CHOOSE g \in held' : g \notin held
    IN  /\ Idle
        /\ vids' = vid.hander
        /\ IF vid.ok THEN allocate_vmcb ELSE UNCHANGED slab_vars
        /\ stopped' = IF ~vid.ok THEN "OutOfVids"
                      ELSE IF result'[2] # "Ok" THEN "NoVmcb"
                      ELSE IF ~asid.ok THEN "OutOfAsids"
                      ELSE IF machine.debug /\ ~SaneGuestState(v) THEN "InsaneGuest"
                      ELSE ""
        /\ asids' = IF stopped' \in {"", "InsaneGuest"} THEN asid.tracker ELSE asids
        /\ IF stopped' = ""
           THEN /\ vmcb' = (h :> v) @@ vmcb
                /\ vessels' = vessels \cup {[id |-> vid.id, control |-> h]}
           ELSE UNCHANGED <<vmcb, vessels>>
        /\ UNCHANGED <<machine, efer, vm_hsave, scheduable, looping>>

(* The VMCB is not given back. *)
DropVessel_leaks(vessel) ==
    /\ vessels' = vessels \ {vessel}
    /\ vmcb' = Restrict(vmcb, DOMAIN vmcb \ {vessel.control})
    /\ UNCHANGED <<slab_vars, stopped>>

(* Dropping a Box<Vessel>: Allocator::deallocate of its VMCB asserts that  *)
(* free succeeds.  VID and ASID stay used.                                 *)
DropVessel(vessel) ==
    LET h == vessel.control
        returned == Slab!free_returns(h.class, h.page, h.index)
    IN  /\ IF returned = "Ok" THEN Slab!PutBack(h)
           ELSE UNCHANGED <<free_objects, allocated_count, held>>
        /\ stopped' = IF returned = "Ok" THEN "" ELSE "BadFree"
        /\ result' = <<1, returned>>
        /\ UNCHANGED <<slabs, pool>>
        /\ vessels' = vessels \ {vessel}
        /\ vmcb' = Restrict(vmcb, DOMAIN vmcb \ {h})

(* The owner of a vessel that is not scheduled drops it. *)
drop(vessel) ==
    /\ Idle /\ vessel # scheduable
    /\ DropVessel(vessel)
    /\ UNCHANGED <<machine, efer, vm_hsave, asids, vids, scheduable, looping>>

(* Scheduler::add under the lock of SCHEDULER.  A second vessel fails the  *)
(* sanity_assert of a debug build; in a release build it replaces, and so  *)
(* drops, the first.                                                       *)
add(vessel) ==
    /\ Idle /\ vessel # scheduable
    /\ IF scheduable = NoVessel
       THEN scheduable' = vessel /\ UNCHANGED <<stopped, vmcb, vessels, slab_vars>>
       ELSE IF machine.debug
       THEN stopped' = "Occupied" /\ UNCHANGED <<scheduable, vmcb, vessels, slab_vars>>
       ELSE scheduable' = vessel /\ DropVessel(scheduable)
    /\ UNCHANGED <<machine, efer, vm_hsave, asids, vids, looping>>

(* Scheduler::remove; the vessel is the caller's again. *)
remove ==
    /\ Idle
    /\ IF scheduable = NoVessel
       THEN stopped' = "Empty" /\ UNCHANGED scheduable
       ELSE scheduable' = NoVessel /\ UNCHANGED stopped
    /\ UNCHANGED <<machine, efer, vm_hsave, asids, vids, slab_vars, vmcb, vessels, looping>>

(* Scheduler::operation_loop, which keeps the lock and never returns. *)
operation_loop ==
    /\ Idle
    /\ IF scheduable = NoVessel
       THEN stopped' = "Empty" /\ UNCHANGED looping
       ELSE looping' = TRUE /\ UNCHANGED stopped
    /\ UNCHANGED <<machine, efer, vm_hsave, asids, vids, slab_vars, vmcb, vessels, scheduable>>

(* The exits VMRUN may end with. *)
vmrun(v) ==
    IF ~Consistent(v) THEN {"Invalid"}
    ELSE {code \in {"Cpuid", "Hlt", "Vmrun", "Exception"} :
            LET intercept == [Cpuid |-> "cpuid", Hlt |-> "hlt", Vmrun |-> "vmrun",
                              Exception |-> "exceptions"]
            IN  intercept[code] \in v.control.intercepts}

(* The panic of a handler, or "" when the exit was only logged.  Neither   *)
(* handler writes to the VMCB.                                             *)
handle_intercept_during_int(valid) == IF valid THEN "Unimplemented" ELSE ""

handle_vmexit(code, valid) ==
    IF handle_intercept_during_int(valid) # "" THEN handle_intercept_during_int(valid)
    ELSE CASE code \in {"Cpuid", "Hlt", "Vmrun", "Vmload", "Vmsave"} -> ""
           [] code \in {"Invalid", "QemuInvalid"} -> "InvalidVmcb"
           [] OTHER -> "UnhandledExit"

(* Vmcb::run of the scheduled vessel: only an exception can exit while the *)
(* processor delivers an interrupt to the guest.                           *)
run ==
    /\ looping /\ stopped = ""
    /\ \E code \in vmrun(vmcb[scheduable.control]) :
       \E during_int \in IF code = "Exception" THEN BOOLEAN ELSE {FALSE} :
        /\ vmcb' = [vmcb EXCEPT ![scheduable.control].control.exitcode = code,
                                ![scheduable.control].control.exitintinfo = during_int]
        /\ stopped' = handle_vmexit(code, during_int)
    /\ UNCHANGED <<machine, efer, vm_hsave, asids, vids, slab_vars, vessels, scheduable, looping>>

Next ==
    \/ start
    \/ \E rip \in Rips : Vessel_new(rip)
    \/ \E vessel \in vessels : drop(vessel) \/ add(vessel)
    \/ remove
    \/ operation_loop
    \/ run

Spec == Init /\ [][Next]_vars
-----------------------------------------------------------------------------
(* The type invariant: the state of the crate's statics and of a VMCB. *)
TypeOK ==
    /\ efer \subseteq Efer /\ vm_hsave \in Pages \cup {NoPage}
    /\ scheduable \in vessels \cup {NoVessel}
    /\ vids.next \in 0..(MaxVid + 1)
    /\ \A h \in DOMAIN vmcb :
        LET v == vmcb[h]
        IN  /\ v.control.intercepts \subseteq Intercepts /\ v.control.exitcode \in InterceptCode
            /\ v.state_save.rflags \subseteq Rflags /\ v.state_save.rip \in Rips


(* Memory is accounted for: a page is free, a slab of VMCBs or the host    *)
(* state area, and one of them only, so the processor never saves the host *)
(* into a VMCB or into memory that is handed out again; and the VMCBs in   *)
(* use are those of the vessels alive (init_host_state, Vmcb::new, drop).  *)
(* The state has its type.                                                 *)
MemoryAccounted ==
    LET slab_pages == Range(slabs[1])
        host == {vm_hsave} \ {NoPage}
    IN  /\ TypeOK
        /\ pool \cup slab_pages \cup host = machine.pages
        /\ pool \cap slab_pages = {} /\ host \cap (pool \cup slab_pages) = {}
        /\ DOMAIN vmcb = {v.control : v \in vessels}
        /\ stopped = "" => held = {v.control : v \in vessels}

(* VMRUN is only ever executed with SVM enabled, a host state area and a   *)
(* VMCB that is still allocated to the scheduled vessel; and in a debug    *)
(* build the sanity check when the vessel was created guarantees that the  *)
(* processor accepts the VMCB every time (operation_loop, Vmcb::run,       *)
(* sanity_check_guest_state).                                              *)
ReadyToRun ==
    looping /\ stopped = "" =>
        /\ "SVM" \in efer /\ vm_hsave # NoPage
        /\ scheduable \in vessels /\ scheduable.control \in held
        /\ machine.debug => Consistent(vmcb[scheduable.control])

(* A panic has the cause it names.  Creation fails for want of an ASID     *)
(* only before start or when as many vessels were created, dropped ones    *)
(* included, as the processor has ASIDs; for want of a VMCB only when      *)
(* there is no page for another slab; for want of a VID when they ran out; *)
(* and an Invalid exit is only seen by release builds (unwrap of handout,  *)
(* allocate and IdTracker::allocate; sanity_assert; handle_vmexit); giving *)
(* a VMCB back never fails.                                                *)
PanicIsExplained ==
    CASE stopped = "OutOfAsids" -> vm_hsave = NoPage \/ vids.next = machine.asids + 1
      [] stopped = "OutOfVids" -> vids.next = MaxVid + 1
      [] stopped = "NoVmcb" -> pool = {} \/ Slab!ObjectCount(1) = 0
      [] stopped = "InsaneGuest" -> machine.debug /\ "CET" \in machine.cr4
      [] stopped = "InvalidVmcb" -> ~machine.debug /\ "CET" \in machine.cr4
      [] stopped = "OutOfMemory" -> pool = {}
      [] stopped = "BadFree" -> FALSE
      [] OTHER -> TRUE

(* What slab/src/lib.rs:24 says of SlabAllocatable, which Vmcb implements: *)
(* "A trait for every type that can be allocated using a custom slab       *)
(* allocator."  A VMCB can be allocated as long as there is a free page.   *)
VmcbCanBeAllocated == stopped = "NoVmcb" => result = <<1, "OutOfMemory">>
=============================================================================
