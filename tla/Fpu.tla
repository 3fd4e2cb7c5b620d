-------------------------------- MODULE Fpu --------------------------------
(***************************************************************************)
(* The FPU test kernel (tests/fpu): all cases share the registers, XCR0,   *)
(* CR4.OSXSAVE and one XSAVE area, header included.  A register part holds *)
(* "init", TEST_VAL, DESTROY_VAL or, if restored from where nothing was    *)
(* saved, "junk"; todo holds the calls the kernel has still to make.       *)
(***************************************************************************)
EXTENDS Integers, SequencesExt

CONSTANTS
    Processors,  \* [features, extra]: what CPUID reports, and the size of what is not in XCR0_MASK
    PAGE_SIZE,   \* bytes in xsave_area
    Skippable    \* cases the command line may disable

VARIABLES
    proc,        \* the processor: constant
    cr4,         \* OSXSAVE, OSFXSR
    xcr0,
    fpu,         \* state component -> value
    xsave_area,  \* header XSTATE_BV and XCOMP_BV, and [component -> [format -> value]]
    xsave_mask,
    info,     \* irq_info
    sizes,       \* locals of cpuid_reports_xstate_size
    step         \* [case, todo, failed, lost]: lost if it jumped through an empty jmp_buf

fpvars == <<proc, cr4, xcr0, fpu, xsave_area, xsave_mask, info, sizes, step>>

UD == 6
GP == 13
AVX512 == {"OPMASK", "ZMM_Hi256", "Hi16_ZMM"}
XCR0_MASK == {"FPU", "SSE", "AVX"} \cup AVX512
NotCompacted == {}

Supports(f) == f \in proc.features
get_supported_xstate ==
    {"FPU", "SSE"} \cup (IF Supports("AVX") THEN {"AVX"} ELSE {}) \cup (IF Supports("AVX512F") THEN AVX512 ELSE {})

(* The registers the kernel names, by state component                      *)
mm0 == {"FPU"}
xmm0 == {"SSE"}
ymm0 == {"SSE", "AVX"}
zmm0 == {"SSE", "AVX", "ZMM_Hi256"}
zmm23 == {"Hi16_ZMM"}
k0 == {"OPMASK"}
-----------------------------------------------------------------------------
(* The test bodies: a call is [op, arg].                                   *)

do(op, arg) == <<[op |-> op, arg |-> arg]>>
roundtrip(regs, save, restore) ==
    do("set", [regs |-> regs, val |-> "TEST_VAL"]) \o do("save", save)
    \o do("set", [regs |-> regs, val |-> "DESTROY_VAL"]) \o do("restore", restore)
    \o do("assert_val", regs)
set_xcr(v) == do("set_xcr", v)
set_xcr_xsave_mask == do("set_xcr_mask", 0)

prologue ==
    (IF Supports("XSAVE")
     THEN do("mask", 0) \o do("cr4", {"OSXSAVE", "OSFXSR"}) \o set_xcr_xsave_mask \o do("check_size", 0)
     ELSE <<>>) \o do("fninit", 0)

check_xcr_exception(v) == do("try_xcr", v) \o do("assert_vec", GP)

(* Fault: XCR0 is left with what the last value enabled.                   *)
cpuid_reports_xstate_size_left ==
    do("reported", 0) \o set_xcr({"FPU", "SSE"}) \o do("current", "fpu") \o do("assert_sizes", 0)
cpuid_reports_xstate_size ==
    do("reported", 0) \o set_xcr({"FPU", "SSE"}) \o do("current", "fpu") \o set_xcr_xsave_mask
    \o do("current", "all") \o do("assert_sizes", 0)

setting_invalid_xcr0_causes_gp ==
    LET if(c, values) == IF c \in xsave_mask THEN values ELSE <<>>
        values == <<{}>> \o if("AVX", <<{"FPU", "AVX"}>>)
                  \o if("OPMASK", <<{"FPU", "AVX"}, {"FPU"} \cup AVX512, {"FPU", "OPMASK", "Hi16_ZMM"},
                        {"FPU", "OPMASK", "ZMM_Hi256"}, {"FPU", "ZMM_Hi256", "Hi16_ZMM"},
                        {"FPU", "AVX", "ZMM_Hi256", "Hi16_ZMM"}, {"FPU", "AVX", "OPMASK", "Hi16_ZMM"},
                        {"FPU", "AVX", "OPMASK", "ZMM_Hi256"}>>)
    IN  FlattenSeq([i \in DOMAIN values |-> check_xcr_exception(values[i])])

(* Fault: XCR0 keeps the first valid value.                                *)
setting_valid_xcr0_works_once == set_xcr({"FPU"}) \o do("assert_xcr", {"FPU"})
setting_valid_xcr0_works ==
    LET values == <<{"FPU"}, {"FPU", "SSE"}>>
                  \o (IF Supports("AVX") THEN <<{"FPU", "SSE", "AVX"}>> ELSE <<>>)
                  \o (IF Supports("AVX512F") THEN <<{"FPU", "SSE", "AVX"} \cup AVX512>> ELSE <<>>)
    IN  FlattenSeq([i \in DOMAIN values |-> set_xcr(values[i]) \o do("assert_xcr", values[i])]) \o set_xcr_xsave_mask

fxsave_fxrstor_default == roundtrip(mm0, "fxsave", "fxrstor")
xstate_size_checks == do("assert_calculated", 0)
invalid_xcrN_causes_gp == do("try_xcrN", 1) \o do("assert_vec", GP)
xsave_xrstor_full == roundtrip(mm0 \cup xmm0, "xsave", "xrstor")
xsave_xrstor_full_avx == roundtrip(ymm0, "xsave", "xrstor")
xsave_xrstor_full_avx512 == roundtrip(k0 \cup zmm0 \cup zmm23, "xsave", "xrstor")
xsavec == roundtrip(mm0, "xsavec", "xrstor")
xsaveopt == roundtrip(mm0, "xsaveopt", "xrstor")
xsaves == roundtrip(mm0, "xsaves", "xrstors")
xsaves_raises_ud == do("try_xsaves", 0) \o do("assert_vec", UD)
fused_multiply_add == do("vfmadd132pd", 0)
cpuid_reflects_correct_osxsave_value ==
    do("cr4", {"OSFXSR"}) \o do("assert_osxsave", FALSE) \o do("cr4", {"OSXSAVE", "OSFXSR"}) \o do("assert_osxsave", TRUE)

(* TEST_CASE_CONDITIONAL, in the order of registration; the two cases that *)
(* only print come first in the source.                                    *)
test_cases == <<
    fxsave_fxrstor_default, xstate_size_checks, cpuid_reports_xstate_size, setting_invalid_xcr0_causes_gp,
    setting_valid_xcr0_works, invalid_xcrN_causes_gp, xsave_xrstor_full, xsave_xrstor_full_avx,
    xsave_xrstor_full_avx512, xsavec, xsaveopt, xsaves, xsaves_raises_ud, fused_multiply_add,
    cpuid_reflects_correct_osxsave_value>>
Condition(case) ==
    /\ case \notin {1, 8, 9, 10, 11, 12, 13} => Supports("XSAVE")
    /\ case \in {3, 8} => Supports("AVX")
    /\ case = 9 => Supports("AVX512F")
    /\ case = 10 => Supports("XSAVEC")
    /\ case = 11 => Supports("XSAVEOPT")
    /\ case = 12 => Supports("XSAVES")
    /\ case = 13 => ~Supports("XSAVES") /\ ~Supports("virtualized AMD")
    /\ case = 14 => Supports("FMA")
-----------------------------------------------------------------------------
(* The processor.                                                          *)

Index(c) == CHOOSE i \in 1 .. 6 : <<"FPU", "SSE", "AVX", "OPMASK", "ZMM_Hi256", "Hi16_ZMM">>[i] = c
(* Where a component ends in the standard format; the legacy region holds  *)
(* the first two.                                                          *)
End(c) == <<2, 2, 3, 5, 6, 7>>[Index(c)]
Extent(set) == Max({2} \cup {End(c) : c \in set})
ValidXcr0(v) ==
    /\ "FPU" \in v /\ v \subseteq get_supported_xstate
    /\ "AVX" \in v => "SSE" \in v
    /\ v \cap AVX512 # {} => AVX512 \cup {"AVX"} \subseteq v
HasVector(regs) == "OSXSAVE" \in cr4 /\ regs \subseteq xcr0

(* Components at the same place in both formats                            *)
Fixed(c) == c \in {"FPU", "SSE", "AVX"}
Stored(area, set, fmt) ==
    [c \in XCR0_MASK |-> [f \in {"standard", "compacted"} |->
        IF c \in set /\ (f = fmt \/ Fixed(c)) THEN fpu[c]
        ELSE IF ~Fixed(c) /\ f # fmt THEN "junk" ELSE area.data[c][f]]]

(* FXSAVE writes the legacy region only.  XSAVE and XSAVEOPT leave         *)
(* XCOMP_BV alone, XSAVEC and XSAVES set it.                               *)
Saved(instr) ==
    LET legacy == IF "OSFXSR" \in cr4 THEN {"FPU", "SSE"} ELSE {"FPU"}
        rfbm == xsave_mask \cap xcr0
        used == {c \in rfbm : fpu[c] # "init"}
    IN  CASE instr = "fxsave" -> [xsave_area EXCEPT !.data = Stored(xsave_area, legacy, "standard")]
          [] instr \in {"xsave", "xsaveopt"} ->
                [xsave_area EXCEPT !.bv = used \cup (@ \ rfbm), !.data = Stored(xsave_area, rfbm, "standard")]
          [] instr \in {"xsavec", "xsaves"} ->
                [bv |-> used, comp |-> rfbm, data |-> Stored(xsave_area, used, "compacted")]

RestoreFaults(instr) ==
    /\ instr # "fxrstor"
    /\ \/ xsave_area.comp = NotCompacted /\ instr = "xrstors"
       \/ xsave_area.comp # NotCompacted /\ ~(xsave_area.bv \subseteq xsave_area.comp)
Restored(instr) ==
    LET legacy == IF "OSFXSR" \in cr4 THEN {"FPU", "SSE"} ELSE {"FPU"}
        fmt == IF xsave_area.comp = NotCompacted THEN "standard" ELSE "compacted"
        rfbm == xsave_mask \cap xcr0
    IN  [c \in XCR0_MASK |->
            IF instr = "fxrstor" THEN IF c \in legacy THEN xsave_area.data[c].standard ELSE fpu[c]
            ELSE IF c \notin rfbm THEN fpu[c]
            ELSE IF c \in xsave_area.bv THEN xsave_area.data[c][fmt] ELSE "init"]

FpInit ==
    /\ proc \in Processors
    /\ cr4 = {} /\ xcr0 = {"FPU"} /\ xsave_mask = {}
    /\ fpu = [c \in XCR0_MASK |-> "init"]
    /\ xsave_area = [bv |-> {}, comp |-> NotCompacted,
                     data |-> [c \in XCR0_MASK |-> [f \in {"standard", "compacted"} |-> "init"]]]
    /\ info = [valid |-> FALSE, vec |-> 0] /\ sizes = [reported |-> 0, fpu |-> 0, all |-> 0]
    /\ step = [case |-> 0, todo |-> prologue, failed |-> FALSE, lost |-> FALSE]
-----------------------------------------------------------------------------
(* The kernel's calls.                                                     *)

Calls(op) == step.todo # <<>> /\ Head(step.todo).op = op
Arg == Head(step.todo).arg
Return == step' = [step EXCEPT !.todo = Tail(@)]
BARETEST_ASSERT(cond) ==
    IF cond THEN Return ELSE step' = [step EXCEPT !.todo = <<>>, !.failed = TRUE]
(* An exception nobody has installed a handler for                         *)
Unhandled == step' = [step EXCEPT !.todo = <<>>, !.failed = TRUE]

RunCase ==
    /\ step.todo = <<>> /\ step.case < Len(test_cases) /\ ~step.lost
    /\ LET next == step.case + 1
           can == Condition(next)
       IN  \/ can /\ step' = [step EXCEPT !.case = next, !.todo = test_cases[next]]
           \/ (~can \/ next \in Skippable) /\ step' = [step EXCEPT !.case = next]
    /\ UNCHANGED <<proc, cr4, xcr0, fpu, xsave_area, xsave_mask, info, sizes>>

(* The size check of prologue(): fail() jumps to an environment no         *)
(* test_case has set yet.                                                  *)
Prologue ==
    /\ \/ Calls("mask") /\ xsave_mask' = get_supported_xstate \cap XCR0_MASK /\ UNCHANGED fpu /\ Return
       \/ Calls("fninit") /\ fpu' = [fpu EXCEPT !["FPU"] = "init"] /\ UNCHANGED xsave_mask /\ Return
       \/ /\ Calls("check_size")
          /\ IF Extent(get_supported_xstate) + proc.extra > PAGE_SIZE
             THEN step' = [step EXCEPT !.todo = <<>>, !.lost = TRUE] ELSE Return
          /\ UNCHANGED <<fpu, xsave_mask>>
    /\ UNCHANGED <<proc, cr4, xcr0, xsave_area, info, sizes>>

set_cr4 == Calls("cr4") /\ cr4' = Arg /\ Return /\ UNCHANGED <<proc, xcr0, fpu, xsave_area, xsave_mask, info, sizes>>

SetXcr ==
    /\ Calls("set_xcr") \/ Calls("set_xcr_mask")
    /\ LET v == IF Calls("set_xcr") THEN Arg ELSE xsave_mask
       IN  IF "OSXSAVE" \in cr4 /\ ValidXcr0(v) THEN xcr0' = v /\ Return ELSE Unhandled /\ UNCHANGED xcr0
    /\ UNCHANGED <<proc, cr4, fpu, xsave_area, xsave_mask, info, sizes>>

SetRegs ==
    /\ Calls("set")
    /\ IF Arg.regs \cap (AVX512 \cup {"AVX"}) # {} => HasVector(Arg.regs)
       THEN fpu' = [c \in XCR0_MASK |-> IF c \in Arg.regs THEN Arg.val ELSE fpu[c]] /\ Return
       ELSE Unhandled /\ UNCHANGED fpu
    /\ UNCHANGED <<proc, cr4, xcr0, xsave_area, xsave_mask, info, sizes>>

Save ==
    /\ Calls("save")
    /\ IF Arg = "fxsave" \/ "OSXSAVE" \in cr4 THEN xsave_area' = Saved(Arg) /\ Return
       ELSE Unhandled /\ UNCHANGED xsave_area
    /\ UNCHANGED <<proc, cr4, xcr0, fpu, xsave_mask, info, sizes>>

Restore ==
    /\ Calls("restore")
    /\ IF (Arg = "fxrstor" \/ "OSXSAVE" \in cr4) /\ ~RestoreFaults(Arg) THEN fpu' = Restored(Arg) /\ Return
       ELSE Unhandled /\ UNCHANGED fpu
    /\ UNCHANGED <<proc, cr4, xcr0, xsave_area, xsave_mask, info, sizes>>

(* Under irq_handler::guard and setjmp(): the handler records and jumps    *)
(* back.                                                                   *)
irq_handler_fn(faults, vec) ==
    info' = IF faults THEN [valid |-> TRUE, vec |-> vec] ELSE [info EXCEPT !.valid = FALSE]

Try ==
    /\ \/ /\ Calls("try_xcr")
          /\ irq_handler_fn(~ValidXcr0(Arg), GP)
          /\ xcr0' = IF ValidXcr0(Arg) THEN Arg ELSE xcr0
       \/ Calls("try_xcrN") /\ irq_handler_fn(TRUE, GP) /\ UNCHANGED xcr0
       \/ Calls("try_xsaves") /\ irq_handler_fn(~Supports("XSAVES"), UD) /\ UNCHANGED xcr0
    /\ Return
    /\ UNCHANGED <<proc, cr4, fpu, xsave_area, xsave_mask, sizes>>

(* CPUID(0xD): EBX follows XCR0, ECX is for everything supported.          *)
Sizes ==
    /\ \/ Calls("reported") /\ sizes' = [sizes EXCEPT !.reported = Extent(get_supported_xstate) + proc.extra]
       \/ Calls("current") /\ sizes' = [sizes EXCEPT ![Arg] = Extent(xcr0)]
    /\ Return
    /\ UNCHANGED <<proc, cr4, xcr0, fpu, xsave_area, xsave_mask, info>>

Asserts ==
    /\ \/ Calls("assert_val") /\ BARETEST_ASSERT(\A c \in Arg : fpu[c] = "TEST_VAL")
       \/ Calls("assert_vec") /\ BARETEST_ASSERT(info.valid /\ info.vec = Arg)
       \/ Calls("assert_xcr") /\ BARETEST_ASSERT(xcr0 = Arg)
       \/ Calls("assert_osxsave") /\ BARETEST_ASSERT(("OSXSAVE" \in cr4) = Arg)
       \/ Calls("assert_calculated") /\ BARETEST_ASSERT(Extent(xsave_mask) = Extent(xcr0))
       \/ Calls("assert_sizes") /\ BARETEST_ASSERT(sizes.fpu < sizes.all /\ sizes.all <= sizes.reported)
       \/ Calls("vfmadd132pd") /\ BARETEST_ASSERT(HasVector({"SSE", "AVX"}))
    /\ UNCHANGED <<proc, cr4, xcr0, fpu, xsave_area, xsave_mask, info, sizes>>

Finished == step.todo = <<>> /\ step.case = Len(test_cases)
Lost == step.lost
Done == (Finished \/ Lost) /\ UNCHANGED fpvars

Kernel == RunCase \/ Prologue \/ set_cr4 \/ SetXcr \/ SetRegs \/ Save \/ Restore \/ Try \/ Sizes \/ Asserts

FpNext == Kernel \/ Done
-----------------------------------------------------------------------------
(* No assertion of the kernel fails and no instruction faults where no     *)
(* handler waits for it, whichever cases were left out: none relies on     *)
(* what an earlier one left in the area, its header or XCR0.               *)
FpuAssertionsHold == ~step.failed

(* Each case finds XCR0 and CR4 as prologue() has set them.                *)
FpuLeavesNothing ==
    step.todo = <<>> /\ ~step.lost /\ Supports("XSAVE") => xcr0 = xsave_mask /\ cr4 = {"OSXSAVE", "OSFXSR"}
=============================================================================
