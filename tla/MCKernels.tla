----------------------------- MODULE MCKernels -----------------------------
(***************************************************************************)
(* Five test kernels, each on the machine it needs: `kernel` says which    *)
(* one was booted, the others keep their initial state.                    *)
(***************************************************************************)
EXTENDS Integers, Sequences

CONSTANTS TimerSkippable, PrioritySkippable, SpuriousIn, ModesSkippable, FpuProcessors, FpuSkippable

VARIABLES
    kernel,
    pit, pic, ioapic, lapic, cpu, irq_info, irq_count, case, todo, failed,              \* pit-timer
    timer, vec, tcpu, thandler, valid, tcount, passed, oneshot, tstep,                  \* lapic-timer
    papic, nmi, pcpu, ppic, hpet, irt, phandler, pinfo, pcount, confirmed, got, pstep,  \* lapic-priority
    apic, proc, mhandler, flags, minfo, buffer, old, mstep,                             \* lapic-modes
    fproc, cr4, xcr0, fpu, xsave_area, xsave_mask, finfo, sizes, fstep                  \* fpu

PT == INSTANCE PitTimer WITH vector_base <- 32, ZeroCountExpires <- FALSE
TM == INSTANCE LapicTimer WITH EXPECTED_IRQS <- 3, Rounds <- 2, Prompt <- TRUE, Skippable <- TimerSkippable,
        cpu <- tcpu, handler <- thandler, irq_count <- tcount, step <- tstep
PY == INSTANCE LapicPriority WITH NUM_FAST_NMI <- 3, Skippable <- PrioritySkippable,
        apic <- papic, cpu <- pcpu, pic <- ppic, handler <- phandler, info <- pinfo, irq_count <- pcount, step <- pstep
MD == INSTANCE LapicModes WITH ApicIds <- {0}, Skippable <- ModesSkippable,
        handler <- mhandler, info <- minfo, step <- mstep
FP == INSTANCE Fpu WITH Processors <- FpuProcessors, PAGE_SIZE <- 10, Skippable <- FpuSkippable,
        proc <- fproc, info <- finfo, step <- fstep

pitv == <<pit, pic, ioapic, lapic, cpu, irq_info, irq_count, case, todo, failed>>
tmv == <<timer, vec, tcpu, thandler, valid, tcount, passed, oneshot, tstep>>
pyv == <<papic, nmi, pcpu, ppic, hpet, irt, phandler, pinfo, pcount, confirmed, got, pstep>>
mdv == <<apic, proc, mhandler, flags, minfo, buffer, old, mstep>>
fpv == <<fproc, cr4, xcr0, fpu, xsave_area, xsave_mask, finfo, sizes, fstep>>
kvars == <<kernel, pitv, tmv, pyv, mdv, fpv>>

(* Only the kernel that was booted has more than one initial state. *)
KInit ==
    /\ kernel \in {"pit-timer", "lapic-timer", "lapic-priority", "lapic-modes", "fpu"}
    /\ kernel = "fpu" \/ (kernel # "fpu" /\ fproc = CHOOSE p \in FpuProcessors : TRUE)
    /\ PT!Init /\ TM!TmInit /\ PY!PyInit /\ MD!MdInit /\ FP!FpInit
    /\ kernel # "pit-timer" => pic.irr = {} /\ lapic.software
    /\ kernel # "lapic-timer" => ~vec.irr /\ tcpu.tscd
    /\ kernel # "lapic-priority" => papic.irr = {} /\ pcpu.hpet
    /\ kernel # "lapic-modes" => apic.soft /\ apic.lint0.masked /\ apic.irr = {} /\ proc.x2apic /\ proc.amd

IsPit == kernel = "pit-timer" /\ UNCHANGED <<kernel, tmv, pyv, mdv, fpv>>
IsTimer == kernel = "lapic-timer" /\ UNCHANGED <<kernel, pitv, pyv, mdv, fpv>>
IsPriority == kernel = "lapic-priority" /\ UNCHANGED <<kernel, pitv, tmv, mdv, fpv>>
IsModes == kernel = "lapic-modes" /\ UNCHANGED <<kernel, pitv, tmv, pyv, fpv>>
IsFpu == kernel = "fpu" /\ UNCHANGED <<kernel, pitv, tmv, pyv, mdv>>

KNext ==
    \/ IsPit /\ PT!Next
    \/ IsTimer /\ TM!TmNext
    \/ IsPriority /\ PY!PyNext
    \/ IsModes /\ MD!MdNext
    \/ IsFpu /\ FP!FpNext

(* The processor executes and takes pending interrupts, the timers count. *)
KFairness ==
    /\ WF_kvars(IsPit /\ PT!Kernel) /\ WF_kvars(IsPit /\ PT!ExtInt) /\ WF_kvars(IsPit /\ PT!FixedInt)
    /\ WF_kvars(IsPit /\ PT!Nmi) /\ WF_kvars(IsPit /\ PT!PitFires)
    /\ WF_kvars(IsTimer /\ TM!Kernel) /\ WF_kvars(IsTimer /\ TM!TimerInterrupt) /\ WF_kvars(IsTimer /\ TM!Tick)
    /\ WF_kvars(IsTimer /\ TM!Pass) /\ WF_kvars(IsTimer /\ TM!DeadlineFires)
    /\ WF_kvars(IsPriority /\ PY!Processor) /\ WF_kvars(IsPriority /\ PY!HpetFires)
    /\ WF_kvars(IsModes /\ MD!Kernel) /\ WF_kvars(IsFpu /\ FP!Kernel)

KSpec == KInit /\ [][KNext]_kvars /\ KFairness

MCTimerSkippable == 3 .. 8
MCPrioritySkippable == 1 .. 23
MCSpuriousIn == 1 .. 8
MCModesSkippable == (1 .. 15) \ {7}
MCFpuSkippable == 1 .. 15
MCFpuProcessors ==
    LET levels == {{}, {"XSAVE"}, {"XSAVE", "AVX", "FMA"}, {"XSAVE", "AVX", "FMA", "AVX512F"}}
        options == {{}, {"XSAVEC", "XSAVEOPT"}, {"XSAVEC", "XSAVEOPT", "XSAVES"}, {"virtualized AMD"}}
    IN  {[features |-> IF l = {} THEN l ELSE l \cup o, extra |-> e] : l \in levels, o \in options, e \in {0, 1, 5}}
-----------------------------------------------------------------------------
(* tests/pit-timer, lapic-timer, lapic-priority, lapic-modes, fpu: no      *)
(* BARETEST_ASSERT fails on hardware that behaves, whichever of the cases  *)
(* the command line disables, however interrupts nest and whenever the     *)
(* timers expire.                                                          *)
AssertionsHold ==
    /\ PT!AssertionsHold /\ TM!TimerAssertionsHold /\ PY!PriorityAssertionsHold /\ MD!ModesAssertionsHold
    /\ FP!FpuAssertionsHold

(* The same kernels: a case leaves no interrupt pending, in service or     *)
(* enabled, no device armed, no handler installed, no APIC mode switched   *)
(* and no XCR0 that the next case would meet.                              *)
CasesLeaveNothing ==
    /\ PT!CasesLeaveNothing /\ TM!TimerLeavesNothing /\ PY!PriorityLeavesNothing /\ MD!ModesLeaveNothing
    /\ FP!FpuLeavesNothing

(* The same kernels: every wait for an interrupt ends and the kernel gets  *)
(* through its cases; in pit-timer an NMI may overtake the hlt that waits, *)
(* and the prologue of fpu is lost on a processor with too large an area.  *)
Finishes ==
    <>CASE kernel = "pit-timer" -> PT!Finished \/ PT!NmiCameEarly
        [] kernel = "lapic-timer" -> TM!Finished
        [] kernel = "lapic-priority" -> PY!Finished
        [] kernel = "lapic-modes" -> MD!Finished
        [] kernel = "fpu" -> FP!Finished \/ FP!Lost
=============================================================================
