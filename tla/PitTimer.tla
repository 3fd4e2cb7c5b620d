------------------------------ MODULE PitTimer ------------------------------
(***************************************************************************)
(* The PIT test kernel (tests/pit-timer/main.cpp) on a PC: the PIT's       *)
(* output goes to pin 0 of the PIC and pin 2 of the IO-APIC, the PIC's     *)
(* INTR to pin 0 of the IO-APIC and to LINT0 of the LAPIC, or straight to  *)
(* the CPU while the LAPIC is off.  The kernel is one thread that the PIT  *)
(* and the interrupts interleave with; todo holds the calls it has still   *)
(* to make in the running test case.  The command line may disable any of  *)
(* the cases.                                                              *)
(***************************************************************************)
EXTENDS Pic, Sequences

CONSTANT ZeroCountExpires    \* may the time of a count of 0, 55 ms, pass
                             \* before the first case sets a new one?

VARIABLES
    pit,        \* out: level of the output; armed: the count that runs
    pic,        \* the PIC's registers
    ioapic,     \* mask bits of the entries for the PIC (pin 0, ExtInt) and
                \* the PIT (pin 2, Fixed)
    lapic,      \* enable bits, LINT0, and what is pending or in service
    cpu,        \* interrupt flag and halt state
    irq_info,   \* the handler's record
    irq_count,
    case,       \* the case that runs or ran last, 0 for the prologue
    todo,       \* calls left of it
    failed      \* cases that failed an assertion

hardware == <<pit, pic, ioapic, lapic, cpu>>

NMI_VECTOR == 2
PIC_PIT_IRQ_VECTOR == vector_base
IOAPIC_PIT_TIMER_IRQ_VECTOR == vector_base + PINS + 1
LAPIC_LINT0_PIC_IRQ_VECTOR == IOAPIC_PIT_TIMER_IRQ_VECTOR + 1
SERIAL_PIN == 3

----------------------------------------------------------------------------
(* The LAPIC.  Disabling it in the MSR loses its state, disabling it in    *)
(* software masks the local vector table.                                  *)

masked_lint0 == [masked |-> TRUE, mode |-> "FIXED"]

lapic_reset == [global |-> FALSE, software |-> FALSE, lint0 |-> masked_lint0,
                irr |-> {}, isr |-> {}, extint |-> FALSE, nmi |-> FALSE]

software_apic_disable(l) == [l EXCEPT !.software = FALSE, !.lint0.masked = TRUE]
software_apic_enable(l)  == [l EXCEPT !.software = TRUE]
global_apic_disable(l)   == lapic_reset
global_apic_enable(l)    == [lapic_reset EXCEPT !.global = TRUE]

lapic_disable_safe(l) ==
    LET l1 == IF l.software THEN software_apic_disable(l) ELSE l
    IN  IF l1.global THEN global_apic_disable(l1) ELSE l1

lapic_enable_safe(l) ==
    LET l1 == IF l.global THEN l ELSE global_apic_enable(l)
    IN  IF l1.software THEN l1 ELSE software_apic_enable(l1)

send_eoi(l) == [l EXCEPT !.isr = {}]

(* What the LAPIC latches when INTR rises because the PIC goes from p to   *)
(* q, with the IO-APIC entries io.                                         *)
intr_edge(l, io, p, q) ==
    IF intr(p) \/ ~intr(q) \/ ~l.software THEN l
    ELSE LET on(mode) == ~l.lint0.masked /\ l.lint0.mode = mode
         IN  [l EXCEPT
                !.irr = IF on("FIXED") THEN @ \cup {LAPIC_LINT0_PIC_IRQ_VECTOR} ELSE @,
                !.nmi = @ \/ on("NMI"),
                !.extint = @ \/ ~io.pic_masked]

(* What the LAPIC latches when the PIT's output rises.                     *)
pit_edge(l, io) ==
    IF io.pit_masked \/ ~l.software THEN l
    ELSE [l EXCEPT !.irr = @ \cup {IOAPIC_PIT_TIMER_IRQ_VECTOR}]

(* An ExtInt is pending: INTR is wired through, level triggered, or the    *)
(* IO-APIC sent one.                                                       *)
extint_pending ==
    \/ intr(pic) /\ (~lapic.global \/ (~lapic.lint0.masked /\ lapic.lint0.mode = "EXTINT"))
    \/ lapic.extint

----------------------------------------------------------------------------
(* The program.                                                            *)

IoApicPitFixedInt  == "IoApicPitFixedInt"
IoApicPicExtInt    == "IoApicPicExtInt"
LapicLint0ExtInt   == "LapicLint0ExtInt"
LapicLint0NMI      == "LapicLint0NMI"
LapicLint0FixedInt == "LapicLint0FixedInt"

call(op, arg) == [op |-> op, arg |-> arg]

(* configure_lapic() as each strategy calls it.                            *)
configure_lapic(s) ==
    CASE s = LapicLint0ExtInt   -> [masked |-> FALSE, mode |-> "EXTINT"]
      [] s = LapicLint0NMI      -> [masked |-> FALSE, mode |-> "NMI"]
      [] s = LapicLint0FixedInt -> [masked |-> FALSE, mode |-> "FIXED"]
      [] OTHER                  -> masked_lint0

prepare_pit_irq_env(s) ==
    <<call("lapic", s), call("pic", s), call("pit_irt", s), call("pic_irt", s)>>
    \o (IF s = IoApicPicExtInt THEN <<>> ELSE <<call("lint0", s)>>)

drain_pic_pit_interrupt == <<call("drain", 0), call("drained", 0)>>

prologue ==
    <<call("set_counter", 0)>> \o prepare_pit_irq_env(IoApicPicExtInt)
    \o drain_pic_pit_interrupt

before_test_case_cleanup ==
    prepare_pit_irq_env(IoApicPicExtInt) \o drain_pic_pit_interrupt
    \o <<call("reset", 0)>>

(* From the initial assertions to the last one: the strategy decides which *)
(* vector is expected and where the EOI goes.                              *)
receive_pit_interrupt(s, busy) ==
    <<call("assert_idle", 0), call("set_counter", 100)>>
    \o (IF busy THEN <<call("sti", 0), call("spin", 0)>> ELSE <<call("sti_hlt", 0)>>)
    \o <<call("cli", 0), call("assert_irq", s), call("eoi", s), call("assert_end", s)>>

test_case(s, busy) ==
    before_test_case_cleanup \o prepare_pit_irq_env(s) \o receive_pit_interrupt(s, busy)

test_cases ==
    <<test_case(IoApicPicExtInt, FALSE),   test_case(IoApicPicExtInt, TRUE),
      test_case(LapicLint0ExtInt, FALSE),  test_case(LapicLint0ExtInt, TRUE),
      test_case(IoApicPitFixedInt, FALSE), test_case(LapicLint0FixedInt, FALSE),
      test_case(LapicLint0NMI, FALSE)>>

via_pic(s) == s \in {IoApicPicExtInt, LapicLint0ExtInt}

expected_vector(s) ==
    CASE via_pic(s)              -> PIC_PIT_IRQ_VECTOR
      [] s = IoApicPitFixedInt   -> IOAPIC_PIT_TIMER_IRQ_VECTOR
      [] s = LapicLint0FixedInt  -> LAPIC_LINT0_PIC_IRQ_VECTOR
      [] s = LapicLint0NMI       -> NMI_VECTOR

(* When main() starts, the constructors of global_pic and global_pit have  *)
(* run, in this order: a tick of the firmware's timer may have come in     *)
(* between.  The firmware leaves the LAPIC in virtual wire mode or off in  *)
(* software.                                                               *)
Init ==
    /\ pit = [out |-> FALSE, armed |-> "no"]
    /\ \E irr \in {{}, {PIC_PIT_IRQ_VECTOR - vector_base}} :
            pic = [pic_init EXCEPT !.irr = irr]
    /\ ioapic = [pic_masked |-> TRUE, pit_masked |-> TRUE]
    /\ \E sw \in BOOLEAN :
            lapic = [lapic_reset EXCEPT !.global = TRUE, !.software = sw,
                                        !.lint0 = [masked |-> ~sw, mode |-> "EXTINT"]]
    /\ cpu = [intflag |-> FALSE, halted |-> FALSE]
    /\ irq_info = [valid |-> FALSE, vec |-> 255]
    /\ irq_count = 0
    /\ case = 0
    /\ todo = prologue
    /\ failed = {}

----------------------------------------------------------------------------
(* The kernel's calls, in the order of the program.                        *)

Calls(op) == todo # <<>> /\ Head(todo).op = op /\ ~cpu.halted
Arg == Head(todo).arg

(* baretest::fail() leaves the case by longjmp().  The prologue has no     *)
(* jump buffer: nothing is defined to follow, and no case is run.          *)
fail ==
    /\ failed' = failed \cup {case}
    /\ todo' = <<>>
    /\ case' = IF case = 0 THEN Len(test_cases) ELSE case

BARETEST_ASSERT(cond) ==
    IF cond THEN todo' = Tail(todo) /\ UNCHANGED <<case, failed>> ELSE fail

Return == todo' = Tail(todo) /\ UNCHANGED <<case, failed>>

(* The PIC changes to p, which LINT0 and the IO-APIC may notice.           *)
SetPic(p) == pic' = p /\ lapic' = intr_edge(lapic, ioapic, pic, p)

idle == ~vector_in_irr(pic, PIC_PIT_IRQ_VECTOR) /\ pic.isr = {}

(* The runner takes the next case, or skips it.                            *)
RunCase ==
    /\ todo = <<>> /\ case < Len(test_cases)
    /\ case' = case + 1
    /\ todo' = test_cases[case + 1]
    /\ UNCHANGED <<hardware, irq_info, irq_count, failed>>

SkipCase ==
    /\ todo = <<>> /\ case < Len(test_cases)
    /\ case' = case + 1
    /\ UNCHANGED <<hardware, irq_info, irq_count, todo, failed>>

ConfigureEnable ==
    /\ Calls("lapic")
    /\ lapic' = IF Arg = IoApicPicExtInt THEN lapic_disable_safe(lapic)
                                         ELSE lapic_enable_safe(lapic)
    /\ Return
    /\ UNCHANGED <<pit, pic, ioapic, cpu, irq_info, irq_count>>

ConfigurePic ==
    /\ Calls("pic")
    /\ SetPic(IF Arg = IoApicPitFixedInt THEN mask(pic, PIC_PIT_IRQ_VECTOR)
                                         ELSE unmask(pic, PIC_PIT_IRQ_VECTOR))
    /\ Return
    /\ UNCHANGED <<pit, ioapic, cpu, irq_info, irq_count>>

(* configure_ioapic(): one set_irt() per entry.                            *)
ConfigurePitEntry ==
    /\ Calls("pit_irt")
    /\ ioapic' = [ioapic EXCEPT !.pit_masked = Arg # IoApicPitFixedInt]
    /\ Return
    /\ UNCHANGED <<pit, pic, lapic, cpu, irq_info, irq_count>>

ConfigurePicEntry ==
    /\ Calls("pic_irt")
    /\ ioapic' = [ioapic EXCEPT !.pic_masked = Arg # IoApicPicExtInt]
    /\ Return
    /\ UNCHANGED <<pit, pic, lapic, cpu, irq_info, irq_count>>

ConfigureLint0 ==
    /\ Calls("lint0")
    /\ lapic' = [lapic EXCEPT !.lint0 = configure_lapic(Arg)]
    /\ Return
    /\ UNCHANGED <<pit, pic, ioapic, cpu, irq_info, irq_count>>

(* A new count lowers the output; in the code 0 is the longest count.      *)
SetCounter ==
    /\ Calls("set_counter")
    /\ pit' = [out |-> FALSE, armed |-> IF Arg = 0 THEN "longest" ELSE "short"]
    /\ Return
    /\ UNCHANGED <<pic, ioapic, lapic, cpu, irq_info, irq_count>>

Drain ==
    /\ Calls("drain")
    /\ IF vector_in_irr(pic, PIC_PIT_IRQ_VECTOR)
         THEN /\ SetPic(unmask(pic, PIC_PIT_IRQ_VECTOR))
              /\ todo' = <<call("window", 0), call("drain_end", 0)>> \o Tail(todo)
         ELSE /\ todo' = Tail(todo)
              /\ UNCHANGED <<pic, lapic>>
    /\ UNCHANGED <<pit, ioapic, cpu, irq_info, irq_count, case, failed>>

DrainEnd ==
    /\ Calls("drain_end")
    /\ IF /\ irq_info = [valid |-> TRUE, vec |-> PIC_PIT_IRQ_VECTOR]
          /\ highest_pending_isr_vec(pic) = PIC_PIT_IRQ_VECTOR
         THEN SetPic(eoi(mask(pic, PIC_PIT_IRQ_VECTOR))) /\ Return
         ELSE fail /\ UNCHANGED <<pic, lapic>>
    /\ UNCHANGED <<pit, ioapic, cpu, irq_info, irq_count>>

(* The assertions at the end of drain_pic_pit_interrupt() and at the start *)
(* of every test.                                                          *)
AssertIdle ==
    /\ Calls("drained") \/ Calls("assert_idle")
    /\ BARETEST_ASSERT(idle)
    /\ UNCHANGED <<hardware, irq_info, irq_count>>

(* Fault: keeps counting over the cases.                                   *)
Reset_keeps_count ==
    /\ Calls("reset")
    /\ irq_info' = [irq_info EXCEPT !.valid = FALSE]
    /\ Return
    /\ UNCHANGED <<hardware, irq_count>>

Reset ==
    /\ Calls("reset")
    /\ irq_info' = [irq_info EXCEPT !.valid = FALSE]
    /\ irq_count' = 0
    /\ Return
    /\ UNCHANGED hardware

(* Fault: hlt is no longer shadowed by sti.                                *)
EnableAndHalt_two_steps ==
    /\ Calls("sti_hlt")
    /\ IF cpu.intflag THEN cpu' = [cpu EXCEPT !.halted = TRUE] /\ todo' = Tail(todo)
                 ELSE cpu' = [cpu EXCEPT !.intflag = TRUE] /\ todo' = todo
    /\ UNCHANGED <<pit, pic, ioapic, lapic, irq_info, irq_count, case, failed>>

(* enable_interrupts_and_halt(): no interrupt is taken between sti and hlt.*)
EnableAndHalt ==
    /\ Calls("sti_hlt")
    /\ cpu' = [intflag |-> TRUE, halted |-> TRUE]
    /\ Return
    /\ UNCHANGED <<pit, pic, ioapic, lapic, irq_info, irq_count>>

SetFlag ==
    /\ Calls("sti") \/ Calls("cli")
    /\ cpu' = [cpu EXCEPT !.intflag = Calls("sti")]
    /\ Return
    /\ UNCHANGED <<pit, pic, ioapic, lapic, irq_info, irq_count>>

(* The busy loop ends.                                                     *)
Spin ==
    /\ Calls("spin")
    /\ irq_info.valid
    /\ Return
    /\ UNCHANGED <<hardware, irq_info, irq_count>>

AssertIrq ==
    /\ Calls("assert_irq")
    /\ BARETEST_ASSERT(/\ irq_info = [valid |-> TRUE, vec |-> expected_vector(Arg)]
                       /\ IF via_pic(Arg)
                            THEN highest_pending_isr_vec(pic) = PIC_PIT_IRQ_VECTOR
                            ELSE expected_vector(Arg) \notin lapic.irr)
    /\ UNCHANGED <<hardware, irq_info, irq_count>>

(* Fault: the cases with a fixed interrupt end it at the PIC.              *)
Eoi_pic_only ==
    /\ Calls("eoi")
    /\ SetPic(eoi(pic))
    /\ Return
    /\ UNCHANGED <<pit, ioapic, cpu, irq_info, irq_count>>

Eoi ==
    /\ Calls("eoi")
    /\ IF via_pic(Arg) THEN SetPic(eoi(pic))
                       ELSE lapic' = send_eoi(lapic) /\ pic' = pic
    /\ Return
    /\ UNCHANGED <<pit, ioapic, cpu, irq_info, irq_count>>

AssertEnd ==
    /\ Calls("assert_end")
    /\ BARETEST_ASSERT((via_pic(Arg) => idle) /\ irq_count = 1)
    /\ UNCHANGED <<hardware, irq_info, irq_count>>

----------------------------------------------------------------------------
(* Interrupts, and the devices.                                            *)

(* store_and_count_irq_handler() runs behind an interrupt gate and returns *)
(* to the calls rest, or fails on a vector the test does not use.          *)
Handler(vec, rest) ==
    /\ irq_info' = [valid |-> TRUE, vec |-> vec]
    /\ irq_count' = irq_count + 1
    /\ IF vec \in {NMI_VECTOR, LAPIC_LINT0_PIC_IRQ_VECTOR, PIC_PIT_IRQ_VECTOR,
                   IOAPIC_PIT_TIMER_IRQ_VECTOR}
         THEN /\ todo' = rest
              /\ cpu' = [cpu EXCEPT !.halted = FALSE]
              /\ UNCHANGED <<case, failed>>
         ELSE /\ fail
              /\ cpu' = [intflag |-> FALSE, halted |-> FALSE]

(* The CPU acknowledges an ExtInt at the PIC, which answers with its       *)
(* spurious vector if there is no request any more.                        *)
TakeExtInt(rest) ==
    /\ extint_pending
    /\ IF intr(pic)
         THEN pic' = inta(pic) /\ Handler(vector_base + inta_pin(pic), rest)
         ELSE pic' = pic /\ Handler(vector_base + 7, rest)
    /\ lapic' = [lapic EXCEPT !.extint = FALSE]
    /\ UNCHANGED <<pit, ioapic>>

ExtInt == cpu.intflag /\ TakeExtInt(todo)

(* sti; nop; cli: an ExtInt that is pending is taken, a later one is not.  *)
Window ==
    /\ Calls("window")
    /\ IF extint_pending
         THEN TakeExtInt(Tail(todo))
         ELSE Return /\ UNCHANGED <<hardware, irq_info, irq_count>>

FixedInt ==
    /\ cpu.intflag /\ lapic.isr = {}
    /\ \E vec \in lapic.irr :
        /\ lapic' = [lapic EXCEPT !.irr = @ \ {vec}, !.isr = {vec}]
        /\ Handler(vec, todo)
    /\ UNCHANGED <<pit, pic, ioapic>>

Nmi ==
    /\ lapic.nmi
    /\ lapic' = [lapic EXCEPT !.nmi = FALSE]
    /\ Handler(NMI_VECTOR, todo)
    /\ UNCHANGED <<pit, pic, ioapic>>

(* Terminal count: the output rises and stays high.                        *)
PitFires ==
    /\ pit.armed = "short" \/ (pit.armed = "longest" /\ ZeroCountExpires)
    /\ pit' = [out |-> TRUE, armed |-> "no"]
    /\ LET p == raise_pin(pic, PIC_PIT_IRQ_VECTOR - vector_base)
       IN  /\ pic' = p
           /\ lapic' = intr_edge(pit_edge(lapic, ioapic), ioapic, pic, p)
    /\ UNCHANGED <<ioapic, cpu, irq_info, irq_count, case, todo, failed>>

(* Some machines raise the serial interrupt, which the kernel keeps masked.*)
SerialRaises ==
    /\ SERIAL_PIN \notin pic.irr
    /\ SetPic(raise_pin(pic, SERIAL_PIN))
    /\ UNCHANGED <<pit, ioapic, cpu, irq_info, irq_count, case, todo, failed>>

Finished == todo = <<>> /\ case = Len(test_cases)

Kernel ==
    \/ RunCase \/ SkipCase \/ ConfigureEnable \/ ConfigurePic \/ ConfigurePitEntry
    \/ ConfigurePicEntry \/ ConfigureLint0 \/ SetCounter \/ Drain \/ DrainEnd
    \/ AssertIdle \/ Reset \/ EnableAndHalt \/ SetFlag \/ Spin \/ AssertIrq
    \/ Eoi \/ AssertEnd \/ Window

Next == Kernel \/ ExtInt \/ FixedInt \/ Nmi \/ PitFires \/ SerialRaises

----------------------------------------------------------------------------
(* Properties.                                                             *)

(* No BARETEST_ASSERT of the kernel fails and no unexpected vector arrives *)
(* on hardware that behaves, whichever cases the command line disables and *)
(* whatever an earlier case left behind in PIC, LAPIC and irq_info.        *)
AssertionsHold == failed = {}

(* Between two cases no interrupt is in service or latched and interrupts  *)
(* are off, so that a case is not disturbed by the one before; a request   *)
(* may only be left at the PIC, where before_test_case_cleanup() drains it.*)
CasesLeaveNothing ==
    todo = <<>> => /\ pic.isr = {} /\ lapic.isr = {} /\ lapic.irr = {}
                   /\ ~lapic.nmi /\ ~lapic.extint
                   /\ ~cpu.intflag

(* The NMI of the last case came before the hlt that waits for it, as cli  *)
(* does not hold an NMI back.                                              *)
NmiCameEarly ==
    cpu.halted /\ lapic.lint0 = configure_lapic(LapicLint0NMI) /\ irq_info.valid
=============================================================================
