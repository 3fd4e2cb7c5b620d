--------------------------- MODULE LapicPriority ---------------------------
(***************************************************************************)
(* The interrupt priority test kernel (tests/lapic-priority/main.cpp) on a *)
(* processor with its LAPIC, the HPET behind pin 0 of the PIC and behind   *)
(* the IO-APIC, and NMIs.  todo is the stack of calls the kernel has still *)
(* to make: an interrupt puts its handler's calls in front of it.          *)
(* A priority class has two vectors here, the classes are 2 to 4.          *)
(***************************************************************************)
EXTENDS Integers, SequencesExt

CONSTANTS
    NUM_FAST_NMI,   \* 10000 in the code
    Skippable,      \* cases the command line may disable
    SpuriousIn      \* cases in which raising the TPR may end in a spurious interrupt

VARIABLES
    apic,       \* irr, isr, tpr, spurious: one is on its way to the processor
    nmi,        \* pending, blocked (until the next iret)
    cpu,        \* intflag, halted
    pic,        \* pin 0: masked, irr, isr
    hpet,       \* "off", "once", "periodic"
    irt,        \* the IO-APIC entry of the HPET is unmasked
    handler,    \* irq_handler_fn and the ones the live guards saved
    info,       \* irq_info
    irq_count,
    confirmed,  \* confirmed_vectors
    got,        \* got_ipi, got_extint, got_nmi
    step        \* [case, todo, failed]

pyvars == <<apic, nmi, cpu, pic, hpet, irt, handler, info, irq_count, confirmed, got, step>>

VECTORS_PER_CLASS == 2
SPURIOUS_TEST_VECTOR == 4
MIN_VECTOR == 5
MAX_VECTOR == 9
NMI_VECTOR == 2
HPET_IRQ_VEC == 6
TopClass == 4               \* 0xf in the code
expected_vectors == [i \in 1 .. MAX_VECTOR - MIN_VECTOR + 1 |-> MIN_VECTOR + i - 1]
fixed_valid_vectors == MIN_VECTOR .. MAX_VECTOR
Class(v) == v \div VECTORS_PER_CLASS

-----------------------------------------------------------------------------
(* The test bodies: a call is [op, arg].                                   *)

do(op, arg) == <<[op |-> op, arg |-> arg]>>
guard(fn) == do("guard", fn)
unguard == do("unguard", 0)
enable_interrupts_for_single_instruction == do("sti", 0) \o do("cli", 0)
send_self_ipi(v, sh, dlv) == do("ipi", [vec |-> v, sh |-> sh, dlv |-> dlv])
send_nmi == send_self_ipi(NMI_VECTOR, "NO_SH", "NMI")
send_all(sh) == FlattenSeq([i \in DOMAIN expected_vectors |-> send_self_ipi(expected_vectors[i], sh, "FIXED")])
tpr(class) == do("tpr", class)
wait_for_interrupts(n) == do("confirm", n)

(* Fault: interrupts in service are left there. *)
drain_interrupts_requests == guard("record") \o tpr(0) \o do("drain_irr", 0) \o unguard
drain_interrupts == guard("record") \o tpr(0) \o do("drain", 0) \o unguard

test_lapic_priority(sh) ==
    drain_interrupts \o do("clear", 0) \o do("reset", 0) \o guard("record") \o send_all(sh)
    \o wait_for_interrupts(Len(expected_vectors)) \o do("assert_order", 0) \o unguard

num_allowed_vectors(class) == (MAX_VECTOR + 1) - ((class + 1) * VECTORS_PER_CLASS)
priorities == [i \in 1 .. TopClass - 2 |-> TopClass - i]

test_interrupt_injection_should_honor_tpr_value(sh) ==
    LET round(class) ==
            do("clear", 0) \o send_all(sh) \o tpr(class) \o wait_for_interrupts(num_allowed_vectors(class))
            \o do("assert_allowed", num_allowed_vectors(class)) \o tpr(0)
            \o wait_for_interrupts(Len(expected_vectors))
    IN  drain_interrupts \o do("reset", 0) \o guard("record")
        \o FlattenSeq([i \in DOMAIN priorities |-> round(priorities[i])]) \o unguard

test_setting_lapic_tpr_to_f_should_inhibit_all_interrupts(sh) ==
    drain_interrupts \o guard("tpr") \o do("reset", 0) \o do("clear", 0) \o send_self_ipi(MAX_VECTOR, sh, "FIXED")
    \o tpr(TopClass) \o enable_interrupts_for_single_instruction \o do("assert_invalid", 0)
    \o tpr(0) \o wait_for_interrupts(1) \o do("assert_max", 0) \o unguard

test_ppr_value_for_all_combinations_of_tpr_and_isrv(sh) ==
    LET round(class) ==
            send_all(sh) \o tpr(class) \o do("zero", 0) \o do("sti", 0) \o do("count", num_allowed_vectors(class))
            \o do("cli", 0) \o drain_interrupts
    IN  drain_interrupts \o guard("ppr")
        \o FlattenSeq([i \in DOMAIN priorities |-> round(priorities[i])]) \o unguard

self_nmi_should_call_handler_while_interrupts_are_closed_and_second_nmi_should_happen_after_ipi ==
    drain_interrupts \o guard("nmi") \o do("zero", 0) \o send_self_ipi(MAX_VECTOR, "SELF", "FIXED") \o send_nmi
    \o do("count", 3) \o do("eoi", 0) \o unguard

sending_an_nmi_while_handling_another_should_work ==
    drain_interrupts \o guard("two_nmis") \o do("zero", 0) \o send_nmi \o do("count", 2) \o unguard

sending_self_nmi_with_shorthand_shouldnt_work ==
    drain_interrupts \o guard("record") \o do("reset", 0) \o send_self_ipi(NMI_VECTOR, "SELF", "NMI")
    \o do("assert_invalid", 0) \o unguard

(* hpet_test_ctx for legacy replacement: constructor, arm(), destructor    *)
hpet_arm == do("hpet_ctx", 0) \o do("hpet_arm", "once")
hpet_disarm == do("hpet_off", 0) \o do("pic_end", 0)
int_guard_halted == do("sti_hlt", 0)        \* and cli at the end of its scope

test_receiving_an_extint_while_handling_a_fixed_interrupt_should_be_possible(sh) ==
    drain_interrupts \o guard("send_extint") \o do("zero", 0) \o send_self_ipi(MAX_VECTOR, sh, "FIXED")
    \o int_guard_halted \o do("assert_count", 2) \o do("cli", 0) \o unguard

receiving_a_fixed_interrupt_while_handling_an_extint_should_be_possible ==
    drain_interrupts \o guard("send_fixed") \o do("zero", 0) \o hpet_arm \o do("poll_pic_irr", 0)
    \o int_guard_halted \o do("assert_count", 2) \o do("cli", 0) \o hpet_disarm \o unguard

receiving_extint_and_fixed_interrupt_simultaneously_should_deliver_both ==
    drain_interrupts \o do("cli", 0) \o guard("multiple") \o hpet_arm
    \o send_self_ipi(MAX_VECTOR, "SELF", "FIXED") \o do("poll_pic_irr", 0)
    \o enable_interrupts_for_single_instruction \o do("assert_got", {"ipi", "extint"})
    \o do("forget", {"ipi", "extint"}) \o hpet_disarm \o unguard

receiving_nmi_and_fixed_interrupt_simultaneously_should_deliver_both ==
    drain_interrupts \o do("cli", 0) \o guard("multiple") \o send_self_ipi(MAX_VECTOR, "SELF", "FIXED") \o send_nmi
    \o enable_interrupts_for_single_instruction \o do("assert_got", {"ipi", "nmi"})
    \o do("forget", {"ipi", "nmi"}) \o unguard

fast_triggering_NMIs_should_not_kill_vmm ==
    drain_interrupts \o do("zero", 0) \o guard("fast_nmi") \o do("hpet_arm", "periodic") \o do("set_irt", TRUE)
    \o do("count", NUM_FAST_NMI) \o do("set_irt", FALSE) \o do("hpet_off", 0) \o unguard

both(test(_)) == <<test("SELF"), test("NO_SH")>>

(* Four of the PPR cases call the function of the first two; the inhibit   *)
(* cases come with CR8 and with the memory-mapped TPR.                     *)
test_cases ==
    both(test_lapic_priority)
    \o both(test_interrupt_injection_should_honor_tpr_value)
    \o both(test_setting_lapic_tpr_to_f_should_inhibit_all_interrupts)
    \o both(test_setting_lapic_tpr_to_f_should_inhibit_all_interrupts)
    \o both(test_ppr_value_for_all_combinations_of_tpr_and_isrv)
    \o both(test_ppr_value_for_all_combinations_of_tpr_and_isrv)
    \o both(test_ppr_value_for_all_combinations_of_tpr_and_isrv)
    \o <<self_nmi_should_call_handler_while_interrupts_are_closed_and_second_nmi_should_happen_after_ipi,
         sending_an_nmi_while_handling_another_should_work,
         sending_self_nmi_with_shorthand_shouldnt_work>>
    \o both(test_receiving_an_extint_while_handling_a_fixed_interrupt_should_be_possible)
    \o <<receiving_a_fixed_interrupt_while_handling_an_extint_should_be_possible,
         receiving_extint_and_fixed_interrupt_simultaneously_should_deliver_both,
         receiving_nmi_and_fixed_interrupt_simultaneously_should_deliver_both,
         fast_triggering_NMIs_should_not_kill_vmm>>

(* hpet_available() is the condition of these. *)
conditional == Len(test_cases) - 5 .. Len(test_cases)

(* prologue() drains one interrupt of those the firmware left pending.     *)
prologue == guard("drain_irq") \o enable_interrupts_for_single_instruction \o unguard

PyInit ==
    /\ \E r \in {{}, {MAX_VECTOR}} : apic = [irr |-> r, isr |-> {}, tpr |-> 0, spurious |-> FALSE]
    /\ nmi = [pending |-> FALSE, blocked |-> FALSE]
    /\ \E h \in BOOLEAN : cpu = [intflag |-> FALSE, halted |-> FALSE, hpet |-> h]
    /\ pic = [masked |-> TRUE, irr |-> FALSE, isr |-> FALSE]
    /\ hpet = "off" /\ irt = FALSE
    /\ handler = <<"none">>
    /\ info = [valid |-> FALSE, vec |-> 0] /\ irq_count = 0 /\ confirmed = <<>> /\ got = {}
    /\ step = [case |-> 0, todo |-> prologue, failed |-> FALSE]

-----------------------------------------------------------------------------
(* What the processor takes next: an NMI, else an ExtInt or a fixed        *)
(* interrupt of a class above the processor priority.                      *)

InService == IF apic.isr = {} THEN 0 ELSE Max(apic.isr)
PPR == IF apic.tpr >= Class(InService) THEN apic.tpr ELSE Class(InService)
Requested == {v \in apic.irr : Class(v) > PPR}
NmiDue == nmi.pending /\ ~nmi.blocked
ExtIntDue == cpu.intflag /\ pic.irr /\ ~pic.masked /\ ~pic.isr
FixedDue == cpu.intflag /\ Requested # {}
SpuriousDue == cpu.intflag /\ apic.spurious
Due == NmiDue \/ ExtIntDue \/ FixedDue \/ SpuriousDue

Calls(op) == step.todo # <<>> /\ Head(step.todo).op = op /\ ~cpu.halted /\ ~Due
Arg == Head(step.todo).arg
Then(calls) == step' = [step EXCEPT !.todo = calls \o Tail(step.todo)]
Return == Then(<<>>)

(* baretest::fail(), from a body or out of a handler *)
fail == step' = [step EXCEPT !.todo = <<>>, !.failed = TRUE]
BARETEST_ASSERT(cond) == IF cond THEN Return ELSE fail

RunCase ==
    /\ step.todo = <<>> /\ step.case < Len(test_cases) /\ ~Due
    /\ LET next == step.case + 1
           can == next \in conditional => cpu.hpet
       IN  \/ can /\ step' = [step EXCEPT !.case = next, !.todo = test_cases[next]]
           \/ (~can \/ next \in Skippable) /\ step' = [step EXCEPT !.case = next]
    /\ UNCHANGED <<apic, nmi, cpu, pic, hpet, irt, handler, info, irq_count, confirmed, got>>

-----------------------------------------------------------------------------
(* The kernel's calls.                                                     *)

irq_handler_guard ==
    /\ \/ Calls("guard") /\ handler' = <<Arg>> \o handler
       \/ Calls("unguard") /\ handler' = Tail(handler)
    /\ Return
    /\ UNCHANGED <<apic, nmi, cpu, pic, hpet, irt, info, irq_count, confirmed, got>>

SetFlag ==
    /\ \/ Calls("sti") /\ cpu' = [cpu EXCEPT !.intflag = TRUE]
       \/ Calls("cli") /\ cpu' = [cpu EXCEPT !.intflag = FALSE]
       \/ Calls("sti_hlt") /\ cpu' = [cpu EXCEPT !.intflag = TRUE, !.halted = TRUE]
    /\ Return
    /\ UNCHANGED <<apic, nmi, pic, hpet, irt, handler, info, irq_count, confirmed, got>>

(* lapic_set_task_priority(): a request it masks may already be on its way *)
(* to the processor, and turns into a spurious interrupt.                  *)
lapic_set_task_priority ==
    /\ Calls("tpr")
    /\ \E s \in BOOLEAN :
        /\ s => step.case \in SpuriousIn /\ \E v \in Requested : Class(v) <= Arg
        /\ apic' = [apic EXCEPT !.tpr = Arg, !.spurious = @ \/ s]
    /\ Return
    /\ UNCHANGED <<nmi, cpu, pic, hpet, irt, handler, info, irq_count, confirmed, got>>

(* send_self_ipi(): an NMI is not sent with a shorthand. *)
Ipi ==
    /\ Calls("ipi")
    /\ IF Arg.dlv = "NMI"
       THEN nmi' = [nmi EXCEPT !.pending = @ \/ Arg.sh = "NO_SH"] /\ UNCHANGED apic
       ELSE apic' = [apic EXCEPT !.irr = @ \cup {Arg.vec}] /\ UNCHANGED nmi
    /\ Return
    /\ UNCHANGED <<cpu, pic, hpet, irt, handler, info, irq_count, confirmed, got>>

Ended(a) == IF a.isr = {} THEN a ELSE [a EXCEPT !.isr = @ \ {Max(@)}]

send_eoi ==
    /\ Calls("eoi")
    /\ apic' = Ended(apic)
    /\ Return
    /\ UNCHANGED <<nmi, cpu, pic, hpet, irt, handler, info, irq_count, confirmed, got>>

(* drain_interrupts(): a window and an EOI while is_isr_and_irr_empty()    *)
(* says no                                                                 *)
Drain ==
    /\ Calls("drain") \/ Calls("drain_irr")
    /\ IF apic.irr = {} /\ (Calls("drain") => apic.isr = {}) THEN Return
       ELSE step' = [step EXCEPT !.todo = enable_interrupts_for_single_instruction \o do("eoi", 0) \o @]
    /\ UNCHANGED <<apic, nmi, cpu, pic, hpet, irt, handler, info, irq_count, confirmed, got>>

(* wait_for_interrupts(): halts until enough vectors are confirmed         *)
Confirm ==
    /\ Calls("confirm")
    /\ IF Len(confirmed) = Arg THEN Return
       ELSE step' = [step EXCEPT !.todo = do("sti_hlt", 0) \o do("cli", 0) \o do("take", 0) \o @]
    /\ UNCHANGED <<apic, nmi, cpu, pic, hpet, irt, handler, info, irq_count, confirmed, got>>

Take ==
    /\ Calls("take")
    /\ info' = [info EXCEPT !.valid = FALSE]
    /\ IF info.valid /\ info.vec \in fixed_valid_vectors
       THEN confirmed' = Append(confirmed, info.vec) /\ apic' = Ended(apic)
       ELSE UNCHANGED <<confirmed, apic>>
    /\ Return
    /\ UNCHANGED <<nmi, cpu, pic, hpet, irt, handler, irq_count, got>>

Assign ==
    /\ \/ Calls("reset") /\ info' = [info EXCEPT !.valid = FALSE] /\ UNCHANGED <<irq_count, confirmed, got>>
       \/ Calls("record") /\ info' = [valid |-> TRUE, vec |-> Arg] /\ UNCHANGED <<irq_count, confirmed, got>>
       \/ Calls("clear") /\ confirmed' = <<>> /\ UNCHANGED <<info, irq_count, got>>
       \/ Calls("zero") /\ irq_count' = 0 /\ UNCHANGED <<info, confirmed, got>>
       \/ Calls("inc") /\ irq_count' = irq_count + 1 /\ UNCHANGED <<info, confirmed, got>>
       \/ Calls("got") /\ got' = got \cup Arg /\ UNCHANGED <<info, irq_count, confirmed>>
       \/ Calls("forget") /\ got' = got \ Arg /\ UNCHANGED <<info, irq_count, confirmed>>
    /\ Return
    /\ UNCHANGED <<apic, nmi, cpu, pic, hpet, irt, handler>>

(* check_ppr_register(): the upper halves, as the lower ones are 0 here    *)
check_ppr_register(v) == PPR = IF apic.tpr > Class(v) THEN apic.tpr ELSE Class(v)

Asserts ==
    /\ \/ Calls("assert_order") /\ BARETEST_ASSERT(Reverse(confirmed) = expected_vectors)
       \/ Calls("assert_allowed")
          /\ BARETEST_ASSERT(Len(confirmed) = Arg /\ \A i \in DOMAIN confirmed : confirmed[i] > MAX_VECTOR - Arg)
       \/ Calls("assert_invalid") /\ BARETEST_ASSERT(~info.valid)
       \/ Calls("assert_max") /\ BARETEST_ASSERT(confirmed = <<MAX_VECTOR>>)
       \/ Calls("assert_count") /\ BARETEST_ASSERT(irq_count = Arg)
       \/ Calls("assert_vec") /\ BARETEST_ASSERT(Arg.is = Arg.want)
       \/ Calls("assert_got") /\ BARETEST_ASSERT(Arg \subseteq got)
       \/ Calls("check_ppr") /\ BARETEST_ASSERT(check_ppr_register(Arg))
    /\ UNCHANGED <<apic, nmi, cpu, pic, hpet, irt, handler, info, irq_count, confirmed, got>>

(* wait_until_irq_count_equals() and poll_pic_irr() *)
Spin ==
    /\ (Calls("count") /\ irq_count >= Arg) \/ (Calls("poll_pic_irr") /\ pic.irr)
    /\ Return
    /\ UNCHANGED <<apic, nmi, cpu, pic, hpet, irt, handler, info, irq_count, confirmed, got>>

(* The HPET, pin 0 of the PIC and the IO-APIC entry; ~hpet_test_ctx        *)
(* asserts that the PIC had an interrupt to end.                           *)
Devices ==
    /\ \/ Calls("hpet_ctx") /\ hpet' = "off" /\ pic' = [pic EXCEPT !.masked = FALSE] /\ Return /\ UNCHANGED irt
       \/ Calls("hpet_arm") /\ hpet' = Arg /\ Return /\ UNCHANGED <<pic, irt>>
       \/ Calls("hpet_off") /\ hpet' = "off" /\ Return /\ UNCHANGED <<pic, irt>>
       \/ Calls("set_irt") /\ irt' = Arg /\ Return /\ UNCHANGED <<pic, hpet>>
       \/ Calls("pic_end") /\ pic' = [pic EXCEPT !.masked = TRUE, !.isr = FALSE] /\ BARETEST_ASSERT(pic.isr)
          /\ UNCHANGED <<hpet, irt>>
    /\ UNCHANGED <<apic, nmi, cpu, handler, info, irq_count, confirmed, got>>

-----------------------------------------------------------------------------
(* The handlers.                                                           *)

(* Fault: a spurious interrupt is recorded like any other. *)
lapic_irq_handler_tpr_any(v) == do("record", v)
lapic_irq_handler_tpr(v) == IF v \in fixed_valid_vectors THEN do("record", v) ELSE <<>>

lapic_irq_handler_ppr(v) == do("check_ppr", v) \o do("inc", 0) \o do("eoi", 0)

is(v, want) == do("assert_vec", [is |-> v, want |-> want])

send_extint_while_handling_a_fixed_interrupt_handler(v) ==
    is(v, MAX_VECTOR) \o do("inc", 0) \o guard("receive_extint") \o hpet_arm \o do("poll_pic_irr", 0)
    \o int_guard_halted \o do("cli", 0) \o hpet_disarm \o unguard

(* Fault: the halt waits for an interrupt that is never sent. *)
send_fixed_interrupt_while_handling_an_extint_handler_not(v) ==
    is(v, HPET_IRQ_VEC) \o do("inc", 0) \o guard("receive_fixed") \o int_guard_halted \o do("cli", 0) \o unguard

send_fixed_interrupt_while_handling_an_extint_handler(v) ==
    is(v, HPET_IRQ_VEC) \o do("inc", 0) \o guard("receive_fixed") \o send_self_ipi(MAX_VECTOR, "SELF", "FIXED")
    \o int_guard_halted \o do("cli", 0) \o unguard

handle_multiple(v) ==
    do("record", v) \o do("got", CASE v = MAX_VECTOR -> {"ipi"} [] v = HPET_IRQ_VEC -> {"extint"}
                                   [] v = NMI_VECTOR -> {"nmi"} [] OTHER -> {})

(* irq_entry(): the calls of the handler that is installed *)
HandlerCalls(v) ==
    CASE Head(handler) = "record" -> do("record", v)
      [] Head(handler) = "drain_irq" -> do("eoi", 0)
      [] Head(handler) = "tpr" -> lapic_irq_handler_tpr(v)
      [] Head(handler) = "ppr" -> lapic_irq_handler_ppr(v)
      [] Head(handler) = "nmi" -> do("inc", 0) \o do("nmi", v)
      [] Head(handler) = "two_nmis" -> do("two_nmis", 0) \o do("inc", 0)
      [] Head(handler) = "send_extint" -> send_extint_while_handling_a_fixed_interrupt_handler(v)
      [] Head(handler) = "receive_extint" -> is(v, HPET_IRQ_VEC) \o do("inc", 0)
      [] Head(handler) = "send_fixed" -> send_fixed_interrupt_while_handling_an_extint_handler(v)
      [] Head(handler) = "receive_fixed" -> is(v, MAX_VECTOR) \o do("inc", 0)
      [] Head(handler) = "multiple" -> handle_multiple(v)
      [] Head(handler) = "fast_nmi" -> is(v, NMI_VECTOR) \o do("inc", 0) \o do("fast_nmi", 0)

(* What the NMI handlers do depends on how many interrupts there were.     *)
lapic_irq_handler_nmi ==
    /\ Calls("nmi")
    /\ CASE irq_count = 1 -> Then(send_nmi \o enable_interrupts_for_single_instruction)
         [] irq_count = 2 -> BARETEST_ASSERT(Arg # NMI_VECTOR)
         [] irq_count = 3 -> BARETEST_ASSERT(Arg = NMI_VECTOR)
         [] OTHER -> Return
    /\ UNCHANGED <<apic, nmi, cpu, pic, hpet, irt, handler, info, irq_count, confirmed, got>>

lapic_irq_handler_two_nmis ==
    /\ Calls("two_nmis")
    /\ Then(IF irq_count = 0 THEN send_nmi ELSE <<>>)
    /\ UNCHANGED <<apic, nmi, cpu, pic, hpet, irt, handler, info, irq_count, confirmed, got>>

fast_nmi_test_handler ==
    /\ Calls("fast_nmi")
    /\ Then(IF irq_count < NUM_FAST_NMI THEN send_nmi ELSE do("set_irt", FALSE))
    /\ UNCHANGED <<apic, nmi, cpu, pic, hpet, irt, handler, info, irq_count, confirmed, got>>

Enter(v) ==
    /\ Head(handler) # "none"
    /\ step' = [step EXCEPT !.todo = HandlerCalls(v) \o do("iret", cpu.intflag) \o @]
    /\ cpu' = [cpu EXCEPT !.intflag = FALSE, !.halted = FALSE]
    /\ UNCHANGED <<hpet, irt, handler, info, irq_count, confirmed, got>>

iret ==
    /\ Calls("iret")
    /\ cpu' = [cpu EXCEPT !.intflag = Arg]
    /\ nmi' = [nmi EXCEPT !.blocked = FALSE]
    /\ Return
    /\ UNCHANGED <<apic, pic, hpet, irt, handler, info, irq_count, confirmed, got>>

Nmi == NmiDue /\ nmi' = [pending |-> FALSE, blocked |-> TRUE] /\ Enter(NMI_VECTOR) /\ UNCHANGED <<apic, pic>>

ExtInt ==
    /\ ~NmiDue /\ ExtIntDue
    /\ pic' = [pic EXCEPT !.irr = FALSE, !.isr = TRUE]
    /\ Enter(HPET_IRQ_VEC) /\ UNCHANGED <<apic, nmi>>

Spurious ==
    /\ ~NmiDue /\ SpuriousDue
    /\ apic' = [apic EXCEPT !.spurious = FALSE]
    /\ Enter(SPURIOUS_TEST_VECTOR) /\ UNCHANGED <<nmi, pic>>

FixedInt ==
    /\ ~NmiDue /\ ~SpuriousDue /\ FixedDue
    /\ apic' = [apic EXCEPT !.irr = @ \ {Max(Requested)}, !.isr = @ \cup {Max(Requested)}]
    /\ Enter(Max(Requested)) /\ UNCHANGED <<nmi, pic>>

HpetFires ==
    /\ \/ hpet = "once" /\ hpet' = "off" /\ pic' = [pic EXCEPT !.irr = TRUE] /\ UNCHANGED nmi
       \/ hpet = "periodic" /\ irt /\ ~nmi.pending /\ nmi' = [nmi EXCEPT !.pending = TRUE] /\ UNCHANGED <<hpet, pic>>
    /\ UNCHANGED <<apic, cpu, irt, handler, info, irq_count, confirmed, got, step>>

Finished == step.todo = <<>> /\ step.case = Len(test_cases) /\ ~Due
Done == Finished /\ UNCHANGED pyvars

Kernel ==
    \/ RunCase \/ irq_handler_guard \/ SetFlag \/ lapic_set_task_priority \/ Ipi \/ send_eoi \/ Drain \/ Confirm
    \/ Take \/ Assign \/ Asserts \/ Spin \/ Devices \/ lapic_irq_handler_nmi \/ lapic_irq_handler_two_nmis
    \/ fast_nmi_test_handler \/ iret

Processor == Kernel \/ Nmi \/ ExtInt \/ Spurious \/ FixedInt
PyNext == Processor \/ HpetFires \/ Done

-----------------------------------------------------------------------------
(* No assertion of the kernel or of its handlers fails on a processor that *)
(* behaves, however interrupts nest.                                       *)
PriorityAssertionsHold == ~step.failed

(* After a case, what it left pending or in service is at most what the    *)
(* next drain_interrupts() ends: no NMI and no ExtInt, interrupts off, and *)
(* no handler installed that the next case would inherit.                  *)
PriorityLeavesNothing ==
    step.todo = <<>> /\ step.case > 0 =>
        /\ ~nmi.pending /\ ~nmi.blocked /\ ~cpu.intflag /\ ~apic.spurious
        /\ pic.masked /\ ~pic.irr /\ ~pic.isr /\ hpet = "off" /\ ~irt
        /\ handler = <<"none">>
=============================================================================
