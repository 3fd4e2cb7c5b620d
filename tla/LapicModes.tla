---------------------------- MODULE LapicModes -----------------------------
(***************************************************************************)
(* The APIC mode test kernel (tests/lapic-modes) on a processor whose APIC *)
(* is globally disabled, in xAPIC mode or in x2APIC mode.  todo holds the  *)
(* calls the kernel has still to make; an exception or interrupt handled   *)
(* by irq_handler_fn() drops those up to the end of the setjmp() block.    *)
(***************************************************************************)
EXTENDS Integers, SequencesExt

CONSTANTS
    ApicIds,    \* ids the boot processor may have
    Skippable   \* cases the command line may disable

VARIABLES
    apic,       \* en, ext, soft (SVR enable bit), lint0, tpr, irr, isr
    proc,       \* id, x2apic (supported), amd, intflag, halted
    handler,    \* irq_handler_fn and the ones the live guards saved
    flags,      \* interrupt flags the live int_guards saved
    info,       \* irq_info
    buffer,     \* mmio_buffer: register to value
    old,        \* locals of the cases: old_lint0, tpr_old, initial_apic_id
    step        \* [case, todo, failed]

mdvars == <<apic, proc, handler, flags, info, buffer, old, step>>

GP == 13
vector == 32
DISABLED_LVT == [vec |-> 255, masked |-> TRUE]      \* all ones
MASKED_LVT == [vec |-> 0, masked |-> TRUE]

(* One register per combination of access, width and what a switch to      *)
(* x2APIC mode does to it, of the 44 in x2apic_msrs.                       *)
x2apic_msr(name, mode, bits, preserved) == [name |-> name, mode |-> mode, bits |-> bits, preserved |-> preserved]
x2apic_msrs == <<
    x2apic_msr("ID", {"READ"}, 32, FALSE), x2apic_msr("TPR", {"READ", "WRITE"}, 32, TRUE),
    x2apic_msr("EOI", {"WRITE"}, 32, TRUE), x2apic_msr("LDR", {"READ"}, 32, FALSE),
    x2apic_msr("SVR", {"READ", "WRITE"}, 32, TRUE), x2apic_msr("ISR", {"READ"}, 32, TRUE),
    x2apic_msr("LVT_CMCI", {"READ", "WRITE"}, 32, TRUE), x2apic_msr("ICR", {"READ", "WRITE"}, 64, FALSE),
    x2apic_msr("LVT_LINT0", {"READ", "WRITE"}, 32, TRUE), x2apic_msr("SELF_IPI", {"WRITE"}, 32, FALSE)>>
mmio_addr(msr) == msr.name # "SELF_IPI"

-----------------------------------------------------------------------------
(* The test bodies: a call is [op, arg].                                   *)

do(op, arg) == <<[op |-> op, arg |-> arg]>>
all(test(_), sel(_)) == FlattenSeq([i \in DOMAIN x2apic_msrs |->
                            IF sel(x2apic_msrs[i]) THEN test(x2apic_msrs[i]) ELSE <<>>])
int_guarded(calls) == do("int_guard", 0) \o calls \o do("end_int_guard", 0)
handled(calls) == do("guard", "irq_handler_fn") \o do("reset", 0) \o calls \o do("unguard", 0)
try(calls) == do("setjmp", 0) \o calls \o do("end_setjmp", 0)

global_apic_disable == do("base", "global off")
global_apic_enable == do("base", "global on")
software_apic_enable == do("soft", TRUE)
software_apic_disable == do("soft", FALSE)
x2apic_mode_enable == do("base", "x2 on")

(* Fault: only the x2APIC bit is cleared. *)
x2apic_mode_disable_at_once ==
    int_guarded(do("base", "x2 off") \o global_apic_enable \o software_apic_enable)
x2apic_mode_disable == int_guarded(do("base", "off") \o global_apic_enable \o software_apic_enable)

x2apic_mode(copy, calls) == int_guarded(copy \o x2apic_mode_enable) \o calls \o x2apic_mode_disable

prologue ==
    do("guard", "drain_irq") \o do("sti", 0) \o do("cli", 0) \o global_apic_disable \o global_apic_enable
    \o do("unguard", 0)

lapic_lvt_entries_when_apic_global_disabled ==
    int_guarded(global_apic_disable \o do("assert_lvt", DISABLED_LVT) \o global_apic_enable \o software_apic_enable)

lapic_lvt_entries_when_apic_software_disabled ==
    int_guarded(software_apic_disable \o do("assert_lvt", MASKED_LVT) \o software_apic_enable)

lapic_lvt_entry_change_when_apic_global_disabled ==
    int_guarded(global_apic_disable \o do("keep", "LVT_LINT0") \o do("lint0_vector", 33) \o do("assert_old_lvt", 0)
                \o global_apic_enable)

lapic_lvt_entry_change_when_apic_software_disabled ==
    int_guarded(software_apic_disable \o do("keep", "LVT_LINT0") \o do("lint0_vector", 33) \o do("assert_new_lvt", 33)
                \o do("lint0_mask", 0) \o do("assert_new_lvt", 33) \o do("lint0_restore", 0) \o software_apic_enable)

read_x2msr_raises_gpe(msr) == handled(try(do("rdmsr", msr.name))) \o do("assert_vec", GP)
write_x2msr_raises_gpe(msr, high) ==
    handled(try(do("wrmsr", [name |-> msr.name, high |-> high, value |-> 0]))) \o do("assert_vec", GP)
write_0(msr) == write_x2msr_raises_gpe(msr, FALSE)
write_high(msr) == write_x2msr_raises_gpe(msr, TRUE)

any(msr) == TRUE
is_readable(msr) == "READ" \in msr.mode
is_writeable(msr) == "WRITE" \in msr.mode
not_readable(msr) == ~is_readable(msr)
not_writeable(msr) == ~is_writeable(msr)
is_32bit_and_writeable(msr) == msr.bits = 32 /\ is_writeable(msr)
is_readable_and_preserved(msr) == is_readable(msr) /\ msr.preserved

x2apic_msr_access_out_of_x2mode_raises_gpe == all(read_x2msr_raises_gpe, any) \o all(write_0, any)

x2apic_mode_enable_disable ==
    do("assert_x2", FALSE) \o x2apic_mode(<<>>, do("assert_x2", TRUE)) \o do("assert_x2", FALSE)

compare(msr) == do("assert_preserved", msr)
x2apic_initial_preserved_values == x2apic_mode(do("copy_from_mmio", 0), all(compare, is_readable_and_preserved))

x2apic_initial_ldr_values == do("keep", "ID") \o x2apic_mode(<<>>, do("assert_ldr", 0))
x2apic_write_readonly_raises_gpe == x2apic_mode(<<>>, all(write_0, not_writeable))
x2apic_read_writeonly_raises_gpe == x2apic_mode(<<>>, all(read_x2msr_raises_gpe, not_readable))
x2apic_write_high_32bit_raises_gpe == x2apic_mode(<<>>, all(write_high, is_32bit_and_writeable))

x2apic_self_ipi ==
    LET write(name, v) == do("wrmsr", [name |-> name, high |-> FALSE, value |-> v]) IN
    int_guarded(x2apic_mode(<<>>,
        do("keep", "TPR") \o write("TPR", 0)
        \o handled(try(write("SELF_IPI", vector) \o do("sti_hlt", 0) \o do("cli", 0))
                   \o do("assert_vec", vector) \o do("tpr_restore", 0))))

invalid_apic_mode ==
    int_guarded(handled(try(global_apic_disable \o x2apic_mode_enable) \o do("assert_vec", GP) \o x2apic_mode_disable))

apic_transition_disabled_to_x2mode ==
    int_guarded(handled(try(global_apic_disable \o do("base", "both")) \o do("assert_vec", GP) \o x2apic_mode_disable))

test_cases == <<
    do("assert_global", 0), lapic_lvt_entries_when_apic_global_disabled,
    lapic_lvt_entries_when_apic_software_disabled, lapic_lvt_entry_change_when_apic_global_disabled,
    lapic_lvt_entry_change_when_apic_software_disabled, x2apic_msr_access_out_of_x2mode_raises_gpe,
    x2apic_mode_enable_disable, x2apic_initial_preserved_values, x2apic_initial_ldr_values,
    x2apic_write_readonly_raises_gpe, x2apic_read_writeonly_raises_gpe, x2apic_write_high_32bit_raises_gpe,
    x2apic_self_ipi, invalid_apic_mode, apic_transition_disabled_to_x2mode>>

Condition(case) == (case = 3 => ~proc.amd) /\ (case \in 6 .. 13 => proc.x2apic)

-----------------------------------------------------------------------------
(* The processor.                                                          *)

Reset(a) == [a EXCEPT !.soft = FALSE, !.lint0 = MASKED_LVT, !.tpr = 0, !.irr = {}, !.isr = {}]
X2 == apic.en /\ apic.ext
XApic == apic.en /\ ~apic.ext

(* A register through either window; only the ids differ between the modes *)
Ldr == ((proc.id \div 16) * 2 ^ 16) + 2 ^ (proc.id % 16)
Value(name) ==
    CASE name = "ID" -> IF X2 THEN proc.id ELSE proc.id * 2 ^ 24
      [] name = "LDR" -> IF X2 THEN Ldr ELSE 0
      [] name = "TPR" -> apic.tpr
      [] name = "SVR" -> apic.soft
      [] name = "ISR" -> apic.isr
      [] name = "LVT_LINT0" -> IF XApic \/ X2 THEN apic.lint0 ELSE DISABLED_LVT
      [] OTHER -> 0

(* The registers of hardware itself that are read-only or write-only *)
RdmsrFaults(name) == ~X2 \/ name \in {"EOI", "SELF_IPI"} \/ (proc.amd /\ name = "LVT_CMCI")
WrmsrFaults(name, high) ==
    \/ ~X2 \/ name \in {"ID", "LDR", "ISR"} \/ (high /\ name # "ICR") \/ (proc.amd /\ name = "LVT_CMCI")
    \/ name \in {"SELF_IPI", "ICR"} /\ ~apic.soft

BaseFaults(en, ext) ==
    (ext /\ ~en) \/ (ext /\ ~proc.x2apic) \/ (ext /\ ~apic.en) \/ (X2 /\ en /\ ~ext)

MdInit ==
    /\ \E s \in BOOLEAN, l \in {MASKED_LVT, [vec |-> 7, masked |-> FALSE]}, r \in {{}, {vector + 1}} :
        apic = [en |-> TRUE, ext |-> FALSE, soft |-> s, lint0 |-> l, tpr |-> 0, irr |-> r, isr |-> {}]
    /\ \E i \in ApicIds, x \in BOOLEAN, a \in BOOLEAN :
        proc = [id |-> i, x2apic |-> x, amd |-> a, intflag |-> FALSE, halted |-> FALSE]
    /\ handler = <<"none">> /\ flags = <<>> /\ info = [valid |-> FALSE, vec |-> 0]
    /\ buffer = <<>> /\ old = [LVT_LINT0 |-> MASKED_LVT, TPR |-> 0, ID |-> 0]
    /\ step = [case |-> 0, todo |-> prologue, failed |-> FALSE]

-----------------------------------------------------------------------------
(* The kernel's calls.                                                     *)

Due == proc.intflag /\ apic.en /\ apic.irr # {}
Calls(op) == step.todo # <<>> /\ Head(step.todo).op = op /\ ~proc.halted /\ ~Due
Arg == Head(step.todo).arg
Return == step' = [step EXCEPT !.todo = Tail(@)]
BARETEST_ASSERT(cond) ==
    IF cond THEN Return ELSE step' = [step EXCEPT !.todo = <<>>, !.failed = TRUE]

RunCase ==
    /\ step.todo = <<>> /\ step.case < Len(test_cases)
    /\ LET next == step.case + 1
           can == Condition(next)
       IN  \/ can /\ step' = [step EXCEPT !.case = next, !.todo = test_cases[next]]
           \/ (~can \/ next \in Skippable) /\ step' = [step EXCEPT !.case = next]
    /\ UNCHANGED <<apic, proc, handler, flags, info, buffer, old>>

(* Fault: the memory-mapped EOI in either mode. *)
Ended_mmio == IF XApic THEN {} ELSE apic.isr
Ended == IF (apic.ext /\ X2) \/ (~apic.ext /\ XApic) THEN {} ELSE apic.isr

(* irq_handler_fn(): records, ends an interrupt, and jumps out of the      *)
(* setjmp() block with interrupts off                                      *)
longjmp ==
    LET ends == {i \in DOMAIN step.todo : step.todo[i].op = "end_setjmp"}
    IN  ends # {} /\ step' = [step EXCEPT !.todo = SubSeq(@, Min(ends) + 1, Len(@))]

Exception ==
    /\ Head(handler) = "irq_handler_fn"
    /\ info' = [valid |-> TRUE, vec |-> GP]
    /\ longjmp
    /\ UNCHANGED <<apic, proc, handler, flags, buffer, old>>

InterruptTaken ==
    /\ Due
    /\ proc' = [proc EXCEPT !.intflag = FALSE, !.halted = FALSE]
    /\ apic' = [apic EXCEPT !.irr = {}, !.isr = apic.irr]
    /\ step' = [step EXCEPT !.todo = do(Head(handler), Max(apic.irr)) \o @]
    /\ UNCHANGED <<handler, flags, info, buffer, old>>

irq_handler_fn ==
    /\ Calls("irq_handler_fn")
    /\ info' = [valid |-> TRUE, vec |-> Arg]
    /\ apic' = [apic EXCEPT !.isr = Ended]
    /\ longjmp
    /\ UNCHANGED <<proc, handler, flags, buffer, old>>

drain_irq ==
    /\ Calls("drain_irq")
    /\ apic' = [apic EXCEPT !.isr = {}]
    /\ proc' = [proc EXCEPT !.intflag = TRUE]       \* iret
    /\ Return
    /\ UNCHANGED <<handler, flags, info, buffer, old>>

Guards ==
    /\ \/ Calls("guard") /\ handler' = <<Arg>> \o handler /\ UNCHANGED <<proc, flags>>
       \/ Calls("unguard") /\ handler' = Tail(handler) /\ UNCHANGED <<proc, flags>>
       \/ Calls("int_guard") /\ flags' = <<proc.intflag>> \o flags /\ proc' = [proc EXCEPT !.intflag = FALSE]
          /\ UNCHANGED handler
       \/ Calls("end_int_guard") /\ flags' = Tail(flags) /\ proc' = [proc EXCEPT !.intflag = Head(flags)]
          /\ UNCHANGED handler
    /\ Return
    /\ UNCHANGED <<apic, info, buffer, old>>

SetFlag ==
    /\ \/ Calls("sti") /\ proc' = [proc EXCEPT !.intflag = TRUE]
       \/ Calls("cli") /\ proc' = [proc EXCEPT !.intflag = FALSE]
       \/ Calls("sti_hlt") /\ proc' = [proc EXCEPT !.intflag = TRUE, !.halted = TRUE]
    /\ Return
    /\ UNCHANGED <<apic, handler, flags, info, buffer, old>>

Jump ==
    /\ \/ Calls("setjmp") /\ UNCHANGED info
       \/ Calls("end_setjmp") /\ UNCHANGED info
       \/ Calls("reset") /\ info' = [info EXCEPT !.valid = FALSE]
    /\ Return
    /\ UNCHANGED <<apic, proc, handler, flags, buffer, old>>

(* A read-modify-write of IA32_APIC_BASE; the APIC loses its state when it *)
(* is globally disabled.                                                   *)
ApicBase ==
    /\ Calls("base")
    /\ LET en == CASE Arg \in {"global on", "both"} -> TRUE [] Arg \in {"global off", "off"} -> FALSE [] OTHER -> apic.en
           ext == CASE Arg \in {"x2 on", "both"} -> TRUE [] Arg \in {"x2 off", "off"} -> FALSE [] OTHER -> apic.ext
           new == [apic EXCEPT !.en = en, !.ext = ext]
       IN  IF BaseFaults(en, ext) THEN Exception
           ELSE /\ apic' = IF en THEN new ELSE Reset(new)
                /\ Return
                /\ UNCHANGED <<proc, handler, flags, info, buffer, old>>

(* Memory-mapped writes: without effect unless in xAPIC mode; an APIC      *)
(* that is software disabled keeps its entries masked.                     *)
Written(entry) == [apic EXCEPT !.lint0 = [entry EXCEPT !.masked = @ \/ ~apic.soft]]
Mmio ==
    /\ LET w == CASE Calls("soft") -> [apic EXCEPT !.soft = Arg, !.lint0.masked = @ \/ ~Arg]
                  [] Calls("lint0_vector") -> Written([old.LVT_LINT0 EXCEPT !.vec = Arg])
                  [] Calls("lint0_mask") -> Written([vec |-> 33, masked |-> TRUE])
                  [] Calls("lint0_restore") -> Written(old.LVT_LINT0)
       IN  /\ \E op \in {"soft", "lint0_vector", "lint0_mask", "lint0_restore"} : Calls(op)
           /\ apic' = IF XApic THEN w ELSE apic
    /\ Return
    /\ UNCHANGED <<proc, handler, flags, info, buffer, old>>

Keep == Calls("keep") /\ old' = [old EXCEPT ![Arg] = Value(Arg)] /\ Return /\ UNCHANGED <<apic, proc, handler, flags, info, buffer>>

copy_from_mmio ==
    /\ Calls("copy_from_mmio")
    /\ LET copied == {i \in DOMAIN x2apic_msrs : is_readable(x2apic_msrs[i]) /\ mmio_addr(x2apic_msrs[i])}
       IN  buffer' = [n \in {x2apic_msrs[i].name : i \in copied} |-> Value(n)]
    /\ Return
    /\ UNCHANGED <<apic, proc, handler, flags, info, old>>

read_x2_msr ==
    /\ Calls("rdmsr")
    /\ IF RdmsrFaults(Arg) THEN Exception ELSE Return /\ UNCHANGED <<apic, proc, handler, flags, info, buffer, old>>

write_x2_msr ==
    /\ Calls("wrmsr") \/ Calls("tpr_restore")
    /\ LET w == IF Calls("wrmsr") THEN Arg ELSE [name |-> "TPR", high |-> FALSE, value |-> old.TPR]
       IN  IF WrmsrFaults(w.name, w.high) THEN Exception
           ELSE /\ apic' = CASE w.name = "TPR" -> [apic EXCEPT !.tpr = w.value]
                             [] w.name = "SELF_IPI" -> [apic EXCEPT !.irr = @ \cup {w.value}]
                             [] OTHER -> apic
                /\ Return
                /\ UNCHANGED <<proc, handler, flags, info, buffer, old>>

(* x2apic_initial_ldr_values: the id stays in the top byte of the register *)
ldr_new(id) == ((id \div 2 ^ 16) % 4096) * 2 ^ 16 + 2 ^ (id % 16)

Asserts ==
    /\ \/ Calls("assert_global") /\ BARETEST_ASSERT(apic.en)
       \/ Calls("assert_x2") /\ BARETEST_ASSERT(apic.ext = Arg)
       \/ Calls("assert_lvt") /\ BARETEST_ASSERT(Value("LVT_LINT0") = Arg)
       \/ Calls("assert_old_lvt") /\ BARETEST_ASSERT(Value("LVT_LINT0") = old.LVT_LINT0)
       \/ Calls("assert_new_lvt") /\ BARETEST_ASSERT(Value("LVT_LINT0") = [old.LVT_LINT0 EXCEPT !.vec = Arg])
       \/ Calls("assert_vec") /\ BARETEST_ASSERT(info.valid /\ info.vec = Arg)
       \/ Calls("assert_ldr") /\ BARETEST_ASSERT(Value("LDR") = ldr_new(old.ID))
       \/ Calls("assert_preserved")
          /\ IF proc.amd /\ Arg.name = "LVT_CMCI" THEN Return
             ELSE BARETEST_ASSERT(Arg.name \in DOMAIN buffer /\ buffer[Arg.name] = Value(Arg.name))
    /\ UNCHANGED <<apic, proc, handler, flags, info, buffer, old>>

Finished == step.todo = <<>> /\ step.case = Len(test_cases)
Done == Finished /\ UNCHANGED mdvars

Kernel ==
    \/ RunCase \/ InterruptTaken \/ irq_handler_fn \/ drain_irq \/ Guards \/ SetFlag \/ Jump \/ ApicBase \/ Mmio
    \/ Keep \/ copy_from_mmio \/ read_x2_msr \/ write_x2_msr \/ Asserts

MdNext == Kernel \/ Done

-----------------------------------------------------------------------------
(* No assertion of the kernel fails on a processor that behaves.           *)
ModesAssertionsHold == ~step.failed

(* A case leaves the APIC in xAPIC mode with nothing in service and the    *)
(* handler and the interrupt flag as they were; a handler ends what it     *)
(* handles through the window that is open in the mode it runs in.         *)
ModesLeaveNothing ==
    /\ step.todo = <<>> => XApic /\ handler = <<"none">> /\ flags = <<>> /\ ~proc.intflag /\ apic.irr = {}
    /\ apic.isr # {} => step.todo # <<>> /\ Head(step.todo).op \in {"irq_handler_fn", "drain_irq"}
=============================================================================
