----------------------------- MODULE LapicTimer -----------------------------
(***************************************************************************)
(* The LAPIC timer test kernel (tests/lapic-timer/main.cpp) on a processor *)
(* with the timer in its three modes.  The kernel is one thread that the   *)
(* timer and its interrupt interleave with; todo holds the calls it has    *)
(* still to make in the running test case.  Counts are 1 for the short and *)
(* 2 for the long one, so that a long one can be seen to run down.         *)
(***************************************************************************)
EXTENDS Integers, Sequences

CONSTANTS
    EXPECTED_IRQS,  \* 128 in the code
    Rounds,         \* rounds of the loops over deadlines, 10 in the code
    Prompt,         \* TRUE: long counts and deadlines outlast everything but a
                    \* wait, and 4096 ticks are enough to deliver an interrupt
    Skippable       \* cases the command line may disable

VARIABLES
    timer,      \* mode, mask, LAPIC_INIT_COUNT, LAPIC_CURR_COUNT, TSC deadline
    vec,        \* the timer's vector in irr and in isr
    cpu,        \* interrupt flag, halt state, does it have TSC deadlines
    handler,    \* irq_handler_fn and the ones the live guards saved
    valid,      \* irq_info.valid
    irq_count,
    passed,     \* rdtsc() is past the last deadline
    oneshot,    \* curr_count_in_oneshot
    step        \* [case, todo, failed]

tmvars == <<timer, vec, cpu, handler, valid, irq_count, passed, oneshot, step>>

SHORT == 1      \* TIMER_INIT_COUNT
LONG == 2       \* DEADLINE_OFFSET
ONESHOT == "oneshot"
PERIODIC == "periodic"
DEADLINE == "deadline"

-----------------------------------------------------------------------------
(* The program: a call is [op, arg].                                       *)

do(op, arg) == <<[op |-> op, arg |-> arg]>>

lvt(mode, masked) == do("lvt", [mode |-> mode, masked |-> masked])
guard(fn) == do("guard", fn)
unguard == do("unguard", 0)

enable_interrupts_for_single_instruction == do("sti", 0) \o do("cli", 0)

wait_for_interrupts(fn, n, raise_interrupt_cb) ==
    do("clear", 0) \o guard(fn) \o do("sti", 0) \o do("mask", FALSE) \o raise_interrupt_cb
    \o do("count", n) \o do("mask", TRUE) \o do("cli", 0) \o do("eoi", 0) \o unguard

(* Fault: the loop of drain_periodic_timer_irqs() is left out. *)
drain_periodic_timer_irqs_once ==
    guard("record") \o enable_interrupts_for_single_instruction \o unguard

drain_periodic_timer_irqs ==
    guard("record") \o enable_interrupts_for_single_instruction \o do("drain", 0) \o unguard

timer_mode_periodic_should_cycle ==
    guard("record") \o lvt(PERIODIC, TRUE)
    \o wait_for_interrupts("counting", EXPECTED_IRQS, do("init", SHORT))
    \o do("assert_count", EXPECTED_IRQS) \o drain_periodic_timer_irqs \o unguard

timer_mode_tsc_deadline_should_send_irqs_on_specific_time ==
    LET round == do("wrmsr", "near") \o do("sti_hlt", 0) \o do("assert_passed", TRUE) \o do("cli", 0) \o do("eoi", 0)
    IN  guard("record") \o lvt(DEADLINE, FALSE)
        \o [i \in 1 .. Rounds * Len(round) |-> round[1 + ((i - 1) % Len(round))]] \o do("mask", TRUE) \o unguard

deadlines_in_the_past_should_produce_interrupts_immediately ==
    LET round == do("reset", 0) \o do("wrmsr", "past") \o enable_interrupts_for_single_instruction
                 \o do("grace", 0) \o do("assert_valid", TRUE) \o do("eoi", 0)
    IN  guard("record") \o lvt(DEADLINE, FALSE)
        \o [i \in 1 .. Rounds * Len(round) |-> round[1 + ((i - 1) % Len(round))]] \o do("mask", TRUE) \o unguard

switch_from_deadline_to_oneshot_should_disarm_the_timer ==
    guard("record") \o lvt(DEADLINE, FALSE) \o do("reset", 0) \o do("sti", 0) \o do("wrmsr", "far")
    \o do("mode", ONESHOT) \o do("assert_passed", FALSE) \o do("assert_zero", 0) \o do("until", 0)
    \o do("assert_valid", FALSE) \o do("cli", 0) \o do("mask", TRUE) \o unguard

switch_from_periodic_to_deadline_should_disarm_the_timer ==
    guard("record") \o lvt(PERIODIC, FALSE) \o do("reset", 0) \o do("init", 0) \o do("init", LONG)
    \o do("mode", DEADLINE) \o do("elapse", 0) \o do("assert_valid", FALSE) \o do("cli", 0) \o do("mask", TRUE) \o unguard

switch_from_oneshot_to_periodic_does_not_disarm_the_timer ==
    guard("record") \o lvt(ONESHOT, TRUE) \o do("init", LONG) \o do("read", 0) \o do("mode", PERIODIC)
    \o do("assert_running", 0)
    \o wait_for_interrupts("counting", 1, <<>>) \o do("assert_count", 1)
    \o wait_for_interrupts("counting", 2, <<>>) \o do("assert_count", 2) \o do("cli", 0) \o unguard

switch_from_oneshot_to_periodic_after_oneshot_expired_does_not_rearm_timer ==
    lvt(ONESHOT, TRUE) \o do("init", 0) \o wait_for_interrupts("counting", 1, do("init", SHORT))
    \o do("assert_zero", 0) \o do("mode", PERIODIC) \o do("assert_zero", 0)

switch_from_periodic_to_oneshot_eventually_stops_timer ==
    lvt(PERIODIC, TRUE) \o wait_for_interrupts("counting", 2, do("init", SHORT))
    \o drain_periodic_timer_irqs
    \o guard("record") \o do("reset", 0) \o lvt(ONESHOT, FALSE) \o do("sti", 0) \o do("valid", 0)
    \o do("cli", 0) \o do("assert_zero", 0) \o unguard

(* higher_divide_conf_should_lead_to_slower_cycles is disabled in the code.*)
test_cases ==
    <<timer_mode_periodic_should_cycle,
      timer_mode_tsc_deadline_should_send_irqs_on_specific_time,
      deadlines_in_the_past_should_produce_interrupts_immediately,
      switch_from_deadline_to_oneshot_should_disarm_the_timer,
      switch_from_periodic_to_deadline_should_disarm_the_timer,
      switch_from_oneshot_to_periodic_does_not_disarm_the_timer,
      switch_from_oneshot_to_periodic_after_oneshot_expired_does_not_rearm_timer,
      switch_from_periodic_to_oneshot_eventually_stops_timer>>

(* supports_tsc_deadline_mode() is the condition of these. *)
conditional == 2 .. 5

prologue(tscd) ==
    guard("drain") \o enable_interrupts_for_single_instruction \o unguard
    \o IF ~tscd THEN <<>>
       ELSE do("reset", 0) \o guard("calibrating") \o lvt(ONESHOT, FALSE) \o do("sti", 0)
            \o do("init", LONG) \o do("valid", 0) \o do("reset", 0) \o do("mode", DEADLINE)
            \o do("wrmsr", "far") \o do("valid", 0) \o do("mask", TRUE) \o unguard

(* The firmware may leave a request behind, but no running timer. *)
TmInit ==
    /\ timer = [mode |-> ONESHOT, masked |-> TRUE, init |-> 0, curr |-> 0, deadline |-> "none"]
    /\ \E r \in BOOLEAN : vec = [irr |-> r, isr |-> FALSE]
    /\ \E d \in BOOLEAN : /\ cpu = [intflag |-> FALSE, halted |-> FALSE, tscd |-> d]
                          /\ step = [case |-> 0, todo |-> prologue(d), failed |-> FALSE]
    /\ handler = <<"none">>
    /\ valid = FALSE /\ irq_count = 0 /\ passed = FALSE /\ oneshot = 0

-----------------------------------------------------------------------------
(* The kernel's calls.  An interrupt that can be delivered comes first.    *)

Deliverable == cpu.intflag /\ vec.irr /\ ~vec.isr
Calls(op) == step.todo # <<>> /\ Head(step.todo).op = op /\ ~cpu.halted /\ ~Deliverable
Arg == Head(step.todo).arg
Then(calls) == step' = [step EXCEPT !.todo = calls \o Tail(step.todo)]
Return == Then(<<>>)

(* baretest::fail(), which leaves the handler and the flag as they are *)
BARETEST_ASSERT(cond) == IF cond THEN Return ELSE step' = [step EXCEPT !.todo = <<>>, !.failed = TRUE]

RunCase ==
    /\ step.todo = <<>> /\ step.case < Len(test_cases) /\ ~Deliverable
    /\ LET next == step.case + 1
           can == next \in conditional => cpu.tscd
       IN  \/ can /\ step' = [step EXCEPT !.case = next, !.todo = test_cases[next]]
           \/ (~can \/ next \in Skippable) /\ step' = [step EXCEPT !.case = next]
    /\ UNCHANGED <<timer, vec, cpu, handler, valid, irq_count, passed, oneshot>>

irq_handler_guard ==
    /\ \/ Calls("guard") /\ handler' = <<Arg>> \o handler
       \/ Calls("unguard") /\ handler' = Tail(handler)
    /\ Return
    /\ UNCHANGED <<timer, vec, cpu, valid, irq_count, passed, oneshot>>

SetFlag ==
    /\ \/ Calls("sti") /\ cpu' = [cpu EXCEPT !.intflag = TRUE]
       \/ Calls("cli") /\ cpu' = [cpu EXCEPT !.intflag = FALSE]
       \/ Calls("sti_hlt") /\ cpu' = [cpu EXCEPT !.intflag = TRUE, !.halted = TRUE]
    /\ Return
    /\ UNCHANGED <<timer, vec, handler, valid, irq_count, passed, oneshot>>

(* Between TSC deadline mode and the others a switch disarms the timer.    *)
Switched(t, mode) ==
    IF (mode = DEADLINE) = (t.mode = DEADLINE) THEN [t EXCEPT !.mode = mode]
    ELSE [t EXCEPT !.mode = mode, !.curr = 0, !.deadline = "none"]

write_lvt ==
    /\ \/ Calls("lvt") /\ timer' = [Switched(timer, Arg.mode) EXCEPT !.masked = Arg.masked]
       \/ Calls("mode") /\ timer' = Switched(timer, Arg)
       \/ Calls("mask") /\ timer' = [timer EXCEPT !.masked = Arg]
       \/ Calls("init") /\ timer' = [timer EXCEPT !.init = Arg, !.curr = IF timer.mode = DEADLINE THEN 0 ELSE Arg]
    /\ Return
    /\ UNCHANGED <<vec, cpu, handler, valid, irq_count, passed, oneshot>>

wrmsr ==
    /\ Calls("wrmsr")
    /\ timer' = IF timer.mode = DEADLINE THEN [timer EXCEPT !.deadline = Arg] ELSE timer
    /\ passed' = (Arg = "past")
    /\ Return
    /\ UNCHANGED <<vec, cpu, handler, valid, irq_count, oneshot>>

send_eoi ==
    /\ Calls("eoi")
    /\ vec' = [vec EXCEPT !.isr = FALSE]
    /\ Return
    /\ UNCHANGED <<timer, cpu, handler, valid, irq_count, passed, oneshot>>

(* irq_info.reset(), clear_irq_count() and the first reading of the count  *)
Assign ==
    /\ \/ Calls("reset") /\ valid' = FALSE /\ UNCHANGED <<irq_count, oneshot>>
       \/ Calls("clear") /\ irq_count' = 0 /\ UNCHANGED <<valid, oneshot>>
       \/ Calls("read") /\ oneshot' = timer.curr /\ UNCHANGED <<valid, irq_count>>
    /\ Return
    /\ UNCHANGED <<timer, vec, cpu, handler, passed>>

Assert ==
    /\ \/ Calls("assert_count") /\ BARETEST_ASSERT(irq_count = Arg)
       \/ Calls("assert_valid") /\ BARETEST_ASSERT(valid = Arg)
       \/ Calls("assert_passed") /\ BARETEST_ASSERT(passed = Arg)
       \/ Calls("assert_zero") /\ BARETEST_ASSERT(timer.curr = 0)
       \/ Calls("assert_running") /\ BARETEST_ASSERT(timer.curr # 0 /\ oneshot >= timer.curr)
    /\ UNCHANGED <<timer, vec, cpu, handler, valid, irq_count, passed, oneshot>>

(* The conditions the kernel spins on *)
Satisfied ==
    \/ Calls("count") /\ irq_count >= Arg
    \/ Calls("valid") /\ valid
    \/ Calls("until") /\ passed /\ (Prompt => timer.deadline = "none")
    \/ Calls("elapse") /\ timer.curr = 0

Spin == Satisfied /\ Return /\ UNCHANGED <<timer, vec, cpu, handler, valid, irq_count, passed, oneshot>>

(* The loop of drain_periodic_timer_irqs(): reset, EOI, another window     *)
Drain ==
    /\ Calls("drain")
    /\ IF valid THEN /\ valid' = FALSE
                     /\ vec' = [vec EXCEPT !.isr = FALSE]
                     /\ step' = [step EXCEPT !.todo = enable_interrupts_for_single_instruction \o @]
                ELSE Return /\ UNCHANGED <<valid, vec>>
    /\ UNCHANGED <<timer, cpu, handler, irq_count, passed, oneshot>>

(* The do-while loop gives up after maximum_grace_period ticks. *)
Grace ==
    /\ Calls("grace")
    /\ \/ valid /\ Return
       \/ ~valid /\ step' = [step EXCEPT !.todo = enable_interrupts_for_single_instruction \o @]
       \/ ~Prompt /\ BARETEST_ASSERT(FALSE)
    /\ UNCHANGED <<timer, vec, cpu, handler, valid, irq_count, passed, oneshot>>

-----------------------------------------------------------------------------
(* The interrupt and the timer.                                            *)

(* Fault: the last interrupt is acknowledged like the others. *)
counting_irq_handler_always ==
    /\ irq_count' = irq_count + 1
    /\ vec' = [irr |-> FALSE, isr |-> FALSE]
    /\ UNCHANGED valid

counting_irq_handler ==
    /\ irq_count' = irq_count + 1
    /\ vec' = [irr |-> FALSE, isr |-> irq_count + 1 >= EXPECTED_IRQS]
    /\ UNCHANGED valid

lapic_irq_handler == valid' = TRUE /\ vec' = [irr |-> FALSE, isr |-> TRUE] /\ UNCHANGED irq_count
calibrating_irq_handler == valid' = TRUE /\ vec' = [irr |-> FALSE, isr |-> FALSE] /\ UNCHANGED irq_count
drain_irq == vec' = [irr |-> FALSE, isr |-> FALSE] /\ UNCHANGED <<valid, irq_count>>

(* irq_entry() behind an interrupt gate; without a handler it halts.       *)
TimerInterrupt ==
    /\ Deliverable /\ Head(handler) # "none"
    /\ \/ Head(handler) = "counting" /\ counting_irq_handler
       \/ Head(handler) = "record" /\ lapic_irq_handler
       \/ Head(handler) = "calibrating" /\ calibrating_irq_handler
       \/ Head(handler) = "drain" /\ drain_irq
    /\ cpu' = [cpu EXCEPT !.halted = FALSE]
    /\ UNCHANGED <<timer, handler, passed, oneshot, step>>

Waiting == cpu.halted \/ \E op \in {"count", "valid", "until"} : Calls(op) /\ ~Satisfied

Raised == IF timer.masked THEN vec ELSE [vec EXCEPT !.irr = TRUE]

Tick ==
    /\ timer.curr > 0
    /\ timer.init = LONG /\ timer.curr = 1 /\ Prompt => Waiting
    /\ IF timer.curr > 1
       THEN timer' = [timer EXCEPT !.curr = @ - 1] /\ UNCHANGED vec
       ELSE /\ timer' = [timer EXCEPT !.curr = IF timer.mode = PERIODIC THEN timer.init ELSE 0]
            /\ vec' = Raised
    /\ UNCHANGED <<cpu, handler, valid, irq_count, passed, oneshot, step>>

(* The time stamp counter reaches the last deadline, whoever waits for it. *)
Pass ==
    /\ ~passed
    /\ timer.deadline # "near" /\ Prompt => Waiting
    /\ passed' = TRUE
    /\ UNCHANGED <<timer, vec, cpu, handler, valid, irq_count, oneshot, step>>

DeadlineFires ==
    /\ timer.deadline # "none" /\ passed
    /\ timer' = [timer EXCEPT !.deadline = "none"]
    /\ vec' = Raised
    /\ UNCHANGED <<cpu, handler, valid, irq_count, passed, oneshot, step>>

Finished == step.todo = <<>> /\ step.case = Len(test_cases) /\ ~Deliverable

Done == Finished /\ UNCHANGED tmvars

Kernel ==
    \/ RunCase \/ irq_handler_guard \/ SetFlag \/ write_lvt \/ wrmsr \/ send_eoi \/ Assign \/ Assert
    \/ Spin \/ Drain \/ Grace

TmNext == Kernel \/ TimerInterrupt \/ Tick \/ Pass \/ DeadlineFires \/ Done

-----------------------------------------------------------------------------
(* No assertion of the kernel fails on a processor that behaves, however   *)
(* the timer's ticks fall between its steps.                               *)
TimerAssertionsHold == ~step.failed

(* A case leaves no timer interrupt requested or in service, no interrupt  *)
(* enabled, and no handler installed that the next one would inherit.      *)
TimerLeavesNothing ==
    step.todo = <<>> /\ step.case \in 1 .. Len(test_cases) - 1 =>
        ~vec.irr /\ ~vec.isr /\ ~cpu.intflag /\ timer.masked /\ handler = <<"none">>
=============================================================================
