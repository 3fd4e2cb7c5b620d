------------------------------ MODULE TestSuite ------------------------------
(***************************************************************************)
(* baretest: test_suite::run() calls every test case behind a setjmp(), a  *)
(* failed assertion longjmp()s back to it from wherever it happens, and    *)
(* the RAII guards a test body holds change the interrupt handler, the     *)
(* interrupt flag, CR0 and the LAPIC for as long as they live.             *)
(***************************************************************************)
EXTENDS Integers, Sequences

CONSTANTS
    NumTests,   \* test cases in the suite
    Handlers,   \* interrupt handlers tests install
    nullptr,    \* no handler
    MaxDepth    \* bound on the stack: no guard is added beyond it

VARIABLES
    cur,        \* the test case the loop of run() is at
    pc,         \* where: "pick", "body", "halted", "report", "end", "dead"
    res,        \* result_t of the test case
    env,        \* the test case whose frame get_env() leads to
    stack,      \* live guards and interrupt frames, innermost first
    mach,       \* [fn, if, apic, cr0, lvt_masked]
    out,        \* the SOTEST lines written
    found,      \* history: mach when the test case began
    failed      \* history: test cases in which an assertion failed

tvars == <<cur, pc, res, env, stack, mach, out, found, failed>>
Tests == 1 .. NumTests

TInit ==
    /\ cur = 1 /\ pc = "pick" /\ env = 0 /\ res = "SUCCESS"
    /\ stack = <<>>
    /\ mach \in [fn : {nullptr} \cup Handlers, if : BOOLEAN, apic : BOOLEAN,
                 cr0 : {0}, lvt_masked : {TRUE}]          \* after prologue()
    /\ out = <<[line |-> "BEGIN", of |-> NumTests]>>      \* hello()
    /\ found = mach
    /\ failed = {}

Returns(r) == pc' = "report" /\ res' = r

(* Fault: the jump buffer is filled once. *)
SetjmpOnce == env' = IF env = 0 THEN cur ELSE env
setjmp == env' = cur

(* TEST_CASE_CONDITIONAL: the condition, the command line, the body *)
test_case ==
    /\ pc = "pick"
    /\ cur \in Tests
    /\ found' = mach
    /\ \/ Returns("SKIPPED") /\ UNCHANGED env
       \/ pc' = "body" /\ setjmp /\ UNCHANGED res
    /\ UNCHANGED <<cur, stack, mach, out, failed>>

Construct(kind, saved, new) ==
    /\ pc = "body"
    /\ Len(stack) < MaxDepth
    /\ stack' = <<[kind |-> kind, saved |-> saved]>> \o stack
    /\ mach' = new
    /\ UNCHANGED <<cur, res, env, out, found, failed>>

irq_handler_guard(h) == Construct("irq_handler", mach.fn, [mach EXCEPT !.fn = h]) /\ UNCHANGED pc
int_guard(status) ==
    /\ Construct("int", mach.if, [mach EXCEPT !.if = status # "disabled"])
    /\ pc' = IF status = "enabled_and_halted" THEN "halted" ELSE pc
irq_guard == Construct("irq", mach.if, [mach EXCEPT !.if = FALSE]) /\ UNCHANGED pc
lapic_enabler == Construct("lapic", mach.apic, [mach EXCEPT !.apic = TRUE]) /\ UNCHANGED pc
cr0_guard == Construct("cr0", mach.cr0, mach) /\ UNCHANGED pc
lvt_guard == Construct("lvt", 0, [mach EXCEPT !.lvt_masked = FALSE]) /\ UNCHANGED pc

(* Fault: interrupts are only ever switched on again, as irq_guard does. *)
DestroyEnabling(g) ==
    CASE g.kind = "irq_handler" -> [mach EXCEPT !.fn = g.saved]
      [] g.kind \in {"int", "irq"} -> [mach EXCEPT !.if = @ \/ g.saved]
      [] g.kind = "lapic" -> [mach EXCEPT !.apic = @ /\ g.saved]
      [] g.kind = "cr0" -> [mach EXCEPT !.cr0 = g.saved]
      [] g.kind = "lvt" -> [mach EXCEPT !.lvt_masked = TRUE]

(* The destructors *)
Destroy(g) ==
    CASE g.kind = "irq_handler" -> [mach EXCEPT !.fn = g.saved]
      [] g.kind = "int" -> [mach EXCEPT !.if = g.saved]
      [] g.kind = "irq" -> [mach EXCEPT !.if = @ \/ g.saved]
      [] g.kind = "lapic" -> [mach EXCEPT !.apic = @ /\ g.saved]
      [] g.kind = "cr0" -> [mach EXCEPT !.cr0 = g.saved]
      [] g.kind = "lvt" -> [mach EXCEPT !.lvt_masked = TRUE]

Leave ==
    /\ pc = "body"
    /\ stack # <<>> /\ Head(stack).kind # "frame"
    /\ mach' = Destroy(Head(stack))
    /\ stack' = Tail(stack)
    /\ UNCHANGED <<cur, pc, res, env, out, found, failed>>

(* A body changes CR0 only under a cr0_guard. *)
set_cr0 ==
    /\ pc = "body"
    /\ \E i \in DOMAIN stack : stack[i].kind = "cr0"
    /\ mach' = [mach EXCEPT !.cr0 = 1 - @]
    /\ UNCHANGED <<cur, pc, res, env, stack, out, found, failed>>

(* An interrupt: the gate clears IF, irq_entry() calls the handler, or     *)
(* halts for good if there is none.                                        *)
irq_entry ==
    /\ pc \in {"body", "halted"}
    /\ mach.if
    /\ mach' = [mach EXCEPT !.if = FALSE]
    /\ IF mach.fn = nullptr
       THEN pc' = "dead" /\ UNCHANGED stack
       ELSE /\ Len(stack) <= MaxDepth
            /\ pc' = "body"
            /\ stack' = <<[kind |-> "frame", saved |-> TRUE]>> \o stack
    /\ UNCHANGED <<cur, res, env, out, found, failed>>

iret ==
    /\ pc = "body"
    /\ stack # <<>> /\ Head(stack).kind = "frame"
    /\ mach' = [mach EXCEPT !.if = Head(stack).saved]
    /\ stack' = Tail(stack)
    /\ UNCHANGED <<cur, pc, res, env, out, found, failed>>

(* fail(): no destructor runs and the flags stay as they are. *)
longjmp ==
    /\ pc = "body"
    /\ stack' = <<>>
    /\ cur' = env
    /\ failed' = failed \cup {cur}
    /\ Returns("FAILURE")
    /\ UNCHANGED <<env, mach, out, found>>

Return == pc = "body" /\ stack = <<>> /\ Returns("SUCCESS") /\ UNCHANGED <<cur, env, stack, mach, out, found, failed>>

(* test_case::run() reports, and the loop goes on. *)
report ==
    /\ pc = "report"
    /\ out' = Append(out, [line |-> res, of |-> IF res = "SKIPPED" THEN 0 ELSE cur])
    /\ pc' = "pick" /\ cur' = cur + 1
    /\ UNCHANGED <<res, env, stack, mach, found, failed>>

goodbye ==
    /\ pc = "pick" /\ cur = NumTests + 1
    /\ out' = Append(out, [line |-> "END", of |-> 0])
    /\ pc' = "end"
    /\ UNCHANGED <<cur, res, env, stack, mach, found, failed>>

(* After END the kernel shuts down; a dead one stays halted. *)
Stopped == pc \in {"end", "dead"} /\ UNCHANGED tvars

TNext ==
    \/ test_case \/ Leave \/ set_cr0 \/ irq_entry \/ iret \/ longjmp \/ Return \/ report \/ goodbye
    \/ \E h \in Handlers : irq_handler_guard(h)
    \/ \E status \in {"enabled", "enabled_and_halted", "disabled"} : int_guard(status)
    \/ irq_guard \/ lapic_enabler \/ cr0_guard \/ lvt_guard \/ Stopped
-----------------------------------------------------------------------------
(* Whatever tests fail, in a body or in an interrupt handler, the report   *)
(* has one line for each test so far, in order, and a test is reported as  *)
(* failed exactly if an assertion failed in it.                            *)
ReportTrue ==
    /\ pc = "pick" => Len(out) = cur
    /\ pc = "end" => Len(out) = NumTests + 2
    /\ \A i \in 2 .. Len(out) :
          out[i].line # "END" =>
             /\ (out[i].line = "FAILURE") = (i - 1 \in failed)
             /\ out[i].line # "SKIPPED" => out[i].of = i - 1

(* A test that did not fail leaves the handler, the interrupt flag, the    *)
(* LAPIC and CR0 as it found them, whatever guards it nested and whatever  *)
(* interrupts hit it meanwhile.                                            *)
LeavesAsFound ==
    pc = "report" /\ res # "FAILURE" =>
        [mach EXCEPT !.lvt_masked = TRUE] = [found EXCEPT !.lvt_masked = TRUE]
=============================================================================
