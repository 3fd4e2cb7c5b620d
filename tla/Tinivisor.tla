----------------------------- MODULE Tinivisor -----------------------------
(***************************************************************************)
(* The tiny hypervisor of tinivisor.cpp and vmxexit.S under the handlers   *)
(* of its test suite: start() turns the running program into a guest,      *)
(* exits go through the low level entry and the handler table, stop()      *)
(* turns VMX off again.  The processor's side (VM entry, VM exit, the      *)
(* checks of VMXON and VMLAUNCH) is external.                              *)
(* Values of registers are sets of bit names; register r holds {r} until   *)
(* the program puts something else there.  Segments, CR3, the MSR bitmap   *)
(* and the revision identifiers are the names of the fields start() fills. *)
(***************************************************************************)
EXTENDS Integers, Sequences, FiniteSets

Reasons == {"EXCEPTION", "CPUID", "CR_ACCESS", "VMCALL", "XSETBV"}

VARIABLES
    mode,       \* "off", or VMX "root" or "nonroot" operation
    pc,         \* "run": the program runs; the step of start() or of an exit; or how it ended
    cr0, cr4,   \* the bits of the control registers, of NE, VMXE and PGE
    msr,        \* IA32_FEATURE_CONTROL
    regs, rsp,  \* general purpose registers and the stack in use
    handlers,   \* exit reason -> handler
    vmcs,       \* the fields and the launch state
    frame,      \* what exit_handler_low_level pushed: 8-byte slots from RSP on
    want        \* history: the registers the program has to find

nvars == <<mode, pc, cr0, cr4, msr, regs, rsp, handlers, vmcs, frame, want>>

Pushes == <<"rax", "rbx", "rcx", "rdx", "rbp", "rsi", "rdi", "r8", "r9", "r10", "r11", "r12", "r13", "r14", "r15">>

guest_regs == <<"r15", "r14", "r13", "r12", "r11", "r10", "r9", "r8", "rdi", "rsi", "rbp", "rdx", "rcx", "rbx", "rax">>

(* Fault: two registers are popped in the order they were pushed.          *)
PopsSwapped == <<"r15", "r14", "r13", "r12", "r11", "r10", "r9", "r8", "rsi", "rdi", "rbp", "rdx", "rcx", "rbx", "rax">>

Pops == <<"r15", "r14", "r13", "r12", "r11", "r10", "r9", "r8", "rdi", "rsi", "rbp", "rdx", "rcx", "rbx", "rax">>

(* restore_arch_state_and_jump: register -> offset into guest_regs, in     *)
(* slots.                                                                  *)
Restored ==
    LET order == <<"r15", "r14", "r13", "r12", "r11", "r10", "r9", "r8", "rdi", "rsi", "rbp", "rdx", "rcx", "rbx", "rax">>
    IN [r \in {order[i] : i \in 1 .. 15} |-> (CHOOSE i \in 1 .. 15 : order[i] = r) - 1]

Names == {Pushes[i] : i \in 1 .. 15}
Slot(field) == (CHOOSE i \in 1 .. 15 : guest_regs[i] = field) - 1

Zeroed == [launch |-> "none", guest_cr4 |-> {}, shadow |-> {}, host_cr4 |-> {}, host_cr0 |-> {},
           primary |-> {}, filled |-> {}, guest_rsp |-> "none", rip |-> "none", reason |-> "none", source |-> "none"]

(* Only the first of the handlers is the default one until reset().  The   *)
(* firmware may or may not have locked the MSR, or have left it clear.     *)
NInit ==
    /\ mode = "off" /\ pc = "run" /\ rsp = "program"
    /\ cr0 \in {{}, {"NE"}} /\ cr4 \in SUBSET {"PGE"}
    /\ msr \in {{}, {"VMX"}, {"VMX", "LOCK"}}
    /\ regs = [r \in Names |-> {r}] /\ want = regs
    /\ handlers = [r \in Reasons |-> IF r = "EXCEPTION" THEN "default" ELSE "empty"]
    /\ vmcs = Zeroed
    /\ frame = <<>>
-----------------------------------------------------------------------------
reset ==
    /\ pc = "run"
    /\ handlers' = [r \in Reasons |-> "default"]
    /\ UNCHANGED <<mode, pc, cr0, cr4, msr, regs, rsp, vmcs, frame, want>>

(* The tests register these two.                                           *)
register_handler(reason, handler) ==
    /\ pc = "run"
    /\ <<reason, handler>> \in {<<"CPUID", "cpuid_toggle_mmx">>, <<"CR_ACCESS", "cr4_exit">>}
    /\ handlers' = [handlers EXCEPT ![reason] = handler]
    /\ UNCHANGED <<mode, pc, cr0, cr4, msr, regs, rsp, vmcs, frame, want>>

(* start(): lock_feature_control_msr, the assert on is_vmx_supported,      *)
(* vmcs.clear(), CR4.VMXE and the fixed bits of CR0 and CR4.               *)
lock_feature_control_msr == msr' = msr \cup {"LOCK"}

is_vmx_supported(m) == "VMX" \in m

Fixed0 == [cr0 |-> {"NE"}, cr4 |-> {"VMXE"}]

Enable ==
    /\ pc = "run" /\ mode = "off"
    /\ lock_feature_control_msr
    /\ IF is_vmx_supported(msr')
       THEN /\ cr4' = cr4 \cup {"VMXE"} \cup Fixed0.cr4 /\ cr0' = cr0 \cup Fixed0.cr0
            /\ pc' = "vmxon"
       ELSE UNCHANGED <<cr0, cr4>> /\ pc' = "not supported"
    /\ UNCHANGED <<mode, regs, rsp, handlers, vmcs, frame, want>>

(* The processor: VMXON faults unless VMX is enabled.                      *)
VmxonAllowed == "VMXE" \in cr4 /\ "NE" \in cr0 /\ {"LOCK", "VMX"} \subseteq msr

(* Fault: the VMCS is not cleared.                                         *)
vmclear_not == vmcs' \in {vmcs, [Zeroed EXCEPT !.launch = vmcs.launch]}

(* vmcs.clear() zeroed the region; vmclear sets the launch state and       *)
(* writes back what the processor kept of a VMCS that was active, so that  *)
(* the fields are zero or those of the last run.                           *)
vmclear == vmcs' \in {[vmcs EXCEPT !.launch = "clear"], [Zeroed EXCEPT !.launch = "clear"]}

Vmxon ==
    /\ pc = "vmxon"
    /\ vmclear
    /\ IF VmxonAllowed THEN mode' = "root" /\ pc' = "fill" ELSE UNCHANGED mode /\ pc' = "#GP"
    /\ UNCHANGED <<cr0, cr4, msr, regs, rsp, handlers, frame, want>>

(* The writes of start() into the VMCS.                                    *)
disable_secondary_execution_controls(v) == [v EXCEPT !.primary = @ \ {"SECONDARY"}]

clone_segments(v) ==
    [v EXCEPT !.filled = @ \cup ({"guest", "host"} \X {"cs", "ss", "ds", "es", "fs", "gs", "tr", "gdtr", "idtr"})
                           \cup {<<"guest", "ldtr">>}]

(* Fault: the guest reads the bit that start() had to set.                 *)
clone_visible(v) == [v EXCEPT !.guest_cr4 = cr4, !.shadow = cr4, !.host_cr4 = cr4, !.host_cr0 = cr0]

clone_control_registers(v) ==
    [v EXCEPT !.guest_cr4 = cr4, !.shadow = cr4 \ {"VMXE"}, !.host_cr4 = cr4, !.host_cr0 = cr0]

configure_64_bit_host(v) == [v EXCEPT !.filled = @ \cup {<<"host", "64 bit">>}]

configure_64_bit_guest(v) == [v EXCEPT !.filled = @ \cup {<<"guest", "64 bit">>}]

configure_exits(v) ==
    [v EXCEPT !.primary = (@ \cup {"DEFAULT_ONE", "USE_MSR_BITMAPS"}) \ {"USE_IO_BITMAPS", "UNCONDITIONAL_IO_EXITING"},
              !.filled = @ \cup {<<"host", "rsp">>, <<"host", "rip">>, <<"exits", "pin based">>,
                                 <<"exits", "msr bitmap">>, <<"exits", "cr4 mask">>}]

Filled(v) ==
    LET cloned == clone_control_registers(clone_segments(disable_secondary_execution_controls(v)))
        linked == [cloned EXCEPT !.filled = @ \cup {<<"guest", "rflags">>, <<"guest", "link">>}]
    IN configure_exits(configure_64_bit_guest(configure_64_bit_host(linked)))

(* VM entry demands a VMCS that is complete and in the right launch state. *)
Fields == Filled(Zeroed).filled
Enterable(v, launch) ==
    /\ v.launch = launch /\ v.filled = Fields
    /\ Fixed0.cr4 \subseteq v.guest_cr4 /\ Fixed0.cr4 \subseteq v.host_cr4
    /\ "SECONDARY" \notin v.primary /\ "DEFAULT_ONE" \in v.primary

Launch ==
    /\ pc = "fill"
    /\ handlers' = [handlers EXCEPT !["VMCALL"] = "handle_vmcall"]
    /\ vmcs' = [Filled(vmcs) EXCEPT !.guest_rsp = rsp, !.rip = "next", !.launch = "launched"]
    /\ IF Enterable([vmcs' EXCEPT !.launch = vmcs.launch], "clear")
       THEN mode' = "nonroot" /\ pc' = "run" /\ cr4' = vmcs'.guest_cr4
       ELSE UNCHANGED <<mode, cr4>> /\ pc' = "switch_to_guest_failed"
    /\ UNCHANGED <<cr0, msr, regs, rsp, frame, want>>
-----------------------------------------------------------------------------
(* A VM exit: the processor saves the guest's state into the VMCS and      *)
(* loads the host's.  `set` is what the instruction put into registers     *)
(* before, `expect` what the program has to find after it.                 *)
Exit(reason, source, set, expect) ==
    /\ mode' = "root" /\ pc' = "exit"
    /\ regs' = set /\ want' = expect
    /\ vmcs' = [vmcs EXCEPT !.guest_rsp = rsp, !.guest_cr4 = cr4, !.rip = "at the instruction", !.reason = reason, !.source = source]
    /\ rsp' = "host_stack" /\ cr4' = vmcs.host_cr4 /\ cr0' = vmcs.host_cr0
    /\ UNCHANGED <<msr, handlers, frame>>

Running == pc = "run" /\ mode = "nonroot"

GuestCpuid(leaf) ==
    LET asked == [regs EXCEPT !["rax"] = leaf] IN
    /\ Running
    /\ Exit("CPUID", "none", asked, IF leaf = {"FAMILY_FEATURES"} THEN [asked EXCEPT !["rdx"] = {"MMX toggled"}] ELSE asked)

(* A write to CR4 from register r exits if it changes what the guest       *)
(* reads; CR4_GUEST_HOST_MASK covers every bit.                            *)
GuestSetCr4(r, value) ==
    LET loaded == [regs EXCEPT ![r] = value] IN
    /\ Running
    /\ IF value = vmcs.shadow
       THEN regs' = loaded /\ want' = loaded /\ UNCHANGED <<mode, pc, cr0, cr4, msr, rsp, handlers, vmcs, frame>>
       ELSE Exit("CR_ACCESS", r, loaded, loaded)

GuestXsetbv == Running /\ Exit("XSETBV", "none", regs, regs)

stop == Running /\ Exit("VMCALL", "none", regs, regs)

(* The pushes; slot 0 is at RSP.                                           *)
exit_handler_low_level ==
    /\ pc = "exit"
    /\ frame' = [k \in 0 .. 14 |-> regs[Pushes[15 - k]]]
    /\ pc' = "dispatch"
    /\ UNCHANGED <<mode, cr0, cr4, msr, regs, rsp, handlers, vmcs, want>>

(* The high level handlers work on guest_regs and the VMCS, and return     *)
(* with any values in the registers.                                       *)
Clobbered == [r \in Names |-> {"clobbered"}]

adjust_rip(v) == [v EXCEPT !.rip = "next"]

cpuid_toggle_mmx ==
    /\ frame' = IF frame[Slot("rax")] = {"FAMILY_FEATURES"}
                THEN [frame EXCEPT ![Slot("rdx")] = {"MMX toggled"}] ELSE frame
    /\ vmcs' = adjust_rip(vmcs)
    /\ pc' = "resume"
    /\ UNCHANGED <<mode, cr0, cr4, rsp>>

cr4_exit ==
    LET val == frame[Slot(vmcs.source)]
        cur == cr4 \ {"VMXE"}
    IN /\ IF val \in {cur \cup {"PGE"}, cur \ {"PGE"}}
          THEN vmcs' = adjust_rip([vmcs EXCEPT !.shadow = val, !.guest_cr4 = val \cup {"VMXE"}]) /\ pc' = "resume"
          ELSE UNCHANGED vmcs /\ pc' = "BARETEST_ASSERT"
       /\ UNCHANGED <<mode, cr0, cr4, rsp, frame>>

(* handle_vmcall: the registers and the stack of the guest, vmxoff, VMXE   *)
(* off, and ret to the caller of stop().                                   *)
restore_arch_state_and_jump ==
    /\ regs' = [r \in Names |-> frame[Restored[r]]]
    /\ rsp' = vmcs.guest_rsp
    /\ mode' = "off" /\ cr4' = cr4 \ {"VMXE"} /\ pc' = "run" /\ frame' = <<>>
    /\ UNCHANGED <<cr0, vmcs>>

exit_handler ==
    LET h == handlers[vmcs.reason] IN
    /\ pc = "dispatch"
    /\ \/ h = "handle_vmcall" /\ restore_arch_state_and_jump
       \/ h = "cpuid_toggle_mmx" /\ cpuid_toggle_mmx /\ regs' = Clobbered
       \/ h = "cr4_exit" /\ cr4_exit /\ regs' = Clobbered
       \/ /\ h \in {"default", "empty"}
          /\ pc' = IF h = "default" THEN "PANIC" ELSE "bad_function_call"
          /\ UNCHANGED <<mode, cr0, cr4, regs, rsp, vmcs, frame>>
    /\ UNCHANGED <<msr, handlers, want>>

(* The pops and vmresume.                                                  *)
Resume ==
    /\ pc = "resume"
    /\ regs' = [r \in Names |-> frame[(CHOOSE i \in 1 .. 15 : Pops[i] = r) - 1]]
    /\ frame' = <<>>
    /\ IF Enterable(vmcs, "launched")
       THEN mode' = "nonroot" /\ pc' = "run" /\ cr4' = vmcs.guest_cr4 /\ rsp' = vmcs.guest_rsp
       ELSE pc' = "vmresume failed" /\ UNCHANGED <<mode, cr4, rsp>>
    /\ UNCHANGED <<cr0, msr, handlers, vmcs, want>>

Ended == {"not supported", "#GP", "switch_to_guest_failed", "BARETEST_ASSERT", "PANIC", "bad_function_call", "vmresume failed"}
Stopped == pc \in Ended /\ UNCHANGED nvars

NNext ==
    \/ reset
    \/ \E r \in Reasons, h \in {"cpuid_toggle_mmx", "cr4_exit"} : register_handler(r, h)
    \/ Enable \/ Vmxon \/ Launch
    \/ \E leaf \in {{"FAMILY_FEATURES"}, {"other leaf"}} : GuestCpuid(leaf)
    \/ \E r \in {"rax", "rcx", "rdx", "rbx"}, value \in {vmcs.shadow \cup {"PGE"}, vmcs.shadow \ {"PGE"}} : GuestSetCr4(r, value)
    \/ GuestXsetbv \/ stop
    \/ exit_handler_low_level \/ exit_handler \/ Resume
    \/ Stopped
-----------------------------------------------------------------------------
(* "the virtual machine's shut down is nearly transparent to the caller"   *)
(* (tinivisor.hpp:73), and so is every exit: whenever the program runs     *)
(* again, on either side of start() and stop(), each register holds what   *)
(* the program or the handler put there, the program is on its own stack   *)
(* and past the instruction that caused the exit.  It reads the CR4 it     *)
(* runs with, except for VMXE, which it never sees set                     *)
(* ("nested_guest_should_never_see_vmxe_in_cr4", the tinivisor tests) and  *)
(* which is off again when VMX is.                                         *)
GuestUnaware ==
    /\ pc = "run" => regs = want /\ rsp = "program" /\ (mode = "nonroot" => vmcs.rip = "next")
    /\ mode = "nonroot" => vmcs.shadow = cr4 \ {"VMXE"} /\ "VMXE" \in cr4
    /\ mode = "off" /\ pc = "run" => "VMXE" \notin cr4

(* start() and the exits succeed in any sequence of start, stop and exits  *)
(* ("prepare clean state for multiple invocations"): nothing faults, no    *)
(* assert fails unless the firmware locked VMX out or left the MSR clear,  *)
(* and no VM entry fails.                                                  *)
Restartable ==
    /\ pc \notin {"#GP", "switch_to_guest_failed", "vmresume failed", "BARETEST_ASSERT"}
    /\ pc = "not supported" => "VMX" \notin msr
=============================================================================
