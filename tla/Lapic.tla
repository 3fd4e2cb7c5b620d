------------------------------- MODULE Lapic -------------------------------
(***************************************************************************)
(* lapic_test_tools: the register accessors, the calibration of the LAPIC  *)
(* timer against the RTC, the periodic timer and self-IPIs, with the LAPIC *)
(* as they see it.  Registers are words; fields are cut out of them with   *)
(* the masks and shifts of lapic_test_tools.hpp.                           *)
(***************************************************************************)
EXTENDS Integers

CONSTANTS
    ApicId,     \* this processor
    Vectors,    \* the vectors tests use, none of them the spurious one
    MaxCount,   \* LAPIC_MAX_COUNT
    Elapsed,    \* what the timer may count in a second
    Periods,    \* periods in ms
    Confs,      \* the divisors tests set
    None        \* no call, no IPI in flight

VARIABLES
    reg,          \* [svr, lvt, div, init, tpr, icr_high, base]; lvt is the timer's
    armed,        \* the timer is counting
    sending,      \* the IPI in flight
    irr,          \* requested vectors
    ifl,          \* interrupt flag
    per_second,   \* the static ticks_per_second
    call,         \* the call in progress
    want,         \* history: what the calls so far asked each field to be
    sent          \* history: vectors sent to itself and not served since

lvars == <<reg, armed, sending, irr, ifl, per_second, call, want, sent>>
hardware == <<armed, sending, irr>>

(* write_reg_generic's arithmetic: reg with value in the field *)
Insert(r, mask, shift, value) ==
    r - ((r \div 2^shift) % (mask + 1)) * 2^shift + (value % (mask + 1)) * 2^shift
Extract(r, mask, shift) == (r \div 2^shift) % (mask + 1)

VECTOR_MASK == 255
MODE_MASK == 3
MODE_SHIFT == 17
MASK_SHIFT == 16
ENABLED_SHIFT == 8
GLOBAL_SHIFT == 11
CLASS_SHIFT == 4
ICR_DEST_SHIFT == 56 - 32
ONESHOT == 0
PERIODIC == 1
NO_SH == 0
SELF == 1
ALL_INC_SELF == 2

LInit ==
    /\ reg = [svr |-> 255, lvt |-> 2^MASK_SHIFT, div |-> 0, init |-> 0, tpr |-> 0, icr_high |-> 0,
              base |-> 2^GLOBAL_SHIFT + 2^8]
    /\ armed = FALSE /\ sending = None /\ irr = {} /\ ifl = FALSE
    /\ per_second = 0 /\ call = None
    /\ want = [spurious |-> 255, enabled |-> 0, vector |-> 0, mode |-> ONESHOT, masked |-> 1,
               divisor |-> 2, init |-> 0, class |-> 0, global |-> 1]
    /\ sent = {}

(* A call that is over with one register access *)
Access(newreg, newwant) ==
    /\ call = None
    /\ reg' = newreg
    /\ want' = newwant
    /\ UNCHANGED <<sending, irr, ifl, per_second, call, sent>>

write_spurious_vector(v) ==
    Access([reg EXCEPT !.svr = Insert(@, VECTOR_MASK, 0, v)], [want EXCEPT !.spurious = v]) /\ UNCHANGED armed
software_apic_enable(on) ==
    Access([reg EXCEPT !.svr = Insert(@, 1, ENABLED_SHIFT, on)], [want EXCEPT !.enabled = on]) /\ UNCHANGED armed
lapic_set_task_priority(p) ==
    Access([reg EXCEPT !.tpr = Insert(@, VECTOR_MASK, CLASS_SHIFT, p)], [want EXCEPT !.class = p]) /\ UNCHANGED armed
write_lvt_mask(k) ==
    Access([reg EXCEPT !.lvt = Insert(@, 1, MASK_SHIFT, k)], [want EXCEPT !.masked = k]) /\ UNCHANGED armed
write_lvt_vector(v) ==
    Access([reg EXCEPT !.lvt = Insert(@, VECTOR_MASK, 0, v)], [want EXCEPT !.vector = v]) /\ UNCHANGED armed
write_lvt_timer_mode(mode) ==
    Access([reg EXCEPT !.lvt = Insert(@, MODE_MASK, MODE_SHIFT, mode)], [want EXCEPT !.mode = mode]) /\ UNCHANGED armed
global_apic_enable(on) ==
    Access([reg EXCEPT !.base = Insert(@, 1, GLOBAL_SHIFT, on)], [want EXCEPT !.global = on]) /\ UNCHANGED armed
stop_lapic_timer == Access([reg EXCEPT !.init = 0], [want EXCEPT !.init = 0]) /\ armed' = FALSE

(* write_lvt_entry(lvt_entry_t::timer(...)) *)
write_lvt_entry(r, vector, mask, mode) ==
    LET named == Insert(Insert(r, VECTOR_MASK, 0, vector), MODE_MASK, MODE_SHIFT, mode)
        fixed_edge_high == Insert(Insert(Insert(named, 7, 8, 0), 1, 15, 0), 1, 13, 0)
    IN  Insert(fixed_edge_high, 1, MASK_SHIFT, mask)

Divisors == {1, 2, 4, 8, 16, 32, 64, 128}
write_divide_conf(conf) ==
    CASE conf = 2 -> 0 [] conf = 4 -> 1 [] conf = 8 -> 2 [] conf = 16 -> 3
      [] conf = 32 -> 8 [] conf = 64 -> 9 [] conf = 128 -> 10 [] OTHER -> 11
SetDivider(conf) == Access([reg EXCEPT !.div = write_divide_conf(conf)], [want EXCEPT !.divisor = conf]) /\ UNCHANGED armed

(* enable_periodic_timer(): interrupts off, the divider and the LVT entry, *)
(* then the count, which may have to be calibrated first.                  *)
enable_periodic_timer(vector, ms) ==
    /\ call = None
    /\ ifl' = FALSE
    /\ reg' = [reg EXCEPT !.div = write_divide_conf(1),
                          !.lvt = write_lvt_entry(@, vector, 0, PERIODIC)]
    /\ call' = [pc |-> IF per_second = 0 THEN "save" ELSE "count", ms |-> ms]
    /\ want' = [want EXCEPT !.vector = vector, !.mode = PERIODIC, !.masked = 0, !.divisor = 1]
    /\ UNCHANGED <<hardware, per_second, sent>>

ticks_per_second ==
    /\ call = None /\ per_second = 0
    /\ call' = [pc |-> "save", ms |-> 0]
    /\ UNCHANGED <<reg, hardware, ifl, per_second, want, sent>>

(* The registers are saved and the timer is masked with interrupts off. *)
Save ==
    /\ call # None /\ call.pc = "save"
    /\ call' = [pc |-> "start", ms |-> call.ms, if |-> ifl, old |-> reg]
    /\ ifl' = FALSE
    /\ reg' = [reg EXCEPT !.div = write_divide_conf(1), !.lvt = write_lvt_entry(@, 0, 1, ONESHOT)]
    /\ UNCHANGED <<hardware, per_second, want, sent>>

(* The RTC begins a second: the timer is started with the largest count.   *)
Start ==
    /\ call # None /\ call.pc = "start"
    /\ reg' = [reg EXCEPT !.init = MaxCount]
    /\ armed' = TRUE
    /\ call' = [call EXCEPT !.pc = "read"]
    /\ UNCHANGED <<sending, irr, ifl, per_second, want, sent>>

(* Fault: the timer entry stays masked. *)
RestoreSome(old) == [reg EXCEPT !.div = old.div, !.init = old.init]
Restore(old) == [reg EXCEPT !.div = old.div, !.lvt = old.lvt, !.init = old.init]

(* The RTC begins the next second: what was counted is kept. *)
Measure(n) ==
    /\ call # None /\ call.pc = "read"
    /\ per_second' = n
    /\ reg' = Restore(call.old)
    /\ armed' = (call.old.init # 0)
    /\ ifl' = call.if
    /\ call' = IF call.ms = 0 THEN None ELSE [pc |-> "count", ms |-> call.ms]
    /\ UNCHANGED <<sending, irr, want, sent>>

Count ==
    LET init == (per_second * call.ms) \div 1000 IN
    /\ call # None /\ call.pc = "count"
    /\ reg' = [reg EXCEPT !.init = init]
    /\ armed' = (init # 0)
    /\ want' = [want EXCEPT !.init = init]
    /\ ifl' = TRUE
    /\ call' = None
    /\ UNCHANGED <<sending, irr, per_second, sent>>

(* send_self_ipi(): the destination is shifted into the low word. *)
send_self_ipi(vector, sh) ==
    /\ call = None /\ sending = None
    /\ reg' = [reg EXCEPT !.icr_high = IF sh = NO_SH THEN ((ApicId * 2^ICR_DEST_SHIFT) \div 2^16) \div 2^16 ELSE 0]
    /\ sending' = [vector |-> vector, sh |-> sh]
    /\ call' = [pc |-> "ipi"]
    /\ sent' = sent \cup {vector}
    /\ UNCHANGED <<armed, irr, ifl, per_second, want>>

(* Fault: the call does not wait for the IPI to leave. *)
SentUnseen == TRUE
wait_until_ready_for_ipi == sending = None
IpiDone ==
    /\ call # None /\ call.pc = "ipi"
    /\ wait_until_ready_for_ipi
    /\ call' = None
    /\ UNCHANGED <<reg, hardware, ifl, per_second, want, sent>>

(* The LAPIC delivers the IPI. *)
Deliver ==
    /\ sending # None
    /\ irr' = IF sending.sh # NO_SH \/ Extract(reg.icr_high, VECTOR_MASK, 24) = ApicId
              THEN irr \cup {sending.vector} ELSE irr
    /\ sending' = None
    /\ UNCHANGED <<reg, armed, ifl, per_second, call, want, sent>>

(* The count of the timer reaches zero. *)
Expire ==
    /\ armed
    /\ irr' = IF Extract(reg.lvt, 1, MASK_SHIFT) = 1 THEN irr ELSE irr \cup {Extract(reg.lvt, VECTOR_MASK, 0)}
    /\ armed' = (Extract(reg.lvt, MODE_MASK, MODE_SHIFT) = PERIODIC)
    /\ UNCHANGED <<reg, sending, ifl, per_second, call, want, sent>>

(* drain_irq(): the interrupt is taken and ended. *)
drain_irq(v) ==
    /\ ifl /\ v \in irr
    /\ irr' = irr \ {v} /\ sent' = sent \ {v}
    /\ UNCHANGED <<reg, armed, sending, ifl, per_second, call, want>>

LNext ==
    \/ \E v \in Vectors : \/ write_spurious_vector(v + 1) \/ write_lvt_vector(v)
                          \/ \E ms \in Periods : enable_periodic_timer(v, ms)
                          \/ \E sh \in {NO_SH, SELF, ALL_INC_SELF} : send_self_ipi(v, sh)
                          \/ drain_irq(v)
    \/ \E b \in 0 .. 1 : \/ software_apic_enable(b) \/ global_apic_enable(b) \/ write_lvt_mask(b)
                        \/ write_lvt_timer_mode(b) \/ lapic_set_task_priority(15 * b)
    \/ \E conf \in Confs : SetDivider(conf)
    \/ \E n \in Elapsed : Measure(n)
    \/ stop_lapic_timer \/ ticks_per_second \/ Save \/ Start \/ Count \/ IpiDone \/ Deliver \/ Expire
-----------------------------------------------------------------------------
(* Between calls every field of the registers is what the last call that   *)
(* is about this field asked for: no accessor touches its neighbours and a *)
(* calibration, wherever it happens, leaves the timer as it was.  And when *)
(* send_self_ipi() has returned, its vector is requested on this very      *)
(* processor until it is served.  (Without a shorthand the destination is  *)
(* lost, so that this is so on processor 0 only.)                          *)
AsProgrammed ==
    call = None =>
        /\ want = [spurious |-> Extract(reg.svr, VECTOR_MASK, 0), enabled |-> Extract(reg.svr, 1, ENABLED_SHIFT),
                vector |-> Extract(reg.lvt, VECTOR_MASK, 0), mode |-> Extract(reg.lvt, MODE_MASK, MODE_SHIFT),
                masked |-> Extract(reg.lvt, 1, MASK_SHIFT),
                divisor |-> CHOOSE d \in Divisors : write_divide_conf(d) = reg.div,
                init |-> reg.init, class |-> Extract(reg.tpr, VECTOR_MASK, CLASS_SHIFT),
                global |-> Extract(reg.base, 1, GLOBAL_SHIFT)]
        /\ sent \subseteq irr
=============================================================================
