-------------------------------- MODULE Pic --------------------------------
(***************************************************************************)
(* The driver of the cascaded 8259 pair (testhelper/pic.hpp) as operators  *)
(* on the state of the pair: the sets of masked, requested and in-service  *)
(* pins, 0..7 on the master and 8..15 on the slave.  What the chips do by  *)
(* themselves is external: edge triggered, fully nested, 8086 mode.        *)
(***************************************************************************)
EXTENDS Integers, FiniteSetsExt

CONSTANT vector_base     \* the vector of pin 0, vector_base_ in the code

PINS == 16
PINS_PER_PIC == 8
CASCADE_IRQ == 2
Pins == 0..(PINS - 1)
NoVector == -1           \* the empty optional

(* The constructor panics unless the base is aligned to 8.                 *)
ASSUME VectorBaseAligned == vector_base \in 0..240 /\ vector_base % 8 = 0

----------------------------------------------------------------------------
(* The chips.                                                              *)

slave_pins == PINS_PER_PIC..(PINS - 1)

master_pin(pin) == IF pin \in slave_pins THEN CASCADE_IRQ ELSE pin

raise_pin(p, pin) == [p EXCEPT !.irr = @ \cup {pin}]

(* Requests that reach the CPU: neither the pin nor its way through the    *)
(* cascade is masked, and the master serves nothing of the same or a       *)
(* higher priority, that is of a number not above the pin's.               *)
deliverable(p) ==
    {pin \in p.irr \ p.imr :
        /\ master_pin(pin) \notin p.imr
        /\ \A s \in p.isr \ slave_pins : master_pin(pin) < s}

intr(p) == deliverable(p) # {}

(* The interrupt acknowledge cycle moves the request of highest priority   *)
(* into service, on the master and, if it came from there, on the slave.   *)
inta_pin(p) ==
    LET first == Min({master_pin(pin) : pin \in deliverable(p)})
    IN  Min({pin \in deliverable(p) : master_pin(pin) = first})

inta(p) ==
    LET pin == inta_pin(p)
    IN  [p EXCEPT !.irr = @ \ {pin}, !.isr = @ \cup {pin, master_pin(pin)}]

(* A non-specific EOI ends the service of highest priority of one chip.    *)
eoi_command(p, chip) ==
    IF p.isr \cap chip = {} THEN p ELSE [p EXCEPT !.isr = @ \ {Min(@ \cap chip)}]

----------------------------------------------------------------------------
(* The driver.                                                             *)

mask_all(p) == [p EXCEPT !.imr = Pins]
unmask_all(p) == [p EXCEPT !.imr = {}]

(* The constructor: the initialisation words clear all registers, and the  *)
(* pins are masked afterwards.                                             *)
pic_init == mask_all([imr |-> {}, irr |-> {}, isr |-> {}])

is_master_vector(vec) == vec \in vector_base..(vector_base + PINS_PER_PIC - 1)

is_slave_vector(vec) ==
    vec \in (vector_base + PINS_PER_PIC)..(vector_base + PINS - 1)

mask(p, vec) ==
    IF is_master_vector(vec) \/ is_slave_vector(vec)
        THEN [p EXCEPT !.imr = @ \cup {vec - vector_base}]
        ELSE p

unmask_master(p, vec) ==
    IF is_master_vector(vec)
        THEN [p EXCEPT !.imr = @ \ {vec - vector_base}]
        ELSE p

(* For a slave vector, unmask() calls itself with CASCADE_IRQ, a pin where *)
(* a vector is expected; no slave vector is that small.                    *)
unmask(p, vec) ==
    IF is_slave_vector(vec)
        THEN unmask_master([p EXCEPT !.imr = @ \ {vec - vector_base}], CASCADE_IRQ)
        ELSE unmask_master(p, vec)

(* Fault: tests the whole request register.                                *)
vector_in_irr_any(p, vec) == p.irr # {}

vector_in_irr(p, vec) == (vec - vector_base) \in p.irr

highest_pending_isr_vec(p) ==
    IF p.isr = {} THEN NoVector ELSE Max(p.isr) + vector_base

(* Fault: the master gets no EOI for an interrupt of the slave.            *)
eoi_one_chip(p) ==
    IF is_slave_vector(highest_pending_isr_vec(p)) THEN eoi_command(p, slave_pins)
                                                   ELSE eoi_command(p, Pins \ slave_pins)

(* eoi() picks the chips from the highest bit of the in-service register.  *)
eoi(p) ==
    LET vec == highest_pending_isr_vec(p)
        p1  == IF is_slave_vector(vec) THEN eoi_command(p, slave_pins) ELSE p
    IN  IF vec = NoVector THEN p ELSE eoi_command(p1, Pins \ slave_pins)

====
