------------------------------- MODULE IoApic -------------------------------
(***************************************************************************)
(* The I/O APIC driver: redirection entries are read, changed as copies    *)
(* and written back through the select and window registers, two words per *)
(* entry, while devices keep pulling the pins.                             *)
(***************************************************************************)
EXTENDS Integers

CONSTANTS
    max_irt,   \* the largest index of an entry
    Vecs,      \* vectors
    Dests      \* destinations

VARIABLES
    irt,       \* the entries in hardware: [lo, hi]
    select,    \* the register select
    entry,     \* the driver's copy, [index, lo, hi]
    call,      \* the call in progress and where it is
    committed  \* history: the last entry completely written to each pin

ivars == <<irt, select, entry, call, committed>>

Pins == 0 .. max_irt
Nothing == [pc |-> "idle"]
FIXED == 0
NMI == 4
EXTINT == 7
(* The low word; trigger mode, polarity and destination mode lie in it as  *)
(* the delivery mode does.                                                 *)
Word(vec, dlv, masked) == [vec |-> vec, dlv |-> dlv, masked |-> masked]
Low(pin) == 16 + 2 * pin      \* IRT0 + idx * 2

(* The loop of init_interrupt_controllers() at a pin, and behind it *)
BootAt(pin) == IF pin < max_irt THEN [pc |-> "boot", pin |-> pin] ELSE [pc |-> "booted"]

(* Firmware leaves any pin unmasked. *)
IInit ==
    /\ irt \in [Pins -> [lo : {Word(v, FIXED, k) : v \in Vecs, k \in BOOLEAN}, hi : Dests]]
    /\ select = 0
    /\ entry = [index |-> 0, lo |-> irt[0].lo, hi |-> irt[0].hi]
    /\ call = BootAt(0)
    /\ committed = irt

(* get_irt() reads both words into a copy. *)
get_irt(pin) ==
    /\ entry' = [index |-> pin, lo |-> irt[pin].lo, hi |-> irt[pin].hi]
    /\ select' = Low(pin) + 1

(* init_interrupt_controllers(): every unmasked entry is masked. *)
BootGet ==
    /\ call.pc = "boot"
    /\ get_irt(call.pin)
    /\ call' = [call EXCEPT !.pc = "boot mask"]
    /\ UNCHANGED <<irt, committed>>
BootMask ==
    LET next == BootAt(call.pin + 1) IN
    /\ call.pc = "boot mask"
    /\ IF entry.lo.masked
       THEN call' = next /\ UNCHANGED entry
       ELSE entry' = [entry EXCEPT !.lo.masked = TRUE] /\ call' = [pc |-> "mask", then |-> next]
    /\ UNCHANGED <<irt, select, committed>>

(* software_apic_disable(), and main() follows. *)
BootEnd == call.pc = "booted" /\ call' = Nothing /\ UNCHANGED <<irt, select, entry, committed>>

(* The setters of redirection_entry and its constructor work on the copy. *)
Get(pin) == call = Nothing /\ get_irt(pin) /\ UNCHANGED <<irt, call, committed>>
redirection_entry(pin, vec, dest, dlv) ==
    /\ call = Nothing
    /\ entry' = [index |-> pin, lo |-> Word(vec, dlv, FALSE), hi |-> dest]
    /\ UNCHANGED <<irt, select, call, committed>>
mask(k) ==
    /\ call = Nothing
    /\ entry' = [entry EXCEPT !.lo.masked = k]
    /\ UNCHANGED <<irt, select, call, committed>>

set_irt == call = Nothing /\ call' = [pc |-> "mask", then |-> Nothing] /\ UNCHANGED <<irt, select, entry, committed>>

(* Fault: the entry is not masked while it changes. *)
MaskNot ==
    /\ call.pc = "mask"
    /\ select' = Low(entry.index)
    /\ call' = [call EXCEPT !.pc = "high"]
    /\ UNCHANGED <<irt, entry, committed>>

(* Its three writes: the low word masked, the high word, the low word *)
MaskFirst ==
    /\ call.pc = "mask"
    /\ select' = Low(entry.index)
    /\ irt' = [irt EXCEPT ![entry.index].lo.masked = TRUE]
    /\ call' = [call EXCEPT !.pc = "high"]
    /\ UNCHANGED <<entry, committed>>
WriteHigh ==
    /\ call.pc = "high"
    /\ select' = Low(entry.index) + 1
    /\ irt' = [irt EXCEPT ![entry.index].hi = entry.hi]
    /\ call' = [call EXCEPT !.pc = "low"]
    /\ UNCHANGED <<entry, committed>>
WriteLow ==
    /\ call.pc = "low"
    /\ select' = Low(entry.index)
    /\ irt' = [irt EXCEPT ![entry.index].lo = entry.lo]
    /\ call' = call.then
    /\ committed' = [committed EXCEPT ![entry.index] = [lo |-> entry.lo, hi |-> entry.hi]]
    /\ UNCHANGED entry

INext ==
    \/ BootGet \/ BootMask \/ BootEnd \/ set_irt \/ MaskFirst \/ WriteHigh \/ WriteLow
    \/ \E pin \in Pins : Get(pin)
    \/ \E k \in BOOLEAN : mask(k)
    \/ \E pin \in Pins, vec \in Vecs, dest \in Dests, dlv \in {FIXED, NMI, EXTINT} :
          redirection_entry(pin, vec, dest, dlv)
-----------------------------------------------------------------------------
(* At every moment, a pin that can raise an interrupt does so with the     *)
(* vector, the modes and the destination of one entry the driver (or the   *)
(* firmware) wrote, never with a half of one and a half of another.        *)
NeverTorn == \A pin \in Pins : ~irt[pin].lo.masked => irt[pin] = committed[pin]

(* boot.cpp:220 "Mask all IRTs.": when init_interrupt_controllers() is     *)
(* behind its loop, no pin can raise an interrupt.                         *)
AllMasked == call.pc = "booted" => \A pin \in Pins : irt[pin].lo.masked
=============================================================================
