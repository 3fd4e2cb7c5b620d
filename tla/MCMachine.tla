----------------------------- MODULE MCMachine -----------------------------
(***************************************************************************)
(* The test runner and the drivers of the interrupt and timer hardware,    *)
(* side by side: `part` says which of them a behaviour is about, the       *)
(* others keep their initial state.                                        *)
(***************************************************************************)
EXTENDS PicDriver

CONSTANTS h1, h2, none

VARIABLES part,
          cur, pc, res, env, stack, mach, out, found, failed,
          reg, armed, sending, irr, ifl, per_second, call, want, sent,
          irt, select, entry, icall, committed,
          hi, lo, running, int_status, access, ticks, seen, carried, returned, written

MCLines == {0, 1, 8, 12}

T == INSTANCE TestSuite WITH NumTests <- 2, Handlers <- {h1, h2}, nullptr <- none, MaxDepth <- 3
L == INSTANCE Lapic WITH ApicId <- 0, Vectors <- {33, 35}, MaxCount <- 4000, Elapsed <- {2000, 4000},
                         Periods <- {1}, Confs <- {1, 128}, None <- none
A == INSTANCE IoApic WITH max_irt <- 1, Vecs <- {32}, Dests <- {0, 1}, call <- icall
H == INSTANCE Hpet WITH Half <- 3, MaxTicks <- 5, TimerNos <- {1, 2}, NoCall <- none

picv == <<pic, unmasked, handlers>>
suite == <<cur, pc, res, env, stack, mach, out, found, failed>>
lapic == <<reg, armed, sending, irr, ifl, per_second, call, want, sent>>
ioapic == <<irt, select, entry, icall, committed>>
hpet == <<hi, lo, running, int_status, access, ticks, seen, carried, returned, written>>

drivers == <<picv, suite, lapic, ioapic, hpet>>

(* Only the chosen part has more than one initial state. *)
Drivers == {"pic", "suite", "lapic", "ioapic", "hpet"}
DriversInit ==
    /\ Init /\ T!TInit /\ L!LInit /\ A!IInit /\ H!PInit
    /\ part # "suite" => mach = [fn |-> none, if |-> FALSE, apic |-> FALSE, cr0 |-> 0, lvt_masked |-> TRUE]
    /\ part # "ioapic" => irt = [p \in {0, 1} |-> [lo |-> A!Word(32, 0, TRUE), hi |-> 0]]

DriversNext ==
    \/ part = "pic" /\ Next /\ UNCHANGED <<suite, lapic, ioapic, hpet>>
    \/ part = "suite" /\ T!TNext /\ UNCHANGED <<picv, lapic, ioapic, hpet>>
    \/ part = "lapic" /\ L!LNext /\ UNCHANGED <<picv, suite, ioapic, hpet>>
    \/ part = "ioapic" /\ A!INext /\ UNCHANGED <<picv, suite, lapic, hpet>>
    \/ part = "hpet" /\ H!PNext /\ UNCHANGED <<picv, suite, lapic, ioapic>>

MSpec == part \in Drivers /\ DriversInit /\ [][DriversNext /\ UNCHANGED part]_<<part, drivers>>
-----------------------------------------------------------------------------
(* baretest.cpp: every test is reported once, truthfully and in order.     *)
ReportTrue == part = "suite" => T!ReportTrue
(* The RAII guards restore the machine unless a test failed.               *)
LeavesAsFound == part = "suite" => T!LeavesAsFound
(* lapic_test_tools.cpp: accessors and calibration disturb no other field, *)
(* and a self-IPI arrives.                                                 *)
AsProgrammed == part = "lapic" => L!AsProgrammed
(* ioapic.hpp: set_irt() never exposes a mixed entry.                      *)
NeverTorn == part = "ioapic" => A!NeverTorn
(* boot.cpp:220: no pin is left unmasked.                                  *)
AllMasked == A!AllMasked
(* hpet.hpp: what main_counter() reads was there, what it sets is there.   *)
CounterHonest == part = "hpet" => H!CounterHonest
=============================================================================
