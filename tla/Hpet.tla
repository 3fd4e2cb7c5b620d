-------------------------------- MODULE Hpet --------------------------------
(***************************************************************************)
(* The HPET's 64-bit main counter, of which the driver can only access one *)
(* half at a time while it runs, and the status of level-triggered timers. *)
(***************************************************************************)
EXTENDS Integers

CONSTANTS
    Half,       \* number of values of one half (2^32)
    MaxTicks,   \* bound on ticks during one call, less than a turn of the counter
    TimerNos,   \* the timers
    NoCall      \* no call in progress

VARIABLES
    hi, lo,       \* main_counter_hi, main_counter_lo
    running,      \* CFG_ENABLED
    int_status,   \* timers with their status bit set
    access,       \* the access in progress
    ticks,        \* ticks since it began
    seen,         \* history: the values the counter has had since
    carried,      \* history: the low half has overflowed since
    returned,     \* history: the value a read has returned, or -1
    written       \* history: the value the counter was just set to, or -1

pvars == <<hi, lo, running, int_status, access, ticks, seen, carried, returned, written>>
Counter == hi * Half + lo
At(pc) == access # NoCall /\ access.pc = pc

PInit ==
    /\ hi = 0 /\ lo = Half - 1 /\ running = FALSE /\ int_status = {}
    /\ access = NoCall /\ ticks = 0 /\ seen = {} /\ carried = FALSE
    /\ returned = -1 /\ written = -1

Tick ==
    /\ running /\ ticks < MaxTicks
    /\ lo' = (lo + 1) % Half
    /\ hi' = IF lo = Half - 1 THEN (hi + 1) % Half ELSE hi
    /\ ticks' = ticks + 1
    /\ seen' = IF access = NoCall THEN seen ELSE seen \cup {hi' * Half + lo'}
    /\ carried' = (carried \/ lo = Half - 1)
    /\ written' = -1
    /\ UNCHANGED <<running, int_status, access, returned>>

(* enabled() *)
Enable(e) ==
    /\ access = NoCall
    /\ running' = e
    /\ UNCHANGED <<hi, lo, int_status, access, ticks, seen, carried, returned, written>>

Begin(a) ==
    /\ access = NoCall
    /\ access' = a
    /\ ticks' = 0 /\ seen' = {Counter} /\ carried' = FALSE /\ returned' = -1 /\ written' = -1
    /\ UNCHANGED <<hi, lo, running, int_status>>

Go(a) == access' = a /\ UNCHANGED <<running, ticks, seen, carried>>

(* main_counter(): high half, low half, and the high half once more *)
ReadHigh == At("hi") /\ Go([pc |-> "lo", hi |-> hi]) /\ UNCHANGED <<hi, lo, int_status, returned, written>>
ReadLow ==
    /\ At("lo") /\ Go([pc |-> "again", hi |-> access.hi, lo |-> lo])
    /\ UNCHANGED <<hi, lo, int_status, returned, written>>

(* Fault: the high half is not read again. *)
ReadOnce ==
    /\ At("again") /\ Go(NoCall)
    /\ returned' = access.hi * Half + access.lo
    /\ UNCHANGED <<hi, lo, int_status, written>>
ReadAgain ==
    /\ At("again")
    /\ IF access.hi = hi
       THEN Go(NoCall) /\ returned' = access.hi * Half + access.lo
       ELSE Go([pc |-> "hi"]) /\ UNCHANGED returned
    /\ UNCHANGED <<hi, lo, int_status, written>>

(* main_counter(new_cnt): high half, then low half *)
WriteHigh ==
    /\ At("set hi") /\ Go([pc |-> "set lo", new |-> access.new])
    /\ hi' = access.new \div Half
    /\ UNCHANGED <<lo, int_status, returned, written>>
WriteLow ==
    /\ At("set lo") /\ Go(NoCall)
    /\ lo' = access.new % Half
    /\ written' = access.new
    /\ UNCHANGED <<hi, int_status, returned>>

(* A level-triggered timer matches.  clear_irq() writes back what it read  *)
(* with one more bit, and every bit written as 1 is cleared.               *)
Match(n) ==
    /\ running
    /\ int_status' = int_status \cup {n}
    /\ UNCHANGED <<hi, lo, running, access, ticks, seen, carried, returned, written>>
ReadStatus ==
    /\ At("clear") /\ Go([pc |-> "write status", n |-> access.n, bits |-> int_status])
    /\ UNCHANGED <<hi, lo, int_status, returned, written>>
clear_irq ==
    /\ At("write status") /\ Go(NoCall)
    /\ int_status' = int_status \ (access.bits \cup {access.n})
    /\ UNCHANGED <<hi, lo, returned, written>>

PNext ==
    \/ Tick \/ ReadHigh \/ ReadLow \/ ReadAgain \/ WriteHigh \/ WriteLow \/ clear_irq
    \/ \E e \in BOOLEAN : Enable(e)
    \/ Begin([pc |-> "hi"])
    \/ \E new \in 0 .. Half * Half - 1 : Begin([pc |-> "set hi", new |-> new])
    \/ ReadStatus
    \/ \E n \in TimerNos : Match(n) \/ Begin([pc |-> "clear", n |-> n])
-----------------------------------------------------------------------------
(* A value main_counter() returns is one the counter had during the call,  *)
(* however the halves change in between; a value it sets is the counter's, *)
(* unless the low half overflowed between the two writes.                  *)
CounterHonest ==
    /\ returned # -1 => returned \in seen
    /\ written # -1 /\ ~carried => Counter = written
=============================================================================
