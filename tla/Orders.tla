------------------------------- MODULE Orders -------------------------------
(***************************************************************************)
(* Powers of two and their orders, as util/math.hpp computes them, and the *)
(* greedy walk of util/order_range.hpp through an interval.  A machine     *)
(* word has Bits + 1 bits.  Size[o] is 1 << o; it is a constant with its   *)
(* defining equations assumed, because proofs need no more than these.     *)
(***************************************************************************)
EXTENDS Naturals

CONSTANTS Bits, Size

ASSUME BitsAssumption == Bits \in Nat

ASSUME PowersAssumption ==
    /\ Size \in [0..Bits -> Nat]
    /\ Size[0] = 1
    /\ \A o \in 0..Bits - 1 : Size[o + 1] = 2 * Size[o]

Order == 0..Bits

is_aligned(v, o) == v % Size[o] = 0

align_down(v, o) == v - (v % Size[o])

align_up(v, o) == align_down(v + Size[o] - 1, o)

bit(n, o) == (n \div Size[o]) % 2 = 1

(* Order of the lowest bit of num that is set; 0 if there is none.         *)
order_min(num) ==
    IF num = 0 THEN 0
    ELSE CHOOSE o \in Order : bit(num, o) /\ \A p \in 0..o - 1 : ~bit(num, p)

(* Order of the highest bit of num that is set; 0 if there is none.        *)
order_max(num) ==
    IF num = 0 THEN 0
    ELSE CHOOSE o \in Order : bit(num, o) /\ \A p \in o + 1..Bits : ~bit(num, p)

order_envelope(num) ==
    IF Size[order_max(num)] >= num THEN order_max(num) ELSE order_max(num) + 1

xor_bit(n, o) == IF bit(n, o) THEN n - Size[o] ELSE n + Size[o]

lesser(m, n) == IF m <= n THEN m ELSE n

(* order_range::iterator::order_step, as the order of the next step: the   *)
(* base's alignment (the top bit where base is 0), the rest and the user's *)
(* limit each bound it.                                                    *)
order_step(base, rest, max_order) ==
    lesser(IF base = 0 THEN Bits ELSE order_min(base),
           lesser(order_max(rest), max_order))
=============================================================================
