------------------------------ MODULE PointMap ------------------------------
(* What an interval map promises: a function from points to values, and    *)
(* the call that changed it last.                                          *)
EXTENDS Integers
CONSTANTS IvalLast, Values, Default
VARIABLES f, last

Points == 0 .. IvalLast - 1
Run(p) == {q \in Points : \A r \in Points : (p <= r /\ r <= q) \/ (q <= r /\ r <= p) => f[r] = f[p]}

Init == f = [p \in Points |-> Default] /\ last = <<>>
(* An insert overwrites the points of [a, b) and no others. *)
Insert(a, b, v) ==
    /\ last' = <<a, b, v>>
    /\ f' = [p \in Points |-> IF a <= p /\ p < b THEN v ELSE f[p]]
(* A remove gives the interval around p to the interval before it, or to   *)
(* the one behind it if there is none.                                     *)
Remove(p) ==
    LET before == {q \in Points : \A r \in Run(p) : q < r}
        behind == {q \in Points : \A r \in Run(p) : q > r}
        heir == IF before # {} THEN f[CHOOSE q \in before : \A r \in before : r <= q]
                ELSE IF behind # {} THEN f[CHOOSE q \in behind : \A r \in behind : q <= r]
                ELSE Default
    IN  last' = <<p>> /\ f' = [q \in Points |-> IF q \in Run(p) THEN heir ELSE f[q]]
Next == \/ \E a \in Points, b \in 1 .. IvalLast, v \in Values : a < b /\ Insert(a, b, v)
        \/ \E p \in Points : Remove(p)
Spec == Init /\ [][Next]_<<f, last>>
=============================================================================
