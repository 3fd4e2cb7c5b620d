--------------------------- MODULE LockFreeArray ---------------------------
(***************************************************************************)
(* array_lock_free and array_lock_free_with_remove: every operation visits *)
(* the slots in order and decides at each one by a single load or          *)
(* compare-exchange, while other threads do the same.                      *)
(***************************************************************************)
EXTENDS Integers, FiniteSets

CONSTANTS
    Size,      \* SIZE
    Elems,     \* the elements that are stored
    Invalid,   \* INVALID_ELEMENT
    Threads

VARIABLES
    array,     \* the slots
    scan,      \* what each thread does and the slot it visits next
    balance    \* history: successful inserts of each element, less removes

avars == <<array, scan, balance>>

Slots == 0 .. Size - 1
Idle == [op |-> "idle"]

AInit ==
    /\ array = [i \in Slots |-> Invalid]      \* clear()
    /\ scan = [t \in Threads |-> Idle]
    /\ balance = [v \in Elems |-> 0]

(* quiet: nothing was removed since the scan began; steady: the slots that *)
(* have held the element ever since.                                       *)
Begin(t, op, v) ==
    /\ scan[t] = Idle
    /\ scan' = [scan EXCEPT ![t] =
                  [op |-> op, v |-> v, i |-> 0, quiet |-> TRUE,
                   steady |-> {i \in Slots : array[i] = v}]]
    /\ UNCHANGED <<array, balance>>

(* What the other scans remember after slot i changed to v. *)
Watch(s, i, v) ==
    IF s = Idle THEN s
    ELSE [s EXCEPT !.steady = IF s.v = v THEN @ ELSE @ \ {i},
                   !.quiet = @ /\ v # Invalid]

(* A scan ends with the slot at which it succeeded, or Size. *)
Return(s, i) == [op |-> "done", of |-> s.op, v |-> s.v, i |-> i,
                 quiet |-> s.quiet, steady |-> s.steady]

(* The test and the store of each operation at slot i *)
Hit(s, i) == array[i] = IF s.op = "insert" THEN Invalid ELSE s.v
Stored(s) == CASE s.op = "insert" -> s.v
               [] s.op = "remove" -> Invalid

Advance(t) ==
    LET s == scan[t] IN
    scan' = [scan EXCEPT ![t] = IF s.i + 1 = Size THEN Return(s, Size) ELSE [s EXCEPT !.i = @ + 1]]

(* Fault: the scan ends before the last slot. *)
FindShort(t) ==
    LET s == scan[t] IN
    /\ s.op = "find"
    /\ scan' = [scan EXCEPT ![t] = IF Hit(s, s.i) THEN Return(s, s.i)
                                   ELSE IF s.i + 2 >= Size THEN Return(s, Size)
                                   ELSE [s EXCEPT !.i = @ + 1]]
    /\ UNCHANGED <<array, balance>>

find_if(t) ==
    LET s == scan[t] IN
    /\ s.op = "find"
    /\ IF Hit(s, s.i) THEN scan' = [scan EXCEPT ![t] = Return(s, s.i)] ELSE Advance(t)
    /\ UNCHANGED <<array, balance>>

(* Fault: remove looks and then stores, so it may overwrite what another   *)
(* thread has stored in between.                                           *)
ExchangeLate(t) ==
    LET s == scan[t] IN
    /\ s.op \in {"insert", "remove"}
    /\ IF ~Hit(s, s.i) /\ s.op = "insert" THEN Advance(t) /\ UNCHANGED <<array, balance>>
       ELSE /\ array' = [array EXCEPT ![s.i] = Stored(s)]
            /\ scan' = [u \in Threads |-> IF u = t THEN Return(s, s.i) ELSE Watch(scan[u], s.i, Stored(s))]
            /\ balance' = [balance EXCEPT ![s.v] = IF s.op = "insert" THEN @ + 1 ELSE @ - 1]

(* insert and remove: compare_exchange_strong at the slot *)
exchange(t) ==
    LET s == scan[t] IN
    /\ s.op \in {"insert", "remove"}
    /\ IF Hit(s, s.i)
       THEN /\ array' = [array EXCEPT ![s.i] = Stored(s)]
            /\ scan' = [u \in Threads |-> IF u = t THEN Return(s, s.i) ELSE Watch(scan[u], s.i, Stored(s))]
            /\ balance' = [balance EXCEPT ![s.v] = IF s.op = "insert" THEN @ + 1 ELSE @ - 1]
       ELSE Advance(t) /\ UNCHANGED <<array, balance>>

Done(t) ==
    /\ scan[t].op = "done"
    /\ scan' = [scan EXCEPT ![t] = Idle]
    /\ UNCHANGED <<array, balance>>

ANext ==
    \E t \in Threads :
        \/ \E v \in Elems, op \in {"find", "insert", "remove"} : Begin(t, op, v)
        \/ find_if(t) \/ exchange(t) \/ Done(t)
-----------------------------------------------------------------------------
(* However threads interleave, an element is in the array once for every   *)
(* insert that returned an index and was not undone by a remove that       *)
(* returned true.  And a failed operation has a reason: insert() returns   *)
(* nothing only if the array is full or something was removed meanwhile;   *)
(* find() and remove() only if no slot held the element all along.         *)
NothingLost ==
    /\ \A v \in Elems :
        Cardinality({i \in Slots : array[i] = v}) = balance[v]
    /\ \A t \in Threads :
        scan[t].op = "done" /\ scan[t].i = Size =>
            IF scan[t].of = "insert"
            THEN scan[t].quiet => \A i \in Slots : array[i] # Invalid
            ELSE scan[t].steady = {}
=============================================================================
