---------------------------- MODULE IntervalMap ----------------------------
(***************************************************************************)
(* interval_vector_impl: a vector of starting points with values, each     *)
(* interval ending where the next one starts.  Iterators are indices;      *)
(* Len(m) + 1 is the end.                                                  *)
(***************************************************************************)
EXTENDS Integers, SequencesExt

CONSTANTS
    IvalLast,     \* ival_last, the largest point
    Values,   \* what is mapped to
    Default   \* the value of a default constructed value_t

VARIABLES m,
          last   \* history: the arguments of the last call
vars == <<m, last>>

End(s) == Len(s) + 1
Pair(p, v) == [first |-> p, second |-> v]
lower_bound(s, p) == Cardinality({i \in DOMAIN s : s[i].first < p}) + 1
upper_bound(s, p) == Cardinality({i \in DOMAIN s : s[i].first <= p}) + 1
(* vector::erase of the elements from i up to but not including j *)
EraseRange(s, i, j) == SubSeq(s, 1, i - 1) \o SubSeq(s, j, Len(s))

(* Fault: only the predecessor is looked at. *)
MergeBefore(s, i) ==
    IF i # 1 /\ i # End(s) /\ s[i - 1].second = s[i].second THEN RemoveAt(s, i) ELSE s

merge(s, i) ==
    LET withPre == i # 1 /\ s[i - 1].second = s[i].second
        t == IF withPre THEN RemoveAt(s, i) ELSE s
        cur == IF withPre THEN i - 1 ELSE i
    IN  IF i = End(s) THEN s
        ELSE IF cur < Len(t) /\ t[cur].second = t[cur + 1].second THEN RemoveAt(t, cur + 1)
        ELSE t

(* Fault: the rest of the interval is only restored if another follows. *)
InsertInsideToEnd(a, b, v, at) ==
    LET one == InsertAt(m, at, Pair(a, v)) IN
    IF v = m[at - 1].second THEN m
    ELSE IF b # IvalLast /\ at < End(m) /\ b # m[at].first
         THEN InsertAt(one, at + 1, Pair(b, m[at - 1].second))
    ELSE merge(one, at)

(* [a, b) lies inside one interval *)
InsertInside(a, b, v, at) ==
    LET one == InsertAt(m, at, Pair(a, v)) IN
    IF v = m[at - 1].second THEN m
    ELSE IF b = IvalLast THEN one
    ELSE IF at = End(m) \/ (at < End(m) /\ b # m[at].first)
         THEN InsertAt(one, at + 1, Pair(b, m[at - 1].second))
    ELSE merge(one, at)

(* [a, b) ends in the last interval *)
InsertAtEnd(a, b, v, lba) ==
    LET rest == EraseRange(m, lba, Len(m)) IN
    IF b = IvalLast THEN merge(Append(SubSeq(m, 1, lba - 1), Pair(a, v)), lba)
    ELSE IF rest[lba].second = v THEN merge([rest EXCEPT ![lba].first = a], lba)
    ELSE merge(InsertAt([rest EXCEPT ![lba].first = b], lba, Pair(a, v)), lba)

InsertAcross(a, b, v, lba, lbb) ==
    LET exact == m[lbb].first = b
        shifted == IF exact THEN m ELSE [m EXCEPT ![lbb - 1].first = b]
        rest == EraseRange(shifted, lba, IF exact THEN lbb ELSE lbb - 1)
    IN  merge(InsertAt(rest, lba, Pair(a, v)), lba)

insert(a, b, v) ==
    LET lba == lower_bound(m, a)
        lbb == lower_bound(m, b)
    IN  /\ last' = <<a, b, v>>
        /\ m' = IF lba = lbb THEN InsertInside(a, b, v, lba)
                ELSE IF lbb = End(m) THEN InsertAtEnd(a, b, v, lba)
                ELSE InsertAcross(a, b, v, lba, lbb)

remove(p) ==
    LET next == upper_bound(m, p)
        actual == next - 1
    IN  /\ last' = <<p>>
        /\ m' = IF next # End(m)
                THEN RemoveAt(IF actual = 1 THEN [m EXCEPT ![next].first = 0]
                              ELSE IF m[actual - 1].second = m[next].second THEN RemoveAt(m, next)
                              ELSE m, actual)
                ELSE IF actual = 1 THEN [m EXCEPT ![1].second = Default]
                ELSE RemoveAt(m, actual)

(* The interval around a point and its value *)
find(p) ==
    LET upper == upper_bound(m, p)
    IN  [a |-> m[upper - 1].first, b |-> IF upper = End(m) THEN IvalLast ELSE m[upper].first,
         val |-> m[upper - 1].second]

(* The index range of iterate_range.  Behind the last start the code reads *)
(* the element at end(): whether it equals the point is anyone's guess.    *)
iterate_range(p, q) ==
    LET lb == lower_bound(m, p)
        begins == IF lb = End(m) THEN {lb, lb - 1}
                  ELSE IF m[lb].first # p THEN {lb - 1} ELSE {lb}
    IN  {i .. lower_bound(m, q) - 1 : i \in begins}

(* The end of the interval found, 0 if none: each candidate replaces the   *)
(* one before, so that the last one counts.                                *)
find_last_fit(size, key, limit) ==
    LET fits == {i \in DOMAIN m :
                    LET c == find(m[i].first) IN
                    c.val = key /\ c.b - c.a >= size /\ c.a + size <= limit}
        c == find(m[Max(fits)].first)
    IN  IF fits = {} THEN 0 ELSE IF c.b < limit THEN c.b ELSE limit

Init == m = <<Pair(0, Default)>> /\ last = <<>>
InsertAny == \E a \in 0 .. IvalLast - 1, b \in 1 .. IvalLast, v \in Values : a < b /\ insert(a, b, v)
RemoveAny == \E p \in 0 .. IvalLast - 1 : remove(p)
Next == InsertAny \/ RemoveAny
-----------------------------------------------------------------------------
Value(p) == find(p).val
Meaning == [p \in 0 .. IvalLast - 1 |-> Value(p)]
Points == INSTANCE PointMap WITH f <- Meaning

(* Whatever inserts and removes came before, every point has the value of  *)
(* the last insert over it, and a remove touches one interval only.        *)
RefinesPointMap == Points!Spec

(* find_last_fit returns the highest run of the asked size that has the    *)
(* value and ends at or below the limit, or nothing if there is none; a    *)
(* range that starts at or before the last interval's start begins with    *)
(* the interval around its first point and misses no interval up to its    *)
(* end.                                                                    *)
SearchesRight ==
    /\ \A size \in 1 .. IvalLast, key \in Values, limit \in 1 .. IvalLast :
          LET ends == {e \in size .. limit : \A p \in e - size .. e - 1 : Value(p) = key}
          IN  find_last_fit(size, key, limit) = IF ends = {} THEN 0 ELSE Max(ends)
    /\ \A p \in 0 .. m[Len(m)].first, q \in 1 .. IvalLast :
          p < q => iterate_range(p, q) = {{i \in DOMAIN m : find(m[i].first).b > p /\ m[i].first < q}}
=============================================================================
