----------------------------- MODULE MapVector -----------------------------
(* map_vector: a std::map in a sorted vector.                              *)
EXTENDS Integers, SequencesExt

CONSTANTS Keys, MapVals, MaxItems
VARIABLES vec,
          content  \* map_map beside it: the pairs of the std::map, given the same calls
mvars == <<vec, content>>

Pair(k, v) == [first |-> k, second |-> v]
LowerBound(k) == Cardinality({i \in DOMAIN vec : vec[i].first < k}) + 1
MInit == vec = <<>> /\ content = {}

(* Insertion with automatic position look-up *)
insert(k, v) ==
    LET pos == LowerBound(k) IN
    vec' = IF pos > Len(vec) \/ vec[pos].first # k
           THEN InsertAt(vec, pos, Pair(k, v)) ELSE vec

(* Fault: the element before the hint is not looked at. *)
InsertHintedOneSide(it, k, v) ==
    IF it <= Len(vec) /\ ~(k < vec[it].first) THEN insert(k, v)
    ELSE vec' = InsertAt(vec, it, Pair(k, v))

(* Insertion with a hint, which is only believed if it is right *)
insert_hinted(it, k, v) ==
    IF it <= Len(vec) /\ ~(k < vec[it].first) THEN insert(k, v)
    ELSE IF it > 1 /\ ~(vec[it - 1].first < k) THEN insert(k, v)
    ELSE vec' = InsertAt(vec, it, Pair(k, v))

(* map_map: emplace keeps the value a key already has. *)
emplace(k, v) ==
    content' = IF \E w \in MapVals : <<k, w>> \in content THEN content ELSE content \cup {<<k, v>>}

erase(a, b) ==
    /\ vec' = SubSeq(vec, 1, a - 1) \o SubSeq(vec, b, Len(vec))
    /\ content' = content \ {<<vec[i].first, vec[i].second>> : i \in a .. b - 1}

MNext ==
    \/ \E k \in Keys, v \in MapVals :
          /\ Len(vec) < MaxItems
          /\ insert(k, v) \/ \E it \in 1 .. Len(vec) + 1 : insert_hinted(it, k, v)
          /\ emplace(k, v)
    \/ \E a \in 1 .. Len(vec) : \E b \in a .. Len(vec) + 1 : erase(a, b)
-----------------------------------------------------------------------------
(* Whatever hints are given, the vector is sorted, holds every key once,   *)
(* and holds what a std::map would: the first value inserted for a key.    *)
SortedAsMap ==
    /\ \A i, j \in DOMAIN vec : i < j => vec[i].first < vec[j].first
    /\ {<<vec[i].first, vec[i].second>> : i \in DOMAIN vec} = content
=============================================================================
