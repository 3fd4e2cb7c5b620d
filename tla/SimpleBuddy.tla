----------------------------- MODULE SimpleBuddy -----------------------------
(***************************************************************************)
(* memory/simple_buddy.hpp, a buddy that claims memory from another heap   *)
(* when it runs out and remembers the order of what it handed out, and its *)
(* client, the aligned operator new and delete of boot.cpp.                *)
(***************************************************************************)
EXTENDS Buddy

CONSTANTS PAGE_BITS,       \* min_claim_order
          HEAP_ALIGNMENT   \* of the addresses alloc_func returns

VARIABLES
    alloc_map,   \* address -> order of what alloc returned
    asked,       \* address -> size the client of operator new asked for
    call,        \* size and order of the running alloc
    trapped      \* INTERNAL_TRAP was reached

simpleVars == <<alloc_map, asked, call, trapped>>
claimingVars == <<buddyVars, simpleVars>>

NoCall == [phase |-> "none", size |-> 0, order |-> 0]

SimpleInit ==
    /\ Init
    /\ alloc_map = <<>>
    /\ asked = <<>>
    /\ call = NoCall
    /\ trapped = FALSE

greater(m, n) == IF m >= n THEN m ELSE n

(* Fault: alloc claims no more than the order it needs.                    *)
claim_order_exact(order) == lesser(greater(order, PAGE_BITS), Bits)

claim_order(order) == lesser(greater(order + 1, PAGE_BITS + 1), Bits)

(* operator new(size, alignment), with an alignment the default heap does  *)
(* not offer, calls alloc.  The buddy has a block, ...                     *)
New(size, alignment) ==
    LET order == order_max(greater(size, alignment)) IN
    /\ call.phase = "none" /\ ~trapped
    /\ order <= max_ord
    /\ Alloc(order)
    /\ call' = [phase |-> "alloc", size |-> size, order |-> order]
    /\ UNCHANGED <<alloc_map, asked, trapped>>

(* ... or it has none and alloc_func returns fresh memory at base.  When   *)
(* alloc_func returns null, alloc changes nothing.                         *)
NewClaim(size, alignment, base) ==
    LET order == order_max(greater(size, alignment)) IN
    /\ call.phase = "none" /\ ~trapped
    /\ order <= max_ord
    /\ fitting(order) = {}
    /\ base % HEAP_ALIGNMENT = 0
    /\ base + Size[claim_order(order)] <= Limit
    /\ Reclaim(base, Size[claim_order(order)])
    /\ call' = [phase |-> "retry", size |-> size, order |-> order]
    /\ UNCHANGED <<alloc_map, asked, trapped>>

(* The second buddy_t::alloc, after the claimed memory was added.          *)
Retry ==
    /\ call.phase = "retry"
    /\ Idle
    /\ IF fitting(call.order) = {}
         THEN call' = NoCall /\ UNCHANGED buddyVars
         ELSE Alloc(call.order) /\ call' = [call EXCEPT !.phase = "alloc"]
    /\ UNCHANGED <<alloc_map, asked, trapped>>

(* The buddy returned an address: it must not be in the map yet.           *)
NewReturn ==
    /\ mark_used
    /\ used' = used \cup {<<id.addr, Size[want]>>}
    /\ UNCHANGED range
    /\ IF id.addr \in DOMAIN alloc_map
         THEN trapped' = TRUE /\ UNCHANGED <<alloc_map, asked>>
         ELSE /\ alloc_map' = [a \in DOMAIN alloc_map \cup {id.addr} |->
                                 IF a = id.addr THEN want ELSE alloc_map[a]]
              /\ asked' = [a \in DOMAIN asked \cup {id.addr} |->
                             IF a = id.addr THEN call.size ELSE asked[a]]
              /\ UNCHANGED trapped
    /\ call' = NoCall

without(f, x) == [a \in DOMAIN f \ {x} |-> f[a]]

(* Fault: free(addr) leaves the address in the map.                        *)
Delete_no_erase(addr) ==
    /\ call.phase = "none" /\ ~trapped
    /\ addr \in DOMAIN alloc_map
    /\ Free(addr, alloc_map[addr])
    /\ asked' = without(asked, addr)
    /\ UNCHANGED <<alloc_map, call, trapped>>

(* operator delete with an alignment: free(addr).                          *)
Delete(addr) ==
    /\ call.phase = "none" /\ ~trapped
    /\ addr \in DOMAIN alloc_map
    /\ Free(addr, alloc_map[addr])
    /\ alloc_map' = without(alloc_map, addr)
    /\ asked' = without(asked, addr)
    /\ UNCHANGED <<call, trapped>>

Sizes == 1..Size[max_ord]

Alignments == {Size[o] : o \in {p \in 0..max_ord : Size[p] > HEAP_ALIGNMENT}}

SimpleNext ==
    \/ \E n \in Sizes, l \in Alignments : New(n, l)
    \/ \E n \in Sizes, l \in Alignments, a \in 0..Limit - 1 : NewClaim(n, l, a)
    \/ Retry
    \/ NewReturn
    \/ \E a \in 0..Limit - 1 : Delete(a)
    \/ Loops /\ UNCHANGED simpleVars

SimpleSpec == SimpleInit /\ [][SimpleNext]_claimingVars

(* What alloc claims always suffices: wherever the claimed memory lies,    *)
(* once it is added the retry finds a block of the requested order.        *)
RetrySucceeds == call.phase = "retry" /\ Idle => fitting(call.order) # {}

(* alloc_map names exactly the blocks clients hold, with their sizes, so   *)
(* that delete frees what new allocated and INTERNAL_TRAP, "address        *)
(* already in map, which indicates corrupted buddy", is not reached.       *)
MapIsExact ==
    /\ ~trapped
    /\ used = {<<a, Size[alloc_map[a]]>> : a \in DOMAIN alloc_map}

(* What the C++17 operator new of boot.cpp:307 must return: storage for at *)
(* least the bytes that were asked for.                                    *)
StorageSuffices == \A a \in DOMAIN asked : asked[a] <= Size[alloc_map[a]]
=============================================================================
