---------------------------- MODULE FirstFitHeap ----------------------------
(***************************************************************************)
(* first_fit_heap, the heap under operator new.  Memory is counted in      *)
(* units of ALIGNMENT (16 bytes): a header takes one, a payload at least   *)
(* one, whose last word is the footer while the block is free.  The user   *)
(* overwrites all of a payload; what the heap wrote there is then Junk.    *)
(***************************************************************************)
EXTENDS Integers, FiniteSets

CONSTANTS
    MemSize,   \* units of memory
    MaxAlloc,  \* bound on the units asked for in one call
    Junk       \* the contents of memory the user has written

VARIABLES
    header,    \* the header at each address, or Junk
    footer,    \* the size in the footer at the end of each unit, or Junk
    list,      \* the first free block
    live       \* history: the blocks handed out and the size asked for

hvars == <<header, footer, list, live>>

Units == 0 .. MemSize - 1
Null == MemSize
Header(size, free, prev, next) ==
    [size |-> size, is_free |-> free, prev_free |-> prev, next |-> next]

(* Memory is the pair of header and footer, [h, f], with the list head. *)
Memory == [h |-> header, f |-> footer, list |-> list]
following_block(mem, b) == b + 1 + mem.h[b].size
preceding_block(mem, b) == b - mem.f[b - 1] - 1
update_footer(mem, b) == [mem EXCEPT !.f[b + mem.h[b].size] = mem.h[b].size]
set_prev_free(mem, b, val) == IF b < MemSize THEN [mem EXCEPT !.h[b].prev_free = val] ELSE mem

(* The n-th block of the free list *)
Nth(mem) ==
    LET nth[n \in 0 .. MemSize] ==
            IF n = 0 THEN mem.list
            ELSE LET b == nth[n - 1] IN IF b = Null THEN Null ELSE mem.h[b].next
    IN  nth
FirstIn(mem, Test(_)) ==
    LET nth == Nth(mem)
        hits == {n \in 0 .. MemSize : nth[n] # Null /\ Test(nth[n])}
    IN  IF hits = {} THEN -1 ELSE CHOOSE n \in hits : \A k \in hits : n <= k

HInit ==
    /\ header = [u \in Units |-> IF u = 0 THEN Header(MemSize - 1, TRUE, FALSE, Null) ELSE Junk]
    /\ footer = [u \in Units |-> IF u = MemSize - 1 THEN MemSize - 1 ELSE Junk]
    /\ list = 0
    /\ live = [u \in {} |-> 0]

Overwrite(mem, b) ==
    LET payload == b + 1 .. b + mem.h[b].size IN
    [mem EXCEPT !.h = [u \in Units |-> IF u \in payload THEN Junk ELSE mem.h[u]],
                !.f = [u \in Units |-> IF u \in payload THEN Junk ELSE mem.f[u]]]
Commit(mem) == header' = mem.h /\ footer' = mem.f /\ list' = mem.list

(* split: the block keeps size units, the rest becomes a free block. *)
split(mem, b, size) ==
    LET kept == update_footer([mem EXCEPT !.h[b].size = size], b)
        new == b + 1 + size
        rest == [kept EXCEPT !.h[new] = Header(mem.h[b].size - size - 1, TRUE, TRUE, mem.h[b].next)]
    IN  [update_footer(rest, new) EXCEPT !.h[b].next = new]

alloc(request) ==
    LET fits(b) == header[b].size >= request
        n == FirstIn(Memory, fits)
        b == Nth(Memory)[n]
        cut == IF header[b].size - request < 2 THEN Memory ELSE split(Memory, b, request)
        unlinked == IF n = 0 THEN [cut EXCEPT !.list = cut.h[b].next]
                    ELSE [cut EXCEPT !.h[Nth(Memory)[n - 1]].next = cut.h[b].next]
        used == [set_prev_free(unlinked, following_block(unlinked, b), FALSE)
                    EXCEPT !.h[b].is_free = FALSE]
    IN  IF n = -1 THEN UNCHANGED hvars
        ELSE /\ Commit(Overwrite(used, b))
             /\ live' = [u \in DOMAIN live \cup {b} |-> IF u = b THEN request ELSE live[u]]

(* Fault: the block behind the new free one is not told about it. *)
LinkOnly(mem, b, n) ==
    LET before == Nth(mem)[n]
        at == IF n = -1 THEN mem.list ELSE mem.h[before].next
        freed == update_footer([mem EXCEPT !.h[b].next = at, !.h[b].is_free = TRUE], b)
    IN  IF n = -1 THEN [freed EXCEPT !.list = b] ELSE [freed EXCEPT !.h[before].next = b]

(* Linked behind the n-th free block, or at the head if n is -1 *)
insert_after(mem, b, n) ==
    LET before == Nth(mem)[n]
        at == IF n = -1 THEN mem.list ELSE mem.h[before].next
        freed == update_footer([mem EXCEPT !.h[b].next = at, !.h[b].is_free = TRUE], b)
        linked == IF n = -1 THEN [freed EXCEPT !.list = b] ELSE [freed EXCEPT !.h[before].next = b]
    IN  set_prev_free(linked, following_block(linked, b), TRUE)

(* Fault: the header between the two blocks is not counted. *)
MergeBackLosingHeader(mem, b) ==
    LET next == following_block(mem, b) IN
    IF next >= MemSize THEN mem
    ELSE IF ~mem.h[next].is_free THEN mem
    ELSE update_footer([mem EXCEPT !.h[b].next = mem.h[next].next,
                                   !.h[b].size = @ + mem.h[next].size], b)

try_merge_back(mem, b) ==
    LET next == following_block(mem, b) IN
    IF next >= MemSize THEN mem
    ELSE IF ~mem.h[next].is_free THEN mem
    ELSE update_footer([mem EXCEPT !.h[b].next = mem.h[next].next,
                                   !.h[b].size = @ + mem.h[next].size + 1], b)

try_merge_front(mem, b) ==
    IF mem.h[b].prev_free THEN try_merge_back(mem, preceding_block(mem, b)) ELSE mem

(* position_for: the last free block before b, if there is one *)
position_for(mem, b) ==
    LET turning(e) == mem.h[e].next = Null \/ mem.h[e].next > b
        n == FirstIn(mem, turning)
    IN  IF n # -1 /\ Nth(mem)[n] < b THEN n ELSE -1

free(b) ==
    /\ Commit(try_merge_front(try_merge_back(insert_after(Memory, b, position_for(Memory, b)), b), b))
    /\ live' = [u \in DOMAIN live \ {b} |-> live[u]]

HNext == \/ \E request \in 1 .. MaxAlloc : alloc(request)
         \/ \E b \in DOMAIN live : free(b)
-----------------------------------------------------------------------------
(* The blocks one meets walking from the base of memory, header by header. *)
Blocks ==
    LET nth[n \in 0 .. MemSize] ==
            IF n = 0 THEN 0
            ELSE LET b == nth[n - 1] IN
                 IF b \notin Units THEN b ELSE IF header[b] = Junk THEN b ELSE following_block(Memory, b)
    IN  {nth[n] : n \in 0 .. MemSize}

(* After any sequence of calls of new and delete the blocks cover memory   *)
(* without gap or overlap, those in use are exactly the ones handed out    *)
(* and not given back, and each has room for what was asked.  The list     *)
(* holds exactly the free blocks in address order, no two free blocks are  *)
(* neighbours, and every flag and footer free() will look at tells the     *)
(* truth about the neighbour.                                              *)
HeapExact ==
    LET frees == {b \in Blocks \ {MemSize} : header[b].is_free}
        before(b) == {a \in Blocks : a < b /\ following_block(Memory, a) = b}
    IN  /\ MemSize \in Blocks
        /\ {b \in Blocks \ {MemSize} : ~header[b].is_free} = DOMAIN live
        /\ \A b \in DOMAIN live : header[b].size >= live[b]
        /\ {Nth(Memory)[n] : n \in 0 .. MemSize} = frees \cup {Null}
        /\ \A b \in frees : /\ header[b].next > b
                            /\ footer[b + header[b].size] = header[b].size
        /\ \A b \in Blocks \ {MemSize} :
              /\ header[b].prev_free = (before(b) \cap frees # {})
              /\ header[b].is_free => ~header[b].prev_free
=============================================================================
