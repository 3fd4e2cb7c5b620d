------------------------------- MODULE Paging -------------------------------
(***************************************************************************)
(* Four-level page tables (pml4, pdpt, pd, pt), the memory_manager that    *)
(* walks them and flushes the TLB, and page_guard.  Software changes one   *)
(* entry at a time, by compare-and-swap, and then invalidates; meanwhile   *)
(* the processor walks the same tables, sets accessed bits and fills the   *)
(* TLB.  Addresses count 4 KiB pages; a table has Entries entries.         *)
(***************************************************************************)
EXTENDS Integers, FiniteSets

CONSTANTS
    Entries,    \* entries of one table (512 in the code)
    Roots,      \* the physical pages that hold a PML4
    Tables,     \* the physical pages that hold the other tables
    InitTable,  \* the configurations their entries are made of, before the first set_pml4
    Touched,    \* the linear pages the processor may access
    Masks,      \* the flags the client changes
    Pointees,   \* the tables an entry of each level may be set to
    Frames,     \* the physical pages an entry that maps a page may be set to
    MaxCalls    \* bound on the number of setters and guards used

VARIABLES
    table,   \* [page -> [index -> entry]]; an entry is its flags and its address
    cr3,     \* the PML4 in use
    pge,     \* CR4.PGE
    tlb,     \* cached translations
    call,    \* the setter, guard destructor or set_pml4 in progress
    guard,   \* the live page_guard
    calls,   \* how many of them were used
    owed     \* history: the cached translations no flush had to reach

vars == <<table, cr3, pge, tlb, call, guard, calls, owed>>

Flags == {"PR", "RW", "US", "PWT", "PCD", "A", "D", "PS", "GL", "PAT", "KEY", "XD"}
Index == 0 .. Entries - 1
Linear == 0 .. Entries ^ 4 - 1
Keep == -1
Idle == [pc |-> "idle"]
None == [level |-> 0]

(* The levels, from the PML4 (4) down to the page table (1). *)
Offset(level, lin) == (lin \div Entries ^ (level - 1)) % Entries

(* The constructors: the flags and the address of a configuration.  An     *)
(* entry that leads to a table has none of the flags of a page.            *)
PageFlags == {"D", "PS", "GL", "PAT", "KEY"}
PML4E(flags, addr) == [flags |-> flags, addr |-> addr]
PTE(flags, addr) == [flags |-> flags, addr |-> addr]
pdpte_to_pdir(flags, addr) == [flags |-> flags \ PageFlags, addr |-> addr]
pdpte_to_1gb_page(flags, addr) ==
    [flags |-> flags \cup {"PS"}, addr |-> addr - (addr % Entries ^ 2)]
pde_to_pt(flags, addr) == [flags |-> flags \ PageFlags, addr |-> addr]
pde_to_2mb_page(flags, addr) ==
    [flags |-> flags \cup {"PS"}, addr |-> addr - (addr % Entries)]

Make(config) ==
    CASE config.kind = "PML4E" -> PML4E(config.flags, config.addr)
      [] config.kind = "pdpte_to_pdir" -> pdpte_to_pdir(config.flags, config.addr)
      [] config.kind = "pdpte_to_1gb_page" -> pdpte_to_1gb_page(config.flags, config.addr)
      [] config.kind = "pde_to_pt" -> pde_to_pt(config.flags, config.addr)
      [] config.kind = "pde_to_2mb_page" -> pde_to_2mb_page(config.flags, config.addr)
      [] config.kind = "PTE" -> PTE(config.flags, config.addr)

is_present(e) == "PR" \in e.flags
is_large(level, e) == is_present(e) /\ level \in {2, 3} /\ "PS" \in e.flags
is_leaf(level, e) == level = 1 \/ is_large(level, e)
is_global(level, e) == is_present(e) /\ is_leaf(level, e) /\ "GL" \in e.flags

(* pml4_entry, pdpt_entry, pd_entry and pt_entry: where the entry of each  *)
(* level is.  A walker may only be used when every entry above is present  *)
(* and maps a table.                                                       *)
EntryAt(tab, slot) == tab[slot[1]][slot[2]]
Slot(tab, root, level, lin) ==
    LET below(slot, k) == <<EntryAt(tab, slot).addr, Offset(k, lin)>>
        pml4_entry == <<root, Offset(4, lin)>>
        pdpt_entry == below(pml4_entry, 3)
        pd_entry == below(pdpt_entry, 2)
    IN  CASE level = 4 -> pml4_entry
          [] level = 3 -> pdpt_entry
          [] level = 2 -> pd_entry
          [] level = 1 -> below(pd_entry, 1)
Maps(tab, root, level, lin) == EntryAt(tab, Slot(tab, root, level, lin))

(* The level at which a walk to lin ends: at the page that is mapped, or   *)
(* at the first entry that is not present.                                 *)
WalkEnd(tab, root, lin) ==
    LET ends(level) == LET e == Maps(tab, root, level, lin)
                       IN  ~is_present(e) \/ is_leaf(level, e)
    IN  IF ends(4) THEN 4 ELSE IF ends(3) THEN 3 ELSE IF ends(2) THEN 2 ELSE 1
LeafLevel(tab, root, lin) ==
    LET level == WalkEnd(tab, root, lin)
    IN  IF is_present(Maps(tab, root, level, lin)) THEN level ELSE 0

Walkable(level, lin) == WalkEnd(table, cr3, lin) <= level

(* What the processor caches for lin: the page of its size around lin, the *)
(* frame, the write permission collected on the way, and whether it is     *)
(* global.                                                                 *)
Base(level, lin) == lin - (lin % Entries ^ (level - 1))
Translation(tab, root, pg, lin) ==
    LET level == LeafLevel(tab, root, lin)
        leaf == Maps(tab, root, level, lin)
    IN  [base |-> Base(level, lin), level |-> level, frame |-> leaf.addr,
         rw |-> \A k \in level .. 4 : "RW" \in Maps(tab, root, k, lin).flags,
         global |-> pg /\ is_global(level, leaf)]
Covers(t, lin) == t.base = Base(t.level, lin)

(* Fault: the offset into a 1 GiB page keeps the bits of a 2 MiB page only. *)
ShortOffset(lin) ==
    LET entry(level) == Maps(table, cr3, level, lin) IN
    IF is_large(3, entry(3)) THEN entry(3).addr + (lin % Entries)
    ELSE IF is_large(2, entry(2)) THEN entry(2).addr + (lin % Entries)
    ELSE entry(1).addr

(* memory_manager::lin_to_phys: the software walk.                         *)
lin_to_phys(lin) ==
    LET entry(level) == Maps(table, cr3, level, lin)
        page(level) == entry(level).addr + (lin % Entries ^ (level - 1))
    IN  IF is_large(3, entry(3)) THEN page(3)
        ELSE IF is_large(2, entry(2)) THEN page(2)
        ELSE page(1)
-----------------------------------------------------------------------------
(* The three flushes.  Reloading CR3 keeps global translations; writing    *)
(* CR4 with PGE toggled drops everything; invlpg drops every translation   *)
(* of the page around one linear address.                                  *)
invalidate_tlb_non_global == /\ tlb' = {t \in tlb : t.global}
                             /\ UNCHANGED pge
invalidate_tlb_all == /\ tlb' = {}
                      /\ pge' = TRUE
invalidate_tlb(lin) == /\ tlb' = {t \in tlb : ~Covers(t, lin)}
                       /\ UNCHANGED pge

(* Which flush each invalidate_entry chooses, from the entry as it is      *)
(* after the change.  phy_to_lin is the identity.  A PTE that is not       *)
(* present has no address to give: the dereferenced optional may hold any  *)
(* page.                                                                   *)
invalidate_PML4E == invalidate_tlb_non_global
invalidate_PDPTE(e) ==
    IF is_global(3, e) THEN invalidate_tlb_all
    ELSE IF is_large(3, e) THEN invalidate_tlb(e.addr)
    ELSE invalidate_tlb_non_global

(* Fault: a PDE is taken to lead to a table, as if PS were not looked at. *)
InvalidateAsTable(e) == invalidate_tlb_non_global
invalidate_PDE(e) ==
    IF is_global(2, e) THEN invalidate_tlb_all
    ELSE IF is_large(2, e) THEN invalidate_tlb(e.addr)
    ELSE invalidate_tlb_non_global
invalidate_PTE(e) ==
    IF is_global(1, e) THEN invalidate_tlb_all
    ELSE \E lin \in IF is_present(e) THEN {e.addr} ELSE Touched : invalidate_tlb(lin)
invalidate_entry(level, e) ==
    CASE level = 4 -> invalidate_PML4E
      [] level = 3 -> invalidate_PDPTE(e)
      [] level = 2 -> invalidate_PDE(e)
      [] level = 1 -> invalidate_PTE(e)
-----------------------------------------------------------------------------
Init ==
    /\ table = [p \in DOMAIN InitTable |-> [i \in Index |-> Make(InitTable[p][i])]]
    /\ cr3 \in Roots
    /\ pge = FALSE
    /\ tlb = {} /\ owed = {}
    /\ call = Idle /\ guard = None /\ calls = 0

(* The processor walks to a page it has no translation of, at any time: it *)
(* sets the accessed bit of every entry on the way and caches the result.  *)
Fill(lin) ==
    LET leaf == LeafLevel(table, cr3, lin)
        used == {Slot(table, cr3, k, lin) : k \in leaf .. 4}
    IN  /\ leaf # 0
        /\ ~ \E t \in tlb : Covers(t, lin)
        /\ tlb' = tlb \cup {Translation(table, cr3, pge, lin)}
        /\ table' = [p \in DOMAIN table |-> [i \in Index |->
                        IF <<p, i>> \in used
                        THEN [table[p][i] EXCEPT !.flags = @ \cup {"A"}]
                        ELSE table[p][i]]]
        /\ UNCHANGED <<cr3, pge, call, guard, calls, owed>>

(* The changes the setters make: one flag cleared or set, or the address.  *)
(* Dirty, global, PAT and the protection key only exist where the entry    *)
(* maps a page; the address a directory entry takes depends on PS.         *)
FlagSetters(allowed) ==
    {[clr |-> {f}, set |-> IF on THEN {f} ELSE {}, addr |-> Keep] :
        f \in Masks \cap allowed, on \in BOOLEAN}
AddrSetters(addrs) == {[clr |-> {}, set |-> {}, addr |-> a] : a \in addrs}
CommonFlags == {"PR", "RW", "US", "PWT", "PCD", "A", "XD"}
DirectorySetters(level, e) ==
    IF is_large(level, e)
    THEN FlagSetters(Flags \ {"PS"})
         \cup AddrSetters({f \in Frames : f % Entries ^ (level - 1) = 0})
    ELSE FlagSetters(CommonFlags) \cup AddrSetters(Pointees[level])
PML4E_setters == FlagSetters(CommonFlags) \cup AddrSetters(Pointees[4])
PDPTE_setters(e) == DirectorySetters(3, e)
PDE_setters(e) == DirectorySetters(2, e)
PTE_setters == FlagSetters(Flags \ {"PS"}) \cup AddrSetters(Frames)
Setters(level, e) ==
    CASE level = 4 -> PML4E_setters
      [] level = 3 -> PDPTE_setters(e)
      [] level = 2 -> PDE_setters(e)
      [] level = 1 -> PTE_setters

Start(level, slot, change, inv) ==
    /\ call = Idle
    /\ call' = [pc |-> "cas", level |-> level, slot |-> slot, change |-> change,
                 inv |-> inv, expected |-> EntryAt(table, slot)]

Set(level, lin) ==
    LET slot == Slot(table, cr3, level, lin) IN
    /\ calls < MaxCalls
    /\ Walkable(level, lin)
    /\ \E change \in Setters(level, EntryAt(table, slot)), inv \in {"yes", "no"} :
            Start(level, slot, change, inv)
    /\ calls' = calls + 1
    /\ UNCHANGED <<table, cr3, pge, tlb, guard, owed>>

page_guard(level, lin) ==
    /\ call = Idle /\ guard = None
    /\ calls < MaxCalls /\ calls' = calls + 1
    /\ Walkable(level, lin)
    /\ LET slot == Slot(table, cr3, level, lin) IN
            guard' = [level |-> level, slot |-> slot, val |-> EntryAt(table, slot)]
    /\ UNCHANGED <<table, cr3, pge, tlb, call, owed>>

end_page_guard ==
    /\ guard # None
    /\ Start(guard.level, guard.slot,
             [clr |-> Flags, set |-> guard.val.flags, addr |-> guard.val.addr], "non_global")
    /\ guard' = None
    /\ UNCHANGED <<table, cr3, pge, tlb, calls, owed>>

(* The cached translations that go through the entry being changed. *)
Through(t) == /\ Walkable(call.level, t.base)
              /\ Slot(table, cr3, call.level, t.base) = call.slot

(* set_bits and exchange_raw_atomic: try to swap the desired value in; on  *)
(* failure read the entry again.                                           *)
Desired(e) == [flags |-> (e.flags \ call.change.clr) \cup call.change.set,
               addr |-> IF call.change.addr = Keep THEN e.addr ELSE call.change.addr]
Store(e) == table' = [table EXCEPT ![call.slot[1]][call.slot[2]] = e]

(* Fault: the loop is a plain read, modify and write. *)
BlindStore ==
    /\ call.pc = "cas"
    /\ Store(Desired(call.expected))
    /\ call' = [call EXCEPT !.pc = "flush"]
    /\ owed' = owed \cup {t \in tlb : Through(t)}
    /\ UNCHANGED <<cr3, pge, tlb, guard, calls>>

CompareExchange ==
    /\ call.pc = "cas"
    /\ IF EntryAt(table, call.slot) = call.expected
       THEN /\ Store(Desired(call.expected))
            /\ call' = [call EXCEPT !.pc = "flush"]
            /\ owed' = owed \cup {t \in tlb : Through(t)}
       ELSE /\ call' = [call EXCEPT !.expected = EntryAt(table, call.slot)]
            /\ UNCHANGED <<table, owed>>
    /\ UNCHANGED <<cr3, pge, tlb, guard, calls>>

(* What the flush of this call has to reach, from what the entry now maps: *)
(* everything if it maps a global page; its own page if it maps one at the *)
(* address it is mapped to; otherwise everything but global pages.  A PTE  *)
(* that is no longer present promises nothing.                             *)
MustReach(t, e) ==
    /\ Through(t)
    /\ CASE call.inv = "no" -> FALSE
         [] call.inv = "non_global" -> ~t.global
         [] call.inv = "yes" /\ is_global(call.level, e) -> TRUE
         [] call.inv = "yes" /\ is_present(e) /\ is_leaf(call.level, e) /\ ~is_global(call.level, e) ->
                t.level = call.level /\ t.base = e.addr
         [] OTHER -> call.level # 1 /\ ~t.global

(* Fault: the guard's destructor restores the entry and flushes nothing. *)
FlushForgotten ==
    LET e == EntryAt(table, call.slot) IN
    /\ call.pc = "flush"
    /\ IF call.inv = "yes" THEN invalidate_entry(call.level, e) ELSE UNCHANGED <<tlb, pge>>
    /\ call' = Idle
    /\ owed' = {t \in owed : ~MustReach(t, e)} \cap tlb'
    /\ UNCHANGED <<table, cr3, guard, calls>>

Flush ==
    LET e == EntryAt(table, call.slot) IN
    /\ call.pc = "flush"
    /\ CASE call.inv = "no" -> UNCHANGED <<tlb, pge>>
         [] call.inv = "non_global" -> invalidate_tlb_non_global
         [] call.inv = "yes" -> invalidate_entry(call.level, e)
    /\ call' = Idle
    /\ owed' = {t \in owed : ~MustReach(t, e)} \cap tlb'
    /\ UNCHANGED <<table, cr3, guard, calls>>

set_pml4(root) ==
    /\ call = Idle
    /\ cr3' = root
    /\ invalidate_tlb_non_global
    /\ owed' = tlb'
    /\ UNCHANGED <<table, call, guard, calls>>

Next ==
    \/ \E lin \in Touched : Fill(lin)
    \/ \E level \in 1 .. 4, lin \in Touched : Set(level, lin) \/ page_guard(level, lin)
    \/ end_page_guard
    \/ CompareExchange
    \/ Flush
    \/ \E root \in Roots : set_pml4(root)

-----------------------------------------------------------------------------
Fresh(t) ==
    /\ LeafLevel(table, cr3, t.base) = t.level
    /\ LET now == Translation(table, cr3, pge, t.base) IN
            now.frame = t.frame /\ now.rw = t.rw

(* A cached translation differs from what the tables say only if no flush  *)
(* had to reach it: the change asked for none, the entry maps its page     *)
(* elsewhere than at its own address, a global page stopped being one, or  *)
(* a PTE was made not present.  In particular a 2 MiB page that is mapped  *)
(* at its own address faults right after set_writeable(false, yes) or      *)
(* set_present(false, yes), and no longer does after the page_guard ends.  *)
(* And lin_to_phys, which walks the tables in software, gives the page the *)
(* processor would use, for every mapped address and page size.            *)
NoStaleTranslation ==
    /\ \A t \in tlb \ owed : Fresh(t)
    /\ \A lin \in Touched :
         LeafLevel(table, cr3, lin) # 0 =>
            LET t == Translation(table, cr3, pge, lin) IN
            lin_to_phys(lin) = t.frame + (lin - t.base)

(* An accessed bit the processor has set is only ever lost to a call that  *)
(* clears it: set_accessed(false) or the restoring page_guard.  The other  *)
(* setters change their own bits only, whatever the processor does between *)
(* their load and their store.                                             *)
KeepsAccessed ==
    \A p \in DOMAIN table : \A i \in Index :
        "A" \in table[p][i].flags /\ "A" \notin table'[p][i].flags
            => call.slot = <<p, i>> /\ "A" \in call.change.clr

=============================================================================
