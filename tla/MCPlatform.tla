---------------------------- MODULE MCPlatform ----------------------------
(***************************************************************************)
(* What runs before and below the test cases, side by side: the drivers of *)
(* MCMachine, the page tables, the nested hypervisor, the boot             *)
(* information, the choice of a console and the bring-up of the xHCI       *)
(* controller.  `part` says which one a behaviour is about, the others     *)
(* keep their initial state.                                               *)
(***************************************************************************)
EXTENDS MCMachine

CONSTANTS Entries, Roots, Tables, InitTable, Touched, Masks, Pointees, Frames, MaxCalls, Platforms

VARIABLES table, cr3, pge, tlb, pcall, guard, calls, owed,
          mode, npc, cr0, cr4, msr, regs, rsp, exits, vmcs, frame, expected,
          raw_data, image, current_tag, visited,
          sys, at, mcfg, args, bars, dev, sizing, backends, port, region,
          list, xecp, owned, control, max_ports, power, cycles, xat, reinit, iter, cap, tmp, xport, causes,
          power_method
-----------------------------------------------------------------------------
(* Page tables of two entries.  PML4 16 leads over PDPT 17 to PD 18, whose *)
(* first entry maps a "2 MiB" page and whose second one leads to PT 19;    *)
(* PML4 20 leads to PDPT 21, whose first entry maps a "1 GiB" page that    *)
(* may only be read.  Linear page p is mapped to physical page p.          *)
G == INSTANCE Paging WITH call <- pcall
RW == {"PR", "RW"}
Config(kind, flags, addr) == [kind |-> kind, flags |-> flags, addr |-> addr]
Empty == Config("PTE", {}, 0)
Pair(a, b) == [i \in {0, 1} |-> IF i = 0 THEN a ELSE b]
MCRoots == {16, 20}
MCTables == {17, 18, 19, 21}
MCInitTable ==
    [p \in MCRoots \cup MCTables |->
        CASE p = 16 -> Pair(Config("PML4E", RW, 17), Empty)
          [] p = 17 -> Pair(Config("pdpte_to_pdir", RW, 18), Empty)
          [] p = 18 -> Pair(Config("pde_to_2mb_page", RW, 0), Config("pde_to_pt", RW, 19))
          [] p = 19 -> Pair(Config("PTE", RW, 2), Config("PTE", RW, 3))
          [] p = 20 -> Pair(Config("PML4E", RW, 21), Empty)
          [] p = 21 -> Pair(Config("pdpte_to_1gb_page", {"PR"}, 0), Empty)]
MCTouched == {1, 2}
MCMasks == {"PR", "RW", "GL"}
MCPointees == [level \in 2 .. 4 |-> CASE level = 2 -> {19} [] level = 3 -> {18} [] level = 4 -> {17, 21}]
MCFrames == {0, 2}
-----------------------------------------------------------------------------
(* Buses of two to four functions, with a hole in front of the last one.   *)
(* A BAR is its register after the firmware, its flag bits, the lowest     *)
(* address bit that can be set and the first above the register.           *)
Lo(addr, flags, lsb) == [init |-> addr + flags, flags |-> flags, lsb |-> lsb, top |-> 256]
Hi(addr, lsb, top) == [init |-> addr, flags |-> 0, lsb |-> lsb, top |-> top]
NoBar == [init |-> 0, flags |-> 0, lsb |-> 256, top |-> 256]
Dev(kind, r) == [kind |-> kind, quirk |-> FALSE, dbc |-> TRUE, regs |-> r]
Xhci == {Dev("xhci", <<Lo(64, 0, 64), NoBar, NoBar>>),
         Dev("xhci", <<Lo(128, 4, 32), Hi(1, 1, 64), NoBar>>),
         Dev("xhci", <<Lo(0, 4, 256), Hi(6, 2, 256), NoBar>>)}
Serial(p, lsb) ==
    {[Dev("serial", <<Lo(p, 1, lsb), NoBar, NoBar>>) EXCEPT !.quirk = q] : q \in BOOLEAN}
    \cup {Dev("serial", <<Lo(32, 4, 16), Hi(0, 1, 256), Lo(p, 1, lsb)>>), Dev("serial", <<Lo(32, 0, 16), NoBar, NoBar>>)}
Absent == Dev("absent", <<NoBar, NoBar, NoBar>>)
NoDbc == [CHOOSE x \in Xhci : TRUE EXCEPT !.dbc = FALSE]
Other == Dev("other", <<Lo(16, 1, 16), NoBar, NoBar>>)
Buses(S) ==
    {<<Absent, Other>>, <<Other, Absent, NoDbc>>}
    \cup {<<Other, Absent, s, x>> : s \in S, x \in Xhci} \cup {<<x, s, Other>> : s \in S, x \in Xhci}

Arg(hex, digits, value) == [hex |-> hex, digits |-> digits, value |-> value]
NoArg == Arg(FALSE, 0, 0)
Opt(name, arg) == [dashes |-> TRUE, name |-> name, arg |-> arg]
Cmdlines ==
    {<<>>, <<Opt("serial", NoArg)>>, <<Opt("serial", Arg(TRUE, 3, 64)), Opt("xhci", NoArg)>>,
     <<Opt("xhci", NoArg), Opt("serial", Arg(FALSE, 2, 42)), Opt("serial", NoArg)>>,
     <<[Opt("serial", NoArg) EXCEPT !.dashes = FALSE], Opt("xhci", NoArg)>>}
Platform(S) ==
    [magic : {"XEN_PVH", "MULTIBOOT1", "MULTIBOOT2", "unknown"}, hv : BOOLEAN,
     rsdp : {"none", "passed", "ebda", "low megabyte"}, signature : {TRUE},
     rsdt : {<<>>, <<"FACP", "MCFG">>}, cmdline : Cmdlines, bda : {<<0, 0>>, <<0, 47>>}, pci : Buses(S)]
(* Serial cards with sixteen ports, and with eight.                        *)
SixteenPorts == Platform(Serial(144, 16))
EightPorts == Platform(Serial(152, 8))
-----------------------------------------------------------------------------
(* Capability lists without, with one and with both capabilities, in both  *)
(* orders, and with others in between.                                     *)
Cap(id, next) == [id |-> id, next |-> next]
MCLists ==
    {<<>>, <<Cap(1, 0)>>, <<Cap(10, 0)>>, <<Cap(2, 3), Cap(1, 5), Cap(10, 0)>>,
     <<Cap(10, 4), Cap(2, 1), Cap(1, 0)>>, <<Cap(1, 4), Cap(10, 0)>>}

N == INSTANCE Tinivisor WITH pc <- npc, handlers <- exits, want <- expected
B == INSTANCE Multiboot2 WITH Lengths <- {0, 3, 7, 8}, MaxTags <- 3
Z == INSTANCE Boot WITH COM1 <- 63
D == INSTANCE XhciDevice WITH Width <- 16, Lists <- MCLists, MaxPorts <- {0, 1, 2, 15}, MaxCauses <- 2,
                              at <- xat, port <- xport

paging == <<table, cr3, pge, tlb, pcall, guard, calls, owed>>
nested == <<mode, npc, cr0, cr4, msr, regs, rsp, exits, vmcs, frame, expected>>
boot_info == <<raw_data, image, current_tag, visited>>
boot == <<sys, at, mcfg, args, bars, dev, sizing, backends, port, region>>
xhci == <<list, xecp, owned, control, max_ports, power, cycles, xat, reinit, iter, cap, tmp, xport, causes, power_method>>

platform == <<paging, nested, boot_info, boot, xhci>>

FInit ==
    /\ part \in Drivers \cup {"paging", "tinivisor", "multiboot2", "boot", "xhci"}
    /\ part = "paging" \/ (part # "paging" /\ cr3 = 16)
    /\ part = "tinivisor" \/ (part # "tinivisor" /\ cr0 = {} /\ cr4 = {} /\ msr = {})
    /\ part = "xhci" \/ (part # "xhci" /\ list = <<>> /\ max_ports = 0 /\ owned = {"OS"} /\ power_method = "NONE")
    /\ part = "boot" \/ (part # "boot" /\ sys = CHOOSE s \in Platforms : TRUE)
    /\ DriversInit /\ G!Init /\ N!NInit /\ B!XInit /\ D!XdInit /\ Z!ZInit

FNext ==
    /\ UNCHANGED part
    /\ \/ DriversNext /\ UNCHANGED platform
       \/ part = "paging" /\ G!Next /\ UNCHANGED <<drivers, nested, boot_info, boot, xhci>>
       \/ part = "tinivisor" /\ N!NNext /\ UNCHANGED <<drivers, paging, boot_info, boot, xhci>>
       \/ part = "multiboot2" /\ B!XNext /\ UNCHANGED <<drivers, paging, nested, boot, xhci>>
       \/ part = "boot" /\ Z!ZNext /\ UNCHANGED <<drivers, paging, nested, boot_info, xhci>>
       \/ part = "xhci" /\ D!XdNext /\ UNCHANGED <<drivers, paging, nested, boot_info, boot>>

FSpec == FInit /\ [][FNext]_<<part, drivers, platform>>
-----------------------------------------------------------------------------
(* pml4.cpp, pdpt.cpp, pd.cpp, pt.cpp, mm.cpp: no translation outlives the *)
(* change of its entry.                                                    *)
NoStaleTranslation == part = "paging" => G!NoStaleTranslation
(* page_table_base.hpp: no setter loses a bit the processor set.           *)
AccessedKept == [][part = "paging" => G!KeepsAccessed]_paging
(* tinivisor.cpp, vmxexit.S: the program does not notice that it runs as a *)
(* guest.                                                                  *)
GuestUnaware == part = "tinivisor" => N!GuestUnaware
(* tinivisor.cpp: start(), exits and stop() succeed in any sequence.       *)
Restartable == part = "tinivisor" => N!Restartable
(* multiboot2_builder.hpp, multiboot2.hpp: what is built is read back.     *)
ReadsBack == part = "multiboot2" => B!ReadsBack
(* boot.cpp: main() finds the consoles that were asked for.                *)
ConsoleAsAsked == part = "boot" => Z!ConsoleAsAsked
(* console_serial.hpp:137 "returns the actual I/O port."                   *)
PortIsActual == Z!PortIsActual
(* xhci/device.cpp: the controller is handed over, its ports are cycled.   *)
Initialized == part = "xhci" => D!Initialized
=============================================================================
