-------------------------------- MODULE Boot --------------------------------
(***************************************************************************)
(* entry64() of boot.cpp: from what the loader passes to main() with the   *)
(* consoles the command line asks for.  ACPI tables, the PCI bus and the   *)
(* Multiboot tags are sequences of what the code tells apart.  The BAR     *)
(* registers of a device have 8 bits (Word), of which the code masks the   *)
(* low 4; register r is [init, flags, lsb, top]: its value at power on,    *)
(* the bits that are fixed, and the writable bits, from lsb to below top.  *)
(***************************************************************************)
EXTENDS Integers, Sequences, SequencesExt

CONSTANTS Platforms,   \* what boots: see Platform in the MC module
          COM1         \* SERIAL_PORT_DEFAULT

VARIABLES
    sys,        \* the platform: constant after Init
    at,         \* the step of entry64(), or how it ended
    mcfg,       \* an MCFG table was found
    args,       \* the option parser's arguments
    bars,       \* device -> BAR registers
    dev,        \* the pci_bus iterator: index of a device
    sizing,     \* bar_size(): the saved address and the mask read back
    backends, port, region

zvars == <<sys, at, mcfg, args, bars, dev, sizing, backends, port, region>>

Word == 256
NoPort == 0
NoRegion == [base |-> 0, size |-> 0]

Firmware(s) == [d \in DOMAIN s.pci |-> [i \in DOMAIN s.pci[d].regs |-> s.pci[d].regs[i].init]]

ZInit ==
    /\ sys \in Platforms
    /\ at = "entry" /\ mcfg = FALSE /\ args = <<>>
    /\ bars = Firmware(sys)
    /\ dev = 1 /\ sizing = [orig |-> 0, mask |-> 0]
    /\ backends = <<>> /\ port = NoPort /\ region = NoRegion
-----------------------------------------------------------------------------
(* bar_t at register i, the next one is raw_hi.                            *)
Down(v, n) == v - (v % n)
is_64bit(d, i) == (bars[d][i] \div 2) % 4 = 2
is_pio(d, i) == bars[d][i] % 2 = 1
address(d, i) == Down(bars[d][i], 16) + (IF is_64bit(d, i) THEN bars[d][i + 1] * Word ELSE 0)

(* The device takes what it can of a value that is written.                *)
Taken(r, v) == r.flags + (IF r.lsb >= Word THEN 0 ELSE Down(v % r.top, r.lsb))

set_address(d, i, val) ==
    LET r == sys.pci[d].regs
        low == Taken(r[i], Down(val % Word, 16) + (bars[d][i] % 16))
        high == IF is_64bit(d, i) THEN Taken(r[i + 1], val \div Word) ELSE bars[d][i + 1]
    IN bars' = [bars EXCEPT ![d][i] = low, ![d][i + 1] = high]

(* (~v + 1) & v                                                            *)
LowestBit(v) == CHOOSE p \in {2^k : k \in 0 .. 16} : v % (2 * p) = p

(* pci_device and the bus iterator.                                        *)
is_valid(d) == sys.pci[d].kind # "absent"
is_xhci(d) == sys.pci[d].kind = "xhci"
is_pci_serial(d) == sys.pci[d].kind = "serial"
mcfg_end == Len(sys.pci) + 1

(* Fault: a device that is not there ends the walk.                        *)
NextDeviceToHole(d) == IF d + 1 # mcfg_end /\ is_valid(d + 1) THEN d + 1 ELSE mcfg_end

NextDevice(d) ==
    LET valid == {e \in d + 1 .. Len(sys.pci) : is_valid(e)}
    IN IF valid = {} THEN mcfg_end ELSE CHOOSE e \in valid : \A f \in valid : e <= f
-----------------------------------------------------------------------------
(* find_rsdp in the EBDA and below 1 MiB, find_mcfg from an RSDP.          *)
find_mcfg(given) ==
    LET rsdp == IF given THEN TRUE ELSE sys.rsdp \in {"ebda", "low megabyte"}
    IN rsdp /\ sys.signature /\ sys.rsdt # <<>> /\ \E i \in 1 .. Len(sys.rsdt) : sys.rsdt[i] = "MCFG"

(* console_debugcon::init: add_printf_backend takes the first free slot.   *)
MAX_BACKENDS == 3
add_printf_backend(b) ==
    /\ Len(backends) < MAX_BACKENDS
    /\ backends' = Append(backends, b)

(* debugcon, the DMA pool, and the loader's information.                   *)
entry64 ==
    /\ at = "entry"
    /\ IF sys.hv THEN add_printf_backend("debugcon") ELSE UNCHANGED backends
    /\ \/ /\ sys.magic = "XEN_PVH"
          /\ args' = sys.cmdline /\ mcfg' = find_mcfg(sys.rsdp = "passed") /\ at' = "parse"
       \/ /\ sys.magic = "MULTIBOOT1"
          /\ args' = sys.cmdline /\ mcfg' = find_mcfg(FALSE) /\ at' = "parse"
       \/ /\ sys.magic = "MULTIBOOT2"
          /\ args' = sys.cmdline /\ mcfg' = (sys.rsdp = "passed" /\ find_mcfg(TRUE)) /\ at' = "parse"
       \/ sys.magic = "unknown" /\ at' = "trap" /\ UNCHANGED <<args, mcfg>>
    /\ UNCHANGED <<sys, bars, dev, sizing, port, region>>

(* cmdline_parser keeps the tokens with dashes; option_value is the        *)
(* argument of the first option of that name.                              *)
has_option(name) == \E i \in 1 .. Len(args) : args[i].dashes /\ args[i].name = name
option_value(name) == args[SelectInSeq(args, LAMBDA a : a.dashes /\ a.name = name)].arg

(* get_effective_serial_port: a prefix counts if more than one digit       *)
(* follows; otherwise a decimal number ends at the 'x'.                    *)
ParsePort(arg) ==
    IF arg.hex THEN IF arg.digits > 1 THEN arg.value ELSE 0
    ELSE arg.value

initialize_console ==
    /\ at = "parse"
    /\ \/ /\ has_option("serial") /\ option_value("serial").digits > 0
          /\ port' = ParsePort(option_value("serial")) /\ at' = "serial" /\ UNCHANGED region
       \/ /\ IF has_option("serial") THEN option_value("serial").digits = 0 ELSE ~has_option("xhci")
          /\ at' = (IF mcfg THEN "find serial" ELSE "bda") /\ UNCHANGED <<port, region>>
       \/ /\ ~has_option("serial") /\ has_option("xhci")
          /\ at' = (IF mcfg THEN "find xhci" ELSE "panic") /\ UNCHANGED <<port, region>>
    /\ UNCHANGED <<sys, mcfg, args, bars, dev, sizing, backends>>

(* std::find_if over the bus.                                              *)
FindDevice ==
    /\ at \in {"find serial", "find xhci"}
    /\ \/ /\ dev = mcfg_end
          /\ at' = (IF at = "find serial" THEN "bda" ELSE "main") /\ UNCHANGED dev
       \/ /\ dev # mcfg_end
          /\ LET found == IF at = "find serial" THEN is_pci_serial(dev) ELSE is_xhci(dev) IN
             /\ dev' = IF found THEN dev ELSE NextDevice(dev)
             /\ at' = IF ~found THEN at ELSE IF at = "find serial" THEN "serial bar" ELSE "save"
    /\ UNCHANGED <<sys, mcfg, args, bars, sizing, backends, port, region>>

(* discover_serial_port on a card: its first I/O BAR, if any.              *)
quirks(base, d) == IF sys.pci[d].quirk THEN base + 192 ELSE base

SerialBar ==
    /\ at = "serial bar"
    /\ LET pio == {i \in DOMAIN bars[dev] : is_pio(dev, i)} IN
       IF pio = {} THEN at' = "bda" /\ UNCHANGED port
       ELSE /\ port' = quirks(address(dev, CHOOSE i \in pio : \A j \in pio : i <= j), dev)
            /\ at' = "serial"
    /\ UNCHANGED <<sys, mcfg, args, bars, dev, sizing, backends, region>>

find_serial_port_in_bda ==
    /\ at = "bda"
    /\ port' = IF \E i \in 1 .. Len(sys.bda) : sys.bda[i] # 0
               THEN sys.bda[SelectInSeq(sys.bda, LAMBDA p : p # 0)] ELSE COM1
    /\ at' = "serial"
    /\ UNCHANGED <<sys, mcfg, args, bars, dev, sizing, backends, region>>

serial_init ==
    /\ at = "serial"
    /\ add_printf_backend("serial")
    /\ at' = "main"
    /\ UNCHANGED <<sys, mcfg, args, bars, dev, sizing, port, region>>

(* bar_size() of BAR 0: save, write ones, read back, restore.              *)
BarSave ==
    /\ at = "save"
    /\ sizing' = [sizing EXCEPT !.orig = address(dev, 1)]
    /\ set_address(dev, 1, Word * Word - 1)
    /\ at' = "sized"
    /\ UNCHANGED <<sys, mcfg, args, dev, backends, port, region>>

(* Fault: the address is not restored.                                     *)
BarForget ==
    /\ at = "sized"
    /\ sizing' = [sizing EXCEPT !.mask = address(dev, 1)]
    /\ at' = "xhci"
    /\ UNCHANGED <<sys, mcfg, args, bars, dev, backends, port, region>>

BarRestore ==
    /\ at = "sized"
    /\ sizing' = [sizing EXCEPT !.mask = address(dev, 1)]
    /\ set_address(dev, 1, sizing.orig)
    /\ at' = "xhci"
    /\ UNCHANGED <<sys, mcfg, args, dev, backends, port, region>>

(* The console on the controller, if it has the debug capability.          *)
xhci_console_init ==
    /\ at = "xhci"
    /\ region' = [base |-> sizing.orig, size |-> LowestBit(sizing.mask)]
    /\ \/ sys.pci[dev].dbc /\ add_printf_backend("xhci") /\ at' = "main"
       \/ ~sys.pci[dev].dbc /\ at' = "panic" /\ UNCHANGED backends
    /\ UNCHANGED <<sys, mcfg, args, bars, dev, sizing, port>>

(* main() returns, shutdown() halts.                                       *)
shutdown == at = "main" /\ at' = "halted" /\ UNCHANGED <<sys, mcfg, args, bars, dev, sizing, backends, port, region>>

Ended == at \in {"trap", "panic", "halted"} /\ UNCHANGED zvars

ZNext ==
    \/ entry64 \/ initialize_console \/ FindDevice \/ SerialBar \/ find_serial_port_in_bda
    \/ serial_init \/ BarSave \/ BarRestore \/ xhci_console_init \/ shutdown \/ Ended
-----------------------------------------------------------------------------
(* What the platform really has.                                           *)
HasMcfg == sys.signature /\ "MCFG" \in ToSet(sys.rsdt)
          /\ CASE sys.magic = "MULTIBOOT1" -> sys.rsdp \in {"ebda", "low megabyte"}
               [] sys.magic = "MULTIBOOT2" -> sys.rsdp = "passed"
               [] OTHER -> sys.rsdp # "none"
Cards(kind) == IF HasMcfg THEN {d \in DOMAIN sys.pci : sys.pci[d].kind = kind} ELSE {}
FirstOf(set) == CHOOSE d \in set : \A e \in set : d <= e
Reg(d, i) == sys.pci[d].regs[i]
PioBars(d) == {i \in DOMAIN sys.pci[d].regs : Reg(d, i).flags = 1}
Decodes(d) == IF Reg(d, 1).lsb < Word THEN Reg(d, 1).lsb ELSE Word * Reg(d, 2).lsb
Base(d) == Reg(d, 1).init - Reg(d, 1).flags + (IF Reg(d, 1).flags = 4 THEN Word * Reg(d, 2).init ELSE 0)
FirmwarePort == IF \A i \in 1 .. Len(sys.bda) : sys.bda[i] = 0 THEN COM1
                ELSE sys.bda[FirstOf({i \in 1 .. Len(sys.bda) : sys.bda[i] # 0})]

(* A PCI card first, then the BIOS data area, then COM1; the port a card   *)
(* decodes has two flag bits below it.                                     *)
Discovered ==
    IF Cards("serial") = {} THEN FirmwarePort
    ELSE LET d == FirstOf(Cards("serial")) IN
         IF PioBars(d) = {} THEN FirmwarePort
         ELSE Down(Reg(d, FirstOf(PioBars(d))).init, 4) + (IF sys.pci[d].quirk THEN 192 ELSE 0)

(* "returns the actual I/O port" (console_serial.hpp:137): without a port  *)
(* on the command line, the port is the one discovery is to find.          *)
PortIsActual ==
    at = "main" /\ "serial" \in ToSet(backends) /\ (has_option("serial") => option_value("serial").digits = 0)
      => port = Discovered

(* README.md, "Supported Text Output Channels": when main() runs, debugcon *)
(* is active if virtualized, the xHCI console if it was asked for and its  *)
(* MMIO region is the one its controller decodes, and the serial console   *)
(* by default or when asked for, at the port of the first serial card that *)
(* has one, provided the card's ports start at a multiple of sixteen; no   *)
(* BAR has changed on the way.                                             *)
ConsoleAsAsked ==
    at = "main" =>
      LET d == FirstOf(Cards("xhci"))
          xhci == has_option("xhci") /\ ~has_option("serial")
      IN /\ ("debugcon" \in ToSet(backends)) = sys.hv
         /\ ("serial" \in ToSet(backends)) = ~xhci
         /\ xhci => ("xhci" \in ToSet(backends)) = (Cards("xhci") # {})
         /\ "xhci" \in ToSet(backends) => region = [base |-> Base(d), size |-> Decodes(d)]
         /\ bars = Firmware(sys)
         /\ (\A c \in Cards("serial") : \A i \in PioBars(c) : Reg(c, i).init % 16 = 1) => PortIsActual
=============================================================================
