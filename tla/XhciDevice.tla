----------------------------- MODULE XhciDevice -----------------------------
(***************************************************************************)
(* xhci_device (xhci/device.hpp, device.cpp): the search of the extended   *)
(* capability list, the handover from the firmware and the power cycle of  *)
(* the ports, as xhci_debug_device::initialize() calls them when it is     *)
(* constructed and again when the connection was lost.  The firmware is    *)
(* external: its SMI handler runs whenever an enabled cause is active, so  *)
(* also between the read and the write of a read-modify-write.             *)
(***************************************************************************)
EXTENDS Integers, Sequences, FiniteSets

CONSTANTS
    Width,      \* values of the offsets and port numbers, 2^16 and 2^8 in the code
    Lists,      \* extended capability lists: sequences of [id, next]
    MaxPorts,   \* values of max_ports()
    MaxCauses   \* bound on SMI causes other than the change of owner

VARIABLES
    list, xecp,     \* the controller's capabilities and the offset of the first
    owned,          \* BIOS_OWNED, OS_OWNED
    control,        \* [enable, status]: SMI causes, the status is write-1-to-clear
    max_ports, power, cycles,   \* of each port: is it on, how often it went on
    at,             \* where initialize() is
    reinit,
    iter,           \* cap_off_ of the capability_iterator
    cap,            \* the offset find_cap() returned
    tmp,            \* what a read-modify-write read
    port,           \* port_ of the port_iterator
    causes,
    power_method    \* "POWERCYCLE" or "NONE"

xdvars == <<list, xecp, owned, control, max_ports, power, cycles, at, reinit, iter, cap, tmp, port, causes, power_method>>
controller == <<list, xecp, max_ports, power_method>>

LEGSUP_ID == 1
CAP_OFFSET_INVALID == Width - 1
SMI_ENABLE_MASK == {"SMI", "OWNER", "PCI_CMD", "BAR"}
SMI_ACK_MASK == {"OWNER", "PCI_CMD", "BAR"}
Causes == {"OWNER", "PCI_CMD", "BAR"}

(* Where the capabilities are, in dwords *)
OffsetOf(i) == LET f[j \in 1 .. i] == IF j = 1 THEN xecp ELSE f[j - 1] + list[j - 1].next IN f[i]
Capability(off) == list[CHOOSE i \in DOMAIN list : OffsetOf(i) = off]

(* The firmware owns the controller, nobody does, or an earlier kernel     *)
(* completed the handover.                                                 *)
XdInit ==
    /\ list \in Lists /\ xecp = IF list = <<>> THEN 0 ELSE 2
    /\ \/ owned \in {{"BIOS"}, {}} /\ \E e \in {{}, {"SMI"}, SMI_ENABLE_MASK} : control = [enable |-> e, status |-> {}]
       \/ owned = {"OS"} /\ control = [enable |-> {}, status |-> {}]
    /\ max_ports \in MaxPorts /\ power_method \in {"POWERCYCLE", "NONE"}
    /\ power = [p \in 1 .. max_ports |-> TRUE] /\ cycles = [p \in 1 .. max_ports |-> 0]
    /\ at = "find" /\ reinit = FALSE
    /\ iter = IF xecp = 0 THEN CAP_OFFSET_INVALID ELSE xecp
    /\ cap = CAP_OFFSET_INVALID /\ tmp = {} /\ port = 1 /\ causes = 0

-----------------------------------------------------------------------------
Increment(off, next) == IF next = 0 THEN CAP_OFFSET_INVALID ELSE (off + next) % Width

(* find_cap<legsup_capability>() *)
find_cap ==
    /\ at = "find"
    /\ IF iter = CAP_OFFSET_INVALID THEN at' = "handed" /\ UNCHANGED <<iter, cap>>
       ELSE IF Capability(iter).id = LEGSUP_ID THEN at' = "owned" /\ cap' = iter /\ UNCHANGED iter
       ELSE iter' = Increment(iter, Capability(iter).next) /\ UNCHANGED <<at, cap>>
    /\ UNCHANGED <<controller, owned, control, power, cycles, reinit, tmp, port, causes>>

(* os_owned(), once before and then until the handover is seen *)
os_owned ==
    /\ at \in {"owned", "wait"}
    /\ at' = IF "OS" \in owned THEN (IF at = "owned" THEN "handed" ELSE "disable")
             ELSE IF at = "owned" THEN "clear_bios" ELSE "wait"
    /\ UNCHANGED <<controller, owned, control, power, cycles, reinit, iter, cap, tmp, port, causes>>

Read(value, from, to) ==
    /\ at = from /\ at' = to /\ tmp' = value
    /\ UNCHANGED <<controller, owned, control, power, cycles, reinit, iter, cap, port, causes>>

(* The controller notes a change of OS_OWNED. *)
WriteOwned(value, from, to) ==
    /\ at = from /\ at' = to /\ owned' = value
    /\ control' = IF ("OS" \in value) # ("OS" \in owned) THEN [control EXCEPT !.status = @ \cup {"OWNER"}] ELSE control
    /\ UNCHANGED <<controller, power, cycles, reinit, iter, cap, tmp, port, causes>>

clear_bios == Read(owned, "clear_bios", "clear_bios_write") \/ WriteOwned(tmp \ {"BIOS"}, "clear_bios_write", "set_os")
set_os == Read(owned, "set_os", "set_os_write") \/ WriteOwned(tmp \cup {"OS"}, "set_os_write", "wait")

WriteControl(enable, ack, from, to) ==
    /\ at = from /\ at' = to
    /\ control' = [enable |-> enable, status |-> control.status \ ack]
    /\ UNCHANGED <<controller, owned, power, cycles, reinit, iter, cap, tmp, port, causes>>

ReadControl(from, to) == Read(control, from, to)

(* Fault: the causes are acknowledged, the SMIs stay enabled. *)
disable_and_ack_smis_ack ==
    \/ ReadControl("disable", "ack_write")
    \/ WriteControl(tmp.enable, SMI_ACK_MASK, "ack_write", "handed")

(* control &= ~SMI_ENABLE_MASK, which writes back the status as read, and  *)
(* control |= SMI_ACK_MASK                                                 *)
disable_and_ack_smis ==
    \/ ReadControl("disable", "disable_write")
    \/ WriteControl(tmp.enable \ SMI_ENABLE_MASK, tmp.status, "disable_write", "ack")
    \/ ReadControl("ack", "ack_write")
    \/ WriteControl(tmp.enable, tmp.status \cup SMI_ACK_MASK, "ack_write", "handed")

(* initialize() after the handover: only the first one cycles the ports,   *)
(* if the command line asks for it.                                        *)
Handed ==
    /\ at = "handed"
    /\ at' = IF reinit \/ power_method = "NONE" THEN "done" ELSE "ports"
    /\ port' = 1
    /\ UNCHANGED <<controller, owned, control, power, cycles, reinit, iter, cap, tmp, causes>>

(* Fault: the last port is taken for the end. *)
end_last == max_ports
end == (max_ports + 1) % Width

power_cycle_ports ==
    /\ at \in {"ports", "poweron"}
    /\ IF at = "ports" /\ port = end THEN at' = "done" /\ UNCHANGED <<power, cycles, port>>
       ELSE /\ power' = [power EXCEPT ![port] = at = "poweron"]
            /\ cycles' = [cycles EXCEPT ![port] = IF at = "poweron" THEN @ + 1 ELSE @]
            /\ port' = IF at = "poweron" THEN (port + 1) % Width ELSE port
            /\ at' = IF at = "poweron" THEN "ports" ELSE "poweron"
    /\ UNCHANGED <<controller, owned, control, reinit, iter, cap, tmp, causes>>

(* The connection was lost: poll() calls initialize(true). *)
Reconnect ==
    /\ at = "done"
    /\ at' = "find" /\ reinit' = TRUE /\ iter' = IF xecp = 0 THEN CAP_OFFSET_INVALID ELSE xecp
    /\ UNCHANGED <<controller, owned, control, power, cycles, cap, tmp, port, causes>>

(* The firmware's handler lets go of a controller that the OS asks for,    *)
(* and acknowledges.                                                       *)
Smi ==
    /\ control.status \cap control.enable # {}
    /\ owned' = IF "OS" \in owned THEN owned \ {"BIOS"} ELSE owned
    /\ control' = [control EXCEPT !.status = {}]
    /\ UNCHANGED <<controller, power, cycles, at, reinit, iter, cap, tmp, port, causes>>

Cause ==
    /\ causes < MaxCauses
    /\ \E c \in Causes \ {"OWNER"} : control' = [control EXCEPT !.status = @ \cup {c}]
    /\ causes' = causes + 1
    /\ UNCHANGED <<controller, owned, power, cycles, at, reinit, iter, cap, tmp, port>>

XdNext ==
    \/ find_cap \/ os_owned \/ clear_bios \/ set_os \/ disable_and_ack_smis \/ Handed \/ power_cycle_ports
    \/ Reconnect \/ Smi \/ Cause

-----------------------------------------------------------------------------
(* Once do_handover() has returned, a controller with the legacy          *)
(* capability anywhere in its list is the kernel's and causes no SMI any   *)
(* more, whatever the firmware's handler did in between.  When             *)
(* initialize() is done, power_cycle_ports() has left each port on and has *)
(* cycled it once, if asked to, for every number of ports up to the        *)
(* largest a port number holds; reconnecting does not cycle them again,    *)
(* and no register beyond those of the ports is written.                   *)
Initialized ==
    /\ at \in {"handed", "ports", "poweron", "done"} /\ (\E i \in DOMAIN list : list[i].id = LEGSUP_ID) =>
        owned = {"OS"} /\ control.enable = {} /\ Capability(cap).id = LEGSUP_ID
    /\ at = "done" => \A p \in 1 .. max_ports : power[p] /\ cycles[p] = IF power_method = "POWERCYCLE" THEN 1 ELSE 0
    /\ at = "poweron" => port \in 1 .. max_ports
=============================================================================
