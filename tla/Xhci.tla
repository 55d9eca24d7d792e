-------------------------------- MODULE Xhci --------------------------------
(* The USB 3 host controller driver, drivers/usb/xhci.rs, and the controller  *)
(* it drives.  The driver runs alone on its CPU, one register access per      *)
(* step; between any two of them a device may be plugged in or pulled out,    *)
(* and the controller goes on with what it was told.  The controller is       *)
(* external: only what the driver waits for, reads or changes is kept of it.  *)
(*                                                                            *)
(* The registers are read and written through plain pointers.  Where the      *)
(* compiler takes them for memory nobody else writes (opt-level 2), a loop    *)
(* that polls one tests a value read once, or the one the driver has just     *)
(* stored; where it does not (the dev profile), every turn reads it anew.     *)
EXTENDS PciBar, Sequences

CONSTANTS MaxPorts,   \* HCSPARAMS1
          MaxPolls,   \* turns of the loop that waits for a port: 1000
          MaxPlugs,   \* bound: how often a device is plugged in
          Bars,       \* what the firmware may have put into BAR0 and BAR1
          Rereads     \* polling loops read the register in every turn

ASSUME XhciAssumption ==
  /\ MaxPorts \in Nat /\ MaxPolls \in Nat /\ MaxPlugs \in Nat
  /\ Bars \subseteq BarPairs /\ Rereads \in BOOLEAN

Ports == 0 .. MaxPorts - 1

VARIABLES
  pc,          \* where the driver is
  bars, base,  \* the controller's BARs, and XhciController::base_addr
  port, polls, \* its loop counters
  devices,     \* XhciController::devices, each as the port it was found at
  portsc,      \* the value reset_port has read and is to write back
  run, halted, hcreset,   \* USBCMD.RS, USBSTS.HCH, USBCMD.HCRST
  connected,   \* ports with a device: PORTSC bit 0
  enabled,     \* ports ready for use: PORTSC bit 1
  resetting,   \* ports in reset: PORTSC bit 4
  changed,     \* ports whose connection has changed: PORTSC bit 17
  plugs,
  steady, seen, \* ghosts: ports connected throughout this enumeration, and
                \* ports connected at some time in it
  unread        \* ghost: ports whose connection has changed since the driver
                \* last read PORTSC or acknowledged an older change

where    == <<bars, base>>
driver   == <<pc, where, port, polls, devices, portsc>>
commands == <<run, halted, hcreset>>
portRegs == <<connected, enabled, resetting, changed, plugs>>
ghosts   == <<steady, seen, unread>>
vars     == <<driver, commands, portRegs, ghosts>>

(* The bits of PORTSC the model keeps.                                        *)
PortBits == {"connected", "enabled", "resetting", "changed"}
PortscOf(p) ==
  {b \in PortBits : \/ b = "connected" /\ p \in connected
                    \/ b = "enabled"   /\ p \in enabled
                    \/ b = "resetting" /\ p \in resetting
                    \/ b = "changed"   /\ p \in changed}

Init ==
  /\ pc = "absent" /\ bars \in Bars /\ base = Nothing
  /\ port = 0 /\ polls = 0 /\ devices = <<>> /\ portsc = {}
  /\ run \in BOOLEAN /\ halted = ~run /\ hcreset = FALSE
  /\ connected \in SUBSET Ports /\ enabled = {} /\ resetting = {}
  /\ changed = connected /\ plugs = 0
  /\ steady = {} /\ seen = {} /\ unread = {}

---------------------------------------------------------------------------
(* XhciController::new: BAR0 is the base address, as it is; 0 is an error.    *)
New ==
  /\ pc = "absent"
  /\ IF bars.bar0 = 0 THEN UNCHANGED <<pc, base>>
     ELSE pc' = "idle" /\ base' = [low |-> bars.bar0, high |-> 0]
  /\ UNCHANGED <<bars, port, polls, devices, portsc, commands, portRegs, ghosts>>

Goes(to) == pc' = to /\ UNCHANGED <<where, portsc>>

(* UsbController::init                                                        *)
StopController ==
  /\ pc = "idle" /\ Goes("await halt")
  /\ run' = FALSE
  /\ UNCHANGED <<port, polls, devices, halted, hcreset, portRegs, ghosts>>

AwaitHalt_Skipped ==                 \* fault: does not wait for the halt
  /\ pc = "await halt" /\ Goes("reset controller")
  /\ UNCHANGED <<port, polls, devices, commands, portRegs, ghosts>>

AwaitHalt ==
  /\ pc = "await halt" /\ (Rereads => halted)
  /\ Goes(IF halted THEN "reset controller" ELSE "spin")
  /\ UNCHANGED <<port, polls, devices, commands, portRegs, ghosts>>

ResetController ==
  /\ pc = "reset controller" /\ Goes("await reset")
  /\ hcreset' = TRUE
  /\ UNCHANGED <<port, polls, devices, run, halted, portRegs, ghosts>>

AwaitReset ==
  /\ pc = "await reset" /\ (Rereads => ~hcreset)
  /\ Goes(IF Rereads THEN "start" ELSE "spin")
  /\ UNCHANGED <<port, polls, devices, commands, portRegs, ghosts>>

StartController ==
  /\ pc = "start" /\ Goes("idle")
  /\ run' = TRUE
  /\ UNCHANGED <<port, polls, devices, halted, hcreset, portRegs, ghosts>>

---------------------------------------------------------------------------
(* enumerate_devices, with is_port_connected, probe_device and reset_port     *)
Enumerate ==
  /\ pc = "idle" /\ Goes("look")
  /\ port' = 0 /\ polls' = 0 /\ devices' = <<>>
  /\ steady' = connected /\ seen' = connected
  /\ UNCHANGED <<commands, portRegs, unread>>

NextPort == port' = port + 1 /\ Goes("look")
ReadsPort == unread' = unread \ {port} /\ UNCHANGED <<steady, seen>>

(* The connection is looked at twice, in enumerate_devices and in             *)
(* probe_device; a device pulled out in between is passed over.               *)
LookAtPort ==
  /\ pc = "look" /\ port < MaxPorts
  /\ IF port \in connected THEN Goes("probe") /\ UNCHANGED port ELSE NextPort
  /\ ReadsPort
  /\ UNCHANGED <<polls, devices, commands, portRegs>>

ProbePort ==
  /\ pc = "probe"
  /\ IF port \in connected THEN Goes("reset port") /\ UNCHANGED port ELSE NextPort
  /\ ReadsPort
  /\ UNCHANGED <<polls, devices, commands, portRegs>>

(* `portsc |= 1 << 4` reads the register and writes it back.                  *)
ReadPortsc ==
  /\ pc = "reset port" /\ pc' = "write back"
  /\ portsc' = PortscOf(port) \cup {"resetting"}
  /\ ReadsPort
  /\ UNCHANGED <<where, port, polls, devices, commands, portRegs>>

(* What writing v to the PORTSC of the port does: a set change bit is cleared *)
(* by writing one, an enabled port is disabled by writing one, and a reset    *)
(* disables it until it ends.                                                 *)
WritesPortsc(v) ==
  /\ enabled'   = IF v \cap {"enabled", "resetting"} # {} THEN enabled \ {port} ELSE enabled
  /\ changed'   = IF "changed" \in v THEN changed \ {port} ELSE changed
  /\ resetting' = IF "resetting" \in v /\ port \in connected
                    THEN resetting \cup {port} ELSE resetting
  /\ UNCHANGED <<connected, plugs>>

WriteBack_AllChanges ==              \* fault: acknowledges changes it has not read
  /\ pc = "write back" /\ pc' = "poll"
  /\ WritesPortsc(portsc \cup {"changed"}) /\ polls' = 0 /\ portsc' = {}
  /\ UNCHANGED <<where, port, devices, commands, ghosts>>

WriteBack_NoReset ==                 \* fault: the reset bit is lost on the way
  /\ pc = "write back" /\ pc' = "poll"
  /\ WritesPortsc(portsc \ {"resetting"}) /\ polls' = 0 /\ portsc' = {}
  /\ UNCHANGED <<where, port, devices, commands, ghosts>>

WriteBack ==
  /\ pc = "write back" /\ pc' = "poll"
  /\ WritesPortsc(portsc) /\ polls' = 0 /\ portsc' = {}
  /\ unread' = IF "changed" \in portsc THEN unread \ {port} ELSE unread
  /\ UNCHANGED <<where, port, devices, commands, steady, seen>>

PollAgain_Uncounted ==               \* fault: a wait without a limit
  /\ pc = "poll" /\ port \in resetting
  /\ UNCHANGED vars

PollAgain ==
  /\ pc = "poll" /\ Rereads /\ polls < MaxPolls /\ port \in resetting
  /\ polls' = polls + 1
  /\ ReadsPort
  /\ UNCHANGED <<pc, where, portsc, port, devices, commands, portRegs>>

(* The loop ends when the port is out of reset or when it has been polled     *)
(* often enough; both are Ok.  Without reading anew it does nothing at all.   *)
PollEnds ==
  /\ pc = "poll" /\ (~Rereads \/ polls = MaxPolls \/ port \notin resetting)
  /\ devices' = Append(devices, port)
  /\ NextPort
  /\ IF Rereads /\ polls < MaxPolls THEN ReadsPort ELSE UNCHANGED ghosts
  /\ UNCHANGED <<polls, commands, portRegs>>

EnumerationEnds ==
  /\ pc = "look" /\ port = MaxPorts
  /\ Goes("idle") /\ port' = 0
  /\ UNCHANGED <<polls, devices, commands, portRegs, ghosts>>

Driver ==
  \/ New
  \/ StopController \/ AwaitHalt \/ ResetController \/ AwaitReset \/ StartController
  \/ Enumerate \/ LookAtPort \/ ProbePort \/ ReadPortsc \/ WriteBack
  \/ PollAgain \/ PollEnds \/ EnumerationEnds

---------------------------------------------------------------------------
(* The hardware: a controller that is not told to run halts, a reset ends,    *)
(* a port reset ends, and devices come and go.                                *)
Halt ==
  /\ ~run /\ ~halted /\ halted' = TRUE
  /\ UNCHANGED <<driver, run, hcreset, portRegs, ghosts>>

GoOn ==
  /\ run /\ halted /\ ~hcreset /\ halted' = FALSE
  /\ UNCHANGED <<driver, run, hcreset, portRegs, ghosts>>

ControllerResetEnds ==
  /\ hcreset /\ hcreset' = FALSE
  /\ run' = FALSE /\ halted' = TRUE
  /\ resetting' = {} /\ enabled' = {} /\ changed' = connected /\ unread' = {}
  /\ UNCHANGED <<driver, connected, plugs, steady, seen>>

PortResetEnds ==
  \E p \in resetting :
    /\ resetting' = resetting \ {p} /\ enabled' = enabled \cup {p}
    /\ UNCHANGED <<driver, commands, connected, changed, plugs, ghosts>>

ConnectionChanges(p) == changed' = changed \cup {p} /\ unread' = unread \cup {p}

(* A port for fast devices is enabled without a reset, one for slow ones not. *)
PlugIn(p) ==
  /\ p \notin connected /\ plugs < MaxPlugs
  /\ connected' = connected \cup {p} /\ seen' = seen \cup {p} /\ plugs' = plugs + 1
  /\ enabled' \in {enabled, enabled \cup {p}}
  /\ ConnectionChanges(p)
  /\ UNCHANGED <<driver, commands, resetting, steady>>

PullOut(p) ==
  /\ p \in connected
  /\ connected' = connected \ {p} /\ steady' = steady \ {p}
  /\ resetting' = resetting \ {p} /\ enabled' = enabled \ {p}
  /\ ConnectionChanges(p)
  /\ UNCHANGED <<driver, commands, plugs, seen>>

Hardware == Halt \/ GoOn \/ ControllerResetEnds \/ PortResetEnds
Users    == \E p \in Ports : PlugIn(p) \/ PullOut(p)

Next == Driver \/ Hardware \/ Users

(* The driver has the CPU to itself; the controller does, some time, what it  *)
(* is told.  Nothing is assumed of the users, nor of how fast a port resets.  *)
Spec == /\ Init /\ [][Next]_vars
        /\ WF_vars(Driver) /\ WF_vars(Halt) /\ WF_vars(ControllerResetEnds)

---------------------------------------------------------------------------
Enumerating == {"look", "probe", "reset port", "write back", "poll"}
Busy == {"await halt", "reset controller", "await reset", "start", "spin"} \cup Enumerating

TypeOK ==
  /\ pc \in Busy \cup {"idle", "absent"}
  /\ port \in 0 .. MaxPorts /\ polls \in 0 .. MaxPolls
  /\ Len(devices) <= MaxPorts
  /\ \A i \in 1 .. Len(devices) : devices[i] \in Ports
  /\ connected \subseteq Ports /\ enabled \cup resetting \subseteq connected
  /\ changed \subseteq Ports /\ portsc \subseteq PortBits
  /\ steady \subseteq connected /\ seen \subseteq Ports

(* A controller is put into reset only when it has halted, and it is not      *)
(* started before it is out of reset again.                                   *)
ResetIsOrderly ==
  [][/\ (hcreset' /\ ~hcreset) => halted
     /\ (run' /\ ~run) => ~hcreset]_commands

Found == {devices[i] : i \in 1 .. Len(devices)}

(* Whatever is plugged in and pulled out meanwhile, an enumeration reports    *)
(* each port at most once and in order, only ports that had a device while it *)
(* ran, and every port it is past that had one all the time; and that port is *)
(* ready for use or still in the reset that makes it so.                      *)
EnumerationIsFair ==
  pc \in Enumerating =>
    /\ \A i \in 1 .. Len(devices) - 1 : devices[i] < devices[i + 1]
    /\ Found \subseteq seen
    /\ \A p \in steady : p < port => p \in Found /\ p \in enabled \cup resetting

(* Writing PORTSC back also clears the change bit, if it was read as set.  A  *)
(* connection that changes between the read and the write is then noted no    *)
(* more, but only if an older change was pending: a change of a port that had *)
(* none pending stays noted until the driver has read PORTSC, for whichever   *)
(* bit of it.                                                                 *)
NoChangeIsMissed == unread \subseteq changed

(* "Read BAR0 to get MMIO base address": the driver's base is where the       *)
(* controller decodes its registers.                                          *)
BaseIsTheWindow == base # Nothing => base = WindowOf(bars)

(* No call of the driver waits for ever, not for users either.                *)
EveryCallReturns == []<>(pc \in {"idle", "absent"})
=============================================================================
