------------------------------- MODULE PciBus -------------------------------
(* The scan of the PCI bus, drivers/pci/mod.rs.  A function of a device is    *)
(* named by one number, as in the address pci_address makes: bus, device and  *)
(* function from the high bits down.  Reading the vendor id of a function     *)
(* nobody answers for gives all ones.  A device with one function may answer  *)
(* for other function numbers too, without their being there.                 *)
EXTENDS Integers, Sequences

CONSTANTS Devices,     \* device numbers on all buses together: 256 * 32
          Functions    \* function numbers of a device: 8

PciAssumption == Devices \in Nat /\ Functions \in Nat \ {0}

VARIABLES config,    \* device -> the functions it answers for, and bit 7 of
                     \* the header type of its function 0
          cursor,    \* the function the scan looks at next
          devices    \* the vector scan_bus builds

pciVars == <<config, cursor, devices>>

End         == Devices * Functions
DeviceOf(n) == n \div Functions
FunctionOf(n) == n % Functions

PciInit ==
  /\ config \in [0 .. Devices - 1 ->
                   [answers : SUBSET (0 .. Functions - 1), multi : BOOLEAN]]
  /\ cursor = 0
  /\ devices = <<>>

(* PciDevice::new returns a device.                                           *)
Answers(n) == FunctionOf(n) \in config[DeviceOf(n)].answers

NextDevice(n) == (DeviceOf(n) + 1) * Functions

After_IgnoresHeader(n) ==            \* fault: functions of every device are scanned
  IF FunctionOf(n) = 0 /\ ~Answers(n) THEN NextDevice(n) ELSE n + 1
(* The functions after the first are scanned only if the first one answers    *)
(* and says there are more.                                                   *)
After(n) ==
  IF FunctionOf(n) = 0 /\ ~(Answers(n) /\ config[DeviceOf(n)].multi)
    THEN NextDevice(n)
    ELSE n + 1

ProbeFound ==
  /\ cursor < End /\ Answers(cursor)
  /\ devices' = Append(devices, cursor)
  /\ cursor' = After(cursor)
  /\ UNCHANGED config

ProbeNothing ==
  /\ cursor < End /\ ~Answers(cursor)
  /\ cursor' = After(cursor)
  /\ UNCHANGED <<config, devices>>

Scanned == cursor = End /\ UNCHANGED pciVars

Probe == ProbeFound \/ ProbeNothing

PciSpec == PciInit /\ [][Probe \/ Scanned]_pciVars /\ WF_pciVars(Probe)

---------------------------------------------------------------------------
(* What is on the bus.                                                        *)
IsThere(n) == LET d == config[DeviceOf(n)] IN
  /\ 0 \in d.answers
  /\ FunctionOf(n) = 0 \/ (d.multi /\ Answers(n))

(* The scan reports what is on the bus and nothing else: no phantom functions *)
(* of a device that ignores the function number, no function lost behind one  *)
(* that is missing, none twice, and in the order of their addresses.          *)
ScanIsExact ==
  /\ {devices[i] : i \in 1 .. Len(devices)} = {n \in 0 .. cursor - 1 : IsThere(n)}
  /\ \A i \in 1 .. Len(devices) - 1 : devices[i] < devices[i + 1]
=============================================================================
