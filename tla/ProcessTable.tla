---------------------------- MODULE ProcessTable ----------------------------
(* Process management, process/mod.rs: pids come from a counter that only     *)
(* grows, and a process lives in the slot its pid falls on.  Nothing in the   *)
(* program takes a process out of the table or changes the state of one that  *)
(* is in it (the table is private and set_state needs a reference into it),   *)
(* so slots are never given back.  The kernel runs on one CPU and never       *)
(* enables interrupts: every call is one step.                                *)
EXTENDS Integers

CONSTANTS Slots,    \* length of PROCESS_TABLE: 256
          MaxPid,   \* bound: the counter stops here, in the program at 2^64
          None

ASSUME ProcessTableAssumption ==
  /\ Slots \in Nat \ {0}
  /\ MaxPid \in Nat
  /\ None \notin Nat /\ None \notin [pid : Nat, state : {"Ready"}]

VARIABLES next_pid,    \* NEXT_PID
          table,       \* PROCESS_TABLE
          scheduled,   \* what schedule last returned
          returned     \* ghost: the pids create_process returned

processVars == <<next_pid, table, scheduled, returned>>

Pids     == 1 .. MaxPid
SlotOf(p) == p % Slots
Process  == [pid : Pids, state : {"Ready"}]

ProcessInit_FromZero ==              \* fault: pids start at zero
  /\ next_pid = 0
  /\ table = [i \in 0 .. Slots - 1 |-> None]
  /\ scheduled = None
  /\ returned = {}

ProcessInit ==
  /\ next_pid = 1
  /\ table = [i \in 0 .. Slots - 1 |-> None]
  /\ scheduled = None
  /\ returned = {}

allocate_pid == next_pid <= MaxPid /\ next_pid' = next_pid + 1

AllocatePid == allocate_pid /\ UNCHANGED <<table, scheduled, returned>>

CreateProcess_Overwrites ==          \* fault: the occupied slot is not checked
  /\ allocate_pid
  /\ table' = [table EXCEPT ![SlotOf(next_pid)] = [pid |-> next_pid, state |-> "Ready"]]
  /\ returned' = returned \cup {next_pid}
  /\ UNCHANGED scheduled

(* The pid is spent even when the slot turns out to be occupied.              *)
CreateProcess ==
  /\ allocate_pid
  /\ IF table[SlotOf(next_pid)] # None
       THEN UNCHANGED <<table, returned>>
       ELSE /\ table' = [table EXCEPT ![SlotOf(next_pid)] =
                           [pid |-> next_pid, state |-> "Ready"]]
            /\ returned' = returned \cup {next_pid}
  /\ UNCHANGED scheduled

ReadySlots_SkipsFirst ==             \* fault: the scan starts at slot 1
  {i \in 1 .. Slots - 1 : table[i] # None /\ table[i].state = "Ready"}
ReadySlots == {i \in 0 .. Slots - 1 : table[i] # None /\ table[i].state = "Ready"}

(* schedule: the first ready process of the table, or None.                   *)
FirstReady ==
  IF ReadySlots = {} THEN None
  ELSE table[CHOOSE i \in ReadySlots : \A j \in ReadySlots : i <= j].pid

Schedule ==
  /\ scheduled' = FirstReady
  /\ UNCHANGED <<next_pid, table, returned>>

ProcessNext == AllocatePid \/ CreateProcess \/ Schedule

---------------------------------------------------------------------------
ProcessTypeOK ==
  /\ next_pid \in 1 .. MaxPid + 1
  /\ table \in [0 .. Slots - 1 -> Process \cup {None}]
  /\ scheduled \in Pids \cup {None}
  /\ returned \subseteq Pids

(* A process that was created stays in the table, in the slot its pid falls   *)
(* on, however often the pids have wrapped around the table since: no later   *)
(* create_process replaces it, so no two processes share a slot.              *)
NoProcessLost ==
  \A p \in returned : table[SlotOf(p)] = [pid |-> p, state |-> "Ready"]

(* schedule, called at any time, finds a process whenever one was ever        *)
(* created, and never one that create_process has not reported.               *)
ScheduleFindsWork ==
  /\ IF returned = {} THEN FirstReady = None ELSE FirstReady \in returned
  /\ scheduled \in returned \cup {None}

(* "Simple round-robin scheduler" (process/mod.rs:127): a process that is     *)
(* ready is chosen again and again by a kernel that keeps calling schedule.   *)
FairScheduler == ProcessInit /\ [][ProcessNext]_processVars /\ WF_processVars(Schedule)
RoundRobin    == \A p \in Pids : p \in returned ~> scheduled = p
=============================================================================
