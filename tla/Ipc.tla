-------------------------------- MODULE Ipc ---------------------------------
(* Inter-process communication, ipc/mod.rs, between the processes of          *)
(* ProcessTable.  IPC_QUEUES is an array indexed by the pid modulo its        *)
(* length and says nothing of whose queue a slot holds: that a message meets  *)
(* its addressee rests on the process table giving no slot to two pids, and   *)
(* on nobody using a pid that no process has: Pid::new is public, and         *)
(* allocate_pid hands out pids whose process was never created.  The mutex    *)
(* around the array makes every call one step.                                *)
EXTENDS ProcessTable, Sequences

CONSTANTS Data,         \* payloads
          Capacities    \* capacities processes open their queues with

ASSUME IpcAssumption == Capacities \subseteq Nat

VARIABLES queues,     \* IPC_QUEUES
          answer,     \* what the last send or receive returned, and to whom
          trespassed  \* ghost: slots whose queue a pid of no process has changed

ipcVars == <<queues, answer, trespassed>>
vars    == <<processVars, ipcVars>>

(* The pids a call can be made with; bound: in the program, every usize.      *)
AnyPid   == 0 .. MaxPid
Message  == [sender : AnyPid, data : Data]
Queue    == [messages : Seq(Message), capacity : Capacities]
Answer(p, verdict, m) == [to |-> p, verdict |-> verdict, message |-> m]

Init ==
  /\ ProcessInit
  /\ queues = [i \in 0 .. Slots - 1 |-> None]
  /\ answer = Answer(None, "None", None)
  /\ trespassed = {}

(* A process that opens its queue has a slot of its own again.                *)
InitProcessQueue(p, c) ==
  /\ queues' = [queues EXCEPT ![SlotOf(p)] = [messages |-> <<>>, capacity |-> c]]
  /\ trespassed' = IF p \in returned THEN trespassed \ {SlotOf(p)}
                                     ELSE trespassed \cup {SlotOf(p)}
  /\ UNCHANGED <<processVars, answer>>

Changes(p) ==
  trespassed' = IF p \in returned THEN trespassed ELSE trespassed \cup {SlotOf(p)}

HasRoom_OffByOne(q) ==               \* fault: one message too many
  q # None /\ Len(q.messages) <= q.capacity
HasRoom(q)    == q # None /\ Len(q.messages) < q.capacity
HasMessage(q) == q # None /\ q.messages # <<>>

Send(to, from, d) ==
  /\ IF HasRoom(queues[SlotOf(to)])
       THEN /\ queues' = [queues EXCEPT ![SlotOf(to)].messages =
                            Append(@, [sender |-> from, data |-> d])]
            /\ answer' = Answer(from, "Ok", None)
            /\ Changes(to)
       ELSE answer' = Answer(from, "Err", None) /\ UNCHANGED <<queues, trespassed>>
  /\ UNCHANGED processVars

Receive(p) ==
  /\ IF HasMessage(queues[SlotOf(p)])
       THEN /\ queues' = [queues EXCEPT ![SlotOf(p)].messages = Tail(@)]
            /\ answer' = Answer(p, "Some", Head(queues[SlotOf(p)].messages))
            /\ Changes(p)
       ELSE answer' = Answer(p, "None", None) /\ UNCHANGED <<queues, trespassed>>
  /\ UNCHANGED processVars

Next ==
  \/ ProcessNext /\ UNCHANGED ipcVars
  \/ \E p \in AnyPid :
       \/ \E c \in Capacities : InitProcessQueue(p, c)
       \/ \E to \in AnyPid, d \in Data : Send(to, p, d)
       \/ Receive(p)

Spec == Init /\ [][Next]_vars

---------------------------------------------------------------------------
TypeOK ==
  /\ ProcessTypeOK
  /\ queues \in [0 .. Slots - 1 -> Queue \cup {None}]
  /\ answer.to \in AnyPid \cup {None}
  /\ answer.verdict \in {"Ok", "Err", "Some", "None"}
  /\ answer.message \in Message \cup {None}
  /\ trespassed \subseteq 0 .. Slots - 1

(* No queue ever holds more than the capacity it was opened with, whoever     *)
(* sends to it (ipc/mod.rs:44).                                               *)
NoQueueOverflows ==
  \A i \in 0 .. Slots - 1 :
    queues[i] # None => Len(queues[i].messages) <= queues[i].capacity

(* Every process sees a mailbox of its own: what it receives was sent to it,  *)
(* in order, and no call for another process touches it, although the queues  *)
(* are found by the pid modulo the length of the table; unless a call with a  *)
(* pid that no process has changed the queue in its slot, and then until it   *)
(* opens the queue anew.  Such a call harms no process in any other slot.     *)
Box(p) == IF p \in returned THEN queues[SlotOf(p)] ELSE None
Mail == INSTANCE Mailbox WITH
          Owners   <- AnyPid,
          Room     <- [p \in AnyPid |-> SlotOf(p)],
          Messages <- Message,
          Closed   <- None,
          members  <- returned,
          spoilt   <- trespassed,
          box      <- [p \in AnyPid |-> IF SlotOf(p) \in trespassed THEN None ELSE Box(p)]
MailSpec == Mail!MailSpec
=============================================================================
