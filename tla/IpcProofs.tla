------------------------------ MODULE IpcProofs -----------------------------
(* For every table length, every number of processes and every set of queue   *)
(* capacities: no process loses its slot, so no two processes share a queue,  *)
(* and inter-process communication is a mailbox per process, as long as no    *)
(* call uses a pid that no process has.                                       *)
EXTENDS Ipc, LeastNumber, TLAPS

(* A queue is opened by the process whose slot it has, or the slot has been   *)
(* trespassed on.                                                             *)
QueueHasOwner ==
  \A i \in 0 .. Slots - 1 :
    queues[i] # None => i \in trespassed \/ \E p \in returned : SlotOf(p) = i

(* The part of the type invariant the argument needs.                         *)
Shape ==
  /\ next_pid \in 1 .. MaxPid + 1
  /\ table \in [0 .. Slots - 1 -> Process \cup {None}]
  /\ returned \subseteq Pids
  /\ queues \in [0 .. Slots - 1 -> Queue \cup {None}]
  /\ trespassed \subseteq 0 .. Slots - 1

IInv == Shape /\ NoProcessLost /\ QueueHasOwner /\ NoQueueOverflows

LEMMA SlotRange ==
  ASSUME NEW p \in Nat
  PROVE  SlotOf(p) \in 0 .. Slots - 1
  BY ProcessTableAssumption DEF SlotOf

LEMMA PidsAreNats ==
  Pids \subseteq AnyPid /\ AnyPid \subseteq Nat /\ 1 .. MaxPid + 1 \subseteq Nat
  BY ProcessTableAssumption DEF Pids, AnyPid

(* Two processes never share a slot.                                          *)
LEMMA SlotsAreDistinct ==
  ASSUME NoProcessLost, NEW p \in returned, NEW q \in returned, SlotOf(p) = SlotOf(q)
  PROVE  p = q
<1>1. [pid |-> p, state |-> "Ready"] = [pid |-> q, state |-> "Ready"]
  BY DEF NoProcessLost
<1>2. [pid |-> p, state |-> "Ready"].pid = p /\ [pid |-> q, state |-> "Ready"].pid = q
  OBVIOUS
<1> QED
  BY <1>1, <1>2

LEMMA FreshQueue ==
  ASSUME NEW c \in Capacities
  PROVE  /\ [messages |-> <<>>, capacity |-> c] \in Queue
         /\ Len(<<>>) <= c
<1>1. c \in Nat
  BY IpcAssumption
<1>2. <<>> \in Seq(Message) /\ Len(<<>>) = 0
  OBVIOUS
<1> QED
  BY <1>1, <1>2 DEF Queue

LEMMA Growing ==
  ASSUME NEW q \in Queue \cup {None}, HasRoom(q), NEW m \in Message
  PROVE  /\ [q EXCEPT !.messages = Append(@, m)] \in Queue
         /\ [q EXCEPT !.messages = Append(@, m)].capacity = q.capacity
         /\ Len([q EXCEPT !.messages = Append(@, m)].messages) <= q.capacity
<1>1. q \in Queue /\ q.messages \in Seq(Message) /\ q.capacity \in Nat
  BY IpcAssumption DEF HasRoom, Queue
<1>2. Append(q.messages, m) \in Seq(Message) /\ Len(Append(q.messages, m)) = Len(q.messages) + 1
  BY <1>1
<1>3. Len(q.messages) \in Nat /\ Len(q.messages) < q.capacity
  BY <1>1 DEF HasRoom
<1>4. [q EXCEPT !.messages = Append(@, m)]
        = [messages |-> Append(q.messages, m), capacity |-> q.capacity]
  BY <1>1 DEF Queue
<1> QED
  BY <1>1, <1>2, <1>3, <1>4 DEF Queue

LEMMA Shrinking ==
  ASSUME NEW q \in Queue \cup {None}, HasMessage(q),
         Len(q.messages) <= q.capacity
  PROVE  /\ [q EXCEPT !.messages = Tail(@)] \in Queue
         /\ [q EXCEPT !.messages = Tail(@)].capacity = q.capacity
         /\ Len([q EXCEPT !.messages = Tail(@)].messages) <= q.capacity
<1>1. q \in Queue /\ q.messages \in Seq(Message) /\ q.capacity \in Nat
      /\ q.messages # <<>>
  BY IpcAssumption DEF HasMessage, Queue
<1>2. Tail(q.messages) \in Seq(Message) /\ Len(Tail(q.messages)) = Len(q.messages) - 1
  BY <1>1
<1>3. Len(q.messages) \in Nat
  BY <1>1
<1>4. [q EXCEPT !.messages = Tail(@)]
        = [messages |-> Tail(q.messages), capacity |-> q.capacity]
  BY <1>1 DEF Queue
<1> QED
  BY <1>1, <1>2, <1>3, <1>4 DEF Queue

(* What every step on the queues has in common: one slot, whose process the   *)
(* call is for or which the call trespasses on, gets a queue within its       *)
(* capacity.                                                                  *)
LEMMA QueueStep ==
  ASSUME IInv, UNCHANGED processVars, NEW p \in AnyPid, NEW q \in Queue,
         Len(q.messages) <= q.capacity,
         queues' = [queues EXCEPT ![SlotOf(p)] = q],
         trespassed' \subseteq trespassed \cup {SlotOf(p)},
         trespassed \subseteq trespassed' \cup {SlotOf(p)},
         p \in returned \/ SlotOf(p) \in trespassed'
  PROVE  IInv'
<1>1. SlotOf(p) \in 0 .. Slots - 1
  BY SlotRange, PidsAreNats
<1>2. Shape' /\ NoProcessLost'
  BY <1>1 DEF IInv, Shape, NoProcessLost, processVars
<1>3. QueueHasOwner'
  BY <1>1 DEF IInv, Shape, QueueHasOwner, processVars
<1>4. NoQueueOverflows'
  BY <1>1 DEF IInv, Shape, NoQueueOverflows
<1> QED
  BY <1>2, <1>3, <1>4 DEF IInv

LEMMA CreateStep ==
  ASSUME IInv, CreateProcess, UNCHANGED ipcVars
  PROVE  IInv'
<1> DEFINE s == SlotOf(next_pid)
           new == [pid |-> next_pid, state |-> "Ready"]
<1>1. next_pid \in Pids /\ s \in 0 .. Slots - 1 /\ next_pid' \in 1 .. MaxPid + 1
  BY ProcessTableAssumption, SlotRange, PidsAreNats
     DEF CreateProcess, allocate_pid, IInv, Shape, Pids
<1>2. CASE table[s] # None
  BY <1>1, <1>2
     DEF CreateProcess, ipcVars, IInv, Shape, NoProcessLost, QueueHasOwner, NoQueueOverflows
<1>3. CASE table[s] = None
  <2>1. /\ table' = [table EXCEPT ![s] = new]
        /\ returned' = returned \cup {next_pid}
        /\ queues' = queues /\ trespassed' = trespassed
    BY <1>3 DEF CreateProcess, ipcVars
  <2>2. new \in Process
    BY <1>1 DEF Process
  <2>3. Shape'
    BY <1>1, <2>1, <2>2 DEF IInv, Shape
  <2>4. ASSUME NEW p \in returned'
        PROVE  table'[SlotOf(p)] = [pid |-> p, state |-> "Ready"]
    <3>1. CASE p = next_pid
      BY <1>1, <2>1, <3>1 DEF IInv, Shape
    <3>2. CASE p \in returned
      <4>1. table[SlotOf(p)] = [pid |-> p, state |-> "Ready"] /\ p \in Pids
        BY <3>2 DEF IInv, NoProcessLost, Shape
      <4>2. [pid |-> p, state |-> "Ready"] \in [pid : Nat, state : {"Ready"}]
        BY <4>1, PidsAreNats
      <4>3. SlotOf(p) # s
        BY <1>3, <4>1, <4>2, ProcessTableAssumption
      <4> QED
        BY <2>1, <4>1, <4>3 DEF IInv, Shape
    <3> QED
      BY <2>1, <3>1, <3>2
  <2>5. QueueHasOwner' /\ NoQueueOverflows'
    BY <2>1 DEF IInv, QueueHasOwner, NoQueueOverflows
  <2> QED
    BY <2>3, <2>4, <2>5 DEF IInv, NoProcessLost
<1> QED
  BY <1>2, <1>3

LEMMA SendStep ==
  ASSUME IInv, NEW to \in AnyPid, NEW from \in AnyPid, NEW d \in Data, Send(to, from, d)
  PROVE  IInv'
<1> DEFINE q == queues[SlotOf(to)]
           m == [sender |-> from, data |-> d]
<1>1. /\ SlotOf(to) \in 0 .. Slots - 1
      /\ q \in Queue \cup {None} /\ m \in Message
  BY SlotRange, PidsAreNats DEF IInv, Shape, Message
<1>2. CASE HasRoom(q)
  <2>1. /\ queues' = [queues EXCEPT ![SlotOf(to)] = [q EXCEPT !.messages = Append(@, m)]]
        /\ UNCHANGED processVars /\ Changes(to)
    BY <1>2 DEF Send
  <2> QED
    BY <1>1, <1>2, <2>1, Growing, QueueStep DEF Changes
<1>3. CASE ~HasRoom(q)
  BY <1>3 DEF Send, processVars, IInv, Shape, NoProcessLost, QueueHasOwner, NoQueueOverflows
<1> QED
  BY <1>2, <1>3

LEMMA ReceiveStep ==
  ASSUME IInv, NEW p \in AnyPid, Receive(p)
  PROVE  IInv'
<1> DEFINE q == queues[SlotOf(p)]
<1>1. /\ SlotOf(p) \in 0 .. Slots - 1
      /\ q \in Queue \cup {None}
  BY SlotRange, PidsAreNats DEF IInv, Shape
<1>2. CASE HasMessage(q)
  <2>1. /\ queues' = [queues EXCEPT ![SlotOf(p)] = [q EXCEPT !.messages = Tail(@)]]
        /\ UNCHANGED processVars /\ Changes(p)
    BY <1>2 DEF Receive
  <2>2. Len(q.messages) <= q.capacity
    BY <1>1, <1>2 DEF IInv, NoQueueOverflows, HasMessage
  <2> QED
    BY <1>1, <1>2, <2>1, <2>2, Shrinking, QueueStep DEF Changes
<1>3. CASE ~HasMessage(q)
  BY <1>3 DEF Receive, processVars, IInv, Shape, NoProcessLost, QueueHasOwner, NoQueueOverflows
<1> QED
  BY <1>2, <1>3

LEMMA InitQueueStep ==
  ASSUME IInv, NEW p \in AnyPid, NEW c \in Capacities, InitProcessQueue(p, c)
  PROVE  IInv'
  BY FreshQueue, QueueStep DEF InitProcessQueue

(* IInv is an invariant.                                                      *)
THEOREM IpcInvariant == Spec => []IInv
<1>1. Init => IInv
  BY ProcessTableAssumption
     DEF Init, ProcessInit, IInv, Shape, NoProcessLost, QueueHasOwner, NoQueueOverflows
<1>2. IInv /\ [Next]_vars => IInv'
  <2> SUFFICES ASSUME IInv, [Next]_vars
               PROVE  IInv'
    OBVIOUS
  <2>1. CASE AllocatePid /\ UNCHANGED ipcVars
    <3>1. next_pid' \in 1 .. MaxPid + 1
      BY <2>1, ProcessTableAssumption DEF AllocatePid, allocate_pid, IInv, Shape
    <3> QED
      BY <2>1, <3>1 DEF AllocatePid, ipcVars, IInv, Shape, NoProcessLost,
                        QueueHasOwner, NoQueueOverflows
  <2>2. CASE CreateProcess /\ UNCHANGED ipcVars
    BY <2>2, CreateStep
  <2>3. CASE Schedule /\ UNCHANGED ipcVars
    BY <2>3 DEF Schedule, ipcVars, IInv, Shape, NoProcessLost, QueueHasOwner, NoQueueOverflows
  <2>4. CASE \E p \in AnyPid : \E c \in Capacities : InitProcessQueue(p, c)
    BY <2>4, InitQueueStep
  <2>5. CASE \E p \in AnyPid : \E to \in AnyPid, d \in Data : Send(to, p, d)
    BY <2>5, SendStep
  <2>6. CASE \E p \in AnyPid : Receive(p)
    BY <2>6, ReceiveStep
  <2>7. CASE UNCHANGED vars
    BY <2>7 DEF vars, processVars, ipcVars, IInv, Shape, NoProcessLost,
                QueueHasOwner, NoQueueOverflows
  <2> QED
    BY <2>1, <2>2, <2>3, <2>4, <2>5, <2>6, <2>7 DEF Next, ProcessNext
<1> QED
  BY <1>1, <1>2, PTL DEF Spec

(* A process that was created keeps its slot for ever.                        *)
THEOREM ProcessesKeepTheirSlots == Spec => []NoProcessLost
<1>1. IInv => NoProcessLost
  BY DEF IInv
<1> QED
  BY <1>1, IpcInvariant, PTL

(* No queue grows beyond its capacity.                                        *)
THEOREM QueuesStayBounded == Spec => []NoQueueOverflows
<1>1. IInv => NoQueueOverflows
  BY DEF IInv
<1> QED
  BY <1>1, IpcInvariant, PTL

---------------------------------------------------------------------------
(* What the search of schedule rests on: a slot in use holds a process that   *)
(* create_process has reported, ready to run.                                 *)
SlotsHoldReported ==
  \A i \in 0 .. Slots - 1 :
    table[i] # None => table[i].pid \in returned /\ table[i].state = "Ready"

SchedInv == SlotsHoldReported /\ scheduled \in returned \cup {None}

(* A process is a slot in use.                                                *)
LEMMA ReportedIsReady ==
  ASSUME IInv, NEW p \in returned
  PROVE  SlotOf(p) \in ReadySlots
<1>1. SlotOf(p) \in 0 .. Slots - 1 /\ p \in Nat
  BY SlotRange, PidsAreNats DEF IInv, Shape
<1>2. table[SlotOf(p)] = [pid |-> p, state |-> "Ready"]
  BY DEF IInv, NoProcessLost
<1>3. [pid |-> p, state |-> "Ready"] \in [pid : Nat, state : {"Ready"}]
  BY <1>1
<1>4. table[SlotOf(p)] # None
  BY <1>2, <1>3, ProcessTableAssumption
<1> QED
  BY <1>1, <1>2, <1>4 DEF ReadySlots

(* The search finds a reported process whenever there is one.                 *)
LEMMA FirstReadyFact ==
  ASSUME IInv, SlotsHoldReported
  PROVE  IF returned = {} THEN FirstReady = None ELSE FirstReady \in returned
<1>1. \A i \in ReadySlots : table[i].pid \in returned
  BY DEF ReadySlots, SlotsHoldReported
<1>2. CASE returned = {}
  BY <1>1, <1>2 DEF FirstReady
<1>3. CASE returned # {}
  <2>1. ReadySlots \in SUBSET Nat /\ ReadySlots # {}
    BY <1>3, ReportedIsReady, ProcessTableAssumption DEF ReadySlots
  <2>2. PICK i \in ReadySlots : \A j \in ReadySlots : i <= j
    BY <2>1, LeastNat
  <2> QED
    BY <1>1, <1>3, <2>1, <2>2 DEF FirstReady
<1> QED
  BY <1>2, <1>3

(* Creating a process fills one slot with the process it reports.             *)
LEMMA CreateKeepsReports ==
  ASSUME IInv, SlotsHoldReported, CreateProcess
  PROVE  SlotsHoldReported'
<1> DEFINE s == SlotOf(next_pid)
<1>1. CASE table[s] # None
  BY <1>1 DEF CreateProcess, SlotsHoldReported
<1>2. CASE table[s] = None
  <2>1. /\ table' = [table EXCEPT ![s] = [pid |-> next_pid, state |-> "Ready"]]
        /\ returned' = returned \cup {next_pid}
    BY <1>2 DEF CreateProcess
  <2> QED
    BY <2>1 DEF SlotsHoldReported, IInv, Shape
<1> QED
  BY <1>1, <1>2

(* schedule finds a process whenever one was ever created, and only such a    *)
(* process: the search by slot never comes upon a slot nobody was told of.    *)
THEOREM SchedulingFindsWork == Spec => []ScheduleFindsWork
<1>1. Init => SchedInv
  BY ProcessTableAssumption DEF Init, ProcessInit, SchedInv, SlotsHoldReported
<1>2. IInv /\ SchedInv /\ [Next]_vars => SchedInv'
  <2> SUFFICES ASSUME IInv, SchedInv, [Next]_vars
               PROVE  SchedInv'
    OBVIOUS
  <2>1. CASE CreateProcess
    <3>1. SlotsHoldReported'
      BY <2>1, CreateKeepsReports DEF SchedInv
    <3>2. scheduled' = scheduled /\ returned \subseteq returned'
      BY <2>1 DEF CreateProcess
    <3> QED
      BY <3>1, <3>2 DEF SchedInv
  <2>2. CASE Schedule
    <3>1. scheduled' \in returned \cup {None}
      BY <2>2, FirstReadyFact DEF Schedule, SchedInv
    <3> QED
      BY <2>2, <3>1 DEF Schedule, SchedInv, SlotsHoldReported
  <2>3. CASE UNCHANGED <<table, scheduled, returned>>
    BY <2>3 DEF SchedInv, SlotsHoldReported
  <2>4. CreateProcess \/ Schedule \/ UNCHANGED <<table, scheduled, returned>>
    BY DEF Next, ProcessNext, AllocatePid, InitProcessQueue, Send, Receive, vars, processVars
  <2> QED
    BY <2>1, <2>2, <2>3, <2>4
<1>3. IInv /\ SchedInv => ScheduleFindsWork
  BY FirstReadyFact DEF SchedInv, ScheduleFindsWork
<1> QED
  BY <1>1, <1>2, <1>3, IpcInvariant, PTL DEF Spec

(* What the last call returned is an answer.                                  *)
AnswerTyped ==
  answer \in [to : AnyPid \cup {None}, verdict : {"Ok", "Err", "Some", "None"},
              message : Message \cup {None}]

LEMMA AnswerFact ==
  ASSUME NEW p \in AnyPid \cup {None}, NEW v \in {"Ok", "Err", "Some", "None"},
         NEW m \in Message \cup {None}, answer' = Answer(p, v, m)
  PROVE  AnswerTyped'
  BY DEF AnswerTyped, Answer

(* Every pid, slot, queue and answer stays in its type.                       *)
THEOREM TypesAreKept == Spec => []TypeOK
<1>1. Init => AnswerTyped
  BY DEF Init, AnswerTyped, Answer
<1>2. IInv /\ AnswerTyped /\ [Next]_vars => AnswerTyped'
  <2> SUFFICES ASSUME IInv, AnswerTyped, [Next]_vars
               PROVE  AnswerTyped'
    OBVIOUS
  <2>1. CASE UNCHANGED answer
    BY <2>1 DEF AnswerTyped
  <2>2. CASE \E p \in AnyPid : \E to \in AnyPid, d \in Data : Send(to, p, d)
    <3>1. PICK p \in AnyPid, to \in AnyPid, d \in Data : Send(to, p, d)
      BY <2>2
    <3>2. CASE HasRoom(queues[SlotOf(to)])
      BY <3>1, <3>2, AnswerFact DEF Send
    <3>3. CASE ~ HasRoom(queues[SlotOf(to)])
      BY <3>1, <3>3, AnswerFact DEF Send
    <3> QED
      BY <3>2, <3>3
  <2>3. CASE \E p \in AnyPid : Receive(p)
    <3>1. PICK p \in AnyPid : Receive(p)
      BY <2>3
    <3>3. CASE HasMessage(queues[SlotOf(p)])
      <4>1. SlotOf(p) \in 0 .. Slots - 1
        BY SlotRange, PidsAreNats
      <4>2. queues[SlotOf(p)] \in Queue /\ queues[SlotOf(p)].messages # <<>>
        BY <3>3, <4>1 DEF HasMessage, IInv, Shape
      <4>3. Head(queues[SlotOf(p)].messages) \in Message
        BY <4>2 DEF Queue
      <4> QED
        BY <3>1, <3>3, <4>3, AnswerFact DEF Receive
    <3>4. CASE ~ HasMessage(queues[SlotOf(p)])
      BY <3>1, <3>4, AnswerFact DEF Receive
    <3> QED
      BY <3>3, <3>4
  <2> QED
    BY <2>1, <2>2, <2>3 DEF Next, InitProcessQueue, vars, ipcVars
<1>3. IInv /\ AnswerTyped /\ ScheduleFindsWork => TypeOK
  BY DEF TypeOK, ProcessTypeOK, IInv, Shape, AnswerTyped, ScheduleFindsWork
<1> QED
  BY <1>1, <1>2, <1>3, IpcInvariant, SchedulingFindsWork, PTL DEF Spec

---------------------------------------------------------------------------
(* The mailboxes as the abstract specification sees them.                     *)
BoxNow == [p \in AnyPid |-> IF SlotOf(p) \in trespassed THEN None ELSE Box(p)]
Rooms  == [p \in AnyPid |-> SlotOf(p)]

LEMMA BoxFact ==
  ASSUME NEW p \in AnyPid
  PROVE  /\ Rooms[p] = SlotOf(p)
         /\ BoxNow[p] = IF SlotOf(p) \in trespassed THEN None ELSE Box(p)
  BY DEF Rooms, BoxNow

(* No process has the pid the counter stands at.                              *)
LEMMA NewPid ==
  ASSUME IInv, CreateProcess
  PROVE  /\ next_pid \in Pids /\ next_pid \in AnyPid
         /\ SlotOf(next_pid) \in 0 .. Slots - 1
  BY ProcessTableAssumption, SlotRange, PidsAreNats
     DEF CreateProcess, allocate_pid, IInv, Shape, Pids

(* A slot with a process is not empty.                                        *)
LEMMA EmptySlot ==
  ASSUME IInv, NEW r \in returned
  PROVE  table[SlotOf(r)] # None
<1>1. table[SlotOf(r)] = [pid |-> r, state |-> "Ready"] /\ r \in Nat
  BY PidsAreNats DEF IInv, NoProcessLost, Shape
<1>2. [pid |-> r, state |-> "Ready"] \in [pid : Nat, state : {"Ready"}]
  BY <1>1
<1> QED
  BY <1>1, <1>2, ProcessTableAssumption

(* A new process joins in a slot of its own, and finds its mailbox closed.    *)
LEMMA CreateJoins ==
  ASSUME IInv, CreateProcess, UNCHANGED ipcVars
  PROVE  Mail!MailNext \/ UNCHANGED <<returned, trespassed, BoxNow, answer>>
<1> DEFINE s == SlotOf(next_pid)
<1>1. CASE table[s] # None
  BY <1>1 DEF CreateProcess, ipcVars, BoxNow, Box
<1>2. CASE table[s] = None
  <2>1. /\ returned' = returned \cup {next_pid}
        /\ queues' = queues /\ trespassed' = trespassed /\ answer' = answer
    BY <1>2 DEF CreateProcess, ipcVars
  <2>2. \A r \in returned : SlotOf(r) # s
    BY <1>2, EmptySlot
  <2>3. s \in trespassed \/ queues[s] = None
    BY <2>2, NewPid DEF IInv, QueueHasOwner
  <2>4. BoxNow' = BoxNow
    BY <2>1, <2>2, <2>3 DEF BoxNow, Box
  <2>5. next_pid \notin returned /\ \A r \in returned : Rooms[r] # Rooms[next_pid]
    BY <2>2, NewPid, PidsAreNats, BoxFact DEF IInv, Shape
  <2>6. Mail!Join(next_pid)
    BY <2>1, <2>4, <2>5 DEF Mail!Join, BoxNow, Rooms
  <2> QED
    BY <2>6, NewPid DEF Mail!MailNext
<1> QED
  BY <1>1, <1>2

(* Replacing the queue of a process, in a slot nobody trespasses on or has    *)
(* just ceased to, changes that process's mailbox only.                       *)
LEMMA OneBoxChanges ==
  ASSUME IInv, UNCHANGED processVars, NEW p \in returned, NEW q,
         queues' = [queues EXCEPT ![SlotOf(p)] = q],
         trespassed' = trespassed \ {SlotOf(p)}
  PROVE  BoxNow' = [BoxNow EXCEPT ![p] = q]
<1>1. /\ returned' = returned /\ p \in AnyPid
      /\ queues \in [0 .. Slots - 1 -> Queue \cup {None}]
  BY PidsAreNats DEF processVars, IInv, Shape
<1>2. ASSUME NEW r \in AnyPid
      PROVE  BoxNow'[r] = [BoxNow EXCEPT ![p] = q][r]
  <2>1. SlotOf(r) \in 0 .. Slots - 1 /\ SlotOf(p) \in 0 .. Slots - 1
    BY <1>1, SlotRange, PidsAreNats
  <2>2. CASE r = p
    BY <1>1, <2>1, <2>2 DEF BoxNow, Box
  <2>3. CASE r # p /\ r \in returned
    <3>1. SlotOf(r) # SlotOf(p)
      BY <2>3, SlotsAreDistinct DEF IInv
    <3> QED
      BY <1>1, <2>1, <2>3, <3>1 DEF BoxNow, Box
  <2>4. CASE r # p /\ r \notin returned
    BY <1>1, <2>4 DEF BoxNow, Box
  <2> QED
    BY <2>2, <2>3, <2>4
<1> QED
  BY <1>1, <1>2 DEF BoxNow

(* A call that changes a queue with a pid of no process spoils its slot.      *)
LEMMA StrangerSpoils ==
  ASSUME IInv, UNCHANGED processVars, NEW p \in AnyPid, p \notin returned, NEW q,
         queues' = [queues EXCEPT ![SlotOf(p)] = q],
         trespassed' = trespassed \cup {SlotOf(p)}
  PROVE  Mail!Spoil(p)
<1>1. /\ returned' = returned
      /\ queues \in [0 .. Slots - 1 -> Queue \cup {None}]
  BY DEF processVars, IInv, Shape
<1>2. ASSUME NEW r \in AnyPid
      PROVE  BoxNow'[r] = IF Rooms[r] = Rooms[p] THEN None ELSE BoxNow[r]
  <2>1. SlotOf(r) \in 0 .. Slots - 1 /\ SlotOf(p) \in 0 .. Slots - 1
    BY SlotRange, PidsAreNats
  <2>2. Rooms[r] = SlotOf(r) /\ Rooms[p] = SlotOf(p)
    BY BoxFact
  <2> QED
    BY <1>1, <2>1, <2>2 DEF BoxNow, Box
<1>3. BoxNow' = [r \in AnyPid |-> IF Rooms[r] = Rooms[p] THEN None ELSE BoxNow[r]]
  BY <1>2 DEF BoxNow
<1> QED
  BY <1>1, <1>3, BoxFact DEF Mail!Spoil, BoxNow, Rooms

(* A call that changes a trespassed slot and no other stays unseen.           *)
LEMMA NothingPromised ==
  ASSUME IInv, UNCHANGED processVars, NEW p \in AnyPid, SlotOf(p) \in trespassed,
         NEW q, queues' = [queues EXCEPT ![SlotOf(p)] = q], trespassed' = trespassed
  PROVE  Mail!Unpromised(p)
<1>1. /\ returned' = returned
      /\ queues \in [0 .. Slots - 1 -> Queue \cup {None}]
  BY DEF processVars, IInv, Shape
<1>2. ASSUME NEW r \in AnyPid
      PROVE  BoxNow'[r] = BoxNow[r]
  <2>1. SlotOf(r) \in 0 .. Slots - 1 /\ SlotOf(p) \in 0 .. Slots - 1
    BY SlotRange, PidsAreNats
  <2> QED
    BY <1>1, <2>1 DEF BoxNow, Box
<1>3. BoxNow' = BoxNow
  BY <1>2 DEF BoxNow
<1> QED
  BY <1>1, <1>3, BoxFact DEF Mail!Unpromised, BoxNow, Rooms

(* A call that changes no queue is unpromised, unless it is for a process     *)
(* whose slot nobody has trespassed on.                                       *)
LEMMA NothingChanged ==
  ASSUME UNCHANGED processVars, UNCHANGED <<queues, trespassed>>, NEW p \in AnyPid
  PROVE  /\ BoxNow' = BoxNow /\ returned' = returned
         /\ p \notin returned \/ SlotOf(p) \in trespassed => Mail!Unpromised(p)
<1>1. BoxNow' = BoxNow /\ returned' = returned
  BY DEF processVars, BoxNow, Box
<1> QED
  BY <1>1, BoxFact DEF Mail!Unpromised, BoxNow, Rooms

(* A process whose slot nobody has trespassed on sees its queue.              *)
LEMMA BoxIsQueue ==
  ASSUME IInv, NEW p \in returned, SlotOf(p) \notin trespassed
  PROVE  p \in AnyPid /\ BoxNow[p] = queues[SlotOf(p)] /\ Rooms[p] \notin trespassed
  BY PidsAreNats DEF IInv, Shape, BoxNow, Box, Rooms

(* init_process_queue opens the mailbox of a process, or spoils a slot.       *)
LEMMA OpenIsMail ==
  ASSUME IInv, NEW p \in AnyPid, NEW c \in Capacities, InitProcessQueue(p, c)
  PROVE  Mail!MailNext
<1> DEFINE q == [messages |-> <<>>, capacity |-> c]
<1>1. /\ queues' = [queues EXCEPT ![SlotOf(p)] = q]
      /\ UNCHANGED processVars /\ answer' = answer
  BY DEF InitProcessQueue
<1>2. CASE p \in returned
  <2>1. trespassed' = trespassed \ {SlotOf(p)}
    BY <1>2 DEF InitProcessQueue
  <2>2. BoxNow' = [BoxNow EXCEPT ![p] = q]
    BY <1>1, <1>2, <2>1, OneBoxChanges
  <2>3. Mail!Open(p, c)
    BY <1>1, <1>2, <2>1, <2>2, BoxFact DEF Mail!Open, BoxNow, Rooms, processVars
  <2> QED
    BY <2>3 DEF Mail!MailNext
<1>3. CASE p \notin returned
  <2>1. Mail!Spoil(p)
    BY <1>1, <1>3, StrangerSpoils DEF InitProcessQueue
  <2> QED
    BY <2>1 DEF Mail!MailNext
<1> QED
  BY <1>2, <1>3

(* send posts to or bounces off the mailbox of a process, or it spoils a      *)
(* slot, or is made in one that is spoilt.                                    *)
LEMMA SendIsMail ==
  ASSUME IInv, NEW to \in AnyPid, NEW from \in AnyPid, NEW d \in Data, Send(to, from, d)
  PROVE  Mail!MailNext
<1> DEFINE q == queues[SlotOf(to)]
           m == [sender |-> from, data |-> d]
<1>1. UNCHANGED processVars /\ m \in Message
  BY DEF Send, Message
<1>2. CASE HasRoom(q)
  <2> DEFINE q2 == [q EXCEPT !.messages = Append(@, m)]
  <2>1. /\ queues' = [queues EXCEPT ![SlotOf(to)] = q2]
        /\ answer' = Answer(from, "Ok", None) /\ Changes(to)
    BY <1>2 DEF Send
  <2>2. CASE to \notin returned
    BY <1>1, <2>1, <2>2, StrangerSpoils DEF Changes, Mail!MailNext
  <2>3. CASE to \in returned /\ SlotOf(to) \in trespassed
    BY <1>1, <2>1, <2>3, NothingPromised DEF Changes, Mail!MailNext
  <2>4. CASE to \in returned /\ SlotOf(to) \notin trespassed
    <3>1. trespassed' = trespassed /\ trespassed' = trespassed \ {SlotOf(to)}
      BY <2>1, <2>4 DEF Changes
    <3>2. BoxNow' = [BoxNow EXCEPT ![to] = q2]
      BY <1>1, <2>1, <2>4, <3>1, OneBoxChanges
    <3>3. BoxNow[to] = q /\ Rooms[to] \notin trespassed
      BY <2>4, BoxIsQueue
    <3>4. Mail!Post(to, from, m)
      BY <1>1, <1>2, <2>1, <2>4, <3>1, <3>2, <3>3
         DEF Mail!Post, Mail!Kept, HasRoom, Answer, Mail!Answer, BoxNow, Rooms, processVars
    <3> QED
      BY <1>1, <3>4 DEF Mail!MailNext
  <2> QED
    BY <2>2, <2>3, <2>4
<1>3. CASE ~HasRoom(q)
  <2>1. /\ answer' = Answer(from, "Err", None) /\ UNCHANGED <<queues, trespassed>>
    BY <1>3 DEF Send
  <2>2. CASE to \notin returned \/ SlotOf(to) \in trespassed
    BY <1>1, <2>1, <2>2, NothingChanged DEF Mail!MailNext
  <2>3. CASE to \in returned /\ SlotOf(to) \notin trespassed
    <3>1. BoxNow[to] = q /\ Rooms[to] \notin trespassed
      BY <2>3, BoxIsQueue
    <3>2. q = None \/ Len(q.messages) >= q.capacity
      <4>1. q \in Queue \cup {None}
        BY SlotRange, PidsAreNats DEF IInv, Shape
      <4>2. CASE q \in Queue
        <5>1. q.messages \in Seq(Message) /\ q.capacity \in Nat
          BY <4>2, IpcAssumption DEF Queue
        <5>2. Len(q.messages) \in Nat
          BY <5>1
        <5> QED
          BY <1>3, <5>1, <5>2 DEF HasRoom
      <4> QED
        BY <4>1, <4>2
    <3>3. BoxNow' = BoxNow /\ returned' = returned
      BY <1>1, <2>1, NothingChanged
    <3>4. Mail!Bounce(to, from)
      BY <2>1, <2>3, <3>1, <3>2, <3>3
         DEF Mail!Bounce, Mail!Kept, Answer, Mail!Answer, BoxNow, Rooms
    <3> QED
      BY <3>4 DEF Mail!MailNext
  <2> QED
    BY <2>2, <2>3
<1> QED
  BY <1>2, <1>3

(* receive takes from the mailbox of a process or finds nothing there, or it  *)
(* spoils a slot, or is made in one that is spoilt.                           *)
LEMMA ReceiveIsMail ==
  ASSUME IInv, NEW p \in AnyPid, Receive(p)
  PROVE  Mail!MailNext
<1> DEFINE q == queues[SlotOf(p)]
<1>1. UNCHANGED processVars
  BY DEF Receive
<1>2. CASE HasMessage(q)
  <2> DEFINE q2 == [q EXCEPT !.messages = Tail(@)]
  <2>1. /\ queues' = [queues EXCEPT ![SlotOf(p)] = q2]
        /\ answer' = Answer(p, "Some", Head(q.messages)) /\ Changes(p)
    BY <1>2 DEF Receive
  <2>2. CASE p \notin returned
    BY <1>1, <2>1, <2>2, StrangerSpoils DEF Changes, Mail!MailNext
  <2>3. CASE p \in returned /\ SlotOf(p) \in trespassed
    BY <1>1, <2>1, <2>3, NothingPromised DEF Changes, Mail!MailNext
  <2>4. CASE p \in returned /\ SlotOf(p) \notin trespassed
    <3>1. trespassed' = trespassed /\ trespassed' = trespassed \ {SlotOf(p)}
      BY <2>1, <2>4 DEF Changes
    <3>2. BoxNow' = [BoxNow EXCEPT ![p] = q2]
      BY <1>1, <2>1, <2>4, <3>1, OneBoxChanges
    <3>3. BoxNow[p] = q /\ Rooms[p] \notin trespassed
      BY <2>4, BoxIsQueue
    <3>4. Mail!Take(p)
      BY <1>1, <1>2, <2>1, <2>4, <3>1, <3>2, <3>3
         DEF Mail!Take, Mail!Kept, HasMessage, Answer, Mail!Answer, BoxNow, Rooms,
             processVars
    <3> QED
      BY <3>4 DEF Mail!MailNext
  <2> QED
    BY <2>2, <2>3, <2>4
<1>3. CASE ~HasMessage(q)
  <2>1. /\ answer' = Answer(p, "None", None) /\ UNCHANGED <<queues, trespassed>>
    BY <1>3 DEF Receive
  <2>2. CASE p \notin returned \/ SlotOf(p) \in trespassed
    BY <1>1, <2>1, <2>2, NothingChanged DEF Mail!MailNext
  <2>3. CASE p \in returned /\ SlotOf(p) \notin trespassed
    <3>1. BoxNow[p] = q /\ Rooms[p] \notin trespassed
      BY <2>3, BoxIsQueue
    <3>2. BoxNow' = BoxNow /\ returned' = returned
      BY <1>1, <2>1, NothingChanged
    <3>3. Mail!FindNothing(p)
      BY <1>3, <2>1, <2>3, <3>1, <3>2
         DEF Mail!FindNothing, Mail!Kept, HasMessage, Answer, Mail!Answer, BoxNow, Rooms
    <3> QED
      BY <3>3 DEF Mail!MailNext
  <2> QED
    BY <2>2, <2>3
<1> QED
  BY <1>2, <1>3

(* Inter-process communication implements a mailbox per process, whatever the *)
(* pids the calls are made with: a call with a pid of no process spoils one   *)
(* slot, so the mailbox of one process at most, until that process opens it   *)
(* anew.                                                                      *)
THEOREM IpcImplementsMailbox == Spec => MailSpec
<1>1. Init => Mail!MailInit
  BY DEF Init, ProcessInit, Mail!MailInit, Answer, Mail!Answer, Box
<1>2. IInv /\ [Next]_vars => [Mail!MailNext]_(Mail!mailVars)
  <2> SUFFICES ASSUME IInv, [Next]_vars
               PROVE  Mail!MailNext \/ UNCHANGED <<returned, trespassed, BoxNow, answer>>
    BY DEF Mail!mailVars, BoxNow
  <2>1. CASE (AllocatePid \/ Schedule) /\ UNCHANGED ipcVars
    BY <2>1 DEF AllocatePid, Schedule, ipcVars, BoxNow, Box
  <2>2. CASE CreateProcess /\ UNCHANGED ipcVars
    BY <2>2, CreateJoins
  <2>3. CASE \E p \in AnyPid : \E c \in Capacities : InitProcessQueue(p, c)
    BY <2>3, OpenIsMail
  <2>4. CASE \E p \in AnyPid : \E to \in AnyPid, d \in Data : Send(to, p, d)
    BY <2>4, SendIsMail
  <2>5. CASE \E p \in AnyPid : Receive(p)
    BY <2>5, ReceiveIsMail
  <2>6. CASE UNCHANGED vars
    BY <2>6 DEF vars, processVars, ipcVars, BoxNow, Box
  <2> QED
    BY <2>1, <2>2, <2>3, <2>4, <2>5, <2>6 DEF Next, ProcessNext
<1> QED
  BY <1>1, <1>2, IpcInvariant, PTL DEF Spec, MailSpec, Mail!MailSpec
=============================================================================
