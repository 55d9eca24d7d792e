------------------------------ MODULE Mailbox -------------------------------
(* What inter-process communication promises: every member has a bounded      *)
(* first-in first-out queue of its own, which only a send to that member and  *)
(* a receive by that member change, and which opening it again empties.  The  *)
(* boxes are kept in rooms, at most one member's in each, and the promise is  *)
(* off for a room in which a pid of no member has been used, until the member *)
(* whose room it is opens its box anew.                                       *)
EXTENDS Integers, Sequences

CONSTANTS Owners,       \* the pids calls are made with
          Room,         \* pid -> where its box is kept
          Capacities,   \* capacities members open their boxes with
          Messages,
          Closed        \* a mailbox nobody has opened

VARIABLES members,  \* the pids that own a mailbox
          spoilt,   \* rooms a pid of no member was used in
          box,      \* pid -> Closed, or the pending messages and the capacity
          answer    \* what the last call returned, and to whom

mailVars == <<members, spoilt, box, answer>>

Answer(p, verdict, m) == [to |-> p, verdict |-> verdict, message |-> m]

MailInit ==
  /\ members = {} /\ spoilt = {}
  /\ box = [p \in Owners |-> Closed]
  /\ answer = Answer(Closed, "None", Closed)

Join(p) ==
  /\ p \notin members
  /\ \A m \in members : Room[m] # Room[p]
  /\ members' = members \cup {p}
  /\ UNCHANGED <<spoilt, box, answer>>

Open(p, c) ==
  /\ p \in members
  /\ box' = [box EXCEPT ![p] = [messages |-> <<>>, capacity |-> c]]
  /\ spoilt' = spoilt \ {Room[p]}
  /\ UNCHANGED <<members, answer>>

Kept(p) == p \in members /\ Room[p] \notin spoilt /\ UNCHANGED <<members, spoilt>>

Post(to, from, m) ==
  /\ Kept(to)
  /\ box[to] # Closed /\ Len(box[to].messages) < box[to].capacity
  /\ box' = [box EXCEPT ![to].messages = Append(@, m)]
  /\ answer' = Answer(from, "Ok", Closed)

Bounce(to, from) ==
  /\ Kept(to)
  /\ box[to] = Closed \/ Len(box[to].messages) >= box[to].capacity
  /\ answer' = Answer(from, "Err", Closed)
  /\ UNCHANGED box

Take(p) ==
  /\ Kept(p)
  /\ box[p] # Closed /\ box[p].messages # <<>>
  /\ answer' = Answer(p, "Some", Head(box[p].messages))
  /\ box' = [box EXCEPT ![p].messages = Tail(@)]

FindNothing(p) ==
  /\ Kept(p)
  /\ box[p] = Closed \/ box[p].messages = <<>>
  /\ answer' = Answer(p, "None", Closed)
  /\ UNCHANGED box

(* A call with a pid of no member may spoil its room; what it returns is not  *)
(* promised.  Nor is what a member's call in a spoilt room does there.        *)
Spoil(p) ==
  /\ p \notin members
  /\ spoilt' = spoilt \cup {Room[p]}
  /\ box' = [q \in Owners |-> IF Room[q] = Room[p] THEN Closed ELSE box[q]]
  /\ UNCHANGED members

Unpromised(p) ==
  /\ p \notin members \/ Room[p] \in spoilt
  /\ UNCHANGED <<members, spoilt, box>>

MailNext ==
  \E p \in Owners :
    \/ Join(p)
    \/ \E c \in Capacities : Open(p, c)
    \/ \E from \in Owners : Bounce(p, from) \/ \E m \in Messages : Post(p, from, m)
    \/ Take(p) \/ FindNothing(p)
    \/ Spoil(p) \/ Unpromised(p)

MailSpec == MailInit /\ [][MailNext]_mailVars
=============================================================================
