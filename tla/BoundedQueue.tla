---------------------------- MODULE BoundedQueue ----------------------------
(* A queue that never holds more items than its capacity and never refuses    *)
(* one: when it is full, a push costs the oldest items or all of them.        *)
EXTENDS Integers, Sequences

CONSTANTS Slices,     \* what may be pushed at once
          Overflow,   \* what a push on a full queue costs: "oldest" or "all"
          Nothing     \* what an empty queue gives

VARIABLES items,      \* what the queue holds, oldest first
          got,        \* what the last pop returned
          pushed,     \* the slice pushed last
          capacity    \* fixed when the queue is made

queueVars == <<items, got, pushed, capacity>>

Newest(s, n) == SubSeq(s, Len(s) - n + 1, Len(s))

QueueInit == items = <<>> /\ got = Nothing /\ pushed = <<>> /\ capacity \in Nat

Push(xs) ==
  /\ items' = LET all == items \o xs IN
              IF Len(all) <= capacity THEN all
              ELSE IF Overflow = "oldest" THEN Newest(all, capacity) ELSE <<>>
  /\ pushed' = xs
  /\ UNCHANGED <<got, capacity>>

Pop ==
  /\ items # <<>>
  /\ got' = Head(items)
  /\ items' = Tail(items)
  /\ UNCHANGED <<pushed, capacity>>

PopEmpty ==
  /\ items = <<>>
  /\ got' = Nothing
  /\ UNCHANGED <<items, pushed, capacity>>

Clear == items' = <<>> /\ UNCHANGED <<got, pushed, capacity>>

QueueNext == (\E xs \in Slices : Push(xs)) \/ Pop \/ PopEmpty \/ Clear

QueueSpec == QueueInit /\ [][QueueNext]_queueVars
=============================================================================
