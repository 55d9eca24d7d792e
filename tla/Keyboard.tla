------------------------------ MODULE Keyboard ------------------------------
(* The PS/2 key buffer, drivers/keyboard.rs: a ring with a read and a write   *)
(* position and no count.  Equal positions mean an empty buffer, so it holds  *)
(* at most one key less than its length, and push does not look whether it is *)
(* full: the write position catches up with the read position, and every key  *)
(* nobody has read is gone.                                                   *)
EXTENDS Integers, Sequences

CONSTANTS Size,   \* length of the buffer: 256
          Keys,   \* scancodes, with the 0 a fresh buffer is filled with
          None

KeyboardAssumption == Size \in Nat \ {0} /\ 0 \in Keys /\ None \notin Keys

VARIABLES buffer, read_pos, write_pos,
          key,      \* what the last pop returned
          pushed    \* ghost: the last key pushed, as a sequence

vars == <<buffer, read_pos, write_pos, key, pushed>>

Positions == 0 .. Size - 1

(* Keyboard::new                                                              *)
Init ==
  /\ buffer = [i \in Positions |-> 0]
  /\ read_pos = 0 /\ write_pos = 0
  /\ key = None /\ pushed = <<>>

After_NoWrap(pos) == pos + 1         \* fault: the position leaves the buffer
After(pos) == (pos + 1) % Size

push_Late(k) ==                      \* fault: advances before it stores
  /\ buffer' = [buffer EXCEPT ![After(write_pos)] = k]
  /\ write_pos' = After(write_pos)
  /\ pushed' = <<k>>
  /\ UNCHANGED <<read_pos, key>>

push(k) ==
  /\ buffer' = [buffer EXCEPT ![write_pos] = k]
  /\ write_pos' = After(write_pos)
  /\ pushed' = <<k>>
  /\ UNCHANGED <<read_pos, key>>

pop ==
  /\ IF read_pos = write_pos
       THEN key' = None /\ UNCHANGED read_pos
       ELSE key' = buffer[read_pos] /\ read_pos' = After(read_pos)
  /\ UNCHANGED <<buffer, write_pos, pushed>>

Next == (\E k \in Keys : push(k)) \/ pop

Spec == Init /\ [][Next]_vars

---------------------------------------------------------------------------
TypeOK ==
  /\ buffer \in [Positions -> Keys]
  /\ read_pos \in Positions /\ write_pos \in Positions
  /\ key \in Keys \cup {None} /\ pushed \in {<<>>} \cup {<<k>> : k \in Keys}

(* The keys that were pushed and not popped, oldest first.                    *)
Unread == [i \in 1 .. (write_pos - read_pos + Size) % Size |->
             buffer[(read_pos + i - 1) % Size]]

(* Keys come out in the order they went in, each once; the buffer has room    *)
(* for all positions but one, and one key too many loses every unread key.    *)
Ring == INSTANCE BoundedQueue WITH
          Slices <- {<<k>> : k \in Keys}, Overflow <- "all", Nothing <- None,
          items <- Unread, got <- key, capacity <- Size - 1
RingSpec == Ring!QueueSpec
=============================================================================
