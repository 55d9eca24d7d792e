------------------------------- MODULE MCIpc --------------------------------
(* Two slots and the pids 0 to 3, of which the counter hands out 1 to 3: pids *)
(* wrap around the table, so a slot can be skipped on the first round and     *)
(* taken on the second, or be taken already, and each slot is met by pids     *)
(* that name no process.  Queues of no room and of two messages fill up.      *)
EXTENDS Ipc
=============================================================================
