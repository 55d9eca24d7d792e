---------------------------- MODULE MCScheduler -----------------------------
(* Two slots and three pids: two processes are enough for one to wait.        *)
EXTENDS ProcessTable
=============================================================================
