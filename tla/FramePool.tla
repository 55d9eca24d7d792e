----------------------------- MODULE FramePool ------------------------------
(* What a physical frame allocator promises its callers, with no bitmap and   *)
(* no search: a request is answered with frames nobody holds, it is refused   *)
(* only when it cannot be met, and a frame stays with its holder until it is  *)
(* given back.                                                                *)
EXTENDS Integers

CONSTANTS Frames,    \* frame numbers, 0 .. n - 1
          Lengths,   \* lengths of the contiguous runs callers ask for
          Refused    \* the answer "out of memory"

VARIABLES inUse,     \* frames somebody holds
          asked,     \* length of the last run asked for
          answer     \* what that request returned: a frame number or Refused

poolVars == <<inUse, asked, answer>>

FreeRunAt(s, n) == s .. s + n - 1 \subseteq Frames \ inUse

PoolInit == inUse = {} /\ asked = 0 /\ answer = Refused

Grant(n) ==
  \E s \in Frames :
    /\ n > 0
    /\ FreeRunAt(s, n)
    /\ inUse' = inUse \cup (s .. s + n - 1)
    /\ asked' = n /\ answer' = s

Refuse(n) ==
  /\ n > 0 => \A s \in Frames : ~FreeRunAt(s, n)
  /\ asked' = n /\ answer' = Refused
  /\ UNCHANGED inUse

GiveBack(S) ==
  /\ inUse' = inUse \ S
  /\ UNCHANGED <<asked, answer>>

PoolNext == \/ \E n \in Lengths : Grant(n) \/ Refuse(n)
            \/ \E S \in SUBSET Frames : GiveBack(S)

PoolSpec == PoolInit /\ [][PoolNext]_poolVars
=============================================================================
