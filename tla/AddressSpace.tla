---------------------------- MODULE AddressSpace ----------------------------
(* What a page mapper promises: a partial map from pages to frames that only  *)
(* a successful call changes, and only at the page it names; a call that      *)
(* fails leaves every translation as it was.                                  *)
CONSTANTS Slots,     \* the pages the hardware tells apart
          Targets,   \* what a page may be mapped to
          Nowhere    \* the translation of a page that is not mapped

VARIABLES space,     \* the translation of every page
          outcome    \* how the last call ended: its name, page and frame

spaceVars == <<space, outcome>>

Call(what, v, f) == [what |-> what, page |-> v, frame |-> f]

SpaceInit ==
  /\ space = [v \in Slots |-> Nowhere]
  /\ outcome = Call("none", Nowhere, Nowhere)

Map(v, f) ==
  /\ outcome' = Call("mapped", v, f)
  /\ space[v] = Nowhere
  /\ space' = [space EXCEPT ![v] = f]

(* Mapped without PRESENT: the call succeeds, and nothing is reached by it;   *)
(* the page counts as free.                                                   *)
MapInert(v) ==
  /\ outcome' = Call("mapped", v, Nowhere)
  /\ space[v] = Nowhere
  /\ UNCHANGED space

MapOccupied(v) ==
  /\ outcome' = Call("PageAlreadyMapped", v, Nowhere)
  /\ space[v] # Nowhere
  /\ UNCHANGED space

MapExhausted(v) ==
  /\ outcome' = Call("OutOfMemory", v, Nowhere)
  /\ space[v] = Nowhere
  /\ UNCHANGED space

Unmap(v) ==
  /\ outcome'.what = "unmapped" /\ outcome'.page = v
  /\ space[v] # Nowhere
  /\ outcome' = Call("unmapped", v, space[v])
  /\ space' = [space EXCEPT ![v] = Nowhere]

UnmapNothing(v) ==
  /\ outcome' = Call("InvalidAddress", v, Nowhere)
  /\ space[v] = Nowhere
  /\ UNCHANGED space

(* A range of no pages                                                        *)
MapNothing ==
  /\ outcome' = Call("nothing", Nowhere, Nowhere)
  /\ UNCHANGED space

Misaligned ==
  /\ outcome' = Call("InvalidAddress", Nowhere, Nowhere)
  /\ UNCHANGED space

SpaceNext ==
  \/ \E v \in Slots : \/ \E f \in Targets : Map(v, f)
                      \/ MapInert(v) \/ MapOccupied(v) \/ MapExhausted(v)
                      \/ Unmap(v) \/ UnmapNothing(v)
  \/ MapNothing \/ Misaligned

SpaceSpec == SpaceInit /\ [][SpaceNext]_spaceVars
=============================================================================
