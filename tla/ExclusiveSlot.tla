--------------------------- MODULE ExclusiveSlot ----------------------------
(***************************************************************************)
(* What a frontend's user is promised of a background job: one slot, which *)
(* holds at most one job; a job begins in an empty slot and leaves it      *)
(* empty.  Wardrive and ToolRunner implement it, each with its own idea of *)
(* a job, under the conditions they name.                                  *)
(***************************************************************************)
CONSTANT Jobs

VARIABLE held   \* the jobs in the slot

Begin == held = {} /\ \E j \in Jobs : held' = {j}
End   == held # {} /\ held' = {}

SlotInit == held = {}
SlotNext == Begin \/ End
SlotSpec == SlotInit /\ [][SlotNext]_held
=============================================================================
