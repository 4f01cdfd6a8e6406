------------------------------ MODULE HeavySlot ------------------------------
(***************************************************************************)
(* What harness/resource_slot.py promises its callers, with the files, the *)
(* flock and the reads left out: one slot that is free or holds one        *)
(* immutable token.  A token enters a free slot in one step, leaves only   *)
(* by the release of that very token, and never comes back, not even for   *)
(* the same owner (docs/operations/dual-orchestration/HEAVY_JOB_SLOT.md).  *)
(* Expiry is absent on purpose: it refuses dispatch, it never frees.       *)
(***************************************************************************)
CONSTANTS Token,     \* token identities that reserve_slot may generate
          None       \* not a token: the slot is free

VARIABLES held,      \* the token in the slot, or None
          spent      \* tokens that were released

slotVars == <<held, spent>>

SlotInit == held = None /\ spent = {}

Publish(t) == /\ held = None
              /\ t \notin spent
              /\ held' = t
              /\ UNCHANGED spent

Release(t) == /\ held = t
              /\ held' = None
              /\ spent' = spent \union {t}

SlotNext == \E t \in Token : Publish(t) \/ Release(t)

SlotSpec == SlotInit /\ [][SlotNext]_slotVars
=============================================================================
