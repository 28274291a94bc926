--------------------------- MODULE BufferLending ---------------------------
(***************************************************************************)
(* What the bridge promises about its shm buffers, whatever the wire does: *)
(* a buffer is lent to the compositor at most once at a time, is written   *)
(* only while it is not lent, comes back only after it was lent, and once  *)
(* its pool is gone it is never used again.                                *)
(***************************************************************************)
CONSTANT Buffers

VARIABLE status

Status == {"unborn", "mine", "lent", "dead"}

\* What may become of a buffer in one step.
After(s) ==
    CASE s = "unborn" -> {"unborn", "mine", "lent", "dead"}
      [] s = "mine"   -> {"mine", "lent", "dead"}
      [] s = "lent"   -> {"lent", "mine", "dead"}
      [] s = "dead"   -> {"dead"}

Init == status = [b \in Buffers |-> "unborn"]

Next ==
    /\ status' \in [Buffers -> Status]
    /\ \A b \in Buffers : status'[b] \in After(status[b])

Spec == Init /\ [][Next]_status
=============================================================================
