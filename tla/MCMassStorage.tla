--------------------------- MODULE MCMassStorage ---------------------------
(* Instances of MassStorage small enough for TLC. *)
EXTENDS MassStorage

CONSTANTS p1, p2   \* two payloads of the same length

MCPayloads == {p1, p2}
MCPayloadLength == [p \in MCPayloads |-> 1]

(* A new device, and one whose ring is full. *)
NewOrFull == {0, SlotCount}

(* A ring that has wrapped, its newest record in the last slot but one. *)
Wrapped == {2 * SlotCount - 1}
=============================================================================
