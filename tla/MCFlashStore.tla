---------------------------- MODULE MCFlashStore ----------------------------
(* Instances of FlashStore small enough for TLC. *)
EXTENDS FlashStore

CONSTANTS empty, p1   \* two payloads, one of them of length 0

MCPayloads == {empty, p1}
MCPayloadLength == [p \in MCPayloads |-> IF p = empty THEN 0 ELSE 1]
=============================================================================
