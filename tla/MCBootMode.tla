----------------------------- MODULE MCBootMode -----------------------------
(* BootMode for TLC: every constant gets its value in the .cfg file. *)
EXTENDS BootMode
=============================================================================
