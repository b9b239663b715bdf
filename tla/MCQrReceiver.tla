---------------------------- MODULE MCQrReceiver ----------------------------
(* QrReceiver for TLC: every constant gets its value in the .cfg file. *)
EXTENDS QrReceiver
=============================================================================
