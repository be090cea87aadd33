---------------------------- MODULE MCDurableLog ----------------------------
(***************************************************************************)
(* A synchronous writer beside the asynchronous one, a queue of two.       *)
(***************************************************************************)
EXTENDS DurableLog, TLC

CONSTANT w1

=============================================================================
