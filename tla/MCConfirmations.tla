-------------------------- MODULE MCConfirmations --------------------------
(* Two devices, so that a queue of one entry is full with the other's.     *)
EXTENDS Confirmations
CONSTANTS lamp, kettle
=============================================================================
