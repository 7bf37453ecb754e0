------------------------------ MODULE MCHealth ------------------------------
(* One writer beside the poll goroutine: two already race in every order.  *)
EXTENDS Health
CONSTANT lamp
=============================================================================
