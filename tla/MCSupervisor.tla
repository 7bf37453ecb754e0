---------------------------- MODULE MCSupervisor ----------------------------
(* Three device sets: the real one, a partial answer and a second change   *)
(* while the first is being confirmed.                                     *)
EXTENDS Supervisor
=============================================================================
