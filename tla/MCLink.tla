------------------------------- MODULE MCLink -------------------------------
(* Two devices, of which at most one is written: the fewest that show a    *)
(* loop over several accessories racing another goroutine.                 *)
EXTENDS Link
CONSTANTS lamp, plug
=============================================================================
