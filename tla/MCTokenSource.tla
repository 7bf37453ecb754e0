--------------------------- MODULE MCTokenSource ---------------------------
(* Five refresh tokens: memory, the two in hand, the file and a new one.   *)
(* Tokens that nobody holds are used again, so that no run is cut short.   *)
EXTENDS TokenSource
MCTokens == 1 .. 5
=============================================================================
