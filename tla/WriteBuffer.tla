---------------------------- MODULE WriteBuffer ----------------------------
(***************************************************************************)
(* What the coalescing buffer of an accessory promises, whatever is        *)
(* written: one request at a time, each with everything that waited for    *)
(* it, and nothing queued is ever left behind.                             *)
(***************************************************************************)
CONSTANT Keys

VARIABLES waiting, \* write groups queued and not sent
          sending  \* write groups of the request in flight

vars == <<waiting, sending>>

Init == waiting = {} /\ sending = {}

\* A write joins what waits; a second one of its group changes nothing.
Queue(k) ==
  /\ waiting' = waiting \cup {k}
  /\ UNCHANGED sending

\* One request takes everything, and only when none is in flight.
Send ==
  /\ sending = {} /\ waiting # {}
  /\ sending' = waiting /\ waiting' = {}

Answered ==
  /\ sending # {}
  /\ sending' = {}
  /\ UNCHANGED waiting

Next == (\E k \in Keys : Queue(k)) \/ Send \/ Answered

Steps == Init /\ [][Next]_vars

Spec == Steps /\ WF_vars(Send) /\ WF_vars(Answered)
=============================================================================
