---------------------------- MODULE TokenStore ----------------------------
(***************************************************************************)
(* What internal/auth promises of the saved token (store.go:3-12, 89-91):  *)
(* a crash or a power cut at any point leaves the old or the new token     *)
(* whole, and a save that has returned is final.                           *)
(***************************************************************************)
CONSTANTS Tokens, None, Broken

VARIABLES stored, \* what Load would return: a token, None or Broken (an error)
          may,    \* what it may return after a power cut
          saving, \* the token being saved, or None
          ended   \* how the last save ended: "none", "saved" or "failed"

vars == <<stored, may, saving, ended>>

Init ==
  /\ stored \in Tokens \cup {None, Broken} /\ may = {stored}
  /\ saving = None /\ ended = "none"

Begin(t) ==
  /\ saving = None /\ stored # Broken
  /\ saving' = t /\ ended' = "none"
  /\ UNCHANGED <<stored, may>>

\* The new token takes the place of the old one, at once.
Replace ==
  /\ saving # None
  /\ stored' = saving /\ may' = may \cup {saving}
  /\ UNCHANGED <<saving, ended>>

Saved ==
  /\ saving # None /\ stored = saving
  /\ may' = {stored} /\ saving' = None /\ ended' = "saved"
  /\ UNCHANGED stored

Failed ==
  /\ saving # None
  /\ saving' = None /\ ended' = "failed"
  /\ UNCHANGED <<stored, may>>

Settled ==
  /\ may' = {stored}
  /\ UNCHANGED <<stored, saving, ended>>

Crash ==
  /\ saving' = None /\ ended' = "none"
  /\ UNCHANGED <<stored, may>>

PowerCut ==
  /\ stored' \in may /\ may' = {stored'}
  /\ saving' = None /\ ended' = "none"

Next ==
  \/ \E t \in Tokens : Begin(t)
  \/ Replace \/ Saved \/ Failed \/ Settled \/ Crash \/ PowerCut

Steps == Init /\ [][Next]_vars

\* A save returns, unless the process does not live to see it.
Spec == Steps /\ WF_vars(saving # None /\ (Saved \/ Failed \/ Crash \/ PowerCut))
=============================================================================
