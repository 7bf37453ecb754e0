------------------------------ MODULE Request ------------------------------
(***************************************************************************)
(* What one side of the bridge may rely on when it asks Yandex to carry    *)
(* out some actions: they happen while the request is out, one by one;     *)
(* success means that all did which the answer names; a failure says       *)
(* nothing; and there is an answer.  YandexClient implements it.           *)
(* WritePath asks for a little more: there the device changes in the step  *)
(* in which the request ends, and an answer names every action.            *)
(***************************************************************************)
CONSTANT Actions

VARIABLES stage, \* "idle", "out", "ok" or "failed"
          asked, \* the actions of the request
          done,  \* those that have been carried out
          silent \* those that a successful answer says nothing about

vars == <<stage, asked, done, silent>>

Init == stage = "idle" /\ asked = {} /\ done = {} /\ silent = {}

Start(A) ==
  /\ stage = "idle"
  /\ stage' = "out" /\ asked' = A /\ done' = {}
  /\ UNCHANGED silent

\* Some of the actions take effect; any of them may do so again.
Execute(A) ==
  /\ stage = "out" /\ A \subseteq asked
  /\ done' = done \cup A
  /\ UNCHANGED <<stage, asked, silent>>

\* An answer without an error, which may leave actions S out.
Succeed(S) ==
  /\ stage = "out" /\ asked \ S \subseteq done
  /\ stage' = "ok" /\ silent' = S
  /\ UNCHANGED <<asked, done>>

Fail ==
  /\ stage = "out"
  /\ stage' = "failed"
  /\ UNCHANGED <<asked, done, silent>>

Return ==
  /\ stage \in {"ok", "failed"}
  /\ stage' = "idle" /\ asked' = {} /\ done' = {} /\ silent' = {}

Next ==
  \/ \E A \in SUBSET Actions : Start(A) \/ Execute(A) \/ Succeed(A)
  \/ Fail \/ Return

Steps == Init /\ [][Next]_vars

Spec == Steps /\ WF_vars(Fail \/ \E S \in SUBSET Actions : Succeed(S))
=============================================================================
