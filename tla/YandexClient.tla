--------------------------- MODULE YandexClient ---------------------------
(***************************************************************************)
(* internal/yandex: a call of the client (UserInfo, Device, Act) with its  *)
(* retries, the refresh after a 401, the results Yandex reports for each   *)
(* capability, and the caller's deadline.  Requests and answers may be     *)
(* lost; with Delayed, a request whose attempt is long over may still be   *)
(* carried out by Yandex.                                                  *)
(*                                                                         *)
(* Calls follow each other, as the flushes of one accessory do.  Each sets *)
(* every capability to a value of its own: the number of the call.         *)
(***************************************************************************)
EXTENDS Naturals

CONSTANTS Actions,     \* the capabilities a call sets; none: a read
          MaxAttempts, \* RetryPolicy.MaxAttempts
          MaxCalls,    \* bound: calls told apart; then the numbers come again
          Delayed,     \* TRUE: a request may be carried out after its attempt
          Patient,     \* bound, TRUE: no caller's deadline passes
          None

ASSUME BoundsAssumption == {MaxAttempts, MaxCalls} \subseteq Nat \ {0}
ASSUME FlagsAssumption == {Delayed, Patient} \subseteq BOOLEAN

VARIABLES call,      \* the number of the call
          stage,     \* where it is, see Stages
          attempt,   \* of RetryPolicy.Do
          over,      \* the caller's context is done
          error,     \* the last error, see Errors
          wire,      \* requests sent and not carried out, <<call, number>>
          results,   \* what Yandex answers to the last request, or None
          device,    \* capability |-> the call that set it last
          done,      \* history: capabilities this call has set
          sent,      \* history: requests this call has sent
          refreshed  \* history: times this call has refreshed the token

callVars == <<call, attempt, over>>
history == <<sent, refreshed>>
vars == <<callVars, stage, error, wire, results, device, done, history>>

Asking == {"asking", "asking_again"}
Stages == Asking \cup {"idle", "trying", "refreshing", "judging", "sleeping", "ok", "failed"}

\* What an answer says of a capability, if it says anything.
Failures == {"busy", "invalid"}
Results == {"done", "omitted"} \cup Failures
\* errors.go: what Retryable says of each kind.  A timeout of the HTTP client
\* or of a dial is a context.DeadlineExceeded to errors.Is, like the caller's own.
RetryableErrors == {"busy", "unavailable", "network", "refresh_network"}
FinalErrors == {"invalid", "refused", "unauthorized", "refresh_rejected", "timeout", "expired"}
Errors == RetryableErrors \cup FinalErrors

Retryable(e) == e \in RetryableErrors

Init ==
  /\ call = 0 /\ stage = "idle" /\ attempt = 1 /\ over = FALSE /\ error = None
  /\ wire = {} /\ results = None
  /\ device = [a \in Actions |-> 0] /\ done = {}
  /\ sent = 0 /\ refreshed = 0

-----------------------------------------------------------------------------
(* The caller.                                                             *)

Call ==
  /\ stage = "idle"
  /\ call' = (call % MaxCalls) + 1 /\ stage' = "trying"
  /\ \A m \in wire : m[1] # call'
  /\ attempt' = 1 /\ over' = FALSE /\ error' = None /\ results' = None
  /\ device' = [a \in Actions |-> IF device[a] = call' THEN 0 ELSE device[a]]
  /\ done' = {} /\ sent' = 0 /\ refreshed' = 0
  /\ UNCHANGED wire

\* The caller's deadline passes, or it gives up.
Expire ==
  /\ stage \notin {"idle", "ok", "failed"}
  /\ ~Patient /\ ~over /\ over' = TRUE
  /\ UNCHANGED <<call, attempt, stage, error, wire, results, device, done, history>>

Return ==
  /\ stage \in {"ok", "failed"}
  /\ stage' = "idle"
  /\ UNCHANGED <<callVars, error, wire, results, device, done, history>>

-----------------------------------------------------------------------------
(* doOnce, and what may become of its request.                             *)

Current == <<call, sent>>

Send(at) ==
  /\ stage' = at
  /\ sent' = sent + 1 /\ wire' = wire \cup {<<call, sent + 1>>}
  /\ results' = None

\* The next attempt, unless the context is done.
Try ==
  /\ stage = "trying" /\ ~over
  /\ Send("asking")
  /\ UNCHANGED <<callVars, error, device, done, refreshed>>

TryTooLate ==
  /\ stage = "trying" /\ over
  /\ stage' = "failed"
  /\ error' = IF error = None THEN "expired" ELSE error
  /\ UNCHANGED <<callVars, wire, results, device, done, history>>

\* Yandex carries a request out, each capability with a result of its own, or
\* with none.
Execute(m) ==
  /\ m \in wire
  /\ wire' = wire \ {m}
  /\ \E r \in [Actions -> Results], set \in SUBSET Actions :
       /\ {a \in Actions : r[a] = "done"} \subseteq set
       /\ \A a \in set : r[a] \in {"done", "omitted"}
       /\ device' = [a \in Actions |-> IF a \in set THEN m[1] ELSE device[a]]
       /\ done' = IF m[1] = call THEN done \cup set ELSE done
       /\ results' = IF m = Current /\ stage \in Asking THEN r ELSE results
  /\ UNCHANGED <<callVars, stage, error, history>>

Ends(e) == stage' = "judging" /\ error' = e

\* mutant: one capability that was set is enough
AnsweredInPart ==
  /\ stage \in Asking /\ results # None
  /\ LET failing == {a \in Actions : results[a] \in Failures} IN
       \/ failing # Actions /\ stage' = "ok" /\ error' = None
       \/ \E a \in failing : Ends(results[a])
  /\ UNCHANGED <<callVars, wire, results, device, done, history>>

\* The answer arrives: ActionResponse.Err joins the errors in the order in which
\* Yandex lists the capabilities, and errors.As looks at the first of them.  What
\* the list leaves out is no error.
Answered ==
  /\ stage \in Asking /\ results # None
  /\ LET failing == {a \in Actions : results[a] \in Failures} IN
       \/ failing = {} /\ stage' = "ok" /\ error' = None
       \/ \E a \in failing : Ends(results[a])
  /\ UNCHANGED <<callVars, wire, results, device, done, history>>

\* A status other than 200, and nothing was carried out.
Declined(e) ==
  /\ stage \in Asking /\ Current \in wire
  /\ e \in {"unavailable", "refused"}
  /\ Ends(e) /\ wire' = wire \ {Current}
  /\ UNCHANGED <<callVars, results, device, done, history>>

\* mutant: a second 401 refreshes again
RejectedForEver ==
  /\ stage \in Asking /\ Current \in wire
  /\ stage' = "refreshing" /\ wire' = wire \ {Current}
  /\ UNCHANGED <<callVars, error, results, device, done, history>>

\* 401 on the first request of an attempt: the token is refreshed.
Rejected ==
  /\ stage = "asking" /\ Current \in wire
  /\ stage' = "refreshing" /\ wire' = wire \ {Current}
  /\ UNCHANGED <<callVars, error, results, device, done, history>>

\* 401 again.
RejectedAgain ==
  /\ stage = "asking_again" /\ Current \in wire
  /\ Ends("unauthorized") /\ wire' = wire \ {Current}
  /\ UNCHANGED <<callVars, results, device, done, history>>

\* The request or its answer is lost, a gateway gives up on it, the HTTP client
\* does (30 s: longer than a write may take), or the context is done.
Lost(e) ==
  /\ stage \in Asking
  /\ \/ e \in {"network", "unavailable"}
     \/ e = "timeout" /\ Actions = {}
     \/ e = "expired" /\ over
  /\ Ends(e) /\ wire' = IF Delayed THEN wire ELSE wire \ {Current}
  /\ UNCHANGED <<callVars, results, device, done, history>>

\* ForceRefresh succeeds and the request is sent once more.
Refreshed ==
  /\ stage = "refreshing"
  /\ Send("asking_again")
  /\ refreshed' = refreshed + 1
  /\ UNCHANGED <<callVars, error, device, done>>

RefreshFails(e) ==
  /\ stage = "refreshing"
  /\ e \in {"refresh_network", "refresh_rejected"} \/ (e = "expired" /\ over)
  /\ Ends(e)
  /\ refreshed' = refreshed + 1
  /\ UNCHANGED <<callVars, wire, results, device, done, sent>>

-----------------------------------------------------------------------------
(* RetryPolicy.Do after a failed attempt.                                  *)

\* mutant: the last error is forgotten
GiveUpSilently ==
  /\ stage = "judging"
  /\ ~Retryable(error) \/ attempt = MaxAttempts
  /\ stage' = IF attempt = MaxAttempts THEN "ok" ELSE "failed"
  /\ UNCHANGED <<callVars, error, wire, results, device, done, history>>

GiveUp ==
  /\ stage = "judging"
  /\ ~Retryable(error) \/ attempt = MaxAttempts
  /\ stage' = "failed"
  /\ UNCHANGED <<callVars, error, wire, results, device, done, history>>

Sleep ==
  /\ stage = "judging"
  /\ Retryable(error) /\ attempt < MaxAttempts
  /\ stage' = "sleeping"
  /\ UNCHANGED <<callVars, error, wire, results, device, done, history>>

Wake ==
  /\ stage = "sleeping"
  /\ stage' = "trying" /\ attempt' = attempt + 1
  /\ UNCHANGED <<call, over, error, wire, results, device, done, history>>

SleepCut ==
  /\ stage = "sleeping" /\ over
  /\ stage' = "failed"
  /\ UNCHANGED <<callVars, error, wire, results, device, done, history>>

-----------------------------------------------------------------------------
Attempt == Try \/ TryTooLate

Reply ==
  \/ Answered \/ Rejected \/ RejectedAgain \/ Refreshed
  \/ \E e \in Errors : Declined(e) \/ Lost(e) \/ RefreshFails(e)

Judge == GiveUp \/ Sleep \/ Wake \/ SleepCut

Next ==
  \/ Call \/ Expire \/ Return
  \/ Try \/ TryTooLate
  \/ \E m \in wire : Execute(m)
  \/ Answered \/ Rejected \/ RejectedAgain \/ Refreshed
  \/ \E e \in Errors : Declined(e)
  \/ \E e \in Errors : Lost(e)
  \/ \E e \in Errors : RefreshFails(e)
  \/ GiveUp \/ Sleep \/ Wake \/ SleepCut

Spec == Init /\ [][Next]_vars

\* Code runs, requests end in an answer or an error, timers fire, and callers
\* call again.  Nothing makes a request succeed.
Fairness ==
  /\ WF_vars(Call) /\ WF_vars(Return)
  /\ WF_vars(Attempt) /\ WF_vars(Reply) /\ WF_vars(Judge)

FairSpec == Spec /\ Fairness

-----------------------------------------------------------------------------
(* Properties.                                                             *)

TypeOK ==
  /\ call \in 0 .. MaxCalls /\ stage \in Stages /\ attempt \in 1 .. MaxAttempts
  /\ over \in BOOLEAN /\ error \in Errors \cup {None}
  /\ wire \subseteq (1 .. MaxCalls) \X Nat
  /\ results \in [Actions -> Results] \cup {None}
  /\ device \in [Actions -> 0 .. MaxCalls] /\ done \subseteq Actions
  /\ sent \in Nat /\ refreshed \in Nat

\* A token that stays rejected does not turn into a refresh loop
\* (client_test.go:334-335), and a call costs at most two requests and one
\* refresh for each attempt of its policy.
BoundedLoad ==
  /\ refreshed <= attempt /\ sent <= attempt + refreshed
  /\ attempt <= MaxAttempts

\* "Replaying it is safe" (client.go:139-142): after a success Yandex holds what
\* this call set, on every capability its last answer names, whatever was lost and
\* repeated before.  It needs Yandex to drop what it has not carried out when an
\* attempt ends: with Delayed the code does not have it.
Silent == {a \in Actions : results # None /\ results[a] = "omitted"}
SuccessStands == stage = "ok" => \A a \in Actions \ Silent : device[a] = call

\* The same of every capability: "Err returns a non-nil error if any requested
\* capability failed" (model.go:256).  The code does not have it: Err visits the
\* results, and a capability without one passes for done.
SuccessIsOfAll == stage = "ok" => \A a \in Actions : device[a] = call

\* A call is a Request: its effects happen while it is out, success means all
\* of them that are answered for, and it ends.
Outcome == CASE stage \in {"idle", "ok", "failed"} -> stage
             [] OTHER -> "out"
Shown == Outcome # "idle"

Abstract == INSTANCE Request WITH
  stage <- Outcome,
  asked <- IF Shown THEN Actions ELSE {},
  done  <- IF Shown THEN done ELSE {},
  silent <- IF stage = "ok" THEN Silent ELSE {}

ImplementsRequest == Abstract!Spec

\* "A busy device or a transient cloud error is worth another attempt"
\* (errors.go:92-93).  The code does not have it.
BusyIsRetried ==
  stage = "failed" /\ results # None /\ ~over /\ attempt < MaxAttempts
    => \A a \in Actions : results[a] # "busy"

\* "Network and timeout errors are retryable by default" (errors.go:113-114).  The
\* code does not have it.
TimeoutsAreRetried ==
  stage = "failed" /\ error = "timeout" => over \/ attempt = MaxAttempts
=============================================================================
