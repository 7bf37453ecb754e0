---------------------------- MODULE DeviceFlow ----------------------------
(***************************************************************************)
(* internal/auth/deviceflow.go: Flow.Authorize and Flow.Poll, the user who *)
(* enters the code, and oauth.yandex.ru, in discrete time: one unit is the *)
(* 5 s by which slow_down lengthens the interval.                          *)
(*                                                                         *)
(* A timer fires in the unit in which it is due, a request takes any time. *)
(* These are the actions of one authorization; Process runs it at start.   *)
(***************************************************************************)
EXTENDS Integers

CONSTANTS Intervals,  \* advertised polling intervals
          Lifetimes,  \* advertised lifetimes of a code
          MaxBackoff, \* maxBackoff
          MaxSlow,    \* bound: slow_down answers for one code
          None

ASSUME TimesAssumption ==
  Intervals \cup Lifetimes \cup {MaxBackoff} \subseteq Nat \ {0} /\ MaxSlow \in Nat

\* Both are read into an int: there is a longest one.
ASSUME LongestAssumption ==
  \A S \in {Intervals, Lifetimes} : \E n \in S : \A k \in S : k <= n

VARIABLES ctx,      \* the context of the caller, who ends it: "live" or "done"
          stage,    \* of Authorize, see Stages
          backoff,  \* before the next RequestCode after a failed one
          interval, \* of Poll
          timer,    \* what is left of the present sleep
          left,     \* time to the deadline of the code; -1: it is past
          answer,   \* the answer on its way to the bridge, or None
          code,     \* the code at Yandex, see Codes
          wanted,   \* the interval that Yandex has told the bridge to keep
          slow,     \* slow_down answers for it
          rest,     \* time since its issue or its last poll, as Yandex sees it
          tried     \* history: has a poll for it been sent?

local  == <<backoff, interval>>
yandex == <<code, wanted, slow, rest>>
flowVars == <<stage, local, timer, left, answer, yandex, tried>>

FlowStages == {"idle", "coding", "backing_off", "waiting", "asking", "granted", "stopped"}
Codes == {"none", "open", "confirmed", "denied", "spent", "dead"}
Answers == {"token", "pending", "slow_down", "expired", "denied", "other"}
ASSUME NoneAssumption == None \notin Answers

Most(S) == CHOOSE n \in S : \A k \in S : k <= n
Longest == Most(Intervals) + MaxSlow
Least(a, b) == IF a < b THEN a ELSE b

FlowInit ==
  /\ stage = "idle" /\ backoff = 1 /\ interval = 1 /\ timer = 0 /\ left = -1
  /\ answer = None /\ code = "none" /\ wanted = 1 /\ slow = 0 /\ rest = 0 /\ tried = FALSE

-----------------------------------------------------------------------------
(* The clock, the user, Yandex.                                            *)

Tick ==
  /\ timer > 0 \/ left >= 0
  /\ stage \in {"waiting", "backing_off"} => timer > 0
  /\ timer' = IF timer > 0 THEN timer - 1 ELSE 0
  /\ left' = IF left >= 0 THEN left - 1 ELSE -1
  /\ rest' = Least(rest + 1, Longest)
  /\ UNCHANGED <<stage, local, answer, code, wanted, slow, tried>>

Turns(was, is) ==
  /\ code = was /\ code' = is
  /\ UNCHANGED <<stage, local, timer, left, answer, wanted, slow, rest, tried>>

UserConfirms == left >= 0 /\ Turns("open", "confirmed")
UserDenies == left >= 0 /\ Turns("open", "denied")
CodeDies == left <= 0 /\ (Turns("open", "dead") \/ Turns("confirmed", "dead"))

\* A poll arrives; Yandex answers as the code stands, or tells the bridge to slow
\* down, or answers with an error of its own.
Arrives(a) ==
  /\ stage = "asking" /\ answer = None
  /\ CASE a = "token" -> code = "confirmed"
       [] a = "pending" -> code = "open"
       [] a = "denied" -> code = "denied"
       [] a = "expired" -> code \in {"spent", "dead"}
       [] a = "slow_down" -> slow < MaxSlow
       [] a = "other" -> TRUE
  /\ answer' = a
  /\ code' = IF a = "token" THEN "spent" ELSE code
  /\ IF a = "slow_down" THEN slow' = slow + 1 /\ wanted' = wanted + 1 ELSE UNCHANGED <<slow, wanted>>
  /\ rest' = 0
  /\ UNCHANGED <<stage, local, timer, left, tried>>

-----------------------------------------------------------------------------
(* Authorize.                                                              *)

\* RequestCode succeeds, and the code is reported.
CodeIssued(i, l) ==
  /\ stage = "coding"
  /\ stage' = "waiting" /\ backoff' = 1
  /\ interval' = i /\ timer' = i /\ left' = l
  /\ code' = "open" /\ wanted' = i /\ slow' = 0 /\ rest' = 0 /\ tried' = FALSE
  /\ UNCHANGED answer

\* It fails in a way that may pass.
CodeFails ==
  /\ stage = "coding"
  /\ stage' = "backing_off" /\ timer' = backoff
  /\ backoff' = Least(2 * backoff, MaxBackoff)
  /\ UNCHANGED <<interval, left, answer, yandex, tried>>

\* Authorize returns, and its locals with it.
Returns(as) ==
  /\ stage' = as
  /\ backoff' = 1 /\ interval' = 1 /\ timer' = 0 /\ left' = -1 /\ answer' = None
  /\ code' = "none" /\ wanted' = 1 /\ slow' = 0 /\ rest' = 0 /\ tried' = FALSE

\* fatalAuthError.
CodeRefused == stage = "coding" /\ Returns("stopped")

\* The context is done: RequestCode fails because of it, or a sleep is cut.
\* (A poll that fails because of it goes on to the next sleep.)
Cut ==
  /\ ctx = "done" /\ stage \in {"coding", "backing_off", "waiting"}
  /\ Returns("stopped")

BackoffEnds ==
  /\ stage = "backing_off" /\ timer = 0
  /\ stage' = "coding"
  /\ UNCHANGED <<local, timer, left, answer, yandex, tried>>

\* EnsureAuthorized finds no token, or one that is rejected.
Authorize ==
  /\ stage = "idle"
  /\ stage' = "coding"
  /\ UNCHANGED <<local, timer, left, answer, yandex, tried>>

-----------------------------------------------------------------------------
(* Poll.                                                                   *)

\* mutant: the deadline is looked at before the attempt
AskInTime ==
  /\ stage = "waiting" /\ timer = 0
  /\ IF left < 0 THEN stage' = "coding" /\ UNCHANGED tried
     ELSE stage' = "asking" /\ tried' = TRUE
  /\ UNCHANGED <<local, timer, left, answer, yandex>>

\* The sleep is over.
Ask ==
  /\ stage = "waiting" /\ timer = 0
  /\ stage' = "asking" /\ tried' = TRUE
  /\ UNCHANGED <<local, timer, left, answer, yandex>>

\* ErrCodeExpired: Authorize requests the next code.
Abandon == stage' = "coding" /\ timer' = 0

\* mutant: the deadline is not looked at
NextWaitForEver(i) ==
  /\ interval' = i /\ answer' = None
  /\ stage' = "waiting" /\ timer' = i
  /\ UNCHANGED <<backoff, left, code, slow, rest, tried>>

\* After an attempt that settles nothing, the deadline decides.
NextWait(i) ==
  /\ interval' = i /\ answer' = None
  /\ IF left < 0 THEN Abandon ELSE stage' = "waiting" /\ timer' = i
  /\ UNCHANGED <<backoff, left, code, slow, rest, tried>>

Got(a) == stage = "asking" /\ answer = a

Granted == Got("token") /\ Returns("granted")

Pending == Got("pending") /\ NextWait(interval) /\ UNCHANGED wanted

\* mutant: slow_down is taken for authorization_pending
SlowDownIgnored == Got("slow_down") /\ NextWait(interval) /\ UNCHANGED wanted

SlowDown == Got("slow_down") /\ NextWait(interval + 1) /\ UNCHANGED wanted

\* No answer, or one that is not an OAuth error: the poll or its answer is lost.
Lost ==
  /\ stage = "asking" /\ NextWait(interval)
  /\ wanted' = IF Got("slow_down") THEN wanted - 1 ELSE wanted

Expired ==
  /\ Got("expired")
  /\ Abandon /\ answer' = None
  /\ UNCHANGED <<local, left, yandex, tried>>

Refused == (Got("denied") \/ Got("other")) /\ Returns("stopped")

-----------------------------------------------------------------------------
Heard == Granted \/ Pending \/ SlowDown \/ Expired \/ Refused
Working == CodeRefused \/ Cut \/ CodeFails \/ BackoffEnds \/ Ask \/ Heard \/ Lost
           \/ \E i \in Intervals, l \in Lifetimes : CodeIssued(i, l)

FlowNext ==
  \/ Tick \/ UserConfirms \/ UserDenies \/ CodeDies
  \/ \E a \in Answers : Arrives(a)
  \/ \E i \in Intervals, l \in Lifetimes : CodeIssued(i, l)
  \/ CodeFails \/ CodeRefused \/ Cut \/ BackoffEnds \/ Authorize
  \/ Ask \/ Granted \/ Pending \/ SlowDown \/ Lost \/ Expired \/ Refused

\* The user enters the code in time for another poll.
ConfirmsInTime == stage = "waiting" /\ timer < left /\ UserConfirms

-----------------------------------------------------------------------------
(* Properties.                                                             *)

FlowTypeOK ==
  /\ stage \in FlowStages /\ backoff \in 1 .. MaxBackoff
  /\ interval \in 1 .. Longest /\ timer \in 0 .. Most({Longest, MaxBackoff})
  /\ left \in -1 .. Most(Lifetimes) /\ answer \in Answers \cup {None}
  /\ code \in Codes /\ wanted \in 1 .. Longest /\ slow \in 0 .. MaxSlow
  /\ rest \in 0 .. Longest /\ tried \in BOOLEAN

\* "Poll at exactly the advertised interval; if that turns out to be too eager,
\* Yandex answers slow_down and the loop backs off" (deviceflow.go:162-163): no poll
\* comes sooner after the one before than Yandex has told the bridge, in any answer
\* that was not lost.
PollsKeepTheirDistance == stage = "asking" /\ answer = None => rest >= wanted

\* Even a code whose lifetime is shorter than its interval is polled
\* (deviceflow.go:172-174): none is given up untried.
EveryCodeIsTried == stage = "coding" /\ code # "none" => tried

\* An unattended bridge comes through: whatever codes expire, polls get lost and
\* requests fail, Authorize ends, once someone enters the codes in time or the
\* process is stopped.
AuthorizeEnds == stage = "coding" ~> stage \in {"granted", "stopped"}

\* "Requesting a new one whenever the previous expires unconfirmed"
\* (deviceflow.go:218-220).  The code does not have it.
OnlyUnconfirmedIsReplaced ==
  [][stage = "asking" /\ stage' = "coding" => code \notin {"confirmed", "spent"}]_flowVars

\* "It returns only on success or when ctx ends" (deviceflow.go:219-220).  The code
\* does not have it.
ReturnsOnlyOnSuccess == stage # "stopped"
=============================================================================
