------------------------------- MODULE Health -------------------------------
(***************************************************************************)
(* Bridge Health of internal/bridge/health.go: the problems it knows of    *)
(* and the contact sensor it paints them on, fed by every goroutine that   *)
(* talks to Yandex.                                                        *)
(*                                                                         *)
(* The poll goroutine and the flush goroutines count failures under s.mu   *)
(* and call the observer after releasing it; Report and Clear change       *)
(* problems under h.mu and call refresh after releasing it; refresh counts *)
(* the problems under h.mu and paints after releasing it.  Each of these   *)
(* is a step, and any other goroutine may run between two of them.         *)
(***************************************************************************)
EXTENDS Naturals

CONSTANT Writers  \* the accessories whose flush goroutine may run

Goroutines == {"poll", "ticker", "supervisor"} \cup Writers

ASSUME NamesAssumption == Writers \cap {"poll", "ticker", "supervisor"} = {}

\* PollFailed's own threshold: no setting changes it.
AlarmAfter == 2

\* One more failure above the cap changes nothing.
FailureCap == AlarmAfter + 1

Clouds == {"up", "refusing", "down"}

VARIABLES cloud,    \* "up": requests are answered; "refusing": polls are, and a
                    \* write is or gets an HTTP error; "down": none is answered
          token,    \* Status().Healthy() of the token source
          failures, \* Syncer.failures, up to FailureCap
          problems, \* Health.problems, by category
          contact,  \* the contact sensor: "closed" is healthy
          found,    \* has initialSpecs had its answer?
          task      \* what each goroutine is doing, see Task

vars == <<cloud, token, failures, problems, contact, found, task>>

Task == [at      : {"idle", "observer", "refresh", "paint"},
         news    : {"ok", "blip", "failing", "tokenOK", "tokenBad"},
         healthy : BOOLEAN]  \* what refresh read under h.mu

Idle == [at |-> "idle", news |-> "ok", healthy |-> TRUE]

Tells(g, news) == task' = [task EXCEPT ![g] = [Idle EXCEPT !.at = "observer", !.news = news]]

\* Of a goroutine only what it will still use is kept.
Goes(g, stage) == task' = [task EXCEPT ![g] = [Idle EXCEPT !.at = stage]]

Init ==
  /\ cloud \in Clouds /\ token \in BOOLEAN
  /\ failures = 0
  /\ problems = {} /\ contact = "closed"
  /\ found = FALSE
  /\ task = [g \in Goroutines |-> Idle]

-----------------------------------------------------------------------------
(* The world.                                                              *)

CloudChanges ==
  /\ cloud' \in Clouds \ {cloud}
  /\ UNCHANGED <<token, failures, problems, contact, found, task>>

TokenChanges ==
  /\ token' = ~token
  /\ UNCHANGED <<cloud, failures, problems, contact, found, task>>

-----------------------------------------------------------------------------
(* The goroutines that bring news.                                         *)

\* Those whose requests tell the observer; accessories come after initialSpecs.
Callers == {"poll"} \cup (IF found THEN Writers ELSE {})

\* mutant: the observer hears of a success only after a failure
SucceedsSilently(g) ==
  /\ g \in Callers
  /\ task[g].at = "idle" /\ cloud # "down"
  /\ failures' = 0
  /\ IF failures = 0 THEN task' = task ELSE Tells(g, "ok")
  /\ UNCHANGED <<cloud, token, problems, contact, found>>

\* markReachable after a poll or a write, up to the observer's call.
Succeeds(g) ==
  /\ g \in Callers
  /\ task[g].at = "idle" /\ cloud # "down"
  /\ failures' = 0
  /\ Tells(g, "ok")
  /\ UNCHANGED <<cloud, token, problems, contact, found>>

\* mutant: only the failure that reaches the threshold is told
NewsOnceOnly(count) == IF count = AlarmAfter THEN "failing" ELSE "blip"

\* What PollFailed makes of the count it is given.
NewsOf(count) == IF count >= AlarmAfter THEN "failing" ELSE "blip"

\* markUnreachable after a poll, or after a write that was not answered with a
\* DeviceError, up to the observer's call.
Fails(g) ==
  LET count == IF failures < FailureCap THEN failures + 1 ELSE failures IN
  /\ g \in Callers
  /\ task[g].at = "idle"
  /\ IF g = "poll" THEN cloud = "down" ELSE cloud # "up"
  /\ failures' = count
  /\ Tells(g, NewsOf(count))
  /\ UNCHANGED <<cloud, token, problems, contact, found>>

\* initialSpecs gets no answer: it calls Report(problemPoll), at the first
\* failure, and tries again after its backoff.
DiscoveryFails ==
  /\ ~found
  /\ task["supervisor"].at = "idle" /\ cloud = "down"
  /\ Tells("supervisor", "failing")
  /\ UNCHANGED <<cloud, token, failures, problems, contact, found>>

\* initialSpecs gets its answer, and tells nobody.
Discovered ==
  /\ ~found
  /\ task["supervisor"].at = "idle" /\ cloud # "down"
  /\ found' = TRUE
  /\ UNCHANGED <<cloud, token, failures, problems, contact, task>>

\* Health.Run's ticker reads the token status.  (After a Clear, Refresh paints
\* a second time; the ticker's next round stands for it.)
Tick ==
  /\ task["ticker"].at = "idle"
  /\ Tells("ticker", IF token THEN "tokenOK" ELSE "tokenBad")
  /\ UNCHANGED <<cloud, token, failures, problems, contact, found>>

-----------------------------------------------------------------------------
(* Report, Clear and refresh.                                              *)

\* mutant: Clear empties the map
ProblemsAllCleared(news) ==
  CASE news \in {"ok", "tokenOK"} -> {}
    [] news = "failing"  -> problems \cup {"poll"}
    [] news = "tokenBad" -> problems \cup {"auth"}
    [] OTHER             -> problems

\* The problems after Report or Clear.
ProblemsAfter(news) ==
  CASE news = "ok"       -> problems \ {"poll"}
    [] news = "failing"  -> problems \cup {"poll"}
    [] news = "tokenOK"  -> problems \ {"auth"}
    [] news = "tokenBad" -> problems \cup {"auth"}
    [] OTHER             -> problems

\* PollSucceeded, PollFailed and Refresh, the part under h.mu.  After a blip
\* PollFailed returns at once.
Observe(g) ==
  /\ task[g].at = "observer"
  /\ problems' = ProblemsAfter(task[g].news)
  /\ Goes(g, IF task[g].news = "blip" THEN "idle" ELSE "refresh")
  /\ UNCHANGED <<cloud, token, failures, contact, found>>

\* refresh counts the problems under h.mu ...
Refresh(g) ==
  /\ task[g].at = "refresh"
  /\ task' = [task EXCEPT ![g] = [Idle EXCEPT !.at = "paint", !.healthy = (problems = {})]]
  /\ UNCHANGED <<cloud, token, failures, problems, contact, found>>

\* ... and sets the characteristics after releasing it.
Paint(g) ==
  /\ task[g].at = "paint"
  /\ contact' = IF task[g].healthy THEN "closed" ELSE "open"
  /\ Goes(g, "idle")
  /\ UNCHANGED <<cloud, token, failures, problems, found>>

\* serve: Rebuild makes a new, closed contact sensor, then calls refresh.  The
\* HAP server that shows it starts when the supervisor is idle again.
Rebuild ==
  /\ found
  /\ task["supervisor"].at = "idle"
  /\ contact' = "closed"
  /\ Goes("supervisor", "refresh")
  /\ UNCHANGED <<cloud, token, failures, problems, found>>

Continue(g) == Observe(g) \/ Refresh(g) \/ Paint(g)

Next ==
  \/ CloudChanges
  \/ TokenChanges
  \/ \E g \in Goroutines : Succeeds(g)
  \/ \E g \in Goroutines : Fails(g)
  \/ DiscoveryFails
  \/ Discovered
  \/ Tick
  \/ \E g \in Goroutines : Observe(g)
  \/ \E g \in Goroutines : Refresh(g)
  \/ \E g \in Goroutines : Paint(g)
  \/ Rebuild

Spec == Init /\ [][Next]_vars

\* Both tickers fire for ever, requests end (the client has timeouts) and no
\* goroutine is starved.  Nothing makes a user write, initialSpecs or a rebuild
\* happen.
Fairness ==
  /\ WF_vars(Succeeds("poll") \/ Fails("poll"))
  /\ WF_vars(Tick)
  /\ \A g \in Goroutines : WF_vars(Continue(g))

FairSpec == Spec /\ Fairness

-----------------------------------------------------------------------------
(* Properties.                                                             *)

\* The fields keep their types, and a goroutine is only where its code goes:
\* the ticker brings the token's news, the others the link's, and the
\* supervisor only that initialSpecs failed.
TypeOK ==
  /\ cloud \in Clouds /\ token \in BOOLEAN /\ found \in BOOLEAN
  /\ failures \in 0 .. FailureCap
  /\ problems \subseteq {"poll", "auth"}
  /\ contact \in {"open", "closed"}
  /\ task \in [Goroutines -> Task]
  /\ task["supervisor"].at = "observer" =>
       ~found /\ task["supervisor"].news = "failing"
  /\ \A g \in Goroutines : task[g].at = "observer" =>
       (task[g].news \in {"tokenOK", "tokenBad"} <=> g = "ticker")

\* What a paired controller reads: between Rebuild and the end of serve there
\* is no HAP server to read from.
Shows(state) == task["supervisor"].at = "idle" => contact = state

\* A lasting outage opens the sensor for good: no success told late, no stale
\* repaint and no rebuild shows a healthy bridge (health.go:101-103, 169-176).
OutageShows == <>[](cloud = "down") => <>[]Shows("open")

\* So does a token that stays unusable, whatever polls and writes report
\* meanwhile (health.go:206, "so a token problem shows up even when nothing
\* else happens").
TokenTroubleShows == <>[](~token) => <>[]Shows("open")

\* When Yandex answers and the token is good, the sensor closes for good: a
\* failure told late, by a poll, a write or initialSpecs, does not keep it open.
RecoveryShows == <>[](cloud = "up" /\ token) => <>[]Shows("closed")

\* "refresh pushes the current problem set into the characteristics"
\* (health.go:225): when nobody is at work, the sensor shows the problems.
\* It does not: of two goroutines in refresh, the one that counted first may
\* paint last.  The next refresh repairs that.
ContactShowsProblems ==
  (\A g \in Goroutines : task[g].at = "idle") => (contact = "closed" <=> problems = {})
=============================================================================
