--------------------------- MODULE ProcessProofs ---------------------------
(***************************************************************************)
(* The device flow keeps the distance Yandex asks for and polls every code *)
(* once, and a process that nobody stopped ends with an error: for any     *)
(* advertised intervals and lifetimes, any backoff and any number of       *)
(* slow_down answers.                                                      *)
(***************************************************************************)
EXTENDS Process, TLAPS

-----------------------------------------------------------------------------
(* The flow.                                                               *)

\* A slow_down that has not arrived has lengthened Yandex' interval only.
Lag == IF answer = "slow_down" THEN 1 ELSE 0

\* The bridge's interval keeps up with what Yandex has told it, and both with
\* the bound.
KeepsUp ==
  /\ interval \in Nat /\ 1 <= interval /\ wanted \in Nat
  /\ wanted - Lag <= interval /\ 1 + Lag <= wanted
  /\ interval + Lag <= Most(Intervals) + slow
  /\ wanted <= Most(Intervals) + slow
  /\ slow \in Nat /\ slow <= MaxSlow
  /\ answer # None => stage = "asking"

\* What Yandex has not seen of the interval, the timer still has before it.
Rested ==
  /\ rest \in Nat /\ rest <= Longest
  /\ stage = "waiting" => interval <= rest + timer
  /\ stage = "asking" /\ answer = None => interval <= rest

\* Only a code that waits for its first poll is untried.
Tried == code # "none" /\ stage # "waiting" => tried

Kinds == stage \in FlowStages /\ answer \in Answers \cup {None} /\ code \in Codes /\ tried \in BOOLEAN

LongestSleep == Most({Longest, MaxBackoff})

Times ==
  /\ backoff \in Nat /\ 1 <= backoff /\ backoff <= MaxBackoff
  /\ timer \in Nat /\ timer <= LongestSleep
  /\ left \in Int /\ -1 <= left /\ left <= Most(Lifetimes)

FlowInv == Kinds /\ Times /\ KeepsUp /\ Rested /\ Tried

\* Most is the largest of a finite set of times.
LEMMA MostOf ==
  ASSUME NEW S \in {Intervals, Lifetimes}
  PROVE  Most(S) \in S /\ \A k \in S : k <= Most(S)
BY LongestAssumption DEF Most

\* So every interval and every lifetime is within bounds.
LEMMA EachTime ==
  /\ \A i \in Intervals : i \in Nat /\ 1 <= i /\ i <= Most(Intervals)
  /\ \A l \in Lifetimes : l \in Nat /\ 1 <= l /\ l <= Most(Lifetimes)
<1>1. Intervals \subseteq Nat \ {0} /\ Lifetimes \subseteq Nat \ {0}
  BY TimesAssumption
<1> QED
  BY <1>1, MostOf

\* The types of the constants.
LEMMA Constants ==
  /\ Most(Intervals) \in Nat /\ 1 <= Most(Intervals)
  /\ Most(Lifetimes) \in Nat
  /\ MaxSlow \in Nat /\ MaxBackoff \in Nat /\ 1 <= MaxBackoff
  /\ Longest \in Nat /\ Longest = Most(Intervals) + MaxSlow
<1>1. MaxSlow \in Nat /\ MaxBackoff \in Nat /\ 1 <= MaxBackoff
  BY TimesAssumption
<1>2. Most(Intervals) \in Nat /\ 1 <= Most(Intervals) /\ Most(Lifetimes) \in Nat
  BY MostOf, EachTime
<1> QED
  BY <1>1, <1>2 DEF Longest

\* The longest sleep is longer than every one of them.
LEMMA SleepsAreBounded ==
  LongestSleep \in Nat /\ Longest <= LongestSleep /\ MaxBackoff <= LongestSleep
<1>1. \E n \in {Longest, MaxBackoff} : \A k \in {Longest, MaxBackoff} : k <= n
  BY Constants
<1> QED
  BY <1>1, Constants DEF LongestSleep, Most

\* The invariant of the flow gives the types of its state.
LEMMA InvImpliesTypes == FlowInv => FlowTypeOK
<1> SUFFICES ASSUME FlowInv PROVE FlowTypeOK
  OBVIOUS
<1>1. backoff \in 1 .. MaxBackoff /\ timer \in 0 .. LongestSleep /\ left \in -1 .. Most(Lifetimes)
  BY Constants, SleepsAreBounded DEF FlowInv, Times
<1>2. Lag \in {0, 1}
  BY DEF Lag
<1>3. interval \in 1 .. Longest /\ wanted \in 1 .. Longest /\ slow \in 0 .. MaxSlow
  BY <1>2, Constants DEF FlowInv, KeepsUp
<1>4. rest \in 0 .. Longest
  BY Constants DEF FlowInv, Rested
<1> QED
  BY <1>1, <1>3, <1>4 DEF FlowInv, Kinds, FlowTypeOK, LongestSleep

\* The flow starts without a code.
LEMMA InitialFlow == FlowInit => FlowInv
<1> SUFFICES ASSUME FlowInit PROVE FlowInv
  OBVIOUS
<1>1. Kinds /\ Tried
  BY DEF FlowInit, Kinds, Tried, FlowStages, Codes
<1>2. Times
  BY Constants, SleepsAreBounded DEF FlowInit, Times
<1>3. Lag = 0
  BY NoneAssumption DEF FlowInit, Lag, Answers
<1>4. KeepsUp /\ Rested
  BY <1>3, Constants DEF FlowInit, KeepsUp, Rested
<1> QED
  BY <1>1, <1>2, <1>4 DEF FlowInv

-----------------------------------------------------------------------------
(* The clock, the user, Yandex.                                            *)

\* Time passes for the sleep, the code and the pause between polls alike.
LEMMA TickKeepsInv == ASSUME FlowInv, Tick PROVE FlowInv'
<1> USE DEF FlowInv
<1>1. UNCHANGED <<stage, backoff, interval, answer, code, wanted, slow, tried>>
  BY DEF Tick, local
<1>2. Kinds' /\ Tried' /\ KeepsUp'
  BY <1>1 DEF Kinds, Tried, KeepsUp, Lag
<1>3. Times'
  BY <1>1, Constants, SleepsAreBounded DEF Tick, Times
<1>4. rest' = Least(rest + 1, Longest) /\ (stage = "waiting" => timer > 0 /\ timer' = timer - 1)
  BY DEF Tick
<1>5. interval \in Nat /\ interval <= Longest /\ Longest \in Nat
  BY Constants DEF KeepsUp, Lag
<1>6. timer \in Nat /\ timer' \in Nat
  BY <1>3 DEF Times
<1>7. rest' \in Nat /\ rest' <= Longest /\ (rest' = rest + 1 \/ rest' = Longest)
  BY <1>4, <1>5 DEF Rested, Least
<1>8. Rested'
  <2>1. CASE stage = "waiting"
    BY <2>1, <1>1, <1>4, <1>5, <1>6, <1>7 DEF Rested
  <2>2. CASE stage # "waiting"
    BY <2>2, <1>1, <1>5, <1>7 DEF Rested
  <2> QED
    BY <2>1, <2>2
<1> QED
  BY <1>2, <1>3, <1>8

\* The user decides about the code, or it dies at Yandex.
LEMMA CodeTurnsKeepsInv ==
  ASSUME FlowInv, UserConfirms \/ UserDenies \/ CodeDies
  PROVE  FlowInv'
<1>1. UNCHANGED <<stage, backoff, interval, timer, left, answer, wanted, slow, rest, tried>>
      /\ code \in {"open", "confirmed"} /\ code' \in Codes
  BY DEF UserConfirms, UserDenies, CodeDies, Turns, local, Codes
<1> QED
  BY <1>1 DEF FlowInv, Kinds, Times, KeepsUp, Lag, Rested, Tried

\* Yandex answers the poll that is on its way.
LEMMA ArrivalKeepsInv == ASSUME FlowInv, NEW a \in Answers, Arrives(a) PROVE FlowInv'
<1> USE DEF FlowInv
<1>1. /\ stage = "asking" /\ answer = None /\ answer' = a /\ rest' = 0
      /\ UNCHANGED <<stage, backoff, interval, timer, left, tried>>
  BY DEF Arrives, local
<1>2. code' \in Codes /\ (code' # "none" => code # "none")
  BY DEF Arrives, Kinds, Codes
<1>3. answer' # None /\ Lag = 0
  BY <1>1, NoneAssumption DEF Lag, Answers
<1>4. Kinds' /\ Times' /\ Tried'
  BY <1>1, <1>2 DEF Kinds, Times, Tried
<1>5. Rested'
  BY <1>1, <1>3, Constants DEF Rested
<1>6. KeepsUp'
  <2>1. CASE a = "slow_down"
    <3>1. Lag' = 1 /\ slow' = slow + 1 /\ wanted' = wanted + 1 /\ slow < MaxSlow
      BY <1>1, <2>1 DEF Lag, Arrives
    <3> QED
      BY <1>1, <1>3, <3>1, Constants DEF KeepsUp
  <2>2. CASE a # "slow_down"
    <3>1. Lag' = 0 /\ slow' = slow /\ wanted' = wanted
      BY <1>1, <2>2 DEF Lag, Arrives
    <3> QED
      BY <1>1, <1>3, <3>1, Constants DEF KeepsUp
  <2> QED
    BY <2>1, <2>2
<1> QED
  BY <1>4, <1>5, <1>6

-----------------------------------------------------------------------------
(* Authorize and Poll.                                                     *)

\* A code arrives with an interval and a lifetime (deviceflow.go:128-154).
LEMMA IssueKeepsInv ==
  ASSUME FlowInv, NEW i \in Intervals, NEW l \in Lifetimes, CodeIssued(i, l)
  PROVE  FlowInv'
<1> USE DEF FlowInv
<1>1. answer = None /\ answer' = None
  BY DEF CodeIssued, KeepsUp
<1>2. Lag' = 0
  BY <1>1, NoneAssumption DEF Lag, Answers
<1>3. Kinds' /\ Tried'
  BY <1>1 DEF CodeIssued, Kinds, Tried, FlowStages, Codes
<1>4. /\ stage' = "waiting" /\ backoff' = 1 /\ interval' = i /\ timer' = i /\ left' = l
      /\ wanted' = i /\ slow' = 0 /\ rest' = 0
  BY DEF CodeIssued
<1>5. Times'
  BY <1>4, EachTime, Constants, SleepsAreBounded DEF Times
<1>6. KeepsUp' /\ Rested'
  BY <1>1, <1>2, <1>4, EachTime, Constants DEF KeepsUp, Rested
<1> QED
  BY <1>3, <1>5, <1>6

\* The flow ends.
LEMMA ReturnKeepsInv ==
  ASSUME NEW as \in {"granted", "stopped"}, Returns(as)
  PROVE  FlowInv'
<1>1. Kinds' /\ Tried'
  BY DEF Returns, Kinds, Tried, FlowStages, Codes
<1>2. Lag' = 0
  BY NoneAssumption DEF Returns, Lag, Answers
<1>3. /\ backoff' = 1 /\ interval' = 1 /\ timer' = 0 /\ left' = -1 /\ answer' = None
      /\ wanted' = 1 /\ slow' = 0 /\ rest' = 0 /\ stage' \notin {"waiting", "asking"}
  BY DEF Returns
<1>4. Times' /\ KeepsUp' /\ Rested'
  BY <1>2, <1>3, Constants, SleepsAreBounded DEF Times, KeepsUp, Rested
<1> QED
  BY <1>1, <1>4 DEF FlowInv

\* The stage and a timer, or the backoff, and nothing of the code.
LEMMA BackoffKeepsInv ==
  ASSUME FlowInv, CodeFails \/ BackoffEnds \/ Authorize
  PROVE  FlowInv'
<1> USE DEF FlowInv
<1>1. /\ UNCHANGED <<interval, left, answer, code, wanted, slow, rest, tried>>
      /\ stage \in {"coding", "backing_off", "idle"} /\ stage' \in {"coding", "backing_off"}
  BY DEF CodeFails, BackoffEnds, Authorize, local, yandex
<1>2. Kinds' /\ Tried' /\ KeepsUp' /\ Rested'
  BY <1>1 DEF Kinds, Tried, KeepsUp, Rested, Lag, FlowStages
<1>3. Times'
  <2>1. CASE CodeFails
    <3>1. timer' = backoff /\ backoff' = Least(2 * backoff, MaxBackoff) /\ left' = left
      BY <2>1 DEF CodeFails
    <3> QED
      BY <3>1, Constants, SleepsAreBounded DEF Times, Least
  <2>2. CASE BackoffEnds \/ Authorize
    BY <2>2 DEF BackoffEnds, Authorize, local, Times
  <2> QED
    BY <2>1, <2>2
<1> QED
  BY <1>2, <1>3

\* The sleep is over and the code is polled.
LEMMA AskKeepsInv == ASSUME FlowInv, Ask PROVE FlowInv'
<1> USE DEF FlowInv
<1>1. /\ UNCHANGED <<backoff, interval, timer, left, answer, code, wanted, slow, rest>>
      /\ stage = "waiting" /\ timer = 0 /\ stage' = "asking" /\ tried' = TRUE
  BY DEF Ask, local, yandex
<1>2. Kinds' /\ Tried' /\ Times' /\ KeepsUp'
  BY <1>1 DEF Kinds, Tried, Times, KeepsUp, Lag, FlowStages
<1>3. Rested'
  BY <1>1 DEF Rested, KeepsUp
<1> QED
  BY <1>2, <1>3

\* The next sleep is as long as the interval, and the interval has caught up.
LEMMA NextWaitKeepsInv ==
  ASSUME FlowInv, stage = "asking", NEW i \in {interval, interval + 1}, NextWait(i),
         wanted' \in Nat, 1 <= wanted', wanted' <= i, wanted' <= wanted,
         i <= Most(Intervals) + slow
  PROVE  FlowInv'
<1> USE DEF FlowInv
<1>1. /\ interval' = i /\ answer' = None
      /\ UNCHANGED <<backoff, left, code, slow, rest, tried>>
      /\ \/ stage' = "waiting" /\ timer' = i
         \/ stage' = "coding" /\ timer' = 0
  BY DEF NextWait, Abandon
<1>2. Lag' = 0
  BY <1>1, NoneAssumption DEF Lag, Answers
<1>3. i \in Nat /\ 1 <= i /\ i <= Longest
  BY Constants DEF KeepsUp
<1>4. Kinds' /\ Tried'
  BY <1>1 DEF Kinds, Tried, FlowStages
<1>5. Times'
  BY <1>1, <1>3, Constants, SleepsAreBounded DEF Times
<1>6. KeepsUp'
  <2>1. slow \in Nat /\ slow <= MaxSlow
    BY DEF KeepsUp
  <2>2. wanted' <= Most(Intervals) + slow
    BY <1>3, <2>1, Constants
  <2>3. wanted' - Lag' <= i /\ 1 + Lag' <= wanted'
    BY <1>2
  <2>5. i + Lag' <= Most(Intervals) + slow
    BY <1>2, <1>3, <2>1, Constants
  <2>4. interval' = i /\ slow' = slow /\ answer' = None
    BY <1>1
  <2> QED
    BY <1>3, <2>1, <2>2, <2>3, <2>4, <2>5 DEF KeepsUp
<1>7. Rested'
  BY <1>1, <1>3 DEF Rested
<1> QED
  BY <1>4, <1>5, <1>6, <1>7

\* The answer sets the next sleep, or ends the code.
LEMMA AnswerKeepsInv ==
  ASSUME FlowInv, Granted \/ Pending \/ SlowDown \/ Lost \/ Expired \/ Refused
  PROVE  FlowInv'
<1> USE DEF FlowInv
<1>1. CASE Granted \/ Refused
  BY <1>1, ReturnKeepsInv DEF Granted, Refused
<1>2. CASE Pending
  <2>1. stage = "asking" /\ Lag = 0 /\ NextWait(interval) /\ wanted' = wanted
    BY <1>2 DEF Pending, Got, Lag
  <2> QED
    BY <2>1, NextWaitKeepsInv, Constants DEF KeepsUp
<1>3. CASE SlowDown
  <2>1. stage = "asking" /\ Lag = 1 /\ NextWait(interval + 1) /\ wanted' = wanted
    BY <1>3 DEF SlowDown, Got, Lag
  <2> QED
    BY <2>1, NextWaitKeepsInv, Constants DEF KeepsUp
<1>4. CASE Lost
  <2>1. stage = "asking" /\ Lag \in {0, 1} /\ NextWait(interval) /\ wanted' = wanted - Lag
    BY <1>4 DEF Lost, Got, Lag, KeepsUp
  <2> QED
    BY <2>1, NextWaitKeepsInv, Constants DEF KeepsUp
<1>5. CASE Expired
  <2>1. /\ stage = "asking" /\ stage' = "coding" /\ timer' = 0 /\ answer' = None /\ Lag = 0
        /\ UNCHANGED <<backoff, interval, left, code, wanted, slow, rest, tried>>
    BY <1>5 DEF Expired, Got, Abandon, local, yandex, Lag
  <2>2. Lag' = 0
    BY <2>1, NoneAssumption DEF Lag, Answers
  <2>3. Kinds' /\ Tried' /\ Rested'
    BY <2>1 DEF Kinds, Tried, Rested, FlowStages
  <2>4. Times' /\ KeepsUp'
    BY <2>1, <2>2, Constants, SleepsAreBounded DEF Times, KeepsUp
  <2> QED
    BY <2>3, <2>4
<1> QED
  BY <1>1, <1>2, <1>3, <1>4, <1>5

\* Every step of the flow keeps its invariant.
LEMMA FlowKeepsInv == ASSUME FlowInv, FlowNext PROVE FlowInv'
<1>1. CodeRefused \/ Cut => Returns("stopped")
  BY DEF CodeRefused, Cut
<1> QED
  BY <1>1, TickKeepsInv, CodeTurnsKeepsInv, ArrivalKeepsInv, IssueKeepsInv, ReturnKeepsInv,
     BackoffKeepsInv, AskKeepsInv, AnswerKeepsInv
     DEF FlowNext

-----------------------------------------------------------------------------
(* The process.                                                            *)

FlowIsPartOfTheStart == stage \notin {"idle", "granted", "stopped"} => main = "authorizing"

ServerFitsTheStage == hap # "none" => main \in {"serving", "stopping_server", "replacing_server"}

\* Without a signal only the end of run itself is told to stop, and it has an
\* error to return by then.
EndsForAReason ==
  ~signalled =>
    /\ ctx = "done" => main \in {"waiting", "exited"}
    /\ main # "stopping_server"
    /\ main \in {"returned", "waiting", "exited"} => failed

RunTypeOK ==
  /\ main \in Stages /\ ctx \in {"live", "done"}
  /\ running \subseteq Early \cup Late
  /\ hap \in {"none", "serving", "ended"}
  /\ {failed, signalled} \subseteq BOOLEAN
  /\ signalled => ctx = "done"

RunInv == RunTypeOK /\ FlowIsPartOfTheStart /\ ServerFitsTheStage /\ EndsForAReason

\* The process starts with nothing running.
LEMMA InitialRun == Init => RunInv
BY DEF Init, FlowInit, RunInv, RunTypeOK, FlowIsPartOfTheStart, ServerFitsTheStage, EndsForAReason,
       Stages

\* A step of the flow leaves the process where it is.
LEMMA FlowKeepsRun == ASSUME RunInv, main = "authorizing", UNCHANGED runVars PROVE RunInv'
BY DEF runVars, RunInv, RunTypeOK, FlowIsPartOfTheStart, ServerFitsTheStage, EndsForAReason

\* What happens to the process from outside, and what its tasks do.
LEMMA OutsideKeepsRun ==
  ASSUME RunInv,
         Signal \/ StatusServerStops \/ HapEnds \/ \E t \in Early \cup Late : TaskEnds(t)
  PROVE  RunInv'
<1>1. CASE Signal
  BY <1>1 DEF Signal, flowVars, RunInv, RunTypeOK, FlowIsPartOfTheStart, ServerFitsTheStage,
              EndsForAReason
<1>2. CASE HapEnds
  BY <1>2 DEF HapEnds, flowVars, RunInv, RunTypeOK, FlowIsPartOfTheStart, ServerFitsTheStage,
              EndsForAReason
<1>3. CASE StatusServerStops \/ \E t \in Early \cup Late : TaskEnds(t)
  <2>1. running' \subseteq running /\ UNCHANGED <<stage, main, ctx, hap, failed, signalled>>
    BY <1>3 DEF StatusServerStops, TaskEnds, flowVars
  <2> QED
    BY <2>1 DEF RunInv, RunTypeOK, FlowIsPartOfTheStart, ServerFitsTheStage, EndsForAReason
<1> QED
  BY <1>1, <1>2, <1>3

\* The start, and a start that fails: whether it was told to is looked at before
\* it tells the others.
LEMMA StartKeepsRun ==
  ASSUME RunInv, Authorized \/ NotAuthorized \/ Decide \/ Served \/ CutShort \/ ServeFails
  PROVE  RunInv'
<1> USE DEF flowVars, RunInv, RunTypeOK, FlowIsPartOfTheStart, ServerFitsTheStage,
            EndsForAReason, Stages
<1>1. CASE Authorized
  BY <1>1 DEF Authorized
<1>2. CASE NotAuthorized
  BY <1>2 DEF NotAuthorized
<1>3. CASE Decide
  BY <1>3 DEF Decide
<1>4. CASE Served \/ CutShort
  BY <1>4 DEF Served, CutShort
<1>5. CASE ServeFails
  BY <1>5 DEF ServeFails
<1> QED
  BY <1>1, <1>2, <1>3, <1>4, <1>5

\* The rounds of the HAP server, and the end.
LEMMA ServingKeepsRun ==
  ASSUME RunInv,
         \/ StopServer \/ ServerStopped \/ ServerGone \/ Rebuild \/ ServerReplaced \/ ServeAgain
         \/ Stop \/ Exit
  PROVE  RunInv'
<1> USE DEF flowVars, RunInv, RunTypeOK, FlowIsPartOfTheStart, ServerFitsTheStage,
            EndsForAReason, Stages
<1>1. CASE StopServer \/ Rebuild
  BY <1>1 DEF StopServer, Rebuild
<1>2. CASE ServerStopped \/ ServerReplaced
  BY <1>2 DEF ServerStopped, ServerReplaced
<1>3. CASE ServerGone
  BY <1>3 DEF ServerGone
<1>4. CASE ServeAgain
  BY <1>4 DEF ServeAgain
<1>5. CASE Stop \/ Exit
  BY <1>5 DEF Stop, Exit
<1> QED
  BY <1>1, <1>2, <1>3, <1>4, <1>5

-----------------------------------------------------------------------------
(* The theorems.                                                           *)

Inv == FlowInv /\ RunInv /\ refreshing \in BOOLEAN

\* A refresh begins, or ends.
LEMMA RefreshKeepsRun ==
  ASSUME RunInv, RefreshBegins \/ RefreshEnds
  PROVE  RunInv' /\ refreshing' \in BOOLEAN
<1>1. refreshing' \in BOOLEAN
  BY Zenon DEF RefreshBegins, RefreshEnds
<1>2. UNCHANGED <<stage, main, ctx, running, hap, failed, signalled>>
  BY DEF RefreshBegins, RefreshEnds, flowVars
<1> QED
  BY <1>1, <1>2
     DEF RunInv, RunTypeOK, FlowIsPartOfTheStart, ServerFitsTheStage, EndsForAReason

\* Every step of the process keeps both invariants.
LEMMA StepKeepsInv == ASSUME Inv, [Next]_vars PROVE Inv'
<1>1. CASE Authorizing(FlowNext)
  <2>1. UNCHANGED refreshing
    BY <1>1 DEF Authorizing, runVars
  <2>2. refreshing' \in BOOLEAN
    BY <2>1, Zenon DEF Inv
  <2> QED
    BY <1>1, <2>2, FlowKeepsInv, FlowKeepsRun DEF Authorizing, Inv
<1>2. ASSUME UNCHANGED flowVars PROVE FlowInv'
  BY <1>2
     DEF flowVars, local, yandex, Inv, FlowInv, Kinds, Times, KeepsUp, Rested, Tried, Lag
<1>3. CASE Next /\ ~Authorizing(FlowNext) /\ ~Exited
  <2>1. UNCHANGED flowVars
    BY <1>3
       DEF Next, Signal, StatusServerStops, HapEnds, RefreshBegins, RefreshEnds, TaskEnds,
           Authorized, NotAuthorized, Decide, Served, CutShort, ServeFails, StopServer,
           ServerStopped, ServerGone, Rebuild, ServerReplaced, ServeAgain, Stop, Exit
  <2>2. CASE RefreshBegins \/ RefreshEnds
    BY <1>2, <2>1, <2>2, RefreshKeepsRun DEF Inv
  <2>3. CASE ~(RefreshBegins \/ RefreshEnds)
    <3>1. UNCHANGED refreshing
      BY <1>3, <2>3
         DEF Next, Signal, StatusServerStops, HapEnds, TaskEnds, Authorized, NotAuthorized,
             Decide, Served, CutShort, ServeFails, StopServer, ServerStopped, ServerGone,
             Rebuild, ServerReplaced, ServeAgain, Stop, Exit
    <3>2. refreshing' \in BOOLEAN
      BY <3>1, Zenon DEF Inv
    <3>3. RunInv'
      BY <1>3, <2>3, OutsideKeepsRun, StartKeepsRun, ServingKeepsRun DEF Next, Inv
    <3> QED
      BY <1>2, <2>1, <3>2, <3>3 DEF Inv
  <2> QED
    BY <2>2, <2>3
<1>4. CASE UNCHANGED vars
  <2>1. UNCHANGED flowVars /\ UNCHANGED <<stage, main, ctx, running, hap, failed, signalled>>
    BY <1>4 DEF vars, runVars, flowVars
  <2>2. UNCHANGED refreshing
    BY <1>4 DEF vars, runVars
  <2>3. refreshing' \in BOOLEAN
    BY <2>2, Zenon DEF Inv
  <2> QED
    BY <1>2, <2>1, <2>3
       DEF Inv, RunInv, RunTypeOK, FlowIsPartOfTheStart, ServerFitsTheStage, EndsForAReason
<1> QED
  BY <1>1, <1>3, <1>4 DEF Exited

\* The inductive invariant of the process and its device flow.
THEOREM Invariance == Spec => []Inv
<1>1. Init => Inv
  BY InitialFlow, InitialRun DEF Init, Inv
<1>2. Inv /\ [Next]_vars => Inv'
  BY StepKeepsInv
<1> QED
  BY <1>1, <1>2, PTL DEF Spec

\* The types of the state, and that server and authorization fit the stage of
\* run.
THEOREM TypeCorrect == Spec => []TypeOK
<1>1. Inv => TypeOK
  BY InvImpliesTypes
     DEF Inv, RunInv, RunTypeOK, FlowIsPartOfTheStart, ServerFitsTheStage, TypeOK
<1> QED
  BY <1>1, Invariance, PTL

\* A process that ends without a signal ends with an error, so that Docker starts
\* it again (main.go:126-131).
THEOREM FailureIsNoOrderlyExit == Spec => []OwnEndIsAnError
<1>1. Inv => OwnEndIsAnError
  BY DEF Inv, RunInv, EndsForAReason, OwnEndIsAnError
<1> QED
  BY <1>1, Invariance, PTL

\* No poll of a code comes sooner after the one before than Yandex has asked for,
\* however often it asks for more (deviceflow.go:162-189).
THEOREM PollsAreNeverTooEager == Spec => []PollsKeepTheirDistance
<1>1. FlowInv => PollsKeepTheirDistance
  <2> SUFFICES ASSUME FlowInv, stage = "asking", answer = None PROVE wanted <= rest
    BY DEF PollsKeepTheirDistance, FlowInv, KeepsUp, Rested
  <2>1. Lag = 0
    BY NoneAssumption DEF Lag, Answers
  <2> QED
    BY <2>1 DEF FlowInv, KeepsUp, Rested
<1> QED
  BY <1>1, Invariance, PTL DEF Inv

\* No code is given up before it has been polled once, even one that lives
\* shorter than the interval (deviceflow.go:172-174).
THEOREM NoCodeIsWasted == Spec => []EveryCodeIsTried
<1>1. FlowInv => EveryCodeIsTried
  BY DEF FlowInv, Tried, EveryCodeIsTried
<1> QED
  BY <1>1, Invariance, PTL DEF Inv

-----------------------------------------------------------------------------
(* The end: run never waits for what was not told to stop.                 *)

WaitsForTheTold ==
  /\ main \in {"waiting", "exited"} => ctx = "done"
  /\ main \in {"serving", "stopping_server", "replacing_server"} => hap # "none"
  /\ failed => main \in {"returned", "waiting", "exited"}
  /\ main = "exited" => running = {}

\* No step of the process breaks it.
LEMMA StepKeepsWaits == ASSUME Inv, WaitsForTheTold, [Next]_vars PROVE WaitsForTheTold'
<1> USE DEF WaitsForTheTold, flowVars, runVars
<1>1. CASE Signal \/ StatusServerStops \/ HapEnds \/ (\E t \in Early \cup Late : TaskEnds(t))
  BY <1>1 DEF Signal, StatusServerStops, HapEnds, TaskEnds
<1>2. CASE Authorizing(FlowNext) \/ UNCHANGED vars
  BY <1>2 DEF Authorizing, vars
<1>3. CASE Authorized \/ NotAuthorized \/ Decide \/ Served \/ CutShort \/ ServeFails
  <2>1. CASE Authorized \/ NotAuthorized
    BY <2>1 DEF Authorized, NotAuthorized
  <2>2. CASE Decide \/ Served
    BY <2>2 DEF Decide, Served
  <2>3. CASE CutShort \/ ServeFails
    BY <2>3 DEF CutShort, ServeFails
  <2> QED
    BY <1>3, <2>1, <2>2, <2>3
<1>4. CASE StopServer \/ ServerStopped \/ ServerGone
  BY <1>4 DEF StopServer, ServerStopped, ServerGone
<1>5. CASE Rebuild \/ ServerReplaced \/ ServeAgain
  BY <1>5 DEF Rebuild, ServerReplaced, ServeAgain
<1>6. CASE Stop \/ Exit
  BY <1>6 DEF Stop, Exit
<1>7. CASE RefreshBegins \/ RefreshEnds
  BY <1>7 DEF RefreshBegins, RefreshEnds
<1> QED
  BY <1>1, <1>2, <1>3, <1>4, <1>5, <1>6, <1>7 DEF Next, Exited

\* What run waits for was told to stop: its background tasks by stop, and there is
\* a server of this round whenever it waits for one (main.go:142-145,
\* supervisor.go:161-184).  A failure goes straight to the end, and no task is left
\* behind by it.  Of EndComes this is all but that everybody who was told returns, which
\* a refresh without an answer keeps them from.
THEOREM NobodyIsWaitedForUntold == Spec => []WaitsForTheTold
<1>1. Init => WaitsForTheTold
  BY DEF Init, WaitsForTheTold
<1>2. Inv /\ WaitsForTheTold /\ [Next]_vars => WaitsForTheTold'
  BY StepKeepsWaits
<1> QED
  BY <1>1, <1>2, Invariance, PTL DEF Spec
=============================================================================
