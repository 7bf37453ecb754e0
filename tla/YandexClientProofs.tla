------------------------ MODULE YandexClientProofs ------------------------
(***************************************************************************)
(* A call of the client for any policy, any capabilities and any number of *)
(* calls: what it costs at most, and, as long as Yandex does not carry out *)
(* a request whose attempt is over (~Delayed), what its success means and  *)
(* that it is a Request.                                                   *)
(***************************************************************************)
EXTENDS YandexClient, TLAPS

\* An attempt refreshes once, sends once and once more after the refresh, and
\* has done neither before it begins.
LoadOfStage ==
  /\ stage = "trying" => refreshed <= attempt - 1 /\ sent <= attempt - 1 + refreshed
  /\ stage \in {"asking", "refreshing"} => refreshed <= attempt - 1
  /\ refreshed <= attempt /\ sent <= attempt + refreshed
  /\ stage = "sleeping" => attempt < MaxAttempts

\* A call that is out has its number.
Numbered == stage # "idle" => call # 0

Typed == TypeOK /\ Numbered

LoadInv == Typed /\ LoadOfStage

\* Nothing but the request whose answer the call waits for is at Yandex.
NothingLeftBehind ==
  /\ wire \subseteq {Current}
  /\ stage \notin Asking => wire = {}

\* An answer says what Yandex did, and comes after it.
ResultsAreTrue ==
  results # None =>
    /\ wire = {}
    /\ \A a \in Actions : results[a] = "done" => device[a] = call /\ a \in done

\* Success is that of every capability the answer names.
OkIsAll ==
  stage = "ok" => Actions \ Silent \subseteq done /\ \A a \in Actions \ Silent : device[a] = call

EffectInv == Typed /\ NothingLeftBehind /\ ResultsAreTrue /\ OkIsAll

-----------------------------------------------------------------------------
(* The types.                                                              *)

\* The bounds are positive.
LEMMA Bounds == MaxAttempts \in Nat \ {0} /\ MaxCalls \in Nat \ {0}
BY BoundsAssumption

\* The types the arithmetic needs.
LEMMA Numbers ==
  ASSUME Typed
  PROVE  /\ attempt \in Nat /\ 1 <= attempt /\ attempt <= MaxAttempts /\ MaxAttempts \in Nat
         /\ sent \in Nat /\ refreshed \in Nat
BY Bounds DEF Typed, TypeOK

LEMMA InitialTypes == Init => Typed
<1> SUFFICES ASSUME Init PROVE Typed
  OBVIOUS
<1>1. /\ device \in [Actions -> 0 .. MaxCalls]
      /\ call \in 0 .. MaxCalls /\ attempt \in 1 .. MaxAttempts
  BY Bounds DEF Init
<1>2. stage \in Stages /\ over \in BOOLEAN /\ error \in Errors \cup {None}
  BY DEF Init, Stages
<1>3. /\ wire \subseteq (1 .. MaxCalls) \X Nat /\ results \in [Actions -> Results] \cup {None}
      /\ done \subseteq Actions /\ sent \in Nat /\ refreshed \in Nat
  BY DEF Init
<1> QED
  BY <1>1, <1>2, <1>3 DEF Init, Typed, Numbered, TypeOK

LEMMA CallerKeepsTypes ==
  ASSUME Typed, Call \/ Expire \/ Return
  PROVE  Typed'
<1>1. CASE Call
  <2>1. call' \in 1 .. MaxCalls
    BY <1>1, Bounds DEF Call, Typed, TypeOK
  <2>2. device' \in [Actions -> 0 .. MaxCalls]
    BY <1>1, <2>1, Bounds DEF Call, Typed, TypeOK
  <2>3. stage' \in Stages /\ over' \in BOOLEAN /\ error' \in Errors \cup {None}
    BY <1>1 DEF Call, Stages
  <2>4. wire' = wire /\ results' = None /\ done' = {} /\ sent' = 0 /\ refreshed' = 0 /\ attempt' = 1
    BY <1>1 DEF Call
  <2>5. attempt' \in 1 .. MaxAttempts
    BY <2>4, Bounds
  <2> QED
    BY <2>1, <2>2, <2>3, <2>4, <2>5 DEF Typed, Numbered, TypeOK
<1>2. CASE Expire
  BY <1>2 DEF Expire, history, Typed, Numbered, TypeOK
<1>3. CASE Return
  BY <1>3 DEF Return, callVars, history, Typed, Numbered, TypeOK, Stages
<1> QED
  BY <1>1, <1>2, <1>3

LEMMA SendKeepsTypes ==
  ASSUME Typed, stage # "idle", NEW at \in Asking, Send(at),
         UNCHANGED <<call, attempt, over, error, device, done>>, refreshed' \in Nat
  PROVE  Typed'
<1>1. <<call, sent + 1>> \in (1 .. MaxCalls) \X Nat
  BY DEF Typed, Numbered, TypeOK
<1>2. wire' \subseteq (1 .. MaxCalls) \X Nat /\ sent' \in Nat
  BY <1>1 DEF Send, Typed, TypeOK
<1>3. stage' \in Stages \ {"idle"} /\ results' = None
  BY DEF Send, Asking, Stages
<1> QED
  BY <1>2, <1>3 DEF Typed, Numbered, TypeOK

LEMMA ExecuteKeepsTypes ==
  ASSUME Typed, NEW m \in wire, Execute(m)
  PROVE  Typed'
<1>1. m[1] \in 0 .. MaxCalls
  BY DEF Typed, TypeOK
<1>2. PICK r \in [Actions -> Results], set \in SUBSET Actions :
        /\ device' = [a \in Actions |-> IF a \in set THEN m[1] ELSE device[a]]
        /\ done' = IF m[1] = call THEN done \cup set ELSE done
        /\ results' = IF m = Current /\ stage \in Asking THEN r ELSE results
  BY DEF Execute
<1>3. device' \in [Actions -> 0 .. MaxCalls] /\ done' \subseteq Actions
      /\ results' \in [Actions -> Results] \cup {None}
  BY <1>1, <1>2 DEF Typed, TypeOK
<1>4. UNCHANGED <<call, attempt, over, stage, error, sent, refreshed>> /\ wire' \subseteq wire
  BY DEF Execute, callVars, history
<1> QED
  BY <1>3, <1>4 DEF Typed, Numbered, TypeOK

LEMMA AnswerKeepsTypes ==
  ASSUME Typed,
         \/ Answered \/ Rejected \/ RejectedAgain
         \/ \E e \in Errors : Declined(e) \/ Lost(e)
  PROVE  Typed'
<1>1. /\ UNCHANGED <<call, attempt, over, results, device, done, sent, refreshed>>
      /\ wire' \subseteq wire /\ stage # "idle"
  BY DEF Answered, Rejected, RejectedAgain, Declined, Lost, Asking, callVars, history
<1>2. stage' \in {"ok", "judging", "refreshing"}
  BY DEF Answered, Rejected, RejectedAgain, Declined, Lost, Ends
<1>3. error' \in Errors \cup {None}
  <2>1. CASE Answered
    <3>1. \A f \in Failures : f \in Errors
      BY DEF Failures, Errors, RetryableErrors, FinalErrors
    <3> QED
      BY <2>1, <3>1 DEF Answered, Ends
  <2>2. CASE Rejected
    BY <2>2 DEF Rejected, Typed, TypeOK
  <2>3. CASE RejectedAgain
    BY <2>3 DEF RejectedAgain, Ends, Errors, FinalErrors
  <2>4. CASE \E e \in Errors : Declined(e) \/ Lost(e)
    BY <2>4 DEF Declined, Lost, Ends
  <2> QED
    BY <2>1, <2>2, <2>3, <2>4
<1> QED
  BY <1>1, <1>2, <1>3 DEF Typed, Numbered, TypeOK, Stages

\* The rest changes the stage, the error and a counter at most.
LEMMA RefreshKeepsTypes ==
  ASSUME Typed, Refreshed \/ \E e \in Errors : RefreshFails(e)
  PROVE  Typed'
<1>1. CASE Refreshed
  <2>1. Send("asking_again") /\ stage # "idle" /\ refreshed' = refreshed + 1
    BY <1>1 DEF Refreshed
  <2>2. refreshed' \in Nat
    BY <2>1, Numbers
  <2>3. UNCHANGED <<call, attempt, over, error, device, done>>
    BY <1>1 DEF Refreshed, callVars
  <2> QED
    BY <2>1, <2>2, <2>3, SendKeepsTypes DEF Asking
<1>2. CASE \E e \in Errors : RefreshFails(e)
  <2>1. stage # "idle" /\ stage' \in Stages /\ error' \in Errors /\ refreshed' \in Nat
    BY <1>2, Numbers DEF RefreshFails, Ends, Stages
  <2>2. UNCHANGED <<call, attempt, over, wire, results, device, done, sent>>
    BY <1>2 DEF RefreshFails, callVars
  <2> QED
    BY <2>1, <2>2 DEF Typed, Numbered, TypeOK
<1> QED
  BY <1>1, <1>2

LEMMA RetryKeepsTypes ==
  ASSUME Typed, Try \/ TryTooLate \/ GiveUp \/ Sleep \/ SleepCut
  PROVE  Typed'
<1>1. CASE Try
  BY <1>1, SendKeepsTypes DEF Try, Asking, callVars, Typed, TypeOK
<1>2. CASE TryTooLate
  BY <1>2 DEF TryTooLate, callVars, history, Typed, Numbered, TypeOK, Stages, Errors, FinalErrors
<1>3. CASE GiveUp \/ Sleep \/ SleepCut
  BY <1>3 DEF GiveUp, Sleep, SleepCut, callVars, history, Typed, Numbered, TypeOK, Stages
<1> QED
  BY <1>1, <1>2, <1>3

-----------------------------------------------------------------------------
(* The load.                                                               *)

LEMMA InitialLoad == Init => LoadInv
BY InitialTypes, Bounds DEF Init, LoadInv, LoadOfStage, TypeOK

LEMMA SleepKeepsLoad == ASSUME LoadInv, Sleep PROVE LoadInv'
<1>1. Typed'
  BY RetryKeepsTypes DEF LoadInv
<1>2. LoadOfStage'
  BY Bounds
     DEF LoadInv, Typed, TypeOK, LoadOfStage, Sleep, callVars, history
<1> QED
  BY <1>1, <1>2 DEF LoadInv

LEMMA WakeKeepsLoad == ASSUME LoadInv, Wake PROVE LoadInv'
<1>1. /\ attempt' = attempt + 1 /\ attempt' \in 1 .. MaxAttempts
      /\ stage' = "trying" /\ stage = "sleeping"
      /\ UNCHANGED <<call, over, error, wire, results, device, done, sent, refreshed>>
  BY Bounds DEF LoadInv, Typed, TypeOK, LoadOfStage, Wake, history
<1>2. Typed'
  BY <1>1 DEF LoadInv, Typed, Numbered, TypeOK, Stages
<1>3. LoadOfStage'
  BY <1>1 DEF LoadInv, Typed, TypeOK, LoadOfStage
<1> QED
  BY <1>2, <1>3 DEF LoadInv

LEMMA SendKeepsLoad == ASSUME LoadInv, Try \/ Refreshed PROVE LoadInv'
<1>1. Typed'
  BY RetryKeepsTypes, RefreshKeepsTypes DEF LoadInv
<1>2. LoadOfStage'
  <2>1. CASE Try
    <3>1. /\ stage = "trying" /\ stage' = "asking" /\ sent' = sent + 1
          /\ UNCHANGED <<attempt, refreshed>>
      BY <2>1 DEF Try, Send, callVars
    <3> QED
      BY <3>1, Numbers, Bounds DEF LoadInv, LoadOfStage
  <2>2. CASE Refreshed
    <3>1. /\ stage = "refreshing" /\ stage' = "asking_again"
          /\ sent' = sent + 1 /\ refreshed' = refreshed + 1
          /\ attempt' = attempt
      BY <2>2 DEF Refreshed, Send, callVars
    <3> QED
      BY <3>1, Numbers, Bounds DEF LoadInv, LoadOfStage
  <2> QED
    BY <2>1, <2>2
<1> QED
  BY <1>1, <1>2 DEF LoadInv

LEMMA CallerKeepsLoad == ASSUME LoadInv, Call \/ Expire \/ Return PROVE LoadInv'
<1>1. Typed'
  BY CallerKeepsTypes DEF LoadInv
<1>2. LoadOfStage'
  <2>1. CASE Call
    <3>1. stage' = "trying" /\ attempt' = 1 /\ sent' = 0 /\ refreshed' = 0
      BY <2>1 DEF Call
    <3> QED
      BY <3>1 DEF LoadOfStage
  <2>2. CASE Expire
    BY <2>2 DEF LoadInv, LoadOfStage, Expire, history
  <2>3. CASE Return
    BY <2>3 DEF LoadInv, LoadOfStage, Return, callVars, history
  <2> QED
    BY <2>1, <2>2, <2>3
<1> QED
  BY <1>1, <1>2 DEF LoadInv

\* The others leave the counters alone and lead where nothing less is allowed.
LEMMA OtherStepKeepsLoad ==
  ASSUME LoadInv,
         \/ TryTooLate \/ \E m \in wire : Execute(m)
         \/ Answered \/ Rejected \/ RejectedAgain
         \/ \E e \in Errors : Declined(e) \/ Lost(e)
         \/ GiveUp \/ SleepCut
  PROVE  LoadInv'
<1>1. Typed'
  BY RetryKeepsTypes, ExecuteKeepsTypes, AnswerKeepsTypes DEF LoadInv
<1>2. UNCHANGED <<attempt, sent, refreshed>>
  BY DEF TryTooLate, Execute, Answered, Rejected, RejectedAgain, Declined, Lost, GiveUp, SleepCut,
         callVars, history
<1>3. \/ stage' = stage \/ stage' \in {"ok", "failed", "judging"}
      \/ stage = "asking" /\ stage' = "refreshing"
  BY DEF TryTooLate, Execute, Answered, Rejected, RejectedAgain, Declined, Lost, GiveUp, SleepCut,
         Ends
<1>4. LoadOfStage'
  BY <1>2, <1>3 DEF LoadInv, LoadOfStage
<1> QED
  BY <1>1, <1>4 DEF LoadInv

LEMMA RefreshFailsKeepsLoad ==
  ASSUME LoadInv, \E e \in Errors : RefreshFails(e)
  PROVE  LoadInv'
<1>1. Typed'
  BY RefreshKeepsTypes DEF LoadInv
<1>2. LoadOfStage'
  <2>1. /\ stage = "refreshing" /\ stage' = "judging" /\ refreshed' = refreshed + 1
        /\ UNCHANGED <<attempt, sent>>
    BY DEF RefreshFails, Ends, callVars
  <2> QED
    BY <2>1 DEF LoadInv, Typed, TypeOK, LoadOfStage
<1> QED
  BY <1>1, <1>2 DEF LoadInv

\* Every step keeps it.
LEMMA StepKeepsLoad == ASSUME LoadInv, [Next]_vars PROVE LoadInv'
<1>1. CASE Next
  BY <1>1, SleepKeepsLoad, WakeKeepsLoad, SendKeepsLoad, CallerKeepsLoad, OtherStepKeepsLoad,
     RefreshFailsKeepsLoad
     DEF Next
<1>2. CASE UNCHANGED vars
  BY <1>2 DEF vars, callVars, history, LoadInv, Typed, Numbered, TypeOK, LoadOfStage
<1> QED
  BY <1>1, <1>2

\* The invariant of the load: what a call has sent and refreshed is bounded by
\* its attempts and the stage it is in.
THEOREM Loads == Spec => []LoadInv
<1>1. LoadInv /\ [Next]_vars => LoadInv'
  BY StepKeepsLoad
<1> QED
  BY <1>1, InitialLoad, PTL DEF Spec

\* The types of the state.
THEOREM TypeCorrect == Spec => []TypeOK
<1>1. LoadInv => TypeOK
  BY DEF LoadInv, Typed
<1> QED
  BY <1>1, Loads, PTL

\* Whatever Yandex answers, a call refreshes the token at most once for each
\* attempt, sends at most one request more than that, and keeps to its attempts
\* (client.go:204-231, errors.go:55-90).
THEOREM LoadIsBounded == Spec => []BoundedLoad
<1>1. LoadInv => BoundedLoad
  BY Bounds DEF LoadInv, Typed, TypeOK, LoadOfStage, BoundedLoad
<1> QED
  BY <1>1, Loads, PTL

-----------------------------------------------------------------------------
(* The effect.                                                             *)

LEMMA InitialEffect == Init => EffectInv
BY InitialTypes DEF Init, EffectInv, NothingLeftBehind, ResultsAreTrue, OkIsAll, Asking

\* The types are kept, in a form the invariant of the effects can use.
LEMMA TypesAreKept == ASSUME Typed, [Next]_vars, stage # "sleeping" PROVE Typed'
<1>1. CASE Next
  BY <1>1, CallerKeepsTypes, ExecuteKeepsTypes, AnswerKeepsTypes, RefreshKeepsTypes, RetryKeepsTypes
     DEF Next, Wake
<1>2. CASE UNCHANGED vars
  BY <1>2 DEF vars, callVars, history, Typed, Numbered, TypeOK
<1> QED
  BY <1>1, <1>2

LEMMA SendKeepsEffect ==
  ASSUME NothingLeftBehind, stage \notin Asking, NEW at \in Asking, Send(at), call' = call
  PROVE  (NothingLeftBehind /\ ResultsAreTrue /\ OkIsAll)'
<1>1. wire' = {Current'} /\ stage' \in Asking /\ results' = None
  BY DEF Send, NothingLeftBehind, Current
<1> QED
  BY <1>1 DEF NothingLeftBehind, ResultsAreTrue, OkIsAll, Asking

\* Yandex carries the request out: every capability that it reports as done has
\* what this call set.
LEMMA ExecuteKeepsEffect ==
  ASSUME EffectInv, NEW m \in wire, Execute(m)
  PROVE  EffectInv'
<1>1. m = Current /\ stage \in Asking /\ m[1] = call
  BY DEF EffectInv, NothingLeftBehind, Current
<1>2. PICK r \in [Actions -> Results], set \in SUBSET Actions :
        /\ {a \in Actions : r[a] = "done"} \subseteq set
        /\ device' = [a \in Actions |-> IF a \in set THEN call ELSE device[a]]
        /\ done' = done \cup set
        /\ results' = r
  BY <1>1 DEF Execute
<1>3. wire' = {} /\ UNCHANGED <<stage, call, sent>>
  BY <1>1 DEF Execute, EffectInv, NothingLeftBehind, callVars, history
<1>4. NothingLeftBehind'
  BY <1>3 DEF NothingLeftBehind
<1>5. ResultsAreTrue'
  BY <1>2, <1>3 DEF ResultsAreTrue
<1>6. OkIsAll'
  BY <1>1, <1>3 DEF OkIsAll, Asking
<1> QED
  BY <1>4, <1>5, <1>6, ExecuteKeepsTypes DEF EffectInv

\* An answer that reports nothing failing is the only way to succeed.
LEMMA AnsweredKeepsEffect ==
  ASSUME EffectInv, Answered
  PROVE  EffectInv'
<1>1. wire = {} /\ UNCHANGED <<call, sent, wire, results, device, done>> /\ stage' \notin Asking
  BY DEF Answered, EffectInv, ResultsAreTrue, callVars, history, Ends, Asking
<1>2. OkIsAll'
  <2> SUFFICES ASSUME stage' = "ok", NEW a \in Actions \ Silent PROVE a \in done /\ device[a] = call
    BY <1>1 DEF OkIsAll, Silent
  <2>1. results # None /\ results[a] \notin Failures /\ results[a] # "omitted"
    BY DEF Answered, Ends, Silent
  <2>2. results[a] = "done"
    BY <2>1 DEF EffectInv, Typed, TypeOK, Results
  <2> QED
    BY <2>1, <2>2 DEF EffectInv, ResultsAreTrue
<1>3. NothingLeftBehind' /\ ResultsAreTrue'
  BY <1>1 DEF EffectInv, NothingLeftBehind, ResultsAreTrue, Current
<1> QED
  BY <1>2, <1>3, AnswerKeepsTypes DEF EffectInv

\* When an attempt ends without an answer, its request is no longer there.
LEMMA FailureKeepsEffect ==
  ASSUME EffectInv, ~Delayed,
         Rejected \/ RejectedAgain \/ \E e \in Errors : Declined(e) \/ Lost(e)
  PROVE  EffectInv'
<1>1. wire' = {}
  BY DEF EffectInv, NothingLeftBehind, Rejected, RejectedAgain, Declined, Lost
<1>2. UNCHANGED <<call, sent, results, device, done>> /\ stage' # "ok"
  BY DEF Rejected, RejectedAgain, Declined, Lost, Ends, callVars, history
<1>3. NothingLeftBehind' /\ ResultsAreTrue' /\ OkIsAll'
  BY <1>1, <1>2 DEF EffectInv, NothingLeftBehind, ResultsAreTrue, OkIsAll
<1> QED
  BY <1>3, AnswerKeepsTypes DEF EffectInv

LEMMA CallerKeepsEffect ==
  ASSUME EffectInv, Call \/ Expire \/ Return
  PROVE  EffectInv'
<1>1. CASE Call
  <2>1. wire' = {} /\ results' = None /\ stage' = "trying"
    BY <1>1 DEF Call, EffectInv, NothingLeftBehind, Asking
  <2> QED
    BY <1>1, <2>1, CallerKeepsTypes DEF EffectInv, NothingLeftBehind, ResultsAreTrue, OkIsAll
<1>2. CASE Expire
  BY <1>2, CallerKeepsTypes
     DEF Expire, history, EffectInv, NothingLeftBehind, ResultsAreTrue, OkIsAll, Silent, Current
<1>3. CASE Return
  BY <1>3, CallerKeepsTypes
     DEF Return, callVars, history, EffectInv, NothingLeftBehind, ResultsAreTrue, OkIsAll, Silent, Current,
         Asking
<1> QED
  BY <1>1, <1>2, <1>3

LEMMA RetryKeepsEffect ==
  ASSUME EffectInv, TryTooLate \/ GiveUp \/ Sleep \/ SleepCut \/ \E e \in Errors : RefreshFails(e)
  PROVE  EffectInv'
<1>1. /\ UNCHANGED <<call, sent, wire, results, device, done>>
      /\ stage \notin Asking /\ stage' \notin Asking /\ stage' # "ok"
  BY DEF TryTooLate, GiveUp, Sleep, SleepCut, RefreshFails, Ends, callVars, history, Asking
<1> QED
  BY <1>1, RetryKeepsTypes, RefreshKeepsTypes
     DEF EffectInv, NothingLeftBehind, ResultsAreTrue, OkIsAll, Silent, Current

\* A call that sleeps has another attempt left: the load's invariant.
LEMMA StepKeepsEffect ==
  ASSUME EffectInv, LoadInv, ~Delayed, [Next]_vars
  PROVE  EffectInv'
<1>1. CASE Try \/ Refreshed
  <2>1. stage \notin Asking /\ call' = call /\ (Send("asking") \/ Send("asking_again"))
    BY <1>1 DEF Try, Refreshed, callVars, Asking
  <2>2. (NothingLeftBehind /\ ResultsAreTrue /\ OkIsAll)'
    BY <2>1, SendKeepsEffect DEF EffectInv, Asking
  <2> QED
    BY <1>1, <2>2, RetryKeepsTypes, RefreshKeepsTypes DEF EffectInv
<1>2. CASE Wake
  <2>1. Typed'
    BY <1>2, WakeKeepsLoad DEF LoadInv
  <2> QED
    BY <1>2, <2>1
       DEF Wake, history, EffectInv, NothingLeftBehind, ResultsAreTrue, OkIsAll, Silent, Current, Asking
<1>3. CASE UNCHANGED vars
  BY <1>3
     DEF vars, callVars, history, EffectInv, Typed, Numbered, TypeOK, NothingLeftBehind,
         ResultsAreTrue, OkIsAll, Silent, Current
<1> QED
  BY <1>1, <1>2, <1>3, ExecuteKeepsEffect, AnsweredKeepsEffect, FailureKeepsEffect,
     CallerKeepsEffect, RetryKeepsEffect
     DEF Next

\* The invariant of the effects, when no request is executed late: nothing is
\* left on the wire, and what was answered is what happened.
THEOREM Effects ==
  ASSUME ~Delayed
  PROVE  Spec => []EffectInv
<1>1. EffectInv /\ LoadInv /\ [Next]_vars => EffectInv'
  BY StepKeepsEffect
<1> QED
  BY <1>1, InitialEffect, Loads, PTL DEF Spec

\* After a success Yandex holds what the call set, on every capability its last
\* answer names, whatever was lost, rejected and repeated before
\* (client.go:139-142).
THEOREM SuccessIsTrue ==
  ASSUME ~Delayed
  PROVE  Spec => []SuccessStands
<1>1. EffectInv => SuccessStands
  BY DEF EffectInv, OkIsAll, SuccessStands
<1> QED
  BY <1>1, Effects, PTL

-----------------------------------------------------------------------------
(* The refinement.                                                         *)

\* The client starts where Request starts.
LEMMA InitialRequest == Init => Abstract!Init
BY DEF Init, Abstract!Init, Outcome, Shown

\* Only an executed request changes what the caller asked for.
LEMMA StepRefines ==
  ASSUME EffectInv, EffectInv', [Next]_vars
  PROVE  [Abstract!Next]_(Abstract!vars)
<1>1. ASSUME UNCHANGED <<Outcome, done>>, stage # "ok", stage' # "ok"
      PROVE  UNCHANGED Abstract!vars
  BY <1>1 DEF Abstract!vars, Shown
<1>2. CASE UNCHANGED vars
  BY <1>2 DEF vars, Outcome, Shown, Silent, Abstract!vars
<1>3. CASE Call
  <2>1. Abstract!Start(Actions)
    BY <1>3 DEF Call, Abstract!Start, Outcome, Shown
  <2> QED
    BY <2>1 DEF Abstract!Next
<1>4. ASSUME NEW m \in wire, Execute(m)
      PROVE  Abstract!Next
  <2>1. stage \in Asking /\ stage' = stage /\ m[1] = call
    BY <1>4 DEF Execute, EffectInv, NothingLeftBehind, Current
  <2>2. PICK set \in SUBSET Actions : done' = done \cup set
    BY <1>4, <2>1 DEF Execute
  <2>3. Abstract!Execute(set)
    BY <2>1, <2>2 DEF Abstract!Execute, Outcome, Shown, Asking
  <2> QED
    BY <2>3 DEF Abstract!Next
<1>5. CASE Answered
  <2>1. stage \in Asking /\ done' = done /\ stage' \in {"ok", "judging"}
    BY <1>5 DEF Answered, Ends
  <2>2. CASE stage' = "ok"
    <3>1. Silent' = Silent /\ Silent \subseteq Actions
      BY <1>5 DEF Answered, Silent
    <3>2. Abstract!Succeed(Silent)
      BY <2>1, <2>2, <3>1 DEF Abstract!Succeed, Outcome, Shown, Asking, EffectInv, OkIsAll
    <3> QED
      BY <3>1, <3>2 DEF Abstract!Next
  <2>3. CASE stage' = "judging"
    BY <1>1, <2>1, <2>3 DEF Outcome, Asking
  <2> QED
    BY <2>1, <2>2, <2>3
<1>6. CASE TryTooLate \/ GiveUp \/ SleepCut
  <2>1. Abstract!Fail
    BY <1>6 DEF TryTooLate, GiveUp, SleepCut, Abstract!Fail, Outcome, Shown
  <2> QED
    BY <2>1 DEF Abstract!Next
<1>7. CASE Return
  <2>1. Abstract!Return
    BY <1>7 DEF Return, Abstract!Return, Outcome, Shown
  <2> QED
    BY <2>1 DEF Abstract!Next
<1>8. CASE Expire \/ Try \/ Refreshed \/ Sleep \/ Wake
  <2>1. done' = done /\ {stage, stage'} \cap {"idle", "ok", "failed"} = {}
    BY <1>8 DEF Expire, Try, Refreshed, Send, Sleep, Wake
  <2> QED
    BY <1>1, <2>1 DEF Outcome
<1>9. CASE Rejected \/ RejectedAgain \/ \E e \in Errors : Declined(e) \/ Lost(e) \/ RefreshFails(e)
  <2>1. done' = done /\ {stage, stage'} \cap {"idle", "ok", "failed"} = {}
    BY <1>9 DEF Rejected, RejectedAgain, Declined, Lost, RefreshFails, Ends, Asking
  <2> QED
    BY <1>1, <2>1 DEF Outcome
<1> QED
  BY <1>2, <1>3, <1>4, <1>5, <1>6, <1>7, <1>8, <1>9 DEF Next

\* A call implements Request's steps: its effects happen while it is out, and a
\* success is one of all the actions its answer names (client.go:139-157).  That
\* it ends is left to the run.
THEOREM RefinesRequest ==
  ASSUME ~Delayed
  PROVE  Spec => Abstract!Steps
<1>1. EffectInv /\ EffectInv' /\ [Next]_vars => [Abstract!Next]_(Abstract!vars)
  BY StepRefines
<1> QED
  BY <1>1, InitialRequest, Effects, PTL DEF Spec, Abstract!Steps
=============================================================================
