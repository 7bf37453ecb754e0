-------------------------- MODULE SupervisorProofs --------------------------
(***************************************************************************)
(* Proofs about module Supervisor, for every set of topologies and every   *)
(* number of confirmations; and about module Confirmations, whose          *)
(* accessories the supervisor replaces.  The two share no variable.        *)
(***************************************************************************)
EXTENDS Supervisor, Confirmations, TLAPS

-----------------------------------------------------------------------------
(* The inductive invariant.                                                *)

\* Between polls the candidate is the last answer, counted no more often than
\* it was given in a row.  Unless current was overtaken it is counted as often,
\* and any answer other than the running set is the candidate.
CandidateIsAgreed ==
  sending = None =>
    /\ candidate # None => candidate = agreed /\ candidateSeen <= agreement
    /\ candidate = None => candidateSeen = 0
    /\ candidateSeen < TopologyConfirmations
    /\ ~overtaken => /\ candidate # None => candidateSeen = agreement
                     /\ agreed # current => candidate = agreed

CountsStartAtZero == agreed = None => agreement = 0

\* The set being sent has its confirmations.
SendingIsConfirmed ==
  sending # None => sending = agreed /\ sending = confirmed /\ ~overtaken

\* Until Run sets current, what is current was confirmed early and still waits.
EarlyIsQueued ==
  /\ runPC \in {"initial", "fetched"} =>
       ~overtaken /\ (current # None /\ sending = None => rebuild = current)
  /\ runPC = "fetched" => specs # None

\* What waits in the channel is current, and was the last set confirmed.
QueuedIsCurrent ==
  rebuild # None /\ ~overtaken => rebuild = current /\ rebuild = confirmed

\* Run builds from current unless a newer set is on its way to it.
SpecsAreCurrent ==
  runPC \in {"building", "serving"} /\ rebuild = None /\ sending = None /\ ~overtaken
    => specs = current

ServedAreSpecs == runPC = "serving" => served = specs

IInv ==
  /\ TypeOK
  /\ SendNeverBlocks
  /\ CandidateIsAgreed
  /\ CountsStartAtZero
  /\ SendingIsConfirmed
  /\ EarlyIsQueued
  /\ QueuedIsCurrent
  /\ SpecsAreCurrent
  /\ ServedAreSpecs

-----------------------------------------------------------------------------
(* One lemma per action.                                                   *)

\* Change: the answer alone moves.
LEMMA ChangeKeeps ==
  ASSUME IInv, Change
  PROVE  IInv'
BY TopologiesAssumption, ConfirmationsAssumption
   DEF IInv, TypeOK, SendNeverBlocks, CandidateIsAgreed, CountsStartAtZero, SendingIsConfirmed,
     EarlyIsQueued, QueuedIsCurrent, SpecsAreCurrent, ServedAreSpecs,
       Change, pollVars, runVars, history, RunPCs

\* ObserveCurrent: no candidate is left.
LEMMA ObserveCurrentKeeps ==
  ASSUME IInv, ObserveCurrent
  PROVE  IInv'
BY TopologiesAssumption, ConfirmationsAssumption
   DEF IInv, TypeOK, SendNeverBlocks, CandidateIsAgreed, CountsStartAtZero, SendingIsConfirmed,
     EarlyIsQueued, QueuedIsCurrent, SpecsAreCurrent, ServedAreSpecs,
       Poll, Record, ObserveCurrent, pollVars, runVars, history, RunPCs

\* ObserveCandidate: the candidate is the answer, counted like the answers.
LEMMA ObserveCandidateKeeps ==
  ASSUME IInv, ObserveCandidate
  PROVE  IInv'
BY TopologiesAssumption, ConfirmationsAssumption
   DEF IInv, TypeOK, SendNeverBlocks, CandidateIsAgreed, CountsStartAtZero, SendingIsConfirmed,
     EarlyIsQueued, QueuedIsCurrent, SpecsAreCurrent, ServedAreSpecs,
       Poll, Record, Seen, ObserveCandidate, pollVars, runVars, history, RunPCs

\* ObserveConfirmed: the count of the candidate is the count of the answers.
LEMMA ObserveConfirmedKeeps ==
  ASSUME IInv, ObserveConfirmed
  PROVE  IInv'
<1>1. overtaken' \in BOOLEAN /\ ~overtaken'
  BY Zenon DEF ObserveConfirmed
<1>2. agreement' = TopologyConfirmations
  BY ConfirmationsAssumption
     DEF IInv, TypeOK, CandidateIsAgreed, ObserveConfirmed, Poll, Seen, Record
<1> QED
  BY <1>1, <1>2, TopologiesAssumption, ConfirmationsAssumption
     DEF IInv, TypeOK, SendNeverBlocks, CandidateIsAgreed, CountsStartAtZero,
         SendingIsConfirmed, EarlyIsQueued, QueuedIsCurrent, SpecsAreCurrent, ServedAreSpecs,
         Poll, Record, ObserveConfirmed, pollVars, runVars, history, RunPCs

\* Send: what was confirmed is queued and current.
LEMMA SendKeeps ==
  ASSUME IInv, Send
  PROVE  IInv'
BY TopologiesAssumption, ConfirmationsAssumption
   DEF IInv, TypeOK, SendNeverBlocks, CandidateIsAgreed, CountsStartAtZero, SendingIsConfirmed,
     EarlyIsQueued, QueuedIsCurrent, SpecsAreCurrent, ServedAreSpecs,
       Send, pollVars, runVars, history, RunPCs

\* InitialSpecs: nothing shared is touched.
LEMMA InitialSpecsKeeps ==
  ASSUME IInv, InitialSpecs
  PROVE  IInv'
BY TopologiesAssumption, ConfirmationsAssumption
   DEF IInv, TypeOK, SendNeverBlocks, CandidateIsAgreed, CountsStartAtZero, SendingIsConfirmed,
     EarlyIsQueued, QueuedIsCurrent, SpecsAreCurrent, ServedAreSpecs,
       InitialSpecs, pollVars, runVars, history, RunPCs

\* SetCurrent: either the channel holds nothing but specs, or they overtake it.
LEMMA SetCurrentKeeps ==
  ASSUME IInv, SetCurrent
  PROVE  IInv'
BY TopologiesAssumption, ConfirmationsAssumption
   DEF IInv, TypeOK, SendNeverBlocks, CandidateIsAgreed, CountsStartAtZero, SendingIsConfirmed,
     EarlyIsQueued, QueuedIsCurrent, SpecsAreCurrent, ServedAreSpecs,
       SetCurrent, pollVars, runVars, history, RunPCs

\* Serve: the server gets the specs.
LEMMA ServeKeeps ==
  ASSUME IInv, Serve
  PROVE  IInv'
BY TopologiesAssumption, ConfirmationsAssumption
   DEF IInv, TypeOK, SendNeverBlocks, CandidateIsAgreed, CountsStartAtZero, SendingIsConfirmed,
     EarlyIsQueued, QueuedIsCurrent, SpecsAreCurrent, ServedAreSpecs,
       Serve, pollVars, runVars, history, RunPCs

\* TakeRebuild: the queued set was current.
LEMMA TakeRebuildKeeps ==
  ASSUME IInv, TakeRebuild
  PROVE  IInv'
BY TopologiesAssumption, ConfirmationsAssumption
   DEF IInv, TypeOK, SendNeverBlocks, CandidateIsAgreed, CountsStartAtZero, SendingIsConfirmed,
     EarlyIsQueued, QueuedIsCurrent, SpecsAreCurrent, ServedAreSpecs,
       TakeRebuild, pollVars, runVars, history, RunPCs

\* Exit: only Run and the server end.
LEMMA ExitKeeps ==
  ASSUME IInv, Exit
  PROVE  IInv'
BY TopologiesAssumption, ConfirmationsAssumption
   DEF IInv, TypeOK, SendNeverBlocks, CandidateIsAgreed, CountsStartAtZero, SendingIsConfirmed,
     EarlyIsQueued, QueuedIsCurrent, SpecsAreCurrent, ServedAreSpecs,
       Exit, pollVars, runVars, history, RunPCs

\* Restart: everything is as at first.
LEMMA RestartKeeps ==
  ASSUME IInv, Restart
  PROVE  IInv'
<1>1. overtaken' \in BOOLEAN /\ ~overtaken'
  BY Zenon DEF Restart
<1> QED
  BY <1>1, TopologiesAssumption, ConfirmationsAssumption
     DEF IInv, TypeOK, SendNeverBlocks, CandidateIsAgreed, CountsStartAtZero,
         SendingIsConfirmed, EarlyIsQueued, QueuedIsCurrent, SpecsAreCurrent, ServedAreSpecs,
         Restart, pollVars, runVars, history, RunPCs

\* Every step of the supervisor keeps the invariant.
LEMMA NextKeeps ==
  ASSUME IInv, [Next]_vars
  PROVE  IInv'
<1>1. CASE UNCHANGED vars
  BY <1>1 DEF vars, pollVars, runVars, history, IInv, TypeOK, SendNeverBlocks,
     CandidateIsAgreed, CountsStartAtZero, SendingIsConfirmed, EarlyIsQueued,
     QueuedIsCurrent, SpecsAreCurrent, ServedAreSpecs
<1>2. CASE Next
  BY <1>2, ChangeKeeps, ObserveCurrentKeeps, ObserveCandidateKeeps, ObserveConfirmedKeeps,
     SendKeeps, InitialSpecsKeeps, SetCurrentKeeps, ServeKeeps, TakeRebuildKeeps, ExitKeeps,
     RestartKeeps DEF Next
<1> QED
  BY <1>1, <1>2

\* Nothing is running and nothing was seen at first.
LEMMA InitInvariant == Init => IInv
<1> SUFFICES ASSUME Init PROVE IInv
  OBVIOUS
<1>1. overtaken \in BOOLEAN /\ ~overtaken
  BY Zenon DEF Init
<1> QED
  BY <1>1, TopologiesAssumption, ConfirmationsAssumption
     DEF Init, IInv, TypeOK, SendNeverBlocks, CandidateIsAgreed, CountsStartAtZero,
         SendingIsConfirmed, EarlyIsQueued, QueuedIsCurrent, SpecsAreCurrent,
         ServedAreSpecs, RunPCs

-----------------------------------------------------------------------------
(* The theorems.                                                           *)

\* The counts stay within the required number of polls (supervisor.go:96-143).
THEOREM TypeCorrect == Spec => []TypeOK
<1>1. Init => TypeOK
  BY InitInvariant DEF IInv
<1>2. TypeOK /\ [Next]_vars => TypeOK'
  <2> SUFFICES ASSUME TypeOK, [Next]_vars PROVE TypeOK'
    OBVIOUS
  <2> USE ConfirmationsAssumption DEF TypeOK, pollVars, runVars, history, RunPCs
  <2>1. CASE Change
    BY <2>1 DEF Change
  <2>2. CASE ObserveCurrent
    BY <2>2 DEF ObserveCurrent, Poll, Record
  <2>3. CASE ObserveCandidate
    BY <2>3 DEF ObserveCandidate, Poll, Record, Seen
  <2>4. CASE ObserveConfirmed
    <3>1. overtaken' \in BOOLEAN
      BY <2>4, Zenon DEF ObserveConfirmed
    <3> QED BY <2>4, <3>1 DEF ObserveConfirmed, Poll, Record
  <2>5. CASE Send
    BY <2>5 DEF Send
  <2>6. CASE InitialSpecs
    BY <2>6 DEF InitialSpecs
  <2>7. CASE SetCurrent
    BY <2>7 DEF SetCurrent
  <2>8. CASE Serve
    BY <2>8 DEF Serve
  <2>9. CASE TakeRebuild
    BY <2>9 DEF TakeRebuild
  <2>10. CASE Exit
    BY <2>10 DEF Exit
  <2>11. CASE Restart
    <3>1. overtaken' \in BOOLEAN
      BY <2>11, Zenon DEF Restart
    <3> QED BY <2>11, <3>1 DEF Restart
  <2>12. CASE UNCHANGED vars
    BY <2>12 DEF vars
  <2> QED
    BY <2>1, <2>2, <2>3, <2>4, <2>5, <2>6, <2>7, <2>8, <2>9, <2>10, <2>11, <2>12 DEF Next
<1> QED
  BY <1>1, <1>2, PTL DEF Spec

\* The inductive invariant holds in every reachable state.
THEOREM Invariance == Spec => []IInv
<1>1. IInv /\ [Next]_vars => IInv'
  BY NextKeeps
<1> QED
  BY <1>1, InitInvariant, PTL DEF Spec

\* supervisor.go:137: the send into the channel finds it empty, so polling
\* never stops with s.mu held.
THEOREM SendIsSafe == Spec => []SendNeverBlocks
<1>1. IInv => SendNeverBlocks
  BY DEF IInv
<1> QED
  BY <1>1, Invariance, PTL

\* supervisor.go:46: what is queued is what the required number of successive
\* polls agreed on last, unless Run's first answer overtook it.
THEOREM OnlyConfirmedIsQueued == Spec => []QueuedIsNewestConfirmed
<1>1. IInv => QueuedIsNewestConfirmed
  BY DEF IInv, SendingIsConfirmed, QueuedIsCurrent, QueuedIsNewestConfirmed
<1> QED
  BY <1>1, Invariance, PTL

\* supervisor.go:39: when Run is idle, current is what the server was built from,
\* unless Run's first answer overtook a queued set and none was confirmed since.
THEOREM CurrentMatchesServer == Spec => []CurrentIsServed
<1>1. IInv => CurrentIsServed
  BY DEF IInv, SpecsAreCurrent, ServedAreSpecs, CurrentIsServed, Idle
<1> QED
  BY <1>1, Invariance, PTL

\* When Run is idle, a device set that enough successive polls agree on is the
\* one HomeKit sees, with the same exception.
THEOREM ConfirmedIsServed == Spec => []ServedIsConfirmed
<1>1. IInv => ServedIsConfirmed
  BY ConfirmationsAssumption
     DEF IInv, CandidateIsAgreed, CountsStartAtZero, SpecsAreCurrent, ServedAreSpecs,
         ServedIsConfirmed, Idle
<1> QED
  BY <1>1, Invariance, PTL

\* The running server was built from t, and no rebuild is on its way.
ConvergedOn(t) ==
  /\ runPC = "serving" /\ served = t
  /\ current = t /\ rebuild = None /\ sending = None

\* While the process runs and Yandex keeps giving one answer, a server that was
\* built from it is never replaced (supervisor.go:96-143): of HomeKitConverges all
\* but that HomeKit gets there, which is for fairness and TLC.
THEOREM ConvergedStays ==
  ASSUME NEW t \in Topologies
  PROVE  Spec => []([](answer = t /\ runPC # "exited") /\ ConvergedOn(t) => [](served = t))
<1>1. (answer = t /\ runPC # "exited") /\ (answer = t /\ runPC # "exited")'
        /\ ConvergedOn(t) /\ [Next]_vars => ConvergedOn(t)'
  BY TopologiesAssumption
     DEF ConvergedOn, Next, vars, pollVars, runVars, history, Change, ObserveCurrent,
         ObserveCandidate, ObserveConfirmed, Send, InitialSpecs, SetCurrent, Serve,
         TakeRebuild, Exit, Restart, Poll
<1>2. ConvergedOn(t) => served = t
  BY DEF ConvergedOn
<1> QED
  BY <1>1, <1>2, PTL DEF Spec

-----------------------------------------------------------------------------
(* The windows of confirming reads (module Confirmations), for every set of *)
(* devices and every capacity of the queue.                                 *)

\* The windows are lists, of one window for a device that is being confirmed
\* and of none for the others.
WindowsOK ==
  /\ windows \in [Devices -> Seq(Window)]
  /\ queue \in Seq(Devices)
  /\ OneWindow

\* At the start no window is open.
LEMMA SyncInit == SyncerInit => WindowsOK
BY DEF SyncerInit, WindowsOK, OneWindow

\* A step inside a window changes the window, not how many there are.
LEMMA MovesKeeps ==
  ASSUME WindowsOK, NEW d \in Devices, NEW i \in DOMAIN windows[d], NEW new \in Window,
         Moves(d, i, new), UNCHANGED <<queue, confirming>>
  PROVE  WindowsOK'
<1>1. /\ windows[d] \in Seq(Window)
      /\ windows' = [windows EXCEPT ![d] = [windows[d] EXCEPT ![i] = new]]
  BY DEF WindowsOK, Moves
<1>2. /\ [windows[d] EXCEPT ![i] = new] \in Seq(Window)
      /\ Len([windows[d] EXCEPT ![i] = new]) = Len(windows[d])
  BY <1>1
<1> QED
  BY <1>1, <1>2 DEF WindowsOK, OneWindow

\* What a list of windows holds is a window.
LEMMA MembersAreWindows ==
  ASSUME WindowsOK, NEW d \in Devices, NEW i \in DOMAIN windows[d]
  PROVE  windows[d][i] \in Window
BY DEF WindowsOK

\* A function on the indices of a list is a list as long as that one.
LEMMA AsLong ==
  ASSUME NEW S, NEW ws \in Seq(S), NEW f \in [DOMAIN ws -> S]
  PROVE  f \in Seq(S) /\ Len(f) = Len(ws)
<1>1. DOMAIN ws = 1 .. Len(ws) /\ Len(ws) \in Nat
  OBVIOUS
<1>2. f \in [1 .. Len(ws) -> S]
  BY <1>1
<1> QED BY <1>1, <1>2

\* An accepted write takes away what the windows would have seen of it.
LEMMA AcceptedKeeps ==
  ASSUME WindowsOK, NEW d \in Devices, Accepted(d)
  PROVE  WindowsOK'
<1> DEFINE new == Blinded(d)
<1>1. /\ windows[d] \in Seq(Window)
      /\ windows' = [windows EXCEPT ![d] = new] /\ confirming' = confirming
  BY DEF WindowsOK, Accepted
<1>2. new \in Seq(Window) /\ Len(new) = Len(windows[d])
  <2>1. ASSUME NEW i \in DOMAIN windows[d]
        PROVE  [windows[d][i] EXCEPT !.sees = FALSE] \in Window
    <3>1. windows[d][i] \in Window
      BY MembersAreWindows
    <3> QED BY <3>1 DEF Window, Ended
  <2>2. new \in [DOMAIN windows[d] -> Window]
    BY <2>1 DEF Blinded
  <2> HIDE DEF new
  <2> QED BY <1>1, <2>2, AsLong
<1> HIDE DEF new
<1>3. queue' \in Seq(Devices)
  BY DEF WindowsOK, Accepted
<1> QED
  BY <1>1, <1>2, <1>3 DEF WindowsOK, OneWindow

\* SetAccessories: every window holds an accessory that is not served any more.
LEMMA SetAccessoriesKeeps ==
  ASSUME WindowsOK, NEW S, SetAccessories(S)
  PROVE  WindowsOK'
<1>1. confirming' = confirming /\ queue' = queue
  BY DEF SetAccessories
<1>2. /\ windows' \in [Devices -> Seq(Window)]
      /\ \A d \in Devices : Len(windows'[d]) = Len(windows[d])
  <2>1. ASSUME NEW d \in Devices
        PROVE  windows'[d] \in Seq(Window) /\ Len(windows'[d]) = Len(windows[d])
    <3>1. windows[d] \in Seq(Window)
      BY DEF WindowsOK
    <3>2. ASSUME NEW i \in DOMAIN windows[d]
          PROVE  [windows[d][i] EXCEPT !.holds = FALSE, !.sees = FALSE, !.owes = FALSE]
                   \in Window
      <4>1. windows[d][i] \in Window
        BY MembersAreWindows
      <4> QED BY <4>1 DEF Window, Ended
    <3>3. windows'[d] \in [DOMAIN windows[d] -> Window]
      BY <3>2 DEF SetAccessories
    <3> QED BY <3>1, <3>3, AsLong
  <2>2. windows' = [d \in Devices |-> windows'[d]]
    BY DEF SetAccessories
  <2> QED BY <2>1, <2>2
<1> QED
  BY <1>1, <1>2 DEF WindowsOK, OneWindow

\* confirmLoop opens a window only where there is none.
LEMMA BeginKeeps ==
  ASSUME WindowsOK, Begin
  PROVE  WindowsOK'
<1> DEFINE d == Head(queue)
           new == Append(windows[d], Opened)
<1>1. d \in Devices /\ d \notin confirming /\ Tail(queue) \in Seq(Devices)
  BY DEF WindowsOK, Begin
<1>2. /\ windows' = [windows EXCEPT ![d] = new]
      /\ confirming' = confirming \cup {d} /\ queue' = Tail(queue)
  BY DEF Begin
<1>3. windows[d] \in Seq(Window) /\ Len(windows[d]) = 0
  BY <1>1 DEF WindowsOK, OneWindow
<1>4. Opened \in Window
  BY DEF Opened, Window, Ended
<1>5. new \in Seq(Window) /\ Len(new) = 1
  BY <1>3, <1>4
<1> HIDE DEF d, new
<1> QED
  BY <1>1, <1>2, <1>5 DEF WindowsOK, OneWindow

\* A write that finds a window at work leaves its reading to that one.
LEMMA LeaveKeeps ==
  ASSUME WindowsOK, Leave
  PROVE  WindowsOK'
<1> DEFINE d == Head(queue)
           new == Owing(windows[d])
<1>1. d \in Devices /\ Tail(queue) \in Seq(Devices)
  BY DEF WindowsOK, Leave
<1>2. /\ windows' = [windows EXCEPT ![d] = new]
      /\ confirming' = confirming /\ queue' = Tail(queue)
  BY DEF Leave
<1>3. windows[d] \in Seq(Window)
  BY <1>1 DEF WindowsOK
<1>4. new \in Seq(Window) /\ Len(new) = Len(windows[d])
  <2>1. ASSUME NEW i \in DOMAIN windows[d]
        PROVE  [windows[d][i] EXCEPT !.owes =
                  windows[d][i].at = "opening"
                  \/ (windows[d][i].holds /\ windows[d][i].at # "failed")] \in Window
    <3>1. windows[d][i] \in Window
      BY <1>1, MembersAreWindows
    <3> QED BY <3>1 DEF Window, Ended
  <2>2. new \in [DOMAIN windows[d] -> Window]
    BY <2>1 DEF Owing
  <2> HIDE DEF new, d
  <2> QED BY <1>3, <2>2, AsLong
<1> HIDE DEF d, new
<1> QED
  BY <1>1, <1>2, <1>4 DEF WindowsOK, OneWindow

\* endConfirm takes away the one window there is.
LEMMA EndConfirmKeeps ==
  ASSUME WindowsOK, NEW d \in Devices, NEW i \in DOMAIN windows[d], EndConfirm(d, i)
  PROVE  WindowsOK'
<1> DEFINE new == RemoveAt(windows[d], i)
<1>1. /\ windows' = [windows EXCEPT ![d] = new]
      /\ confirming' = confirming \ {d} /\ queue' = queue
  BY DEF EndConfirm
<1>2. windows[d] \in Seq(Window) /\ Len(windows[d]) = 1 /\ i = 1
  BY DEF WindowsOK, OneWindow
<1>3. new \in Seq(Window) /\ Len(new) = 0
  BY <1>2 DEF RemoveAt
<1> HIDE DEF new
<1> QED
  BY <1>1, <1>3 DEF WindowsOK, OneWindow

\* Every step of the syncer keeps the windows one per device.
LEMMA WindowsKept ==
  ASSUME WindowsOK, [SyncerNext]_syncerVars
  PROVE  WindowsOK'
<1>1. ASSUME NEW d \in Devices, Accepted(d) PROVE WindowsOK'
  BY <1>1, AcceptedKeeps
<1>2. ASSUME NEW S, SetAccessories(S) PROVE WindowsOK'
  BY <1>2, SetAccessoriesKeeps
<1>3. CASE Begin
  BY <1>3, BeginKeeps
<1>4. CASE Leave
  BY <1>4, LeaveKeeps
<1>5. ASSUME NEW d \in Devices, NEW i \in DOMAIN windows[d],
             LooksUp(d, i) \/ Ask(d, i) \/ Applied(d, i) \/ Expires(d, i) \/ ReadFails(d, i)
      PROVE  WindowsOK'
  <2>1. windows[d][i] \in Window
    BY MembersAreWindows
  <2>2. \E new \in Window : Moves(d, i, new) /\ UNCHANGED <<queue, confirming>>
    <3> USE <2>1 DEF Window, Ended
    <3>0. CASE LooksUp(d, i)
      <4>1. /\ (d \in accessories /\ Windowing) \in BOOLEAN
            /\ (windows[d][i].owes /\ d \in accessories /\ Windowing) \in BOOLEAN
        OBVIOUS
      <4> QED BY <3>0, <4>1 DEF LooksUp
    <3>1. CASE Ask(d, i)
      BY <3>1 DEF Ask
    <3>2. CASE Applied(d, i)
      BY <3>2 DEF Applied
    <3>3. CASE Expires(d, i)
      BY <3>3 DEF Expires
    <3>4. CASE ReadFails(d, i)
      BY <3>4 DEF ReadFails
    <3> QED BY <1>5, <3>0, <3>1, <3>2, <3>3, <3>4
  <2> QED BY <2>2, MovesKeeps
<1>6. ASSUME NEW d \in Devices, NEW i \in DOMAIN windows[d], EndConfirm(d, i)
      PROVE  WindowsOK'
  BY <1>6, EndConfirmKeeps
<1>7. CASE \/ Rest \/ PollAsks \/ PollFails \/ PollAnswered
           \/ PollApplies \/ UNCHANGED syncerVars
  BY <1>7 DEF Rest, PollAsks, PollFails, PollAnswered, PollApplies,
              syncerVars, confirmVars, WindowsOK, OneWindow
<1> QED
  BY <1>1, <1>2, <1>3, <1>4, <1>5, <1>6, <1>7 DEF SyncerNext

\* sync.go:54-55: at most one window per device runs, and confirming knows it.
THEOREM OneWindowPerDevice == SyncerSpec => []OneWindow
<1>1. WindowsOK /\ [SyncerNext]_syncerVars => WindowsOK'
  BY WindowsKept
<1>2. WindowsOK => OneWindow
  BY DEF WindowsOK
<1> QED
  BY <1>1, <1>2, SyncInit, PTL DEF SyncerSpec

\* The rest of the syncer's state: the queue keeps within its capacity, and what
\* is unread, or will be shown by a poll, is served.
SyncerInv ==
  /\ WindowsOK
  /\ SyncerTypeOK
  /\ poll = "idle" => pollSees = {}
  /\ poll = "applying" => pollSees \subseteq accessories

\* Nothing is served, queued or read at first.
LEMMA SyncerInitInv == SyncerInit => SyncerInv
<1> SUFFICES ASSUME SyncerInit PROVE SyncerInv
  OBVIOUS
<1>1. WindowsOK
  BY SyncInit
<1>2. windows \in [Devices -> Seq(Window)] /\ Len(queue) <= Capacity
  BY CapacityAssumption, <1>1 DEF WindowsOK, SyncerInit
<1> QED
  BY <1>1, <1>2 DEF SyncerInit, SyncerInv, SyncerTypeOK, WindowsOK, PollStages

\* Every step of the syncer keeps all of it.
LEMMA SyncerNextKeeps ==
  ASSUME SyncerInv, [SyncerNext]_syncerVars
  PROVE  SyncerInv'
<1>1. WindowsOK'
  BY WindowsKept DEF SyncerInv
<1> DEFINE Rest_ == /\ accessories \subseteq Devices /\ confirming \subseteq Devices
                    /\ queue \in Seq(Devices) /\ Len(queue) <= Capacity
                    /\ poll \in PollStages /\ pollSees \subseteq Devices
                    /\ polled \in BOOLEAN /\ resting \in BOOLEAN
                    /\ unread \subseteq accessories
                    /\ poll = "idle" => pollSees = {}
                    /\ poll = "applying" => pollSees \subseteq accessories
<1>2. Rest_
  BY DEF SyncerInv, SyncerTypeOK
<1>3. Rest_'
  <2> USE <1>2 DEF PollStages, confirmVars, syncPollVars
  <2>1. ASSUME NEW d \in Devices, Accepted(d) PROVE Rest_'
    <3>1. queue' \in Seq(Devices) /\ Len(queue') <= Capacity
      BY <2>1, CapacityAssumption DEF Accepted
    <3> QED BY <2>1, <3>1 DEF Accepted
  <2>2. ASSUME NEW S \in SUBSET Devices, SetAccessories(S) PROVE Rest_'
    BY <2>2 DEF SetAccessories
  <2>3. CASE Begin \/ Leave
    <3>1. queue' = Tail(queue) /\ queue # <<>> /\ Head(queue) \in Devices
      BY <2>3 DEF Begin, Leave
    <3>2. queue' \in Seq(Devices) /\ Len(queue') <= Capacity
      BY <3>1, CapacityAssumption
    <3> QED BY <2>3, <3>1, <3>2 DEF Begin, Leave
  <2>4. ASSUME NEW d \in Devices, NEW i \in DOMAIN windows[d],
               LooksUp(d, i) \/ Ask(d, i) \/ Applied(d, i) \/ Expires(d, i)
                 \/ ReadFails(d, i) \/ EndConfirm(d, i)
        PROVE  Rest_'
    BY <2>4 DEF LooksUp, Ask, Applied, Expires, ReadFails, EndConfirm
  <2>5. CASE Rest
    BY <2>5 DEF Rest
  <2>6. CASE PollAsks \/ PollFails \/ PollAnswered \/ PollApplies
    BY <2>6 DEF PollAsks, PollFails, PollAnswered, PollApplies
  <2>7. CASE UNCHANGED syncerVars
    BY <2>7 DEF syncerVars
  <2> QED
    BY <2>1, <2>2, <2>3, <2>4, <2>5, <2>6, <2>7 DEF SyncerNext
<1> QED
  BY <1>1, <1>3 DEF SyncerInv, SyncerTypeOK, WindowsOK

\* The syncer's state in every reachable state: the queue never holds more than
\* its capacity, and only served accessories are left unread (sync.go:60, 149).
THEOREM SyncerTypeCorrect == SyncerSpec => []SyncerTypeOK
<1>1. SyncerInv /\ [SyncerNext]_syncerVars => SyncerInv'
  BY SyncerNextKeeps
<1>2. SyncerInv => SyncerTypeOK
  BY DEF SyncerInv
<1> QED
  BY <1>1, <1>2, SyncerInitInv, PTL DEF SyncerSpec

\* Nobody writes, nothing is rebuilt, and the poll under way, if any, was begun
\* since: it sees every device, and then shows every served accessory.
Undisturbed ==
  /\ resting
  /\ poll = "asking" => pollSees = Devices
  /\ poll = "applying" => pollSees = accessories

\* "The next full poll will catch up regardless" (sync.go:148-149), whatever the
\* queue dropped and the windows missed: once nobody writes and nothing is
\* rebuilt, every poll begun from then on that is applied leaves no accessory
\* without what was read after its last write.
THEOREM NextPollCatchesUp ==
  SyncerSpec => [](resting /\ poll = "idle" => [][PollApplies => unread' = {}]_syncerVars)
<1>1. SyncerInv /\ [SyncerNext]_syncerVars => SyncerInv'
  BY SyncerNextKeeps
<1>2. resting /\ poll = "idle" => Undisturbed
  BY DEF Undisturbed
<1>3. SyncerInv /\ Undisturbed /\ [SyncerNext]_syncerVars => Undisturbed'
  <2> SUFFICES ASSUME SyncerInv, Undisturbed, [SyncerNext]_syncerVars PROVE Undisturbed'
    OBVIOUS
  <2> USE DEF Undisturbed, confirmVars, syncPollVars
  <2>1. ASSUME NEW d \in Devices, Accepted(d) PROVE Undisturbed'
    BY <2>1 DEF Accepted
  <2>2. ASSUME NEW S \in SUBSET Devices, SetAccessories(S) PROVE Undisturbed'
    BY <2>2 DEF SetAccessories
  <2>3. CASE Begin \/ Leave
    BY <2>3 DEF Begin, Leave
  <2>4. ASSUME NEW d \in Devices, NEW i \in DOMAIN windows[d],
               LooksUp(d, i) \/ Ask(d, i) \/ Applied(d, i) \/ Expires(d, i)
                 \/ ReadFails(d, i) \/ EndConfirm(d, i)
        PROVE  Undisturbed'
    BY <2>4 DEF LooksUp, Ask, Applied, Expires, ReadFails, EndConfirm
  <2>5. CASE Rest
    BY <2>5 DEF Rest
  <2>6. CASE PollAsks \/ PollFails \/ PollAnswered \/ PollApplies
    BY <2>6 DEF PollAsks, PollFails, PollAnswered, PollApplies, SyncerInv, SyncerTypeOK
  <2>7. CASE UNCHANGED syncerVars
    BY <2>7 DEF syncerVars
  <2> QED
    BY <2>1, <2>2, <2>3, <2>4, <2>5, <2>6, <2>7 DEF SyncerNext
<1>4. SyncerInv /\ Undisturbed => [PollApplies => unread' = {}]_syncerVars
  BY DEF SyncerInv, SyncerTypeOK, Undisturbed, PollApplies
<1> QED
  BY <1>1, <1>2, <1>3, <1>4, SyncerInitInv, PTL DEF SyncerSpec

\* And it stays so: once nobody writes and nothing is rebuilt, an accessory that
\* showed what was read after its last write never counts as unread again.
THEOREM ReadStaysRead ==
  SyncerSpec => [](resting /\ unread = {} => [](resting /\ unread = {}))
<1>1. resting /\ unread = {} /\ [SyncerNext]_syncerVars => (resting /\ unread = {})'
  BY DEF SyncerNext, syncerVars, confirmVars, syncPollVars, Accepted, SetAccessories, Begin,
         Leave, LooksUp, Ask, Applied, Expires, ReadFails, EndConfirm, Rest, PollAsks, PollFails,
         PollAnswered, PollApplies
<1> QED
  BY <1>1, PTL DEF SyncerSpec
-----------------------------------------------------------------------------
(* The contact sensor of Bridge Health (module Health), for every number of *)
(* accessories that are written.                                            *)

CONSTANT Writers
VARIABLES cloud, token, failures, problems, contact, found, task

Sensor == INSTANCE Health

\* No goroutine brings news in N, and none is about to paint what it counted to
\* be healthy = h.
Quiet(N, h) ==
  \A g \in Sensor!Goroutines :
    /\ task[g].at = "observer" => task[g].news \notin N
    /\ task[g].at = "paint" => task[g].healthy # h

\* A problem is known, and every late word that it is over has been heard.
Alarmed(problem, allClear) ==
  /\ problem \in problems
  /\ Quiet({allClear}, TRUE)
  /\ Sensor!Shows("open")

\* No problem is known, and every late word of one has been heard.
Calm ==
  /\ problems = {}
  /\ Quiet({"failing", "tokenBad"}, FALSE)
  /\ contact = "closed"

\* What the sensor's proofs assume of the names of goroutines (NamesAssumption).
WritersAreAccessories == Writers \cap {"poll", "ticker", "supervisor"} = {}

\* Where the goroutines are, of Health!TypeOK.
TasksOK ==
  /\ task \in [Sensor!Goroutines -> Sensor!Task]
  /\ task["supervisor"].at = "observer" => ~found /\ task["supervisor"].news = "failing"
  /\ \A g \in Sensor!Goroutines : task[g].at = "observer" =>
       (task[g].news \in {"tokenOK", "tokenBad"} <=> g = "ticker")

\* A goroutine goes to the observer with the news that are its own to bring.
LEMMA TellsTypes ==
  ASSUME TasksOK, NEW g \in Sensor!Goroutines, g # "supervisor",
         NEW news \in {"ok", "blip", "failing", "tokenOK", "tokenBad"},
         news \in {"tokenOK", "tokenBad"} <=> g = "ticker",
         Sensor!Tells(g, news), found' = found
  PROVE  TasksOK'
<1> DEFINE new == [Sensor!Idle EXCEPT !.at = "observer", !.news = news]
<1>1. new \in Sensor!Task /\ new.news = news
  BY DEF Sensor!Task, Sensor!Idle
<1>2. task' = [task EXCEPT ![g] = new]
  BY DEF Sensor!Tells
<1> HIDE DEF new
<1> QED
  BY <1>1, <1>2 DEF TasksOK, Sensor!Goroutines

\* Every field keeps its type and every goroutine is where its code goes.
LEMMA SensorNextKeeps ==
  ASSUME WritersAreAccessories, Sensor!TypeOK, [Sensor!Next]_(Sensor!vars)
  PROVE  Sensor!TypeOK'
<1> USE DEF Sensor!TypeOK, Sensor!Goroutines, Sensor!Task, Sensor!Idle, Sensor!Tells,
            Sensor!Goes, Sensor!Clouds, Sensor!AlarmAfter, Sensor!FailureCap, WritersAreAccessories
<1>1. CASE Sensor!CloudChanges \/ Sensor!TokenChanges \/ UNCHANGED Sensor!vars
  <2>1. CASE Sensor!CloudChanges
    BY <2>1 DEF Sensor!CloudChanges
  <2>2. CASE Sensor!TokenChanges
    <3>1. token' \in BOOLEAN
      BY <2>2, Zenon DEF Sensor!TokenChanges
    <3> QED BY <2>2, <3>1 DEF Sensor!TokenChanges
  <2>3. CASE UNCHANGED Sensor!vars
    <3>1. token' \in BOOLEAN /\ found' \in BOOLEAN /\ (found' <=> found)
      BY <2>3, Zenon DEF Sensor!vars
    <3>2. task' = task /\ UNCHANGED <<cloud, failures, problems, contact>>
      BY <2>3 DEF Sensor!vars
    <3> QED BY <3>1, <3>2
  <2> QED BY <1>1, <2>1, <2>2, <2>3
<1>2. ASSUME NEW g \in Sensor!Goroutines, Sensor!Succeeds(g) PROVE Sensor!TypeOK'
  <2>1. g \in {"poll"} \cup Writers /\ g # "supervisor" /\ g # "ticker" /\ found' = found
    BY <1>2 DEF Sensor!Succeeds, Sensor!Callers
  <2>2. TasksOK'
    BY <1>2, <2>1, TellsTypes DEF Sensor!Succeeds, TasksOK
  <2> QED
    BY <1>2, <2>2 DEF Sensor!Succeeds, TasksOK
<1>3. ASSUME NEW g \in Sensor!Goroutines, Sensor!Fails(g) PROVE Sensor!TypeOK'
  <2>1. g \in {"poll"} \cup Writers /\ g # "supervisor" /\ g # "ticker" /\ found' = found
    BY <1>3 DEF Sensor!Fails, Sensor!Callers
  <2>2. TasksOK'
    <3>1. PICK news \in {"blip", "failing"} : Sensor!Tells(g, news)
      BY <1>3 DEF Sensor!Fails, Sensor!NewsOf
    <3> QED
      BY <2>1, <3>1, TellsTypes DEF TasksOK
  <2> QED
    BY <1>3, <2>2 DEF Sensor!Fails, TasksOK
<1>4. CASE Sensor!Tick
  BY <1>4 DEF Sensor!Tick
<1>5. ASSUME NEW g \in Sensor!Goroutines, Sensor!Observe(g) PROVE Sensor!TypeOK'
  BY <1>5 DEF Sensor!Observe, Sensor!ProblemsAfter
<1>6. ASSUME NEW g \in Sensor!Goroutines, Sensor!Refresh(g) PROVE Sensor!TypeOK'
  BY <1>6 DEF Sensor!Refresh
<1>7. ASSUME NEW g \in Sensor!Goroutines, Sensor!Paint(g) PROVE Sensor!TypeOK'
  BY <1>7 DEF Sensor!Paint
<1>8. CASE Sensor!Rebuild
  BY <1>8 DEF Sensor!Rebuild
<1>9. CASE Sensor!DiscoveryFails
  BY <1>9 DEF Sensor!DiscoveryFails
<1>10. CASE Sensor!Discovered
  <2>1. found' \in BOOLEAN
    BY <1>10, Zenon DEF Sensor!Discovered
  <2> QED BY <1>10, <2>1 DEF Sensor!Discovered
<1> QED
  BY <1>1, <1>2, <1>3, <1>4, <1>5, <1>6, <1>7, <1>8, <1>9, <1>10 DEF Sensor!Next

\* Whatever else runs, an alarm that has settled stays while nobody brings the
\* word that would end it.
LEMMA AlarmedKeeps ==
  ASSUME WritersAreAccessories, Sensor!TypeOK, [Sensor!Next]_(Sensor!vars),
         NEW problem \in {"poll", "auth"}, NEW allClear,
         allClear = (IF problem = "poll" THEN "ok" ELSE "tokenOK"),
         problem = "poll" => cloud = "down",
         problem = "auth" => ~token,
         Alarmed(problem, allClear)
  PROVE  Alarmed(problem, allClear)'
<1> USE DEF Sensor!TypeOK, Sensor!Goroutines, Sensor!Task, Sensor!Idle, Sensor!Tells,
            Sensor!Goes, WritersAreAccessories, Alarmed, Quiet, Sensor!Shows
<1>1. CASE Sensor!CloudChanges \/ Sensor!TokenChanges \/ UNCHANGED Sensor!vars
  BY <1>1 DEF Sensor!CloudChanges, Sensor!TokenChanges, Sensor!vars
<1>2. ASSUME NEW g \in Sensor!Goroutines, Sensor!Succeeds(g)
      PROVE  Alarmed(problem, allClear)'
  BY <1>2 DEF Sensor!Succeeds
<1>3. ASSUME NEW g \in Sensor!Goroutines, Sensor!Fails(g)
      PROVE  Alarmed(problem, allClear)'
  BY <1>3 DEF Sensor!Fails, Sensor!NewsOf
<1>4. CASE Sensor!Tick
  BY <1>4 DEF Sensor!Tick
<1>5. ASSUME NEW g \in Sensor!Goroutines, Sensor!Observe(g)
      PROVE  Alarmed(problem, allClear)'
  BY <1>5 DEF Sensor!Observe, Sensor!ProblemsAfter
<1>6. ASSUME NEW g \in Sensor!Goroutines, Sensor!Refresh(g)
      PROVE  Alarmed(problem, allClear)'
  BY <1>6 DEF Sensor!Refresh
<1>7. ASSUME NEW g \in Sensor!Goroutines, Sensor!Paint(g)
      PROVE  Alarmed(problem, allClear)'
  BY <1>7 DEF Sensor!Paint
<1>8. CASE Sensor!Rebuild
  BY <1>8 DEF Sensor!Rebuild
<1>9. CASE Sensor!DiscoveryFails
  BY <1>9 DEF Sensor!DiscoveryFails
<1>10. CASE Sensor!Discovered
  BY <1>10 DEF Sensor!Discovered
<1> QED
  BY <1>1, <1>2, <1>3, <1>4, <1>5, <1>6, <1>7, <1>8, <1>9, <1>10 DEF Sensor!Next

\* And a closed sensor stays closed while nobody brings word of a problem.
LEMMA CalmKeeps ==
  ASSUME WritersAreAccessories, Sensor!TypeOK, [Sensor!Next]_(Sensor!vars),
         cloud = "up", token, Calm
  PROVE  Calm'
<1> USE DEF Sensor!TypeOK, Sensor!Goroutines, Sensor!Task, Sensor!Idle, Sensor!Tells,
            Sensor!Goes, WritersAreAccessories, Calm, Quiet
<1>1. CASE Sensor!CloudChanges \/ Sensor!TokenChanges \/ UNCHANGED Sensor!vars
  BY <1>1 DEF Sensor!CloudChanges, Sensor!TokenChanges, Sensor!vars
<1>2. ASSUME NEW g \in Sensor!Goroutines, Sensor!Succeeds(g) PROVE Calm'
  BY <1>2 DEF Sensor!Succeeds
<1>3. \A g \in Sensor!Goroutines : ~Sensor!Fails(g)
  BY DEF Sensor!Fails
<1>4. CASE Sensor!Tick
  BY <1>4 DEF Sensor!Tick
<1>5. ASSUME NEW g \in Sensor!Goroutines, Sensor!Observe(g) PROVE Calm'
  BY <1>5 DEF Sensor!Observe, Sensor!ProblemsAfter
<1>6. ASSUME NEW g \in Sensor!Goroutines, Sensor!Refresh(g) PROVE Calm'
  BY <1>6 DEF Sensor!Refresh
<1>7. ASSUME NEW g \in Sensor!Goroutines, Sensor!Paint(g) PROVE Calm'
  BY <1>7 DEF Sensor!Paint
<1>8. CASE Sensor!Rebuild
  BY <1>8 DEF Sensor!Rebuild
<1>9. CASE Sensor!DiscoveryFails
  BY <1>9 DEF Sensor!DiscoveryFails
<1>10. CASE Sensor!Discovered
  BY <1>10 DEF Sensor!Discovered
<1> QED
  BY <1>1, <1>2, <1>3, <1>4, <1>5, <1>6, <1>7, <1>8, <1>9, <1>10 DEF Sensor!Next

\* The fields of Bridge Health in every reachable state (health.go:176-248).
THEOREM SensorTypeCorrect ==
  ASSUME WritersAreAccessories
  PROVE  Sensor!Spec => []Sensor!TypeOK
<1>1. Sensor!Init => Sensor!TypeOK
  <2> SUFFICES ASSUME Sensor!Init PROVE Sensor!TypeOK
    OBVIOUS
  <2>1. found \in BOOLEAN
    BY Zenon DEF Sensor!Init
  <2> QED
    BY <2>1 DEF Sensor!Init, Sensor!TypeOK, Sensor!Goroutines, Sensor!Task, Sensor!Idle,
         Sensor!FailureCap, Sensor!AlarmAfter, Sensor!Clouds
<1>2. Sensor!TypeOK /\ [Sensor!Next]_(Sensor!vars) => Sensor!TypeOK'
  BY SensorNextKeeps
<1> QED
  BY <1>1, <1>2, PTL DEF Sensor!Spec

\* A lasting outage opens the sensor for good once its alarm has settled: no
\* stale repaint, no rebuild and no word about the token shows a healthy bridge
\* again (health.go:101-103, 169-176).  Of OutageShows this is all but that the
\* alarm is raised at last, which is for fairness and TLC.
THEOREM OutageStaysShown ==
  ASSUME WritersAreAccessories
  PROVE  Sensor!Spec =>
           []([](cloud = "down") /\ Alarmed("poll", "ok") => []Sensor!Shows("open"))
<1>1. Sensor!TypeOK /\ [Sensor!Next]_(Sensor!vars) /\ cloud = "down" /\ Alarmed("poll", "ok")
        => Alarmed("poll", "ok")'
  BY AlarmedKeeps
<1>2. Alarmed("poll", "ok") => Sensor!Shows("open")
  BY DEF Alarmed
<1> QED
  BY <1>1, <1>2, SensorTypeCorrect, PTL DEF Sensor!Spec

\* So does a token that stays unusable, whatever polls and writes report and
\* whatever they clear meanwhile (health.go:206).
THEOREM TokenTroubleStaysShown ==
  ASSUME WritersAreAccessories
  PROVE  Sensor!Spec =>
           []([](~token) /\ Alarmed("auth", "tokenOK") => []Sensor!Shows("open"))
<1>1. Sensor!TypeOK /\ [Sensor!Next]_(Sensor!vars) /\ ~token /\ Alarmed("auth", "tokenOK")
        => Alarmed("auth", "tokenOK")'
  BY AlarmedKeeps
<1>2. Alarmed("auth", "tokenOK") => Sensor!Shows("open")
  BY DEF Alarmed
<1> QED
  BY <1>1, <1>2, SensorTypeCorrect, PTL DEF Sensor!Spec

\* And while Yandex answers and the token is good, a sensor that has closed with
\* no word of trouble under way stays closed.
THEOREM RecoveryStaysShown ==
  ASSUME WritersAreAccessories
  PROVE  Sensor!Spec =>
           []([](cloud = "up" /\ token) /\ Calm => []Sensor!Shows("closed"))
<1>1. Sensor!TypeOK /\ [Sensor!Next]_(Sensor!vars) /\ (cloud = "up" /\ token) /\ Calm => Calm'
  BY CalmKeeps
<1>2. Calm => Sensor!Shows("closed")
  BY DEF Calm, Sensor!Shows
<1> QED
  BY <1>1, <1>2, SensorTypeCorrect, PTL DEF Sensor!Spec
-----------------------------------------------------------------------------
(* Which accessories are Not Responding (module Link), for every set of     *)
(* devices and every threshold.  What Link shares its name with elsewhere   *)
(* in this module is given one of its own.                                  *)

CONSTANTS UnhealthyAfter, HomeChanges
VARIABLES account, ownState, reachable, failed, linked, offline, reads, ordered, listed, loops

Flags == INSTANCE Link WITH failures <- failed, windows <- reads, rebuild <- ordered, task <- loops

\* What the proofs assume of the constants (WritersAssumption and
\* ThresholdAssumption of Link).
LinkConstants ==
  /\ Writers \subseteq Devices /\ "poll" \notin Devices
  /\ UnhealthyAfter \in Nat \ {0} /\ HomeChanges \in BOOLEAN

\* A device that the home no longer has is marked, and no loop, answer or
\* rebuild from before it vanished is left that would clear it.
Vanished(d) ==
  /\ d \in linked \cap offline
  /\ reachable
  /\ d \notin listed
  /\ \A S \in ordered : d \notin S
  /\ \A g \in Flags!Goroutines : loops[g].at = "clearing" => d \notin loops[g].todo

\* A device that the home has is not marked, and no loop or answer from before
\* is left that would mark it.
Present(d) ==
  /\ d \notin offline
  /\ reachable
  /\ \A g \in Flags!Goroutines :
       /\ loops[g].at # "clearing" => d \notin loops[g].todo
       /\ g = "poll" /\ loops[g].at = "clearing" => d \in listed

\* A goroutine goes on with a loop over accessories that are served.
LEMMA DoesTypes ==
  ASSUME NEW g \in Flags!Goroutines, NEW todo \in SUBSET linked, linked \subseteq Devices,
         NEW loop \in {"idle", "clearing", "marking", "missing"},
         loops \in [Flags!Goroutines -> Flags!Task],
         \A h \in Flags!Goroutines : loops[h].todo \subseteq linked,
         Flags!Does(g, loop, todo), linked' = linked
  PROVE  /\ loops' \in [Flags!Goroutines -> Flags!Task]
         /\ \A h \in Flags!Goroutines : loops'[h].todo \subseteq linked'
BY DEF Flags!Does, Flags!Task

\* A step of a loop visits one accessory of those it had still to visit.
LEMMA Visits ==
  ASSUME NEW g \in Flags!Goroutines, loops \in [Flags!Goroutines -> Flags!Task],
         Flags!SetUnreachable(g)
  PROVE  \E d \in loops[g].todo :
           /\ offline' = IF loops[g].at = "clearing" THEN offline \ {d} ELSE offline \cup {d}
           /\ loops' = [loops EXCEPT ![g] = [at |-> loops[g].at, todo |-> loops[g].todo \ {d}]]
<1>1. PICK d \in loops[g].todo :
        /\ offline' = IF loops[g].at = "clearing" THEN offline \ {d} ELSE offline \cup {d}
        /\ loops' = [loops EXCEPT ![g].todo = @ \ {d}]
  BY DEF Flags!SetUnreachable
<1>2. [loops[g] EXCEPT !.todo = @ \ {d}] = [at |-> loops[g].at, todo |-> loops[g].todo \ {d}]
  BY DEF Flags!Task
<1> QED BY <1>1, <1>2

\* Every step of the poll and flush goroutines keeps the fields in their types.
LEMMA FlagsNextKeeps ==
  ASSUME LinkConstants, Flags!TypeOK, [Flags!Next]_(Flags!vars)
  PROVE  Flags!TypeOK'
<1> USE DEF Flags!TypeOK, Flags!Clouds, Flags!world, Flags!link, LinkConstants
<1>g. "poll" \in Flags!Goroutines /\ Writers \subseteq Flags!Goroutines
  BY DEF Flags!Goroutines
<1>1. CASE Flags!CloudChanges \/ Flags!AccountChanges \/ Flags!DeviceChanges \/ UNCHANGED Flags!vars
  BY <1>1 DEF Flags!CloudChanges, Flags!AccountChanges, Flags!DeviceChanges, Flags!vars
<1>2. ASSUME NEW g \in Flags!Goroutines, Flags!SetUnreachable(g) PROVE Flags!TypeOK'
  <2>1. PICK d \in loops[g].todo :
          /\ offline' = IF loops[g].at = "clearing" THEN offline \ {d} ELSE offline \cup {d}
          /\ loops' = [loops EXCEPT ![g] = [at |-> loops[g].at, todo |-> loops[g].todo \ {d}]]
    BY <1>2, Visits
  <2>2. loops[g].todo \subseteq linked /\ loops[g] \in Flags!Task
    OBVIOUS
  <2>3. [at |-> loops[g].at, todo |-> loops[g].todo \ {d}] \in Flags!Task
    BY <2>2 DEF Flags!Task
  <2>4. /\ loops' \in [Flags!Goroutines -> Flags!Task]
        /\ \A h \in Flags!Goroutines : loops'[h].todo \subseteq linked
    BY <2>1, <2>2, <2>3
  <2> QED
    BY <1>2, <2>1, <2>2, <2>4 DEF Flags!SetUnreachable
<1>3. ASSUME NEW g \in Flags!Goroutines, Flags!LoopEnds(g) PROVE Flags!TypeOK'
  BY <1>3, DoesTypes DEF Flags!LoopEnds, Flags!Missing
<1>4. ASSUME NEW g \in Flags!Goroutines, Flags!MarkReachable(g) \/ Flags!MarkUnreachable(g),
             UNCHANGED <<linked, account>>
      PROVE  /\ failed' \in 0 .. UnhealthyAfter /\ reachable' = (failed' = 0)
             /\ loops' \in [Flags!Goroutines -> Flags!Task]
             /\ \A h \in Flags!Goroutines : loops'[h].todo \subseteq linked'
  <2>0. /\ linked' = linked /\ linked \subseteq Devices
        /\ loops \in [Flags!Goroutines -> Flags!Task]
        /\ \A h \in Flags!Goroutines : loops[h].todo \subseteq linked
    BY <1>4
  <2>1. CASE Flags!MarkReachable(g)
    <3>1. PICK todo \in SUBSET linked : Flags!Does(g, "clearing", todo)
      BY <2>1 DEF Flags!MarkReachable
    <3>2. failed' \in 0 .. UnhealthyAfter /\ reachable' = (failed' = 0)
      <4>1. failed' = 0 /\ reachable' = TRUE
        BY <2>1 DEF Flags!MarkReachable
      <4>2. 0 \in 0 .. UnhealthyAfter
        OBVIOUS
      <4> QED BY <4>1, <4>2, Zenon
    <3>3. /\ loops' \in [Flags!Goroutines -> Flags!Task]
          /\ \A h \in Flags!Goroutines : loops'[h].todo \subseteq linked'
      BY <2>0, <3>1, DoesTypes
    <3> QED BY <3>2, <3>3
  <2>2. CASE Flags!MarkUnreachable(g)
    <3>1. PICK todo \in SUBSET linked : Flags!Does(g, "marking", todo)
      BY <2>2 DEF Flags!MarkUnreachable
    <3>2. failed' \in 0 .. UnhealthyAfter /\ reachable' = (failed' = 0)
      <4>1. reachable' = FALSE
        BY <2>2 DEF Flags!MarkUnreachable
      <4>2. failed' \in 0 .. UnhealthyAfter /\ failed' # 0
        BY <2>2 DEF Flags!MarkUnreachable
      <4> QED BY <4>1, <4>2, Zenon
    <3>3. /\ loops' \in [Flags!Goroutines -> Flags!Task]
          /\ \A h \in Flags!Goroutines : loops'[h].todo \subseteq linked'
      BY <2>0, <3>1, DoesTypes
    <3> QED BY <3>2, <3>3
  <2> QED BY <1>4, <2>1, <2>2
<1>5. CASE Flags!PollFails
  BY <1>5, <1>g, <1>4 DEF Flags!PollFails
<1>6. CASE Flags!PollSucceeds
  BY <1>6, <1>g, <1>4 DEF Flags!PollSucceeds
<1>7. CASE Flags!PollDone
  BY <1>7, <1>g, DoesTypes DEF Flags!PollDone
<1>8. ASSUME NEW d \in Writers, Flags!WriteFails(d) PROVE Flags!TypeOK'
  BY <1>8, <1>g, <1>4 DEF Flags!WriteFails
<1>9. ASSUME NEW d \in Writers, Flags!WriteAnswered(d) PROVE Flags!TypeOK'
  BY <1>9, <1>g, <1>4 DEF Flags!WriteAnswered
<1>10. ASSUME NEW d \in Writers, Flags!ConfirmRead(d) \/ Flags!ConfirmEnds(d) PROVE Flags!TypeOK'
  BY <1>10 DEF Flags!ConfirmRead, Flags!ConfirmEnds
<1>11. CASE Flags!SetAccessories
  BY <1>11 DEF Flags!SetAccessories, Flags!Task
<1> QED
  BY <1>1, <1>2, <1>3, <1>5, <1>6, <1>7, <1>8, <1>9, <1>10, <1>11 DEF Flags!Next

\* The fields of the syncer in every reachable state: reachable and failures
\* tell the same story, and only accessories that are served are marked, read
\* or visited (sync.go:98-130, 331-369).
THEOREM LinkTypeCorrect ==
  ASSUME LinkConstants
  PROVE  Flags!Spec => []Flags!TypeOK
<1>1. Flags!Init => Flags!TypeOK
  <2> SUFFICES ASSUME Flags!Init PROVE Flags!TypeOK
    OBVIOUS
  <2> USE DEF Flags!Init, Flags!Clouds, LinkConstants
  <2>1. Flags!Idle \in Flags!Task /\ Flags!Idle.todo = {}
    BY DEF Flags!Task, Flags!Idle
  <2>2. /\ loops \in [Flags!Goroutines -> Flags!Task]
        /\ \A g \in Flags!Goroutines : loops[g].todo \subseteq linked
    BY <2>1
  <2>3. \E S \in SUBSET Devices : ordered = {S}
    OBVIOUS
  <2>4. /\ {account, ownState, linked, listed} \subseteq SUBSET Devices
        /\ failed \in 0 .. UnhealthyAfter
        /\ offline \subseteq linked /\ reads \subseteq linked
    OBVIOUS
  <2>5. reachable = (failed = 0)
    BY Zenon
  <2> QED
    BY <2>2, <2>3, <2>4, <2>5 DEF Flags!TypeOK
<1>2. Flags!TypeOK /\ [Flags!Next]_(Flags!vars) => Flags!TypeOK'
  BY FlagsNextKeeps
<1> QED
  BY <1>1, <1>2, PTL DEF Flags!Spec

\* No step marks a vanished device as responding while it stays away and its
\* accessory is served.
LEMMA VanishedKeeps ==
  ASSUME LinkConstants, Flags!TypeOK, [Flags!Next]_(Flags!vars), NEW d \in Devices,
         cloud = "up", d \notin account, (d \in linked)', Vanished(d)
  PROVE  Vanished(d)'
<1> USE DEF Flags!TypeOK, Flags!Clouds, Flags!world, Flags!link, LinkConstants, Vanished, Flags!Task
<1>g. "poll" \in Flags!Goroutines /\ Writers \subseteq Flags!Goroutines
  BY DEF Flags!Goroutines
<1>1. CASE Flags!CloudChanges \/ Flags!AccountChanges \/ Flags!DeviceChanges \/ UNCHANGED Flags!vars
  BY <1>1 DEF Flags!CloudChanges, Flags!AccountChanges, Flags!DeviceChanges, Flags!vars
<1>2. ASSUME NEW g \in Flags!Goroutines, Flags!SetUnreachable(g) PROVE Vanished(d)'
  <2>1. PICK e \in loops[g].todo :
          /\ offline' = IF loops[g].at = "clearing" THEN offline \ {e} ELSE offline \cup {e}
          /\ loops' = [loops EXCEPT ![g] = [at |-> loops[g].at, todo |-> loops[g].todo \ {e}]]
    BY <1>2, Visits
  <2> QED
    BY <1>2, <2>1 DEF Flags!SetUnreachable
<1>3. ASSUME NEW g \in Flags!Goroutines, Flags!LoopEnds(g) PROVE Vanished(d)'
  BY <1>3 DEF Flags!LoopEnds, Flags!Does
<1>4. ~Flags!PollFails /\ \A e \in Writers : ~Flags!WriteFails(e)
  BY DEF Flags!PollFails, Flags!WriteFails
<1>5. CASE Flags!PollSucceeds
  BY <1>5, <1>g DEF Flags!PollSucceeds, Flags!MarkReachable, Flags!Does
<1>6. CASE Flags!PollDone
  BY <1>6, <1>g DEF Flags!PollDone, Flags!Does
<1>7. ASSUME NEW e \in Writers, Flags!WriteAnswered(e) PROVE Vanished(d)'
  BY <1>7, <1>g DEF Flags!WriteAnswered, Flags!MarkReachable, Flags!Does
<1>8. ASSUME NEW e \in Writers, Flags!ConfirmRead(e) \/ Flags!ConfirmEnds(e) PROVE Vanished(d)'
  BY <1>8 DEF Flags!ConfirmRead, Flags!ConfirmEnds
<1>9. ~Flags!SetAccessories
  BY DEF Flags!SetAccessories
<1> QED
  BY <1>1, <1>2, <1>3, <1>4, <1>5, <1>6, <1>7, <1>8, <1>9 DEF Flags!Next

\* No step marks a device that is there.
LEMMA PresentKeeps ==
  ASSUME LinkConstants, Flags!TypeOK, [Flags!Next]_(Flags!vars), NEW d \in Devices,
         cloud = "up", d \in account \ ownState, d \in linked, Present(d)
  PROVE  Present(d)'
<1> USE DEF Flags!TypeOK, Flags!Clouds, Flags!world, Flags!link, LinkConstants, Present, Flags!Task
<1>g. "poll" \in Flags!Goroutines /\ Writers \subseteq Flags!Goroutines
  BY DEF Flags!Goroutines
<1>1. CASE Flags!CloudChanges \/ Flags!AccountChanges \/ Flags!DeviceChanges \/ UNCHANGED Flags!vars
  BY <1>1 DEF Flags!CloudChanges, Flags!AccountChanges, Flags!DeviceChanges, Flags!vars
<1>2. ASSUME NEW g \in Flags!Goroutines, Flags!SetUnreachable(g) PROVE Present(d)'
  <2>1. PICK e \in loops[g].todo :
          /\ offline' = IF loops[g].at = "clearing" THEN offline \ {e} ELSE offline \cup {e}
          /\ loops' = [loops EXCEPT ![g] = [at |-> loops[g].at, todo |-> loops[g].todo \ {e}]]
    BY <1>2, Visits
  <2> QED
    BY <1>2, <2>1 DEF Flags!SetUnreachable
<1>3. ASSUME NEW g \in Flags!Goroutines, Flags!LoopEnds(g) PROVE Present(d)'
  BY <1>3 DEF Flags!LoopEnds, Flags!Does, Flags!Missing
<1>4. ~Flags!PollFails /\ \A e \in Writers : ~Flags!WriteFails(e)
  BY DEF Flags!PollFails, Flags!WriteFails
<1>5. CASE Flags!PollSucceeds
  BY <1>5, <1>g DEF Flags!PollSucceeds, Flags!MarkReachable, Flags!Does
<1>6. CASE Flags!PollDone
  BY <1>6, <1>g DEF Flags!PollDone, Flags!Does
<1>7. ASSUME NEW e \in Writers, Flags!WriteAnswered(e) PROVE Present(d)'
  BY <1>7, <1>g DEF Flags!WriteAnswered, Flags!MarkReachable, Flags!Does
<1>8. ASSUME NEW e \in Writers, Flags!ConfirmRead(e) \/ Flags!ConfirmEnds(e) PROVE Present(d)'
  BY <1>8 DEF Flags!ConfirmRead, Flags!ConfirmEnds
<1>9. CASE Flags!SetAccessories
  BY <1>9 DEF Flags!SetAccessories
<1> QED
  BY <1>1, <1>2, <1>3, <1>4, <1>5, <1>6, <1>7, <1>8, <1>9 DEF Flags!Next

\* A device that stays out of every answer while its accessory is served stays
\* Not Responding once it is so and no loop from before can clear it, whatever
\* writes and windows report (sync.go:239-242).  Of VanishedIsShown this is all
\* but that it is marked at last, which is for fairness and TLC.
THEOREM VanishedStaysShown ==
  ASSUME LinkConstants, NEW d \in Devices
  PROVE  Flags!Spec =>
           []([](cloud = "up" /\ d \notin account /\ d \in linked) /\ Vanished(d)
                => []~Flags!Responding(d))
<1>1. Flags!TypeOK /\ [Flags!Next]_(Flags!vars) /\ Vanished(d)
        /\ (cloud = "up" /\ d \notin account /\ d \in linked)
        /\ (cloud = "up" /\ d \notin account /\ d \in linked)' => Vanished(d)'
  BY VanishedKeeps
<1>2. Vanished(d) => ~Flags!Responding(d)
  BY DEF Vanished, Flags!Responding
<1> QED
  BY <1>1, <1>2, LinkTypeCorrect, PTL DEF Flags!Spec

\* And a device that the home has, and that is not offline itself, goes on
\* responding once no loop from before can mark it, whatever the home's other
\* devices do and whatever is rebuilt (README.md:430-431).  That a device which
\* was marked meanwhile responds again is not so in the code: MCLinkStuck.cfg.
THEOREM PresentStaysResponding ==
  ASSUME LinkConstants, NEW d \in Devices
  PROVE  Flags!Spec =>
           []([](cloud = "up" /\ d \in account \ ownState /\ d \in linked) /\ Present(d)
                => []Flags!Responding(d))
<1>1. Flags!TypeOK /\ [Flags!Next]_(Flags!vars) /\ Present(d)
        /\ (cloud = "up" /\ d \in account \ ownState /\ d \in linked) => Present(d)'
  BY PresentKeeps
<1>2. Present(d) => Flags!Responding(d)
  BY DEF Present, Flags!Responding
<1> QED
  BY <1>1, <1>2, LinkTypeCorrect, PTL DEF Flags!Spec
=============================================================================
