--------------------------- MODULE Confirmations ---------------------------
(***************************************************************************)
(* How accessories learn what their devices do (internal/bridge/sync.go):  *)
(* the poll loop reads the whole home; after an accepted write a bounded   *)
(* queue feeds confirmLoop, which opens a window of reads of one device,   *)
(* one window per device; the supervisor replaces the accessories, and     *)
(* windows and polls go on with those they had looked up.                  *)
(*                                                                         *)
(* What a read says is abstract.  The model knows only whether it was      *)
(* begun after the last write that Yandex accepted.                        *)
(***************************************************************************)
EXTENDS Naturals, FiniteSets, Sequences, SequencesExt

CONSTANTS Devices,
          Capacity,  \* of the channel Syncer.confirm
          Windowing  \* confirm_window and confirm_interval are positive

ASSUME CapacityAssumption == Capacity \in Nat \ {0}
ASSUME WindowingAssumption == Windowing \in BOOLEAN

VARIABLES accessories, \* Syncer.accessories
          queue,       \* the channel Syncer.confirm
          confirming,  \* Syncer.confirming
          windows,     \* device |-> the goroutines in confirmDevice, see Window
          poll,        \* where pollOnce is, see PollStages
          pollSees,    \* devices not written since the poll asked; once it has looked
                       \* up the accessories, those whose accessory it will show that
          polled,      \* some poll was answered and applied
          unread,      \* history: served devices whose accessory has shown nothing
                       \* that was read since the last accepted write
          resting      \* nobody writes any more and nothing is rebuilt

confirmVars  == <<queue, confirming, windows>>
syncPollVars == <<poll, pollSees, polled>>
syncerVars   == <<accessories, confirmVars, syncPollVars, unread, resting>>

PollStages == {"idle", "asking", "applying"}

\* A window has yet to look its accessory up, waits for its ticker, reads, or has
\* returned: because confirm_window is over, because a read failed, or because
\* there is nothing to do.  holds:
\* its accessory is the one that is served; sees: it will show what was read
\* after the last accepted write; owes (history): a later write was left to this
\* window, and it has not shown it yet.
Ended == {"over", "failed", "idle"}
Window == [at : {"opening", "waiting", "reading"} \cup Ended,
           holds : BOOLEAN, sees : BOOLEAN, owes : BOOLEAN]

Opened == [at |-> "opening", holds |-> FALSE, sees |-> FALSE, owes |-> FALSE]

SyncerInit ==
  /\ accessories = {}
  /\ queue = <<>>
  /\ confirming = {} /\ windows = [d \in Devices |-> <<>>]
  /\ poll = "idle" /\ pollSees = {} /\ polled = FALSE
  /\ unread = {}
  /\ resting = FALSE

-----------------------------------------------------------------------------
(* Writes and rebuilds.                                                    *)

\* Readers that are under way do not see the write; those that begin later do.
Blinded(d) == [i \in DOMAIN windows[d] |-> [windows[d][i] EXCEPT !.sees = FALSE]]

\* Yandex accepts a write (Syncer.Apply); a full queue drops its confirmation.
\* A write may still come from an accessory that is not served any more.
Accepted(d) ==
  /\ ~resting
  /\ queue' = IF Len(queue) < Capacity THEN Append(queue, d) ELSE queue
  /\ windows' = [windows EXCEPT ![d] = Blinded(d)]
  /\ pollSees' = pollSees \ {d}
  /\ unread' = unread \cup ({d} \cap accessories)
  /\ UNCHANGED <<accessories, confirming, poll, polled, resting>>

\* SetAccessories: new accessories, built with zero values.
SetAccessories(S) ==
  /\ ~resting
  /\ accessories' = S
  /\ windows' = [d \in Devices |->
                   [i \in DOMAIN windows[d] |->
                     [windows[d][i] EXCEPT !.holds = FALSE, !.sees = FALSE, !.owes = FALSE]]]
  /\ pollSees' = IF poll = "applying" THEN {} ELSE pollSees
  /\ unread' = S
  /\ UNCHANGED <<queue, confirming, poll, polled, resting>>

Rest ==
  /\ ~resting /\ resting' = TRUE
  /\ UNCHANGED <<accessories, confirmVars, syncPollVars, unread>>

-----------------------------------------------------------------------------
(* confirmLoop and the windows.                                            *)

\* mutant: the device is looked up but not marked
BeginUnmarked ==
  /\ queue # <<>> /\ Head(queue) \notin confirming
  /\ queue' = Tail(queue)
  /\ confirming' = confirming
  /\ windows' = [windows EXCEPT ![Head(queue)] = Append(@, Opened)]
  /\ UNCHANGED <<accessories, syncPollVars, unread, resting>>

\* confirmLoop receives a device, beginConfirm marks it, and a goroutine is
\* started for its window.
Begin ==
  /\ queue # <<>> /\ Head(queue) \notin confirming
  /\ queue' = Tail(queue)
  /\ confirming' = confirming \cup {Head(queue)}
  /\ windows' = [windows EXCEPT ![Head(queue)] = Append(@, Opened)]
  /\ UNCHANGED <<accessories, syncPollVars, unread, resting>>

Owing(ws) ==
  [i \in DOMAIN ws |->
    [ws[i] EXCEPT !.owes = ws[i].at = "opening" \/ (ws[i].holds /\ ws[i].at # "failed")]]

\* beginConfirm finds a window at work.
Leave ==
  /\ queue # <<>> /\ Head(queue) \in confirming
  /\ queue' = Tail(queue)
  /\ windows' = [windows EXCEPT ![Head(queue)] = Owing(@)]
  /\ UNCHANGED <<accessories, confirming, syncPollVars, unread, resting>>

Moves(d, i, new) == windows' = [windows EXCEPT ![d][i] = new]

\* confirmDevice looks its accessory up, once.
LooksUp(d, i) ==
  /\ windows[d][i].at = "opening"
  /\ LET found == d \in accessories /\ Windowing IN
       Moves(d, i, [windows[d][i] EXCEPT !.at = IF found THEN "waiting" ELSE "idle",
                                         !.holds = found, !.owes = @ /\ found])
  /\ UNCHANGED <<accessories, queue, confirming, syncPollVars, unread, resting>>

\* The ticker fires and the device is asked.
Ask(d, i) ==
  /\ windows[d][i].at = "waiting"
  /\ Moves(d, i, [windows[d][i] EXCEPT !.at = "reading", !.sees = windows[d][i].holds])
  /\ UNCHANGED <<accessories, queue, confirming, syncPollVars, unread, resting>>

\* The answer is applied to the accessory that was looked up.
Applied(d, i) ==
  /\ windows[d][i].at = "reading"
  /\ Moves(d, i, [windows[d][i] EXCEPT !.at = "waiting", !.sees = FALSE,
                                       !.owes = @ /\ ~windows[d][i].sees])
  /\ unread' = IF windows[d][i].sees THEN unread \ {d} ELSE unread
  /\ UNCHANGED <<accessories, queue, confirming, syncPollVars, resting>>

\* The deadline of the window passes, which ends a read too.
Expires(d, i) ==
  /\ windows[d][i].at \in {"waiting", "reading"}
  /\ Moves(d, i, [windows[d][i] EXCEPT !.at = "over", !.sees = FALSE])
  /\ UNCHANGED <<accessories, queue, confirming, syncPollVars, unread, resting>>

\* A read fails before that.
ReadFails(d, i) ==
  /\ windows[d][i].at = "reading"
  /\ Moves(d, i, [windows[d][i] EXCEPT !.at = "failed", !.sees = FALSE, !.owes = FALSE])
  /\ UNCHANGED <<accessories, queue, confirming, syncPollVars, unread, resting>>

\* mutant: confirming is not reset
EndConfirmKeeping(d, i) ==
  /\ windows[d][i].at \in Ended
  /\ windows' = [windows EXCEPT ![d] = RemoveAt(@, i)]
  /\ UNCHANGED <<accessories, queue, confirming, syncPollVars, unread, resting>>

\* endConfirm
EndConfirm(d, i) ==
  /\ windows[d][i].at \in Ended
  /\ windows' = [windows EXCEPT ![d] = RemoveAt(@, i)]
  /\ confirming' = confirming \ {d}
  /\ UNCHANGED <<accessories, queue, syncPollVars, unread, resting>>

-----------------------------------------------------------------------------
(* pollOnce.                                                               *)

PollAsks ==
  /\ poll = "idle"
  /\ poll' = "asking" /\ pollSees' = Devices
  /\ UNCHANGED <<accessories, confirmVars, polled, unread, resting>>

PollFails ==
  /\ poll = "asking"
  /\ poll' = "idle" /\ pollSees' = {}
  /\ UNCHANGED <<accessories, confirmVars, polled, unread, resting>>

\* The accessories are looked up once the answer is there.
PollAnswered ==
  /\ poll = "asking"
  /\ poll' = "applying" /\ pollSees' = pollSees \cap accessories
  /\ UNCHANGED <<accessories, confirmVars, polled, unread, resting>>

\* Every device of the answer is applied.  (Devices missing from an answer are
\* the subject of Link.tla.)
PollApplies ==
  /\ poll = "applying"
  /\ poll' = "idle" /\ pollSees' = {} /\ polled' = TRUE
  /\ unread' = unread \ pollSees
  /\ UNCHANGED <<accessories, confirmVars, resting>>

-----------------------------------------------------------------------------
ConfirmLoop == Begin \/ Leave

WindowStep(d, i) ==
  \/ LooksUp(d, i) \/ Ask(d, i) \/ Applied(d, i) \/ Expires(d, i) \/ ReadFails(d, i)
  \/ EndConfirm(d, i)

SyncerNext ==
  \/ \E d \in Devices : Accepted(d)
  \/ \E S \in SUBSET Devices : SetAccessories(S)
  \/ Rest
  \/ Begin \/ Leave
  \/ \E d \in Devices : \E i \in DOMAIN windows[d] : LooksUp(d, i)
  \/ \E d \in Devices : \E i \in DOMAIN windows[d] : Ask(d, i)
  \/ \E d \in Devices : \E i \in DOMAIN windows[d] : Applied(d, i)
  \/ \E d \in Devices : \E i \in DOMAIN windows[d] : Expires(d, i)
  \/ \E d \in Devices : \E i \in DOMAIN windows[d] : ReadFails(d, i)
  \/ \E d \in Devices : \E i \in DOMAIN windows[d] : EndConfirm(d, i)
  \/ PollAsks \/ PollFails \/ PollAnswered \/ PollApplies

SyncerSpec == SyncerInit /\ [][SyncerNext]_syncerVars

\* The ticker asks, requests end, an answer is applied, and some poll is
\* answered.  confirmLoop and the windows need not even be scheduled.
PollFairness ==
  /\ WF_syncerVars(PollAsks)
  /\ WF_syncerVars(PollFails \/ PollAnswered) /\ SF_syncerVars(PollAnswered)
  /\ WF_syncerVars(PollApplies)

\* confirmLoop runs, tickers fire, and every window is over at its deadline.
WindowFairness ==
  /\ WF_syncerVars(ConfirmLoop)
  /\ \A d \in Devices :
       /\ WF_syncerVars(\E i \in DOMAIN windows[d] : WindowStep(d, i))
       /\ SF_syncerVars(\E i \in DOMAIN windows[d] : Expires(d, i))

FairSyncer == SyncerSpec /\ PollFairness /\ WindowFairness

-----------------------------------------------------------------------------
(* Properties.                                                             *)

SyncerTypeOK ==
  /\ accessories \subseteq Devices
  /\ queue \in Seq(Devices) /\ Len(queue) <= Capacity
  /\ confirming \subseteq Devices
  /\ windows \in [Devices -> Seq(Window)]
  /\ poll \in PollStages
  /\ pollSees \subseteq Devices
  /\ polled \in BOOLEAN /\ resting \in BOOLEAN
  /\ unread \subseteq accessories

\* At most one window per device runs, and confirming knows it: a burst of
\* writes cannot queue up a burst of windows (sync.go:54-55).
OneWindow ==
  \A d \in Devices : Len(windows[d]) = IF d \in confirming THEN 1 ELSE 0

\* Whatever the queue dropped, windows missed and rebuilds interrupted: once
\* nobody writes and nothing is rebuilt, every accessory comes to show what was
\* read after its last write ("the next full poll will catch up regardless",
\* sync.go:148-149), the queue drains and no window goes on for ever.
EveryWriteIsRead == resting ~> unread = {} /\ queue = <<>> /\ confirming = {}

\* "A window is already running for this device; it polls repeatedly and will
\* see the newer state on its own" (sync.go:188-189).  The code does not have it.
WindowSeesNewerState ==
  \A d \in Devices : \A i \in DOMAIN windows[d] :
    windows[d][i].at = "over" => ~windows[d][i].owes

\* "Failing fast and letting the next tick try again is both quicker and quieter"
\* (retry.go:31-34): a failed read does not end the window before its time.
\* The code does not have it.
NextTickTriesAgain ==
  \A d \in Devices : \A i \in DOMAIN windows[d] :
    windows[d][i].holds => windows[d][i].at # "failed"

\* "Poll once immediately so HomeKit shows real state as soon as it pairs,
\* rather than the zero values it was built with" (sync.go:166-167): once that
\* poll was made, no served accessory has only zero values to show.  The code
\* does not have it.
FirstPollShowsState == [][polled /\ accessories' # accessories => unread' = {}]_syncerVars
=============================================================================
