----------------------------- MODULE WritePath -----------------------------
(***************************************************************************)
(* One accessory of internal/bridge/accessory.go between HomeKit and       *)
(* Yandex: the coalescing buffer that turns HomeKit writes into requests,  *)
(* and the expectations that keep polled state from undoing a write that   *)
(* has not been confirmed yet.                                             *)
(*                                                                         *)
(* Several goroutines meet here: hap's, handling a HomeKit request, the    *)
(* timer's, running flush, and the readers' (the poll and a confirmation   *)
(* window), running Apply.  hap hands a request over one characteristic at *)
(* a time and commits the new value only after the setter has returned.    *)
(***************************************************************************)
EXTENDS Naturals

CONSTANTS Chars,    \* the writable characteristics
          Values,   \* what they can be
          Keys,     \* write groups: writeOnOff, writeColor, ...
          KeyOf,    \* characteristic |-> the key its setter queues
          Carries,  \* key |-> the characteristics buildActions sends for it
          None,     \* no value
          Readers,  \* the goroutines that read: the poll loop, a confirmation window
          Racing,   \* TRUE: goroutines may meet anywhere; FALSE: what is done
                    \* in memory is done at once, only requests are slow
          Hasty,    \* TRUE: users write again before the last write of the same
                    \* characteristic is confirmed
          Slow,     \* TRUE: requests, answers and the vendor's cloud may take longer
                    \* than the settle window
          Failing,  \* TRUE: Act may fail
          Shared    \* TRUE: the device is operated past the bridge as well

ASSUME KeysAssumption ==
  /\ KeyOf \in [Chars -> Keys]
  /\ Carries \in [Keys -> SUBSET Chars]
  /\ \A c \in Chars : c \in Carries[KeyOf[c]]
ASSUME CharsAssumption == Chars \cap {None, "idle", "visiting"} = {}
ASSUME ValuesAssumption == None \notin Values
ASSUME FlagsAssumption == {Racing, Hasty, Slow, Failing, Shared} \subseteq BOOLEAN

VARIABLES shown,    \* the value of every characteristic
          request,  \* what the HomeKit request in hand has still to write
          setting,  \* the characteristic whose setter has returned, or None
          dirty,    \* Accessory.writeDirty
          sched,    \* Accessory.writeSched
          timers,   \* time.AfterFunc calls that have not fired
          flush,    \* where flush is, see Stages
          batch,    \* the keys flush took
          payload,  \* what flush sends
          expect,   \* Accessory.expect: value and whether the window is over
          reader,   \* where each reader's Apply is, see ReaderStages
          answer,   \* the device state it works on
          checking, \* the characteristics it has still to visit
          device,   \* the state the device took last
          reported, \* the state Yandex reports, which follows later
          wanted,   \* history: the value the user asked for last, or None ...
          owed,     \* ... the characteristics of which the device must get it ...
          held      \* ... and those that must go on showing it

hapVars    == <<request, setting>>
bufferVars == <<dirty, sched, timers>>
flushVars  == <<flush, batch, payload>>
readerVars == <<reader, answer, checking>>
yandexVars == <<device, reported>>
history    == <<wanted, owed, held>>
vars == <<shown, hapVars, bufferVars, flushVars, expect, readerVars, yandexVars, history>>

Stages == {"idle", "taken", "sending", "accepted", "refused", "ending"}
ReaderStages == {"idle", "visiting"} \cup Chars

Partial(S) == UNION {[D -> Values] : D \in SUBSET S}
Nothing == [c \in {} |-> None]
NoExpectation == [value |-> None, over |-> FALSE]

Init ==
  /\ shown \in [Chars -> Values]
  /\ device = shown /\ reported = shown
  /\ request = Nothing /\ setting = None
  /\ dirty = {} /\ sched = FALSE /\ timers = 0
  /\ flush = "idle" /\ batch = {} /\ payload = Nothing
  /\ expect = [c \in Chars |-> NoExpectation]
  /\ reader = [r \in Readers |-> "idle"]
  /\ answer = [r \in Readers |-> Nothing] /\ checking = [r \in Readers |-> {}]
  /\ wanted = [c \in Chars |-> None] /\ owed = {} /\ held = {}

-----------------------------------------------------------------------------
(* What the user may rely on: history that no action of the code reads.    *)

\* A write of c is still to be built.
Waits(c) == KeyOf[c] \in dirty \/ (flush = "taken" /\ KeyOf[c] \in batch)

\* The user's choice of c: while hap has it in hand, what it is about to commit.
Chosen(c) == IF setting = c THEN request[c] ELSE wanted[c]

-----------------------------------------------------------------------------
(* hap's goroutine.                                                        *)

\* Some reader is between suppressed and SetValue.
Setting == \E r \in Readers : reader[r] \in Chars

\* The last write of c has been sent, reported and read.
Confirmed(c) == expect[c] = NoExpectation /\ reported[c] = device[c]

\* A HomeKit request arrives, for one or more characteristics.
Request(new) ==
  /\ request = Nothing /\ setting = None
  /\ new # Nothing
  /\ Racing \/ ~Setting
  /\ Hasty \/ \A c \in DOMAIN new : Confirmed(c)
  /\ request' = new
  /\ UNCHANGED <<shown, setting, bufferVars, flushVars, expect, readerVars,
                 yandexVars, history>>

\* A setter: expectValue, then queueWrite.  From here the choice is protected,
\* but from an answer that has passed suppressed already.
Setter(c) ==
  /\ setting = None /\ c \in DOMAIN request
  /\ setting' = c
  /\ expect' = [expect EXCEPT ![c] = [value |-> request[c], over |-> FALSE]]
  /\ dirty' = dirty \cup {KeyOf[c]}
  /\ sched' = TRUE /\ timers' = IF sched THEN timers ELSE timers + 1
  /\ held' = IF \E r \in Readers : reader[r] = c THEN held \ {c} ELSE held \cup {c}
  /\ UNCHANGED <<shown, request, flushVars, readerVars, yandexVars, wanted, owed>>

\* hap commits the value once the setter has returned: in time for the request
\* that will carry it, or after buildActions has read the old one.
Commit ==
  /\ setting # None
  /\ shown' = [shown EXCEPT ![setting] = request[setting]]
  /\ request' = [c \in DOMAIN request \ {setting} |-> request[c]]
  /\ setting' = None
  /\ wanted' = [wanted EXCEPT ![setting] = request[setting]]
  /\ owed' = IF Waits(setting) THEN owed \cup {setting} ELSE owed \ {setting}
  /\ UNCHANGED <<bufferVars, flushVars, expect, readerVars, yandexVars, held>>

-----------------------------------------------------------------------------
(* flush, on the timer's goroutine.                                        *)

\* Nobody else is half way through a step in memory.
Alone == Racing \/ (request = Nothing /\ ~Setting)

\* mutant: writeSched is reset when the batch is taken
TakeUnscheduled ==
  /\ timers > 0 /\ flush = "idle"
  /\ Alone
  /\ timers' = timers - 1
  /\ batch' = dirty /\ dirty' = {}
  /\ sched' = FALSE
  /\ flush' = IF dirty = {} THEN "ending" ELSE "taken"
  /\ UNCHANGED <<shown, hapVars, payload, expect, readerVars, yandexVars, history>>

\* The timer fires and flush swaps the buffer.
Take ==
  /\ timers > 0 /\ flush = "idle"
  /\ Alone
  /\ timers' = timers - 1
  /\ batch' = dirty /\ dirty' = {}
  /\ flush' = IF dirty = {} THEN "ending" ELSE "taken"
  /\ UNCHANGED <<shown, hapVars, sched, payload, expect, readerVars, yandexVars, history>>

\* buildActions reads the characteristics and Act goes out.
Build ==
  /\ flush = "taken"
  /\ Alone
  /\ payload' = [c \in UNION {Carries[k] : k \in batch} |-> shown[c]]
  /\ flush' = "sending"
  /\ UNCHANGED <<shown, hapVars, bufferVars, batch, expect, readerVars, yandexVars, history>>

\* The device after the actions of some of the groups were carried out.
Executed(K) ==
  [c \in Chars |-> IF \E k \in K : c \in Carries[k] THEN payload[c] ELSE device[c]]

ActSucceeds ==
  /\ flush = "sending"
  /\ device' = Executed(batch)
  /\ flush' = "accepted"
  /\ UNCHANGED <<shown, hapVars, bufferVars, batch, payload, expect, readerVars,
                 reported, history>>

\* An error: the request was not carried out, or its answer was lost, or some
\* of its actions failed.  Only what was written again since is still owed.
ActFails ==
  /\ Failing
  /\ flush = "sending"
  /\ \E K \in SUBSET batch : device' = Executed(K)
  /\ flush' = "refused"
  /\ owed' = {c \in owed : c \in DOMAIN payload => KeyOf[c] \in dirty}
  /\ UNCHANGED <<shown, hapVars, bufferVars, batch, payload, expect, readerVars,
                 reported, wanted, held>>

\* recordExpectations reads the characteristics once more.  Of a characteristic
\* that hap has yet to commit that is the value being replaced, and the new
\* choice loses its protection.
RecordExpectations ==
  /\ flush = "accepted"
  /\ Alone
  /\ expect' = [c \in Chars |-> IF c \in DOMAIN payload
                                  THEN [value |-> shown[c], over |-> FALSE]
                                  ELSE expect[c]]
  /\ flush' = "ending"
  /\ held' = held \ ({setting} \cap DOMAIN payload)
  /\ UNCHANGED <<shown, hapVars, bufferVars, batch, payload, readerVars, yandexVars,
                 wanted, owed>>

\* clearExpectations forgets those of later writes too.
ClearExpectations ==
  /\ flush = "refused"
  /\ expect' = [c \in Chars |-> NoExpectation]
  /\ flush' = "ending"
  /\ held' = {}
  /\ UNCHANGED <<shown, hapVars, bufferVars, batch, payload, readerVars, yandexVars,
                 wanted, owed>>

\* mutant: what arrived meanwhile is not looked at
EndWithoutMore ==
  /\ flush = "ending"
  /\ sched' = FALSE /\ timers' = timers
  /\ flush' = "idle" /\ batch' = {} /\ payload' = Nothing
  /\ UNCHANGED <<shown, hapVars, dirty, expect, readerVars, yandexVars, history>>

\* mutant: the buffer is replaced after the request, not before it
EndEmptyingBuffer ==
  /\ flush = "ending"
  /\ dirty' = {} /\ sched' = FALSE /\ timers' = timers
  /\ flush' = "idle" /\ batch' = {} /\ payload' = Nothing
  /\ UNCHANGED <<shown, hapVars, expect, readerVars, yandexVars, history>>

\* flush ends, or goes round again for what arrived meanwhile.
End ==
  /\ flush = "ending"
  /\ sched' = (dirty # {}) /\ timers' = IF dirty # {} THEN timers + 1 ELSE timers
  /\ flush' = "idle" /\ batch' = {} /\ payload' = Nothing
  /\ UNCHANGED <<shown, hapVars, dirty, expect, readerVars, yandexVars, history>>

-----------------------------------------------------------------------------
(* Apply, on a reader's goroutine.                                         *)

\* A poll or a confirmation read is answered.
Fetch(r) ==
  /\ reader[r] = "idle"
  /\ reader' = [reader EXCEPT ![r] = "visiting"]
  /\ answer' = [answer EXCEPT ![r] = reported]
  /\ checking' = [checking EXCEPT ![r] = Chars]
  /\ UNCHANGED <<shown, hapVars, bufferVars, flushVars, expect, yandexVars, history>>

\* mutant: a lapsed expectation keeps suppressing
SuppressedForEver(c, incoming) ==
  expect[c].value \notin {None, incoming}

\* mutant: the first answer that disagrees ends the expectation
SuppressedNever(c, incoming) == FALSE

\* suppressed(c, incoming)
Suppressed(c, incoming) ==
  /\ expect[c].value \notin {None, incoming}
  /\ ~expect[c].over

\* suppressed, under expectMu: it drops an expectation that lapsed or came true,
\* and a value that is not suppressed is on its way to the characteristic.  An
\* answer with the user's choice confirms it.
Check(r, c) ==
  /\ reader[r] = "visiting" /\ c \in checking[r]
  /\ Racing \/ request = Nothing
  /\ checking' = [checking EXCEPT ![r] = @ \ {c}]
  /\ expect' = IF Suppressed(c, answer[r][c]) THEN expect
                                ELSE [expect EXCEPT ![c] = NoExpectation]
  /\ reader' = IF Suppressed(c, answer[r][c]) THEN reader ELSE [reader EXCEPT ![r] = c]
  /\ held' = IF answer[r][c] = Chosen(c) THEN held \ {c} ELSE held
  /\ UNCHANGED <<shown, hapVars, bufferVars, flushVars, answer, yandexVars, wanted, owed>>

\* The comparison with Value() and SetValue, after expectMu was released: one
\* step, since setting the value that is shown changes nothing.
SetValue(r) ==
  /\ reader[r] \in Chars
  /\ shown' = [shown EXCEPT ![reader[r]] = answer[r][reader[r]]]
  /\ reader' = [reader EXCEPT ![r] = "visiting"]
  /\ owed' = IF shown' = shown THEN owed ELSE owed \ {reader[r]}
  /\ UNCHANGED <<hapVars, bufferVars, flushVars, expect, answer, checking, yandexVars,
                 wanted, held>>

ApplyEnds(r) ==
  /\ reader[r] = "visiting" /\ checking[r] = {}
  /\ reader' = [reader EXCEPT ![r] = "idle"]
  /\ answer' = [answer EXCEPT ![r] = Nothing]
  /\ UNCHANGED <<shown, hapVars, bufferVars, flushVars, expect, checking, yandexVars,
                 history>>

-----------------------------------------------------------------------------
(* The vendor's cloud, other users of the device, and time.                *)

\* The vendor's cloud catches up; without readers nobody can tell.
Settle ==
  /\ Readers # {}
  /\ reported # device
  /\ reported' = device
  /\ UNCHANGED <<shown, hapVars, bufferVars, flushVars, expect, readerVars, device,
                 history>>

\* The device is operated by a button, a voice or the Yandex app.
Operated(c, v) ==
  /\ Shared
  /\ device' = [device EXCEPT ![c] = v]
  /\ owed' = owed \ {c}
  /\ UNCHANGED <<shown, hapVars, bufferVars, flushVars, expect, readerVars, reported,
                 wanted, held>>

\* Nothing is out for c that could outlast its settle window.
Caught(c) ==
  /\ reported = device /\ \A r \in Readers : reader[r] = "idle"
  /\ setting # c /\ KeyOf[c] \notin dirty \cup batch

\* The settle window of c runs out: when it likes, or, of a device that is
\* never slow, not before the write of c was sent, reported and read.  (A bridge
\* with no settle window records no expectation: here all lapse at once.)
Lapse(c) ==
  /\ Readers # {}
  /\ Slow \/ Caught(c)
  /\ expect[c].value # None /\ ~expect[c].over
  /\ expect' = [expect EXCEPT ![c].over = TRUE]
  /\ held' = held \ {c}
  /\ UNCHANGED <<shown, hapVars, bufferVars, flushVars, readerVars, yandexVars, wanted, owed>>

-----------------------------------------------------------------------------
Flush == Take \/ Build \/ ActSucceeds \/ ActFails \/ RecordExpectations
         \/ ClearExpectations \/ End

Read(r) == Fetch(r) \/ (\E c \in Chars : Check(r, c)) \/ SetValue(r) \/ ApplyEnds(r)

Next ==
  \/ \E new \in Partial(Chars) : Request(new)
  \/ \E c \in Chars : Setter(c)
  \/ Commit
  \/ Take
  \/ Build
  \/ ActSucceeds
  \/ ActFails
  \/ RecordExpectations
  \/ ClearExpectations
  \/ End
  \/ \E r \in Readers : Fetch(r)
  \/ \E r \in Readers, c \in Chars : Check(r, c)
  \/ \E r \in Readers : SetValue(r)
  \/ \E r \in Readers : ApplyEnds(r)
  \/ Settle
  \/ \E c \in Chars, v \in Values : Operated(c, v)
  \/ \E c \in Chars : Lapse(c)

Spec == Init /\ [][Next]_vars

\* Timers fire, requests end (writeTimeout), hap's goroutine and the readers
\* run, polls are repeated, the cloud catches up and windows run out.  Nothing
\* makes a user write or a request succeed.
Fairness ==
  /\ WF_vars((\E c \in Chars : Setter(c)) \/ Commit)
  /\ WF_vars(Flush)
  /\ \A r \in Readers : WF_vars(Read(r))
  /\ WF_vars(Settle)
  /\ \A c \in Chars : WF_vars(Lapse(c))

FairSpec == Spec /\ Fairness

-----------------------------------------------------------------------------
(* Properties.                                                             *)

TypeOK ==
  /\ {shown, device, reported} \subseteq [Chars -> Values]
  /\ {request, payload} \subseteq Partial(Chars)
  /\ setting \in DOMAIN request \cup {None}
  /\ dirty \subseteq Keys /\ batch \subseteq Keys
  /\ sched \in BOOLEAN /\ timers \in 0 .. 1
  /\ flush \in Stages /\ reader \in [Readers -> ReaderStages]
  /\ answer \in [Readers -> Partial(Chars)] /\ checking \in [Readers -> SUBSET Chars]
  /\ expect \in [Chars -> [value : Values \cup {None}, over : BOOLEAN]]
  /\ wanted \in [Chars -> Values \cup {None}]
  /\ owed \subseteq Chars /\ held \subseteq Chars

Running == IF flush = "idle" THEN 0 ELSE 1

\* At most one request per accessory is in flight (accessory.go:471-474), and
\* no timer waits beside it: writeSched is exactly that a timer or a flush is
\* at work.
OneFlush == timers + Running = IF sched THEN 1 ELSE 0

\* A queued write always has a timer or a running flush to pick it up: none is
\* left in the buffer until the next touch.
DirtyIsScheduled == dirty # {} => sched

\* One request at a time, everything that waits goes with the next one, and
\* whatever is queued is sent (accessory.go:471-474).
Buffer == INSTANCE WriteBuffer WITH waiting <- dirty, sending <- batch
ImplementsWriteBuffer == Buffer!Spec

\* Once nobody touches a device any more, HomeKit ends up showing the state it
\* has, however writes failed and whatever was suppressed on the way
\* (accessory.go:697, "stop arguing and accept reality").
HandsOff == request = Nothing /\ setting = None

HomeKitShowsDevice ==
  \A c \in Chars, v \in Values :
    <>[](HandsOff /\ device[c] = v) => <>[](shown[c] = v)

\* "Whatever was collapsed, the final position must arrive" (supervisor_test.go:
\* 290): when nothing is queued or on its way, the device has the user's last
\* choice of a characteristic, however often it was changed, beside which others
\* and during which request; unless buildActions ran before hap had committed
\* it, an answer took it back on the screen first, its request failed, or the
\* device was operated since.
Quiet == request = Nothing /\ setting = None /\ dirty = {} /\ flush = "idle"

LastWriteArrives ==
  Quiet => \A c \in owed : device[c] = wanted[c]

\* suppressed ignores what "contradicts a write that Yandex has not confirmed
\* yet" (accessory.go:680-681), which stops the colour picker from jumping back
\* under the user's finger: whatever polls and windows read, a characteristic
\* goes on showing the user's choice, and changes only to a newer one, until an
\* answer has agreed with it, its settle window is over, or a request failed;
\* unless an answer was past suppressed when the choice was made, or
\* recordExpectations ran before hap had committed it.
ChosenStaysShown ==
  [][\A c \in held :
       shown'[c] = shown[c] \/ (setting = c /\ shown'[c] = request[c])]_vars

\* The same without exceptions: when nobody else operates the device and no
\* request fails, the code has neither.
FinalPositionArrives ==
  Quiet => \A c \in Chars : wanted[c] \in {None, device[c]}

ChoiceNeverJumps ==
  [][\A c \in Chars :
       wanted[c] # None /\ shown[c] = wanted[c]
         => shown'[c] = shown[c] \/ setting = c]_vars
=============================================================================
