-------------------------- MODULE WritePathProofs --------------------------
(***************************************************************************)
(* What writeSched guards, for any set of characteristics, keys and        *)
(* values: at most one flush is at work or waiting for its timer, and a    *)
(* queued write is never left without one.  Both are inductive together:   *)
(* the buffer is only filled with writeSched set, and writeSched is only   *)
(* reset by a flush that finds it empty.                                   *)
(***************************************************************************)
EXTENDS WritePath, TLAPS

\* What the three writers of the buffer rely on.
BufferTypes ==
  /\ timers \in 0 .. 1
  /\ sched \in BOOLEAN
  /\ flush \in Stages

Inv == BufferTypes /\ OneFlush /\ DirtyIsScheduled

LEMMA InitInvariant == Init => Inv
<1> SUFFICES ASSUME Init PROVE Inv
  OBVIOUS
<1>1. dirty = {} /\ ~sched /\ timers = 0 /\ flush = "idle"
  BY DEF Init
<1>2. sched \in BOOLEAN
  BY Zenon DEF Init
<1>3. BufferTypes
  BY <1>1, <1>2 DEF BufferTypes, Stages
<1>4. OneFlush
  BY <1>1 DEF OneFlush, Running
<1>5. DirtyIsScheduled
  BY <1>1 DEF DirtyIsScheduled
<1>6. QED
  BY <1>3, <1>4, <1>5 DEF Inv

\* A setter arms a timer exactly when none is armed and no flush runs.
LEMMA SetterKeeps == ASSUME Inv, NEW c \in Chars, Setter(c) PROVE Inv'
  BY DEF Inv, BufferTypes, OneFlush, DirtyIsScheduled, Running, Stages, Setter,
         flushVars

\* The timer becomes the running flush; writeSched stays set.
LEMMA TakeKeeps == ASSUME Inv, Take PROVE Inv'
<1>1. /\ timers > 0 /\ flush = "idle"
      /\ timers' = timers - 1 /\ dirty' = {} /\ sched' = sched
      /\ flush' \in {"taken", "ending"}
  BY DEF Take
<1>2. timers = 1 /\ sched
  BY <1>1 DEF Inv, BufferTypes, OneFlush, Running
<1>3. BufferTypes'
  BY <1>1, <1>2 DEF Inv, BufferTypes, Stages
<1>4. OneFlush' /\ DirtyIsScheduled'
  BY <1>1, <1>2 DEF OneFlush, Running, DirtyIsScheduled
<1>5. QED
  BY <1>3, <1>4 DEF Inv

\* The last section of flush hands over to a timer, or resets writeSched.
LEMMA EndKeeps == ASSUME Inv, End PROVE Inv'
<1>1. /\ flush = "ending" /\ flush' = "idle" /\ dirty' = dirty
      /\ sched' = (dirty # {}) /\ timers' = IF dirty # {} THEN timers + 1 ELSE timers
  BY DEF End
<1>2. timers = 0
  BY <1>1 DEF Inv, BufferTypes, OneFlush, Running
<1>3. CASE dirty = {}
  <2>1. ~sched' /\ timers' = 0
    BY <1>1, <1>2, <1>3
  <2>2. sched' \in BOOLEAN
    BY <1>1
  <2>3. QED
    BY <1>1, <1>3, <2>1, <2>2
       DEF Inv, BufferTypes, OneFlush, DirtyIsScheduled, Running, Stages
<1>4. CASE dirty # {}
  <2>1. sched'
    BY <1>1, <1>4, Zenon
  <2>2. timers' = 1
    BY <1>1, <1>2, <1>4
  <2>3. sched' \in BOOLEAN
    BY <1>1
  <2>4. QED
    BY <1>1, <2>1, <2>2, <2>3
       DEF Inv, BufferTypes, OneFlush, DirtyIsScheduled, Running, Stages
<1>5. QED
  BY <1>3, <1>4

\* In between, flush only moves on.
LEMMA FlushMovesKeep ==
  ASSUME Inv, Build \/ ActSucceeds \/ ActFails \/ RecordExpectations \/ ClearExpectations
  PROVE  Inv'
<1>1. /\ UNCHANGED bufferVars
      /\ flush # "idle" /\ flush' # "idle" /\ flush' \in Stages
  BY DEF Build, ActSucceeds, ActFails, RecordExpectations, ClearExpectations, Stages
<1>2. QED
  BY <1>1 DEF Inv, BufferTypes, OneFlush, DirtyIsScheduled, Running, bufferVars

\* hap, the readers and the cloud touch neither the buffer nor the flush.
LEMMA OthersKeep ==
  ASSUME Inv, UNCHANGED <<bufferVars, flushVars>> PROVE Inv'
  BY DEF Inv, BufferTypes, OneFlush, DirtyIsScheduled, Running, bufferVars, flushVars

LEMMA NextKeeps == Inv /\ [Next]_vars => Inv'
<1> SUFFICES ASSUME Inv, [Next]_vars PROVE Inv'
  OBVIOUS
<1>1. CASE \E new \in Partial(Chars) : Request(new)
  BY <1>1, OthersKeep DEF Request
<1>2. CASE \E c \in Chars : Setter(c)
  BY <1>2, SetterKeeps
<1>3. CASE Commit
  BY <1>3, OthersKeep DEF Commit
<1>4. CASE Take
  BY <1>4, TakeKeeps
<1>5. CASE Build \/ ActSucceeds \/ ActFails \/ RecordExpectations \/ ClearExpectations
  BY <1>5, FlushMovesKeep
<1>6. CASE End
  BY <1>6, EndKeeps
<1>7. CASE \E r \in Readers : Read(r)
  BY <1>7, OthersKeep DEF Read, Fetch, Check, SetValue, ApplyEnds
<1>8. CASE \/ Settle
           \/ \E c \in Chars, v \in Values : Operated(c, v)
           \/ \E c \in Chars : Lapse(c)
  BY <1>8, OthersKeep DEF Settle, Operated, Lapse
<1>9. CASE UNCHANGED vars
  BY <1>9, OthersKeep DEF vars
<1>10. QED
  BY <1>1, <1>2, <1>3, <1>4, <1>5, <1>6, <1>7, <1>8, <1>9
     DEF Next, Read

\* The inductive invariant of the buffer.
THEOREM Invariance == Spec => []Inv
  BY InitInvariant, NextKeeps, PTL DEF Spec

\* At most one request per accessory is in flight, and no timer waits beside
\* it, whatever writes arrive while it runs (accessory.go:472-494).
THEOREM AtMostOneInFlight == Spec => []OneFlush
<1>1. Inv => OneFlush
  BY DEF Inv
<1>2. QED
  BY <1>1, Invariance, PTL

\* No write is left in the buffer without a timer or a flush to pick it up.
THEOREM NoWriteIsStranded == Spec => []DirtyIsScheduled
<1>1. Inv => DirtyIsScheduled
  BY DEF Inv
<1>2. QED
  BY <1>1, Invariance, PTL
-----------------------------------------------------------------------------
(* The refinement of WriteBuffer.  Between two flushes nothing is in        *)
(* flight, so the swap of the buffer is a Send, or a stutter when there is  *)
(* nothing to send, and only the end of a flush is an Answered.             *)

IdleIsEmpty == flush = "idle" => batch = {}

LEMMA IdleIsEmptyHolds == Spec => []IdleIsEmpty
<1>1. Init => IdleIsEmpty
  BY DEF Init, IdleIsEmpty
<1>2. IdleIsEmpty /\ [Next]_vars => IdleIsEmpty'
  <2> SUFFICES ASSUME IdleIsEmpty, [Next]_vars PROVE IdleIsEmpty'
    OBVIOUS
  <2>1. CASE Take
    BY <2>1 DEF IdleIsEmpty, Take
  <2>2. CASE Build \/ ActSucceeds \/ ActFails \/ RecordExpectations \/ ClearExpectations
    BY <2>2 DEF IdleIsEmpty, Build, ActSucceeds, ActFails, RecordExpectations,
                ClearExpectations
  <2>3. CASE End
    BY <2>3 DEF IdleIsEmpty, End
  <2>4. CASE UNCHANGED flushVars
    BY <2>4 DEF IdleIsEmpty, flushVars
  <2>5. CASE \E new \in Partial(Chars) : Request(new)
    BY <2>4, <2>5 DEF Request
  <2>6. CASE (\E c \in Chars : Setter(c)) \/ Commit
    BY <2>4, <2>6 DEF Setter, Commit
  <2>7. CASE \E r \in Readers : Read(r)
    BY <2>4, <2>7 DEF Read, Fetch, Check, SetValue, ApplyEnds
  <2>8. CASE \/ Settle
             \/ \E c \in Chars, v \in Values : Operated(c, v)
             \/ \E c \in Chars : Lapse(c)
    BY <2>4, <2>8 DEF Settle, Operated, Lapse
  <2>9. CASE UNCHANGED vars
    BY <2>4, <2>9 DEF vars
  <2>10. QED
    BY <2>1, <2>2, <2>3, <2>5, <2>6, <2>7, <2>8, <2>9 DEF Next, Read
<1>3. QED
  BY <1>1, <1>2, PTL DEF Spec

LEMMA StepRefines == IdleIsEmpty /\ [Next]_vars => [Buffer!Next]_(Buffer!vars)
<1> SUFFICES ASSUME IdleIsEmpty, [Next]_vars PROVE [Buffer!Next]_(Buffer!vars)
  OBVIOUS
<1>1. CASE \E c \in Chars : Setter(c)
  <2>1. PICK c \in Chars : Setter(c)
    BY <1>1
  <2>2. KeyOf[c] \in Keys
    BY KeysAssumption
  <2>3. Buffer!Queue(KeyOf[c])
    BY <2>1 DEF Setter, flushVars, Buffer!Queue
  <2>4. QED
    BY <2>2, <2>3 DEF Buffer!Next
<1>2. CASE Take
  <2>1. batch = {} /\ batch' = dirty /\ dirty' = {}
    BY <1>2 DEF Take, IdleIsEmpty
  <2>2. CASE dirty = {}
    BY <2>1, <2>2 DEF Buffer!vars
  <2>3. CASE dirty # {}
    BY <2>1, <2>3 DEF Buffer!Send, Buffer!Next
  <2>4. QED
    BY <2>2, <2>3
<1>3. CASE End
  <2>1. batch' = {} /\ dirty' = dirty
    BY <1>3 DEF End
  <2>2. CASE batch = {}
    BY <2>1, <2>2 DEF Buffer!vars
  <2>3. CASE batch # {}
    BY <2>1, <2>3 DEF Buffer!Answered, Buffer!Next
  <2>4. QED
    BY <2>2, <2>3
<1>4. CASE UNCHANGED <<dirty, batch>>
  BY <1>4 DEF Buffer!vars
<1>5. CASE Build \/ ActSucceeds \/ ActFails \/ RecordExpectations \/ ClearExpectations
  BY <1>4, <1>5 DEF Build, ActSucceeds, ActFails, RecordExpectations, ClearExpectations,
                    bufferVars
<1>6. CASE (\E new \in Partial(Chars) : Request(new)) \/ Commit
  BY <1>4, <1>6 DEF Request, Commit, bufferVars, flushVars
<1>7. CASE \E r \in Readers : Read(r)
  BY <1>4, <1>7 DEF Read, Fetch, Check, SetValue, ApplyEnds, bufferVars, flushVars
<1>8. CASE \/ Settle
           \/ \E c \in Chars, v \in Values : Operated(c, v)
           \/ \E c \in Chars : Lapse(c)
  BY <1>4, <1>8 DEF Settle, Operated, Lapse, bufferVars, flushVars
<1>9. CASE UNCHANGED vars
  BY <1>4, <1>9 DEF vars, bufferVars, flushVars
<1>10. QED
  BY <1>1, <1>2, <1>3, <1>5, <1>6, <1>7, <1>8, <1>9 DEF Next, Read

\* One request at a time, each with everything that waited, none without
\* (accessory.go:457-494): the buffer implements the steps of WriteBuffer.
THEOREM BufferRefinement == Spec => Buffer!Steps
<1>1. Init => Buffer!Init
  BY DEF Init, Buffer!Init
<1>2. QED
  BY <1>1, IdleIsEmptyHolds, StepRefines, PTL DEF Spec, Buffer!Steps
-----------------------------------------------------------------------------
(* The types of the state, for any goroutines, users and failures.          *)

\* What an Apply works on is a whole state of the device.
AnswersAreWhole == \A r \in Readers : reader[r] # "idle" => answer[r] \in [Chars -> Values]

\* What is sent is what the groups of the batch carry.
PayloadOfBatch == flush = "sending" => DOMAIN payload = UNION {Carries[k] : k \in batch}

DataTypes ==
  /\ shown \in [Chars -> Values] /\ device \in [Chars -> Values]
  /\ reported \in [Chars -> Values]
  /\ request \in Partial(Chars) /\ payload \in Partial(Chars)
  /\ setting \in DOMAIN request \cup {None}
  /\ dirty \subseteq Keys /\ batch \subseteq Keys
  /\ reader \in [Readers -> ReaderStages]
  /\ answer \in [Readers -> Partial(Chars)] /\ checking \in [Readers -> SUBSET Chars]
  /\ expect \in [Chars -> [value : Values \cup {None}, over : BOOLEAN]]
  /\ wanted \in [Chars -> Values \cup {None}]
  /\ owed \subseteq Chars /\ held \subseteq Chars

TInv == DataTypes /\ AnswersAreWhole /\ PayloadOfBatch

\* A request or a batch sets some characteristics and leaves the others.
LEMMA PartialHas ==
  ASSUME NEW f \in Partial(Chars)
  PROVE  DOMAIN f \subseteq Chars /\ f \in [DOMAIN f -> Values]
BY DEF Partial

\* And each such function is one.
LEMMA IsPartial ==
  ASSUME NEW D \in SUBSET Chars, NEW f \in [D -> Values]
  PROVE  f \in Partial(Chars)
BY DEF Partial

LEMMA NothingIsPartial == Nothing \in Partial(Chars)
<1>1. Nothing \in [{} -> Values]
  BY DEF Nothing
<1> QED
  BY <1>1, IsPartial

LEMMA NoExpectationIsOne == NoExpectation \in [value : Values \cup {None}, over : BOOLEAN]
BY DEF NoExpectation

\* The types hold at the start ...
LEMMA InitTypes == Init => TInv
<1> SUFFICES ASSUME Init PROVE TInv
  OBVIOUS
<1>1. /\ reader \in [Readers -> ReaderStages] /\ checking \in [Readers -> SUBSET Chars]
      /\ answer \in [Readers -> Partial(Chars)]
  BY NothingIsPartial DEF Init, ReaderStages
<1>2. /\ expect \in [Chars -> [value : Values \cup {None}, over : BOOLEAN]]
      /\ wanted \in [Chars -> Values \cup {None}] /\ owed \subseteq Chars /\ held \subseteq Chars
  BY NoExpectationIsOne DEF Init
<1>3. /\ shown \in [Chars -> Values] /\ device \in [Chars -> Values]
      /\ reported \in [Chars -> Values]
      /\ request \in Partial(Chars) /\ payload \in Partial(Chars)
      /\ setting \in DOMAIN request \cup {None}
      /\ dirty \subseteq Keys /\ batch \subseteq Keys
  BY NothingIsPartial DEF Init
<1>4. AnswersAreWhole /\ PayloadOfBatch
  BY DEF Init, AnswersAreWhole, PayloadOfBatch
<1> QED
  BY <1>1, <1>2, <1>3, <1>4 DEF TInv, DataTypes

\* A request of HomeKit and its setters.
LEMMA HapKeepsTypes ==
  ASSUME TInv, (\E new \in Partial(Chars) : Request(new)) \/ (\E c \in Chars : Setter(c)) \/ Commit
  PROVE  TInv'
<1> USE DEF TInv, flushVars, readerVars, yandexVars, bufferVars, history
<1>1. CASE \E new \in Partial(Chars) : Request(new)
  BY <1>1 DEF Request, DataTypes, AnswersAreWhole, PayloadOfBatch
<1>2. ASSUME NEW c \in Chars, Setter(c) PROVE TInv'
  <2>1. request[c] \in Values /\ KeyOf[c] \in Keys
    BY <1>2, PartialHas, KeysAssumption DEF Setter, DataTypes
  <2>2. /\ setting' = c /\ c \in DOMAIN request
        /\ expect' = [expect EXCEPT ![c] = [value |-> request[c], over |-> FALSE]]
        /\ dirty' = dirty \cup {KeyOf[c]}
        /\ held' \subseteq held \cup {c}
        /\ UNCHANGED <<shown, request, flush, batch, payload, reader, answer, checking, device,
                       reported, wanted, owed>>
    BY <1>2 DEF Setter
  <2>3. expect' \in [Chars -> [value : Values \cup {None}, over : BOOLEAN]]
        /\ held' \subseteq Chars
    BY <2>1, <2>2 DEF DataTypes
  <2> QED
    BY <2>1, <2>2, <2>3 DEF DataTypes, AnswersAreWhole, PayloadOfBatch
<1>3. CASE Commit
  <2>1. setting \in DOMAIN request /\ setting \in Chars /\ request[setting] \in Values
    BY <1>3, PartialHas DEF Commit, DataTypes
  <2>2. /\ shown' \in [Chars -> Values] /\ wanted' \in [Chars -> Values \cup {None}]
        /\ owed' \subseteq Chars
    BY <1>3, <2>1 DEF Commit, DataTypes
  <2>3. request' \in Partial(Chars)
    <3> DEFINE D == DOMAIN request \ {setting}
    <3>1. D \subseteq Chars /\ [c \in D |-> request[c]] \in [D -> Values]
      BY PartialHas DEF DataTypes
    <3> QED
      BY <1>3, <3>1, IsPartial DEF Commit
  <2>4. /\ setting' = None
        /\ UNCHANGED <<dirty, flush, batch, payload, expect, reader, answer, checking, device,
                       reported, held>>
    BY <1>3 DEF Commit
  <2> QED
    BY <2>2, <2>3, <2>4 DEF DataTypes, AnswersAreWhole, PayloadOfBatch
<1> QED
  BY <1>1, <1>2, <1>3

\* The flush of a batch.
LEMMA FlushKeepsTypes == ASSUME TInv, Flush PROVE TInv'
<1> USE DEF TInv, hapVars, bufferVars, readerVars, yandexVars, history
<1>1. CASE Take
  BY <1>1 DEF Take, DataTypes, AnswersAreWhole, PayloadOfBatch
<1>2. CASE Build
  <2> DEFINE D == UNION {Carries[k] : k \in batch}
  <2>1. D \subseteq Chars
    BY KeysAssumption DEF DataTypes
  <2>2. payload' = [c \in D |-> shown[c]]
    BY <1>2 DEF Build
  <2>3. payload' \in [D -> Values]
    BY <2>1, <2>2 DEF DataTypes
  <2>4. payload' \in Partial(Chars) /\ DOMAIN payload' = D
    BY <2>1, <2>3, IsPartial
  <2>5. UNCHANGED <<shown, request, setting, dirty, batch, expect, reader, answer, checking, device,
                    reported, wanted, owed, held>>
    BY <1>2 DEF Build
  <2> QED
    BY <2>4, <2>5 DEF DataTypes, AnswersAreWhole, PayloadOfBatch
<1>3. ASSUME flush = "sending", NEW K \in SUBSET batch, device' = Executed(K), flush' # "sending",
             owed' \subseteq owed,
             UNCHANGED <<shown, hapVars, bufferVars, batch, payload, expect, readerVars, reported,
                         wanted, held>>
      PROVE  TInv'
  <2>1. \A c \in Chars : (\E k \in K : c \in Carries[k]) => payload[c] \in Values
    BY <1>3, PartialHas DEF PayloadOfBatch, DataTypes
  <2>2. device' \in [Chars -> Values]
    BY <1>3, <2>1 DEF Executed, DataTypes
  <2> QED
    BY <1>3, <2>2 DEF DataTypes, AnswersAreWhole, PayloadOfBatch
<1>4. CASE ActSucceeds
  BY <1>3, <1>4 DEF ActSucceeds
<1>5. CASE ActFails
  BY <1>3, <1>5 DEF ActFails
<1>6. CASE RecordExpectations
  <2>1. expect' \in [Chars -> [value : Values \cup {None}, over : BOOLEAN]]
    BY <1>6 DEF RecordExpectations, DataTypes
  <2>2. /\ flush' # "sending" /\ held' \subseteq held
        /\ UNCHANGED <<shown, request, setting, dirty, batch, payload, reader, answer, checking,
                       device, reported, wanted, owed>>
    BY <1>6 DEF RecordExpectations
  <2> QED
    BY <2>1, <2>2 DEF DataTypes, AnswersAreWhole, PayloadOfBatch
<1>7. CASE ClearExpectations
  <2>1. expect' \in [Chars -> [value : Values \cup {None}, over : BOOLEAN]]
    BY <1>7, NoExpectationIsOne DEF ClearExpectations
  <2>2. /\ flush' # "sending" /\ held' \subseteq held
        /\ UNCHANGED <<shown, request, setting, dirty, batch, payload, reader, answer, checking,
                       device, reported, wanted, owed>>
    BY <1>7 DEF ClearExpectations
  <2> QED
    BY <2>1, <2>2 DEF DataTypes, AnswersAreWhole, PayloadOfBatch
<1>8. CASE End
  BY <1>8, NothingIsPartial DEF End, DataTypes, AnswersAreWhole, PayloadOfBatch
<1> QED
  BY <1>1, <1>2, <1>4, <1>5, <1>6, <1>7, <1>8 DEF Flush

\* A poll or a confirming read.
LEMMA ReaderKeepsTypes == ASSUME TInv, NEW r \in Readers, Read(r) PROVE TInv'
<1> USE DEF TInv, hapVars, bufferVars, flushVars, yandexVars, history
<1>1. CASE Fetch(r)
  <2>1. reported \in Partial(Chars)
    BY IsPartial DEF DataTypes
  <2>2. /\ reader' = [reader EXCEPT ![r] = "visiting"]
        /\ answer' = [answer EXCEPT ![r] = reported]
        /\ checking' = [checking EXCEPT ![r] = Chars]
        /\ UNCHANGED <<shown, request, setting, dirty, flush, batch, payload, expect, device,
                       reported, wanted, owed, held>>
    BY <1>1 DEF Fetch
  <2>3. /\ reader' \in [Readers -> ReaderStages] /\ answer' \in [Readers -> Partial(Chars)]
        /\ checking' \in [Readers -> SUBSET Chars]
    BY <2>1, <2>2 DEF DataTypes, ReaderStages
  <2>4. AnswersAreWhole'
    BY <2>2 DEF AnswersAreWhole, DataTypes
  <2> QED
    BY <2>2, <2>3, <2>4 DEF DataTypes, PayloadOfBatch
<1>2. ASSUME NEW c \in Chars, Check(r, c) PROVE TInv'
  <2>1. /\ checking' = [checking EXCEPT ![r] = @ \ {c}]
        /\ expect' \in {expect, [expect EXCEPT ![c] = NoExpectation]}
        /\ reader' \in {reader, [reader EXCEPT ![r] = c]}
        /\ reader[r] = "visiting" /\ held' \subseteq held
        /\ UNCHANGED <<shown, request, setting, dirty, flush, batch, payload, answer, device,
                       reported, wanted, owed>>
    BY <1>2 DEF Check
  <2>2. checking' \in [Readers -> SUBSET Chars] /\ reader' \in [Readers -> ReaderStages]
    BY <2>1 DEF DataTypes, ReaderStages
  <2>3. expect' \in [Chars -> [value : Values \cup {None}, over : BOOLEAN]]
    BY <2>1, NoExpectationIsOne DEF DataTypes
  <2>4. AnswersAreWhole'
    BY <2>1 DEF AnswersAreWhole, DataTypes
  <2> QED
    BY <2>1, <2>2, <2>3, <2>4 DEF DataTypes, PayloadOfBatch
<1>3. CASE SetValue(r)
  <2>1. /\ reader[r] \in Chars /\ owed' \subseteq owed
        /\ shown' = [shown EXCEPT ![reader[r]] = answer[r][reader[r]]]
        /\ reader' = [reader EXCEPT ![r] = "visiting"]
        /\ UNCHANGED <<request, setting, dirty, flush, batch, payload, expect, answer, checking,
                       device, reported, wanted, held>>
    BY <1>3 DEF SetValue
  <2>2. answer[r] \in [Chars -> Values]
    BY <2>1, CharsAssumption DEF AnswersAreWhole
  <2>3. shown' \in [Chars -> Values] /\ reader' \in [Readers -> ReaderStages]
    BY <2>1, <2>2 DEF DataTypes, ReaderStages
  <2>4. AnswersAreWhole'
    BY <2>1, <2>2 DEF AnswersAreWhole, DataTypes
  <2> QED
    BY <2>1, <2>3, <2>4 DEF DataTypes, PayloadOfBatch
<1>4. CASE ApplyEnds(r)
  <2>1. /\ reader' = [reader EXCEPT ![r] = "idle"] /\ answer' = [answer EXCEPT ![r] = Nothing]
        /\ UNCHANGED <<shown, request, setting, dirty, flush, batch, payload, expect, checking,
                       device, reported, wanted, owed, held>>
    BY <1>4 DEF ApplyEnds
  <2>2. reader' \in [Readers -> ReaderStages] /\ answer' \in [Readers -> Partial(Chars)]
    BY <2>1, NothingIsPartial DEF DataTypes, ReaderStages
  <2>3. AnswersAreWhole'
    BY <2>1 DEF AnswersAreWhole, DataTypes
  <2> QED
    BY <2>1, <2>2, <2>3 DEF DataTypes, PayloadOfBatch
<1> QED
  BY <1>1, <1>2, <1>3, <1>4 DEF Read

\* The device and the clock.
LEMMA OutsideKeepsTypes ==
  ASSUME TInv,
         Settle \/ (\E c \in Chars, v \in Values : Operated(c, v)) \/ \E c \in Chars : Lapse(c)
  PROVE  TInv'
<1> USE DEF TInv, hapVars, bufferVars, flushVars, readerVars, yandexVars, history
<1>1. CASE Settle
  BY <1>1 DEF Settle, DataTypes, AnswersAreWhole, PayloadOfBatch
<1>2. ASSUME NEW c \in Chars, NEW v \in Values, Operated(c, v) PROVE TInv'
  <2>1. device' \in [Chars -> Values] /\ owed' \subseteq Chars
    BY <1>2 DEF Operated, DataTypes
  <2> QED
    BY <1>2, <2>1 DEF Operated, DataTypes, AnswersAreWhole, PayloadOfBatch
<1>3. ASSUME NEW c \in Chars, Lapse(c) PROVE TInv'
  <2>1. expect' \in [Chars -> [value : Values \cup {None}, over : BOOLEAN]]
    <3> DEFINE e == [expect[c] EXCEPT !.over = TRUE]
    <3>1. e \in [value : Values \cup {None}, over : BOOLEAN]
      BY DEF DataTypes
    <3>2. expect' = [expect EXCEPT ![c] = e]
      BY <1>3 DEF Lapse
    <3> HIDE DEF e
    <3> QED
      BY <3>1, <3>2 DEF DataTypes
  <2> QED
    BY <1>3, <2>1 DEF Lapse, DataTypes, AnswersAreWhole, PayloadOfBatch
<1> QED
  BY <1>1, <1>2, <1>3

\* ... and in every step.
LEMMA NextKeepsTypes == TInv /\ [Next]_vars => TInv'
<1> SUFFICES ASSUME TInv, [Next]_vars PROVE TInv'
  OBVIOUS
<1>1. CASE UNCHANGED vars
  BY <1>1
     DEF vars, hapVars, bufferVars, flushVars, readerVars, yandexVars, history, TInv, DataTypes,
         AnswersAreWhole, PayloadOfBatch
<1> QED
  BY <1>1, HapKeepsTypes, FlushKeepsTypes, ReaderKeepsTypes, OutsideKeepsTypes DEF Next, Flush, Read

\* The types, with what a flush is built from.
THEOREM TypeInvariance == Spec => []TInv
  BY InitTypes, NextKeepsTypes, PTL DEF Spec

\* The types of the state, whoever meets whom.
THEOREM TypeCorrect == Spec => []TypeOK
<1>1. Inv /\ TInv => TypeOK
  BY DEF Inv, BufferTypes, TInv, DataTypes, TypeOK
<1> QED
  BY <1>1, Invariance, TypeInvariance, PTL
-----------------------------------------------------------------------------
(* The last choice reaches the device (LastWriteArrives), whoever meets     *)
(* whom, however often a user changes it and whatever fails.                *)

\* What a request that is out would make of c, and what the device has else.
OnItsWay(c) ==
  IF flush = "sending" /\ c \in DOMAIN payload THEN payload[c] = wanted[c]
                                               ELSE device[c] = wanted[c]

\* A choice that is owed is shown, so that buildActions will find it there, and
\* waits for buildActions, is on its way or has arrived.
OwedInv == \A c \in owed : shown[c] = wanted[c] /\ (Waits(c) \/ OnItsWay(c))

\* What OwedInv is kept by, of a step that leaves the choices alone.
LEMMA OwedStays ==
  ASSUME OwedInv, owed' \subseteq owed, wanted' = wanted,
         \A c \in owed' : shown'[c] = shown[c] /\ (Waits(c) => Waits(c)')
                            /\ (OnItsWay(c) => Waits(c)' \/ OnItsWay(c)')
  PROVE  OwedInv'
BY DEF OwedInv

\* hap commits a choice while its write waits for buildActions, or it is not owed.
LEMMA CommitKeepsOwed ==
  ASSUME TInv, OwedInv, Commit
  PROVE  OwedInv'
<1>1. /\ shown' = [shown EXCEPT ![setting] = request[setting]]
      /\ wanted' = [wanted EXCEPT ![setting] = request[setting]]
      /\ owed' = IF Waits(setting) THEN owed \cup {setting} ELSE owed \ {setting}
      /\ UNCHANGED <<dirty, flush, batch, payload, device>>
  BY DEF Commit, bufferVars, flushVars, yandexVars
<1>2. setting \in Chars /\ shown \in [Chars -> Values] /\ wanted \in [Chars -> Values \cup {None}]
      /\ owed \subseteq Chars
  BY PartialHas DEF Commit, TInv, DataTypes
<1>3. ASSUME NEW c \in owed' PROVE (shown[c] = wanted[c] /\ (Waits(c) \/ OnItsWay(c)))'
  <2>1. CASE c = setting
    BY <1>1, <1>2, <1>3, <2>1 DEF Waits
  <2>2. CASE c # setting
    <3>1. c \in owed /\ shown'[c] = shown[c] /\ wanted'[c] = wanted[c]
      BY <1>1, <1>2, <1>3, <2>2
    <3> QED
      BY <1>1, <3>1 DEF OwedInv, Waits, OnItsWay
  <2> QED BY <2>1, <2>2
<1> QED
  BY <1>3 DEF OwedInv

\* buildActions reads what is shown, of the written and of what goes with it.
LEMMA BuildKeepsOwed ==
  ASSUME TInv, OwedInv, Build
  PROVE  OwedInv'
<1>1. /\ flush = "taken" /\ flush' = "sending"
      /\ payload' = [c \in UNION {Carries[k] : k \in batch} |-> shown[c]]
      /\ UNCHANGED <<shown, dirty, batch, device, wanted, owed>>
  BY DEF Build, bufferVars, yandexVars, history
<1>2. owed \subseteq Chars /\ batch \subseteq Keys
  BY DEF TInv, DataTypes
<1>3. ASSUME NEW c \in owed PROVE shown[c] = wanted[c] /\ (Waits(c)' \/ OnItsWay(c)')
  <2>1. shown[c] = wanted[c] /\ (Waits(c) \/ device[c] = wanted[c])
    BY <1>1 DEF OwedInv, OnItsWay
  <2>2. KeyOf[c] \in batch => c \in UNION {Carries[k] : k \in batch}
    BY <1>2, KeysAssumption
  <2> QED
    BY <1>1, <2>1, <2>2 DEF Waits, OnItsWay
<1> QED
  BY <1>1, <1>3 DEF OwedInv

\* Yandex carries out every action, or, with an error, some: what it then owes
\* waits for the next request.
LEMMA ActKeepsOwed ==
  ASSUME TInv, OwedInv, ActSucceeds \/ ActFails
  PROVE  OwedInv'
<1>1. /\ flush = "sending" /\ flush' \in {"accepted", "refused"} /\ owed' \subseteq owed
      /\ UNCHANGED <<shown, dirty, batch, payload, wanted>>
  BY DEF ActSucceeds, ActFails, bufferVars, history
<1>2. PICK K \in SUBSET batch :
        /\ device' = Executed(K)
        /\ K # batch => owed' = {c \in owed : c \in DOMAIN payload => KeyOf[c] \in dirty}
  BY DEF ActSucceeds, ActFails
<1>3. owed \subseteq Chars /\ DOMAIN payload = UNION {Carries[k] : k \in batch}
  BY <1>1 DEF TInv, DataTypes, PayloadOfBatch
<1>4. ASSUME NEW c \in owed' PROVE shown[c] = wanted[c] /\ (Waits(c)' \/ device'[c] = wanted[c])
  <2>1. c \in owed /\ c \in Chars /\ shown[c] = wanted[c] /\ (KeyOf[c] \in dirty \/ OnItsWay(c))
    BY <1>1, <1>3 DEF OwedInv, Waits
  <2>2. CASE KeyOf[c] \in dirty
    BY <1>1, <2>1, <2>2 DEF Waits
  <2>3. CASE KeyOf[c] \notin dirty /\ c \in DOMAIN payload
    <3>1. K = batch
      BY <1>2, <2>3
    <3>2. device'[c] = payload[c]
      BY <1>2, <1>3, <2>1, <2>3, <3>1 DEF Executed
    <3> QED BY <1>1, <2>1, <2>3, <3>2 DEF OnItsWay
  <2>4. CASE KeyOf[c] \notin dirty /\ c \notin DOMAIN payload
    <3>1. device'[c] = device[c]
      BY <1>2, <1>3, <2>1, <2>4 DEF Executed
    <3> QED BY <1>1, <2>1, <2>4, <3>1 DEF OnItsWay
  <2> QED BY <2>2, <2>3, <2>4
<1> QED
  BY <1>1, <1>4 DEF OwedInv, OnItsWay

\* An answer that changes what is shown takes the choice back.
LEMMA SetValueKeepsOwed ==
  ASSUME TInv, OwedInv, NEW r \in Readers, SetValue(r)
  PROVE  OwedInv'
<1>1. /\ shown' = [shown EXCEPT ![reader[r]] = answer[r][reader[r]]]
      /\ owed' = IF shown' = shown THEN owed ELSE owed \ {reader[r]}
      /\ UNCHANGED <<dirty, flush, batch, payload, device, wanted>>
  BY DEF SetValue, bufferVars, flushVars, yandexVars
<1>2. shown \in [Chars -> Values] /\ owed \subseteq Chars
  BY DEF TInv, DataTypes
<1>3. \A c \in owed' : c \in owed /\ shown'[c] = shown[c]
  BY <1>1, <1>2
<1> QED
  BY <1>1, <1>3, OwedStays DEF Waits, OnItsWay

\* Whoever operates the device decides.
LEMMA OperatedKeepsOwed ==
  ASSUME TInv, OwedInv, NEW d \in Chars, NEW v \in Values, Operated(d, v)
  PROVE  OwedInv'
<1>1. /\ device' = [device EXCEPT ![d] = v] /\ owed' = owed \ {d}
      /\ UNCHANGED <<shown, dirty, flush, batch, payload, wanted>>
  BY DEF Operated, bufferVars, flushVars
<1>2. device \in [Chars -> Values] /\ owed \subseteq Chars
  BY DEF TInv, DataTypes
<1>3. \A c \in owed' : device'[c] = device[c]
  BY <1>1, <1>2
<1> QED
  BY <1>1, <1>3, OwedStays DEF Waits, OnItsWay

\* Every step keeps what is owed.
LEMMA NextKeepsOwed == TInv /\ OwedInv /\ [Next]_vars => OwedInv'
<1> SUFFICES ASSUME TInv, OwedInv, [Next]_vars PROVE OwedInv'
  OBVIOUS
<1>1. CASE \E c \in Chars : Setter(c)
  <2>1. dirty \subseteq dirty' /\ UNCHANGED <<shown, flush, batch, payload, device, wanted, owed>>
    BY <1>1 DEF Setter, flushVars, yandexVars
  <2> QED BY <2>1, OwedStays DEF Waits, OnItsWay
<1>2. CASE Take
  <2>1. /\ flush = "idle" /\ flush' = IF dirty = {} THEN "ending" ELSE "taken"
        /\ batch' = dirty /\ UNCHANGED <<shown, payload, device, wanted, owed>>
    BY <1>2 DEF Take, yandexVars, history
  <2> QED BY <2>1, OwedStays DEF Waits, OnItsWay
<1>3. CASE RecordExpectations \/ ClearExpectations \/ End
  <2>1. /\ flush \notin {"taken", "sending"} /\ flush' \notin {"taken", "sending"}
        /\ UNCHANGED <<shown, dirty, device, wanted, owed>>
    BY <1>3 DEF RecordExpectations, ClearExpectations, End, bufferVars, yandexVars, history
  <2> QED BY <2>1, OwedStays DEF Waits, OnItsWay
<1>4. CASE UNCHANGED <<shown, dirty, flush, batch, payload, device, wanted, owed>>
  BY <1>4, OwedStays DEF Waits, OnItsWay
<1>5. CASE \E new \in Partial(Chars) : Request(new)
  BY <1>4, <1>5 DEF Request, bufferVars, flushVars, yandexVars, history
<1>6. CASE \/ \E r \in Readers : Fetch(r) \/ ApplyEnds(r) \/ \E c \in Chars : Check(r, c)
           \/ Settle
           \/ \E c \in Chars : Lapse(c)
  BY <1>4, <1>6 DEF Fetch, ApplyEnds, Check, Settle, Lapse, bufferVars, flushVars, yandexVars,
                    history
<1>7. CASE UNCHANGED vars
  BY <1>4, <1>7 DEF vars, bufferVars, flushVars, yandexVars, history
<1> QED
  BY <1>1, <1>2, <1>3, <1>5, <1>6, <1>7, CommitKeepsOwed, BuildKeepsOwed, ActKeepsOwed,
     SetValueKeepsOwed, OperatedKeepsOwed DEF Next

\* When nothing is queued or on its way, the device has the user's last choice of
\* every characteristic, in any group, whatever was collapsed on the way
\* (supervisor_test.go:290), unless something the property names excused it.
THEOREM WritesArrive == Spec => []LastWriteArrives
<1>1. Init => OwedInv
  BY DEF Init, OwedInv
<1>2. OwedInv => LastWriteArrives
  BY DEF OwedInv, LastWriteArrives, Quiet, Waits, OnItsWay
<1> QED
  BY <1>1, <1>2, TypeInvariance, NextKeepsOwed, PTL DEF Spec

-----------------------------------------------------------------------------
(* What the user chose stays on the screen (ChosenStaysShown).              *)

\* An expectation that is not over protects a choice that is held, and no answer
\* is past it; once committed, the choice is what is shown.
Protected(c) ==
  /\ expect[c].value = Chosen(c) /\ expect[c].value # None /\ ~expect[c].over
  /\ setting # c => shown[c] = wanted[c]
  /\ \A r \in Readers : reader[r] # c

HeldInv == \A c \in held : Protected(c)

\* What a step that leaves a characteristic alone does not disturb.
LEMMA ProtectedStays ==
  ASSUME NEW c, Protected(c), expect'[c] = expect[c], Chosen(c)' = Chosen(c),
         setting' # c => setting # c /\ shown'[c] = shown[c] /\ wanted'[c] = wanted[c],
         \A r \in Readers : reader'[r] # c
  PROVE  Protected(c)'
BY DEF Protected

\* The setter's expectation comes first, and from then on answers are suppressed.
LEMMA SetterKeepsHeld ==
  ASSUME TInv, HeldInv, NEW d \in Chars, Setter(d)
  PROVE  HeldInv'
<1>1. /\ setting = None /\ setting' = d /\ d \in DOMAIN request
      /\ expect' = [expect EXCEPT ![d] = [value |-> request[d], over |-> FALSE]]
      /\ held' = IF \E r \in Readers : reader[r] = d THEN held \ {d} ELSE held \cup {d}
      /\ UNCHANGED <<shown, request, reader, wanted>>
  BY DEF Setter, readerVars
<1>2. held \subseteq Chars /\ None \notin Chars /\ None \notin Values
      /\ expect \in [Chars -> [value : Values \cup {None}, over : BOOLEAN]]
  BY CharsAssumption, ValuesAssumption DEF TInv, DataTypes
<1>3. request[d] \in Values
  BY <1>1, PartialHas DEF TInv, DataTypes
<1>4. ASSUME NEW c \in held' PROVE Protected(c)'
  <2>1. CASE c = d
    <3>1. expect'[c] = [value |-> request[c], over |-> FALSE] /\ \A r \in Readers : reader[r] # c
      BY <1>1, <1>2, <1>4, <2>1
    <3> QED BY <1>1, <1>2, <1>3, <2>1, <3>1 DEF Protected, Chosen
  <2>2. CASE c # d
    <3>1. c \in held /\ Protected(c) /\ expect'[c] = expect[c]
      BY <1>1, <1>2, <1>4, <2>2 DEF HeldInv
    <3> QED BY <1>1, <1>2, <2>2, <3>1, ProtectedStays DEF Protected, Chosen
  <2> QED BY <2>1, <2>2
<1> QED BY <1>4 DEF HeldInv

\* The value committed is the one that was expected.
LEMMA CommitKeepsHeld ==
  ASSUME TInv, HeldInv, Commit
  PROVE  HeldInv'
<1>1. /\ setting # None /\ setting' = None
      /\ shown' = [shown EXCEPT ![setting] = request[setting]]
      /\ wanted' = [wanted EXCEPT ![setting] = request[setting]]
      /\ UNCHANGED <<expect, reader, held>>
  BY DEF Commit, readerVars
<1>2. setting \in Chars /\ held \subseteq Chars /\ None \notin Chars
      /\ shown \in [Chars -> Values] /\ wanted \in [Chars -> Values \cup {None}]
  BY <1>1, PartialHas, CharsAssumption DEF TInv, DataTypes
<1>3. ASSUME NEW c \in held PROVE Protected(c)'
  <2>1. Protected(c) /\ c \in Chars
    BY <1>2 DEF HeldInv
  <2>2. CASE c = setting
    BY <1>1, <1>2, <2>1, <2>2 DEF Protected, Chosen
  <2>3. CASE c # setting
    <3>1. shown'[c] = shown[c] /\ wanted'[c] = wanted[c]
      BY <1>1, <1>2, <2>1, <2>3
    <3> QED BY <1>1, <1>2, <2>1, <2>3, <3>1 DEF Protected, Chosen
  <2> QED BY <2>2, <2>3
<1> QED BY <1>1, <1>3 DEF HeldInv

\* recordExpectations expects what is shown, which is the choice if it has been
\* committed.
LEMMA RecordKeepsHeld ==
  ASSUME TInv, HeldInv, RecordExpectations
  PROVE  HeldInv'
<1>1. /\ expect' = [c \in Chars |-> IF c \in DOMAIN payload
                                      THEN [value |-> shown[c], over |-> FALSE] ELSE expect[c]]
      /\ held' = held \ ({setting} \cap DOMAIN payload)
      /\ UNCHANGED <<shown, request, setting, reader, wanted>>
  BY DEF RecordExpectations, hapVars, readerVars
<1>2. held \subseteq Chars /\ shown \in [Chars -> Values] /\ None \notin Values
  BY ValuesAssumption DEF TInv, DataTypes
<1>3. ASSUME NEW c \in held' PROVE Protected(c)'
  <2>1. c \in held /\ c \in Chars /\ Protected(c) /\ (c \in DOMAIN payload => setting # c)
    BY <1>1, <1>2, <1>3 DEF HeldInv
  <2>2. CASE c \in DOMAIN payload
    <3>1. expect'[c] = [value |-> shown[c], over |-> FALSE] /\ shown[c] \in Values
      BY <1>1, <1>2, <2>1, <2>2
    <3> QED BY <1>1, <1>2, <2>1, <2>2, <3>1 DEF Protected, Chosen
  <2>3. CASE c \notin DOMAIN payload
    <3>1. expect'[c] = expect[c]
      BY <1>1, <2>1, <2>3
    <3> QED BY <1>1, <2>1, <3>1 DEF Protected, Chosen
  <2> QED BY <2>2, <2>3
<1> QED BY <1>3 DEF HeldInv

\* suppressed lets only an answer that agrees with a choice past its expectation.
LEMMA CheckKeepsHeld ==
  ASSUME TInv, HeldInv, NEW q \in Readers, NEW d \in Chars, Check(q, d)
  PROVE  HeldInv'
<1>1. /\ expect' = IF Suppressed(d, answer[q][d]) THEN expect
                     ELSE [expect EXCEPT ![d] = NoExpectation]
      /\ reader' = IF Suppressed(d, answer[q][d]) THEN reader ELSE [reader EXCEPT ![q] = d]
      /\ held' = IF answer[q][d] = Chosen(d) THEN held \ {d} ELSE held
      /\ UNCHANGED <<shown, request, setting, wanted>>
  BY DEF Check, hapVars
<1>2. held \subseteq Chars /\ reader \in [Readers -> ReaderStages]
      /\ expect \in [Chars -> [value : Values \cup {None}, over : BOOLEAN]]
  BY DEF TInv, DataTypes
<1>3. ASSUME NEW c \in held' PROVE Protected(c)'
  <2>1. c \in held /\ c \in Chars /\ Protected(c)
    BY <1>1, <1>2, <1>3 DEF HeldInv
  <2>2. CASE c = d
    <3>1. Suppressed(d, answer[q][d])
      BY <1>1, <1>3, <2>1, <2>2 DEF Protected, Suppressed
    <3> QED BY <1>1, <2>1, <3>1 DEF Protected, Chosen
  <2>3. CASE c # d
    <3>1. expect'[c] = expect[c] /\ \A r \in Readers : reader'[r] # c
      BY <1>1, <1>2, <2>1, <2>3 DEF Protected
    <3> QED BY <1>1, <2>1, <3>1 DEF Protected, Chosen
  <2> QED BY <2>2, <2>3
<1> QED BY <1>3 DEF HeldInv

\* Whoever sets a value was past suppressed, and so at no choice that is held.
LEMMA SetValueKeepsHeld ==
  ASSUME TInv, HeldInv, NEW q \in Readers, SetValue(q)
  PROVE  HeldInv' /\ \A c \in held : shown'[c] = shown[c]
<1>1. /\ reader[q] \in Chars
      /\ shown' = [shown EXCEPT ![reader[q]] = answer[q][reader[q]]]
      /\ reader' = [reader EXCEPT ![q] = "visiting"]
      /\ UNCHANGED <<request, setting, expect, wanted, held>>
  BY DEF SetValue, hapVars
<1>2. held \subseteq Chars /\ reader \in [Readers -> ReaderStages] /\ shown \in [Chars -> Values]
      /\ "visiting" \notin Chars
  BY CharsAssumption DEF TInv, DataTypes
<1>3. ASSUME NEW c \in held PROVE Protected(c)' /\ shown'[c] = shown[c]
  <2>1. c \in Chars /\ Protected(c)
    BY <1>2 DEF HeldInv
  <2>2. shown'[c] = shown[c] /\ \A r \in Readers : reader'[r] # c
    BY <1>1, <1>2, <2>1 DEF Protected
  <2> QED BY <1>1, <2>1, <2>2 DEF Protected, Chosen
<1> QED BY <1>1, <1>3 DEF HeldInv

\* A window that is over protects nothing.
LEMMA LapseKeepsHeld ==
  ASSUME TInv, HeldInv, NEW d \in Chars, Lapse(d)
  PROVE  HeldInv'
<1>1. /\ expect' = [expect EXCEPT ![d].over = TRUE] /\ held' = held \ {d}
      /\ UNCHANGED <<shown, request, setting, reader, wanted>>
  BY DEF Lapse, hapVars, readerVars
<1>2. held \subseteq Chars
      /\ expect \in [Chars -> [value : Values \cup {None}, over : BOOLEAN]]
  BY DEF TInv, DataTypes
<1>3. ASSUME NEW c \in held' PROVE Protected(c)'
  <2>1. c \in held /\ Protected(c) /\ expect'[c] = expect[c]
    BY <1>1, <1>2, <1>3 DEF HeldInv
  <2> QED BY <1>1, <2>1 DEF Protected, Chosen
<1> QED BY <1>3 DEF HeldInv

\* A reader that begins or ends is at no characteristic.
LEMMA ReaderKeepsHeld ==
  ASSUME TInv, HeldInv, NEW q \in Readers, Fetch(q) \/ ApplyEnds(q)
  PROVE  HeldInv'
<1>1. PICK stage \in {"idle", "visiting"} : reader' = [reader EXCEPT ![q] = stage]
  BY DEF Fetch, ApplyEnds
<1>2. UNCHANGED <<shown, request, setting, expect, wanted, held>>
  BY DEF Fetch, ApplyEnds, hapVars, history
<1>3. held \subseteq Chars /\ reader \in [Readers -> ReaderStages] /\ stage \notin Chars
  BY CharsAssumption DEF TInv, DataTypes
<1>4. ASSUME NEW c \in held PROVE Protected(c)'
  <2>1. c \in Chars /\ Protected(c)
    BY <1>3 DEF HeldInv
  <2>2. \A r \in Readers : reader'[r] # c
    BY <1>1, <1>3, <2>1 DEF Protected
  <2> QED BY <1>2, <2>1, <2>2 DEF Protected, Chosen
<1> QED BY <1>2, <1>4 DEF HeldInv

\* Every step keeps the protection of what is held.
LEMMA NextKeepsHeld == TInv /\ HeldInv /\ [Next]_vars => HeldInv'
<1> SUFFICES ASSUME TInv, HeldInv, [Next]_vars PROVE HeldInv'
  OBVIOUS
<1>1. CASE \E new \in Partial(Chars) : Request(new)
  <2>1. setting = None /\ UNCHANGED <<shown, setting, expect, reader, wanted, held>>
    BY <1>1 DEF Request, readerVars, history
  <2>2. \A c \in held : c # None
    BY CharsAssumption DEF TInv, DataTypes
  <2> QED BY <2>1, <2>2 DEF HeldInv, Protected, Chosen
<1>2. CASE ClearExpectations
  BY <1>2 DEF ClearExpectations, HeldInv
<1>3. CASE UNCHANGED <<shown, request, setting, expect, reader, wanted, held>>
  BY <1>3 DEF HeldInv, Protected, Chosen
<1>4. CASE Take \/ Build \/ ActSucceeds \/ ActFails \/ End
  BY <1>3, <1>4 DEF Take, Build, ActSucceeds, ActFails, End, hapVars, readerVars, history
<1>5. CASE Settle \/ \E c \in Chars, v \in Values : Operated(c, v)
  BY <1>3, <1>5 DEF Settle, Operated, hapVars, readerVars, history
<1>6. CASE UNCHANGED vars
  BY <1>3, <1>6 DEF vars, hapVars, readerVars, history
<1> QED
  BY <1>1, <1>2, <1>4, <1>5, <1>6, SetterKeepsHeld, CommitKeepsHeld, RecordKeepsHeld,
     CheckKeepsHeld, SetValueKeepsHeld, LapseKeepsHeld, ReaderKeepsHeld DEF Next

\* A held choice changes only to a newer one that hap commits.
LEMMA HeldIsShown ==
  ASSUME TInv, HeldInv, [Next]_vars, NEW c \in held
  PROVE  shown'[c] = shown[c] \/ (setting = c /\ shown'[c] = request[c])
<1>1. CASE Commit
  <2>1. c \in Chars /\ shown \in [Chars -> Values]
    BY DEF TInv, DataTypes
  <2> QED BY <1>1, <2>1 DEF Commit
<1>2. CASE \E r \in Readers : SetValue(r)
  BY <1>2, SetValueKeepsHeld
<1>3. CASE UNCHANGED shown
  BY <1>3
<1> QED
  BY <1>1, <1>2, <1>3
     DEF Next, vars, Request, Setter, Take, Build, ActSucceeds, ActFails, RecordExpectations,
         ClearExpectations, End, Fetch, Check, ApplyEnds, Settle, Operated, Lapse

\* HomeKit goes on showing what the user chose, whatever is read, until an answer
\* confirmed it, its window was over or a request failed (accessory.go:680-712).
THEOREM ChosenIsKept == Spec => ChosenStaysShown
<1>1. Init => HeldInv
  BY DEF Init, HeldInv
<1>2. TInv /\ HeldInv /\ [Next]_vars =>
        [\A c \in held : shown'[c] = shown[c] \/ (setting = c /\ shown'[c] = request[c])]_vars
  BY HeldIsShown
<1> QED
  BY <1>1, <1>2, TypeInvariance, NextKeepsHeld, PTL DEF Spec, ChosenStaysShown

-----------------------------------------------------------------------------
(* What HomeKit goes on showing, whoever meets whom and whatever fails.      *)

\* HomeKit shows what the device has, and so does every answer under way.
ShownAsIs(c, v) ==
  /\ shown[c] = v /\ reported[c] = v
  /\ \A r \in Readers : reader[r] # "idle" => answer[r][c] = v

\* No step changes that while nobody touches the device.
LEMMA ShownKeeps ==
  ASSUME TInv, NEW c \in Chars, NEW v \in Values, HandsOff, device[c] = v, device'[c] = v,
         ShownAsIs(c, v), [Next]_vars
  PROVE  ShownAsIs(c, v)'
<1> USE DEF ShownAsIs
<1>1. setting = None
  BY DEF HandsOff
<1>t. /\ reader \in [Readers -> ReaderStages] /\ shown \in [Chars -> Values]
      /\ answer \in [Readers -> Partial(Chars)]
  BY DEF TInv, DataTypes
<1>n. "idle" \notin Chars /\ "visiting" # "idle"
  BY CharsAssumption
<1>2. ASSUME NEW r \in Readers, Fetch(r) PROVE ShownAsIs(c, v)'
  <2>1. /\ answer' = [answer EXCEPT ![r] = reported] /\ reader' = [reader EXCEPT ![r] = "visiting"]
        /\ shown' = shown /\ reported' = reported
    BY <1>2 DEF Fetch, yandexVars
  <2> QED BY <1>t, <2>1
<1>3. ASSUME NEW r \in Readers, NEW x \in Chars, Check(r, x) PROVE ShownAsIs(c, v)'
  <2>1. /\ answer' = answer /\ shown' = shown /\ reported' = reported /\ reader[r] # "idle"
        /\ reader' = reader \/ reader' = [reader EXCEPT ![r] = x]
    BY <1>3 DEF Check, yandexVars
  <2> QED BY <1>t, <2>1
<1>4. ASSUME NEW r \in Readers, SetValue(r) PROVE ShownAsIs(c, v)'
  <2>1. /\ answer' = answer /\ reported' = reported /\ reader[r] \in Chars
        /\ reader' = [reader EXCEPT ![r] = "visiting"]
        /\ shown' = [shown EXCEPT ![reader[r]] = answer[r][reader[r]]]
    BY <1>4 DEF SetValue, yandexVars
  <2>2. answer[r][c] = v
    BY <1>n, <2>1
  <2>3. shown'[c] = v
    BY <1>t, <2>1, <2>2
  <2> QED BY <1>t, <1>n, <2>1, <2>2, <2>3
<1>5. ASSUME NEW r \in Readers, ApplyEnds(r) PROVE ShownAsIs(c, v)'
  <2>1. /\ answer' = [answer EXCEPT ![r] = Nothing] /\ reader' = [reader EXCEPT ![r] = "idle"]
        /\ shown' = shown /\ reported' = reported
    BY <1>5 DEF ApplyEnds, yandexVars
  <2> QED BY <1>t, <2>1
<1>6. CASE Settle
  BY <1>6 DEF Settle, readerVars
<1>7. CASE UNCHANGED <<shown, reported, reader, answer>>
  BY <1>7
<1> QED
  BY <1>1, <1>2, <1>3, <1>4, <1>5, <1>6, <1>7
     DEF Next, vars, readerVars, yandexVars, Request, Setter, Commit, Take, Build, ActSucceeds,
         ActFails, RecordExpectations, ClearExpectations, End, Operated, Lapse

\* Once HomeKit shows a device as it is, and no older answer is under way, it goes
\* on doing so until somebody touches the device, whatever expectations lapse or
\* are dropped and whatever a request still out brings (accessory.go:683-712).  Of
\* HomeKitShowsDevice this is all but that it comes to show it.
THEOREM ShownStays ==
  ASSUME NEW c \in Chars, NEW v \in Values
  PROVE  Spec => []([](HandsOff /\ device[c] = v) /\ ShownAsIs(c, v) => [](shown[c] = v))
<1>1. TInv /\ (HandsOff /\ device[c] = v) /\ (HandsOff /\ device[c] = v)' /\ ShownAsIs(c, v)
        /\ [Next]_vars => ShownAsIs(c, v)'
  BY ShownKeeps
<1>2. ShownAsIs(c, v) => shown[c] = v
  BY DEF ShownAsIs
<1> QED
  BY <1>1, <1>2, TypeInvariance, PTL DEF Spec
=============================================================================
