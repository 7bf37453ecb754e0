-------------------------- MODULE TokenFileProofs --------------------------
(***************************************************************************)
(* The token file is always readable, and implements TokenStore, for any   *)
(* set of tokens, as long as no process starts from a damaged token.json   *)
(* (~Damage; MCTokenFileDamaged.cfg shows what happens otherwise).         *)
(***************************************************************************)
EXTENDS TokenFile, TLAPS

\* token.json is replaced whole: neither it nor a copy of it is ever damaged.
PrimariesAreWhole ==
  primaries \subseteq Tokens \cup {Missing} /\ existing \in Tokens \cup {Missing}

\* No power cut joins a missing token.json with a damaged backup, but for a
\* process that found the two and could not start.
CutsAreReadable ==
  Missing \in primaries /\ Damaged \in backups
    => pc = "down" /\ primaries = {primary} /\ backups = {backup}

\* A token in memory is, or is newer than, one in the files.
HeldIsStored ==
  held # None => pc # "down" /\ (primary \in Tokens \/ backup \in Tokens)

\* What the files hold in the stages of a save.
SaveStages ==
  /\ pc = "copied" => existing = primary /\ primary \in Tokens
  /\ pc = "syncing" => primary = new

Inv == TypeOK /\ PrimariesAreWhole /\ CutsAreReadable /\ HeldIsStored /\ SaveStages

USE DEF Contents, Saving, PCs

-----------------------------------------------------------------------------
(* Load, and the steps that only move the process.                         *)

\* Load prefers the first file, falls back on the second, and fails only when
\* it can use neither and one is there.
LEMMA LoadCases ==
  /\ \A p \in Tokens, b \in Contents : Load(p, b) = p
  /\ \A b \in Tokens : Load(Missing, b) = b
  /\ Load(Missing, Missing) = None
  /\ Load(Missing, Damaged) = Broken
BY DistinctAssumption DEF Load

LEMMA InitInvariant == ASSUME ~Damage, Init PROVE Inv
BY DistinctAssumption
   DEF Init, Inv, TypeOK, PrimariesAreWhole, CutsAreReadable, HeldIsStored, SaveStages

LEMMA StartKeeps == ASSUME Inv, Start PROVE Inv'
<1>1. primary \in Tokens \cup {Missing} /\ backup \in Contents
  BY DEF Inv, TypeOK, PrimariesAreWhole
<1>2. Load(primary, backup) \in Tokens \cup {None}
  BY <1>1, LoadCases DEF Start
<1>3. primary = Missing => backup # Damaged
  BY LoadCases DEF Start
<1>4. TypeOK'
  BY <1>2, DistinctAssumption DEF Inv, TypeOK, Start, files
<1>5. CutsAreReadable'
  BY <1>3 DEF Inv, CutsAreReadable, Start, files
<1>6. HeldIsStored'
  BY <1>1, <1>2, <1>3, LoadCases, DistinctAssumption DEF HeldIsStored, Start, files
<1>7. PrimariesAreWhole' /\ SaveStages'
  BY DEF Inv, PrimariesAreWhole, SaveStages, Start, files
<1>8. QED
  BY <1>4, <1>5, <1>6, <1>7 DEF Inv

\* The process ends and the files stay, or what the power cut left of them.
LEMMA EndsKeep == ASSUME Inv, Crash \/ PowerCut PROVE Inv'
<1>1. CASE Crash
  BY <1>1, DistinctAssumption
     DEF Inv, TypeOK, PrimariesAreWhole, CutsAreReadable, HeldIsStored, SaveStages,
         Crash, Dies, files
<1>2. CASE PowerCut
  BY <1>2, DistinctAssumption
     DEF Inv, TypeOK, PrimariesAreWhole, CutsAreReadable, HeldIsStored, SaveStages,
         PowerCut, Dies
<1>3. QED
  BY <1>1, <1>2

LEMMA WritebackKeeps == ASSUME Inv, Writeback PROVE Inv'
BY DEF Inv, TypeOK, PrimariesAreWhole, CutsAreReadable, HeldIsStored, SaveStages, Writeback

-----------------------------------------------------------------------------
(* The steps of a save.                                                    *)

\* Those that leave the files alone.
LEMMA QuietStepsKeep ==
  ASSUME Inv,
         \/ \E t \in Tokens : Save(t)
         \/ Staged \/ Preserved \/ NotPreserved
         \/ StagingFails \/ ReplaceFails \/ SyncDirFails
  PROVE  Inv'
<1>1. CASE \E t \in Tokens : Save(t)
  BY <1>1, DistinctAssumption
     DEF Inv, TypeOK, PrimariesAreWhole, CutsAreReadable, HeldIsStored, SaveStages,
         Save, files
<1>2. CASE Staged \/ NotPreserved
  BY <1>2 DEF Inv, TypeOK, PrimariesAreWhole, CutsAreReadable, HeldIsStored, SaveStages,
              Staged, NotPreserved, files
<1>3. CASE Preserved
  BY <1>3 DEF Inv, TypeOK, PrimariesAreWhole, CutsAreReadable, HeldIsStored, SaveStages,
              Preserved, files
<1>4. CASE StagingFails \/ ReplaceFails \/ SyncDirFails
  BY <1>4 DEF Inv, TypeOK, PrimariesAreWhole, CutsAreReadable, HeldIsStored, SaveStages,
              StagingFails, ReplaceFails, SyncDirFails, SaveFails, files
<1>5. QED
  BY <1>1, <1>2, <1>3, <1>4

LEMMA RenamesKeep == ASSUME Inv, RenameBackup \/ Replace \/ SyncDir PROVE Inv'
<1>1. CASE RenameBackup
  BY <1>1, DistinctAssumption
     DEF Inv, TypeOK, PrimariesAreWhole, CutsAreReadable, HeldIsStored, SaveStages,
         RenameBackup
<1>2. CASE Replace
  BY <1>2, DistinctAssumption
     DEF Inv, TypeOK, PrimariesAreWhole, CutsAreReadable, HeldIsStored, SaveStages, Replace
<1>3. CASE SyncDir
  BY <1>3, DistinctAssumption
     DEF Inv, TypeOK, PrimariesAreWhole, CutsAreReadable, HeldIsStored, SaveStages, SyncDir
<1>4. QED
  BY <1>1, <1>2, <1>3

LEMMA NextKeeps == Inv /\ [Next]_vars => Inv'
<1> SUFFICES ASSUME Inv, [Next]_vars PROVE Inv'
  OBVIOUS
<1>1. CASE UNCHANGED vars
  BY <1>1 DEF vars, files, Inv, TypeOK, PrimariesAreWhole, CutsAreReadable,
              HeldIsStored, SaveStages
<1>2. CASE Next
  BY <1>2, StartKeeps, EndsKeep, WritebackKeeps, QuietStepsKeep, RenamesKeep DEF Next
<1>3. QED
  BY <1>1, <1>2

\* The inductive invariant of the store, when no process starts from a damaged
\* token.json.
THEOREM Invariance == ASSUME ~Damage PROVE Spec => []Inv
BY InitInvariant, NextKeeps, PTL DEF Spec

\* A process that has a token finds one when it is started again, whatever call
\* was cut off and whatever a power cut undid (store.go:89-91).
THEOREM TokenIsReadable == ASSUME ~Damage PROVE Spec => []AlwaysReadable
<1>1. Inv => AlwaysReadable
  <2> SUFFICES ASSUME Inv, held # None PROVE AlwaysReadable
    BY DEF AlwaysReadable
  <2>1. Missing \notin primaries \/ Damaged \notin backups
    BY DEF Inv, CutsAreReadable, HeldIsStored
  <2>2. Stored \in Tokens
    BY LoadCases DEF Stored, Inv, TypeOK, PrimariesAreWhole, HeldIsStored
  <2>3. ASSUME NEW p \in primaries, NEW b \in backups PROVE Load(p, b) # Broken
    BY <2>1, LoadCases, DistinctAssumption DEF Inv, TypeOK, PrimariesAreWhole
  <2>4. QED
    BY <2>2, <2>3 DEF AlwaysReadable
<1>2. QED
  BY <1>1, Invariance, PTL

-----------------------------------------------------------------------------
(* The refinement of TokenStore.  The renames of the backup change nothing  *)
(* that Load returns, now or after a power cut: the copied file is what the *)
(* primary holds already.                                                   *)

May == {Load(p, b) : p \in primaries, b \in backups}

LEMMA InitRefines == Init => Abstract!Init
<1> SUFFICES ASSUME Init PROVE Abstract!Init
  OBVIOUS
<1>1. Stored \in Tokens \cup {None, Broken}
  BY DEF Init, Stored, Load
<1>2. QED
  BY <1>1 DEF Init, Stored, Abstract!Init

\* A process that is up can load what is there.
LEMMA UpIsLoadable == ASSUME Inv, pc # "down" PROVE Stored # Broken
<1>1. Missing \notin primaries \/ Damaged \notin backups
  BY DEF Inv, CutsAreReadable
<1>2. QED
  BY <1>1, LoadCases, DistinctAssumption DEF Inv, TypeOK, PrimariesAreWhole, Stored

LEMMA BackupIsHidden ==
  ASSUME Inv, RenameBackup PROVE UNCHANGED <<Stored, May>>
<1>1. existing = primary /\ primary \in Tokens /\ primary \in primaries
  BY DEF Inv, TypeOK, SaveStages, RenameBackup
<1>2. backup \in Contents /\ backup' \in Contents /\ backups \in SUBSET Contents
      /\ backup \in backups
  BY <1>1 DEF Inv, TypeOK, RenameBackup
<1>3. Stored' = Stored
  BY <1>1, <1>2, LoadCases DEF Stored, RenameBackup
<1>4. CASE UNCHANGED backups
  BY <1>3, <1>4 DEF May, RenameBackup
<1>5. CASE backups' = backups \cup {existing}
  <2>1. Load(primary, backup) = primary
    BY <1>1, <1>2, LoadCases
  <2>2. ASSUME NEW p \in primaries PROVE Load(p, existing) \in May
    <3>1. CASE p \in Tokens
      BY <1>1, <1>2, <3>1, LoadCases DEF May
    <3>2. CASE p = Missing
      BY <1>1, <1>2, <2>1, <3>2, LoadCases DEF May
    <3>3. QED
      BY <3>1, <3>2 DEF Inv, PrimariesAreWhole
  <2>3. May' = {Load(p, b) : p \in primaries, b \in backups \cup {existing}}
    BY <1>5 DEF May, RenameBackup
  <2>4. ASSUME NEW x \in May' PROVE x \in May
    <3>1. PICK p \in primaries, b \in backups \cup {existing} : x = Load(p, b)
      BY <2>3
    <3>2. CASE b \in backups
      BY <3>1, <3>2 DEF May
    <3>3. CASE b = existing
      BY <2>2, <3>1, <3>3
    <3>4. QED
      BY <3>1, <3>2, <3>3
  <2>5. ASSUME NEW x \in May PROVE x \in May'
    BY <2>3 DEF May
  <2>6. QED
    BY <1>3, <2>4, <2>5
<1>6. QED
  BY <1>3, <1>4, <1>5 DEF RenameBackup

LEMMA ReplaceRefines == ASSUME Inv, Replace PROVE Abstract!Replace
<1>1. new \in Tokens
  BY DEF Inv, TypeOK, Replace
<1>2. backup \in backups /\ backups \in SUBSET Contents
  BY DEF Inv, TypeOK
<1>3. Stored' = new
  BY <1>1, <1>2, LoadCases DEF Stored, Replace
<1>4. May' = May \cup {new}
  <2>1. May' = {Load(p, b) : p \in primaries \cup {new}, b \in backups}
    BY DEF May, Replace
  <2>2. \A b \in backups : Load(new, b) = new
    BY <1>1, <1>2, LoadCases
  <2>3. QED
    BY <1>2, <2>1, <2>2 DEF May
<1>5. new # None /\ UNCHANGED <<new, ended>>
  BY <1>1, DistinctAssumption DEF Replace
<1>6. QED
  BY <1>3, <1>4, <1>5 DEF Abstract!Replace, May

\* After a sync or a writeback a power cut changes nothing.
LEMMA Synced ==
  ASSUME primaries' = {primary}, backups' = {backup}, UNCHANGED <<primary, backup>>
  PROVE  Stored' = Stored /\ May' = {Stored}
BY DEF Stored, May

LEMMA StepRefines == Inv /\ [Next]_vars => [Abstract!Next]_(Abstract!vars)
<1> SUFFICES ASSUME Inv, [Next]_vars PROVE [Abstract!Next]_(Abstract!vars)
  OBVIOUS
<1>1. CASE Start \/ Staged \/ Preserved \/ NotPreserved \/ UNCHANGED vars
  <2>1. UNCHANGED <<files, new, ended>>
    BY <1>1 DEF Start, Staged, Preserved, NotPreserved, vars
  <2>2. UNCHANGED <<Stored, May>>
    BY <2>1 DEF files, Stored, May
  <2>3. QED
    BY <2>1, <2>2 DEF Abstract!vars, May
<1>2. CASE \E t \in Tokens : Save(t)
  <2>1. PICK t \in Tokens : Save(t)
    BY <1>2
  <2>2. new = None /\ Stored # Broken
    BY <2>1, UpIsLoadable DEF Inv, TypeOK, Save
  <2>3. UNCHANGED <<Stored, May>>
    BY <2>1 DEF Save, files, Stored, May
  <2>4. Abstract!Begin(t)
    BY <2>1, <2>2, <2>3 DEF Abstract!Begin, Save, May
  <2>5. QED
    BY <2>4 DEF Abstract!Next
<1>3. CASE StagingFails \/ ReplaceFails \/ SyncDirFails
  <2>1. new # None /\ SaveFails
    BY <1>3 DEF Inv, TypeOK, StagingFails, ReplaceFails, SyncDirFails
  <2>2. UNCHANGED <<Stored, May>>
    BY <2>1 DEF SaveFails, files, Stored, May
  <2>3. Abstract!Failed
    BY <2>1, <2>2 DEF Abstract!Failed, SaveFails, May
  <2>4. QED
    BY <2>3 DEF Abstract!Next
<1>4. CASE RenameBackup
  <2>1. UNCHANGED <<new, ended>>
    BY <1>4 DEF RenameBackup
  <2>2. QED
    BY <1>4, <2>1, BackupIsHidden DEF Abstract!vars, May
<1>5. CASE Replace
  BY <1>5, ReplaceRefines DEF Abstract!Next
<1>6. CASE SyncDir
  <2>1. new # None /\ Stored = new
    <3>1. new \in Tokens /\ primary = new /\ backup \in Contents
      BY <1>6 DEF Inv, TypeOK, SaveStages, SyncDir
    <3>2. QED
      BY <3>1, LoadCases, DistinctAssumption DEF Stored
  <2>2. Stored' = Stored /\ May' = {Stored}
    BY <1>6, Synced DEF SyncDir
  <2>3. Abstract!Saved
    BY <1>6, <2>1, <2>2 DEF Abstract!Saved, SyncDir, May
  <2>4. QED
    BY <2>3 DEF Abstract!Next
<1>7. CASE Writeback
  <2>1. Stored' = Stored /\ May' = {Stored}
    BY <1>7, Synced DEF Writeback
  <2>2. Abstract!Settled
    BY <1>7, <2>1 DEF Abstract!Settled, Writeback, May
  <2>3. QED
    BY <2>2 DEF Abstract!Next
<1>8. CASE Crash
  <2>1. UNCHANGED <<Stored, May>>
    BY <1>8 DEF Crash, files, Stored, May
  <2>2. Abstract!Crash
    BY <1>8, <2>1 DEF Abstract!Crash, Crash, Dies, May
  <2>3. QED
    BY <2>2 DEF Abstract!Next
<1>9. CASE PowerCut
  <2>1. Stored' \in May
    BY <1>9 DEF PowerCut, Stored, May
  <2>2. May' = {Stored'}
    BY <1>9 DEF PowerCut, Stored, May
  <2>3. Abstract!PowerCut
    BY <1>9, <2>1, <2>2 DEF Abstract!PowerCut, PowerCut, Dies, May
  <2>4. QED
    BY <2>3 DEF Abstract!Next
<1>10. QED
  BY <1>1, <1>2, <1>3, <1>4, <1>5, <1>6, <1>7, <1>8, <1>9 DEF Next

\* One step from the old token to the new one, and a save that has returned is
\* final (store.go:3-12, 89-91): the files implement the steps of TokenStore.
THEOREM StoreRefinement == ASSUME ~Damage PROVE Spec => Abstract!Steps
<1>1. QED
  BY InitRefines, Invariance, StepRefines, PTL DEF Spec, Abstract!Steps

\* The files hold what saves have written, nothing, or the bytes of a save that
\* was cut short, and a save is at one of its stages (store.go:60-120).
THEOREM TypeCorrect == ASSUME ~Damage PROVE Spec => []TypeOK
<1>1. Inv => TypeOK
  BY DEF Inv
<1>2. QED
  BY <1>1, Invariance, PTL
=============================================================================
