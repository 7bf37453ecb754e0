----------------------------- MODULE TokenFile -----------------------------
(***************************************************************************)
(* auth.Store over atomicfile.WriteWithBackup, one system call at a time.  *)
(*                                                                         *)
(* writeSync leaves a whole, synced file under a temporary name that       *)
(* nothing reads, or fails; so a step of the save is a staged file or a    *)
(* rename.  A rename is seen at once by every process, but until the       *)
(* directory is synced a power cut may undo it, each name by itself.       *)
(***************************************************************************)
CONSTANTS Tokens,  \* contents that readToken accepts
          Missing, \* no file of that name
          Damaged, \* a file that readToken rejects
          Broken,  \* Load returns an error
          None,    \* no token
          Damage   \* TRUE: token.json may be damaged when the process starts

ASSUME DamageAssumption == Damage \in BOOLEAN
ASSUME DistinctAssumption ==
  {Missing, Damaged, Broken, None} \cap Tokens = {} /\ Missing # Damaged /\ Broken # None

VARIABLES primary, backup,    \* the contents of token.json and token.json.bak
          primaries, backups, \* what a power cut may leave of each
          pc,                 \* the process, see PCs
          held,               \* the token in memory, loaded or saved last
          new,                \* the token being saved
          existing,           \* the old contents, read for the backup
          ended               \* how the last save ended

files == <<primary, backup, primaries, backups>>
vars  == <<files, pc, held, new, existing, ended>>

Contents == Tokens \cup {Missing, Damaged}
Saving == {"staging", "preserving", "copied", "replacing", "syncing"}
PCs == {"down", "up"} \cup Saving

\* Store.Load on these two files.
Load(p, b) ==
  CASE p \in Tokens -> p
    [] p \notin Tokens /\ b \in Tokens -> b
    [] p = Missing /\ b = Missing -> None
    [] OTHER -> Broken

Init ==
  /\ primary \in Contents \ (IF Damage THEN {} ELSE {Damaged})
  /\ backup \in Contents
  /\ primaries = {primary} /\ backups = {backup}
  /\ pc = "down" /\ held = None /\ new = None /\ existing = Missing /\ ended = "none"

-----------------------------------------------------------------------------
(* The process.  One that cannot load its token stops.                     *)

Start ==
  /\ pc = "down" /\ Load(primary, backup) # Broken
  /\ pc' = "up" /\ held' = Load(primary, backup)
  /\ UNCHANGED <<files, new, existing, ended>>

Dies ==
  /\ pc' = "down" /\ held' = None /\ new' = None /\ existing' = Missing /\ ended' = "none"

Crash ==
  /\ pc # "down"
  /\ Dies
  /\ UNCHANGED files

PowerCut ==
  /\ primary' \in primaries /\ backup' \in backups
  /\ primaries' = {primary'} /\ backups' = {backup'}
  /\ Dies

\* The kernel writes the directory back on its own.
Writeback ==
  /\ primaries' = {primary} /\ backups' = {backup}
  /\ UNCHANGED <<primary, backup, pc, held, new, existing, ended>>

-----------------------------------------------------------------------------
(* Save, which holds s.mu: saves do not overlap.                           *)

Save(t) ==
  /\ pc = "up"
  /\ pc' = "staging" /\ new' = t /\ ended' = "none"
  /\ UNCHANGED <<files, held, existing>>

SaveFails ==
  /\ pc' = "up" /\ new' = None /\ existing' = Missing /\ ended' = "failed"
  /\ UNCHANGED <<files, held>>

\* mutant: the new contents are written in place
StagedInPlace ==
  /\ pc = "staging"
  /\ pc' = "preserving" /\ primary' = Damaged /\ primaries' = {Damaged}
  /\ UNCHANGED <<backup, backups, held, new, existing, ended>>

Staged ==
  /\ pc = "staging"
  /\ pc' = "preserving"
  /\ UNCHANGED <<files, held, new, existing, ended>>

StagingFails == pc = "staging" /\ SaveFails

\* The outgoing contents are read, whatever they are, and staged.
Preserved ==
  /\ pc = "preserving" /\ primary # Missing
  /\ pc' = "copied" /\ existing' = primary
  /\ UNCHANGED <<files, held, new, ended>>

\* Nothing to preserve, or it cannot be read or staged: not fatal.
NotPreserved ==
  /\ pc = "preserving"
  /\ pc' = "replacing"
  /\ UNCHANGED <<files, held, new, existing, ended>>

RenameBackup ==
  /\ pc = "copied"
  /\ pc' = "replacing" /\ existing' = Missing
  /\ \/ backup' = existing /\ backups' = backups \cup {existing}
     \/ UNCHANGED <<backup, backups>> \* the rename fails
  /\ UNCHANGED <<primary, primaries, held, new, ended>>

Replace ==
  /\ pc = "replacing"
  /\ pc' = "syncing"
  /\ primary' = new /\ primaries' = primaries \cup {new}
  /\ UNCHANGED <<backup, backups, held, new, existing, ended>>

ReplaceFails == pc = "replacing" /\ SaveFails

\* mutant: the directory is not synced
SyncDirSkipped ==
  /\ pc = "syncing"
  /\ pc' = "up" /\ held' = new /\ new' = None /\ ended' = "saved"
  /\ UNCHANGED <<files, existing>>

SyncDir ==
  /\ pc = "syncing"
  /\ primaries' = {primary} /\ backups' = {backup}
  /\ pc' = "up" /\ held' = new /\ new' = None /\ ended' = "saved"
  /\ UNCHANGED <<primary, backup, existing>>

\* The caller is told that the save has failed, with the new file in place.
SyncDirFails == pc = "syncing" /\ SaveFails

SaveSteps ==
  \/ Staged \/ StagingFails \/ Preserved \/ NotPreserved \/ RenameBackup
  \/ Replace \/ ReplaceFails \/ SyncDir \/ SyncDirFails

-----------------------------------------------------------------------------
Next ==
  \/ Start \/ Crash \/ PowerCut \/ Writeback
  \/ \E t \in Tokens : Save(t)
  \/ Staged \/ StagingFails \/ Preserved \/ NotPreserved \/ RenameBackup
  \/ Replace \/ ReplaceFails \/ SyncDir \/ SyncDirFails

Spec == Init /\ [][Next]_vars

\* System calls return.
FairSpec == Spec /\ WF_vars(SaveSteps)

-----------------------------------------------------------------------------
(* Properties.                                                             *)

Stored == Load(primary, backup)

\* The files and what a power cut may leave of them fit, and a save has a token.
TypeOK ==
  /\ primary \in Contents /\ primaries \in SUBSET Contents /\ primary \in primaries
  /\ backup \in Contents /\ backups \in SUBSET Contents /\ backup \in backups
  /\ pc \in PCs /\ held \in Tokens \cup {None}
  /\ new \in Tokens \cup {None} /\ (new # None <=> pc \in Saving)
  /\ existing \in Contents /\ ended \in {"none", "saved", "failed"}

\* "A crash at any point leaves either the old or the new token fully intact -
\* never a truncated file and never an empty one" (store.go:89-91): a process that
\* has a token will find one when it is started again, whatever call was cut off,
\* and no power cut leaves files it cannot start with.  With Damage the code does
\* not have it.
AlwaysReadable ==
  held # None =>
    /\ Stored \in Tokens
    /\ \A p \in primaries, b \in backups : Load(p, b) # Broken

\* The store implements TokenStore: one step from the old token to the new one.
Abstract == INSTANCE TokenStore WITH
  stored <- Stored,
  may    <- {Load(p, b) : p \in primaries, b \in backups},
  saving <- new,
  ended  <- ended

ImplementsTokenStore == Abstract!Spec
=============================================================================
