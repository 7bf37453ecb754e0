--------------------------- MODULE RegistryProofs ---------------------------
(***************************************************************************)
(* Proofs about module Registry, for every set of devices and shapes and   *)
(* every bound.  They assume that a renamed file is written back before    *)
(* the next process reads it (WritebackBeforeRestart); without that the    *)
(* theorems are false, as MCRegistryPowerCut.cfg shows.                    *)
(***************************************************************************)
EXTENDS Registry, FiniteSetTheorems, TLAPS

-----------------------------------------------------------------------------
(* The inductive invariant.                                                *)

\* Every number of a book is its own device's and lies below the watermark.
WellFormed(b) ==
  /\ b.next >= FirstDeviceAID
  /\ \A d \in DOMAIN b.assigned :
       /\ b.assigned[d].aid \in FirstDeviceAID .. (b.next - 1)
       /\ \A e \in DOMAIN b.assigned :
            b.assigned[d].aid = b.assigned[e].aid => d = e

\* A book that can be loaded without giving a served number away.
KnowsIssued(b, iss) ==
  \A i \in iss :
    /\ i.aid < b.next
    /\ \A d \in DOMAIN b.assigned :
         b.assigned[d].aid = i.aid => d = i.device /\ b.assigned[d].shape = i.shape

KeepsSettled(b, stl) ==
  \A d \in DOMAIN stl : d \in DOMAIN b.assigned /\ b.assigned[d] = stl[d]

Sound(b, iss, stl) == WellFormed(b) /\ KnowsIssued(b, iss) /\ KeepsSettled(b, stl)

\* The file still holds everything the memory does.
Holds(f, b) ==
  /\ f.next = b.next
  /\ \A d \in DOMAIN b.assigned : d \in DOMAIN f.assigned /\ f.assigned[d] = b.assigned[d]

Assigning == op = "assign" /\ pc \in {"staged", "renamed"}
Forgetting == op = "forget" /\ pc \in {"staged", "renamed"}

SurvivorsSound == \A f \in survivors : Sound(f, issued, settled)
MemorySound == pc # "down" => Sound(mem, issued, settled)
UndoSound == Assigning => Sound(undo, issued, settled)
FilesHoldMemory ==
  pc \in {"ready", "assigned"} \/ Forgetting => \A f \in survivors : Holds(f, mem)
RenamedIsMemory == pc = "renamed" => disk = mem
CallIsAssigned ==
  Assigning \/ pc = "assigned" =>
    \A d \in DOMAIN call : d \in DOMAIN mem.assigned /\ mem.assigned[d].shape = call[d]

IInv ==
  /\ TypeOK
  /\ SurvivorsSound
  /\ MemorySound
  /\ UndoSound
  /\ FilesHoldMemory
  /\ RenamedIsMemory
  /\ CallIsAssigned
  /\ AidsNeverShared

-----------------------------------------------------------------------------
(* Ranks: numbers handed out in one call are distinct and below the new    *)
(* watermark.                                                              *)

\* Assign hands the d-th fresh device the d-th number after next: the rank is
\* below the count of fresh devices.
LEMMA RankBound ==
  ASSUME NEW S \in SUBSET Nat, IsFiniteSet(S), NEW d \in S
  PROVE  Rank(d, S) \in Nat /\ Rank(d, S) < Cardinality(S)
<1> DEFINE B == {c \in S : c < d}
<1>1. B \in SUBSET (S \ {d})
  OBVIOUS
<1>2. IsFiniteSet(S \ {d}) /\ Cardinality(S \ {d}) = Cardinality(S) - 1
  BY FS_RemoveElement
<1>3. IsFiniteSet(B) /\ Cardinality(B) <= Cardinality(S \ {d})
  BY <1>1, <1>2, FS_Subset
<1>4. Cardinality(B) \in Nat /\ Cardinality(S) \in Nat
  BY <1>3, FS_CardinalityType
<1> QED
  BY <1>2, <1>3, <1>4 DEF Rank

\* A smaller device id gets a smaller number.
LEMMA RankMonotonic ==
  ASSUME NEW S \in SUBSET Nat, IsFiniteSet(S), NEW c \in S, NEW d \in S, c < d
  PROVE  Rank(c, S) < Rank(d, S)
<1> DEFINE B == {e \in S : e < d}
<1>1. IsFiniteSet(B) /\ B \in SUBSET Nat /\ c \in B
  BY FS_Subset
<1>2. Rank(c, B) < Cardinality(B)
  BY <1>1, RankBound
<1>3. \A e \in S : e < c => e < d
  OBVIOUS
<1>4. {e \in B : e < c} = {e \in S : e < c}
  BY <1>3
<1> QED
  BY <1>2, <1>4 DEF Rank

\* Two devices of one call never get the same number.
LEMMA RankInjective ==
  ASSUME NEW S \in SUBSET Nat, IsFiniteSet(S), NEW c \in S, NEW d \in S,
         Rank(c, S) = Rank(d, S)
  PROVE  c = d
<1>1. Rank(c, S) \in Nat /\ Rank(d, S) \in Nat
  BY RankBound
<1>2. ~ c < d /\ ~ d < c
  BY <1>1, RankMonotonic
<1> QED
  BY <1>2

-----------------------------------------------------------------------------
(* Reading and extending a book.                                           *)

\* LoadRegistry gives back exactly what a well-formed registry saved.
LEMMA LoadOfWellFormed ==
  ASSUME NEW b, IsBook(b), WellFormed(b)
  PROVE  LoadRegistry(b) = b
<1> DEFINE low == {FirstDeviceAID, b.next} \cup {a + 1 : a \in AIDsOf(b)}
<1>1. b.next \in low /\ b.next \in Nat
  BY DEF IsBook
<1>2. \A m \in low : m <= b.next
  BY DEF IsBook, WellFormed, AIDsOf, FirstDeviceAID
<1>3. \A n \in low : (\A m \in low : m <= n) => n = b.next
  <2> TAKE n \in low
  <2> HAVE \A m \in low : m <= n
  <2>1. b.next <= n /\ n <= b.next
    BY <1>1, <1>2
  <2>2. n \in Nat
    BY DEF IsBook, IsPartial, Entry, AIDsOf, FirstDeviceAID
  <2> QED
    BY <1>1, <2>1, <2>2
<1>4. Watermark(b) = b.next
  BY <1>1, <1>2, <1>3 DEF Watermark
<1> QED
  BY <1>4 DEF LoadRegistry, IsBook

\* Fresh devices are finitely many device ids.
LEMMA FreshFinite ==
  ASSUME NEW specs \in Topologies
  PROVE  Fresh(specs) \in SUBSET Nat /\ IsFiniteSet(Fresh(specs))
         /\ Cardinality(Fresh(specs)) \in Nat
<1>1. Fresh(specs) \in SUBSET Devices
  BY DEF Fresh, Topologies
<1> QED
  BY <1>1, DevicesAssumption, FS_Subset, FS_CardinalityType

\* What Assign makes of the memory: fresh devices get numbers from the old
\* watermark up, everyone else keeps the number they had.
LEMMA AssignEffect ==
  ASSUME IsBook(mem), NEW specs \in Topologies
  PROVE  LET b == AfterAssign(specs) IN
         /\ IsBook(b)
         /\ b.next = mem.next + Cardinality(Fresh(specs))
         /\ DOMAIN b.assigned = DOMAIN mem.assigned \cup DOMAIN specs
         /\ \A d \in Fresh(specs) :
              /\ d \in DOMAIN specs
              /\ b.assigned[d].aid = mem.next + Rank(d, Fresh(specs))
              /\ b.assigned[d].shape = specs[d]
         /\ \A d \in DOMAIN b.assigned \ Fresh(specs) :
              /\ d \in DOMAIN mem.assigned
              /\ b.assigned[d].aid = mem.assigned[d].aid
              /\ d \in Adopted(specs) => b.assigned[d].shape = specs[d]
              /\ d \notin Adopted(specs) => b.assigned[d] = mem.assigned[d]
<1> DEFINE b == AfterAssign(specs)
           fresh == Fresh(specs)
<1>1. b = [next |-> b.next, assigned |-> b.assigned]
      /\ b.next = mem.next + Cardinality(fresh)
      /\ DOMAIN b.assigned = DOMAIN mem.assigned \cup DOMAIN specs
  BY DEF AfterAssign
<1>2. DOMAIN specs \subseteq Devices /\ specs \in [DOMAIN specs -> Shapes]
  BY DEF Topologies
<1>3. DOMAIN mem.assigned \subseteq Devices /\ mem.assigned \in [DOMAIN mem.assigned -> Entry]
      /\ mem.next \in Nat
  BY DEF IsBook, IsPartial
<1>4. \A d \in fresh : d \in DOMAIN specs
        /\ b.assigned[d] = [aid |-> mem.next + Rank(d, fresh), shape |-> specs[d]]
  <2>1. fresh \subseteq DOMAIN specs
    BY DEF Fresh
  <2>2. fresh \cap Adopted(specs) = {}
    BY DEF Fresh, Adopted
  <2> QED
    BY <2>1, <2>2 DEF AfterAssign
<1>5. \A d \in DOMAIN b.assigned \ fresh : d \in DOMAIN mem.assigned
  BY <1>1 DEF Fresh
<1>6. \A d \in DOMAIN b.assigned \ fresh :
        /\ d \in Adopted(specs) => b.assigned[d] = [mem.assigned[d] EXCEPT !.shape = specs[d]]
        /\ d \notin Adopted(specs) => b.assigned[d] = mem.assigned[d]
  BY <1>1 DEF AfterAssign
<1>7. \A d \in DOMAIN b.assigned \ fresh :
        /\ b.assigned[d].aid = mem.assigned[d].aid
        /\ d \in Adopted(specs) => b.assigned[d].shape = specs[d]
  BY <1>3, <1>5, <1>6 DEF Entry
<1>8. \A d \in DOMAIN b.assigned : b.assigned[d] \in Entry
  <2> TAKE d \in DOMAIN b.assigned
  <2>1. CASE d \in fresh
    <3>1. Rank(d, fresh) \in Nat
      BY <2>1, FreshFinite, RankBound
    <3>2. specs[d] \in Shapes
      BY <2>1, <1>2, <1>4
    <3>3. mem.next + Rank(d, fresh) \in Nat
      BY <3>1, <1>3
    <3>4. b.assigned[d] = [aid |-> mem.next + Rank(d, fresh), shape |-> specs[d]]
      BY <2>1, <1>4
    <3> HIDE DEF b, fresh
    <3> QED
      BY <3>2, <3>3, <3>4 DEF Entry
  <2>2. CASE d \notin fresh /\ d \in Adopted(specs)
    <3>1. specs[d] \in Shapes
      BY <2>2, <1>2 DEF Adopted
    <3>2. mem.assigned[d] \in Entry
      BY <2>2, <1>3, <1>5
    <3>3. b.assigned[d] = [mem.assigned[d] EXCEPT !.shape = specs[d]]
      BY <2>2, <1>6
    <3>4. \A x \in Entry, s \in Shapes : [x EXCEPT !.shape = s] \in Entry
      BY DEF Entry
    <3> QED
      BY <3>1, <3>2, <3>3, <3>4
  <2>3. CASE d \notin fresh /\ d \notin Adopted(specs)
    BY <2>3, <1>3, <1>5, <1>6
  <2> QED
    BY <2>1, <2>2, <2>3
<1>9. b.assigned \in [DOMAIN b.assigned -> Entry]
  <2>1. b.assigned = [d \in DOMAIN b.assigned |-> b.assigned[d]]
    BY DEF AfterAssign
  <2> QED
    BY <2>1, <1>8
<1>10. IsBook(b)
  BY <1>1, <1>2, <1>3, <1>9, FreshFinite DEF IsBook, IsPartial
<1>11. \A d \in fresh : /\ b.assigned[d].aid = mem.next + Rank(d, fresh)
                        /\ b.assigned[d].shape = specs[d]
  <2> TAKE d \in fresh
  <2>1. b.assigned[d] = [aid |-> mem.next + Rank(d, fresh), shape |-> specs[d]]
    BY <1>4
  <2> HIDE DEF b, fresh
  <2> QED
    BY <2>1
<1> QED
  BY <1>1, <1>4, <1>5, <1>6, <1>7, <1>10, <1>11

-----------------------------------------------------------------------------
(* The invariant holds initially and every step keeps it.                  *)

\* An empty registry and every file of version 1 are sound before anything
\* was served.
LEMMA InitInvariant == Init => IInv
<1> SUFFICES ASSUME Init PROVE IInv
  OBVIOUS
<1>1. IsBook(EmptyBook) /\ WellFormed(EmptyBook)
  BY DEF IsBook, IsPartial, EmptyBook, WellFormed, FirstDeviceAID
<1>2. IsBook(disk) /\ WellFormed(disk)
  BY <1>1, LegacyAssumption DEF Init, WellFormed
<1>3. IsPartial(Nothing, Devices, Shapes) /\ IsPartial(Nothing, Devices, Nat)
      /\ IsPartial(Nothing, Devices, [aid : Nat, shape : Shapes])
  BY DEF IsPartial, Nothing
<1>4. TypeOK
  BY <1>1, <1>2, <1>3 DEF Init, TypeOK, PCs
<1>5. Sound(disk, issued, settled)
  BY <1>2 DEF Init, Sound, KnowsIssued, KeepsSettled, Nothing
<1> QED
  BY <1>4, <1>5 DEF Init, IInv, SurvivorsSound, MemorySound, UndoSound, FilesHoldMemory,
       RenamedIsMemory, CallIsAssigned, AidsNeverShared, Assigning, Forgetting

\* Loading the file of an invariant state gives back the file itself.
LEMMA LoadIsDisk == IInv => \A f \in survivors : LoadRegistry(f) = f
BY LoadOfWellFormed DEF IInv, TypeOK, SurvivorsSound, Sound

\* Start: the memory becomes the one version a power cut could leave.
LEMMA StartKeeps ==
  ASSUME WritebackBeforeRestart, IInv, Start
  PROVE  IInv'
<1>1. mem' = disk /\ survivors = {disk}
  BY LoadIsDisk DEF Start, IInv, TypeOK
<1>2. TypeOK'
  BY <1>1 DEF Start, IInv, TypeOK, PCs
<1>3. MemorySound' /\ SurvivorsSound'
  BY <1>1 DEF Start, IInv, MemorySound, SurvivorsSound
<1>4. FilesHoldMemory'
  BY <1>1 DEF Start, FilesHoldMemory, Forgetting, Holds
<1>5. UndoSound' /\ RenamedIsMemory' /\ CallIsAssigned' /\ AidsNeverShared'
  BY DEF Start, IInv, UndoSound, RenamedIsMemory, CallIsAssigned, Assigning, AidsNeverShared
<1> QED
  BY <1>2, <1>3, <1>4, <1>5 DEF IInv

\* AssignUnchanged: every device of the call already has its number.
LEMMA AssignUnchangedKeeps ==
  ASSUME IInv, NEW specs \in Topologies, AssignUnchanged(specs)
  PROVE  IInv'
<1>1. TypeOK'
  BY DEF AssignUnchanged, IInv, TypeOK, PCs, Topologies, IsPartial
<1>2. CallIsAssigned'
  BY DEF AssignUnchanged, CallIsAssigned, Fresh, Adopted
<1>3. FilesHoldMemory'
  BY DEF AssignUnchanged, IInv, FilesHoldMemory, Holds
<1>4. SurvivorsSound' /\ MemorySound' /\ UndoSound' /\ RenamedIsMemory' /\ AidsNeverShared'
  BY DEF AssignUnchanged, IInv, SurvivorsSound, MemorySound, UndoSound, RenamedIsMemory,
         Assigning, AidsNeverShared
<1> QED
  BY <1>1, <1>2, <1>3, <1>4 DEF IInv

\* Exit: nothing but the process goes away.
LEMMA ExitKeeps ==
  ASSUME IInv, Exit
  PROVE  IInv'
<1>1. IsBook(EmptyBook) /\ IsPartial(Nothing, Devices, Nat)
  BY DEF IsBook, IsPartial, EmptyBook, FirstDeviceAID, Nothing
<1>2. TypeOK'
  BY <1>1 DEF Exit, IInv, TypeOK, PCs
<1> QED
  BY <1>2 DEF Exit, IInv, SurvivorsSound, MemorySound, UndoSound, FilesHoldMemory,
       RenamedIsMemory, CallIsAssigned, Assigning, Forgetting, AidsNeverShared

\* PowerCut: whichever version survives was sound already.
LEMMA PowerCutKeeps ==
  ASSUME IInv, PowerCut
  PROVE  IInv'
<1>1. IsBook(EmptyBook) /\ IsPartial(Nothing, Devices, Nat)
  BY DEF IsBook, IsPartial, EmptyBook, FirstDeviceAID, Nothing
<1>2. PICK f \in survivors : disk' = f /\ survivors' = {f}
  BY DEF PowerCut
<1>3. TypeOK'
  BY <1>1, <1>2 DEF PowerCut, IInv, TypeOK, PCs
<1>4. SurvivorsSound'
  BY <1>2 DEF PowerCut, IInv, SurvivorsSound
<1> QED
  BY <1>3, <1>4 DEF PowerCut, IInv, MemorySound, UndoSound, FilesHoldMemory,
       RenamedIsMemory, CallIsAssigned, Assigning, Forgetting, AidsNeverShared

\* Writeback: the set of possible survivors only shrinks.
LEMMA WritebackKeeps ==
  ASSUME IInv, Writeback
  PROVE  IInv'
<1>1. TypeOK'
  BY DEF Writeback, IInv, TypeOK
<1>2. SurvivorsSound' /\ FilesHoldMemory'
  BY DEF Writeback, IInv, TypeOK, SurvivorsSound, FilesHoldMemory, Forgetting
<1> QED
  BY <1>1, <1>2 DEF Writeback, IInv, MemorySound, UndoSound, RenamedIsMemory,
       CallIsAssigned, Assigning, AidsNeverShared

\* Rename: the new version joins the ones a power cut may leave.
LEMMA RenameKeeps ==
  ASSUME IInv, Rename
  PROVE  IInv'
<1>1. TypeOK'
  BY DEF Rename, IInv, TypeOK, PCs
<1>2. SurvivorsSound' /\ RenamedIsMemory'
  BY DEF Rename, IInv, SurvivorsSound, MemorySound, RenamedIsMemory
<1>3. FilesHoldMemory'
  BY DEF Rename, IInv, FilesHoldMemory, Forgetting, Holds
<1> QED
  BY <1>1, <1>2, <1>3 DEF Rename, IInv, MemorySound, UndoSound,
       CallIsAssigned, Assigning, AidsNeverShared

\* SyncDir: the file that was just renamed, the memory, is all that can survive.
LEMMA SyncDirKeeps ==
  ASSUME IInv, SyncDir
  PROVE  IInv'
<1>1. TypeOK'
  BY DEF SyncDir, IInv, TypeOK, PCs
<1>2. SurvivorsSound'
  BY DEF SyncDir, IInv, TypeOK, SurvivorsSound
<1>3. FilesHoldMemory'
  BY DEF SyncDir, IInv, FilesHoldMemory, RenamedIsMemory, Holds
<1>4. CallIsAssigned'
  BY DEF SyncDir, IInv, TypeOK, CallIsAssigned, Assigning
<1> QED
  BY <1>1, <1>2, <1>3, <1>4 DEF SyncDir, IInv, MemorySound, UndoSound, RenamedIsMemory,
       Assigning, AidsNeverShared

\* SaveFails: the rolled-back memory was sound before the call; after a failed
\* Forget every version of the file still holds what is left in memory.
LEMMA SaveFailsKeeps ==
  ASSUME IInv, SaveFails
  PROVE  IInv'
<1>1. TypeOK'
  BY DEF SaveFails, IInv, TypeOK, PCs
<1>2. MemorySound'
  BY DEF SaveFails, IInv, MemorySound, UndoSound, Assigning
<1>3. FilesHoldMemory'
  BY DEF SaveFails, IInv, TypeOK, FilesHoldMemory, Forgetting, Holds
<1> QED
  BY <1>1, <1>2, <1>3 DEF SaveFails, IInv, SurvivorsSound, UndoSound, RenamedIsMemory,
       CallIsAssigned, Assigning, AidsNeverShared

\* AssignStage: the new numbers start at the old watermark, so none was ever
\* served; an adopted entry had no shape, so its number was never served.
LEMMA AssignStageKeeps ==
  ASSUME IInv, NEW specs \in Topologies, AssignStage(specs)
  PROVE  IInv'
<1> DEFINE b == AfterAssign(specs)
           fresh == Fresh(specs)
           kept == {d \in DOMAIN settled : d \in DOMAIN specs => specs[d] = settled[d].shape}
<1>1. IsBook(mem) /\ Sound(mem, issued, settled)
  BY DEF AssignStage, IInv, TypeOK, MemorySound
<1>2. mem' = b /\ undo' = mem /\ op' = "assign" /\ call' = specs /\ pc' = "staged"
      /\ settled' = Restrict(settled, kept) /\ UNCHANGED <<disk, survivors, live, issued>>
  BY DEF AssignStage
<1>3. /\ IsPartial(settled', Devices, [aid : Nat, shape : Shapes])
      /\ DOMAIN settled' = kept
      /\ \A d \in kept : settled'[d] = settled[d]
  <2>1. kept \subseteq DOMAIN settled
    OBVIOUS
  <2>2. IsPartial(settled, Devices, [aid : Nat, shape : Shapes])
    BY DEF IInv, TypeOK
  <2> HIDE DEF kept
  <2>3. /\ IsPartial(Restrict(settled, kept), Devices, [aid : Nat, shape : Shapes])
        /\ DOMAIN Restrict(settled, kept) = kept
        /\ \A d \in kept : Restrict(settled, kept)[d] = settled[d]
    BY <2>1, <2>2 DEF IsPartial, Restrict
  <2> QED
    BY <1>2, <2>3
<1>4. TypeOK'
  <2>1. IsBook(b)
    BY <1>1, AssignEffect
  <2>2. IsPartial(specs, Devices, Shapes)
    BY DEF Topologies, IsPartial
  <2> QED
    BY <1>2, <1>3, <2>1, <2>2 DEF IInv, TypeOK, PCs
<1>5. \A c \in fresh : /\ Rank(c, fresh) \in Nat
                       /\ Rank(c, fresh) < Cardinality(fresh)
                       /\ \A d \in fresh : Rank(c, fresh) = Rank(d, fresh) => c = d
  BY FreshFinite, RankBound, RankInjective
<1>6. mem.next \in Nat /\ Cardinality(fresh) \in Nat
  BY <1>1, FreshFinite DEF IsBook
<1>7. WellFormed(b)
  <2>1. \A d \in fresh : b.assigned[d].aid = mem.next + Rank(d, fresh)
    BY <1>1, AssignEffect
  <2>2. \A d \in DOMAIN b.assigned \ fresh :
          d \in DOMAIN mem.assigned /\ b.assigned[d].aid = mem.assigned[d].aid
    BY <1>1, AssignEffect
  <2>3. b.next = mem.next + Cardinality(fresh)
    BY <1>1, AssignEffect
  <2>4. \A d \in DOMAIN mem.assigned :
          /\ mem.assigned[d].aid \in FirstDeviceAID .. (mem.next - 1)
          /\ \A e \in DOMAIN mem.assigned :
               mem.assigned[d].aid = mem.assigned[e].aid => d = e
    BY <1>1 DEF Sound, WellFormed
  <2>5. mem.next >= FirstDeviceAID
    BY <1>1 DEF Sound, WellFormed
  <2> HIDE DEF b, fresh
  <2>6. \A d \in DOMAIN b.assigned : b.assigned[d].aid \in FirstDeviceAID .. (b.next - 1)
    <3> TAKE d \in DOMAIN b.assigned
    <3>1. CASE d \in fresh
      BY <3>1, <1>5, <1>6, <2>1, <2>3, <2>5 DEF FirstDeviceAID
    <3>2. CASE d \notin fresh
      BY <3>2, <1>6, <2>2, <2>3, <2>4 DEF FirstDeviceAID
    <3> QED
      BY <3>1, <3>2
  <2>7. ASSUME NEW d \in DOMAIN b.assigned, NEW e \in DOMAIN b.assigned,
               b.assigned[d].aid = b.assigned[e].aid
        PROVE  d = e
    <3>1. CASE d \in fresh /\ e \in fresh
      BY <2>7, <3>1, <1>5, <1>6, <2>1
    <3>2. CASE d \notin fresh /\ e \notin fresh
      BY <2>7, <3>2, <2>2, <2>4
    <3>3. \A x \in fresh : \A y \in DOMAIN b.assigned \ fresh :
            b.assigned[y].aid < b.assigned[x].aid
      BY <1>5, <1>6, <2>1, <2>2, <2>4 DEF FirstDeviceAID
    <3> QED
      BY <2>7, <3>1, <3>2, <3>3, <2>6 DEF FirstDeviceAID
  <2>8. b.next >= FirstDeviceAID
    BY <1>6, <2>3, <2>5 DEF FirstDeviceAID
  <2> QED
    BY <2>6, <2>7, <2>8 DEF WellFormed
<1>8. KnowsIssued(b, issued)
  <2> SUFFICES ASSUME NEW i \in issued
               PROVE  /\ i.aid < b.next
                      /\ \A d \in DOMAIN b.assigned :
                           b.assigned[d].aid = i.aid =>
                             d = i.device /\ b.assigned[d].shape = i.shape
    BY DEF KnowsIssued
  <2>1. i.aid \in Nat /\ i.shape \in Shapes /\ i.aid < mem.next
    BY <1>1 DEF IInv, TypeOK, Sound, KnowsIssued
  <2>2. i.aid < b.next
    BY <1>1, <1>6, <2>1, AssignEffect
  <2>3. ASSUME NEW d \in DOMAIN b.assigned, b.assigned[d].aid = i.aid
        PROVE  d = i.device /\ b.assigned[d].shape = i.shape
    <3>1. d \notin fresh
      <4> SUFFICES ASSUME d \in fresh PROVE FALSE
        OBVIOUS
      <4>1. b.assigned[d].aid = mem.next + Rank(d, fresh)
        BY <1>1, AssignEffect
      <4> QED
        BY <1>5, <1>6, <2>1, <2>3, <4>1
    <3>2. d \in DOMAIN mem.assigned /\ mem.assigned[d].aid = i.aid
      BY <1>1, <2>3, <3>1, AssignEffect
    <3>3. d = i.device /\ mem.assigned[d].shape = i.shape
      BY <1>1, <3>2 DEF Sound, KnowsIssued
    <3>4. d \notin Adopted(specs)
      BY <2>1, <3>3, ShapesAssumption DEF Adopted
    <3> QED
      BY <1>1, <3>1, <3>3, <3>4, AssignEffect
  <2> QED
    BY <2>2, <2>3
<1>9. KeepsSettled(b, settled')
  <2> SUFFICES ASSUME NEW d \in kept
               PROVE  d \in DOMAIN b.assigned /\ b.assigned[d] = settled[d]
    BY <1>3 DEF KeepsSettled
  <2>1. d \in DOMAIN mem.assigned /\ mem.assigned[d] = settled[d]
    BY <1>1 DEF Sound, KeepsSettled
  <2>2. settled[d].shape \in Shapes
    BY DEF IInv, TypeOK, IsPartial
  <2>3. d \notin fresh /\ d \notin Adopted(specs)
    BY <2>1, <2>2, ShapesAssumption DEF Fresh, Adopted
  <2> QED
    BY <1>1, <2>1, <2>3, AssignEffect
<1>10. \A f : Sound(f, issued, settled) => Sound(f, issued, settled')
  <2> HIDE DEF kept
  <2>1. kept \subseteq DOMAIN settled
    BY DEF kept
  <2> QED
    BY <1>3, <2>1 DEF Sound, KeepsSettled
<1>11. SurvivorsSound' /\ MemorySound' /\ UndoSound'
  BY <1>1, <1>2, <1>7, <1>8, <1>9, <1>10
     DEF IInv, SurvivorsSound, MemorySound, UndoSound, Sound
<1>12. CallIsAssigned'
  <2> SUFFICES ASSUME NEW d \in DOMAIN specs
               PROVE  d \in DOMAIN b.assigned /\ b.assigned[d].shape = specs[d]
    BY <1>2 DEF CallIsAssigned
  <2>1. d \in DOMAIN b.assigned
    BY <1>1, AssignEffect
  <2>2. CASE d \in fresh
    BY <1>1, <2>2, AssignEffect
  <2>3. CASE d \notin fresh /\ d \in Adopted(specs)
    BY <1>1, <2>1, <2>3, AssignEffect
  <2>4. CASE d \notin fresh /\ d \notin Adopted(specs)
    <3>1. d \in DOMAIN mem.assigned /\ mem.assigned[d].shape = specs[d]
      BY <2>4 DEF Fresh, Adopted
    <3> QED
      BY <1>1, <2>1, <2>4, <3>1, AssignEffect
  <2> QED
    BY <2>1, <2>2, <2>3, <2>4
<1>13. FilesHoldMemory' /\ RenamedIsMemory' /\ AidsNeverShared'
  BY <1>2 DEF IInv, FilesHoldMemory, RenamedIsMemory, AidsNeverShared, Forgetting
<1> QED
  BY <1>4, <1>11, <1>12, <1>13 DEF IInv

\* ForgetStage: memory loses entries but not its watermark.
LEMMA ForgetStageKeeps ==
  ASSUME IInv, NEW ids \in SUBSET Devices, ForgetStage(ids)
  PROVE  IInv'
<1> DEFINE left == DOMAIN mem.assigned \ ids
           kept == DOMAIN settled \ ids
<1>1. IsBook(mem) /\ Sound(mem, issued, settled)
  BY DEF ForgetStage, IInv, TypeOK, MemorySound
<1>2. pc' = "staged" /\ op' = "forget" /\ settled' = Restrict(settled, kept)
      /\ UNCHANGED <<disk, survivors, undo, call, live, issued>>
  BY DEF ForgetStage
<1>3. /\ mem' = [next |-> mem.next, assigned |-> Restrict(mem.assigned, left)]
      /\ mem'.next = mem.next
      /\ mem'.assigned = Restrict(mem.assigned, left)
  BY <1>1 DEF ForgetStage, IsBook
<1>4. /\ IsPartial(settled', Devices, [aid : Nat, shape : Shapes])
      /\ DOMAIN settled' = kept
      /\ \A d \in kept : settled'[d] = settled[d]
  <2>1. IsPartial(settled, Devices, [aid : Nat, shape : Shapes])
    BY DEF IInv, TypeOK
  <2>2. kept \subseteq DOMAIN settled
    OBVIOUS
  <2> HIDE DEF kept
  <2>3. /\ IsPartial(Restrict(settled, kept), Devices, [aid : Nat, shape : Shapes])
        /\ DOMAIN Restrict(settled, kept) = kept
        /\ \A d \in kept : Restrict(settled, kept)[d] = settled[d]
    BY <2>1, <2>2 DEF IsPartial, Restrict
  <2> QED
    BY <1>2, <2>3
<1>5. /\ IsPartial(mem'.assigned, Devices, Entry)
      /\ DOMAIN mem'.assigned = left
      /\ \A d \in left : mem'.assigned[d] = mem.assigned[d]
  <2>1. IsPartial(mem.assigned, Devices, Entry)
    BY <1>1 DEF IsBook
  <2>2. left \subseteq DOMAIN mem.assigned
    OBVIOUS
  <2> HIDE DEF left
  <2>3. /\ IsPartial(Restrict(mem.assigned, left), Devices, Entry)
        /\ DOMAIN Restrict(mem.assigned, left) = left
        /\ \A d \in left : Restrict(mem.assigned, left)[d] = mem.assigned[d]
    BY <2>1, <2>2 DEF IsPartial, Restrict
  <2> QED
    BY <1>3, <2>3
<1>6. TypeOK'
  <2>1. IsBook(mem')
    BY <1>1, <1>3, <1>5 DEF IsBook
  <2> QED
    BY <1>2, <1>4, <2>1 DEF IInv, TypeOK, PCs
<1>7. Sound(mem', issued, settled')
  <2> HIDE DEF left, kept
  <2>0. left \subseteq DOMAIN mem.assigned
    BY DEF left
  <2>1. WellFormed(mem')
    BY <1>1, <1>3, <1>5, <2>0 DEF Sound, WellFormed
  <2>2. KnowsIssued(mem', issued)
    BY <1>1, <1>3, <1>5, <2>0 DEF Sound, KnowsIssued
  <2>3. \A d \in kept : d \in left
    BY <1>1 DEF kept, left, Sound, KeepsSettled
  <2>4. \A d \in kept : d \in DOMAIN mem.assigned /\ mem.assigned[d] = settled[d]
    BY <1>1 DEF kept, Sound, KeepsSettled
  <2>5. KeepsSettled(mem', settled')
    BY <1>4, <1>5, <2>3, <2>4 DEF KeepsSettled, kept
  <2> QED
    BY <2>1, <2>2, <2>5 DEF Sound
<1>8. \A f : Sound(f, issued, settled) => Sound(f, issued, settled')
  BY <1>4 DEF Sound, KeepsSettled
<1>9. SurvivorsSound' /\ MemorySound' /\ UndoSound'
  BY <1>2, <1>7, <1>8 DEF IInv, SurvivorsSound, MemorySound, UndoSound, Assigning
<1>10. FilesHoldMemory'
  <2>1. \A f \in survivors : Holds(f, mem)
    BY DEF ForgetStage, IInv, FilesHoldMemory
  <2> QED
    BY <1>2, <1>3, <1>5, <2>1 DEF FilesHoldMemory, Holds
<1>11. RenamedIsMemory' /\ CallIsAssigned' /\ AidsNeverShared'
  BY <1>2 DEF IInv, RenamedIsMemory, CallIsAssigned, Assigning, AidsNeverShared
<1> QED
  BY <1>6, <1>9, <1>10, <1>11 DEF IInv

\* Publish: every number served is held by each version of the file, in the
\* entry of the device it is served for.
LEMMA PublishKeeps ==
  ASSUME IInv, Publish
  PROVE  IInv'
<1> DEFINE new == {[aid |-> mem.assigned[d].aid, device |-> d, shape |-> call[d]] :
                     d \in DOMAIN call}
<1>1. IsBook(mem) /\ Sound(mem, issued, settled)
  BY DEF Publish, IInv, TypeOK, MemorySound
<1>2. /\ \A d \in DOMAIN call : d \in DOMAIN mem.assigned /\ mem.assigned[d].shape = call[d]
      /\ \A f \in survivors : Holds(f, mem) /\ Sound(f, issued, settled)
  BY DEF Publish, IInv, CallIsAssigned, FilesHoldMemory, SurvivorsSound
<1>3. DOMAIN call \subseteq Devices /\ call \in [DOMAIN call -> Shapes]
  BY DEF IInv, TypeOK, IsPartial
<1>4. \A d \in DOMAIN mem.assigned : mem.assigned[d] \in Entry
  BY <1>1 DEF IsBook, IsPartial
<1>5. \A d \in DOMAIN call : mem.assigned[d].aid \in Nat /\ call[d] \in Shapes
  BY <1>2, <1>3, <1>4 DEF Entry
<1>6. issued' = issued \cup new /\ UNCHANGED <<mem, disk, survivors, undo, op, call>>
      /\ pc' = "ready" /\ live' = [d \in DOMAIN call |-> mem.assigned[d].aid]
  BY DEF Publish
<1>7. /\ settled' = [d \in DOMAIN settled \cup DOMAIN call |-> settled'[d]]
      /\ \A d \in DOMAIN call : settled'[d] = [aid |-> mem.assigned[d].aid, shape |-> call[d]]
      /\ \A d \in DOMAIN settled \ DOMAIN call : settled'[d] = settled[d]
  BY DEF Publish
<1>8. \A d \in DOMAIN call : mem.assigned[d] = settled'[d]
  BY <1>2, <1>4, <1>7 DEF Entry
<1>9. TypeOK'
  <2>1. issued' \subseteq [aid : Nat, device : Devices, shape : Shapes]
    BY <1>3, <1>5, <1>6 DEF IInv, TypeOK
  <2>2. IsPartial(live', Devices, Nat)
    BY <1>3, <1>5, <1>6 DEF IsPartial
  <2>3. IsPartial(settled', Devices, [aid : Nat, shape : Shapes])
    <3>1. \A d \in DOMAIN call : settled'[d] \in [aid : Nat, shape : Shapes]
      BY <1>5, <1>7
    <3>2. \A d \in DOMAIN settled : settled[d] \in [aid : Nat, shape : Shapes]
      BY DEF IInv, TypeOK, IsPartial
    <3>3. DOMAIN settled \cup DOMAIN call \subseteq Devices
      BY <1>3 DEF IInv, TypeOK, IsPartial
    <3> QED
      BY <1>7, <3>1, <3>2, <3>3 DEF IsPartial
  <2> QED
    BY <1>6, <2>1, <2>2, <2>3 DEF IInv, TypeOK, PCs
<1>10. ASSUME NEW f, Sound(f, issued, settled), Holds(f, mem)
       PROVE  Sound(f, issued', settled')
  <2>1. ASSUME NEW i \in new
        PROVE  /\ i.aid < f.next
               /\ \A d \in DOMAIN f.assigned :
                    f.assigned[d].aid = i.aid => d = i.device /\ f.assigned[d].shape = i.shape
    <3>1. PICK e \in DOMAIN call :
            i = [aid |-> mem.assigned[e].aid, device |-> e, shape |-> call[e]]
      OBVIOUS
    <3>2. e \in DOMAIN f.assigned /\ f.assigned[e] = mem.assigned[e] /\ f.next = mem.next
      BY <1>2, <1>10 DEF Holds
    <3>3. i.aid = f.assigned[e].aid /\ i.device = e /\ i.shape = f.assigned[e].shape
      BY <1>2, <3>1, <3>2
    <3>4. mem.next \in Nat /\ mem.assigned[e].aid \in FirstDeviceAID .. (mem.next - 1)
      BY <1>1, <1>2 DEF Sound, WellFormed, IsBook
    <3> QED
      BY <1>10, <3>2, <3>3, <3>4 DEF Sound, WellFormed, FirstDeviceAID
  <2>2. KnowsIssued(f, issued')
    BY <1>6, <1>10, <2>1 DEF Sound, KnowsIssued
  <2>3. KeepsSettled(f, settled')
    <3>1. \A d \in DOMAIN call : d \in DOMAIN f.assigned /\ f.assigned[d] = settled'[d]
      BY <1>2, <1>8, <1>10 DEF Holds
    <3>2. \A d \in DOMAIN settled : d \in DOMAIN f.assigned /\ f.assigned[d] = settled[d]
      BY <1>10 DEF Sound, KeepsSettled
    <3> QED
      BY <1>7, <3>1, <3>2 DEF KeepsSettled
  <2> QED
    BY <1>10, <2>2, <2>3 DEF Sound
<1>11. SurvivorsSound' /\ MemorySound' /\ UndoSound'
  <2>1. Holds(mem, mem)
    BY DEF Holds
  <2> QED
    BY <1>1, <1>2, <1>6, <1>10, <2>1 DEF SurvivorsSound, MemorySound, UndoSound, Assigning
<1>12. FilesHoldMemory' /\ RenamedIsMemory' /\ CallIsAssigned'
  BY <1>2, <1>6 DEF FilesHoldMemory, RenamedIsMemory, CallIsAssigned, Assigning
<1>13. AidsNeverShared'
  <2>1. \A p \in new : \A q \in issued : p.aid = q.aid => p = q
    <3> SUFFICES ASSUME NEW d \in DOMAIN call, NEW q \in issued, mem.assigned[d].aid = q.aid
                 PROVE  [aid |-> mem.assigned[d].aid, device |-> d, shape |-> call[d]] = q
      OBVIOUS
    <3>1. d = q.device /\ call[d] = q.shape
      BY <1>1, <1>2 DEF Sound, KnowsIssued
    <3>2. q \in [aid : Nat, device : Devices, shape : Shapes]
      BY DEF IInv, TypeOK
    <3> QED
      BY <3>1, <3>2
  <2>2. \A p, q \in new : p.aid = q.aid => p = q
    BY <1>1, <1>2 DEF Sound, WellFormed
  <2> QED
    BY <1>6, <2>1, <2>2 DEF IInv, AidsNeverShared
<1> QED
  BY <1>9, <1>11, <1>12, <1>13 DEF IInv

\* Every step of the registry keeps the invariant.
LEMMA NextKeeps ==
  ASSUME WritebackBeforeRestart, IInv, [Next]_vars
  PROVE  IInv'
<1>1. CASE UNCHANGED vars
  BY <1>1 DEF vars, IInv, TypeOK, SurvivorsSound, MemorySound, UndoSound, FilesHoldMemory,
       RenamedIsMemory, CallIsAssigned, Assigning, Forgetting, AidsNeverShared
<1>2. CASE Next
  BY <1>2, StartKeeps, AssignUnchangedKeeps, AssignStageKeeps, ForgetStageKeeps, RenameKeeps,
     SyncDirKeeps, SaveFailsKeeps, PublishKeeps, ExitKeeps, WritebackKeeps, PowerCutKeeps
     DEF Next
<1> QED
  BY <1>1, <1>2

-----------------------------------------------------------------------------
(* The theorems.                                                           *)

\* The inductive invariant holds in every reachable state.
THEOREM Invariance ==
  ASSUME WritebackBeforeRestart
  PROVE  Spec => []IInv
<1>1. IInv /\ [Next]_vars => IInv'
  BY NextKeeps
<1> QED
  BY <1>1, InitInvariant, PTL DEF Spec

\* Registry's fields and the file keep their types.
THEOREM TypeCorrect ==
  ASSUME WritebackBeforeRestart
  PROVE  Spec => []TypeOK
<1>1. IInv => TypeOK
  BY DEF IInv
<1> QED
  BY <1>1, Invariance, PTL

\* registry.go:29: "every device gets an aid once, keeps it forever": a number
\* that was served never stands for another device or another shape.
THEOREM NumbersNeverShared ==
  ASSUME WritebackBeforeRestart
  PROVE  Spec => []AidsNeverShared
<1>1. IInv => AidsNeverShared
  BY DEF IInv
<1> QED
  BY <1>1, Invariance, PTL

\* registry.go:171: no restart or power cut leaves a file from which a served
\* number could be given to a different device.
THEOREM ServedNumbersAreDurable ==
  ASSUME WritebackBeforeRestart
  PROVE  Spec => []IssuedIsDurable
<1>1. IInv => IssuedIsDurable
  BY LoadIsDisk DEF IInv, SurvivorsSound, Sound, KnowsIssued, IssuedIsDurable
<1> QED
  BY <1>1, Invariance, PTL

\* A device that is neither reshaped nor forgotten keeps the number it was
\* served under.
THEOREM NumbersAreKept ==
  ASSUME WritebackBeforeRestart
  PROVE  Spec => SettledKeepsAid
<1> DEFINE P == \A d \in DOMAIN settled \cap DOMAIN settled' : settled'[d] = settled[d]
<1>1. ASSUME IInv, [Next]_vars PROVE [P]_settled
  <2>1. CASE UNCHANGED settled
    BY <2>1
  <2>2. ASSUME NEW R \in SUBSET DOMAIN settled, settled' = Restrict(settled, R) PROVE P
    BY <2>2 DEF Restrict
  <2>3. ASSUME NEW specs \in Topologies, AssignStage(specs) PROVE P
    BY <2>2, <2>3 DEF AssignStage
  <2>4. ASSUME NEW ids \in SUBSET Devices, ForgetStage(ids) PROVE P
    BY <2>2, <2>4 DEF ForgetStage
  <2>5. ASSUME Publish PROVE P
    <3>1. /\ \A d \in DOMAIN settled : d \in DOMAIN mem.assigned /\ mem.assigned[d] = settled[d]
          /\ IsBook(mem)
          /\ IsPartial(settled, Devices, [aid : Nat, shape : Shapes])
      BY <1>1, <2>5 DEF Publish, IInv, TypeOK, MemorySound, Sound, KeepsSettled
    <3>2. \A d \in DOMAIN call : mem.assigned[d].shape = call[d]
      BY <1>1, <2>5 DEF Publish, IInv, CallIsAssigned
    <3> SUFFICES ASSUME NEW d \in DOMAIN settled PROVE settled'[d] = settled[d]
      OBVIOUS
    <3>3. settled[d] \in [aid : Nat, shape : Shapes]
      BY <3>1 DEF IsPartial
    <3>4. CASE d \in DOMAIN call
      BY <2>5, <3>1, <3>2, <3>3, <3>4 DEF Publish
    <3>5. CASE d \notin DOMAIN call
      BY <2>5, <3>5 DEF Publish
    <3> QED
      BY <3>4, <3>5
  <2>6. CASE Next
    BY <2>1, <2>3, <2>4, <2>5, <2>6 DEF Next, Start, AssignUnchanged, Rename, SyncDir,
       SaveFails, Exit, Writeback, PowerCut
  <2>7. CASE UNCHANGED vars
    BY <2>7 DEF vars
  <2> QED
    BY <1>1, <2>6, <2>7
<1> QED
  BY <1>1, Invariance, PTL DEF Spec, SettledKeepsAid

\* The registry implements the abstract promise about accessory ids: what it
\* serves is always admissible, and nothing else it does is visible.
THEOREM Refinement ==
  ASSUME WritebackBeforeRestart
  PROVE  Spec => ImplementsAccessoryIds
<1>1. Init => Ids!Init
  BY DEF Init, Ids!Init, Nothing
<1>2. ASSUME IInv, [Next]_vars PROVE [Ids!Next]_Ids!vars
  <2>1. CASE UNCHANGED <<issued, live>>
    BY <2>1 DEF Ids!vars
  <2>2. ASSUME Publish PROVE Ids!Next
    <3>1. IsBook(mem) /\ Sound(mem, issued, settled)
      BY <1>2, <2>2 DEF Publish, IInv, TypeOK, MemorySound
    <3>2. \A d \in DOMAIN call : d \in DOMAIN mem.assigned /\ mem.assigned[d].shape = call[d]
      BY <1>2, <2>2 DEF Publish, IInv, CallIsAssigned
    <3>3. call \in Ids!Topologies
      BY <1>2 DEF IInv, TypeOK, IsPartial, Ids!Topologies
    <3>4. live' = [d \in DOMAIN call |-> mem.assigned[d].aid]
      BY <2>2 DEF Publish
    <3>5. live' \in [DOMAIN call -> Nat]
      BY <3>1, <3>2, <3>4 DEF IsBook, IsPartial, Entry
    <3>6. \A d, e \in DOMAIN call : live'[d] = live'[e] => d = e
      BY <3>1, <3>2, <3>4 DEF Sound, WellFormed
    <3>7. \A d \in DOMAIN call : live'[d] >= Ids!FirstDeviceAID
      BY <3>1, <3>2, <3>4, <3>5 DEF Sound, WellFormed, FirstDeviceAID, Ids!FirstDeviceAID, IsBook
    <3>8. \A d \in DOMAIN call : Ids!Admissible(Ids!Binding(live'[d], d, call[d]))
      <4> SUFFICES ASSUME NEW d \in DOMAIN call, NEW i \in issued, i.aid = live'[d]
                   PROVE  Ids!Binding(live'[d], d, call[d]) \in issued
        BY DEF Ids!Admissible, Ids!Binding
      <4>1. d = i.device /\ call[d] = i.shape
        BY <3>1, <3>2, <3>4 DEF Sound, KnowsIssued
      <4>2. i \in [aid : Nat, device : Devices, shape : Shapes]
        BY <1>2 DEF IInv, TypeOK
      <4> QED
        BY <4>1, <4>2 DEF Ids!Binding
    <3>9. issued' = issued \cup {Ids!Binding(live'[d], d, call[d]) : d \in DOMAIN call}
      BY <2>2, <3>4 DEF Publish, Ids!Binding
    <3>10. Ids!Publish(call, live')
      BY <3>5, <3>6, <3>7, <3>8, <3>9 DEF Ids!Publish
    <3> QED
      BY <3>3, <3>10 DEF Ids!Next
  <2>3. ASSUME Exit \/ PowerCut PROVE Ids!Next
    BY <2>3 DEF Exit, PowerCut, Nothing, Ids!Next, Ids!Stop
  <2>4. CASE Next
    BY <2>1, <2>2, <2>3, <2>4 DEF Next, Start, AssignUnchanged, AssignStage, ForgetStage,
       Rename, SyncDir, SaveFails, Writeback
  <2>5. CASE UNCHANGED vars
    BY <2>5 DEF vars, Ids!vars
  <2> QED
    BY <1>2, <2>4, <2>5
<1> QED
  BY <1>1, <1>2, Invariance, PTL DEF Spec, ImplementsAccessoryIds, Ids!Spec
=============================================================================
