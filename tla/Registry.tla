------------------------------ MODULE Registry ------------------------------
(***************************************************************************)
(* The accessory-id registry of internal/bridge/registry.go together with  *)
(* the file it is kept in (internal/atomicfile) and the supervisor that    *)
(* serves the ids it returns.                                              *)
(*                                                                         *)
(* A save is several system calls, so it is several steps here, with a     *)
(* failure, a crash or a power cut possible between any two.  `disk' is    *)
(* what a reader of aids.json would get now; `survivors' are the versions  *)
(* one of which a power cut leaves behind: a rename is only durable once   *)
(* the directory has been fsynced.                                         *)
(***************************************************************************)
EXTENDS Integers, FiniteSets, Functions

CONSTANTS Devices,      \* device ids; their order stands for string order
          Shapes,       \* values of Spec.ShapeHash
          NoShape,      \* the empty shape of a version 1 entry
          LegacyFiles,  \* aids.json as version 1 of the bridge left it
          MaxAID,       \* bound on the numbers handed out
          WritebackBeforeRestart
                        \* TRUE: a renamed aids.json reaches the platter before
                        \* the next process starts, fsynced or not

FirstDeviceAID == 3

IsPartial(f, S, T) == DOMAIN f \subseteq S /\ f \in [DOMAIN f -> T]

Entry == [aid : Nat, shape : Shapes \cup {NoShape}]

\* registryFile, and the two fields of Registry it is saved from.
IsBook(b) ==
  /\ b = [next |-> b.next, assigned |-> b.assigned]
  /\ b.next \in Nat
  /\ IsPartial(b.assigned, Devices, Entry)

\* A fresh registry; on disk it stands for a missing aids.json, which is read
\* as one.
EmptyBook == [next |-> FirstDeviceAID, assigned |-> [d \in {} |-> 0]]

ASSUME DevicesAssumption == Devices \subseteq Nat /\ IsFiniteSet(Devices)
ASSUME ShapesAssumption  == NoShape \notin Shapes
ASSUME BoundAssumption   == MaxAID \in Nat /\ WritebackBeforeRestart \in BOOLEAN
ASSUME LegacyAssumption  ==
  \A f \in LegacyFiles :
    /\ IsBook(f)
    /\ f.next >= FirstDeviceAID
    /\ \A d \in DOMAIN f.assigned :
         /\ f.assigned[d].aid \in FirstDeviceAID .. (f.next - 1)
         /\ f.assigned[d].shape = NoShape
         /\ \A e \in DOMAIN f.assigned :
              f.assigned[d].aid = f.assigned[e].aid => d = e

VARIABLES pc,         \* where the process is, see PCs
          mem,        \* Registry.next and Registry.assigned
          disk,       \* contents of aids.json
          survivors,  \* what aids.json may contain after a power cut
          undo,       \* the memory an Assign rolls back to
          op,         \* which call is saving: Assign or Forget
          call,       \* the specs of that Assign: device |-> shape
          live,       \* device |-> aid in the running HAP server
          issued,     \* history: every binding ever served
          settled     \* history: device |-> entry it was last served under,
                      \* dropped when it is reshaped or forgotten

vars == <<pc, mem, disk, survivors, undo, op, call, live, issued, settled>>

PCs == {"down", "ready", "staged", "renamed", "assigned", "failed"}

Topologies == UNION {[D -> Shapes] : D \in SUBSET Devices}

Nothing == [d \in {} |-> 0]

-----------------------------------------------------------------------------
(* Reading the file.                                                       *)

AIDsOf(f) == {f.assigned[d].aid : d \in DOMAIN f.assigned}

\* The smallest watermark above the stored one and every stored aid.
Watermark(f) ==
  LET low == {FirstDeviceAID, f.next} \cup {a + 1 : a \in AIDsOf(f)}
  IN  CHOOSE n \in low : \A m \in low : m <= n

\* mutant: the stored watermark is not trusted
LoadIgnoringNext(f) ==
  LET low == {FirstDeviceAID} \cup {a + 1 : a \in AIDsOf(f)}
  IN  [f EXCEPT !.next = CHOOSE n \in low : \A m \in low : m <= n]

LoadRegistry(f) == [f EXCEPT !.next = Watermark(f)]

-----------------------------------------------------------------------------
(* Assign, computed on the registry in memory.                             *)

\* mutant: a device missing from the running server counts as new
FreshWhenNotServed(specs) ==
  {d \in DOMAIN specs : d \notin DOMAIN live}

\* Devices that get a number: unknown ones and those whose shape changed.
Fresh(specs) ==
  {d \in DOMAIN specs :
     d \in DOMAIN mem.assigned => mem.assigned[d].shape \notin {NoShape, specs[d]}}

\* Entries without a shape keep their number and learn the shape.
Adopted(specs) ==
  {d \in DOMAIN specs \cap DOMAIN mem.assigned : mem.assigned[d].shape = NoShape}

\* mutant: r.next is advanced only once per call
RankZero(d, S) == 0

\* Numbers are given out in device id order.
Rank(d, S) == Cardinality({c \in S : c < d})

\* mutant: entries are kept in the version 1 layout, without a shape
AfterAssignVersion1(specs) ==
  LET fresh == Fresh(specs)
      entryOf(d) == IF d \in fresh THEN [aid |-> mem.next + Rank(d, fresh)]
                                   ELSE mem.assigned[d]
  IN  [next     |-> mem.next + Cardinality(fresh),
       assigned |-> [d \in DOMAIN mem.assigned \cup DOMAIN specs |-> entryOf(d)]]

AfterAssign(specs) ==
  LET fresh == Fresh(specs)
      entryOf(d) ==
        CASE d \in fresh -> [aid |-> mem.next + Rank(d, fresh), shape |-> specs[d]]
          [] d \in Adopted(specs) -> [mem.assigned[d] EXCEPT !.shape = specs[d]]
          [] OTHER -> mem.assigned[d]
  IN  [next     |-> mem.next + Cardinality(fresh),
       assigned |-> [d \in DOMAIN mem.assigned \cup DOMAIN specs |-> entryOf(d)]]

-----------------------------------------------------------------------------
Init ==
  /\ pc = "down"
  /\ mem = EmptyBook
  /\ disk \in {EmptyBook} \cup LegacyFiles
  /\ survivors = {disk}
  /\ undo = EmptyBook
  /\ op = "assign"
  /\ call = Nothing
  /\ live = Nothing
  /\ issued = {}
  /\ settled = Nothing

\* main.run: the registry is loaded before anything is served.
Start ==
  /\ pc = "down"
  /\ WritebackBeforeRestart => survivors = {disk}
  /\ mem' = LoadRegistry(disk)
  /\ pc' = "ready"
  /\ UNCHANGED <<disk, survivors, undo, op, call, live, issued, settled>>

\* Assign with len(changes) = 0: nothing is written.
AssignUnchanged(specs) ==
  /\ pc = "ready"
  /\ Fresh(specs) \cup Adopted(specs) = {}
  /\ call' = specs
  /\ pc' = "assigned"
  /\ UNCHANGED <<mem, disk, survivors, undo, op, live, issued, settled>>

\* Assign with changes: memory first, then the new file under its temporary
\* name, fsynced.
AssignStage(specs) ==
  /\ pc = "ready"
  /\ Fresh(specs) \cup Adopted(specs) # {}
  /\ AfterAssign(specs).next <= MaxAID
  /\ mem' = AfterAssign(specs)
  /\ undo' = mem
  /\ op' = "assign"
  /\ call' = specs
  /\ settled' = Restrict(settled, {d \in DOMAIN settled :
                     d \in DOMAIN specs => specs[d] = settled[d].shape})
  /\ pc' = "staged"
  /\ UNCHANGED <<disk, survivors, live, issued>>

\* Forget(ids) of at least one known device; next is left alone.
ForgetStage(ids) ==
  /\ pc = "ready"
  /\ ids \cap DOMAIN mem.assigned # {}
  /\ mem' = [mem EXCEPT !.assigned = Restrict(@, DOMAIN @ \ ids)]
  /\ op' = "forget"
  /\ settled' = Restrict(settled, DOMAIN settled \ ids)
  /\ pc' = "staged"
  /\ UNCHANGED <<disk, survivors, undo, call, live, issued>>

\* os.Rename(tmp, path): readers see the new file at once, a power cut may not.
Rename ==
  /\ pc = "staged"
  /\ disk' = mem
  /\ survivors' = survivors \cup {mem}
  /\ pc' = "renamed"
  /\ UNCHANGED <<mem, undo, op, call, live, issued, settled>>

\* mutant: the directory is not fsynced
SyncDirSkipped ==
  /\ pc = "renamed"
  /\ pc' = IF op = "assign" THEN "assigned" ELSE "ready"
  /\ UNCHANGED <<mem, disk, survivors, undo, op, call, live, issued, settled>>

\* SyncDir succeeds and with it the save.
SyncDir ==
  /\ pc = "renamed"
  /\ survivors' = {disk}
  /\ pc' = IF op = "assign" THEN "assigned" ELSE "ready"
  /\ UNCHANGED <<mem, disk, undo, op, call, live, issued, settled>>

\* Any call of the save fails: before the rename (mkdir, create, write, fsync,
\* rename) or after it (SyncDir).  Assign rolls memory back and its caller
\* gives up; Forget only returns the error.
SaveFails ==
  /\ pc \in {"staged", "renamed"}
  /\ IF op = "assign"
       THEN mem' = undo /\ pc' = "failed"
       ELSE mem' = mem /\ pc' = "ready"
  /\ UNCHANGED <<disk, survivors, undo, op, call, live, issued, settled>>

\* Supervisor.serve hands the accessories to hap, each with its aid.
Publish ==
  /\ pc = "assigned"
  /\ live' = [d \in DOMAIN call |-> mem.assigned[d].aid]
  /\ issued' = issued \cup
       {[aid |-> mem.assigned[d].aid, device |-> d, shape |-> call[d]] :
          d \in DOMAIN call}
  /\ settled' = [d \in DOMAIN settled \cup DOMAIN call |->
                   IF d \in DOMAIN call
                     THEN [aid |-> mem.assigned[d].aid, shape |-> call[d]]
                     ELSE settled[d]]
  /\ pc' = "ready"
  /\ UNCHANGED <<mem, disk, survivors, undo, op, call>>

\* The kernel writes the directory back in its own time.
Writeback ==
  /\ survivors # {disk}
  /\ survivors' = {disk}
  /\ UNCHANGED <<pc, mem, disk, undo, op, call, live, issued, settled>>

\* The process ends: an orderly stop, a failed Assign that ends
\* Supervisor.Run, or a crash at any point.  The page cache survives.
Exit ==
  /\ pc # "down"
  /\ pc' = "down"
  /\ mem' = EmptyBook
  /\ live' = Nothing
  /\ UNCHANGED <<disk, survivors, undo, op, call, issued, settled>>

\* The machine loses power: aids.json is one of the versions that may survive.
PowerCut ==
  /\ \E f \in survivors : disk' = f /\ survivors' = {f}
  /\ pc' = "down"
  /\ mem' = EmptyBook
  /\ live' = Nothing
  /\ UNCHANGED <<undo, op, call, issued, settled>>

Next ==
  \/ Start
  \/ \E specs \in Topologies : AssignUnchanged(specs)
  \/ \E specs \in Topologies : AssignStage(specs)
  \/ \E ids \in SUBSET Devices : ForgetStage(ids)
  \/ Rename
  \/ SyncDir
  \/ SaveFails
  \/ Publish
  \/ Exit
  \/ Writeback
  \/ PowerCut

Spec == Init /\ [][Next]_vars

-----------------------------------------------------------------------------
(* Properties.                                                             *)

\* Every variable keeps the type Registry's fields and aids.json have.
TypeOK ==
  /\ pc \in PCs
  /\ IsBook(mem) /\ IsBook(disk) /\ IsBook(undo)
  /\ disk \in survivors
  /\ \A f \in survivors : IsBook(f)
  /\ op \in {"assign", "forget"}
  /\ IsPartial(call, Devices, Shapes)
  /\ IsPartial(live, Devices, Nat)
  /\ issued \subseteq [aid : Nat, device : Devices, shape : Shapes]
  /\ IsPartial(settled, Devices, [aid : Nat, shape : Shapes])

\* A number that was ever served stands for one device in one shape for ever,
\* whatever saves failed and whatever crashes came in between: HomeKit would
\* otherwise give a stranger's room and automations to the new accessory
\* (registry.go:17-30, "every device gets an aid once, keeps it forever").
AidsNeverShared == \A p, q \in issued : p.aid = q.aid => p = q

\* Whatever a restart or a power cut leaves of aids.json still knows every
\* served number: it lies below the watermark, and if an entry holds it, the
\* entry is that device's, in that shape (registry.go:171, "The file is written
\* before the aids are returned").
IssuedIsDurable ==
  \A f \in survivors : \A i \in issued :
    LET b == LoadRegistry(f) IN
    /\ i.aid < b.next
    /\ \A d \in DOMAIN b.assigned :
         b.assigned[d].aid = i.aid => d = i.device /\ b.assigned[d].shape = i.shape

\* A device that goes missing and comes back, or is served again after a
\* restart, keeps its number as long as nobody asked for it in another shape or
\* forgot it (registry.go:31, README: devices keep rooms and automations).
SettledKeepsAid ==
  [][\A d \in DOMAIN settled \cap DOMAIN settled' : settled'[d] = settled[d]]_settled

\* The registry implements the abstract promise.
Ids == INSTANCE AccessoryIds
ImplementsAccessoryIds == Ids!Spec
=============================================================================
