-------------------------------- MODULE Link --------------------------------
(***************************************************************************)
(* Which accessories HomeKit is told are Not Responding: Syncer.reachable  *)
(* and failures (internal/bridge/sync.go) and the offline flag of every    *)
(* accessory (accessory.go).                                               *)
(*                                                                         *)
(* The poll goroutine and the flush goroutines of the accessories run      *)
(* markReachable and markUnreachable.  Only their first lines hold s.mu;   *)
(* the loop over the accessories comes after, a step per accessory, and    *)
(* any other goroutine may run in between.  What they tell Bridge Health   *)
(* is in Health.tla, when a rebuild is ordered in Supervisor.tla.          *)
(***************************************************************************)
EXTENDS Naturals

CONSTANTS Devices,        \* device ids of the home
          Writers,        \* those whose accessory may be written by HomeKit
          UnhealthyAfter, \* config.Config.UnhealthyAfter
          HomeChanges     \* TRUE: devices may go offline, and answers leave them out

Goroutines == {"poll"} \cup Writers

ASSUME WritersAssumption == Writers \subseteq Devices /\ "poll" \notin Devices
ASSUME ThresholdAssumption == UnhealthyAfter \in Nat \ {0} /\ HomeChanges \in BOOLEAN

Clouds == {"up", "refusing", "down"}

VARIABLES cloud,     \* "up": requests are answered; "refusing": reads are, and
                     \* a write is or gets an HTTP error; "down": none is
          account,   \* the devices user/info lists
          ownState,  \* the devices GET /devices/{id} reports as offline
          reachable, \* Syncer.reachable
          failures,  \* Syncer.failures, up to UnhealthyAfter: one more failure
                     \* changes nothing
          linked,    \* the device ids in Syncer.accessories
          offline,   \* those whose accessory has offline set
          windows,   \* those with a confirmation window on that accessory
          rebuild,   \* {S} once the supervisor is to serve the device set S
          listed,    \* the answer the running pollOnce works on
          task       \* what each goroutine is doing, see Task

world == <<cloud, account, ownState>>
link  == <<reachable, failures>>
vars  == <<world, link, linked, offline, windows, rebuild, listed, task>>

\* The loop a goroutine is in, and the accessories it has still to visit.
Task == [at : {"idle", "clearing", "marking", "missing"}, todo : SUBSET Devices]

Idle == [at |-> "idle", todo |-> {}]

Does(g, loop, devices) == task' = [task EXCEPT ![g] = [at |-> loop, todo |-> devices]]

Init ==
  /\ cloud \in Clouds
  /\ account = Devices /\ ownState = {}
  /\ reachable = TRUE /\ failures = 0
  /\ linked = {} /\ offline = {} /\ windows = {}
  /\ rebuild = {account}
  /\ listed = {}
  /\ task = [g \in Goroutines |-> Idle]

-----------------------------------------------------------------------------
(* The world around the bridge.                                            *)

CloudChanges ==
  /\ cloud' \in Clouds \ {cloud}
  /\ UNCHANGED <<account, ownState, link, linked, offline, windows, rebuild, listed, task>>

\* Devices are removed and added, or Yandex answers with part of the list.
AccountChanges ==
  /\ HomeChanges
  /\ account' \in SUBSET Devices \ {account}
  /\ UNCHANGED <<cloud, ownState, link, linked, offline, windows, rebuild, listed, task>>

DeviceChanges ==
  /\ HomeChanges
  /\ \E d \in Writers : ownState' = IF d \in ownState THEN ownState \ {d}
                                                      ELSE ownState \cup {d}
  /\ UNCHANGED <<cloud, account, link, linked, offline, windows, rebuild, listed, task>>

-----------------------------------------------------------------------------
(* markReachable and markUnreachable, the part under s.mu.                 *)

\* Accessories are visited only if Yandex was down.
MarkReachable(g) ==
  /\ reachable' = TRUE /\ failures' = 0
  /\ Does(g, "clearing", IF reachable THEN {} ELSE linked)

\* Accessories are visited only from UnhealthyAfter failures on.
MarkUnreachable(g) ==
  LET count == IF failures < UnhealthyAfter THEN failures + 1 ELSE failures IN
  /\ reachable' = FALSE /\ failures' = count
  /\ Does(g, "marking", IF count >= UnhealthyAfter THEN linked ELSE {})

\* One SetUnreachable of a loop; Go visits a map in any order.
SetUnreachable(g) ==
  /\ \E d \in task[g].todo :
       /\ offline' = IF task[g].at = "clearing" THEN offline \ {d} ELSE offline \cup {d}
       /\ task' = [task EXCEPT ![g].todo = @ \ {d}]
  /\ UNCHANGED <<world, link, linked, windows, rebuild, listed>>

\* mutant: the devices missing from the answer are not looked for
NoneMissing == {}

\* The accessories, read under s.mu a second time, that the answer left out.
Missing == linked \ listed

\* The loop is over.  pollOnce goes on to the devices its answer left out; a
\* failed poll and a write are done.
LoopEnds(g) ==
  /\ task[g].at \in {"clearing", "marking"} /\ task[g].todo = {}
  /\ IF g = "poll" /\ task[g].at = "clearing" THEN Does(g, "missing", Missing)
                                              ELSE Does(g, "idle", {})
  /\ UNCHANGED <<world, link, linked, offline, windows, rebuild, listed>>

-----------------------------------------------------------------------------
(* pollOnce.                                                               *)

\* UserInfo fails.
PollFails ==
  /\ task["poll"].at = "idle" /\ cloud = "down"
  /\ MarkUnreachable("poll")
  /\ UNCHANGED <<world, linked, offline, windows, rebuild, listed>>

\* UserInfo answers.  The answer carries no device's own state, so the Apply
\* of the devices it lists leaves offline alone.
PollSucceeds ==
  /\ task["poll"].at = "idle" /\ cloud # "down"
  /\ MarkReachable("poll")
  /\ listed' = account
  /\ UNCHANGED <<world, linked, offline, windows, rebuild>>

\* Last, pollOnce calls onPoll, which may order a rebuild when the answer is
\* not what is served.
PollDone ==
  /\ task["poll"].at = "missing" /\ task["poll"].todo = {}
  /\ rebuild' \in {rebuild} \cup (IF listed = linked THEN {} ELSE {{listed}})
  /\ Does("poll", "idle", {})
  /\ listed' = {}
  /\ UNCHANGED <<world, link, linked, offline, windows>>

-----------------------------------------------------------------------------
(* Syncer.Apply on a flush goroutine, and the confirmation windows.        *)

\* Act fails in transport, or with an HTTP status while polls are answered.
WriteFails(d) ==
  /\ d \in linked
  /\ task[d].at = "idle" /\ cloud # "up"
  /\ MarkUnreachable(d)
  /\ UNCHANGED <<world, linked, offline, windows, rebuild, listed>>

\* Act is answered: with success, which opens a confirmation window unless one
\* runs or the queue is full, or with a DeviceError, which opens none.
WriteAnswered(d) ==
  /\ d \in linked
  /\ task[d].at = "idle" /\ cloud # "down"
  /\ MarkReachable(d)
  /\ windows' \in {windows, windows \cup {d}}
  /\ UNCHANGED <<world, linked, offline, rebuild, listed>>

\* A confirmation read: the one answer that carries a device's own state.
ConfirmRead(d) ==
  /\ d \in windows
  /\ cloud # "down" /\ d \in account
  /\ offline' = IF d \in ownState THEN offline \cup {d} ELSE offline \ {d}
  /\ UNCHANGED <<world, link, linked, windows, rebuild, listed, task>>

\* The window closes, or a read of it fails.
ConfirmEnds(d) ==
  /\ d \in windows
  /\ windows' = windows \ {d}
  /\ UNCHANGED <<world, link, linked, offline, rebuild, listed, task>>

\* serve: SetAccessories.  Loops and windows that still run work on
\* accessories that HomeKit no longer reads.
SetAccessories ==
  /\ \E S \in rebuild : linked' = S
  /\ rebuild' = {}
  /\ offline' = {} /\ windows' = {}
  /\ task' = [g \in Goroutines |-> [task[g] EXCEPT !.todo = {}]]
  /\ UNCHANGED <<world, link, listed>>

-----------------------------------------------------------------------------
Next ==
  \/ CloudChanges
  \/ AccountChanges
  \/ DeviceChanges
  \/ \E g \in Goroutines : SetUnreachable(g)
  \/ \E g \in Goroutines : LoopEnds(g)
  \/ PollFails
  \/ PollSucceeds
  \/ PollDone
  \/ \E d \in Writers : WriteFails(d)
  \/ \E d \in Writers : WriteAnswered(d)
  \/ \E d \in Writers : ConfirmRead(d)
  \/ \E d \in Writers : ConfirmEnds(d)
  \/ SetAccessories

Spec == Init /\ [][Next]_vars

\* The poll ticker fires for ever, every request ends (the client has
\* timeouts), and no goroutine is starved.  Nothing makes a user write.
Fairness ==
  /\ WF_vars(PollFails \/ PollSucceeds)
  /\ WF_vars(PollDone)
  /\ WF_vars(SetAccessories)
  /\ \A g \in Goroutines : WF_vars(SetUnreachable(g) \/ LoopEnds(g))

FairSpec == Spec /\ Fairness

-----------------------------------------------------------------------------
(* Properties.                                                             *)

\* The fields keep their types; reachable and failures, written together under
\* s.mu, tell the same story; only accessories that are served are marked.
TypeOK ==
  /\ cloud \in Clouds
  /\ {account, ownState, linked, listed} \subseteq SUBSET Devices
  /\ failures \in 0 .. UnhealthyAfter
  /\ reachable = (failures = 0)
  /\ offline \subseteq linked /\ windows \subseteq linked
  /\ rebuild = {} \/ \E S \in SUBSET Devices : rebuild = {S}
  /\ task \in [Goroutines -> Task]
  /\ \A g \in Goroutines : task[g].todo \subseteq linked

\* readGuard answers with a value.
Responding(d) == reachable /\ d \notin offline

\* A device that stays out of every answer while its accessory is served ends
\* up Not Responding for good (sync.go:239-242), although writes, recoveries
\* and windows clear the flag.
VanishedIsShown ==
  \A d \in Devices :
    <>[](cloud = "up" /\ d \notin account /\ d \in linked) => <>[](~Responding(d))

\* When Yandex answers again, every device it lists that is not itself offline
\* responds again (README.md:430-431: the network returns and everything
\* recovers without a restart).
PresentRecovers ==
  \A d \in Devices :
    <>[](cloud = "up" /\ d \in account \ ownState /\ d \in linked) => <>[]Responding(d)

\* "a single lost request should not grey out the whole house in the Home app"
\* (sync.go:340-342): below the threshold a device that is not marked itself
\* keeps responding.  It does not: readGuard asks for reachable, too, which the
\* first failure clears.
BlipIsHidden ==
  failures < UnhealthyAfter => \A d \in linked \ offline : Responding(d)
=============================================================================
