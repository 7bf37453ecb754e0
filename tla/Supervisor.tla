----------------------------- MODULE Supervisor -----------------------------
(***************************************************************************)
(* The topology gate of internal/bridge/supervisor.go: which device set    *)
(* HomeKit is shown, and when it is replaced.  Two goroutines share it:    *)
(* the syncer's, which hands every successful poll to observePoll, and     *)
(* Run, which builds and restarts the HAP server.  They meet in current    *)
(* (under s.mu) and in the one-slot channel rebuild.                       *)
(*                                                                         *)
(* A topology is a value of TopologyHash; specs and hash are one here.     *)
(***************************************************************************)
EXTENDS Naturals

CONSTANTS Topologies,            \* device sets UserInfo may answer with
          None,                  \* the empty hash, the empty channel
          TopologyConfirmations  \* config.Config.TopologyConfirmations

ASSUME TopologiesAssumption == None \notin Topologies
ASSUME ConfirmationsAssumption == TopologyConfirmations \in Nat \ {0}

VARIABLES answer,        \* what UserInfo would return now
          current,       \* Supervisor.current
          candidate,     \* Supervisor.candidate
          candidateSeen, \* Supervisor.candidateSeen
          rebuild,       \* Supervisor.rebuild: the queued set or None
          sending,       \* the set observePoll is about to queue, holding s.mu
          runPC,         \* where Run is, see RunPCs
          specs,         \* Run's local specs
          served,        \* the set the running HAP server was built from
          agreed,        \* history: the answer of the last successful poll ...
          agreement,     \* ... how many polls in a row gave it, at most
                         \* TopologyConfirmations ...
          confirmed,     \* ... and the set last given by that many in a row
          overtaken      \* history: Run's first answer replaced, as current,
                         \* another set that polls had confirmed and queued
                         \* before it, and none was confirmed since

pollVars == <<candidate, candidateSeen, sending>>
runVars  == <<runPC, specs, served>>
history  == <<agreed, agreement, confirmed>>
vars     == <<answer, current, rebuild, pollVars, runVars, history, overtaken>>

RunPCs == {"initial", "fetched", "building", "serving", "exited"}

Init ==
  /\ answer \in Topologies
  /\ current = None /\ candidate = None /\ candidateSeen = 0
  /\ rebuild = None /\ sending = None
  /\ runPC = "initial" /\ specs = None /\ served = None
  /\ agreed = None /\ agreement = 0 /\ confirmed = None
  /\ overtaken = FALSE

-----------------------------------------------------------------------------
(* The smart home and the poll goroutine.                                  *)

\* Devices come and go, or Yandex answers with part of the list.
Change ==
  /\ answer' \in Topologies \ {answer}
  /\ UNCHANGED <<current, rebuild, pollVars, runVars, history, overtaken>>

\* A poll that succeeds while the process runs; it calls observePoll, which
\* takes s.mu.
Poll == runPC # "exited" /\ sending = None

Record ==
  /\ agreed' = answer
  /\ agreement' = IF answer # agreed THEN 1
                  ELSE IF agreement < TopologyConfirmations THEN agreement + 1
                  ELSE agreement
  /\ confirmed' = IF agreement' = TopologyConfirmations THEN answer ELSE confirmed

\* observePoll sees what is already running.
ObserveCurrent ==
  /\ Poll
  /\ answer = current
  /\ candidate' = None /\ candidateSeen' = 0
  /\ Record
  /\ UNCHANGED <<answer, current, rebuild, sending, runVars, overtaken>>

\* mutant: candidateSeen is not reset when the candidate changes
SeenWithoutReset == candidateSeen + 1

\* candidateSeen after this poll: a new candidate starts from zero.
Seen == IF answer # candidate THEN 1 ELSE candidateSeen + 1

\* mutant: the count goes on past the threshold
ObserveCandidateForEver ==
  /\ Poll
  /\ answer # current
  /\ candidate' = answer /\ candidateSeen' = Seen
  /\ Record
  /\ UNCHANGED <<answer, current, rebuild, sending, runVars, overtaken>>

\* observePoll sees a difference that too few polls agree on.
ObserveCandidate ==
  /\ Poll
  /\ answer # current
  /\ Seen < TopologyConfirmations
  /\ candidate' = answer /\ candidateSeen' = Seen
  /\ Record
  /\ UNCHANGED <<answer, current, rebuild, sending, runVars, overtaken>>

\* mutant: the queue is not drained first
ConfirmWithoutDrain ==
  /\ Poll
  /\ answer # current
  /\ Seen >= TopologyConfirmations
  /\ sending' = answer
  /\ overtaken' = FALSE
  /\ Record
  /\ UNCHANGED <<answer, current, rebuild, candidate, candidateSeen, runVars>>

\* observePoll has its confirmation: it empties the channel ...
ObserveConfirmed ==
  /\ Poll
  /\ answer # current
  /\ Seen >= TopologyConfirmations
  /\ rebuild' = None
  /\ sending' = answer
  /\ overtaken' = FALSE
  /\ Record
  /\ UNCHANGED <<answer, current, candidate, candidateSeen, runVars>>

\* mutant: current is left to the run loop
SendWithoutCurrent ==
  /\ sending # None
  /\ rebuild = None
  /\ rebuild' = sending
  /\ sending' = None
  /\ candidate' = None /\ candidateSeen' = 0
  /\ UNCHANGED <<answer, current, runVars, history, overtaken>>

\* ... sends, which blocks on a full channel, and takes the set as current.
Send ==
  /\ sending # None
  /\ rebuild = None
  /\ rebuild' = sending
  /\ current' = sending
  /\ sending' = None
  /\ candidate' = None /\ candidateSeen' = 0
  /\ UNCHANGED <<answer, runVars, history, overtaken>>

-----------------------------------------------------------------------------
(* Run.                                                                    *)

\* initialSpecs gets an answer; until then it backs off, up to two minutes, and
\* tries again while the poll goroutine runs (what a failed attempt reports is
\* in module Health).
InitialSpecs ==
  /\ runPC = "initial"
  /\ specs' = answer
  /\ runPC' = "fetched"
  /\ UNCHANGED <<answer, current, rebuild, pollVars, served, history, overtaken>>

\* current = TopologyHash(specs), under s.mu, whatever polls confirmed and
\* queued while initialSpecs was still trying.
SetCurrent ==
  /\ runPC = "fetched"
  /\ sending = None
  /\ current' = specs
  /\ overtaken' = (current \notin {None, specs})
  /\ runPC' = "building"
  /\ UNCHANGED <<answer, rebuild, pollVars, specs, served, history>>

\* serve builds the accessories and starts a server for them.
Serve ==
  /\ runPC = "building"
  /\ served' = specs
  /\ runPC' = "serving"
  /\ UNCHANGED <<answer, current, rebuild, pollVars, specs, history, overtaken>>

\* mutant: the restarted server gets the old set
TakeRebuildKeepingSpecs ==
  /\ runPC = "serving"
  /\ rebuild # None
  /\ rebuild' = None
  /\ served' = None
  /\ runPC' = "building"
  /\ UNCHANGED <<answer, current, pollVars, specs, history, overtaken>>

\* next := <-s.rebuild; the server is stopped and waited for.
TakeRebuild ==
  /\ runPC = "serving"
  /\ rebuild # None
  /\ specs' = rebuild
  /\ rebuild' = None
  /\ served' = None
  /\ runPC' = "building"
  /\ UNCHANGED <<answer, current, pollVars, history, overtaken>>

\* Run returns: cancelled, serve failed, or the server stopped on its own.
\* main ends the process.
Exit ==
  /\ runPC # "exited"
  /\ runPC' = "exited"
  /\ served' = None
  /\ UNCHANGED <<answer, current, rebuild, pollVars, specs, history, overtaken>>

\* A new process; nothing of this is kept on disk.
Restart ==
  /\ runPC = "exited"
  /\ current' = None /\ candidate' = None /\ candidateSeen' = 0
  /\ rebuild' = None /\ sending' = None
  /\ runPC' = "initial" /\ specs' = None /\ served' = None
  /\ agreed' = None /\ agreement' = 0 /\ confirmed' = None
  /\ overtaken' = FALSE
  /\ UNCHANGED answer

Next ==
  \/ Change
  \/ ObserveCurrent
  \/ ObserveCandidate
  \/ ObserveConfirmed
  \/ Send
  \/ InitialSpecs
  \/ SetCurrent
  \/ Serve
  \/ TakeRebuild
  \/ Exit
  \/ Restart

Spec == Init /\ [][Next]_vars

\* The poll ticker fires for ever and an answer arrives now and then; the run
\* loop is a goroutine the scheduler does not starve.
Fairness ==
  /\ WF_vars(ObserveCurrent \/ ObserveCandidate \/ ObserveConfirmed)
  /\ WF_vars(Send)
  /\ WF_vars(InitialSpecs)
  /\ WF_vars(SetCurrent)
  /\ WF_vars(Serve)
  /\ WF_vars(TakeRebuild)

FairSpec == Spec /\ Fairness

-----------------------------------------------------------------------------
(* Properties.                                                             *)

TypeOK ==
  /\ answer \in Topologies
  /\ {current, candidate, rebuild, sending, specs, served, agreed, confirmed}
       \subseteq Topologies \cup {None}
  /\ candidateSeen \in 0 .. TopologyConfirmations
  /\ agreement \in 0 .. TopologyConfirmations
  /\ runPC \in RunPCs
  /\ overtaken \in BOOLEAN

\* observePoll holds s.mu while it sends, so a full channel would stop polling
\* and Run for good (supervisor.go:132-137).
SendNeverBlocks == sending # None => rebuild = None

\* The set waiting in the channel, or about to, is the one that the required
\* number of successive successful polls agreed on last, never one seen in a
\* partial answer and never one superseded since (supervisor.go:22-28, 46);
\* save for the set that Run's own first answer overtook (supervisor.go:153-155).
QueuedIsNewestConfirmed ==
  ~overtaken => \A t \in {rebuild, sending} \ {None} : t = confirmed

\* Once Run is idle, the server was built from current (supervisor.go:39:
\* "current is the topology hash the running server was built from"), unless
\* Run's first answer overtook a queued set and no set was confirmed since.
Idle == runPC = "serving" /\ rebuild = None /\ sending = None
CurrentIsServed == Idle /\ ~overtaken => current = served

\* What supervisor.go:39 says without that exception: the code does not have it.
CurrentIsAlwaysServed == Idle => current = served

\* Once Run is idle, a set that enough successive polls agree on is the set
\* HomeKit sees: no device stays missing and none stays behind, unless Run's
\* first answer overtook a queued set and no other set was confirmed since.
ServedIsConfirmed ==
  Idle /\ ~overtaken /\ agreement = TopologyConfirmations => served = agreed

\* While the process runs and Yandex keeps giving one answer, HomeKit ends up
\* with that device set; or that answer is the one by which Run overtook
\* another, queued, set, and observePoll takes it for the one being served.
HomeKitConverges ==
  \A t \in Topologies :
    <>[](answer = t /\ runPC # "exited")
      => <>[](served = t) \/ <>[](overtaken /\ current = t)
=============================================================================
