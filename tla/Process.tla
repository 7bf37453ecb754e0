------------------------------ MODULE Process ------------------------------
(***************************************************************************)
(* The life of the process (main.go, run) and of the supervisor's main loop *)
(* (supervisor.go, Run): what is started when, what a SIGTERM or a failure  *)
(* ends, and the exit status that tells Docker whether to start it again.   *)
(* A first run blocks in the device flow, whose actions are DeviceFlow's.   *)
(***************************************************************************)
EXTENDS DeviceFlow

\* ctx is done once a signal came or stop was called.
VARIABLES
  main,      \* where run is, see Stages
  running,   \* the background tasks that have not returned
  hap,       \* the HAP server of this round: "none", "serving", "ended"
  failed,    \* the error run is going to return, as a Boolean
  refreshing,  \* Token asks for a new token and holds the mutex of the Source
  signalled  \* history: did a signal come?

runVars == <<main, ctx, running, hap, failed, refreshing, signalled>>
vars == <<runVars, flowVars>>

Stages == {"authorizing", "refused", "discovering", "serving", "stopping_server",
           "replacing_server", "restarting", "returned", "waiting", "exited"}

Early == {"status-server", "health"}
Late == {"syncer", "token-refresher", "reauth-watcher"}

Init ==
  /\ FlowInit
  /\ main = "authorizing" /\ ctx = "live"
  /\ running = Early
  /\ hap = "none"
  /\ failed = FALSE /\ refreshing = FALSE /\ signalled = FALSE

-----------------------------------------------------------------------------
(* Outside: a signal, and servers that stop on their own.                    *)

Signal ==
  /\ main # "exited"
  /\ ctx' = "done" /\ signalled' = TRUE
  /\ UNCHANGED <<flowVars, main, running, hap, failed, refreshing>>

\* The port is taken: logged, and no reason to stop the bridge.
StatusServerStops ==
  /\ "status-server" \in running
  /\ running' = running \ {"status-server"}
  /\ UNCHANGED <<flowVars, main, ctx, hap, failed, signalled, refreshing>>

\* ListenAndServe returns: told to, or for a reason of its own.
HapEnds ==
  /\ hap = "serving"
  /\ hap' = "ended"
  /\ UNCHANGED <<flowVars, main, ctx, running, failed, signalled, refreshing>>

-----------------------------------------------------------------------------
(* A refresh by Source.Token.  It has no deadline and its context is not ctx, *)
(* so no signal reaches it, and who needs the mutex waits for its answer.    *)

\* Discovery, a poll, a confirmation read or a write finds the token close to
\* its end.  What a write starts when every caller run waits for has returned is
\* left out.
RefreshBegins ==
  /\ ~refreshing
  /\ main \notin {"authorizing", "refused", "exited"}
  /\ main = "waiting" => running \cap Late # {}
  /\ refreshing' = TRUE
  /\ UNCHANGED <<flowVars, main, ctx, running, hap, failed, signalled>>

RefreshEnds ==
  /\ refreshing
  /\ refreshing' = FALSE
  /\ UNCHANGED <<flowVars, main, ctx, running, hap, failed, signalled>>

-----------------------------------------------------------------------------
(* EnsureAuthorized, and the start of everything else.                       *)

\* The device flow goes on.
Authorizing(step) == main = "authorizing" /\ step /\ UNCHANGED runVars

\* The stored token is good, or the flow's has been saved.
Authorized ==
  /\ main = "authorizing" /\ stage \in {"idle", "granted"}
  /\ main' = "discovering" /\ running' = running \cup Late
  /\ UNCHANGED <<flowVars, ctx, hap, failed, signalled, refreshing>>

\* The stored token cannot be refreshed now, the flow stops, or its token
\* cannot be saved.
NotAuthorized ==
  /\ main = "authorizing" /\ stage \in {"idle", "granted", "stopped"}
  /\ main' = "refused"
  /\ UNCHANGED <<flowVars, ctx, running, hap, failed, signalled, refreshing>>

\* mutant: stop is called first, and cancels the context itself
DecideAfterStop ==
  /\ main = "refused"
  /\ main' = "waiting" /\ ctx' = "done"
  /\ failed' = (ctx' # "done")
  /\ UNCHANGED <<flowVars, running, hap, signalled, refreshing>>

\* Whether this was a shutdown is decided before stop.
Decide ==
  /\ main = "refused"
  /\ failed' = (ctx # "done")
  /\ main' = "waiting" /\ ctx' = "done"
  /\ UNCHANGED <<flowVars, running, hap, signalled, refreshing>>

-----------------------------------------------------------------------------
(* Supervisor.Run.                                                           *)

\* initialSpecs has the devices, and serve starts the first HAP server.
Served ==
  /\ main = "discovering"
  /\ main' = "serving" /\ hap' = "serving"
  /\ UNCHANGED <<flowVars, ctx, running, failed, signalled, refreshing>>

\* initialSpecs gives up only when the context ends, and its own refresh with it.
CutShort ==
  /\ main = "discovering" /\ ctx = "done"
  /\ main' = "returned"
  /\ UNCHANGED <<flowVars, ctx, running, hap, failed, signalled, refreshing>>

\* build or NewServer fails, at the start or in a rebuild.
ServeFails ==
  /\ main \in {"discovering", "restarting"}
  /\ main' = "returned" /\ failed' = TRUE
  /\ UNCHANGED <<flowVars, ctx, running, hap, signalled, refreshing>>

\* The context is done: stop the server, then wait for it.
StopServer ==
  /\ main = "serving" /\ ctx = "done"
  /\ main' = "stopping_server"
  /\ UNCHANGED <<flowVars, ctx, running, hap, failed, signalled, refreshing>>

ServerStopped ==
  /\ main = "stopping_server" /\ hap = "ended"
  /\ main' = "returned" /\ hap' = "none"
  /\ UNCHANGED <<flowVars, ctx, running, failed, signalled, refreshing>>

\* A new accessory set: the old server is stopped and awaited first.
Rebuild ==
  /\ main = "serving"
  /\ main' = "replacing_server"
  /\ UNCHANGED <<flowVars, ctx, running, hap, failed, signalled, refreshing>>

ServerReplaced ==
  /\ main = "replacing_server" /\ hap = "ended"
  /\ main' = "restarting" /\ hap' = "none"
  /\ UNCHANGED <<flowVars, ctx, running, failed, signalled, refreshing>>

ServeAgain ==
  /\ main = "restarting"
  /\ main' = "serving" /\ hap' = "serving"
  /\ UNCHANGED <<flowVars, ctx, running, failed, signalled, refreshing>>

\* The server stopped although nobody stopped it: an error, unless the whole
\* process is on its way out.
ServerGone ==
  /\ main = "serving" /\ hap = "ended"
  /\ main' = "returned" /\ hap' = "none"
  /\ failed' = (ctx # "done")
  /\ UNCHANGED <<flowVars, ctx, running, signalled, refreshing>>

-----------------------------------------------------------------------------
(* The end of run: stop, wait for the tasks, return.                         *)

\* mutant: the tasks are waited for without being told to stop
StopForgotten ==
  /\ main = "returned"
  /\ main' = "waiting"
  /\ UNCHANGED <<flowVars, ctx, running, hap, failed, signalled, refreshing>>

Stop ==
  /\ main = "returned"
  /\ main' = "waiting" /\ ctx' = "done"
  /\ UNCHANGED <<flowVars, running, hap, failed, signalled, refreshing>>

\* A background task returns once the context is done, unless it is inside Token
\* or waits for its mutex: see Fairness.
TaskEnds(t) ==
  /\ ctx = "done" /\ t \in running
  /\ running' = running \ {t}
  /\ UNCHANGED <<flowVars, main, ctx, hap, failed, signalled, refreshing>>

Exit ==
  /\ main = "waiting" /\ running = {}
  /\ main' = "exited"
  /\ UNCHANGED <<flowVars, ctx, running, hap, failed, signalled, refreshing>>

\* Nothing is left to happen.
Exited == main = "exited" /\ UNCHANGED vars

Next ==
  \/ Signal \/ StatusServerStops \/ HapEnds \/ RefreshBegins \/ RefreshEnds
  \/ Authorizing(FlowNext) \/ Authorized \/ NotAuthorized \/ Decide
  \/ Served \/ CutShort \/ ServeFails
  \/ StopServer \/ ServerStopped \/ ServerGone
  \/ Rebuild \/ ServerReplaced \/ ServeAgain
  \/ Stop \/ (\E t \in Early \cup Late : TaskEnds(t)) \/ Exit
  \/ Exited

(* Goroutines run, time passes, and a server that was told to stop returns.  *)
(* A select chooses at random among what is ready, so it takes a context     *)
(* that is done in the end, however often a rebuild or a timer is ready too. *)
(* What comes again and again in the flow works out some time: a code of     *)
(* each lifetime is issued, the user enters it in time, a poll of it is      *)
(* answered.  Discovery may take for ever while the context lives.  Nothing  *)
(* says that a refresh ends; while one is out the tasks that need the        *)
(* Source, all but the status server, may wait for it, and the first         *)
(* discovery too.                                                            *)
FlowFairness ==
  /\ WF_vars(Authorizing(Tick)) /\ WF_vars(Authorizing(Working))
  /\ \A l \in Lifetimes : SF_vars(Authorizing(\E i \in Intervals : CodeIssued(i, l)))
  /\ SF_vars(Authorizing(ConfirmsInTime))
  /\ SF_vars(Authorizing(Arrives("token"))) /\ SF_vars(Authorizing(Granted))
  /\ SF_vars(Authorizing(Cut))

Told == main \in {"stopping_server", "replacing_server"}

\* What run's goroutine does next, where it waits for nobody who was not told.
Proceeds ==
  \/ Authorized \/ NotAuthorized \/ Decide
  \/ (Told /\ HapEnds) \/ ServerStopped \/ ServerReplaced
  \/ ServeAgain \/ (main = "restarting" /\ ServeFails)
  \/ Stop \/ Exit

AskTheSource == (Early \cup Late) \ {"status-server"}

Fairness ==
  /\ FlowFairness
  /\ WF_vars(Proceeds) /\ SF_vars(StopServer)
  /\ WF_vars(TaskEnds("status-server"))
  /\ SF_vars(~refreshing /\ (CutShort \/ \E t \in AskTheSource : TaskEnds(t)))

Spec == Init /\ [][Next]_vars
FairSpec == Spec /\ Fairness

-----------------------------------------------------------------------------
(* The parts that run fit the stage that runs them: no HAP server before     *)
(* there are devices to serve, and no task past its wait.                    *)
TypeOK ==
  /\ FlowTypeOK /\ (stage \notin {"idle", "granted", "stopped"} => main = "authorizing")
  /\ main \in Stages /\ ctx \in {"live", "done"}
  /\ running \subseteq Early \cup Late
  /\ hap \in {"none", "serving", "ended"}
  /\ hap # "none" => main \in {"serving", "stopping_server", "replacing_server"}
  /\ {failed, refreshing, signalled} \subseteq BOOLEAN
  /\ signalled => ctx = "done"

(* A process that nobody stopped never looks like an orderly exit: the       *)
(* status is an error whatever failed first ("would make every failure look  *)
(* like an orderly exit", main.go:126-128).                                  *)
OwnEndIsAnError == main = "exited" /\ ~signalled => failed

(* docker stop works at any moment, in the middle of an authorization, of    *)
(* the first discovery or of a rebuild; and a failure does not leave a       *)
(* process behind that serves nobody (main.go:128-131, 142-145): as long as  *)
(* no refresh stays without an answer for ever.                              *)
EndComes == []<>(~refreshing) => ((signalled \/ failed) ~> main = "exited")

(* The same without the hypothesis.  The code lacks it: a token server that  *)
(* accepts the connection and never answers keeps Token, and with it run,    *)
(* waiting for ever (source.go:165-166, 209; main.go:145).                   *)
EndAlwaysComes == (signalled \/ failed) ~> main = "exited"
=============================================================================
