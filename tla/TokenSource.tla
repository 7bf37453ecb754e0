---------------------------- MODULE TokenSource ----------------------------
(***************************************************************************)
(* internal/auth: the OAuth token in memory (source.go), in its file       *)
(* (store.go over internal/atomicfile), and at Yandex, which replaces the  *)
(* refresh token on a refresh and rejects the one before.                  *)
(*                                                                         *)
(* Refreshing holds s.mu from the request to the publication of the new    *)
(* token.  Authorize, run by main at start and later by the reauth         *)
(* watcher, holds s.mu only to announce a code and to publish, so that its *)
(* save can fall anywhere in a refresh.  The process may die between any   *)
(* two steps.                                                              *)
(*                                                                         *)
(* A save is one step, its rename: what precedes it writes files that Load *)
(* does not read as long as token.json is there, and what follows may only *)
(* fail.  token.json never disappears, so token.json.bak counts only until *)
(* the first save of a bridge that starts without token.json.              *)
(*                                                                         *)
(* How old the access token is comes from the clock and is left open: a    *)
(* refresh may be due at any time, and one that fails may find the access  *)
(* token expired or not.                                                   *)
(***************************************************************************)
EXTENDS Integers, FiniteSets

CONSTANTS Tokens,       \* refresh tokens; more than are ever in use at once
          None,         \* no token
          GrantReplaces \* TRUE: a new grant ends the earlier ones

ASSUME TokensAssumption == IsFiniteSet(Tokens) /\ Cardinality(Tokens) >= 5 /\ None \notin Tokens
ASSUME GrantAssumption == GrantReplaces \in BOOLEAN

VARIABLES valid,     \* the refresh tokens Yandex accepts
          pc,        \* the process: "down", "starting" (EnsureAuthorized), "running"
          current,   \* Source.current
          status,    \* Source.status.State
          pending,   \* does Source.status show the code to enter?
          refresher, \* the refresh in progress, holding s.mu
          fresh,     \* the token it brought back
          auth,      \* where Authorize is
          grant,     \* the token it was given
          stored,    \* what Load returns
          lost       \* history: the credential went in a way nothing here
                     \* could prevent

source == <<current, status, pending>>
vars   == <<valid, pc, source, refresher, fresh, auth, grant, stored, lost>>

Init ==
  /\ stored \in {None} \cup Tokens
  /\ valid = {stored} \ {None}
  /\ pc = "down"
  /\ current = None /\ status = "reauth" /\ pending = FALSE
  /\ refresher = "idle" /\ fresh = None
  /\ auth = "off" /\ grant = None
  /\ lost = FALSE

Held == {current, fresh, grant, stored} \ {None}

\* A refresh token that nobody remembers, and the set of accepted ones with it.
\* Tokens that nobody remembers any more are dropped from the set.
NewToken == CHOOSE t \in Tokens : t \notin Held
With(accepted, t) == (accepted \cap Held) \cup {t}

-----------------------------------------------------------------------------
(* The process.                                                            *)

\* NewSource.
Start ==
  /\ pc = "down"
  /\ pc' = "starting"
  /\ current' = stored
  /\ status' = IF stored = None THEN "reauth" ELSE "ok"
  /\ pending' = FALSE
  /\ UNCHANGED <<valid, refresher, fresh, auth, grant, stored, lost>>

Unsaved(t) == t # None /\ t \in valid /\ t # current /\ t # stored
Wasted(t) == Unsaved(t) /\ t # stored'

\* Everything in memory is gone; a token that was not on disk yet with it.
Dies ==
  /\ pc' = "down"
  /\ current' = None /\ status' = "reauth" /\ pending' = FALSE
  /\ refresher' = "idle" /\ fresh' = None
  /\ auth' = "off" /\ grant' = None
  /\ lost' = (lost \/ Wasted(fresh) \/ Wasted(grant))

Crash ==
  /\ pc # "down"
  /\ UNCHANGED <<valid, stored>>
  /\ Dies

Ensuring == pc = "starting" /\ refresher = "idle" /\ auth = "off"

\* EnsureAuthorized: an access token that is not about to expire will do.
StoredIsGood ==
  /\ Ensuring /\ current # None
  /\ pc' = "running"
  /\ UNCHANGED <<valid, source, refresher, fresh, auth, grant, stored, lost>>

\* EnsureAuthorized: no token at all.
NothingStored ==
  /\ Ensuring /\ current = None
  /\ auth' = "requesting"
  /\ UNCHANGED <<valid, pc, source, refresher, fresh, grant, stored, lost>>

\* The user revokes access, or Yandex does.
Revoked ==
  /\ valid # {}
  /\ valid' = {} /\ lost' = TRUE
  /\ UNCHANGED <<pc, source, refresher, fresh, auth, grant, stored>>

-----------------------------------------------------------------------------
(* refreshLocked.                                                          *)

\* token finds the access token about to expire, the client has had a 401, or
\* RunRefresher renews early.
BeginRefresh ==
  /\ Ensuring \/ (pc = "running" /\ refresher = "idle")
  /\ current # None
  /\ refresher' = "asking"
  /\ UNCHANGED <<valid, pc, source, fresh, auth, grant, stored, lost>>

\* mutant: the new token is published before it is saved
ExchangedPublishing ==
  /\ refresher = "asking" /\ current \in valid
  /\ fresh' = NewToken /\ valid' = With(valid \ {current}, fresh')
  /\ current' = fresh'
  /\ refresher' = "saving"
  /\ UNCHANGED <<pc, status, pending, auth, grant, stored, lost>>

\* Yandex answers with a new token, as a rule with a new refresh token, too.
Exchanged ==
  /\ refresher = "asking" /\ current \in valid
  /\ \/ fresh' = NewToken /\ valid' = With(valid \ {current}, fresh')
     \/ fresh' = current /\ valid' = valid
  /\ refresher' = "saving"
  /\ UNCHANGED <<pc, source, auth, grant, stored, lost>>

\* handleRefreshErrorLocked, transient.  At start, an error about an access
\* token that has expired ends the process.
ServeCurrent ==
  \/ /\ status' = "degraded" /\ pending' = FALSE
     /\ pc' = "running" /\ refresher' = "idle"
     /\ UNCHANGED <<current, fresh, auth, grant, lost>>
  \/ pc = "starting" /\ Dies

ExchangeFails ==
  /\ refresher = "asking"
  /\ UNCHANGED <<valid, stored>>
  /\ ServeCurrent

\* Yandex replaces the token and its answer is lost; the attempt is still on.
AnswerLost ==
  /\ refresher = "asking" /\ current \in valid
  /\ valid' = valid \ {current} /\ lost' = TRUE
  /\ UNCHANGED <<pc, source, refresher, fresh, auth, grant, stored>>

\* fatalGrantError: the grant is gone, or Yandex objects to the client or to the
\* request, whose token it would still accept.  EnsureAuthorized goes on to
\* Authorize, everybody else leaves that to the watcher.
ExchangeRejected ==
  /\ refresher = "asking"
  /\ status' = "reauth" /\ pending' = FALSE
  /\ refresher' = "idle"
  /\ auth' = IF pc = "starting" THEN "requesting" ELSE auth
  /\ UNCHANGED <<valid, pc, current, fresh, grant, stored, lost>>

-----------------------------------------------------------------------------
(* Authorize and the reauth watcher.                                       *)

\* The minute's tick finds StateReauthRequired.
WatcherTicks ==
  /\ pc = "running" /\ auth = "off"
  /\ status = "reauth" /\ refresher = "idle"
  /\ auth' = "requesting"
  /\ UNCHANGED <<valid, pc, source, refresher, fresh, grant, stored, lost>>

\* The Home app's switch was flipped, whatever the status is.
SwitchFlipped ==
  /\ pc = "running" /\ auth = "off"
  /\ auth' = "requesting"
  /\ UNCHANGED <<valid, pc, source, refresher, fresh, grant, stored, lost>>

\* A code arrives and is reported; requests that fail are repeated.
CodeIssued ==
  /\ auth = "requesting" /\ refresher = "idle"
  /\ auth' = "waiting"
  /\ status' = "reauth" /\ pending' = TRUE
  /\ UNCHANGED <<valid, pc, current, refresher, fresh, grant, stored, lost>>

\* The next code follows without anything else in between.
CodeExpires ==
  /\ auth = "waiting"
  /\ auth' = "requesting"
  /\ UNCHANGED <<valid, pc, source, refresher, fresh, grant, stored, lost>>

Confirmed ==
  /\ auth = "waiting"
  /\ grant' = NewToken
  /\ valid' = With(IF GrantReplaces THEN {} ELSE valid, grant')
  /\ auth' = "saving"
  /\ UNCHANGED <<pc, source, refresher, fresh, stored, lost>>

\* The user declines, the app's credentials are wrong, or the save has failed.
\* At start that ends the process; the watcher reports it and waits for its
\* next tick.
AuthorizeFails ==
  /\ auth \in {"requesting", "waiting", "failed"} /\ refresher = "idle"
  /\ UNCHANGED <<valid, stored>>
  /\ IF pc = "starting"
       THEN Dies
       ELSE /\ status' = "reauth" /\ pending' = FALSE
            /\ auth' = "off"
            /\ UNCHANGED <<pc, current, refresher, fresh, grant, lost>>

\* mutant: the status is left as it was
AuthorizePublishesTokenOnly ==
  /\ auth = "saved" /\ refresher = "idle"
  /\ current' = grant /\ status' = status /\ pending' = pending
  /\ auth' = "off" /\ grant' = None
  /\ pc' = "running"
  /\ UNCHANGED <<valid, refresher, fresh, stored, lost>>

AuthorizePublishes ==
  /\ auth = "saved" /\ refresher = "idle"
  /\ current' = grant /\ status' = "ok" /\ pending' = FALSE
  /\ auth' = "off" /\ grant' = None
  /\ pc' = "running"
  /\ UNCHANGED <<valid, refresher, fresh, stored, lost>>

-----------------------------------------------------------------------------
(* Store.Save over atomicfile.WriteWithBackup.                             *)

\* The refresh still holds s.mu when its save returns, and publishes.
RefreshSaved ==
  /\ refresher = "saving"
  /\ stored' = fresh
  /\ current' = fresh /\ status' = "ok" /\ pending' = FALSE
  /\ refresher' = "idle" /\ fresh' = None
  /\ pc' = "running"
  /\ UNCHANGED <<valid, auth, grant, lost>>

\* Authorize has yet to lock s.mu: AuthorizePublishes.
AuthorizeSaved ==
  /\ auth = "saving"
  /\ stored' = grant
  /\ auth' = "saved"
  /\ UNCHANGED <<valid, pc, source, refresher, fresh, grant, lost>>

\* Save fails, before the rename or, in SyncDir, after it.  The refresh throws
\* its token away and leaves the status alone; at start it ends the process.
RefreshSaveFails ==
  /\ refresher = "saving"
  /\ stored' \in {stored, fresh}
  /\ IF pc = "starting"
       THEN Dies
       ELSE /\ refresher' = "idle" /\ fresh' = None
            /\ lost' = (lost \/ Wasted(fresh))
            /\ UNCHANGED <<pc, source, auth, grant>>
  /\ UNCHANGED valid

AuthorizeSaveFails ==
  /\ auth = "saving"
  /\ stored' \in {stored, grant}
  /\ auth' = "failed" /\ grant' = None
  /\ lost' = (lost \/ Wasted(grant))
  /\ UNCHANGED <<valid, pc, source, refresher, fresh>>

-----------------------------------------------------------------------------
Next ==
  \/ Start
  \/ Crash
  \/ StoredIsGood
  \/ NothingStored
  \/ Revoked
  \/ BeginRefresh
  \/ Exchanged
  \/ ExchangeFails
  \/ AnswerLost
  \/ ExchangeRejected
  \/ WatcherTicks
  \/ SwitchFlipped
  \/ CodeIssued
  \/ CodeExpires
  \/ Confirmed
  \/ AuthorizeFails
  \/ AuthorizePublishes
  \/ RefreshSaved
  \/ AuthorizeSaved
  \/ RefreshSaveFails
  \/ AuthorizeSaveFails

Spec == Init /\ [][Next]_vars

\* The service manager restarts the process, goroutines run, every request
\* ends, and what can fail does not fail for ever: the user enters one of the
\* codes in the end and the disk takes one of the saves.
Fairness ==
  /\ WF_vars(Start) /\ SF_vars(NothingStored)
  /\ SF_vars(StoredIsGood \/ (pc = "starting" /\ BeginRefresh))
  /\ WF_vars(ExchangeFails \/ ExchangeRejected)
  /\ SF_vars(WatcherTicks) /\ SF_vars(CodeIssued) /\ SF_vars(Confirmed)
  /\ SF_vars(RefreshSaved) /\ SF_vars(AuthorizeSaved)
  /\ SF_vars(AuthorizePublishes) /\ SF_vars(auth = "failed" /\ AuthorizeFails)

FairSpec == Spec /\ Fairness

-----------------------------------------------------------------------------
(* Properties.                                                             *)

TypeOK ==
  /\ Held \cup valid \subseteq Tokens
  /\ pc \in {"down", "starting", "running"}
  /\ status \in {"ok", "degraded", "reauth"} /\ pending \in BOOLEAN
  /\ refresher \in {"idle", "asking", "saving"}
  /\ auth \in {"off", "requesting", "waiting", "saving", "saved", "failed"}
  /\ lost \in BOOLEAN
  /\ pending => status = "reauth"

\* Wherever the process dies, what the token file holds can still be refreshed
\* once a newer token has been used for anything (source.go:219-221, "if the
\* process dies between these two lines the bridge restarts with a token it can
\* still refresh").  Excused is only a token that Yandex has replaced and that
\* is not on disk yet, or never got there.
InHand == Unsaved(fresh) \/ Unsaved(grant)

RestartCanRefresh == stored = None \/ stored \in valid \/ InHand \/ lost

\* A bridge that keeps needing its user recovers on its own whenever the user
\* enters a code, restarts and failing saves in between or not
\* (source.go:353-358).
Shows(state) == pc # "down" /\ status = state
RecoversOnItsOwn == []<>Shows("reauth") => []<>Shows("ok")

\* "PendingCode is the user code awaiting confirmation, if any"
\* (source.go:68-70): while Authorize waits for a code, the status shows it.
CodeIsShown == auth = "waiting" => pending
=============================================================================
