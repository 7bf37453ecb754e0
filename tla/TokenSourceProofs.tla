------------------------- MODULE TokenSourceProofs -------------------------
(***************************************************************************)
(* A restart finds a refresh token that still works, for any supply of     *)
(* tokens and any interleaving of a refresh, Authorize, revocations and    *)
(* crashes, as long as a new grant does not end the earlier ones           *)
(* (~GrantReplaces).                                                       *)
(***************************************************************************)
EXTENDS TokenSource, FiniteSetTheorems, TLAPS

\* A token is in hand exactly while it is being saved or published.
InHandWhileSaving ==
  /\ fresh # None <=> refresher = "saving"
  /\ grant # None <=> auth \in {"saving", "saved"}

\* The grant is in no other hand: memory and the refresh got theirs elsewhere.
GrantIsNew == grant # None => grant \notin {current, fresh}

\* The process takes nothing with it when it goes down.
DownIsEmpty == pc = "down" => refresher = "idle" /\ auth = "off"

\* EnsureAuthorized refreshes first and asks its user afterwards.
InTurn == pc = "starting" => refresher = "idle" \/ auth = "off"

\* What is in hand is accepted, unless it was revoked meanwhile.
InHandIsValid == {fresh, grant} \ {None} \subseteq valid \/ lost

\* The file is only ever behind a refresh that still has its token in hand; a
\* grant that waits for its save does not count.
FileIsBehindRefresh == stored = None \/ stored \in valid \/ Unsaved(fresh) \/ lost

Inv ==
  /\ TypeOK
  /\ InHandWhileSaving
  /\ GrantIsNew
  /\ DownIsEmpty
  /\ InTurn
  /\ InHandIsValid
  /\ FileIsBehindRefresh

-----------------------------------------------------------------------------
(* The supply of tokens.                                                   *)

\* Of five tokens at most four are remembered: there is always a new one.
LEMMA NewTokenIsNew == NewToken \in Tokens \ Held
<1>1. IsFiniteSet(Held) /\ Cardinality(Held) <= 4
  <2>1. /\ IsFiniteSet({current, fresh, grant, stored})
        /\ Cardinality({current, fresh, grant, stored}) <= 4
    <3> DEFINE A == {current}
               B == A \cup {fresh}
               C == B \cup {grant}
               D == C \cup {stored}
    <3>1. IsFiniteSet(A) /\ Cardinality(A) = 1
      BY FS_Singleton
    <3>2. IsFiniteSet(B) /\ Cardinality(B) \in 0 .. 2
      <4> HIDE DEF A
      <4> QED BY <3>1, FS_AddElement DEF B
    <3>3. IsFiniteSet(C) /\ Cardinality(C) \in 0 .. 3
      <4> HIDE DEF B
      <4> QED BY <3>2, FS_AddElement DEF C
    <3>4. IsFiniteSet(D) /\ Cardinality(D) \in 0 .. 4
      <4> HIDE DEF C
      <4> QED BY <3>3, FS_AddElement DEF D
    <3>5. D = {current, fresh, grant, stored}
      OBVIOUS
    <3> QED
      BY <3>4, <3>5
  <2>2. Held \subseteq {current, fresh, grant, stored}
    BY DEF Held
  <2> HIDE DEF Held
  <2> QED
    BY <2>1, <2>2, FS_Subset, FS_CardinalityType
<1>2. \E t \in Tokens : t \notin Held
  <2>1. ~(Tokens \subseteq Held)
    <3> SUFFICES ASSUME Tokens \subseteq Held PROVE FALSE
      OBVIOUS
    <3>1. Cardinality(Tokens) <= Cardinality(Held)
      BY <1>1, FS_Subset
    <3> QED
      BY <1>1, <3>1, TokensAssumption, FS_CardinalityType
  <2> QED
    BY <2>1
<1> QED
  BY <1>2 DEF NewToken

-----------------------------------------------------------------------------
(* One lemma for each place where the token is handled.                    *)

\* A process starts with what it finds in its file.
LEMMA InitialState == Init => Inv
BY TokensAssumption
   DEF Init, Inv, TypeOK, Held, InHandWhileSaving, GrantIsNew, DownIsEmpty, InTurn,
       InHandIsValid, FileIsBehindRefresh

\* Memory goes, and with it what was in hand: that counts as lost.
LEMMA DeathKeepsInv ==
  ASSUME Inv, Dies, valid' = valid, stored' \in {stored, fresh}
  PROVE  Inv'
<1>1. TypeOK'
  BY DEF Inv, TypeOK, Held, Dies
<1>2. InHandWhileSaving' /\ GrantIsNew' /\ DownIsEmpty' /\ InTurn' /\ InHandIsValid'
  BY DEF Dies, InHandWhileSaving, GrantIsNew, DownIsEmpty, InTurn, InHandIsValid
<1>3. FileIsBehindRefresh'
  BY DEF Inv, FileIsBehindRefresh, InHandIsValid, Dies, Wasted, Unsaved
<1> QED
  BY <1>1, <1>2, <1>3 DEF Inv

\* The process: start, death, revocation.
LEMMA ProcessKeepsInv ==
  ASSUME Inv, Start \/ Crash \/ StoredIsGood \/ NothingStored \/ Revoked
  PROVE  Inv'
<1>1. CASE Start
  BY <1>1 DEF Start, Inv, TypeOK, Held, InHandWhileSaving, GrantIsNew, DownIsEmpty, InTurn,
              InHandIsValid, FileIsBehindRefresh, Unsaved
<1>2. CASE Crash
  BY <1>2, DeathKeepsInv DEF Crash
<1>3. CASE StoredIsGood
  BY <1>3 DEF StoredIsGood, Ensuring, source, Inv, TypeOK, Held, InHandWhileSaving,
              GrantIsNew, DownIsEmpty, InTurn, InHandIsValid, FileIsBehindRefresh, Unsaved
<1>4. CASE NothingStored
  BY <1>4 DEF NothingStored, Ensuring, source, Inv, TypeOK, Held, InHandWhileSaving,
              GrantIsNew, DownIsEmpty, InTurn, InHandIsValid, FileIsBehindRefresh, Unsaved
<1>5. CASE Revoked
  BY <1>5 DEF Revoked, source, Inv, TypeOK, Held, InHandWhileSaving,
              GrantIsNew, DownIsEmpty, InTurn, InHandIsValid, FileIsBehindRefresh, Unsaved
<1> QED
  BY <1>1, <1>2, <1>3, <1>4, <1>5

\* A new token in the place of the current one, which is thereby rejected: the
\* file falls behind a refresh that has the new one in hand.
LEMMA ExchangeKeepsInv ==
  ASSUME Inv, Exchanged
  PROVE  Inv'
<1> USE DEF Exchanged, Inv, source
<1>1. CASE fresh' = NewToken /\ valid' = With(valid \ {current}, fresh')
  <2>1. fresh' \in Tokens \ Held
    BY <1>1, NewTokenIsNew
  <2>2. valid' = ((valid \ {current}) \cap Held) \cup {fresh'}
    BY <1>1 DEF With
  <2>3. TypeOK'
    BY <2>1, <2>2 DEF TypeOK, Held
  <2>4. InHandWhileSaving' /\ DownIsEmpty' /\ InTurn'
    BY <2>1, TokensAssumption DEF InHandWhileSaving, DownIsEmpty, InTurn
  <2>5. GrantIsNew'
    BY <2>1 DEF GrantIsNew, Held
  <2>6. InHandIsValid'
    BY <2>2 DEF InHandIsValid, GrantIsNew, Held
  <2>7. FileIsBehindRefresh'
    BY <2>1, <2>2, TokensAssumption DEF FileIsBehindRefresh, InHandWhileSaving, Unsaved, Held
  <2> QED
    BY <2>3, <2>4, <2>5, <2>6, <2>7
<1>2. CASE fresh' = current /\ valid' = valid
  BY <1>2, TokensAssumption
     DEF TypeOK, Held, InHandWhileSaving, GrantIsNew, DownIsEmpty, InTurn, InHandIsValid,
         FileIsBehindRefresh, Unsaved
<1> QED
  BY <1>1, <1>2

\* The rest of a refresh: its begin, its failures, and its save.
LEMMA RefreshKeepsInv ==
  ASSUME Inv,
         BeginRefresh \/ ExchangeFails \/ AnswerLost \/ ExchangeRejected
           \/ RefreshSaved \/ RefreshSaveFails
  PROVE  Inv'
<1>1. CASE BeginRefresh
  BY <1>1 DEF BeginRefresh, Ensuring, source, Inv, TypeOK, Held, InHandWhileSaving,
              GrantIsNew, DownIsEmpty, InTurn, InHandIsValid, FileIsBehindRefresh, Unsaved
<1>2. CASE ExchangeFails
  <2>1. CASE pc = "starting" /\ Dies
    BY <1>2, <2>1, DeathKeepsInv DEF ExchangeFails
  <2>2. CASE ~(pc = "starting" /\ Dies)
    BY <1>2, <2>2
       DEF ExchangeFails, ServeCurrent, Inv, TypeOK, Held, InHandWhileSaving, GrantIsNew,
           DownIsEmpty, InTurn, InHandIsValid, FileIsBehindRefresh, Unsaved
  <2> QED
    BY <2>1, <2>2
<1>3. CASE RefreshSaved
  BY <1>3 DEF RefreshSaved, Inv, TypeOK, Held, InHandWhileSaving, GrantIsNew, DownIsEmpty, InTurn,
              InHandIsValid, FileIsBehindRefresh, Unsaved
<1>4. CASE RefreshSaveFails
  <2>1. CASE pc = "starting"
    BY <1>4, <2>1, DeathKeepsInv DEF RefreshSaveFails
  <2> SUFFICES ASSUME pc # "starting" PROVE Inv'
    BY <2>1
  <2>2. /\ fresh # None /\ fresh' = None /\ refresher' = "idle"
        /\ stored' \in {stored, fresh} /\ lost' = (lost \/ Wasted(fresh))
        /\ UNCHANGED <<valid, pc, current, status, pending, auth, grant>>
    BY <1>4 DEF RefreshSaveFails, source, Inv, InHandWhileSaving
  <2>3. TypeOK'
    BY <2>2 DEF Inv, TypeOK, Held, Wasted, Unsaved
  <2>4. InHandWhileSaving' /\ GrantIsNew' /\ DownIsEmpty' /\ InTurn' /\ InHandIsValid'
    BY <1>4, <2>2, TokensAssumption
       DEF RefreshSaveFails, Inv, InHandWhileSaving, GrantIsNew, DownIsEmpty, InTurn,
           InHandIsValid, Wasted
  <2>5. FileIsBehindRefresh'
    BY <2>2 DEF Inv, FileIsBehindRefresh, InHandIsValid, Unsaved, Wasted
  <2> QED
    BY <2>3, <2>4, <2>5 DEF Inv
<1>5. CASE AnswerLost
  <2>1. /\ valid' \subseteq valid /\ lost' = TRUE
        /\ UNCHANGED <<pc, current, status, pending, refresher, fresh, auth, grant, stored>>
    BY <1>5 DEF AnswerLost, source
  <2> QED
    BY <2>1 DEF Inv, TypeOK, Held, InHandWhileSaving,
              GrantIsNew, DownIsEmpty, InTurn, InHandIsValid, FileIsBehindRefresh, Unsaved
<1>6. CASE ExchangeRejected
  BY <1>6 DEF ExchangeRejected, Inv, TypeOK, Held, InHandWhileSaving,
              GrantIsNew, DownIsEmpty, InTurn, InHandIsValid, FileIsBehindRefresh, Unsaved
<1> QED
  BY <1>1, <1>2, <1>3, <1>4, <1>5, <1>6

\* Authorize: a new grant leaves the earlier ones alone.
LEMMA GrantKeepsInv ==
  ASSUME Inv, ~GrantReplaces, Confirmed
  PROVE  Inv'
<1> USE DEF Confirmed, Inv, source
<1>1. grant' \in Tokens \ Held /\ valid' = (valid \cap Held) \cup {grant'}
  BY NewTokenIsNew DEF With
<1>2. TypeOK'
  BY <1>1 DEF TypeOK, Held
<1>3. InHandWhileSaving' /\ DownIsEmpty' /\ InTurn'
  BY <1>1, TokensAssumption DEF InHandWhileSaving, DownIsEmpty, InTurn
<1>4. GrantIsNew' /\ InHandIsValid'
  BY <1>1, TokensAssumption DEF GrantIsNew, InHandIsValid, Held, InHandWhileSaving
<1>5. FileIsBehindRefresh'
  BY <1>1 DEF FileIsBehindRefresh, Unsaved, Held
<1> QED
  BY <1>2, <1>3, <1>4, <1>5

\* The watcher and the device flow.
LEMMA AuthorizeKeepsInv ==
  ASSUME Inv,
         WatcherTicks \/ SwitchFlipped \/ CodeIssued \/ CodeExpires \/ AuthorizeFails
           \/ AuthorizePublishes \/ AuthorizeSaved \/ AuthorizeSaveFails
  PROVE  Inv'
<1>1. CASE WatcherTicks \/ SwitchFlipped \/ CodeExpires
  <2>1. UNCHANGED <<valid, pc, current, status, pending, refresher, fresh, grant, stored, lost>>
        /\ auth' \in {"requesting", "waiting"} /\ auth \notin {"saving", "saved"}
        /\ pc # "down" /\ (pc = "running" \/ auth # "off")
    BY <1>1 DEF WatcherTicks, SwitchFlipped, CodeExpires, source, DownIsEmpty, InTurn, Inv
  <2> QED
    BY <2>1 DEF Inv, TypeOK, Held, InHandWhileSaving,
              GrantIsNew, DownIsEmpty, InTurn, InHandIsValid, FileIsBehindRefresh, Unsaved
<1>2. CASE AuthorizeFails
  <2>1. CASE pc = "starting"
    BY <1>2, <2>1, DeathKeepsInv DEF AuthorizeFails
  <2>2. CASE pc # "starting"
    BY <1>2, <2>2
       DEF AuthorizeFails, Inv, TypeOK, Held, InHandWhileSaving, GrantIsNew,
           DownIsEmpty, InTurn, InHandIsValid, FileIsBehindRefresh, Unsaved
  <2> QED
    BY <2>1, <2>2
<1>3. CASE AuthorizePublishes
  BY <1>3 DEF AuthorizePublishes, Inv, TypeOK, Held, InHandWhileSaving, GrantIsNew,
              DownIsEmpty, InTurn, InHandIsValid, FileIsBehindRefresh, Unsaved
<1>4. CASE AuthorizeSaved
  BY <1>4 DEF AuthorizeSaved, source, Inv, TypeOK, Held, InHandWhileSaving,
              GrantIsNew, DownIsEmpty, InTurn, InHandIsValid, FileIsBehindRefresh, Unsaved
<1>5. CASE AuthorizeSaveFails
  BY <1>5 DEF AuthorizeSaveFails, source, Inv, TypeOK, Held, InHandWhileSaving,
              GrantIsNew, DownIsEmpty, InTurn, InHandIsValid, FileIsBehindRefresh, Unsaved
<1>6. CASE CodeIssued
  BY <1>6 DEF CodeIssued, Inv, TypeOK, Held, InHandWhileSaving,
              GrantIsNew, DownIsEmpty, InTurn, InHandIsValid, FileIsBehindRefresh, Unsaved
<1> QED
  BY <1>1, <1>2, <1>3, <1>4, <1>5, <1>6

-----------------------------------------------------------------------------
(* The theorems.                                                           *)

\* Every step keeps the invariant.
LEMMA StepKeepsInv ==
  ASSUME Inv, ~GrantReplaces, [Next]_vars
  PROVE  Inv'
<1>1. CASE Next
  BY <1>1, ProcessKeepsInv, ExchangeKeepsInv, RefreshKeepsInv, GrantKeepsInv, AuthorizeKeepsInv
     DEF Next
<1>2. CASE UNCHANGED vars
  BY <1>2 DEF vars, source, Inv, TypeOK, Held, InHandWhileSaving, GrantIsNew, DownIsEmpty, InTurn,
              InHandIsValid, FileIsBehindRefresh, Unsaved
<1> QED
  BY <1>1, <1>2

\* Every reachable state satisfies the invariant above.
THEOREM Invariance ==
  ASSUME ~GrantReplaces
  PROVE  Spec => []Inv
<1>1. Init => Inv
  BY InitialState
<1>2. Inv /\ [Next]_vars => Inv'
  BY StepKeepsInv
<1> QED
  BY <1>1, <1>2, PTL DEF Spec

\* The types of the state, and a code to enter only while the status asks for
\* one (source.go:58-76).
THEOREM TypeCorrect ==
  ASSUME ~GrantReplaces
  PROVE  Spec => []TypeOK
<1>1. Inv => TypeOK
  BY DEF Inv
<1> QED
  BY <1>1, Invariance, PTL

\* Wherever the process dies, the token it finds at its next start can be
\* refreshed, unless the newer one was still in hand or Yandex took it
\* (source.go:219-221).
THEOREM RestartFindsAToken ==
  ASSUME ~GrantReplaces
  PROVE  Spec => []RestartCanRefresh
<1>1. Inv => RestartCanRefresh
  BY DEF Inv, FileIsBehindRefresh, RestartCanRefresh, InHand
<1> QED
  BY <1>1, Invariance, PTL

\* Stronger: a grant that waits for its save is no excuse.  Only a refresh can
\* leave the file behind.
THEOREM OnlyARefreshLeavesTheFileBehind ==
  ASSUME ~GrantReplaces
  PROVE  Spec => []FileIsBehindRefresh
<1>1. Inv => FileIsBehindRefresh
  BY DEF Inv
<1> QED
  BY <1>1, Invariance, PTL
=============================================================================
