------------------------------ MODULE Client_proofs ------------------------------
(***************************************************************************)
(* Theorems about the client's parts that keep no form: the search box,    *)
(* the GOAT mini-game, the shell and the chat, for any people, tokens,     *)
(* texts, wins and bounds; and about the parts taken together (MCClient).  *)
(***************************************************************************)
EXTENDS Forms_proofs, MCClient, SequenceTheorems

-----------------------------------------------------------------------------
(* Combobox.                                                               *)

\* A highlight is of the list searched for, or of a cleared field, which has none.
ComboboxInv == ComboboxTypeOK /\ (activeIdx >= 0 => aimedAt = searched \/ searched = Blank)

LEMMA CountType ==
  ASSUME ComboboxTypeOK
  PROVE  ResultCount \in Nat /\ (searched = Blank => ResultCount = 0)
BY ComboboxAssumption DEF ComboboxTypeOK, ResultCount

\* The invariant without the two flags.
FieldOK ==
  /\ typed \in Typeable /\ searched \in Typeable /\ debounce \in Typeable \union {NoTimer}
  /\ activeIdx \in Int /\ activeIdx >= -1
  /\ found \subseteq LongTexts /\ aimedAt \in Typeable
  /\ activeIdx >= 0 => aimedAt = searched \/ searched = Blank

LEMMA ComboboxParts == ComboboxInv <=> FieldOK /\ listOpen \in BOOLEAN /\ blurred \in BOOLEAN
BY DEF ComboboxInv, ComboboxTypeOK, FieldOK

LEMMA ComboboxStart == ComboboxInit => ComboboxInv
<1> SUFFICES ASSUME ComboboxInit PROVE ComboboxInv
  OBVIOUS
<1>1. FieldOK
  BY DEF ComboboxInit, FieldOK, Typeable
<1>2. listOpen \in BOOLEAN /\ blurred \in BOOLEAN
  BY DEF ComboboxInit
<1> QED
  BY <1>1, <1>2, ComboboxParts

LEMMA ComboboxStep == ComboboxInv /\ [ComboboxNext]_comboboxVars => ComboboxInv'
<1> SUFFICES ASSUME ComboboxInv, [ComboboxNext]_comboboxVars PROVE ComboboxInv'
  OBVIOUS
<1>0. /\ FieldOK /\ listOpen \in BOOLEAN /\ blurred \in BOOLEAN
      /\ ResultCount \in Nat /\ Blank \in Typeable
  BY ComboboxParts, CountType DEF ComboboxInv, Typeable
<1>1. CASE UNCHANGED comboboxVars
  <2>1. FieldOK'
    BY <1>0, <1>1 DEF comboboxVars, FieldOK
  <2>2. listOpen' \in BOOLEAN /\ blurred' \in BOOLEAN
    BY <1>0, <1>1 DEF comboboxVars
  <2> QED
    BY <2>1, <2>2 DEF ComboboxInv, ComboboxTypeOK, FieldOK
<1>2. ASSUME NEW t \in Typeable, TypeText(t) PROVE ComboboxInv'
  <2>1. FieldOK'
    BY <1>0, <1>2 DEF TypeText, SetTyped, FieldOK
  <2>2. listOpen' \in BOOLEAN /\ blurred' \in BOOLEAN
    BY <1>0, <1>2 DEF TypeText
  <2> QED
    BY <2>1, <2>2 DEF ComboboxInv, ComboboxTypeOK, FieldOK
<1>3. CASE DebounceFires \/ PlayersCome
  <2>1. FieldOK'
    BY <1>0, <1>3, ComboboxAssumption DEF DebounceFires, PlayersCome, Highlight, FieldOK, Typeable
  <2>2. listOpen' \in BOOLEAN /\ blurred' \in BOOLEAN
    BY <1>0, <1>3 DEF DebounceFires, PlayersCome
  <2> QED
    BY <2>1, <2>2 DEF ComboboxInv, ComboboxTypeOK, FieldOK
<1>4. CASE BlurField \/ BlurCloses
  <2>1. FieldOK'
    BY <1>0, <1>4 DEF BlurField, BlurCloses, FieldOK
  <2>2. listOpen' \in BOOLEAN /\ blurred' \in BOOLEAN
    BY <1>0, <1>4 DEF BlurField, BlurCloses
  <2> QED
    BY <2>1, <2>2 DEF ComboboxInv, ComboboxTypeOK, FieldOK
<1>5. CASE ArrowDown \/ ArrowUp
  <2>1. UNCHANGED <<typed, searched, debounce, found, blurred>> /\ aimedAt' = searched
    BY <1>5 DEF ArrowDown, ArrowUp
  <2>2. listOpen' \in BOOLEAN
    BY <1>0, <1>5 DEF ArrowDown, ArrowUp
  <2>3. activeIdx' \in {Smaller(activeIdx + 1, ResultCount - 1), 0, Larger(activeIdx - 1, 0)}
    BY <1>5 DEF ArrowDown, ArrowUp
  <2>4. activeIdx' \in Int /\ activeIdx' >= -1
    BY <1>0, <2>3 DEF FieldOK, Smaller, Larger
  <2>5. FieldOK'
    BY <1>0, <2>1, <2>4 DEF FieldOK
  <2> QED
    BY <1>0, <2>1, <2>2, <2>5 DEF ComboboxInv, ComboboxTypeOK, FieldOK
<1>6. CASE PressEnter \/ PressOption \/ PressEscape \/ ClearText
  <2>1. /\ listOpen' = FALSE /\ UNCHANGED <<found, blurred, aimedAt>>
        /\ typed' \in {typed, Blank} /\ debounce' \in {debounce, Blank}
        /\ \/ activeIdx' = -1 /\ searched' \in {searched, Blank}
           \/ activeIdx' = activeIdx /\ searched' = Blank
    BY <1>6 DEF PressEnter, PressOption, PressEscape, ClearText, SelectOption, SetTyped
  <2>2. FieldOK'
    BY <1>0, <2>1 DEF FieldOK
  <2>3. listOpen' \in BOOLEAN /\ blurred' \in BOOLEAN
    BY <1>0, <2>1
  <2> QED
    BY <2>2, <2>3 DEF ComboboxInv, ComboboxTypeOK, FieldOK
<1> QED
  BY <1>1, <1>2, <1>3, <1>4, <1>5, <1>6 DEF ComboboxNext

\* Every variable of the player field keeps its type.
THEOREM ComboboxTypeCorrect == ComboboxSpec => []ComboboxTypeOK
<1>1. ComboboxInv => ComboboxTypeOK
  BY DEF ComboboxInv
<1> QED
  BY <1>1, ComboboxStart, ComboboxStep, PTL DEF ComboboxSpec

\* However long the lists are and whatever is typed while they load, Enter takes
\* an option only in the list the arrows were moved in (PlayerCombobox.tsx).
THEOREM EnterIsAimed == ComboboxSpec => []EnterPicksFromAimedList
<1>1. ComboboxInv => EnterPicksFromAimedList
  BY CountType DEF ComboboxInv, EnterPicksFromAimedList, EnterPicks, ComboboxTypeOK
<1> QED
  BY <1>1, ComboboxStart, ComboboxStep, PTL DEF ComboboxSpec

-----------------------------------------------------------------------------
(* Goat.                                                                   *)

(* Type correctness: a token is out before anybody holds it, and a run under *)
(* way has one armed.                                                        *)

Out == 1 .. issued

TokensOut ==
  /\ boardQ.flight = "served" => boardQ.answer \in Out
  /\ armed # NoToken => armed \in Out
  /\ \A r \in Runs :
       /\ goatRun[r].token # NoToken => goatRun[r].token \in Out
       /\ goatRun[r].next # NoToken => goatRun[r].next \in Out
       /\ goatRun[r].stage = "playing" => armed # NoToken
       /\ goatRun[r].stage \in {"sent", "consumed"} => goatRun[r].token # NoToken
       /\ goatRun[r].stage = "stored" => goatRun[r].next # NoToken

GoatTypeInv == GoatTypeOK /\ TokensOut

LEMMA GoatInitType == GoatInit => GoatTypeInv
<1> SUFFICES ASSUME GoatInit PROVE GoatTypeInv
  OBVIOUS
<1>1. boardQ \in Query(Tokens) /\ boardQ.flight = "sent"
  BY DEF GoatInit, Fetch, Sent, Unasked, Query, Flights
<1>2. Unplayed \in GoatRun
  BY DEF Unplayed, GoatRun, RunStages
<1>3. GoatTypeOK
  BY <1>1, <1>2, GoatAssumption DEF GoatInit, GoatTypeOK
<1>4. TokensOut
  BY <1>1 DEF GoatInit, TokensOut, Unplayed
<1> QED
  BY <1>3, <1>4 DEF GoatTypeInv

\* One run moves on.
LEMMA RunMoves ==
  ASSUME GoatTypeOK, NEW r \in Runs, NEW s \in RunStages,
         goatRun' = [goatRun EXCEPT ![r].stage = s]
  PROVE  /\ goatRun' \in [Runs -> GoatRun]
         /\ goatRun'[r].stage = s /\ goatRun'[r].token = goatRun[r].token
         /\ goatRun'[r].next = goatRun[r].next
         /\ \A o \in Runs : o # r => goatRun'[o] = goatRun[o]
<1>1. goatRun[r] \in GoatRun /\ goatRun' = [goatRun EXCEPT ![r] = [goatRun[r] EXCEPT !.stage = s]]
  BY DEF GoatTypeOK
<1>2. /\ [goatRun[r] EXCEPT !.stage = s] \in GoatRun
      /\ [goatRun[r] EXCEPT !.stage = s].stage = s
      /\ [goatRun[r] EXCEPT !.stage = s].token = goatRun[r].token
      /\ [goatRun[r] EXCEPT !.stage = s].next = goatRun[r].next
  BY <1>1 DEF GoatRun
<1> QED
  BY <1>1, <1>2 DEF GoatTypeOK

LEMMA GoatTypeStep == GoatTypeInv /\ [GoatNext]_goatVars => GoatTypeInv'
<1> SUFFICES ASSUME GoatTypeInv, [GoatNext]_goatVars PROVE GoatTypeInv'
  OBVIOUS
<1>0. /\ GoatTypeOK /\ TokensOut /\ boardQ \in Query(Tokens)
      /\ MaxTokens \in Nat /\ MaxRestarts \in Nat /\ issued \in Nat
      /\ Fetch(boardQ) \in Query(Tokens) /\ Refetch(boardQ) \in Query(Tokens)
  BY GoatAssumption, QuerySent DEF GoatTypeInv, GoatTypeOK, Fetch, Refetch
<1> USE DEF GoatTypeInv
<1>1. CASE UNCHANGED goatVars
  BY <1>1 DEF goatVars, goatServer, GoatTypeOK, TokensOut, Out
<1>2. CASE TokensExpire
  BY <1>0, <1>2 DEF TokensExpire, GoatTypeOK, TokensOut, Out
<1>3. CASE GoatRestart
  <2>1. \A r \in Runs : /\ goatRun[r] \in GoatRun
                        /\ [goatRun[r] EXCEPT !.stage = "refused"] \in GoatRun
                        /\ [goatRun[r] EXCEPT !.stage = "refused"].stage = "refused"
                        /\ [goatRun[r] EXCEPT !.stage = "refused"].token = goatRun[r].token
                        /\ [goatRun[r] EXCEPT !.stage = "refused"].next = goatRun[r].next
    BY <1>0 DEF GoatTypeOK, GoatRun, RunStages
  <2>2. goatRun' = [r \in Runs |-> IF goatRun[r].stage \in {"sent", "consumed"}
                                   THEN [goatRun[r] EXCEPT !.stage = "refused"] ELSE goatRun[r]]
    BY <1>3 DEF GoatRestart
  <2>3. /\ goatRun' \in [Runs -> GoatRun]
        /\ \A r \in Runs : /\ goatRun'[r].token = goatRun[r].token
                           /\ goatRun'[r].next = goatRun[r].next
                           /\ goatRun'[r].stage \in {goatRun[r].stage, "refused"}
    BY <2>1, <2>2
  <2>4. TokensOut'
    BY <1>0, <1>3, <2>3 DEF GoatRestart, TokensOut, Out
  <2>5. GoatTypeOK'
    BY <1>0, <1>3, <2>3 DEF GoatRestart, GoatTypeOK
  <2> QED
    BY <2>4, <2>5
<1>4. CASE FocusGame
  <2>1. boardQ' = Sent(boardQ)
    BY <1>4 DEF FocusGame, Fetch
  <2>2. boardQ' \in Query(Tokens) /\ boardQ'.flight = "sent"
    BY <1>0, <2>1, QuerySent
  <2> QED
    BY <1>0, <1>4, <2>2 DEF FocusGame, goatServer, GoatTypeOK, TokensOut, Out
<1>5. CASE ServeBoard
  <2>1. issued + 1 \in Tokens /\ issued' = issued + 1
    BY <1>0, <1>5 DEF ServeBoard, Tokens, GoatTypeOK
  <2>2. boardQ' \in Query(Tokens) /\ boardQ'.answer = issued + 1
    BY <1>0, <1>5, <2>1, QueryServed DEF ServeBoard
  <2>3. TokensOut'
    BY <1>0, <1>5, <2>1, <2>2 DEF ServeBoard, TokensOut, Out
  <2>4. GoatTypeOK'
    BY <1>0, <1>5, <2>1, <2>2 DEF ServeBoard, GoatTypeOK, Tokens
  <2> QED
    BY <2>3, <2>4
<1>6. CASE BoardComes \/ BoardFails
  <2>1. boardQ' \in Query(Tokens) /\ boardQ'.flight = "idle"
    BY <1>0, <1>6, QueryArrived, QueryFailed DEF BoardComes, BoardFails
  <2>2. armed' = armed \/ armed' \in Out
    BY <1>0, <1>6 DEF BoardComes, BoardFails, TokensOut
  <2>3. Out \subseteq Tokens
    BY <1>0 DEF Out, Tokens, GoatTypeOK
  <2>4. UNCHANGED <<goatServer, goatRun>>
    BY <1>6 DEF BoardComes, BoardFails
  <2>5. NoToken \notin Out
    BY GoatAssumption DEF Out
  <2> QED
    BY <1>0, <2>1, <2>2, <2>3, <2>4, <2>5 DEF goatServer, GoatTypeOK, TokensOut, Out
<1>7. ASSUME NEW r \in Runs, BeginRun(r) PROVE GoatTypeInv'
  <2>1. goatRun' = [goatRun EXCEPT ![r].stage = "playing"] /\ armed # NoToken
        /\ UNCHANGED <<goatServer, boardQ, armed>>
    BY <1>7 DEF BeginRun
  <2>2. /\ goatRun' \in [Runs -> GoatRun] /\ goatRun'[r].stage = "playing"
        /\ goatRun'[r].token = goatRun[r].token /\ goatRun'[r].next = goatRun[r].next
        /\ \A o \in Runs : o # r => goatRun'[o] = goatRun[o]
    BY <1>0, <2>1, RunMoves DEF RunStages
  <2> QED
    BY <1>0, <2>1, <2>2 DEF goatServer, GoatTypeOK, TokensOut, Out
<1>8. ASSUME NEW r \in Runs, EndGame(r) PROVE GoatTypeInv'
  <2> DEFINE ended == [goatRun[r] EXCEPT !.stage = "sent", !.token = armed]
  <2>1. goatRun[r] \in GoatRun /\ goatRun[r].stage = "playing" /\ armed # NoToken
        /\ armed \in Out /\ armed \in Tokens
    BY <1>0, <1>8 DEF EndGame, GoatTypeOK, TokensOut
  <2>2. ended \in GoatRun /\ ended.stage = "sent" /\ ended.token = armed
        /\ ended.next = goatRun[r].next
    BY <2>1 DEF GoatRun, RunStages
  <2> HIDE DEF ended
  <2>3. goatRun' = [goatRun EXCEPT ![r] = ended] /\ UNCHANGED <<goatServer, boardQ, armed>>
    BY <1>0, <1>8 DEF EndGame, GoatTypeOK, ended
  <2>4. goatRun' \in [Runs -> GoatRun] /\ goatRun'[r] = ended
        /\ \A o \in Runs : o # r => goatRun'[o] = goatRun[o]
    BY <1>0, <2>2, <2>3 DEF GoatTypeOK
  <2> QED
    BY <1>0, <2>1, <2>2, <2>3, <2>4 DEF goatServer, GoatTypeOK, TokensOut, Out
<1>9. ASSUME NEW r \in Runs, VerifyRun(r) PROVE GoatTypeInv'
  <2>1. goatRun[r].token \in Out
    BY <1>0, <1>9 DEF VerifyRun, TokensOut
  <2>2. PICK s \in {"refused", "consumed"} : goatRun' = [goatRun EXCEPT ![r].stage = s]
    BY <1>9 DEF VerifyRun
  <2>3. /\ goatRun' \in [Runs -> GoatRun] /\ goatRun'[r].stage = s
        /\ goatRun'[r].token = goatRun[r].token /\ goatRun'[r].next = goatRun[r].next
        /\ \A o \in Runs : o # r => goatRun'[o] = goatRun[o]
    BY <1>0, <2>2, RunMoves DEF RunStages
  <2>4. seen' \subseteq Out
    BY <1>0, <1>9, <2>1 DEF VerifyRun, Consume, Kept, GoatTypeOK, Out
  <2>5. UNCHANGED <<issued, expired, gameRuns, restarts, boardQ, armed>>
        /\ goatRun[r].stage = "sent"
    BY <1>9 DEF VerifyRun
  <2>6. TokensOut'
    BY <1>0, <2>3, <2>5 DEF TokensOut, Out
  <2>7. GoatTypeOK'
    BY <1>0, <2>3, <2>4, <2>5 DEF GoatTypeOK, Out
  <2> QED
    BY <2>6, <2>7
<1>10. ASSUME NEW r \in Runs, RefuseRun(r) PROVE GoatTypeInv'
  <2>1. goatRun' = [goatRun EXCEPT ![r].stage = "refused"] /\ UNCHANGED <<goatServer, boardQ, armed>>
    BY <1>10 DEF RefuseRun
  <2>2. /\ goatRun' \in [Runs -> GoatRun] /\ goatRun'[r].stage = "refused"
        /\ goatRun'[r].token = goatRun[r].token /\ goatRun'[r].next = goatRun[r].next
        /\ \A o \in Runs : o # r => goatRun'[o] = goatRun[o]
    BY <1>0, <2>1, RunMoves DEF RunStages
  <2> QED
    BY <1>0, <2>1, <2>2 DEF goatServer, GoatTypeOK, TokensOut, Out
<1>11. ASSUME NEW r \in Runs, StoreRun(r) PROVE GoatTypeInv'
  <2>1. goatRun[r].stage = "consumed" /\ goatRun[r] \in GoatRun
        /\ goatRun[r].token \in Out /\ goatRun[r].token \in Tokens
    BY <1>0, <1>11 DEF StoreRun, GoatTypeOK, TokensOut, Out, Tokens
  <2>2. gameRuns' \subseteq Runs \X Tokens
        /\ UNCHANGED <<expired, seen, restarts, boardQ, armed>>
    BY <1>0, <1>11, <2>1 DEF StoreRun, GoatTypeOK
  <2>3. CASE UNCHANGED issued /\ goatRun' = [goatRun EXCEPT ![r].stage = "refused"]
    <3>1. /\ goatRun' \in [Runs -> GoatRun] /\ goatRun'[r].stage = "refused"
          /\ goatRun'[r].token = goatRun[r].token /\ goatRun'[r].next = goatRun[r].next
          /\ \A o \in Runs : o # r => goatRun'[o] = goatRun[o]
      BY <1>0, <2>3, RunMoves DEF RunStages
    <3> QED
      BY <1>0, <2>2, <2>3, <3>1 DEF GoatTypeOK, TokensOut, Out
  <2>4. CASE /\ issued < MaxTokens /\ issued' = issued + 1
             /\ goatRun' = [goatRun EXCEPT ![r].stage = "stored", ![r].next = issued + 1]
    <3> DEFINE done == [goatRun[r] EXCEPT !.stage = "stored", !.next = issued + 1]
    <3>1. issued + 1 \in Tokens
      BY <1>0, <2>4 DEF Tokens
    <3>2. done \in GoatRun /\ done.stage = "stored" /\ done.token = goatRun[r].token
          /\ done.next = issued + 1
      BY <2>1, <3>1 DEF GoatRun, RunStages
    <3> HIDE DEF done
    <3>3. goatRun' = [goatRun EXCEPT ![r] = done]
      BY <1>0, <2>4 DEF GoatTypeOK, done
    <3>4. goatRun' \in [Runs -> GoatRun] /\ goatRun'[r] = done
          /\ \A o \in Runs : o # r => goatRun'[o] = goatRun[o]
      BY <1>0, <3>2, <3>3 DEF GoatTypeOK
    <3>5. TokensOut'
      <4>1. NoToken \notin Out' /\ \A t \in Out : t \in Out'
        BY <1>0, <2>4, GoatAssumption DEF Out
      <4>2. issued + 1 \in Out' /\ goatRun'[r].stage = "stored"
        BY <1>0, <2>4, <3>2, <3>4 DEF Out
      <4>3. goatRun'[r].next \in Out' /\ goatRun'[r].token \in Out'
        BY <2>1, <3>2, <3>4, <4>1, <4>2
      <4> QED
        BY <1>0, <2>2, <3>4, <4>1, <4>2, <4>3 DEF TokensOut
    <3>6. GoatTypeOK'
      BY <1>0, <2>2, <2>4, <3>1, <3>4 DEF GoatTypeOK, Tokens
    <3> QED
      BY <3>5, <3>6
  <2> QED
    BY <1>11, <2>3, <2>4 DEF StoreRun
<1>12. ASSUME NEW r \in Runs, HearRunStored(r) \/ HearRunRefused(r) PROVE GoatTypeInv'
  <2>1. goatRun' = [goatRun EXCEPT ![r].stage = "heard"] /\ UNCHANGED goatServer
        /\ boardQ' = Refetch(boardQ)
    BY <1>12 DEF HearRunStored, HearRunRefused, AfterRefusal
  <2>2. /\ goatRun' \in [Runs -> GoatRun] /\ goatRun'[r].stage = "heard"
        /\ goatRun'[r].token = goatRun[r].token /\ goatRun'[r].next = goatRun[r].next
        /\ \A o \in Runs : o # r => goatRun'[o] = goatRun[o]
    BY <1>0, <2>1, RunMoves DEF RunStages
  <2>3. armed' = armed \/ armed' \in Out
    BY <1>0, <1>12 DEF HearRunStored, HearRunRefused, TokensOut
  <2>4. boardQ' \in Query(Tokens) /\ (boardQ' = boardQ \/ boardQ'.flight = "sent")
    BY <1>0, <2>1, QuerySent DEF Refetch
  <2>5. NoToken \notin Out /\ Out \subseteq Tokens
    BY <1>0, GoatAssumption DEF Out, Tokens, GoatTypeOK
  <2>6. TokensOut'
    BY <1>0, <2>1, <2>2, <2>3, <2>4, <2>5 DEF goatServer, TokensOut, Out
  <2>7. GoatTypeOK'
    BY <1>0, <2>1, <2>2, <2>3, <2>4, <2>5 DEF goatServer, GoatTypeOK
  <2> QED
    BY <2>6, <2>7
<1> QED
  BY <1>1, <1>2, <1>3, <1>4, <1>5, <1>6, <1>7, <1>8, <1>9, <1>10, <1>11, <1>12 DEF GoatNext

\* Every variable of the mini-game keeps its type.
THEOREM GoatTypeCorrect == GoatSpec => []GoatTypeOK
<1>1. GoatTypeInv => GoatTypeOK
  BY DEF GoatTypeInv
<1> QED
  BY <1>1, GoatInitType, GoatTypeStep, PTL DEF GoatSpec

-----------------------------------------------------------------------------
(* Single use: what a run has consumed is refused to every other run, and no *)
(* two runs have consumed, or were stored with, the same token.              *)

Refusable(t) == t <= expired \/ t \in seen
Consumed(r) == goatRun[r].stage = "consumed"

SpentOK ==
  restarts = 0 =>
    /\ \A p \in gameRuns : Refusable(p[2])
    /\ \A r \in Runs : Consumed(r) =>
         Refusable(goatRun[r].token) /\ \A p \in gameRuns : p[2] # goatRun[r].token
    /\ \A r, o \in Runs : Consumed(r) /\ Consumed(o) /\ goatRun[r].token = goatRun[o].token
                            => r = o
    /\ TokenPaysOnce

GoatInv == GoatTypeInv /\ SpentOK

\* A step that spends nothing.
LEMMA SpendsNothing ==
  ASSUME GoatInv, restarts' = restarts, gameRuns' = gameRuns,
         \A t \in Nat : Refusable(t) => Refusable(t)',
         \A r \in Runs : Consumed(r)' => Consumed(r) /\ goatRun'[r].token = goatRun[r].token
  PROVE  SpentOK'
<1>1. \A p \in gameRuns : p[2] \in Nat
  BY DEF GoatInv, GoatTypeInv, GoatTypeOK, Tokens
<1>2. \A r \in Runs : Consumed(r) => goatRun[r].token \in Nat
  BY DEF GoatInv, GoatTypeInv, GoatTypeOK, TokensOut, Out, Consumed
<1>3. CASE restarts # 0
  BY <1>3 DEF SpentOK
<1>4. CASE restarts = 0
  <2>1. \A p \in gameRuns' : Refusable(p[2])'
    BY <1>1, <1>4 DEF GoatInv, SpentOK
  <2>2. \A r \in Runs : Consumed(r)' =>
          Refusable(goatRun[r].token)' /\ \A p \in gameRuns' : p[2] # goatRun'[r].token
    BY <1>2, <1>4 DEF GoatInv, SpentOK
  <2>3. \A r, o \in Runs : Consumed(r)' /\ Consumed(o)' /\ goatRun'[r].token = goatRun'[o].token
                             => r = o
    BY <1>4 DEF GoatInv, SpentOK
  <2>4. TokenPaysOnce'
    BY <1>4 DEF GoatInv, SpentOK, TokenPaysOnce
  <2> QED
    BY <2>1, <2>2, <2>3, <2>4 DEF SpentOK, Refusable, Consumed
<1> QED
  BY <1>3, <1>4

LEMMA GoatStart == GoatInit => GoatInv
<1> SUFFICES ASSUME GoatInit PROVE GoatInv
  OBVIOUS
<1>1. GoatTypeInv
  BY GoatInitType
<1>2. SpentOK
  BY DEF GoatInit, SpentOK, Consumed, Unplayed, TokenPaysOnce
<1> QED
  BY <1>1, <1>2 DEF GoatInv

LEMMA GoatStep == GoatInv /\ [GoatNext]_goatVars => GoatInv'
<1> SUFFICES ASSUME GoatInv, [GoatNext]_goatVars PROVE GoatInv'
  OBVIOUS
<1>0. /\ GoatTypeInv /\ GoatTypeInv' /\ GoatTypeOK /\ TokensOut /\ SpentOK
      /\ issued \in Nat /\ expired \in Nat /\ expired <= issued /\ restarts \in Nat
  BY GoatTypeStep, GoatAssumption DEF GoatInv, GoatTypeInv, GoatTypeOK
<1>1. CASE UNCHANGED goatVars \/ FocusGame \/ ServeBoard \/ BoardComes \/ BoardFails
  <2>1. UNCHANGED <<expired, seen, gameRuns, restarts, goatRun>>
    BY <1>1 DEF goatVars, goatServer, FocusGame, ServeBoard, BoardComes, BoardFails
  <2> QED
    BY <1>0, <2>1, SpendsNothing DEF GoatInv, Refusable, Consumed
<1>2. CASE TokensExpire
  <2>1. expired' >= expired /\ expired' \in Nat /\ UNCHANGED <<seen, gameRuns, restarts, goatRun>>
    BY <1>0, <1>2 DEF TokensExpire
  <2>2. \A t \in Nat : Refusable(t) => Refusable(t)'
    BY <1>0, <2>1 DEF Refusable
  <2> QED
    BY <1>0, <2>1, <2>2, SpendsNothing DEF GoatInv, Consumed
<1>3. CASE GoatRestart
  <2>1. restarts' # 0
    BY <1>0, <1>3 DEF GoatRestart
  <2> QED
    BY <1>0, <2>1 DEF GoatInv, SpentOK
<1>4. ASSUME NEW r \in Runs, NEW s \in RunStages, s # "consumed",
             goatRun' = [goatRun EXCEPT ![r].stage = s],
             UNCHANGED <<expired, seen, gameRuns, restarts>>
      PROVE  GoatInv'
  <2>1. /\ goatRun'[r].stage = s
        /\ \A o \in Runs : o # r => goatRun'[o] = goatRun[o]
    BY <1>0, <1>4, RunMoves
  <2>2. \A o \in Runs : Consumed(o)' => Consumed(o) /\ goatRun'[o].token = goatRun[o].token
    BY <1>4, <2>1 DEF Consumed
  <2> QED
    BY <1>0, <1>4, <2>2, SpendsNothing DEF GoatInv, Refusable
<1>5. ASSUME NEW r \in Runs,
             BeginRun(r) \/ RefuseRun(r) \/ HearRunStored(r) \/ HearRunRefused(r)
      PROVE  GoatInv'
  <2>1. UNCHANGED <<expired, seen, gameRuns, restarts>>
        /\ \E s \in {"playing", "refused", "heard"} : goatRun' = [goatRun EXCEPT ![r].stage = s]
    BY <1>5 DEF BeginRun, RefuseRun, HearRunStored, HearRunRefused, goatServer
  <2> QED
    BY <1>4, <2>1 DEF RunStages
<1>6. ASSUME NEW r \in Runs, EndGame(r) PROVE GoatInv'
  <2> DEFINE ended == [goatRun[r] EXCEPT !.stage = "sent", !.token = armed]
  <2>1. ended.stage = "sent"
    BY <1>0 DEF GoatTypeOK, GoatRun
  <2> HIDE DEF ended
  <2>2. goatRun' = [goatRun EXCEPT ![r] = ended]
        /\ UNCHANGED <<expired, seen, gameRuns, restarts>>
    BY <1>0, <1>6 DEF EndGame, goatServer, GoatTypeOK, ended
  <2>3. goatRun'[r] = ended /\ \A o \in Runs : o # r => goatRun'[o] = goatRun[o]
    BY <1>0, <2>2 DEF GoatTypeOK
  <2>4. \A o \in Runs : Consumed(o)' => Consumed(o) /\ goatRun'[o].token = goatRun[o].token
    BY <2>1, <2>3 DEF Consumed
  <2> QED
    BY <1>0, <2>2, <2>4, SpendsNothing DEF GoatInv, Refusable
<1>7. ASSUME NEW r \in Runs, VerifyRun(r) PROVE GoatInv'
  <2> DEFINE t == goatRun[r].token
  <2>1. t \in Nat /\ UNCHANGED <<issued, expired, gameRuns, restarts>>
    BY <1>0, <1>7 DEF VerifyRun, TokensOut, Out
  <2>2. CASE goatRun' = [goatRun EXCEPT ![r].stage = "refused"] /\ UNCHANGED seen
    BY <1>4, <2>1, <2>2 DEF RunStages
  <2>3. CASE /\ ~Refusable(t) /\ seen' = Consume(t)
             /\ goatRun' = [goatRun EXCEPT ![r].stage = "consumed"]
    <3>1. /\ goatRun'[r].stage = "consumed" /\ goatRun'[r].token = t
          /\ \A o \in Runs : o # r => goatRun'[o] = goatRun[o]
      BY <1>0, <2>3, RunMoves DEF RunStages
    <3>2. Refusable(t)' /\ \A k \in Nat : Refusable(k) => Refusable(k)'
      BY <1>0, <2>1, <2>3 DEF Refusable, Consume, Kept
    <3>3. CASE restarts = 0
      <4>1. \A p \in gameRuns : p[2] \in Nat /\ Refusable(p[2]) /\ p[2] # t
        BY <1>0, <2>3, <3>3 DEF SpentOK, GoatTypeOK, Tokens
      <4>2. \A o \in Runs : Consumed(o) =>
              goatRun[o].token \in Nat /\ Refusable(goatRun[o].token) /\ goatRun[o].token # t
        BY <1>0, <2>3, <3>3 DEF SpentOK, TokensOut, Out, Consumed
      <4>3. \A p \in gameRuns' : Refusable(p[2])'
        BY <2>1, <3>2, <4>1
      <4>4. \A o \in Runs : Consumed(o)' =>
              Refusable(goatRun[o].token)' /\ \A p \in gameRuns' : p[2] # goatRun'[o].token
        <5>1. ASSUME NEW o \in Runs, o # r, Consumed(o)'
              PROVE  Refusable(goatRun[o].token)' /\ \A p \in gameRuns' : p[2] # goatRun'[o].token
          <6>1. Consumed(o) /\ goatRun'[o].token = goatRun[o].token
            BY <3>1, <5>1 DEF Consumed
          <6>2. Refusable(goatRun[o].token)'
            BY <3>2, <4>2, <6>1, <3>1, <5>1 DEF Refusable
          <6> QED
            BY <1>0, <2>1, <3>3, <6>1, <6>2 DEF SpentOK, Refusable
        <5>2. Refusable(goatRun[r].token)' /\ \A p \in gameRuns' : p[2] # goatRun'[r].token
          BY <2>1, <3>1, <3>2, <4>1 DEF Refusable
        <5> QED
          BY <5>1, <5>2
      <4>5. \A o, q \in Runs : Consumed(o)' /\ Consumed(q)'
                                 /\ goatRun'[o].token = goatRun'[q].token => o = q
        BY <1>0, <3>1, <3>3, <4>2 DEF SpentOK, Consumed
      <4>6. TokenPaysOnce'
        BY <1>0, <2>1, <3>3 DEF SpentOK, TokenPaysOnce
      <4>7. SpentOK'
        BY <4>3, <4>4, <4>5, <4>6 DEF SpentOK, Refusable, Consumed
      <4> QED
        BY <1>0, <4>7 DEF GoatInv
    <3>4. CASE restarts # 0
      BY <1>0, <2>1, <3>4 DEF GoatInv, SpentOK
    <3> QED
      BY <3>3, <3>4
  <2> QED
    BY <1>7, <2>2, <2>3 DEF VerifyRun, Refusable
<1>8. ASSUME NEW r \in Runs, StoreRun(r) PROVE GoatInv'
  <2> DEFINE t == goatRun[r].token
  <2>1. /\ Consumed(r) /\ gameRuns' = gameRuns \union {<<r, t>>}
        /\ UNCHANGED <<expired, seen, restarts>>
    BY <1>8 DEF StoreRun, Consumed
  <2>2. ~Consumed(r)' /\ \A o \in Runs : o # r => goatRun'[o] = goatRun[o]
    <3>1. CASE goatRun' = [goatRun EXCEPT ![r].stage = "refused"]
      BY <1>0, <3>1, RunMoves DEF RunStages, Consumed
    <3>2. CASE goatRun' = [goatRun EXCEPT ![r].stage = "stored", ![r].next = issued + 1]
      <4> DEFINE done == [goatRun[r] EXCEPT !.stage = "stored", !.next = issued + 1]
      <4>1. done.stage = "stored"
        BY <1>0 DEF GoatTypeOK, GoatRun
      <4> HIDE DEF done
      <4>2. goatRun' = [goatRun EXCEPT ![r] = done]
        BY <1>0, <3>2 DEF GoatTypeOK, done
      <4> QED
        BY <1>0, <4>1, <4>2 DEF GoatTypeOK, Consumed
    <3> QED
      BY <1>8, <3>1, <3>2 DEF StoreRun
  <2>3. CASE restarts = 0
    <3>1. \A o \in Runs : Consumed(o)' =>
            o # r /\ Consumed(o) /\ goatRun'[o] = goatRun[o] /\ goatRun[o].token # t
      BY <1>0, <2>1, <2>2, <2>3 DEF SpentOK, Consumed
    <3>2. \A p \in gameRuns' : Refusable(p[2])'
      BY <1>0, <2>1, <2>3 DEF SpentOK, Refusable
    <3>3. \A o \in Runs : Consumed(o)' =>
            Refusable(goatRun[o].token)' /\ \A p \in gameRuns' : p[2] # goatRun'[o].token
      BY <1>0, <2>1, <2>3, <3>1 DEF SpentOK, Refusable
    <3>4. \A o, q \in Runs : Consumed(o)' /\ Consumed(q)'
                               /\ goatRun'[o].token = goatRun'[q].token => o = q
      BY <1>0, <2>3, <3>1 DEF SpentOK
    <3>5. TokenPaysOnce'
      BY <1>0, <2>1, <2>3 DEF SpentOK, TokenPaysOnce
    <3>6. SpentOK'
      BY <3>2, <3>3, <3>4, <3>5 DEF SpentOK, Refusable, Consumed
    <3> QED
      BY <1>0, <3>6 DEF GoatInv
  <2>4. CASE restarts # 0
    BY <1>0, <2>1, <2>4 DEF GoatInv, SpentOK
  <2> QED
    BY <2>3, <2>4
<1> QED
  BY <1>1, <1>2, <1>3, <1>5, <1>6, <1>7, <1>8 DEF GoatNext

\* However many runs are under way at once, until the server restarts no token
\* pays for two of them (game_handler.go, seenJTI).
THEOREM TokensPayOnce == GoatSpec => []TokenPaysOnce
<1>1. GoatInv => TokenPaysOnce
  BY DEF GoatInv, SpentOK, TokenPaysOnce
<1> QED
  BY <1>1, GoatStart, GoatStep, PTL DEF GoatSpec

-----------------------------------------------------------------------------
(* Goat: the next run's token.  A token on its way to the page is one no run *)
(* was sent with and not the one armed, as it was minted after both; and     *)
(* whatever is armed came with boards that loaded, so that asking for them   *)
(* again sends a new request.                                                *)

OnItsWay(t) == boardQ.flight = "served" => boardQ.answer # t

BoardsFresh ==
  /\ \A r \in Runs : goatRun[r].token # NoToken => OnItsWay(goatRun[r].token)
  /\ armed # NoToken => boardQ.data # NoData /\ OnItsWay(armed)
  /\ \A r \in Runs : goatRun[r].stage # "unplayed" => armed # NoToken

FreshInv == GoatTypeInv /\ BoardsFresh /\ NextRunIsFresh

\* A run was sent with the token armed, or with none.
LEMMA ArmedIsFresh ==
  ASSUME \A r \in Runs : goatRun[r].token # NoToken => goatRun[r].token # armed
  PROVE  armed \notin SentWith
BY DEF SentWith

LEMMA FreshStart == GoatInit => FreshInv
<1> SUFFICES ASSUME GoatInit PROVE FreshInv
  OBVIOUS
<1>1. GoatTypeInv
  BY GoatInitType
<1>2. BoardsFresh
  BY DEF GoatInit, BoardsFresh, Unplayed
<1>3. NextRunIsFresh
  BY ArmedIsFresh DEF GoatInit, NextRunIsFresh, Unplayed
<1> QED
  BY <1>1, <1>2, <1>3 DEF FreshInv

\* A step that leaves the boards, what is armed and the tokens sent with.
LEMMA FreshIfUnsent ==
  ASSUME FreshInv, GoatTypeInv', boardQ' = boardQ, armed' = armed,
         \A r \in Runs :
           /\ goatRun'[r].token = goatRun[r].token
           /\ goatRun'[r].stage # "unplayed" => goatRun[r].stage # "unplayed" \/ armed # NoToken
           /\ goatRun'[r].stage \in {"unplayed", "playing", "heard"} =>
                goatRun[r].stage \in {"unplayed", "playing", "heard"}
  PROVE  FreshInv'
<1>1. BoardsFresh'
  BY DEF FreshInv, BoardsFresh, OnItsWay
<1>2. SentWith' = SentWith
  BY DEF SentWith
<1>3. NextRunIsFresh'
  BY <1>2 DEF FreshInv, NextRunIsFresh
<1> QED
  BY <1>1, <1>3 DEF FreshInv

\* A step after which the boards are under way, or failed.
LEMMA FreshIfAsked ==
  ASSUME GoatTypeInv', BoardsFresh', boardQ'.flight # "idle" \/ boardQ'.failed
  PROVE  FreshInv'
BY DEF FreshInv, NextRunIsFresh

LEMMA FreshStep == FreshInv /\ [GoatNext]_goatVars => FreshInv'
<1> SUFFICES ASSUME FreshInv, [GoatNext]_goatVars PROVE FreshInv'
  OBVIOUS
<1>0. /\ GoatTypeInv /\ GoatTypeInv' /\ GoatTypeOK /\ TokensOut /\ BoardsFresh
      /\ boardQ \in Query(Tokens) /\ issued \in Nat
  BY GoatTypeStep, GoatAssumption DEF FreshInv, GoatTypeInv, GoatTypeOK
<1>1. CASE UNCHANGED goatVars \/ TokensExpire
  <2>1. UNCHANGED <<boardQ, armed, goatRun>>
    BY <1>1 DEF goatVars, TokensExpire
  <2> QED
    BY <1>0, <2>1, FreshIfUnsent
<1>2. CASE GoatRestart
  <2>1. /\ UNCHANGED <<boardQ, armed>>
        /\ goatRun' = [r \in Runs |-> IF goatRun[r].stage \in {"sent", "consumed"}
                                      THEN [goatRun[r] EXCEPT !.stage = "refused"] ELSE goatRun[r]]
    BY <1>2 DEF GoatRestart
  <2>2. \A r \in Runs : /\ [goatRun[r] EXCEPT !.stage = "refused"].stage = "refused"
                        /\ [goatRun[r] EXCEPT !.stage = "refused"].token = goatRun[r].token
    BY <1>0 DEF GoatTypeOK, GoatRun
  <2>3. \A r \in Runs : /\ goatRun'[r].token = goatRun[r].token
                        /\ goatRun'[r].stage = goatRun[r].stage
                           \/ (goatRun'[r].stage = "refused"
                               /\ goatRun[r].stage \in {"sent", "consumed"})
    BY <2>1, <2>2
  <2> QED
    BY <1>0, <2>1, <2>3, FreshIfUnsent
<1>3. CASE FocusGame
  <2>1. boardQ'.flight = "sent" /\ boardQ'.data = boardQ.data /\ UNCHANGED <<armed, goatRun>>
    BY <1>0, <1>3, QueryFetched DEF FocusGame
  <2>2. BoardsFresh'
    BY <1>0, <2>1 DEF BoardsFresh, OnItsWay
  <2> QED
    BY <1>0, <2>1, <2>2, FreshIfAsked
<1>4. CASE ServeBoard
  <2>1. issued + 1 \in Tokens
    BY <1>0, <1>4, GoatAssumption DEF ServeBoard, Tokens, GoatTypeOK
  <2>2. /\ boardQ'.flight = "served" /\ boardQ'.answer = issued + 1 /\ boardQ'.data = boardQ.data
        /\ UNCHANGED <<armed, goatRun>>
    BY <1>0, <1>4, <2>1, QueryServed DEF ServeBoard
  <2>3. \A t \in Out : t # issued + 1
    BY <1>0 DEF Out
  <2>4. BoardsFresh'
    BY <1>0, <2>2, <2>3 DEF BoardsFresh, OnItsWay, TokensOut
  <2> QED
    BY <1>0, <2>2, <2>4, FreshIfAsked
<1>5. CASE BoardComes
  <2>1. /\ boardQ.flight = "served" /\ armed' = boardQ.answer /\ UNCHANGED goatRun
        /\ boardQ'.flight = "idle" /\ boardQ'.data = boardQ.answer
    BY <1>0, <1>5, QueryArrived DEF BoardComes
  <2>2. armed' \in Out /\ armed' # NoToken /\ boardQ'.data # NoData
    BY <1>0, <2>1, GoatAssumption DEF TokensOut, Out
  <2>3. BoardsFresh'
    BY <1>0, <2>1, <2>2 DEF BoardsFresh, OnItsWay
  <2>4. \A r \in Runs : goatRun'[r].token # NoToken => goatRun'[r].token # armed'
    BY <1>0, <2>1 DEF BoardsFresh, OnItsWay
  <2>5. (armed \notin SentWith)'
    BY <2>4 DEF SentWith
  <2> QED
    BY <1>0, <2>3, <2>5 DEF FreshInv, NextRunIsFresh
<1>6. CASE BoardFails
  <2>1. boardQ'.flight = "idle" /\ boardQ'.data = boardQ.data /\ boardQ'.failed
        /\ UNCHANGED <<armed, goatRun>>
    BY <1>0, <1>6, QueryFailed DEF BoardFails
  <2>2. BoardsFresh'
    BY <1>0, <2>1 DEF BoardsFresh, OnItsWay
  <2> QED
    BY <1>0, <2>1, <2>2, FreshIfAsked
<1>7. ASSUME NEW r \in Runs, BeginRun(r) PROVE FreshInv'
  <2>1. goatRun' = [goatRun EXCEPT ![r].stage = "playing"] /\ armed # NoToken
        /\ goatRun[r].stage = "unplayed" /\ UNCHANGED <<boardQ, armed>>
    BY <1>7 DEF BeginRun
  <2>2. /\ goatRun'[r].stage = "playing" /\ goatRun'[r].token = goatRun[r].token
        /\ \A o \in Runs : o # r => goatRun'[o] = goatRun[o]
    BY <1>0, <2>1, RunMoves DEF RunStages
  <2> QED
    BY <1>0, <2>1, <2>2, FreshIfUnsent
<1>8. ASSUME NEW r \in Runs, EndGame(r) PROVE FreshInv'
  <2> DEFINE ended == [goatRun[r] EXCEPT !.stage = "sent", !.token = armed]
  <2>1. /\ goatRun[r].stage = "playing" /\ ended.stage = "sent" /\ ended.token = armed
        /\ armed # NoToken
    BY <1>0, <1>8 DEF EndGame, GoatTypeOK, GoatRun, TokensOut
  <2> HIDE DEF ended
  <2>2. goatRun' = [goatRun EXCEPT ![r] = ended] /\ UNCHANGED <<boardQ, armed>>
    BY <1>0, <1>8 DEF EndGame, GoatTypeOK, ended
  <2>3. goatRun'[r] = ended /\ \A o \in Runs : o # r => goatRun'[o] = goatRun[o]
    BY <1>0, <2>2 DEF GoatTypeOK
  <2>4. BoardsFresh'
    BY <1>0, <2>1, <2>2, <2>3 DEF BoardsFresh, OnItsWay
  <2>5. NextRunIsFresh'
    BY <2>1, <2>3 DEF NextRunIsFresh
  <2> QED
    BY <1>0, <2>4, <2>5 DEF FreshInv
<1>9. ASSUME NEW r \in Runs, NEW s \in RunStages \ {"unplayed", "playing", "heard"},
             goatRun[r].stage \in {"sent", "consumed"},
             goatRun' = [goatRun EXCEPT ![r].stage = s], UNCHANGED <<boardQ, armed>>
      PROVE  FreshInv'
  <2>1. /\ goatRun'[r].stage = s /\ goatRun'[r].token = goatRun[r].token
        /\ \A o \in Runs : o # r => goatRun'[o] = goatRun[o]
    BY <1>0, <1>9, RunMoves
  <2> QED
    BY <1>0, <1>9, <2>1, FreshIfUnsent
<1>10. ASSUME NEW r \in Runs, VerifyRun(r) \/ RefuseRun(r) PROVE FreshInv'
  <2>1. /\ goatRun[r].stage \in {"sent", "consumed"} /\ UNCHANGED <<boardQ, armed>>
        /\ \E s \in {"refused", "consumed"} : goatRun' = [goatRun EXCEPT ![r].stage = s]
    BY <1>10 DEF VerifyRun, RefuseRun
  <2> QED
    BY <1>9, <2>1 DEF RunStages
<1>11. ASSUME NEW r \in Runs, StoreRun(r) PROVE FreshInv'
  <2>1. goatRun[r].stage = "consumed" /\ UNCHANGED <<boardQ, armed>>
    BY <1>11 DEF StoreRun
  <2>2. CASE goatRun' = [goatRun EXCEPT ![r].stage = "refused"]
    BY <1>9, <2>1, <2>2 DEF RunStages
  <2>3. CASE goatRun' = [goatRun EXCEPT ![r].stage = "stored", ![r].next = issued + 1]
    <3> DEFINE done == [goatRun[r] EXCEPT !.stage = "stored", !.next = issued + 1]
    <3>1. done.stage = "stored" /\ done.token = goatRun[r].token
      BY <1>0 DEF GoatTypeOK, GoatRun
    <3> HIDE DEF done
    <3>2. goatRun' = [goatRun EXCEPT ![r] = done]
      BY <1>0, <2>3 DEF GoatTypeOK, done
    <3>3. goatRun'[r] = done /\ \A o \in Runs : o # r => goatRun'[o] = goatRun[o]
      BY <1>0, <3>2 DEF GoatTypeOK
    <3> QED
      BY <1>0, <2>1, <3>1, <3>3, FreshIfUnsent
  <2> QED
    BY <1>11, <2>2, <2>3 DEF StoreRun
<1>12. ASSUME NEW r \in Runs, HearRunStored(r) \/ HearRunRefused(r) PROVE FreshInv'
  <2>1. /\ goatRun' = [goatRun EXCEPT ![r].stage = "heard"] /\ boardQ' = Refetch(boardQ)
        /\ goatRun[r].stage # "unplayed"
    BY <1>12 DEF HearRunStored, HearRunRefused, AfterRefusal
  <2>2. boardQ.data # NoData /\ armed # NoToken
    BY <1>0, <2>1 DEF BoardsFresh
  <2>3. boardQ'.flight = "sent" /\ boardQ'.data # NoData
    BY <1>0, <2>1, <2>2, QueryRefetched
  <2>4. armed' # NoToken
    BY <1>0, <1>12, <2>2 DEF HearRunStored, HearRunRefused, TokensOut
  <2>5. BoardsFresh'
    BY <2>3, <2>4 DEF BoardsFresh, OnItsWay
  <2> QED
    BY <1>0, <2>3, <2>5, FreshIfAsked
<1> QED
  BY <1>1, <1>2, <1>3, <1>4, <1>5, <1>6, <1>7, <1>8, <1>10, <1>11, <1>12 DEF GoatNext

\* Whatever became of the runs before, refused, lost or stored, the next run is armed
\* with a token no run was sent with, once the boards are loaded (GoatGame.tsx, "refetch
\* so a fresh run_token is armed for the next run").
THEOREM NextRunsAreFresh == GoatSpec => []NextRunIsFresh
<1>1. FreshInv => NextRunIsFresh
  BY DEF FreshInv
<1> QED
  BY <1>1, FreshStart, FreshStep, PTL DEF GoatSpec

-----------------------------------------------------------------------------
(* Shell: type correctness, with what an answer on its way is.             *)

MeOK ==
  /\ meQ \in Query(Whoever) /\ meQ.flight # "sent"
  /\ meQ.flight = "served" => meQ.answer \in Whoever
CelOK ==
  /\ celQ \in Query(PendingList) /\ celAsker \in Whoever
  /\ celQ.flight = "served" => celQ.answer \in PendingList
RecordOK ==
  /\ won \subseteq Wins
  /\ viewed \in [Persons -> SUBSET Wins] /\ viewedBefore \in [Persons -> SUBSET Wins]
  /\ played \in [Persons -> SUBSET Wins] /\ lost \in [Persons -> SUBSET Wins]
  /\ visits \in 1 .. MaxVisits /\ signIns \in 0 .. MaxSignIns
AuthOK == auth = NoAuth \/ auth \in [kind : {"login", "logout"}, who : Whoever,
                                    at : {"sent", "served", "refused"}]
OverlayOK == skips \subseteq ASkip /\ marks \subseteq AMark
FlagsOK == dismissed \in BOOLEAN /\ doubt \in {"none", "some", "asked"}

ShellTyped ==
  cookie \in Whoever /\ MeOK /\ CelOK /\ RecordOK /\ AuthOK /\ OverlayOK /\ FlagsOK

LEMMA ShellTypedOK == ShellTyped => ShellTypeOK
BY DEF ShellTyped, ShellTypeOK, MeOK, CelOK, RecordOK, AuthOK, OverlayOK, FlagsOK

\* A question about the session is answered at once, or joins the answer on its way.
LEMMA MeIsAsked ==
  ASSUME NEW q \in Query(Whoever), q.flight # "sent", NEW p \in Whoever
  PROVE  /\ AskMe(q, p) \in Query(Whoever) /\ AskMe(q, p).flight = "served"
         /\ AskMe(q, p).data = q.data
         /\ AskMe(q, p) = q \/ (q.flight = "idle" /\ AskMe(q, p).answer = p)
<1>1. Fetch(q) \in Query(Whoever) /\ Fetch(q).data = q.data
  BY QueryFetched
<1>2. /\ Served(Fetch(q), p) \in Query(Whoever) /\ Served(Fetch(q), p).flight = "served"
      /\ Served(Fetch(q), p).data = q.data /\ Served(Fetch(q), p).answer = p
  BY <1>1, QueryServed
<1>3. q.flight \in {"idle", "served"}
  BY DEF Query, Flights
<1> QED
  BY <1>2, <1>3 DEF AskMe

\* The last retry fails: the data are as before.
LEMMA QueryGivenUp ==
  ASSUME NEW D, NEW q \in Query(D)
  PROVE  GivenUp(q) \in Query(D) /\ GivenUp(q).flight = "idle" /\ GivenUp(q).data = q.data
<1>1. Failed(q) \in Query(D) /\ Failed(q).flight = "idle" /\ Failed(q).data = q.data
  BY QueryFailed
<1> QED
  BY <1>1 DEF GivenUp, Query

\* The celebrations' query rests, or is asked, with the cookie as it is.
CelMoves ==
  /\ celQ' \in Query(PendingList) /\ celQ'.data = celQ.data
  /\ celQ' = celQ \/ celQ'.flight = "sent"
  /\ celAsker' \in {celAsker, cookie'}
  /\ celQ' # celQ => celAsker' = cookie'

LEMMA CelFetches ==
  ASSUME CelOK, NEW b \in BOOLEAN,
         celQ' = (IF b THEN Fetch(celQ) ELSE celQ),
         celAsker' = IF celQ'.flight = "sent" /\ celQ.flight # "sent" THEN cookie' ELSE celAsker
  PROVE  CelMoves
<1>1. /\ Fetch(celQ) \in Query(PendingList) /\ Fetch(celQ).data = celQ.data
      /\ (Fetch(celQ) = celQ /\ celQ.flight # "idle")
         \/ (celQ.flight = "idle" /\ Fetch(celQ).flight = "sent")
  BY QueryFetched DEF CelOK
<1>2. CASE b
  BY <1>1, <1>2 DEF CelMoves, CelOK
<1>3. CASE ~b
  BY <1>3 DEF CelMoves, CelOK
<1> QED
  BY <1>2, <1>3

LEMMA Renders ==
  ASSUME CelOK, NEW m, Render(m, celQ)
  PROVE  meQ' = m /\ CelMoves
<1>1. meQ' = m /\ (SignedIn(m) /\ ~SignedIn(meQ)) \in BOOLEAN
  BY DEF Render
<1>2. celQ' = IF SignedIn(m) /\ ~SignedIn(meQ) THEN Fetch(celQ) ELSE celQ
  BY DEF Render
<1>3. celAsker' = IF celQ'.flight = "sent" /\ celQ.flight # "sent" THEN cookie' ELSE celAsker
  BY DEF Render
<1> QED
  BY <1>1, <1>2, <1>3, CelFetches

LEMMA CelMovesType ==
  ASSUME CelOK, cookie' \in Whoever, CelMoves
  PROVE  CelOK'
BY DEF CelOK, CelMoves

\* What comes to nothing are wins.
LEMMA LostAreWins ==
  ASSUME NEW p, NEW ms \in SUBSET AMark
  PROVE  LostBy(p, ms) \in SUBSET Wins
<1>1. \A k \in ms : k.wins \in SUBSET Wins
  BY DEF AMark
<1> QED
  BY <1>1 DEF LostBy

LEMMA MoreLost ==
  ASSUME lost \in [Persons -> SUBSET Wins], NEW ms \in SUBSET AMark,
         lost' = [p \in Persons |-> lost[p] \union LostBy(p, ms)]
  PROVE  lost' \in [Persons -> SUBSET Wins]
<1>1. \A p \in Persons : lost[p] \union LostBy(p, ms) \in SUBSET Wins
  BY LostAreWins
<1> QED
  BY <1>1

LEMMA MarksOfWins ==
  ASSUME cookie \in Whoever, NEW by \in Whoever, NEW wins \in SUBSET Wins
  PROVE  MarkOf(by, wins) \subseteq AMark
<1>1. [by |-> by, who |-> cookie, wins |-> wins, stored |-> FALSE] \in AMark
  BY DEF AMark
<1> QED
  BY <1>1 DEF MarkOf

LEMMA ShellStartsTyped == ShellInit => ShellTyped
<1> SUFFICES ASSUME ShellInit PROVE ShellTyped
  OBVIOUS
<1>1. cookie \in Whoever /\ RecordOK /\ AuthOK /\ OverlayOK
  BY ShellAssumption DEF ShellInit, RecordOK, AuthOK, OverlayOK
<1>2. MeOK
  BY <1>1, QueryStarts, MeIsAsked DEF ShellInit, MeOK
<1>3. CelOK
  BY QueryStarts DEF ShellInit, CelOK, Whoever
<1>4. FlagsOK
  BY DEF ShellInit, FlagsOK
<1> QED
  BY <1>1, <1>2, <1>3, <1>4 DEF ShellTyped

\* Where neither query moves.
LEMMA QueriesRest ==
  ASSUME MeOK, CelOK, UNCHANGED <<meQ, celQ, celAsker>>
  PROVE  MeOK' /\ CelOK'
BY DEF MeOK, CelOK

LEMMA PendingAreWins ==
  ASSUME CelOK
  PROVE  PendingWins(celQ) \in SUBSET Wins
BY DEF CelOK, Query, PendingList, PendingWins

LEMMA ShellStepTyped == ShellTyped /\ [ShellNext]_shellVars => ShellTyped'
<1> SUFFICES ASSUME ShellTyped, [ShellNext]_shellVars PROVE ShellTyped'
  OBVIOUS
<1>0. /\ cookie \in Whoever /\ MeOK /\ CelOK /\ RecordOK /\ AuthOK /\ OverlayOK /\ FlagsOK
      /\ Nobody \in Whoever /\ MaxVisits \in Nat /\ MaxSignIns \in Nat
  BY ShellAssumption DEF ShellTyped, Whoever
<1>1. CASE UNCHANGED shellVars
  <2>1. UNCHANGED <<meQ, celQ, celAsker>>
    BY <1>1 DEF shellVars, shellTab
  <2> QED
    BY <1>0, <1>1, <2>1, QueriesRest
       DEF shellVars, shellServer, shellTab, shellSeen, ShellTyped, RecordOK, AuthOK, OverlayOK, FlagsOK
<1>2. CASE Reload
  <2>1. MeOK'
    BY <1>0, <1>2, QueryStarts, MeIsAsked DEF Reload, FreshTab, MeOK
  <2>2. CelOK'
    BY <1>0, <1>2, QueryStarts DEF Reload, FreshTab, CelOK
  <2>3. lost' \in [Persons -> SUBSET Wins]
    BY <1>0, <1>2, MoreLost DEF Reload, RecordOK, OverlayOK
  <2>3a. RecordOK' /\ cookie' \in Whoever
    BY <1>0, <1>2, <2>3 DEF Reload, shellServer, RecordOK
  <2>4. AuthOK' /\ OverlayOK'
    BY <1>2 DEF Reload, FreshTab, AuthOK, OverlayOK
  <2>5. FlagsOK'
    BY <1>2 DEF Reload, FreshTab, FlagsOK
  <2> QED
    BY <2>1, <2>2, <2>3a, <2>4, <2>5 DEF ShellTyped
<1>3. CASE \E w \in Wins : Win(w) \/ \E p \in Persons : ViewElsewhere(p, w)
  <2>1. UNCHANGED <<cookie, visits, signIns, viewedBefore, meQ, celQ, celAsker, auth,
                    dismissed, skips, marks, doubt, played, lost>>
    BY <1>3 DEF Win, ViewElsewhere, shellTab, shellSeen
  <2>2. RecordOK'
    <3>1. CASE \E w \in Wins : Win(w)
      BY <1>0, <2>1, <3>1 DEF Win, RecordOK
    <3>2. CASE \E w \in Wins, p \in Persons : ViewElsewhere(p, w)
      BY <1>0, <2>1, <3>2 DEF ViewElsewhere, RecordOK
    <3> QED
      BY <1>3, <3>1, <3>2
  <2> QED
    BY <1>0, <2>1, <2>2, QueriesRest DEF ShellTyped, AuthOK, FlagsOK, OverlayOK
<1>3a. ASSUME NEW k \in marks, ServeMark(k) PROVE ShellTyped'
  <2>1. UNCHANGED <<cookie, won, visits, signIns, viewedBefore, meQ, celQ, celAsker, auth,
                    dismissed, skips, doubt, played, lost>>
    BY <1>3a DEF ServeMark, shellSeen
  <2>2. k \in AMark /\ k.who \in Persons
    BY <1>0, <1>3a DEF ServeMark, OverlayOK, AMark, Whoever
  <2>3. RecordOK'
    BY <1>0, <1>3a, <2>1, <2>2 DEF ServeMark, RecordOK, AMark
  <2>4. OverlayOK'
    BY <1>0, <1>3a, <2>1, <2>2 DEF ServeMark, OverlayOK, AMark
  <2> QED
    BY <1>0, <2>1, <2>3, <2>4, QueriesRest DEF ShellTyped, AuthOK, FlagsOK
<1>4. CASE \/ \E p \in Persons : SignInAs(p)
           \/ LogOut \/ ServeAuth \/ AuthLost \/ Expire
  <2>1. UNCHANGED <<won, viewed, visits, viewedBefore, meQ, celQ, celAsker,
                    dismissed, skips, marks, played, lost>>
    BY <1>4 DEF SignInAs, LogOut, ServeAuth, AuthLost, Expire, shellServer, shellSeen
  <2>2. cookie' \in Whoever
    BY <1>0, <1>4 DEF SignInAs, LogOut, ServeAuth, AuthLost, Expire, shellServer, AuthOK
  <2>3. AuthOK'
    <3>1. CASE \E p \in Persons : SignInAs(p)
      BY <3>1 DEF SignInAs, AuthOK, Whoever
    <3>2. CASE LogOut
      BY <1>0, <3>2 DEF LogOut, AuthOK
    <3>3. CASE ServeAuth
      BY <1>0, <3>3 DEF ServeAuth, AuthOK
    <3>4. CASE AuthLost \/ Expire
      BY <1>0, <3>4 DEF AuthLost, Expire, AuthOK
    <3> QED
      BY <1>4, <3>1, <3>2, <3>3, <3>4
  <2>4. signIns' \in 0 .. MaxSignIns
    BY <1>0, <1>4 DEF SignInAs, LogOut, ServeAuth, AuthLost, Expire, RecordOK
  <2>5. RecordOK' /\ OverlayOK'
    BY <1>0, <2>1, <2>4 DEF RecordOK, OverlayOK
  <2>6. FlagsOK'
    BY <1>0, <1>4, <2>1 DEF SignInAs, LogOut, ServeAuth, AuthLost, Expire, FlagsOK
  <2> QED
    BY <1>0, <2>1, <2>2, <2>3, <2>5, <2>6, QueriesRest DEF ShellTyped
<1>5. CASE Skip \/ CelebrationDone
  <2>1. UNCHANGED <<shellServer, visits, signIns, viewedBefore, meQ, celQ, celAsker, auth, doubt>>
    BY <1>5 DEF Skip, CelebrationDone
  <2>2. PendingWins(celQ) \in SUBSET Wins /\ Me(meQ) \in Whoever
    BY <1>0, PendingAreWins DEF Me, MeOK, Query
  <2>3. OverlayOK' /\ dismissed' \in BOOLEAN
        /\ played' \in [Persons -> SUBSET Wins] /\ lost' \in [Persons -> SUBSET Wins]
    <3>1. ASSUME NEW by \in Whoever, NEW wins \in SUBSET Wins, Done(by, wins),
                 skips' \subseteq skips
          PROVE  /\ OverlayOK' /\ dismissed' \in BOOLEAN
                 /\ played' \in [Persons -> SUBSET Wins] /\ lost' \in [Persons -> SUBSET Wins]
      <4>1. marks' = marks \union MarkOf(by, wins) /\ dismissed' = TRUE
        BY <3>1 DEF Done
      <4>2. OverlayOK'
        BY <1>0, <3>1, <4>1, MarksOfWins DEF OverlayOK
      <4>3. played' \in [Persons -> SUBSET Wins] /\ lost' \in [Persons -> SUBSET Wins]
        BY <1>0, <3>1 DEF Done, RecordOK
      <4> QED
        BY <4>1, <4>2, <4>3
    <3>2. CASE Skip
      <4>1. [by |-> Me(meQ), wins |-> PendingWins(celQ)] \in ASkip
        BY <2>2 DEF ASkip
      <4> QED
        BY <1>0, <3>2, <4>1 DEF Skip, OverlayOK, FlagsOK, RecordOK, shellSeen
    <3>3. CASE CelebrationDone
      <4>1. CASE Done(Me(meQ), PendingWins(celQ)) /\ UNCHANGED skips
        BY <2>2, <3>1, <4>1
      <4>2. ASSUME NEW k \in skips, Done(k.by, k.wins), skips' = skips \ {k}
            PROVE  /\ OverlayOK' /\ dismissed' \in BOOLEAN
                   /\ played' \in [Persons -> SUBSET Wins] /\ lost' \in [Persons -> SUBSET Wins]
        <5>1. k.by \in Whoever /\ k.wins \in SUBSET Wins
          BY <1>0 DEF OverlayOK, ASkip
        <5> QED
          BY <3>1, <4>2, <5>1
      <4> QED
        BY <3>3, <4>1, <4>2 DEF CelebrationDone
    <3> QED
      BY <1>5, <3>2, <3>3
  <2>4. RecordOK' /\ cookie' \in Whoever /\ AuthOK'
    BY <1>0, <2>1, <2>3 DEF shellServer, RecordOK, AuthOK
  <2>5. FlagsOK'
    BY <1>0, <2>1, <2>3 DEF FlagsOK
  <2> QED
    BY <1>0, <2>1, <2>3, <2>4, <2>5, QueriesRest DEF ShellTyped
<1>6. CASE FocusShell
  <2>1. MeOK'
    BY <1>0, <1>6, MeIsAsked DEF FocusShell, MeOK
  <2>2. CelMoves
    <3>1. SignedIn(meQ) \in BOOLEAN
      BY DEF SignedIn
    <3>2. /\ celQ' = IF SignedIn(meQ) THEN Fetch(celQ) ELSE celQ
          /\ celAsker' = IF celQ'.flight = "sent" /\ celQ.flight # "sent" THEN cookie' ELSE celAsker
      BY <1>6 DEF FocusShell, shellServer
    <3> QED
      BY <1>0, <3>1, <3>2, CelFetches
  <2>3. cookie' \in Whoever /\ RecordOK' /\ AuthOK' /\ OverlayOK'
    BY <1>0, <1>6 DEF FocusShell, shellServer, RecordOK, AuthOK, OverlayOK, shellSeen
  <2>4. FlagsOK'
    BY <1>0, <1>6 DEF FocusShell, FlagsOK
  <2> QED
    BY <1>0, <2>1, <2>2, <2>3, <2>4, CelMovesType DEF ShellTyped
<1>7. CASE MeComes
  <2>1. meQ' = Arrived(meQ) /\ CelMoves
    BY <1>0, <1>7, Renders DEF MeComes
  <2>2. MeOK'
    BY <1>0, <2>1, QueryArrived DEF MeOK
  <2>3. cookie' \in Whoever
    BY <1>0, <1>7 DEF MeComes, Renews, MeOK
  <2>4. RecordOK' /\ AuthOK' /\ OverlayOK'
    BY <1>0, <1>7 DEF MeComes, RecordOK, AuthOK, OverlayOK, shellSeen
  <2>5. FlagsOK'
    BY <1>0, <1>7 DEF MeComes, FlagsOK
  <2> QED
    BY <1>0, <2>1, <2>2, <2>3, <2>4, <2>5, CelMovesType DEF ShellTyped
<1>8. CASE MeFails
  <2>1. meQ' = GivenUp(meQ) /\ CelMoves
    BY <1>0, <1>8, Renders DEF MeFails
  <2>2. MeOK'
    BY <1>0, <2>1, QueryGivenUp DEF MeOK
  <2>3. cookie' \in Whoever /\ RecordOK' /\ AuthOK' /\ OverlayOK'
    BY <1>0, <1>8 DEF MeFails, shellServer, RecordOK, AuthOK, OverlayOK, shellSeen
  <2>4. FlagsOK'
    BY <1>0, <1>8 DEF MeFails, FlagsOK
  <2> QED
    BY <1>0, <2>1, <2>2, <2>3, <2>4, CelMovesType DEF ShellTyped
<1>9. CASE HearAuth
  <2>1. auth.who \in Whoever
    BY <1>0, <1>9 DEF HearAuth, AuthOK
  <2>2. cookie' \in Whoever
    BY <1>0, <1>9, <2>1 DEF HearAuth
  <2>3. MeOK' /\ CelOK'
    <3>1. CASE Render(AfterAuth, celQ)
      <4>1. meQ' = SetData(meQ, auth.who) /\ CelMoves
        BY <1>0, <3>1, Renders DEF AfterAuth
      <4>2. /\ SetData(meQ, auth.who) \in Query(Whoever)
            /\ SetData(meQ, auth.who).flight = meQ.flight
            /\ SetData(meQ, auth.who).answer = meQ.answer
        BY <1>0, <2>1, QuerySet DEF MeOK
      <4>3. MeOK'
        BY <1>0, <4>1, <4>2 DEF MeOK
      <4> QED
        BY <1>0, <2>2, <4>1, <4>3, CelMovesType
    <3>2. CASE UNCHANGED <<meQ, celQ, celAsker>>
      BY <1>0, <3>2, QueriesRest
    <3> QED
      BY <1>9, <3>1, <3>2 DEF HearAuth
  <2>4. RecordOK' /\ AuthOK' /\ OverlayOK'
    BY <1>0, <1>9 DEF HearAuth, RecordOK, AuthOK, OverlayOK, shellSeen
  <2>5. FlagsOK'
    BY <1>0, <1>9 DEF HearAuth, FlagsOK
  <2> QED
    BY <2>2, <2>3, <2>4, <2>5 DEF ShellTyped
<1>10. CASE ServeCelebrations
  <2>1. CelOK'
    <3>1. CASE celAsker = Nobody
      BY <1>0, <1>10, <3>1, QueryGivenUp DEF ServeCelebrations, CelOK
    <3>2. CASE celAsker # Nobody
      <4> DEFINE list == [owner |-> celAsker, wins |-> Unseen(celAsker)]
      <4>1. list \in PendingList
        BY <1>0 DEF CelOK, RecordOK, PendingList, Unseen
      <4> HIDE DEF list
      <4>2. celQ' = Served(celQ, list)
        BY <1>10, <3>2 DEF ServeCelebrations, list
      <4> QED
        BY <1>0, <1>10, <4>1, <4>2, QueryServed DEF ServeCelebrations, CelOK
    <3> QED
      BY <3>1, <3>2
  <2>2. cookie' \in Whoever /\ RecordOK' /\ AuthOK' /\ OverlayOK' /\ MeOK'
    BY <1>0, <1>10 DEF ServeCelebrations, shellServer, RecordOK, AuthOK, OverlayOK, shellSeen, MeOK
  <2>3. FlagsOK'
    BY <1>0, <1>10 DEF ServeCelebrations, FlagsOK
  <2> QED
    BY <2>1, <2>2, <2>3 DEF ShellTyped
<1>11. CASE CelebrationsCome
  <2>1. CelOK'
    BY <1>0, <1>11, QueryArrived, QueryGivenUp DEF CelebrationsCome, CelOK
  <2>2. cookie' \in Whoever
    BY <1>0, <1>11 DEF CelebrationsCome, Renews, CelOK, PendingList
  <2>3. RecordOK' /\ AuthOK' /\ OverlayOK' /\ MeOK'
    BY <1>0, <1>11 DEF CelebrationsCome, RecordOK, AuthOK, OverlayOK, shellSeen, MeOK
  <2>4. FlagsOK'
    BY <1>0, <1>11 DEF CelebrationsCome, FlagsOK
  <2> QED
    BY <2>1, <2>2, <2>3, <2>4 DEF ShellTyped
<1>12. ASSUME NEW k \in marks, HearMark(k) PROVE ShellTyped'
  <2>1. cookie' \in Whoever
    BY <1>0, <1>12 DEF HearMark, Renews, OverlayOK, AMark
  <2>2. CelOK'
    BY <1>0, <1>12, <2>1, QueryRefetched DEF HearMark, CelOK
  <2>3. lost' \in [Persons -> SUBSET Wins]
    <3>1. {k} \in SUBSET AMark
      BY <1>0, <1>12 DEF OverlayOK
    <3> QED
      BY <1>0, <1>12, <3>1, MoreLost DEF HearMark, RecordOK
  <2>4. RecordOK' /\ AuthOK' /\ OverlayOK' /\ MeOK'
    BY <1>0, <1>12, <2>3 DEF HearMark, RecordOK, AuthOK, OverlayOK, MeOK
  <2>5. FlagsOK'
    BY <1>0, <1>12 DEF HearMark, FlagsOK
  <2> QED
    BY <2>1, <2>2, <2>4, <2>5 DEF ShellTyped
<1> QED
  BY <1>1, <1>2, <1>3, <1>3a, <1>4, <1>5, <1>6, <1>7, <1>8, <1>9, <1>10, <1>11, <1>12
     DEF ShellNext

\* Every variable of the shell keeps its type.
THEOREM ShellTypeCorrect == ShellSpec => []ShellTypeOK
BY ShellStartsTyped, ShellStepTyped, ShellTypedOK, PTL DEF ShellSpec

-----------------------------------------------------------------------------
(* Shell: belief and session.  While nothing made the belief doubtful, not   *)
(* only the belief but every answer on its way is of the browser's session,  *)
(* so that whichever arrives next renews no other session.  From the moment  *)
(* /me is asked in doubt the same is true of the answers, and of /me's first *)
(* of all: when that one arrives, the belief is of the session too.          *)

Believed == meQ.data # NoData => meQ.data = cookie

OfSession ==
  /\ meQ.flight = "served" => meQ.answer = cookie
  /\ celQ.flight = "sent" => celAsker = cookie
  /\ celQ.flight = "served" => celQ.answer.owner = cookie
  /\ \A k \in marks : k.who = cookie

SessionInv ==
  /\ ShellTyped
  /\ doubt = "none" => Believed
  /\ doubt # "some" => OfSession
  /\ doubt = "asked" => meQ.flight = "served"

LEMMA SessionStart == ShellInit => SessionInv
<1> SUFFICES ASSUME ShellInit PROVE SessionInv
  OBVIOUS
<1>1. ShellTyped /\ doubt = "none"
  BY ShellStartsTyped DEF ShellInit
<1>2. Unasked \in Query(Whoever) /\ Unasked.data = NoData /\ Unasked.flight = "idle"
  BY QueryStarts
<1>3. OfSession /\ Believed
  BY <1>1, <1>2, MeIsAsked DEF ShellInit, OfSession, Believed, ShellTyped
<1> QED
  BY <1>1, <1>3 DEF SessionInv

\* What the queries of one session leave behind is of that session.
LEMMA CelMovesSession ==
  ASSUME CelMoves, OfSession, cookie' = cookie,
         \A k \in marks' : k.who = cookie',
         meQ'.flight = "served" => meQ'.answer = cookie'
  PROVE  OfSession'
BY DEF CelMoves, OfSession

LEMMA SessionStep == SessionInv /\ [ShellNext]_shellVars => SessionInv'
<1> SUFFICES ASSUME SessionInv, [ShellNext]_shellVars, doubt' # "some"
             PROVE  /\ doubt' = "none" => Believed'
                    /\ OfSession'
                    /\ doubt' = "asked" => meQ'.flight = "served"
  BY ShellStepTyped DEF SessionInv
<1>0. /\ cookie \in Whoever /\ MeOK /\ CelOK /\ AuthOK /\ OverlayOK /\ FlagsOK
      /\ meQ \in Query(Whoever) /\ meQ.flight \in {"idle", "served"}
      /\ celQ \in Query(PendingList) /\ celQ.flight \in Flights
  BY DEF SessionInv, ShellTyped, MeOK, CelOK, Query, Flights
<1>1. CASE UNCHANGED shellVars
  BY <1>1 DEF shellVars, shellServer, shellTab, SessionInv, OfSession, Believed
<1>2. CASE Reload
  <2>1. /\ Unasked \in Query(Whoever) /\ Unasked.data = NoData /\ Unasked.flight = "idle"
    BY QueryStarts
  <2>2. /\ cookie' = cookie /\ marks' = {} /\ celQ' = Unasked /\ meQ' = AskMe(Unasked, cookie)
        /\ doubt' = "none"
    BY <1>2 DEF Reload, FreshTab, shellServer
  <2> QED
    BY <1>0, <2>1, <2>2, MeIsAsked DEF OfSession, Believed
<1>3. CASE \/ \E w \in Wins : Win(w) \/ \E p \in Persons : ViewElsewhere(p, w)
           \/ Skip \/ (\E p \in Persons : SignInAs(p)) \/ LogOut \/ ServeAuth
  <2>1. UNCHANGED <<cookie, meQ, celQ, celAsker, marks, doubt>>
    BY <1>3 DEF Win, ViewElsewhere, Skip, SignInAs, LogOut, ServeAuth, shellServer, shellTab
  <2> QED
    BY <2>1 DEF SessionInv, OfSession, Believed
<1>3a. ASSUME NEW k \in marks, ServeMark(k)
       PROVE  /\ doubt' = "none" => Believed'
              /\ OfSession'
              /\ doubt' = "asked" => meQ'.flight = "served"
  <2>1. UNCHANGED <<cookie, meQ, celQ, celAsker, doubt>>
    BY <1>3a DEF ServeMark
  <2>2. marks' = (marks \ {k}) \union {[k EXCEPT !.stored = TRUE]} /\ k \in AMark
    BY <1>0, <1>3a DEF ServeMark, OverlayOK
  <2>3. [k EXCEPT !.stored = TRUE].who = k.who
    BY <2>2 DEF AMark
  <2> QED
    BY <2>1, <2>2, <2>3 DEF SessionInv, OfSession, Believed
<1>4. CASE AuthLost
  <2>1. auth.at # "served" /\ UNCHANGED <<cookie, meQ, celQ, celAsker, marks, doubt>>
    BY <1>4 DEF AuthLost
  <2> QED
    BY <2>1 DEF SessionInv, OfSession, Believed
<1>4a. CASE Expire
  BY <1>4a DEF Expire
<1>5. CASE CelebrationDone
  <2>1. UNCHANGED <<cookie, meQ, celQ, celAsker, doubt>>
    BY <1>5 DEF CelebrationDone, shellServer
  <2>2. PICK by, wins : marks' = marks \union MarkOf(by, wins)
    BY <1>5 DEF CelebrationDone, Done
  <2>3. \A k \in MarkOf(by, wins) : k.who = cookie
    BY DEF MarkOf
  <2> QED
    BY <2>1, <2>2, <2>3 DEF SessionInv, OfSession, Believed
<1>6. CASE FocusShell
  <2>1. UNCHANGED <<cookie, marks>> /\ meQ.flight = "idle"
    BY <1>6 DEF FocusShell, shellServer
  <2>2. CelMoves
    <3>1. SignedIn(meQ) \in BOOLEAN
      BY DEF SignedIn
    <3>2. /\ celQ' = IF SignedIn(meQ) THEN Fetch(celQ) ELSE celQ
          /\ celAsker' = IF celQ'.flight = "sent" /\ celQ.flight # "sent" THEN cookie' ELSE celAsker
      BY <1>6, <2>1 DEF FocusShell
    <3> QED
      BY <1>0, <3>1, <3>2, CelFetches
  <2>3. meQ'.data = meQ.data /\ meQ'.flight = "served" /\ meQ'.answer = cookie
    BY <1>0, <1>6, <2>1, MeIsAsked DEF FocusShell
  <2>4. CASE doubt # "some"
    <3>1. doubt' = doubt
      BY <1>6, <2>4 DEF FocusShell
    <3>2. OfSession'
      BY <2>1, <2>2, <2>3, <2>4, CelMovesSession DEF SessionInv, OfSession
    <3> QED
      BY <2>1, <2>3, <3>1, <3>2 DEF SessionInv, Believed
  <2>5. CASE doubt = "some"
    <3>1. doubt' = "asked" /\ Quiet
      BY <1>6, <2>5 DEF FocusShell
    <3> QED
      BY <2>1, <2>2, <2>3, <3>1 DEF Quiet, OfSession, CelMoves
  <2> QED
    BY <2>4, <2>5
<1>7. CASE MeComes
  <2>1. /\ meQ.flight = "served" /\ cookie' \in {cookie, meQ.answer} /\ marks' = marks
        /\ meQ' = Arrived(meQ) /\ CelMoves
    BY <1>0, <1>7, Renders DEF MeComes, Renews
  <2>2. meQ'.data = meQ.answer /\ meQ'.flight = "idle"
    BY <1>0, <2>1, QueryArrived
  <2>3. doubt # "some" /\ doubt' = "none"
    BY <1>0, <1>7 DEF MeComes, FlagsOK
  <2>4. OfSession /\ cookie' = cookie /\ meQ.answer = cookie
    BY <2>1, <2>3 DEF SessionInv, OfSession
  <2>5. OfSession'
    BY <2>1, <2>2, <2>4, CelMovesSession DEF OfSession
  <2> QED
    BY <2>2, <2>3, <2>4, <2>5 DEF Believed
<1>8. CASE MeFails
  <2>1. meQ' = GivenUp(meQ) /\ CelMoves /\ UNCHANGED <<cookie, marks>>
    BY <1>0, <1>8, Renders DEF MeFails, shellServer
  <2>2. meQ'.data = meQ.data /\ meQ'.flight = "idle"
    BY <1>0, <2>1, QueryGivenUp
  <2>3. doubt' = "none" /\ doubt = "none"
    BY <1>0, <1>8 DEF MeFails, FlagsOK
  <2>4. OfSession'
    BY <2>1, <2>2, <2>3, CelMovesSession DEF SessionInv, OfSession
  <2> QED
    BY <2>1, <2>2, <2>3, <2>4 DEF SessionInv, Believed
<1>9. CASE HearAuth
  <2>1. /\ meQ.flight = "idle" /\ celQ.flight = "idle" /\ marks = {}
        /\ ~(auth.kind = "logout" /\ auth.at = "refused") /\ marks' = marks
        /\ doubt' = doubt /\ auth # NoAuth /\ auth.at # "sent"
    BY <1>9 DEF HearAuth
  <2>2. doubt' = "none"
    BY <1>0, <2>1 DEF SessionInv, FlagsOK
  <2>3. CASE auth.at = "served"
    <3>1. cookie' = auth.who /\ meQ' = SetData(meQ, auth.who) /\ CelMoves
      BY <1>0, <1>9, <2>3, Renders DEF HearAuth, AfterAuth
    <3>2. auth.who \in Whoever
      BY <1>0, <2>1 DEF AuthOK
    <3>3. meQ'.data = auth.who /\ meQ'.flight = "idle"
      BY <1>0, <2>1, <3>1, <3>2, QuerySet
    <3> QED
      BY <2>1, <2>2, <3>1, <3>3 DEF OfSession, CelMoves, Believed
  <2>4. CASE auth.at # "served"
    <3>1. cookie' = cookie /\ UNCHANGED <<meQ, celQ, celAsker>>
      BY <1>0, <1>9, <2>1, <2>4 DEF HearAuth, AuthOK
    <3> QED
      BY <2>1, <2>2, <3>1 DEF SessionInv, OfSession, Believed
  <2> QED
    BY <2>3, <2>4
<1>10. CASE ServeCelebrations
  <2>1. celQ.flight = "sent" /\ UNCHANGED <<cookie, meQ, marks, doubt>>
    BY <1>10 DEF ServeCelebrations, shellServer
  <2>2. celQ'.flight = "idle" \/ (celQ'.flight = "served" /\ celQ'.answer.owner = celAsker)
    <3>1. CASE celAsker = Nobody
      BY <1>0, <1>10, <3>1, QueryGivenUp DEF ServeCelebrations
    <3>2. CASE celAsker # Nobody
      <4> DEFINE list == [owner |-> celAsker, wins |-> Unseen(celAsker)]
      <4>1. list \in PendingList /\ list.owner = celAsker
        BY <1>0 DEF CelOK, SessionInv, ShellTyped, RecordOK, PendingList, Unseen
      <4> HIDE DEF list
      <4>2. celQ' = Served(celQ, list)
        BY <1>10, <3>2 DEF ServeCelebrations, list
      <4> QED
        BY <1>0, <4>1, <4>2, QueryServed
    <3> QED
      BY <3>1, <3>2
  <2> QED
    BY <2>1, <2>2 DEF SessionInv, OfSession, Believed
<1>11. CASE CelebrationsCome
  <2>1. UNCHANGED <<meQ, marks, doubt>>
    BY <1>11 DEF CelebrationsCome
  <2>2. celQ'.flight = "idle"
    BY <1>0, <1>11, QueryArrived, QueryGivenUp DEF CelebrationsCome
  <2>3. cookie' = cookie
    BY <1>11, <2>1 DEF CelebrationsCome, Renews, SessionInv, OfSession
  <2> QED
    BY <2>1, <2>2, <2>3 DEF SessionInv, OfSession, Believed
<1>12. ASSUME NEW k \in marks, HearMark(k)
       PROVE  /\ doubt' = "none" => Believed'
              /\ OfSession'
              /\ doubt' = "asked" => meQ'.flight = "served"
  <2>1. marks' = marks \ {k} /\ UNCHANGED <<meQ, doubt>>
    BY <1>12 DEF HearMark
  <2>2. OfSession /\ k.who = cookie
    BY <1>12, <2>1 DEF SessionInv, OfSession
  <2>3. cookie' = cookie
    BY <1>12, <2>2 DEF HearMark, Renews
  <2>4. CelMoves
    <3>1. CASE celQ' = Refetch(celQ) /\ celAsker' = cookie'
      BY <1>0, <3>1, QueryRefetched DEF CelMoves
    <3>2. CASE UNCHANGED <<celQ, celAsker>>
      BY <1>0, <3>2 DEF CelMoves
    <3> QED
      BY <1>12, <3>1, <3>2 DEF HearMark
  <2>5. OfSession'
    BY <2>1, <2>2, <2>3, <2>4, CelMovesSession DEF OfSession
  <2> QED
    BY <2>1, <2>3, <2>5 DEF SessionInv, Believed
<1> QED
  BY <1>1, <1>2, <1>3, <1>3a, <1>4, <1>4a, <1>5, <1>6, <1>7, <1>8, <1>9, <1>10, <1>11, <1>12
     DEF ShellNext

\* The tab believes in the session the browser holds, unless the session expired, a
\* logout was refused, a login's or a logout's answer was lost after it was served, or
\* one arrived while another answer was under way; and after any of these the first
\* /me asked in quiet and answered before the next sets it right (auth.tsx, App.tsx).
THEOREM BeliefIsSession == ShellSpec => []BelievedIsSession
<1>1. SessionInv => BelievedIsSession
  BY DEF SessionInv, Believed, BelievedIsSession
<1> QED
  BY <1>1, SessionStart, SessionStep, PTL DEF ShellSpec

-----------------------------------------------------------------------------
(* Shell: no encore.  What a person was shown here, and whose mark is not    *)
(* lost, the server has recorded or a mark still brings it; and no mark is   *)
(* under way before the overlay is dismissed.  So every list that could      *)
(* still play was made when the server knew of all that had been shown, and  *)
(* after the visit began.                                                    *)

Remembered(p) == played[p] \ lost[p]

MarksKept ==
  \A p \in Persons : \A w \in Remembered(p) :
    w \in viewed[p] \/ \E k \in marks : k.by = p /\ k.who = p /\ ~k.stored /\ w \in k.wins

ListsNothingSeen(list) ==
  /\ list.owner \in Persons
  /\ list.wins \intersect viewedBefore[list.owner] = {}
  /\ ~dismissed => list.wins \intersect Remembered(list.owner) = {}

ListsFresh ==
  /\ celQ.data # NoData => ListsNothingSeen(celQ.data)
  /\ celQ.flight = "served" => ListsNothingSeen(celQ.answer)

EncoreInv ==
  /\ ShellTyped
  /\ \A p \in Persons : viewedBefore[p] \subseteq viewed[p]
  /\ MarksKept /\ ListsFresh
  /\ ~dismissed => marks = {}

LEMMA EncoreStart == ShellInit => EncoreInv
<1> SUFFICES ASSUME ShellInit PROVE EncoreInv
  OBVIOUS
<1>1. ShellTyped
  BY ShellStartsTyped
<1>2. celQ.data = NoData /\ celQ.flight = "idle"
  BY QueryStarts DEF ShellInit
<1> QED
  BY <1>1, <1>2 DEF ShellInit, EncoreInv, MarksKept, ListsFresh, Remembered

\* A step within a visit that brings no list, and shows nothing before the dismissal.
LEMMA NoListComes ==
  ASSUME ListsFresh, viewedBefore' = viewedBefore,
         dismissed' \/ UNCHANGED <<dismissed, played, lost>>,
         celQ'.data = celQ.data, celQ' = celQ \/ celQ'.flight # "served"
  PROVE  ListsFresh'
<1>1. celQ'.data # NoData => ListsNothingSeen(celQ.data)'
  BY DEF ListsFresh, ListsNothingSeen, Remembered
<1>2. celQ'.flight = "served" => ListsNothingSeen(celQ.answer)'
  BY DEF ListsFresh, ListsNothingSeen, Remembered
<1> QED
  BY <1>1, <1>2 DEF ListsFresh

\* A step that moves no mark.
LEMMA NoMarkMoves ==
  ASSUME EncoreInv, ShellTyped', UNCHANGED <<viewedBefore, played, lost, marks, dismissed>>,
         \A p \in Persons : viewed[p] \subseteq viewed'[p], ListsFresh'
  PROVE  EncoreInv'
<1>1. \A p \in Persons : viewedBefore'[p] \subseteq viewed'[p]
  BY DEF EncoreInv
<1>2. MarksKept'
  BY DEF EncoreInv, MarksKept, Remembered
<1> QED
  BY <1>1, <1>2 DEF EncoreInv

\* The overlay ends for by, and wins are marked.
LEMMA DoneKeeps ==
  ASSUME EncoreInv, ShellTyped', NEW by, NEW wins, Done(by, wins),
         UNCHANGED <<viewed, viewedBefore, celQ>>
  PROVE  EncoreInv'
<1>1. played \in [Persons -> SUBSET Wins] /\ lost \in [Persons -> SUBSET Wins]
  BY DEF EncoreInv, ShellTyped, RecordOK
<1>2. dismissed' = TRUE /\ marks' = marks \union MarkOf(by, wins)
  BY DEF Done
<1>3. ListsFresh'
  BY <1>2, NoListComes DEF EncoreInv
<1>4. ASSUME NEW p \in Persons, NEW w \in Remembered(p)'
      PROVE  w \in viewed'[p]
             \/ \E k \in marks' : k.by = p /\ k.who = p /\ ~k.stored /\ w \in k.wins
  <2>1. CASE w \in Remembered(p)
    BY <1>2, <2>1 DEF EncoreInv, MarksKept
  <2>2. CASE w \notin Remembered(p)
    <3>1. p = by /\ w \in wins /\ cookie = by
      BY <1>1, <1>4, <2>2 DEF Done, Remembered
    <3> DEFINE k == [by |-> by, who |-> cookie, wins |-> wins, stored |-> FALSE]
    <3>2. k \in marks'
      BY <1>2, <3>1 DEF MarkOf
    <3>3. k.by = p /\ k.who = p /\ ~k.stored /\ w \in k.wins
      BY <3>1
    <3> QED
      BY <3>2, <3>3
  <2> QED
    BY <2>1, <2>2
<1>5. MarksKept'
  BY <1>4 DEF MarksKept
<1> QED
  BY <1>2, <1>3, <1>5 DEF EncoreInv

LEMMA EncoreStep == EncoreInv /\ [ShellNext]_shellVars => EncoreInv'
<1> SUFFICES ASSUME EncoreInv, [ShellNext]_shellVars PROVE EncoreInv'
  OBVIOUS
<1>0. /\ ShellTyped /\ ShellTyped' /\ CelOK /\ MeOK /\ RecordOK /\ OverlayOK /\ FlagsOK
      /\ celQ \in Query(PendingList)
  BY ShellStepTyped DEF EncoreInv, ShellTyped, CelOK
<1>1. ASSUME UNCHANGED <<viewed, viewedBefore, played, lost, marks, dismissed>>,
             celQ'.data = celQ.data, celQ' = celQ \/ celQ'.flight # "served"
      PROVE  EncoreInv'
  <2>1. ListsFresh'
    BY <1>1, NoListComes DEF EncoreInv
  <2> QED
    BY <1>0, <1>1, <2>1, NoMarkMoves
<1>2. CASE UNCHANGED shellVars
  BY <1>1, <1>2 DEF shellVars, shellServer, shellTab, shellSeen
<1>3. CASE Reload
  <2>1. /\ celQ' = Unasked /\ viewedBefore' = viewed /\ viewed' = viewed /\ marks' = {}
        /\ played' = played /\ lost' = [p \in Persons |-> lost[p] \union LostBy(p, marks)]
    BY <1>3 DEF Reload, FreshTab, shellServer
  <2>2. Unasked.data = NoData /\ Unasked.flight = "idle"
    BY QueryStarts
  <2>3. MarksKept'
    <3>1. ASSUME NEW p \in Persons, NEW w \in Remembered(p)' PROVE w \in viewed'[p]
      <4>1. w \in Remembered(p) /\ w \notin LostBy(p, marks)
        BY <2>1 DEF Remembered
      <4>2. ASSUME NEW k \in marks, k.by = p, ~k.stored, w \in k.wins PROVE FALSE
        BY <4>1, <4>2 DEF LostBy
      <4> QED
        BY <2>1, <4>1, <4>2 DEF EncoreInv, MarksKept
    <3> QED
      BY <3>1 DEF MarksKept
  <2> QED
    BY <1>0, <2>1, <2>2, <2>3 DEF EncoreInv, ListsFresh
<1>4. CASE \E w \in Wins : Win(w) \/ \E p \in Persons : ViewElsewhere(p, w)
  <2>1. UNCHANGED <<celQ, viewedBefore, played, lost, marks, dismissed>>
    BY <1>4 DEF Win, ViewElsewhere, shellTab, shellSeen
  <2>2. \A p \in Persons : viewed[p] \subseteq viewed'[p]
    BY <1>0, <1>4 DEF Win, ViewElsewhere, RecordOK
  <2>3. ListsFresh'
    BY <2>1, NoListComes DEF EncoreInv
  <2> QED
    BY <1>0, <2>1, <2>2, <2>3, NoMarkMoves
<1>4a. ASSUME NEW k \in marks, ServeMark(k) PROVE EncoreInv'
  <2>1. /\ UNCHANGED <<celQ, viewedBefore, played, lost, dismissed>>
        /\ marks' = (marks \ {k}) \union {[k EXCEPT !.stored = TRUE]}
        /\ viewed' = [viewed EXCEPT ![k.who] = @ \union k.wins]
    BY <1>4a DEF ServeMark, shellSeen
  <2>2. /\ \A p \in Persons : viewed[p] \subseteq viewed'[p]
        /\ k.who \in Persons => k.wins \subseteq viewed'[k.who]
    BY <1>0, <2>1 DEF RecordOK
  <2>3. ListsFresh'
    BY <2>1, NoListComes DEF EncoreInv
  <2>4. MarksKept'
    <3>1. ASSUME NEW p \in Persons, NEW w \in Remembered(p)
          PROVE  w \in viewed'[p]
                 \/ \E m \in marks' : m.by = p /\ m.who = p /\ ~m.stored /\ w \in m.wins
      <4>1. CASE w \in viewed[p]
        BY <2>2, <4>1
      <4>2. CASE \E m \in marks : m.by = p /\ m.who = p /\ ~m.stored /\ w \in m.wins
        <5>1. PICK m \in marks : m.by = p /\ m.who = p /\ ~m.stored /\ w \in m.wins
          BY <4>2
        <5>2. CASE m = k
          BY <2>2, <5>1, <5>2
        <5>3. CASE m # k
          BY <2>1, <5>1, <5>3
        <5> QED
          BY <5>2, <5>3
      <4> QED
        BY <4>1, <4>2 DEF EncoreInv, MarksKept
    <3> QED
      BY <2>1, <3>1 DEF MarksKept, Remembered
  <2>5. \A p \in Persons : viewedBefore'[p] \subseteq viewed'[p]
    BY <2>1, <2>2 DEF EncoreInv
  <2>6. dismissed'
    BY <1>0, <1>4a, <2>1 DEF EncoreInv, FlagsOK
  <2> QED
    BY <1>0, <2>3, <2>4, <2>5, <2>6 DEF EncoreInv
<1>5. CASE (\E p \in Persons : SignInAs(p)) \/ LogOut \/ ServeAuth \/ AuthLost \/ Expire \/ Skip
  <2>1. UNCHANGED <<viewed, viewedBefore, played, lost, marks, dismissed, celQ>>
    BY <1>5 DEF SignInAs, LogOut, ServeAuth, AuthLost, Expire, Skip, shellServer, shellSeen
  <2> QED
    BY <1>1, <2>1
<1>5a. CASE CelebrationDone
  <2>1. UNCHANGED <<viewed, viewedBefore, celQ>>
    BY <1>5a DEF CelebrationDone, shellServer
  <2>2. PICK by, wins : Done(by, wins)
    BY <1>5a DEF CelebrationDone
  <2> QED
    BY <1>0, <2>1, <2>2, DoneKeeps
<1>6. ASSUME CelMoves, UNCHANGED <<viewed, viewedBefore, played, lost, marks, dismissed>>
      PROVE  EncoreInv'
  BY <1>1, <1>6 DEF CelMoves
<1>7. CASE FocusShell
  <2>1. /\ SignedIn(meQ) \in BOOLEAN
        /\ UNCHANGED <<cookie, viewed, viewedBefore, played, lost, marks, dismissed>>
    BY <1>7 DEF SignedIn, FocusShell, shellServer, shellSeen
  <2>2. /\ celQ' = IF SignedIn(meQ) THEN Fetch(celQ) ELSE celQ
        /\ celAsker' = IF celQ'.flight = "sent" /\ celQ.flight # "sent" THEN cookie' ELSE celAsker
    BY <1>7, <2>1 DEF FocusShell
  <2> QED
    BY <1>0, <1>6, <2>1, <2>2, CelFetches
<1>8. CASE MeComes \/ MeFails \/ HearAuth
  <2>1. UNCHANGED <<viewed, viewedBefore, played, lost, marks, dismissed>>
    BY <1>8 DEF MeComes, MeFails, HearAuth, shellServer, shellSeen
  <2>2. celQ' = celQ \/ CelMoves
    BY <1>0, <1>8, Renders DEF MeComes, MeFails, HearAuth
  <2> QED
    BY <1>1, <1>6, <2>1, <2>2
<1>9. CASE ServeCelebrations
  <2>1. UNCHANGED <<viewed, viewedBefore, played, lost, marks, dismissed>>
    BY <1>9 DEF ServeCelebrations, shellServer, shellSeen
  <2>2. CASE celAsker = Nobody
    BY <1>0, <1>1, <1>9, <2>1, <2>2, QueryGivenUp DEF ServeCelebrations
  <2>3. CASE celAsker # Nobody
    <3> DEFINE list == [owner |-> celAsker, wins |-> Unseen(celAsker)]
    <3>1. celAsker \in Persons
      BY <1>0, <2>3 DEF CelOK, Whoever
    <3>2. list \in PendingList /\ list.owner = celAsker /\ list.wins = Unseen(celAsker)
      BY <1>0 DEF CelOK, RecordOK, PendingList, Unseen
    <3>3. /\ Unseen(celAsker) \intersect viewedBefore[celAsker] = {}
          /\ ~dismissed => Unseen(celAsker) \intersect Remembered(celAsker) = {}
      <4>1. ~dismissed => Remembered(celAsker) \subseteq viewed[celAsker]
        BY <3>1 DEF EncoreInv, MarksKept
      <4> QED
        BY <3>1, <4>1 DEF EncoreInv, Unseen
    <3>4. celQ' = Served(celQ, list)
      BY <1>9, <2>3 DEF ServeCelebrations
    <3>5. ListsNothingSeen(list)
      BY <3>1, <3>2, <3>3 DEF ListsNothingSeen
    <3> HIDE DEF list
    <3>6. celQ'.answer = list /\ celQ'.data = celQ.data
      BY <1>0, <3>2, <3>4, QueryServed
    <3>7. ListsFresh'
      BY <2>1, <3>5, <3>6 DEF EncoreInv, ListsFresh, ListsNothingSeen, Remembered
    <3> QED
      BY <1>0, <2>1, <3>7, NoMarkMoves
  <2> QED
    BY <2>2, <2>3
<1>10. CASE CelebrationsCome
  <2>1. UNCHANGED <<viewed, viewedBefore, played, lost, marks, dismissed>>
    BY <1>10 DEF CelebrationsCome, shellSeen
  <2>2. CASE celQ.flight = "served" /\ celQ' = Arrived(celQ)
    <3>1. celQ'.flight = "idle" /\ celQ'.data = celQ.answer
      BY <1>0, <2>2, QueryArrived
    <3>2. ListsFresh'
      BY <2>1, <2>2, <3>1 DEF EncoreInv, ListsFresh, ListsNothingSeen, Remembered
    <3> QED
      BY <1>0, <2>1, <3>2, NoMarkMoves
  <2>3. CASE celQ' = GivenUp(celQ)
    BY <1>0, <1>1, <2>1, <2>3, QueryGivenUp
  <2> QED
    BY <1>10, <2>2, <2>3 DEF CelebrationsCome
<1>11. ASSUME NEW k \in marks, HearMark(k) PROVE EncoreInv'
  <2>1. UNCHANGED <<viewed, viewedBefore, played, dismissed>> /\ marks' = marks \ {k}
    BY <1>11 DEF HearMark
  <2>2. dismissed'
    BY <1>0, <1>11, <2>1 DEF EncoreInv, FlagsOK
  <2>3. celQ' = celQ \/ celQ' = Refetch(celQ)
    BY <1>11 DEF HearMark
  <2>4. celQ'.data = celQ.data /\ (celQ' = celQ \/ celQ'.flight # "served")
    BY <1>0, <2>3, QueryRefetched
  <2>5. ListsFresh'
    BY <2>1, <2>2, <2>4, NoListComes DEF EncoreInv
  <2>6. MarksKept'
    <3>1. ASSUME NEW p \in Persons, NEW w \in Remembered(p)'
          PROVE  w \in viewed'[p]
                 \/ \E m \in marks' : m.by = p /\ m.who = p /\ ~m.stored /\ w \in m.wins
      <4>1. w \in Remembered(p) /\ (k.stored \/ w \notin LostBy(p, {k}))
        BY <1>0, <1>11, <2>1, <3>1 DEF HearMark, Remembered, RecordOK
      <4>2. CASE w \in viewed[p]
        BY <2>1, <4>2
      <4>3. CASE \E m \in marks : m.by = p /\ m.who = p /\ ~m.stored /\ w \in m.wins
        <5>1. PICK m \in marks : m.by = p /\ m.who = p /\ ~m.stored /\ w \in m.wins
          BY <4>3
        <5>2. m # k
          BY <4>1, <5>1 DEF LostBy
        <5> QED
          BY <2>1, <5>1, <5>2
      <4> QED
        BY <4>1, <4>2, <4>3 DEF EncoreInv, MarksKept
    <3> QED
      BY <3>1 DEF MarksKept
  <2> QED
    BY <1>0, <2>1, <2>2, <2>5, <2>6 DEF EncoreInv
<1> QED
  BY <1>2, <1>3, <1>4, <1>4a, <1>5, <1>5a, <1>7, <1>8, <1>9, <1>10, <1>11 DEF ShellNext

\* "once per user per match, across devices": whatever is marked elsewhere while the page
\* is open, whoever signs in and out on it and whichever answers are lost, the overlay
\* shows nobody a win that person had marked before this visit, nor one it played for
\* that person, to the end or skipped, whose mark did not fail, was not cut off by a
\* reload and was not sent with another's cookie (App.tsx, celebrations_handler.go).
THEOREM NoWinTwice == ShellSpec => []NoEncore
<1>1. EncoreInv => NoEncore
  <2> SUFFICES ASSUME EncoreInv, Celebrates, celQ.data.owner = Me(meQ)
               PROVE  PendingWins(celQ)
                        \intersect (viewedBefore[Me(meQ)] \union (played[Me(meQ)] \ lost[Me(meQ)]))
                        = {}
    BY DEF NoEncore
  <2>1. celQ.data # NoData /\ PendingWins(celQ) = celQ.data.wins /\ ~dismissed
    BY DEF Celebrates, PendingWins
  <2>2. ListsNothingSeen(celQ.data)
    BY <2>1 DEF EncoreInv, ListsFresh
  <2> QED
    BY <2>1, <2>2 DEF ListsNothingSeen, Remembered
<1> QED
  BY <1>1, EncoreStart, EncoreStep, PTL DEF ShellSpec

-----------------------------------------------------------------------------
(* Chat.  A message without text is one that blankAt tells of, or the bubble *)
(* of the reply being streamed; and a question on its way is the transcript  *)
(* without that bubble.                                                      *)

BlanksKnown ==
  \A i \in 1 .. Len(transcript) :
    transcript[i] # "text" => i <= blankAt \/ (reply # "none" /\ i = Len(transcript))

ReplyHasBubble ==
  reply # "none" => Len(transcript) >= 2 /\ blankAt <= Len(transcript) - 2

AsksTranscript ==
  reply = "asked" =>
    /\ Len(sent) = Len(transcript) - 1
    /\ \A i \in 1 .. Len(sent) : sent[i] = transcript[i]

ChatInv == ChatTypeOK /\ BlanksKnown /\ ReplyHasBubble /\ AsksTranscript

\* The server looks at the last messages only: what it refuses is among them.
LEMMA WindowStart ==
  ASSUME NEW n \in Nat
  PROVE  LET first == SE!Max({1, n - Window + 1})
         IN  first \in Nat /\ first >= 1 /\ first >= n - Window + 1
<1> DEFINE ends == {1, n - Window + 1}
<1>1. \E x \in ends : \A y \in ends : x >= y
  BY ChatAssumption
<1>2. SE!Max(ends) \in ends /\ \A y \in ends : SE!Max(ends) >= y
  BY <1>1 DEF SE!Max
<1> QED
  BY <1>2, ChatAssumption

LEMMA RefusedIsRecent ==
  ASSUME NEW msgs \in Seq(Said), ~Accepted(msgs)
  PROVE  \E i \in 1 .. Len(msgs) : i > Len(msgs) - Window /\ msgs[i] # "text"
<1> DEFINE first == SE!Max({1, Len(msgs) - Window + 1})
<1>1. Len(msgs) \in Nat /\ Window \in Nat
  BY ChatAssumption
<1>2. first \in Nat /\ first >= 1 /\ first >= Len(msgs) - Window + 1
  BY <1>1, WindowStart
<1>3. Recent(msgs) = SubSeq(msgs, first, Len(msgs))
  BY DEF Recent
<1> HIDE DEF first
<1>4. /\ Recent(msgs) \in Seq(Said)
      /\ Len(Recent(msgs)) = IF first <= Len(msgs) THEN Len(msgs) - first + 1 ELSE 0
      /\ \A j \in 1 .. Len(Recent(msgs)) : Recent(msgs)[j] = msgs[first + j - 1]
  BY <1>1, <1>2, <1>3
<1>5. PICK j \in 1 .. Len(Recent(msgs)) : Recent(msgs)[j] # "text"
  BY <1>4 DEF Accepted
<1>6. first + j - 1 \in 1 .. Len(msgs) /\ first + j - 1 > Len(msgs) - Window
  BY <1>1, <1>2, <1>4, <1>5
<1> QED
  BY <1>4, <1>5, <1>6

\* The last message is put in its place, or taken away.
LEMMA BubbleGrows ==
  ASSUME NEW s \in Seq(Said), Len(s) >= 1, NEW e \in Said
  PROVE  LET t == SE!ReplaceAt(s, Len(s), e)
         IN  /\ t \in Seq(Said) /\ Len(t) = Len(s) /\ t[Len(s)] = e
             /\ \A i \in 1 .. Len(s) : i # Len(s) => t[i] = s[i]
<1>1. SE!ReplaceAt(s, Len(s), e) = [s EXCEPT ![Len(s)] = e]
  BY DEF SE!ReplaceAt
<1>2. Len(s) \in 1 .. Len(s)
  OBVIOUS
<1> QED
  BY <1>1, <1>2, ExceptSeq

LEMMA BubbleGoes ==
  ASSUME NEW s \in Seq(Said), Len(s) >= 1
  PROVE  LET t == SE!Front(s)
         IN  /\ t \in Seq(Said) /\ Len(t) = Len(s) - 1
             /\ \A i \in 1 .. Len(s) - 1 : t[i] = s[i]
<1>1. SE!Front(s) = SubSeq(s, 1, Len(s) - 1)
  BY DEF SE!Front
<1>2. PICK k \in Nat : k = Len(s) - 1
  OBVIOUS
<1>3. /\ SubSeq(s, 1, k) \in Seq(Said) /\ Len(SubSeq(s, 1, k)) = IF 1 <= k THEN k ELSE 0
      /\ \A i \in 1 .. Len(SubSeq(s, 1, k)) : SubSeq(s, 1, k)[i] = s[1 + i - 1]
  BY <1>2
<1>4. Len(SubSeq(s, 1, k)) = k /\ \A i \in 1 .. k : SubSeq(s, 1, k)[i] = s[i]
  BY <1>3
<1> QED
  BY <1>1, <1>2, <1>3, <1>4

LEMMA ChatStart == ChatInit => ChatInv
<1> SUFFICES ASSUME ChatInit PROVE ChatInv
  OBVIOUS
<1>1. transcript = <<>> /\ sent = <<>> /\ Len(transcript) = 0 /\ reply = "none"
  BY DEF ChatInit
<1>2. transcript \in Seq(Said) /\ sent \in Seq(Said)
  BY <1>1
<1>3. ChatTypeOK
  BY <1>1, <1>2 DEF ChatInit, ChatTypeOK, Widgets
<1>4. BlanksKnown /\ ReplyHasBubble /\ AsksTranscript
  BY <1>1 DEF BlanksKnown, ReplyHasBubble, AsksTranscript
<1> QED
  BY <1>3, <1>4 DEF ChatInv

LEMMA ChatStep == ChatInv /\ [ChatNext]_chatVars => ChatInv'
<1> SUFFICES ASSUME ChatInv, [ChatNext]_chatVars PROVE ChatInv'
  OBVIOUS
<1> DEFINE n == Len(transcript)
<1>0. /\ ChatTypeOK /\ BlanksKnown /\ ReplyHasBubble /\ AsksTranscript
      /\ transcript \in Seq(Said) /\ sent \in Seq(Said) /\ n \in Nat
      /\ blankAt \in 0 .. n
      /\ reply \in {"none", "asked", "coming"}
  BY DEF ChatInv, ChatTypeOK
<1>1. CASE UNCHANGED chatVars \/ Return \/ Accept
  <2>1. /\ UNCHANGED <<transcript, sent, blankAt>> /\ widget' \in Widgets
        /\ reply' = reply \/ (reply = "asked" /\ reply' = "coming")
    BY <1>0, <1>1 DEF chatVars, Return, Accept, ChatTypeOK, Widgets
  <2> QED
    BY <1>0, <2>1 DEF ChatInv, ChatTypeOK, BlanksKnown, ReplyHasBubble, AsksTranscript
<1>2. CASE Send
  <2>1. /\ reply = "none" /\ reply' = "asked" /\ UNCHANGED <<widget, blankAt>>
        /\ transcript' = transcript \o <<"text", "nothing">> /\ sent' = Append(transcript, "text")
    BY <1>2 DEF Send
  <2>2. /\ transcript' \in Seq(Said) /\ Len(transcript') = n + 2
        /\ sent' \in Seq(Said) /\ Len(sent') = n + 1
    BY <1>0, <2>1 DEF Said
  <2>3. /\ \A i \in 1 .. n : transcript'[i] = transcript[i] /\ sent'[i] = transcript[i]
        /\ transcript'[n + 1] = "text" /\ sent'[n + 1] = "text"
    BY <1>0, <2>1
  <2>4. ChatTypeOK' /\ ReplyHasBubble'
    BY <1>0, <2>1, <2>2 DEF ChatTypeOK, ReplyHasBubble
  <2>5. BlanksKnown' /\ AsksTranscript'
    BY <1>0, <2>1, <2>2, <2>3 DEF BlanksKnown, AsksTranscript
  <2> QED
    BY <2>4, <2>5 DEF ChatInv
<1>3. ASSUME NEW delta \in {"space", "text"}, Token(delta) PROVE ChatInv'
  <2>1. reply = "coming" /\ UNCHANGED <<widget, reply, sent, blankAt>> /\ n >= 2
    BY <1>0, <1>3 DEF Token, ReplyHasBubble
  <2>2. PICK grown \in Said : transcript' = SE!ReplaceAt(transcript, n, grown)
    BY <1>3 DEF Token, Grown, Said
  <2>3. n >= 1
    BY <1>0, <2>1
  <2>4. /\ transcript' \in Seq(Said) /\ Len(transcript') = n
        /\ \A i \in 1 .. n : i # n => transcript'[i] = transcript[i]
    BY ONLY <1>0, <2>2, <2>3, BubbleGrows, Zenon
  <2>5. ChatTypeOK' /\ ReplyHasBubble' /\ AsksTranscript'
    BY <1>0, <2>1, <2>4 DEF ChatTypeOK, ReplyHasBubble, AsksTranscript
  <2>6. BlanksKnown'
    BY <1>0, <2>1, <2>4 DEF BlanksKnown
  <2> QED
    BY <2>5, <2>6 DEF ChatInv
<1>4. ASSUME reply' = "none", sent' = <<>>, transcript' = transcript, widget' \in Widgets,
             blankAt' = n \/ (blankAt' = blankAt /\ (reply # "none" => transcript[n] = "text"))
      PROVE  ChatInv'
  <2>1. ChatTypeOK' /\ ReplyHasBubble' /\ AsksTranscript'
    BY <1>0, <1>4 DEF ChatTypeOK, ReplyHasBubble, AsksTranscript
  <2>2. BlanksKnown'
    BY <1>0, <1>4 DEF BlanksKnown
  <2> QED
    BY <2>1, <2>2 DEF ChatInv
<1>5. CASE Ends \/ Leave
  <2>1. /\ reply' = "none" /\ sent' = <<>> /\ transcript' = transcript /\ widget' \in Widgets
        /\ (reply = "none" /\ blankAt' = blankAt) \/ LeftAsIs
    BY <1>0, <1>5 DEF Ends, Leave, ChatTypeOK
  <2> QED
    BY <1>4, <2>1 DEF LeftAsIs, SE!Last
<1>6. CASE Fails
  <2>1. reply # "none" /\ reply' = "none" /\ sent' = <<>> /\ widget' \in Widgets /\ n >= 2
        /\ blankAt <= n - 2
    BY <1>0, <1>6 DEF Fails, ReplyHasBubble, ChatTypeOK
  <2>2. CASE transcript' = SE!Front(transcript) /\ blankAt' = blankAt
    <3>1. /\ transcript' \in Seq(Said) /\ Len(transcript') = n - 1
          /\ \A i \in 1 .. n - 1 : transcript'[i] = transcript[i]
      BY <1>0, <2>1, <2>2, BubbleGoes
    <3>2. ChatTypeOK' /\ ReplyHasBubble' /\ AsksTranscript'
      BY <1>0, <2>1, <2>2, <3>1 DEF ChatTypeOK, ReplyHasBubble, AsksTranscript
    <3>3. BlanksKnown'
      BY <1>0, <2>1, <2>2, <3>1 DEF BlanksKnown
    <3> QED
      BY <3>2, <3>3 DEF ChatInv
  <2>3. CASE /\ ~EmptyBubble /\ UNCHANGED transcript
             /\ blankAt' = IF SE!Last(transcript) = "space" THEN n ELSE blankAt
    <3>1. transcript[n] \in Said
      BY <1>0, <2>1
    <3> QED
      BY <1>4, <2>1, <2>3, <3>1 DEF EmptyBubble, SE!Last, Said
  <2> QED
    BY <1>6, <2>2, <2>3 DEF Fails
<1> QED
  BY <1>1, <1>2, <1>3, <1>5, <1>6 DEF ChatNext

\* Every variable of the chat keeps its type.
THEOREM ChatTypeCorrect == ChatSpec => []ChatTypeOK
<1>1. ChatInv => ChatTypeOK
  BY DEF ChatInv
<1> QED
  BY <1>1, ChatStart, ChatStep, PTL DEF ChatSpec

\* However replies end, the server refuses a question only while a reply without text
\* is among the messages it looks at: one whose page was left too early, one of a model
\* that said nothing or only white space, or one that failed after white space
\* (ChatWidget.tsx send, validateChatMessages).
THEOREM OnlyBlanksRefuse == ChatSpec => []OnlyBlankRepliesRefuse
<1>1. ChatInv => OnlyBlankRepliesRefuse
  <2> SUFFICES ASSUME ChatInv, reply = "asked", ~Accepted(sent)
               PROVE  blankAt > Len(sent) - Window
    BY DEF OnlyBlankRepliesRefuse
  <2>0. /\ sent \in Seq(Said) /\ transcript \in Seq(Said) /\ Len(sent) \in Nat
        /\ Len(sent) = Len(transcript) - 1 /\ Window \in Nat /\ blankAt \in Nat
    BY ChatAssumption DEF ChatInv, ChatTypeOK, AsksTranscript
  <2>1. PICK i \in 1 .. Len(sent) : i > Len(sent) - Window /\ sent[i] # "text"
    BY <2>0, RefusedIsRecent
  <2>2. transcript[i] # "text" /\ i \in 1 .. Len(transcript) /\ i # Len(transcript)
    BY <2>0, <2>1 DEF ChatInv, AsksTranscript
  <2>3. i <= blankAt
    BY <2>2 DEF ChatInv, BlanksKnown
  <2> QED
    BY <2>0, <2>1, <2>3
<1> QED
  BY <1>1, ChatStart, ChatStep, PTL DEF ChatSpec

-----------------------------------------------------------------------------
(* The client as a whole.  Its parts share no state, so a behaviour of the *)
(* client is a behaviour of each part, whichever part moves.               *)

LEMMA PartsMove ==
  ASSUME [Next]_clientVars
  PROVE  /\ [PanelNext]_panelVars /\ [SettingsNext]_settingsVars /\ [OutcomesNext]_outcomesVars
         /\ [AccountsNext]_accountsVars /\ [ConsoleNext]_consoleVars /\ [ShellNext]_shellVars
         /\ [GoatNext]_goatVars /\ [ComboboxNext]_comboboxVars /\ [ChatNext]_chatVars
BY DEF Next, Rest, PanelScenes, ShellScenes, clientVars

\* The client implements the specification of every part, so what is proved of a
\* part on its own holds of it inside the client.
THEOREM PartsAreThemselves ==
  Spec => /\ PanelSpec /\ SettingsSpec /\ OutcomesSpec /\ AccountsSpec /\ ConsoleSpec
          /\ ShellSpec /\ GoatSpec /\ ComboboxSpec /\ ChatSpec
<1>1. Init => /\ PanelInit /\ SettingsInit /\ OutcomesInit /\ AccountsInit /\ ConsoleInit
              /\ ShellInit /\ GoatInit /\ ComboboxInit /\ ChatInit
  BY DEF Init
<1> QED
  BY <1>1, PartsMove, PTL
  DEF Spec, PanelSpec, SettingsSpec, OutcomesSpec, AccountsSpec, ConsoleSpec, ShellSpec,
      GoatSpec, ComboboxSpec, ChatSpec

\* Every variable of the client keeps its type: no answer, late or out of order,
\* leaves a form, a list, a session or a transcript in a state the code has no
\* name for.
THEOREM ClientTypesCorrect == Spec => []ClientTypeOK
BY PartsAreThemselves, PanelTypeCorrect, SettingsTypeCorrect, OutcomesTypeCorrect,
   AccountsTypeCorrect, ConsoleTypeCorrect, ShellTypeCorrect, GoatTypeCorrect,
   ComboboxTypeCorrect, ChatTypeCorrect, PTL DEF ClientTypeOK

=============================================================================
