-------------------------------- MODULE Goat --------------------------------
(***************************************************************************)
(* The GOAT mini-game: the page that plays it (GoatGame.tsx, lib/game.ts)  *)
(* and the two handlers behind it (game_handler.go, game/token.go,         *)
(* game/validate.go), for one player and one visit of the page.            *)
(*                                                                         *)
(* Run tokens are numbered in the order the server mints them.  Runs are   *)
(* honest, but a token minted while a run was played makes it implausible. *)
(***************************************************************************)
EXTENDS QueryCache, Integers

CONSTANTS
  MaxTokens, MaxRuns, MaxRestarts, \* bounds
  NoToken

ASSUME GoatAssumption ==
  {MaxTokens, MaxRuns, MaxRestarts} \subseteq Nat /\ NoToken \notin Nat /\ NoData \notin Nat

Tokens == 1 .. MaxTokens
Runs   == 1 .. MaxRuns

\* A run: played, sent to the server, consumed there, then stored or refused, and heard of.
RunStages == {"unplayed", "playing", "sent", "consumed", "stored", "refused", "heard"}
GoatRun == [stage : RunStages, token : Tokens \union {NoToken}, next : Tokens \union {NoToken}]
Unplayed == [stage |-> "unplayed", token |-> NoToken, next |-> NoToken]

VARIABLES
  issued,        \* tokens minted
  expired,       \* tokens up to this number are past their ten minutes
  seen,          \* seenJTI: tokens used, in memory
  gameRuns,      \* table game_runs: <<run, token>>
  restarts,
  boardQ,        \* the query ["game-leaderboard"]; its data is the run_token
  armed,         \* tokenRef, and what the bundle echoes
  goatRun        \* goatRun[r]: the runs of this visit

goatServer == <<issued, expired, seen, gameRuns, restarts>>
goatVars   == <<goatServer, boardQ, armed, goatRun>>

-----------------------------------------------------------------------------
GoatInit ==
  /\ issued = 0 /\ expired = 0 /\ seen = {} /\ gameRuns = {} /\ restarts = 0
  /\ boardQ = Fetch(Unasked) /\ armed = NoToken
  /\ goatRun = [r \in Runs |-> Unplayed]

\* Ten minutes pass.
TokensExpire ==
  /\ expired < issued /\ expired' = issued
  /\ UNCHANGED <<issued, seen, gameRuns, restarts, boardQ, armed, goatRun>>

\* The server restarts: its memory is gone, and the requests it was handling.
GoatRestart ==
  /\ restarts < MaxRestarts /\ restarts' = restarts + 1
  /\ seen' = {}
  /\ goatRun' = [r \in Runs |-> IF goatRun[r].stage \in {"sent", "consumed"}
                                THEN [goatRun[r] EXCEPT !.stage = "refused"] ELSE goatRun[r]]
  /\ UNCHANGED <<issued, expired, gameRuns, boardQ, armed>>

FocusGame ==
  /\ boardQ.flight = "idle" /\ boardQ' = Fetch(boardQ)
  /\ UNCHANGED <<goatServer, armed, goatRun>>

\* GetGameLeaderboard mints a token every time.
ServeBoard ==
  /\ boardQ.flight = "sent" /\ issued < MaxTokens
  /\ issued' = issued + 1 /\ boardQ' = Served(boardQ, issued + 1)
  /\ UNCHANGED <<expired, seen, gameRuns, restarts, armed, goatRun>>

\* The first board mounts the game; a later one pushes its token into it.
BoardComes ==
  /\ boardQ.flight = "served"
  /\ boardQ' = Arrived(boardQ) /\ armed' = boardQ.answer
  /\ UNCHANGED <<goatServer, goatRun>>

BoardFails ==
  /\ boardQ.flight # "idle" /\ boardQ' = Failed(boardQ)
  /\ UNCHANGED <<goatServer, armed, goatRun>>

-----------------------------------------------------------------------------
(* One run.                                                                *)

BeginRun(r) ==
  /\ armed # NoToken /\ goatRun[r].stage = "unplayed"
  /\ \A s \in 1 .. r - 1 : goatRun[s].stage \notin {"unplayed", "playing"}
  /\ goatRun' = [goatRun EXCEPT ![r].stage = "playing"]
  /\ UNCHANGED <<goatServer, boardQ, armed>>

\* onGameEnd: the result carries the token current when the run ends.
EndGame(r) ==
  /\ goatRun[r].stage = "playing"
  /\ goatRun' = [goatRun EXCEPT ![r].stage = "sent", ![r].token = armed]
  /\ UNCHANGED <<goatServer, boardQ, armed>>

\* Used tokens are forgotten only once they have expired.
Kept == seen \ (1 .. expired)

MutConsume(t) == Kept

\* consume: the token is used from here on, whatever comes of the run.
Consume(t) == Kept \union {t}

VerifyRun(r) ==
  /\ goatRun[r].stage = "sent"
  /\ LET t == goatRun[r].token
     IN  IF t <= expired \/ t \in seen
         THEN goatRun' = [goatRun EXCEPT ![r].stage = "refused"] /\ UNCHANGED seen
         ELSE goatRun' = [goatRun EXCEPT ![r].stage = "consumed"] /\ seen' = Consume(t)
  /\ UNCHANGED <<issued, expired, gameRuns, restarts, boardQ, armed>>

\* ValidateRun: a token minted during the run proves too little time for its
\* distance.  Or the insert fails.
RefuseRun(r) ==
  /\ goatRun[r].stage = "consumed"
  /\ goatRun' = [goatRun EXCEPT ![r].stage = "refused"]
  /\ UNCHANGED <<goatServer, boardQ, armed>>

\* InsertGameRun; then the standing, which may fail, and a token for the next run.
StoreRun(r) ==
  /\ goatRun[r].stage = "consumed"
  /\ gameRuns' = gameRuns \union {<<r, goatRun[r].token>>}
  /\ \/ /\ issued < MaxTokens /\ issued' = issued + 1
        /\ goatRun' = [goatRun EXCEPT ![r].stage = "stored", ![r].next = issued + 1]
     \/ UNCHANGED issued /\ goatRun' = [goatRun EXCEPT ![r].stage = "refused"]
  /\ UNCHANGED <<expired, seen, restarts, boardQ, armed>>

\* Saved: the answer's token is armed, and the boards are asked for.
HearRunStored(r) ==
  /\ goatRun[r].stage = "stored"
  /\ goatRun' = [goatRun EXCEPT ![r].stage = "heard"]
  /\ armed' = goatRun[r].next /\ boardQ' = Refetch(boardQ)
  /\ UNCHANGED goatServer

MutAfterRefusal == boardQ

\* "refetch so a fresh run_token is armed for the next run".
AfterRefusal == Refetch(boardQ)

\* Refused, or the answer is lost.
HearRunRefused(r) ==
  /\ goatRun[r].stage \in {"refused", "stored"}
  /\ goatRun' = [goatRun EXCEPT ![r].stage = "heard"]
  /\ boardQ' = AfterRefusal
  /\ UNCHANGED <<goatServer, armed>>

GoatNext ==
  \/ TokensExpire \/ GoatRestart
  \/ FocusGame \/ ServeBoard \/ BoardComes \/ BoardFails
  \/ \E r \in Runs : \/ BeginRun(r) \/ EndGame(r)
                     \/ VerifyRun(r) \/ RefuseRun(r) \/ StoreRun(r)
                     \/ HearRunStored(r) \/ HearRunRefused(r)

GoatSpec == GoatInit /\ [][GoatNext]_goatVars

-----------------------------------------------------------------------------
(* Properties.                                                             *)

\* Every variable has its type.
GoatTypeOK ==
  /\ issued \in 0 .. MaxTokens /\ expired \in 0 .. issued
  /\ seen \subseteq 1 .. issued /\ gameRuns \subseteq Runs \X Tokens
  /\ restarts \in 0 .. MaxRestarts
  /\ boardQ \in Query(Tokens) /\ armed \in Tokens \union {NoToken}
  /\ goatRun \in [Runs -> GoatRun]

\* Single use: until the server restarts no token pays for two runs, though a
\* second run may end, and be sent with the same token, before the first is
\* answered (game_handler.go, seenJTI).
TokenPaysOnce ==
  restarts = 0 =>
    \A one, two \in gameRuns : one[2] = two[2] => one = two

SentWith == {goatRun[r].token : r \in Runs} \ {NoToken}

\* With nothing under way and the last load of the boards good, the next run is
\* armed with a token no run was sent with, even after a refused or lost save.
NextRunIsFresh ==
  /\ boardQ.flight = "idle" /\ ~boardQ.failed
  /\ \A r \in Runs : goatRun[r].stage \in {"unplayed", "playing", "heard"}
  => armed \notin SentWith
=============================================================================
