------------------------------ MODULE BonusPanel ------------------------------
(***************************************************************************)
(* The Tournament Bonus panel of the Predictions page (BonusPanel.tsx,     *)
(* BonusUserSelect.tsx, lib/bonus.ts): a user's own picks, saved one by    *)
(* one, and after the lock anyone's picks, read only.  It works on two     *)
(* queries of the cache; a confirmed save writes its answer straight into  *)
(* the first one.                                                          *)
(*                                                                         *)
(* Of the user's stored picks their number counts: picks served after n    *)
(* saves are "upto n".  The teams' list, loaded once, is taken as loaded.  *)
(***************************************************************************)
EXTENDS QueryCache, Integers

CONSTANTS
  TeamCategories, PlayerCategories,
  Choices,          \* teams or players one may pick
  Others,        \* the other users
  You,           \* viewUserId = null
  NoLabel, NoSave,
  MaxSaves, MaxBonusStored   \* bounds

BonusCategories == TeamCategories \union PlayerCategories

MyBonus == [upto : Nat, locked : BOOLEAN]
SaveRequest == [cat : BonusCategories, ref : Choices, upto : Nat, at : {"sent", "stored", "refused"}]

ASSUME BonusPanelAssumption ==
  /\ You \notin Others /\ NoLabel \notin Choices
  /\ TeamCategories \intersect PlayerCategories = {}
  /\ \A S \in SUBSET Others : NoData # S
  /\ NoSave \notin SaveRequest
  /\ MaxSaves \in Nat /\ MaxBonusStored \in Nat

VARIABLES
  bonusLocked,   \* server: the lock instant has passed
  bonusStored,   \* server: how many picks of the user were stored
  pickers,       \* server: the other users with picks
  mounted,       \* the panel is on the page
  bonusQ, allQ,  \* the queries ["bonus"] and ["bonus-predictions"]
  panelOpen, viewing,
  menus,         \* the categories whose list of options is open
  label,         \* optimisticLabels
  saving,        \* the panel's mutation: a request, or 0
  saves,         \* PUT bonus requests, in the order they were sent
  sentSaves,     \* how many were sent
  floor,         \* history: a save the panel has no excuse to be behind of
  overtaken      \* history: player categories whose pending save a later one overtook

bonusServer == <<bonusLocked, bonusStored, pickers>>
panelState  == <<mounted, bonusQ, allQ, panelOpen, viewing, menus, label>>
panelVars   == <<bonusServer, panelState, saving, saves, sentSaves, floor, overtaken>>

-----------------------------------------------------------------------------
(* What the panel shows.                                                   *)

ShowsLocked(q) == q.data # NoData /\ q.data.locked
PanelReady(m, q) == m /\ q.data # NoData /\ ~q.failed

\* useAllBonusPredictions(locked && open).
AllEnabled(m, q, o) == m /\ o /\ ShowsLocked(q)

Pickers(a) == IF a.data = NoData THEN {} ELSE a.data

MutLostOnlyIfGone(v, a) == v # You /\ ~IsLoading(a) /\ v \notin Pickers(a)

\* The picks of the viewed user are not to be had.
Lost(v, a) == v # You /\ ~IsLoading(a) /\ (a.failed \/ v \notin Pickers(a))

\* A render: the second query is asked once it is enabled, and the view falls
\* back to one's own picks, in the same pass, when the viewed ones are lost.
Settle(m, q, a, o, v) ==
  LET asked == IF AllEnabled(m, q, o) /\ ~AllEnabled(mounted, bonusQ, panelOpen)
               THEN Fetch(a) ELSE a
  IN  /\ mounted' = m /\ bonusQ' = q /\ allQ' = asked /\ panelOpen' = o
      /\ viewing' = IF AllEnabled(m, q, o) /\ Lost(v, asked) THEN You ELSE v
      /\ menus' = IF PanelReady(m, q) /\ o THEN menus ELSE {}

\* isDisabled || viewingOther.
Frozen == ShowsLocked(bonusQ) \/ saving # 0 \/ viewing # You

-----------------------------------------------------------------------------
PanelInit ==
  /\ bonusLocked = FALSE /\ bonusStored = 0 /\ pickers = {}
  /\ mounted = FALSE /\ panelOpen = FALSE /\ viewing = You /\ menus = {}
  /\ bonusQ = Unasked /\ allQ = Unasked
  /\ label = [c \in BonusCategories |-> NoLabel]
  /\ saving = 0 /\ saves = [n \in 1 .. MaxSaves |-> NoSave] /\ sentSaves = 0
  /\ floor = 0 /\ overtaken = {}

\* The lock passes, or an admin moves it (PutAdminSettings).
LockPasses ==
  /\ bonusLocked' = ~bonusLocked
  /\ UNCHANGED <<bonusStored, pickers, panelState, saving, saves, sentSaves, floor, overtaken>>

\* Another device of the user, or another user, saves a pick.
SaveMineElsewhere ==
  /\ ~bonusLocked /\ bonusStored < MaxBonusStored
  /\ bonusStored' = bonusStored + 1
  /\ UNCHANGED <<bonusLocked, pickers, panelState, saving, saves, sentSaves, floor, overtaken>>

OtherPicks(u) ==
  /\ ~bonusLocked /\ pickers' = pickers \union {u}
  /\ UNCHANGED <<bonusLocked, bonusStored, panelState, saving, saves, sentSaves, floor, overtaken>>

-----------------------------------------------------------------------------
\* The page is opened, and left: what is not in the cache is forgotten.
OpenPage ==
  /\ ~mounted
  /\ Settle(TRUE, Fetch(bonusQ), allQ, FALSE, You)
  /\ UNCHANGED <<bonusServer, label, saving, saves, sentSaves, floor, overtaken>>

LeavePage ==
  /\ mounted
  /\ Settle(FALSE, bonusQ, allQ, FALSE, You)
  /\ label' = [c \in BonusCategories |-> NoLabel] /\ saving' = 0 /\ overtaken' = {}
  /\ UNCHANGED <<bonusServer, saves, sentSaves, floor>>

ToggleOpen ==
  /\ PanelReady(mounted, bonusQ)
  /\ Settle(mounted, bonusQ, allQ, ~panelOpen, viewing)
  /\ UNCHANGED <<bonusServer, label, saving, saves, sentSaves, floor, overtaken>>

\* Focusing the window asks every query in use again.
FocusPage ==
  /\ mounted
  /\ Settle(mounted, Fetch(bonusQ),
            IF AllEnabled(mounted, bonusQ, panelOpen) THEN Fetch(allQ) ELSE allQ,
            panelOpen, viewing)
  /\ UNCHANGED <<bonusServer, label, saving, saves, sentSaves, floor, overtaken>>

ServeBonus ==
  /\ bonusQ.flight = "sent"
  /\ bonusQ' = Served(bonusQ, [upto |-> bonusStored, locked |-> bonusLocked])
  /\ UNCHANGED <<bonusServer, mounted, allQ, panelOpen, viewing, menus, label,
                 saving, saves, sentSaves, floor, overtaken>>

BonusComes ==
  /\ \/ bonusQ.flight = "served" /\ Settle(mounted, Arrived(bonusQ), allQ, panelOpen, viewing)
     \/ bonusQ.flight # "idle" /\ Settle(mounted, Failed(bonusQ), allQ, panelOpen, viewing)
  /\ UNCHANGED <<bonusServer, label, saving, saves, sentSaves, floor, overtaken>>

\* GET /bonus/predictions is refused before the lock.
ServeAll ==
  /\ allQ.flight = "sent" /\ bonusLocked
  /\ allQ' = Served(allQ, pickers)
  /\ UNCHANGED <<bonusServer, mounted, bonusQ, panelOpen, viewing, menus, label,
                 saving, saves, sentSaves, floor, overtaken>>

AllComes ==
  /\ \/ allQ.flight = "served" /\ Settle(mounted, bonusQ, Arrived(allQ), panelOpen, viewing)
     \/ allQ.flight # "idle" /\ Settle(mounted, bonusQ, Failed(allQ), panelOpen, viewing)
  /\ UNCHANGED <<bonusServer, label, saving, saves, sentSaves, floor, overtaken>>

-----------------------------------------------------------------------------
\* BonusUserSelect: offered once locked, it lists "You" and who has picks.
ViewUser(u) ==
  /\ PanelReady(mounted, bonusQ) /\ panelOpen /\ ShowsLocked(bonusQ) /\ ~IsLoading(allQ)
  /\ u \in Pickers(allQ) \union {You}
  /\ Settle(mounted, bonusQ, allQ, panelOpen, u)
  /\ UNCHANGED <<bonusServer, label, saving, saves, sentSaves, floor, overtaken>>

\* A team's menu, or the results of a player search.  Each has an open state of its
\* own, so that by keyboard, and in the 150 ms after a search field is left, several
\* are open; becoming disabled closes none.
OpenMenu(c) ==
  /\ c \notin menus /\ PanelReady(mounted, bonusQ) /\ panelOpen /\ ~Frozen
  /\ menus' = menus \union {c}
  /\ UNCHANGED <<bonusServer, mounted, bonusQ, allQ, panelOpen, viewing, label,
                 saving, saves, sentSaves, floor, overtaken>>

\* A press outside, Escape, the button again, or the field left.
CloseMenu(c) ==
  /\ c \in menus /\ menus' = menus \ {c}
  /\ UNCHANGED <<bonusServer, mounted, bonusQ, allQ, panelOpen, viewing, label,
                 saving, saves, sentSaves, floor, overtaken>>

\* The request the panel waits for, if it is of a player.
PlayerPending ==
  IF saving = 0 THEN {} ELSE {saves[saving].cat} \intersect PlayerCategories

\* handleTeamChange, handlePlayerSelect: a player's name is shown at once.  The
\* mutation forgets the request it was waiting for, and that one's callbacks.
ChoosePick(c, r) ==
  /\ c \in menus /\ sentSaves < MaxSaves
  /\ menus' = menus \ {c}
  /\ label' = IF c \in PlayerCategories THEN [label EXCEPT ![c] = r] ELSE label
  /\ overtaken' = (overtaken \union PlayerPending) \ {c}
  /\ sentSaves' = sentSaves + 1 /\ saving' = sentSaves + 1
  /\ saves' = [saves EXCEPT ![sentSaves + 1] = [cat |-> c, ref |-> r, upto |-> 0, at |-> "sent"]]
  /\ UNCHANGED <<bonusServer, mounted, bonusQ, allQ, panelOpen, viewing, floor>>

ServeSave(n) ==
  /\ saves[n] # NoSave /\ saves[n].at = "sent"
  /\ IF bonusLocked
     THEN saves' = [saves EXCEPT ![n].at = "refused"] /\ UNCHANGED bonusStored
     ELSE /\ bonusStored < MaxBonusStored
          /\ bonusStored' = bonusStored + 1
          /\ saves' = [saves EXCEPT ![n].at = "stored", ![n].upto = bonusStored + 1]
  /\ UNCHANGED <<bonusLocked, pickers, panelState, saving, sentSaves, floor, overtaken>>

MutLabelStays(n) == [label EXCEPT ![saves[n].cat] =
                       IF n = saving /\ saves[n].at = "stored" THEN NoLabel ELSE @]

\* The callbacks of mutate: only of the request the panel waits for.
LabelsAfter(n) == [label EXCEPT ![saves[n].cat] = IF n = saving THEN NoLabel ELSE @]

Answered(n) ==
  /\ label' = LabelsAfter(n)
  /\ saving' = IF n = saving THEN 0 ELSE saving
  /\ saves' = [saves EXCEPT ![n] = NoSave]
  /\ UNCHANGED <<bonusServer, sentSaves, overtaken>>

\* Nothing else of the user's picks is on its way to the panel.
Alone(n) ==
  /\ bonusQ.flight = "idle"
  /\ \A k \in 1 .. MaxSaves : k # n => saves[k] = NoSave

MutAnswerDropped(n) == bonusQ

\* setQueryData(["bonus"], answer): a GET in flight is not dropped.
BonusAfter(n) == SetData(bonusQ, [upto |-> saves[n].upto, locked |-> FALSE])

HearSave(n) ==
  /\ saves[n] # NoSave /\ saves[n].at = "stored"
  /\ Answered(n)
  /\ Settle(mounted, BonusAfter(n), allQ, panelOpen, viewing)
  /\ floor' = IF Alone(n) /\ saves[n].upto > floor THEN saves[n].upto ELSE floor

\* Refused, or lost whatever the server did.
HearSaveError(n) ==
  /\ saves[n] # NoSave
  /\ Answered(n)
  /\ UNCHANGED <<mounted, bonusQ, allQ, panelOpen, viewing, menus, floor>>

PanelNext ==
  \/ LockPasses \/ SaveMineElsewhere
  \/ \E c \in BonusCategories, r \in Choices : ChoosePick(c, r)
  \/ \E u \in Others : OtherPicks(u)
  \/ OpenPage \/ LeavePage \/ ToggleOpen \/ FocusPage
  \/ ServeBonus \/ BonusComes \/ ServeAll \/ AllComes
  \/ \E u \in Others \union {You} : ViewUser(u)
  \/ \E c \in BonusCategories : OpenMenu(c) \/ CloseMenu(c)
  \/ \E n \in 1 .. MaxSaves : ServeSave(n) \/ HearSave(n) \/ HearSaveError(n)

PanelSpec == PanelInit /\ [][PanelNext]_panelVars

-----------------------------------------------------------------------------
(* Properties.                                                             *)

\* Every variable has its type.
PanelTypeOK ==
  /\ bonusLocked \in BOOLEAN /\ pickers \subseteq Others
  /\ bonusStored \in Nat
  /\ mounted \in BOOLEAN /\ panelOpen \in BOOLEAN
  /\ bonusQ \in Query(MyBonus) /\ allQ \in Query(SUBSET Others)
  /\ viewing \in Others \union {You} /\ menus \subseteq BonusCategories
  /\ label \in [BonusCategories -> Choices \union {NoLabel}]
  /\ saving \in 0 .. MaxSaves /\ sentSaves \in 0 .. MaxSaves
  /\ saves \in [1 .. MaxSaves -> SaveRequest \union {NoSave}]
  /\ floor \in Nat /\ overtaken \subseteq PlayerCategories

\* While picks are locked the panel never shows the rows of a user whose picks
\* it does not have, where they would be misread as "no picks" (BonusPanel: the
\* fallback during render), whatever fails, closes, reopens or is refetched.
ViewedAreTheirs ==
  AllEnabled(mounted, bonusQ, panelOpen) /\ viewing # You =>
    viewing \in Pickers(allQ) /\ ~allQ.failed

\* Once a save was confirmed with nothing else in flight, the panel never shows
\* picks older than it (useSaveBonus writes the answer into the cache).  With a
\* GET in flight it may: the GET is not cancelled and its older answer lands last.
SaveSurvives == bonusQ.data # NoData => bonusQ.data.upto >= floor

\* A name shown for a player pick before the server confirmed it belongs to the
\* request the panel is waiting for, and goes when that is answered, either way;
\* only one whose request was overtaken by a choice made while it was pending stays
\* (BonusPanel: optimisticLabels, and a mutation's callbacks).
LabelsSettle ==
  \A c \in BonusCategories : label[c] # NoLabel =>
    \/ c \in overtaken
    \/ /\ saving # 0 /\ saves[saving] # NoSave
       /\ saves[saving].cat = c /\ saves[saving].ref = label[c]
=============================================================================
