------------------------------ MODULE MCClient ------------------------------
(* Small instances for TLC of the client's parts that share no state: a      *)
(* behaviour is of one part, chosen at the start, and the others rest.  The  *)
(* panel and the shell have two scenes each: "panel" and "saves", "shell"    *)
(* and "session".                                                            *)
EXTENDS BonusPanel, SettingsForm, OutcomesForm, Accounts, MatchConsole, Shell, Goat,
        Combobox, Chat, TLC

CONSTANTS Parts, p1, t1, t2, ab, ac

VARIABLE part

\* MatchConsole: a knockout match of two teams; another admin makes a group match
\* of it; the match form may name a team twice.
MCFixture == [home |-> t1, away |-> t2, ko |-> TRUE]
MCRewrites == {[MCFixture EXCEPT !.ko = FALSE]}
MCDrafts == {[home |-> h, away |-> t2, ko |-> TRUE, timed |-> TRUE] : h \in {t1, t2}}

\* Combobox: two players match one text, one the other.
MCHits == (ab :> 2) @@ (ac :> 1)

-----------------------------------------------------------------------------
Rest(names, state) == part \notin names => UNCHANGED state

PanelScenes == {"panel", "saves"}
ShellScenes == {"shell", "session"}

\* Either the lock passes and the panel shows others' picks, or it saves twice; either the page is loaded
\* again and marks pile up, or somebody signs in.
SceneBounds ==
  /\ part = "panel" => sentSaves' <= 1 /\ bonusStored' <= 1
  /\ part = "saves" => ~bonusLocked' /\ pickers' = {}
  /\ part = "shell" => signIns' = 0
  /\ part = "session" => visits' = 1 /\ Cardinality(skips') <= 1 /\ Cardinality(marks') <= 1

Init ==
  /\ part \in Parts
  /\ PanelInit /\ SettingsInit /\ OutcomesInit /\ AccountsInit
  /\ ConsoleInit /\ ShellInit /\ GoatInit /\ ComboboxInit /\ ChatInit
  \* What a part at rest began with does not matter.
  /\ part \notin ShellScenes => cookie = Nobody
  /\ part # "settings" => stored[LockKey] = 0
  \* One user's session at the start is the mirror image of another's.
  /\ cookie \in {Nobody, p1}

Next ==
  /\ UNCHANGED part
  /\ \/ part \in PanelScenes /\ PanelNext
     \/ part = "settings" /\ SettingsNext
     \/ part = "outcomes" /\ OutcomesNext
     \/ part = "accounts" /\ AccountsNext
     \/ part = "console"  /\ ConsoleNext
     \/ part \in ShellScenes /\ ShellNext
     \/ part = "goat"     /\ GoatNext
     \/ part = "combobox" /\ ComboboxNext
     \/ part = "chat"     /\ ChatNext
  /\ Rest(PanelScenes, panelVars) /\ Rest({"settings"}, settingsVars)
  /\ Rest({"outcomes"}, outcomesVars) /\ Rest({"accounts"}, accountsVars)
  /\ Rest({"console"}, consoleVars) /\ Rest(ShellScenes, shellVars)
  /\ Rest({"goat"}, goatVars) /\ Rest({"combobox"}, comboboxVars)
  /\ Rest({"chat"}, chatVars)
  /\ SceneBounds

clientVars == <<part, panelVars, settingsVars, outcomesVars, accountsVars,
                consoleVars, shellVars, goatVars, comboboxVars, chatVars>>

Spec == Init /\ [][Next]_clientVars

\* Every variable of every part of the client has its type.
ClientTypeOK ==
  /\ PanelTypeOK /\ SettingsTypeOK /\ OutcomesTypeOK /\ AccountsTypeOK
  /\ ConsoleTypeOK /\ ShellTypeOK /\ GoatTypeOK /\ ComboboxTypeOK
  /\ ChatTypeOK
=============================================================================
