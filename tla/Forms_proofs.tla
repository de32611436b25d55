----------------------------- MODULE Forms_proofs -----------------------------
(***************************************************************************)
(* Theorems about the forms of the client that edit what others edit too:  *)
(* BonusPanel, SettingsForm, OutcomesForm, MatchConsole and Accounts, for  *)
(* any number of users, options, saves and settings.                       *)
(***************************************************************************)
EXTENDS QueryCache_proofs, BonusPanel, SettingsForm, OutcomesForm, MatchConsole,
        Accounts, FiniteSetTheorems

-----------------------------------------------------------------------------
(* BonusPanel: viewed rows.  Whoever is viewed was chosen from a list that   *)
(* was loaded, and a list once loaded is only ever replaced by another.      *)

AllLoaded ==
  /\ viewing # You => allQ.data # NoData
  /\ allQ.flight = "served" => allQ.answer # NoData

\* A render keeps the types, and never leaves rows on view that are not had.
LEMMA PanelSettles ==
  ASSUME PanelTypeOK, NEW m \in BOOLEAN, NEW q \in Query(MyBonus),
         NEW a \in Query(SUBSET Others), NEW o \in BOOLEAN, NEW v \in Others \union {You},
         v # You => a.data # NoData, a.flight = "served" => a.answer # NoData,
         Settle(m, q, a, o, v)
  PROVE  /\ mounted' = m /\ bonusQ' = q /\ panelOpen' = o
         /\ allQ' \in Query(SUBSET Others) /\ viewing' \in Others \union {You}
         /\ menus' \in {menus, {}} /\ AllLoaded' /\ ViewedAreTheirs'
         /\ ~PanelReady(m, q) => menus' = {}
<1> DEFINE fresh == AllEnabled(m, q, o) /\ ~AllEnabled(mounted, bonusQ, panelOpen)
           loaded == IF fresh THEN Fetch(a) ELSE a
<1>1. /\ loaded \in Query(SUBSET Others) /\ loaded.data = a.data
      /\ loaded.flight = "served" => loaded.answer # NoData
  BY QueryFetched
<1>2. /\ mounted' = m /\ bonusQ' = q /\ allQ' = loaded /\ panelOpen' = o
      /\ viewing' = IF AllEnabled(m, q, o) /\ Lost(v, loaded) THEN You ELSE v
      /\ menus' = IF PanelReady(m, q) /\ o THEN menus ELSE {}
  BY DEF Settle
<1> HIDE DEF loaded
<1>3. AllLoaded'
  BY <1>1, <1>2 DEF AllLoaded
<1>4. ViewedAreTheirs'
  <2>1. SUFFICES ASSUME AllEnabled(m, q, o), v # You, ~Lost(v, loaded), viewing' = v
                 PROVE  v \in Pickers(loaded) /\ ~loaded.failed
    BY <1>2 DEF ViewedAreTheirs, AllEnabled, Pickers, ShowsLocked
  <2>2. ~IsLoading(loaded)
    BY <1>1, <2>1 DEF IsLoading
  <2> QED
    BY <2>1, <2>2 DEF Lost
<1> QED
  BY <1>1, <1>2, <1>3, <1>4

PanelSafe == PanelTypeOK /\ AllLoaded /\ ViewedAreTheirs

LEMMA PanelStartsSafe == PanelInit => PanelSafe
<1> SUFFICES ASSUME PanelInit PROVE PanelSafe
  OBVIOUS
<1>1. bonusQ \in Query(MyBonus) /\ allQ \in Query(SUBSET Others) /\ allQ.flight = "idle"
  BY QueryStarts DEF PanelInit
<1>2. label \in [BonusCategories -> Choices \union {NoLabel}]
      /\ saves \in [1 .. MaxSaves -> SaveRequest \union {NoSave}]
  BY DEF PanelInit
<1>3. /\ saving \in 0 .. MaxSaves /\ sentSaves \in 0 .. MaxSaves
      /\ floor \in Nat /\ bonusStored \in Nat /\ overtaken \subseteq PlayerCategories
  BY BonusPanelAssumption DEF PanelInit
<1>4. /\ bonusLocked \in BOOLEAN /\ pickers \subseteq Others /\ mounted \in BOOLEAN
      /\ panelOpen \in BOOLEAN /\ viewing \in Others \union {You}
      /\ menus \subseteq BonusCategories
  BY DEF PanelInit
<1>5. PanelTypeOK
  BY <1>1, <1>2, <1>3, <1>4 DEF PanelTypeOK
<1> QED
  BY <1>1, <1>5 DEF PanelInit, PanelSafe, AllLoaded, ViewedAreTheirs

\* An answered request is forgotten.
LEMMA SaveAnswered ==
  ASSUME PanelTypeOK, NEW n \in 1 .. MaxSaves, saves[n] # NoSave, Answered(n)
  PROVE  /\ saves' \in [1 .. MaxSaves -> SaveRequest \union {NoSave}] /\ saves'[n] = NoSave
         /\ \A k \in 1 .. MaxSaves : k # n => saves'[k] = saves[k]
         /\ label' \in [BonusCategories -> Choices \union {NoLabel}]
         /\ \A c \in BonusCategories :
              label'[c] = IF n = saving /\ c = saves[n].cat THEN NoLabel ELSE label[c]
         /\ saving' = IF n = saving THEN 0 ELSE saving
         /\ saving' \in 0 .. MaxSaves
         /\ UNCHANGED <<bonusServer, sentSaves, overtaken>>
<1>1. saves[n] \in SaveRequest /\ saves[n].cat \in BonusCategories
  BY DEF PanelTypeOK, SaveRequest
<1>2. saves' = [saves EXCEPT ![n] = NoSave] /\ label' = LabelsAfter(n)
      /\ saving' = (IF n = saving THEN 0 ELSE saving) /\ UNCHANGED <<bonusServer, sentSaves, overtaken>>
  BY DEF Answered
<1>3. /\ saves' \in [1 .. MaxSaves -> SaveRequest \union {NoSave}] /\ saves'[n] = NoSave
      /\ \A k \in 1 .. MaxSaves : k # n => saves'[k] = saves[k]
  BY <1>2 DEF PanelTypeOK
<1>4. /\ label' \in [BonusCategories -> Choices \union {NoLabel}]
      /\ \A c \in BonusCategories :
           label'[c] = IF n = saving /\ c = saves[n].cat THEN NoLabel ELSE label[c]
  BY <1>1, <1>2 DEF PanelTypeOK, LabelsAfter
<1>5. saving' \in 0 .. MaxSaves
  BY <1>2, BonusPanelAssumption DEF PanelTypeOK
<1> QED
  BY <1>2, <1>3, <1>4, <1>5

\* The server moves a request on.
LEMMA SaveServed ==
  ASSUME PanelTypeOK, NEW n \in 1 .. MaxSaves, ServeSave(n)
  PROVE  /\ saves' \in [1 .. MaxSaves -> SaveRequest \union {NoSave}]
         /\ saves[n] # NoSave /\ saves'[n] # NoSave
         /\ saves'[n].cat = saves[n].cat /\ saves'[n].ref = saves[n].ref
         /\ \A k \in 1 .. MaxSaves : k # n => saves'[k] = saves[k]
         /\ \/ saves'[n].at = "refused" /\ bonusStored' = bonusStored
            \/ /\ saves'[n].at = "stored" /\ saves'[n].upto = bonusStored + 1
               /\ bonusStored' = bonusStored + 1
         /\ UNCHANGED <<bonusLocked, pickers, panelState, saving, sentSaves, floor, overtaken>>
<1>1. saves[n] \in SaveRequest /\ bonusStored \in Nat
      /\ saves \in [1 .. MaxSaves -> SaveRequest \union {NoSave}]
  BY DEF PanelTypeOK, ServeSave
<1>2. CASE bonusLocked
  <2> DEFINE s == [saves[n] EXCEPT !.at = "refused"]
  <2>1. saves' = [saves EXCEPT ![n] = s] /\ bonusStored' = bonusStored
    BY <1>2 DEF ServeSave
  <2>2. /\ s \in SaveRequest /\ s.cat = saves[n].cat /\ s.ref = saves[n].ref
        /\ s.at = "refused"
    BY <1>1 DEF SaveRequest
  <2> HIDE DEF s
  <2>3. s # NoSave
    BY <2>2, BonusPanelAssumption
  <2> QED
    BY <1>1, <2>1, <2>2, <2>3 DEF ServeSave
<1>3. CASE ~bonusLocked
  <2> DEFINE next == bonusStored + 1
             s == [saves[n] EXCEPT !.at = "stored", !.upto = next]
  <2>0. next \in Nat
    BY <1>1
  <2>1. saves' = [saves EXCEPT ![n] = s] /\ bonusStored' = next
    BY <1>1, <1>3 DEF ServeSave
  <2> HIDE DEF next
  <2>2. /\ s \in SaveRequest /\ s.cat = saves[n].cat /\ s.ref = saves[n].ref
        /\ s.at = "stored" /\ s.upto = next
    BY <1>1, <2>0 DEF SaveRequest
  <2> HIDE DEF s
  <2>3. s # NoSave
    BY <2>2, BonusPanelAssumption
  <2> QED
    BY <1>1, <2>1, <2>2, <2>3 DEF ServeSave, next
<1> QED
  BY <1>2, <1>3

\* A pick is sent.
LEMMA SaveSent ==
  ASSUME PanelTypeOK, NEW c \in BonusCategories, NEW r \in Choices, ChoosePick(c, r)
  PROVE  /\ saves' \in [1 .. MaxSaves -> SaveRequest \union {NoSave}]
         /\ sentSaves' = sentSaves + 1 /\ saving' = sentSaves' /\ sentSaves' \in 1 .. MaxSaves
         /\ saves'[saving'] # NoSave /\ saves'[saving'].at = "sent"
         /\ saves'[saving'].cat = c /\ saves'[saving'].ref = r
         /\ \A k \in 1 .. MaxSaves : k # saving' => saves'[k] = saves[k]
         /\ overtaken' = (overtaken \union PlayerPending) \ {c}
         /\ overtaken' \subseteq PlayerCategories
<1> DEFINE s == [cat |-> c, ref |-> r, upto |-> 0, at |-> "sent"]
<1>1. /\ saves' = [saves EXCEPT ![sentSaves + 1] = s] /\ sentSaves' = sentSaves + 1
      /\ saving' = sentSaves + 1 /\ sentSaves + 1 \in 1 .. MaxSaves
      /\ saves \in [1 .. MaxSaves -> SaveRequest \union {NoSave}]
  BY BonusPanelAssumption DEF ChoosePick, PanelTypeOK
<1>2. s \in SaveRequest /\ s.cat = c /\ s.ref = r /\ s.at = "sent"
  BY DEF SaveRequest
<1> HIDE DEF s
<1>3. s # NoSave
  BY <1>2, BonusPanelAssumption
<1>4. overtaken' = (overtaken \union PlayerPending) \ {c}
      /\ overtaken' \subseteq PlayerCategories
  BY DEF ChoosePick, PlayerPending, PanelTypeOK
<1> QED
  BY <1>1, <1>2, <1>3, <1>4

LEMMA PanelStaysSafe == PanelSafe /\ [PanelNext]_panelVars => PanelSafe'
<1> SUFFICES ASSUME PanelSafe, [PanelNext]_panelVars PROVE PanelSafe'
  OBVIOUS
<1>0. /\ PanelTypeOK /\ AllLoaded /\ ViewedAreTheirs
      /\ bonusQ \in Query(MyBonus) /\ allQ \in Query(SUBSET Others)
      /\ mounted \in BOOLEAN /\ panelOpen \in BOOLEAN /\ viewing \in Others \union {You}
      /\ bonusStored \in Nat /\ floor \in Nat /\ You \in Others \union {You}
      /\ viewing # You => allQ.data # NoData
      /\ allQ.flight = "served" => allQ.answer # NoData
  BY DEF PanelSafe, PanelTypeOK, AllLoaded
<1> USE DEF PanelSafe
<1>1. CASE UNCHANGED panelVars
  BY <1>0, <1>1 DEF panelVars, bonusServer, panelState, PanelTypeOK, AllLoaded,
                    ViewedAreTheirs, AllEnabled, ShowsLocked, Pickers
<1>2. CASE LockPasses \/ SaveMineElsewhere \/ \E u \in Others : OtherPicks(u)
  <2>1. UNCHANGED <<panelState, saving, saves, sentSaves, floor, overtaken>>
    BY <1>2 DEF LockPasses, SaveMineElsewhere, OtherPicks
  <2>2. bonusLocked' \in BOOLEAN /\ pickers' \subseteq Others
    BY <1>0, <1>2 DEF LockPasses, SaveMineElsewhere, OtherPicks, PanelTypeOK
  <2>3. bonusStored' \in Nat
    BY <1>0, <1>2 DEF LockPasses, SaveMineElsewhere, OtherPicks
  <2> QED
    BY <1>0, <2>1, <2>2, <2>3 DEF panelState, PanelTypeOK, AllLoaded, ViewedAreTheirs,
                                  AllEnabled, ShowsLocked, Pickers
<1>3. ASSUME NEW m \in BOOLEAN, NEW q \in Query(MyBonus), NEW a \in Query(SUBSET Others),
             NEW o \in BOOLEAN, NEW v \in Others \union {You},
             v # You => a.data # NoData, a.flight = "served" => a.answer # NoData,
             Settle(m, q, a, o, v), UNCHANGED <<bonusServer, sentSaves>>,
             label' \in [BonusCategories -> Choices \union {NoLabel}],
             saving' \in 0 .. MaxSaves, floor' \in Nat, overtaken' \subseteq PlayerCategories,
             saves' \in [1 .. MaxSaves -> SaveRequest \union {NoSave}]
      PROVE  PanelSafe'
  <2>1. /\ mounted' = m /\ bonusQ' = q /\ panelOpen' = o
        /\ allQ' \in Query(SUBSET Others) /\ viewing' \in Others \union {You}
        /\ menus' \in {menus, {}} /\ AllLoaded' /\ ViewedAreTheirs'
    BY <1>0, <1>3, PanelSettles
  <2> QED
    BY <1>0, <1>3, <2>1 DEF PanelTypeOK, bonusServer
<1>4. CASE OpenPage \/ LeavePage \/ ToggleOpen \/ FocusPage
  <2>1. /\ Fetch(bonusQ) \in Query(MyBonus) /\ Fetch(allQ) \in Query(SUBSET Others)
        /\ Fetch(allQ).data = allQ.data
        /\ Fetch(allQ).flight = "served" => Fetch(allQ).answer # NoData
    BY <1>0, QueryFetched
  <2>2. /\ UNCHANGED <<bonusServer, saves, sentSaves, floor>>
        /\ label' = label \/ label' = [c \in BonusCategories |-> NoLabel]
        /\ saving' = saving \/ saving' = 0
        /\ overtaken' = overtaken \/ overtaken' = {}
    BY <1>4 DEF OpenPage, LeavePage, ToggleOpen, FocusPage
  <2>5. saving' \in 0 .. MaxSaves
    BY <1>0, <2>2, BonusPanelAssumption DEF PanelTypeOK
  <2>6. label' \in [BonusCategories -> Choices \union {NoLabel}]
    BY <1>0, <2>2 DEF PanelTypeOK
  <2>3. floor' \in Nat /\ saves' \in [1 .. MaxSaves -> SaveRequest \union {NoSave}]
        /\ overtaken' \subseteq PlayerCategories /\ UNCHANGED <<bonusServer, sentSaves>>
    BY <1>0, <2>2 DEF PanelTypeOK
  <2>4. \/ Settle(TRUE, Fetch(bonusQ), allQ, FALSE, You)
        \/ Settle(FALSE, bonusQ, allQ, FALSE, You)
        \/ Settle(mounted, bonusQ, allQ, ~panelOpen, viewing)
        \/ Settle(mounted, Fetch(bonusQ), Fetch(allQ), panelOpen, viewing)
        \/ Settle(mounted, Fetch(bonusQ), allQ, panelOpen, viewing)
    BY <1>4 DEF OpenPage, LeavePage, ToggleOpen, FocusPage
  <2> QED
    BY <1>0, <1>3, <2>1, <2>3, <2>4, <2>5, <2>6
<1>5. CASE BonusComes \/ AllComes
  <2>1. /\ Arrived(bonusQ) \in Query(MyBonus) /\ Failed(bonusQ) \in Query(MyBonus)
        /\ Arrived(allQ) \in Query(SUBSET Others) /\ Failed(allQ) \in Query(SUBSET Others)
        /\ Arrived(allQ).data = allQ.answer /\ Failed(allQ).data = allQ.data
        /\ Arrived(allQ).flight = "idle" /\ Failed(allQ).flight = "idle"
    BY <1>0, QueryArrived, QueryFailed
  <2>2. /\ label' \in [BonusCategories -> Choices \union {NoLabel}]
        /\ saving' \in 0 .. MaxSaves /\ floor' \in Nat /\ overtaken' \subseteq PlayerCategories
        /\ saves' \in [1 .. MaxSaves -> SaveRequest \union {NoSave}]
        /\ UNCHANGED <<bonusServer, sentSaves>>
    BY <1>0, <1>5 DEF BonusComes, AllComes, PanelTypeOK
  <2>3. \/ Settle(mounted, Arrived(bonusQ), allQ, panelOpen, viewing)
        \/ Settle(mounted, Failed(bonusQ), allQ, panelOpen, viewing)
        \/ allQ.flight = "served" /\ Settle(mounted, bonusQ, Arrived(allQ), panelOpen, viewing)
        \/ Settle(mounted, bonusQ, Failed(allQ), panelOpen, viewing)
    BY <1>5 DEF BonusComes, AllComes
  <2> QED
    BY <1>0, <1>3, <2>1, <2>2, <2>3
<1>6. CASE ServeBonus
  <2>1. [upto |-> bonusStored, locked |-> bonusLocked] \in MyBonus
    BY <1>0 DEF PanelTypeOK, MyBonus
  <2>2. bonusQ' \in Query(MyBonus) /\ bonusQ'.data = bonusQ.data
    BY <1>0, <1>6, <2>1, QueryServed DEF ServeBonus
  <2> QED
    BY <1>0, <1>6, <2>2 DEF ServeBonus, bonusServer, PanelTypeOK, AllLoaded, ViewedAreTheirs,
                            AllEnabled, ShowsLocked, Pickers
<1>7. CASE ServeAll
  <2>1. pickers \in SUBSET Others /\ pickers # NoData
    BY <1>0, BonusPanelAssumption DEF PanelTypeOK
  <2>2. /\ allQ' \in Query(SUBSET Others) /\ allQ'.data = allQ.data
        /\ allQ'.failed = allQ.failed /\ allQ'.answer = pickers
    BY <1>0, <1>7, <2>1, QueryServed DEF ServeAll
  <2> QED
    BY <1>0, <1>7, <2>1, <2>2 DEF ServeAll, bonusServer, PanelTypeOK, AllLoaded,
                            ViewedAreTheirs, AllEnabled, ShowsLocked, Pickers
<1>8. ASSUME NEW u \in Others \union {You}, ViewUser(u) PROVE PanelSafe'
  <2>1. u # You => allQ.data # NoData
    BY <1>8 DEF ViewUser, Pickers
  <2>2. Settle(mounted, bonusQ, allQ, panelOpen, u)
        /\ UNCHANGED <<bonusServer, label, saving, saves, sentSaves, floor, overtaken>>
    BY <1>8 DEF ViewUser
  <2>3. /\ label' \in [BonusCategories -> Choices \union {NoLabel}]
        /\ saving' \in 0 .. MaxSaves /\ floor' \in Nat /\ overtaken' \subseteq PlayerCategories
        /\ saves' \in [1 .. MaxSaves -> SaveRequest \union {NoSave}]
        /\ UNCHANGED <<bonusServer, sentSaves>>
    BY <1>0, <2>2 DEF PanelTypeOK
  <2> QED
    BY <1>0, <1>3, <2>1, <2>2, <2>3
<1>9. CASE \E c \in BonusCategories : OpenMenu(c) \/ CloseMenu(c)
  <2>1. menus' \subseteq BonusCategories
        /\ UNCHANGED <<bonusServer, mounted, bonusQ, allQ, panelOpen, viewing, label,
                       saving, saves, sentSaves, floor, overtaken>>
    BY <1>0, <1>9 DEF PanelTypeOK, OpenMenu, CloseMenu
  <2> QED
    BY <1>0, <2>1 DEF bonusServer, PanelTypeOK, AllLoaded, ViewedAreTheirs, AllEnabled,
                      ShowsLocked, Pickers
<1>10. ASSUME NEW c \in BonusCategories, NEW r \in Choices, ChoosePick(c, r) PROVE PanelSafe'
  <2>1. /\ saves' \in [1 .. MaxSaves -> SaveRequest \union {NoSave}]
        /\ sentSaves' \in 0 .. MaxSaves /\ saving' \in 0 .. MaxSaves
        /\ overtaken' \subseteq PlayerCategories
    BY <1>0, <1>10, SaveSent
  <2>2. label' \in [BonusCategories -> Choices \union {NoLabel}] /\ menus' \subseteq BonusCategories
        /\ UNCHANGED <<bonusServer, mounted, bonusQ, allQ, panelOpen, viewing, floor>>
    BY <1>0, <1>10 DEF ChoosePick, PanelTypeOK
  <2> QED
    BY <1>0, <2>1, <2>2 DEF bonusServer, PanelTypeOK, AllLoaded, ViewedAreTheirs, AllEnabled,
                      ShowsLocked, Pickers
<1>11. ASSUME NEW n \in 1 .. MaxSaves, ServeSave(n) PROVE PanelSafe'
  <2>1. /\ saves' \in [1 .. MaxSaves -> SaveRequest \union {NoSave}] /\ bonusStored' \in Nat
        /\ UNCHANGED <<bonusLocked, pickers, panelState, saving, sentSaves, floor, overtaken>>
    BY <1>0, <1>11, SaveServed
  <2> QED
    BY <1>0, <2>1 DEF panelState, PanelTypeOK, AllLoaded, ViewedAreTheirs, AllEnabled,
                      ShowsLocked, Pickers
<1>12. ASSUME NEW n \in 1 .. MaxSaves, HearSave(n) PROVE PanelSafe'
  <2>1. saves[n] \in SaveRequest /\ saves[n].upto \in Nat
    BY <1>0, <1>12 DEF HearSave, PanelTypeOK, SaveRequest
  <2>2. [upto |-> saves[n].upto, locked |-> FALSE] \in MyBonus
    BY <2>1 DEF MyBonus
  <2>3. BonusAfter(n) \in Query(MyBonus)
    BY <1>0, <2>2, QuerySet DEF BonusAfter
  <2>4. Settle(mounted, BonusAfter(n), allQ, panelOpen, viewing) /\ floor' \in Nat
    BY <1>0, <1>12, <2>1 DEF HearSave
  <2>5. /\ saves' \in [1 .. MaxSaves -> SaveRequest \union {NoSave}]
        /\ label' \in [BonusCategories -> Choices \union {NoLabel}]
        /\ saving' \in 0 .. MaxSaves /\ overtaken' \subseteq PlayerCategories
        /\ UNCHANGED <<bonusServer, sentSaves>>
    BY <1>0, <1>12, SaveAnswered DEF HearSave, PanelTypeOK
  <2> QED
    BY <1>0, <1>3, <2>3, <2>4, <2>5
<1>13. ASSUME NEW n \in 1 .. MaxSaves, HearSaveError(n) PROVE PanelSafe'
  <2>1. /\ saves' \in [1 .. MaxSaves -> SaveRequest \union {NoSave}]
        /\ label' \in [BonusCategories -> Choices \union {NoLabel}]
        /\ saving' \in 0 .. MaxSaves /\ overtaken' \subseteq PlayerCategories
        /\ UNCHANGED <<bonusServer, sentSaves>>
    BY <1>0, <1>13, SaveAnswered DEF HearSaveError, PanelTypeOK
  <2>2. UNCHANGED <<mounted, bonusQ, allQ, panelOpen, viewing, menus, floor>>
    BY <1>13 DEF HearSaveError
  <2> QED
    BY <1>0, <2>1, <2>2 DEF bonusServer, PanelTypeOK, AllLoaded, ViewedAreTheirs, AllEnabled,
                      ShowsLocked, Pickers
<1> QED
  BY <1>1, <1>2, <1>4, <1>5, <1>6, <1>7, <1>8, <1>9, <1>10, <1>11, <1>12, <1>13 DEF PanelNext

-----------------------------------------------------------------------------
(* BonusPanel: saves.  What the server stored, and every answer on its way,  *)
(* is at least as new as any save the panel must not fall behind.            *)

FloorKept ==
  /\ floor <= bonusStored
  /\ \A n \in 1 .. MaxSaves :
       saves[n] # NoSave /\ saves[n].at = "stored" =>
         floor <= saves[n].upto /\ saves[n].upto <= bonusStored
  /\ bonusQ.flight = "served" /\ bonusQ.answer # NoData => bonusQ.answer.upto >= floor

LEMMA FloorStays ==
  ASSUME PanelSafe, FloorKept, SaveSurvives, [PanelNext]_panelVars
  PROVE  (FloorKept /\ SaveSurvives)'
<1>0. /\ PanelTypeOK /\ AllLoaded /\ bonusQ \in Query(MyBonus)
      /\ allQ \in Query(SUBSET Others) /\ bonusStored \in Nat /\ floor \in Nat
      /\ floor <= bonusStored
      /\ bonusQ.flight = "served" /\ bonusQ.answer # NoData => bonusQ.answer.upto >= floor
      /\ bonusQ.data # NoData => bonusQ.data.upto >= floor
      /\ mounted \in BOOLEAN /\ panelOpen \in BOOLEAN /\ viewing \in Others \union {You}
  BY DEF PanelSafe, PanelTypeOK, FloorKept, SaveSurvives
\* Nothing but the query changes, and no answer older than the floor comes into it.
<1>1. ASSUME UNCHANGED <<saves, floor>>, bonusStored' = bonusStored \/ bonusStored' = bonusStored + 1,
             bonusQ'.flight = "served" /\ bonusQ'.answer # NoData => bonusQ'.answer.upto >= floor,
             bonusQ'.data # NoData => bonusQ'.data.upto >= floor
      PROVE  (FloorKept /\ SaveSurvives)'
  <2>1. \A n \in 1 .. MaxSaves : saves[n] # NoSave => saves[n].upto \in Nat
    BY <1>0 DEF PanelTypeOK, SaveRequest
  <2>2. bonusStored' \in Nat /\ bonusStored <= bonusStored' /\ floor <= bonusStored'
    BY <1>0, <1>1
  <2>3. \A n \in 1 .. MaxSaves : saves[n] # NoSave /\ saves[n].at = "stored" =>
          floor <= saves[n].upto /\ saves[n].upto <= bonusStored'
    BY <1>0, <2>1, <2>2 DEF FloorKept
  <2> QED
    BY <1>1, <2>2, <2>3 DEF FloorKept, SaveSurvives
<1>2. CASE UNCHANGED panelVars
  BY <1>0, <1>1, <1>2 DEF panelVars, panelState, bonusServer
<1>3. CASE \/ LockPasses \/ SaveMineElsewhere \/ \E u \in Others : OtherPicks(u)
           \/ ServeAll \/ AllComes \/ ToggleOpen
           \/ \E u \in Others \union {You} : ViewUser(u)
           \/ \E c \in BonusCategories : OpenMenu(c) \/ CloseMenu(c)
  <2>1. UNCHANGED <<saves, floor, bonusQ>>
        /\ (bonusStored' = bonusStored \/ bonusStored' = bonusStored + 1)
    BY <1>3 DEF LockPasses, SaveMineElsewhere, OtherPicks, ServeAll, AllComes, CloseMenu,
                ToggleOpen, ViewUser, OpenMenu, Settle, panelState, bonusServer
  <2> QED
    BY <1>0, <1>1, <2>1
<1>4. CASE OpenPage \/ LeavePage \/ FocusPage
  <2>1. /\ UNCHANGED <<saves, floor, bonusStored>>
        /\ bonusQ' = bonusQ \/ bonusQ' = Fetch(bonusQ)
    BY <1>4 DEF OpenPage, LeavePage, FocusPage, Settle, bonusServer
  <2>2. /\ bonusQ'.data = bonusQ.data
        /\ bonusQ'.flight = "served" => bonusQ' = bonusQ
    BY <1>0, <2>1, QueryFetched
  <2> QED
    BY <1>0, <1>1, <2>1, <2>2
<1>5. CASE BonusComes
  <2>1. /\ UNCHANGED <<saves, floor, bonusStored>>
        /\ \/ bonusQ.flight = "served" /\ bonusQ' = Arrived(bonusQ)
           \/ bonusQ' = Failed(bonusQ)
    BY <1>5 DEF BonusComes, Settle, bonusServer
  <2>2. /\ bonusQ'.flight = "idle"
        /\ \/ bonusQ'.data = bonusQ.data
           \/ bonusQ.flight = "served" /\ bonusQ'.data = bonusQ.answer
    BY <1>0, <2>1, QueryArrived, QueryFailed
  <2> QED
    BY <1>0, <1>1, <2>1, <2>2
<1>6. CASE ServeBonus
  <2> DEFINE v == [upto |-> bonusStored, locked |-> bonusLocked]
  <2>1. v \in MyBonus /\ v.upto = bonusStored
    BY <1>0 DEF PanelTypeOK, MyBonus
  <2>2. bonusQ' = Served(bonusQ, v) /\ UNCHANGED <<saves, floor, bonusStored>>
    BY <1>6 DEF ServeBonus, bonusServer
  <2> HIDE DEF v
  <2>3. bonusQ'.data = bonusQ.data /\ bonusQ'.answer = v
    BY <1>0, <2>1, <2>2, QueryServed
  <2> QED
    BY <1>0, <1>1, <2>1, <2>2, <2>3
<1>7. ASSUME NEW c \in BonusCategories, NEW r \in Choices, ChoosePick(c, r)
      PROVE  (FloorKept /\ SaveSurvives)'
  <2>1. UNCHANGED <<bonusStored, bonusQ, floor>>
    BY <1>7 DEF ChoosePick, bonusServer
  <2>2. /\ saves'[saving'] # NoSave /\ saves'[saving'].at = "sent"
        /\ \A k \in 1 .. MaxSaves : k # saving' => saves'[k] = saves[k]
    BY <1>0, <1>7, SaveSent
  <2> QED
    BY <1>0, <2>1, <2>2 DEF FloorKept, SaveSurvives
<1>8. ASSUME NEW n \in 1 .. MaxSaves, ServeSave(n) PROVE (FloorKept /\ SaveSurvives)'
  <2>1. /\ \A k \in 1 .. MaxSaves : k # n => saves'[k] = saves[k]
        /\ \/ saves'[n].at = "refused" /\ bonusStored' = bonusStored
           \/ /\ saves'[n].at = "stored" /\ saves'[n].upto = bonusStored + 1
              /\ bonusStored' = bonusStored + 1
        /\ UNCHANGED <<panelState, floor>>
    BY <1>0, <1>8, SaveServed
  <2>2. \A k \in 1 .. MaxSaves : saves[k] # NoSave => saves[k].upto \in Nat
    BY <1>0 DEF PanelTypeOK, SaveRequest
  <2>3. bonusStored' \in Nat /\ bonusStored <= bonusStored' /\ floor <= bonusStored'
    BY <1>0, <2>1
  <2>4. \A k \in 1 .. MaxSaves : saves'[k] # NoSave /\ saves'[k].at = "stored" =>
          floor <= saves'[k].upto /\ saves'[k].upto <= bonusStored'
    <3>1. ASSUME NEW k \in 1 .. MaxSaves, saves'[k] # NoSave, saves'[k].at = "stored"
          PROVE  floor <= saves'[k].upto /\ saves'[k].upto <= bonusStored'
      <4>1. CASE k = n
        BY <1>0, <2>1, <3>1, <4>1
      <4>2. CASE k # n
        BY <1>0, <2>1, <2>2, <2>3, <3>1, <4>2 DEF FloorKept
      <4> QED
        BY <4>1, <4>2
    <3> QED
      BY <3>1
  <2> QED
    BY <1>0, <2>1, <2>3, <2>4 DEF panelState, FloorKept, SaveSurvives
<1>9. ASSUME NEW n \in 1 .. MaxSaves, HearSave(n) PROVE (FloorKept /\ SaveSurvives)'
  <2> DEFINE v == [upto |-> saves[n].upto, locked |-> FALSE]
  <2>1. saves[n] \in SaveRequest /\ saves[n].upto \in Nat /\ saves[n] # NoSave
        /\ saves[n].at = "stored"
    BY <1>0, <1>9 DEF HearSave, PanelTypeOK, SaveRequest
  <2>2. v \in MyBonus /\ v.upto = saves[n].upto /\ bonusQ' = SetData(bonusQ, v)
    BY <1>9, <2>1 DEF MyBonus, HearSave, BonusAfter, Settle
  <2> HIDE DEF v
  <2>3. /\ bonusQ'.data.upto = saves[n].upto /\ bonusQ'.flight = bonusQ.flight
        /\ bonusQ'.answer = bonusQ.answer
    BY <1>0, <2>2, QuerySet
  <2>4. /\ saves'[n] = NoSave /\ \A k \in 1 .. MaxSaves : k # n => saves'[k] = saves[k]
        /\ bonusStored' = bonusStored
    BY <1>0, <1>9, <2>1, SaveAnswered DEF HearSave, bonusServer
  <2>5. floor <= saves[n].upto /\ saves[n].upto <= bonusStored
    BY <2>1 DEF FloorKept
  <2>6. CASE Alone(n)
    <3>1. \A k \in 1 .. MaxSaves : saves'[k] = NoSave
      BY <2>4, <2>6 DEF Alone
    <3>2. bonusQ'.flight # "served"
      BY <2>3, <2>6 DEF Alone
    <3>3. floor' \in Nat /\ floor' <= saves[n].upto /\ floor' <= bonusStored
      BY <1>0, <1>9, <2>1, <2>5 DEF HearSave
    <3> QED
      BY <2>1, <2>3, <2>4, <3>1, <3>2, <3>3 DEF FloorKept, SaveSurvives
  <2>7. CASE ~Alone(n)
    <3>1. floor' = floor
      BY <1>9, <2>7 DEF HearSave
    <3> QED
      BY <1>0, <2>1, <2>3, <2>4, <2>5, <3>1 DEF FloorKept, SaveSurvives
  <2> QED
    BY <2>6, <2>7
<1>10. ASSUME NEW n \in 1 .. MaxSaves, HearSaveError(n) PROVE (FloorKept /\ SaveSurvives)'
  <2>1. /\ saves'[n] = NoSave /\ \A k \in 1 .. MaxSaves : k # n => saves'[k] = saves[k]
        /\ bonusStored' = bonusStored
    BY <1>0, <1>10, SaveAnswered DEF HearSaveError, bonusServer
  <2>2. UNCHANGED <<bonusQ, floor>>
    BY <1>10 DEF HearSaveError
  <2> QED
    BY <1>0, <2>1, <2>2 DEF FloorKept, SaveSurvives
<1> QED
  BY <1>2, <1>3, <1>4, <1>5, <1>6, <1>7, <1>8, <1>9, <1>10 DEF PanelNext

-----------------------------------------------------------------------------
(* BonusPanel: labels.  Names are shown of players only, so that a choice    *)
(* which makes the panel forget a request marks the name it leaves behind.   *)

LabelsOfPlayers == \A c \in BonusCategories : label[c] # NoLabel => c \in PlayerCategories

LEMMA LabelsStay ==
  ASSUME PanelSafe, LabelsOfPlayers, LabelsSettle, [PanelNext]_panelVars
  PROVE  (LabelsOfPlayers /\ LabelsSettle)'
<1>0. /\ PanelTypeOK /\ AllLoaded /\ bonusQ \in Query(MyBonus) /\ saving \in 0 .. MaxSaves
      /\ MaxSaves \in Nat /\ label \in [BonusCategories -> Choices \union {NoLabel}]
  BY BonusPanelAssumption DEF PanelSafe, PanelTypeOK
<1>1. ASSUME UNCHANGED <<label, saving, saves, overtaken>>
      PROVE  (LabelsOfPlayers /\ LabelsSettle)'
  BY <1>1 DEF LabelsOfPlayers, LabelsSettle
<1>2. CASE UNCHANGED panelVars
  BY <1>1, <1>2 DEF panelVars, panelState
<1>3. CASE \/ LockPasses \/ SaveMineElsewhere \/ \E u \in Others : OtherPicks(u)
           \/ OpenPage \/ ToggleOpen \/ FocusPage
           \/ ServeBonus \/ BonusComes \/ ServeAll \/ AllComes
           \/ \E c \in BonusCategories : OpenMenu(c) \/ CloseMenu(c)
           \/ \E u \in Others \union {You} : ViewUser(u)
  <2>1. UNCHANGED <<label, saving, saves, overtaken>>
    BY <1>3 DEF LockPasses, SaveMineElsewhere, OtherPicks, OpenPage, ToggleOpen, FocusPage,
                ServeBonus, BonusComes, ServeAll, AllComes, OpenMenu, CloseMenu, ViewUser,
                panelState
  <2> QED
    BY <1>1, <2>1
<1>4. CASE LeavePage
  <2>1. \A c \in BonusCategories : label'[c] = NoLabel
    BY <1>4 DEF LeavePage
  <2> QED
    BY <2>1 DEF LabelsOfPlayers, LabelsSettle
<1>5. ASSUME NEW c \in BonusCategories, NEW r \in Choices, ChoosePick(c, r)
      PROVE  (LabelsOfPlayers /\ LabelsSettle)'
  <2>1. /\ saving' \in 1 .. MaxSaves /\ saves'[saving'] # NoSave
        /\ saves'[saving'].cat = c /\ saves'[saving'].ref = r
        /\ overtaken' = (overtaken \union PlayerPending) \ {c}
    BY <1>0, <1>5, SaveSent
  <2>2. /\ \A d \in BonusCategories \ {c} : label'[d] = label[d]
        /\ label'[c] = IF c \in PlayerCategories THEN r ELSE label[c]
    BY <1>0, <1>5 DEF ChoosePick
  <2>3. LabelsOfPlayers'
    BY <2>2 DEF LabelsOfPlayers
  <2>4. label'[c] # NoLabel => label'[c] = r
    BY <2>2 DEF LabelsOfPlayers
  <2>5. ASSUME NEW d \in BonusCategories, d # c, label[d] # NoLabel PROVE d \in overtaken'
    <3>1. d \in PlayerCategories
      BY <2>5 DEF LabelsOfPlayers
    <3>2. d \in overtaken \/ (saving # 0 /\ saves[saving].cat = d)
      BY <2>5 DEF LabelsSettle
    <3> QED
      BY <2>1, <2>5, <3>1, <3>2 DEF PlayerPending
  <2>6. saving' # 0
    BY <2>1
  <2> QED
    BY <2>1, <2>2, <2>3, <2>4, <2>5, <2>6 DEF LabelsSettle
<1>6. ASSUME NEW n \in 1 .. MaxSaves, ServeSave(n) PROVE (LabelsOfPlayers /\ LabelsSettle)'
  <2>1. /\ saves[n] # NoSave /\ saves'[n] # NoSave
        /\ saves'[n].cat = saves[n].cat /\ saves'[n].ref = saves[n].ref
        /\ \A k \in 1 .. MaxSaves : k # n => saves'[k] = saves[k]
        /\ UNCHANGED <<label, saving, overtaken>>
    BY <1>0, <1>6, SaveServed DEF panelState
  <2>2. saving # 0 => saving \in 1 .. MaxSaves
    BY <1>0
  <2>3. saving # 0 /\ saves[saving] # NoSave => /\ saves'[saving] # NoSave
                            /\ saves'[saving].cat = saves[saving].cat
                            /\ saves'[saving].ref = saves[saving].ref
    BY <2>1, <2>2
  <2> QED
    BY <2>1, <2>3 DEF LabelsOfPlayers, LabelsSettle
<1>7. ASSUME NEW n \in 1 .. MaxSaves, HearSave(n) \/ HearSaveError(n)
      PROVE  (LabelsOfPlayers /\ LabelsSettle)'
  <2>1. /\ saves[n] # NoSave /\ saves'[n] = NoSave
        /\ \A k \in 1 .. MaxSaves : k # n => saves'[k] = saves[k]
        /\ \A c \in BonusCategories :
             label'[c] = IF n = saving /\ c = saves[n].cat THEN NoLabel ELSE label[c]
        /\ saving' = IF n = saving THEN 0 ELSE saving
        /\ UNCHANGED overtaken
    BY <1>0, <1>7, SaveAnswered DEF HearSave, HearSaveError
  <2>2. LabelsOfPlayers'
    BY <2>1 DEF LabelsOfPlayers
  <2>3. CASE n = saving
    <3>1. \A c \in BonusCategories : label'[c] # NoLabel => c \in overtaken
      BY <2>1, <2>3 DEF LabelsSettle
    <3> QED
      BY <2>1, <2>2, <3>1 DEF LabelsSettle
  <2>4. CASE n # saving
    <3>1. saving # 0 => saves'[saving] = saves[saving]
      BY <1>0, <2>1, <2>4
    <3>2. UNCHANGED saving /\ \A c \in BonusCategories : label'[c] = label[c]
      BY <2>1, <2>4
    <3> QED
      BY <2>1, <2>2, <3>1, <3>2 DEF LabelsSettle
  <2> QED
    BY <2>3, <2>4
<1> QED
  BY <1>2, <1>3, <1>4, <1>5, <1>6, <1>7 DEF PanelNext

-----------------------------------------------------------------------------
(* BonusPanel: the theorems.                                                 *)

PanelInv == PanelSafe /\ FloorKept /\ SaveSurvives /\ LabelsOfPlayers /\ LabelsSettle

LEMMA PanelHolds == PanelSpec => []PanelInv
<1>1. PanelInit => PanelInv
  <2> SUFFICES ASSUME PanelInit PROVE PanelInv
    OBVIOUS
  <2>1. PanelSafe
    BY PanelStartsSafe
  <2>2. FloorKept /\ SaveSurvives
    BY DEF PanelInit, FloorKept, SaveSurvives, Unasked
  <2>3. LabelsOfPlayers /\ LabelsSettle
    BY DEF PanelInit, LabelsOfPlayers, LabelsSettle
  <2> QED
    BY <2>1, <2>2, <2>3 DEF PanelInv
<1>2. PanelInv /\ [PanelNext]_panelVars => PanelInv'
  BY PanelStaysSafe, FloorStays, LabelsStay DEF PanelInv
<1> QED
  BY <1>1, <1>2, PTL DEF PanelSpec

\* Every variable of the bonus panel has its type.
THEOREM PanelTypeCorrect == PanelSpec => []PanelTypeOK
<1>1. PanelInv => PanelTypeOK
  BY DEF PanelInv, PanelSafe
<1> QED
  BY <1>1, PanelHolds, PTL

\* Whoever is viewed once picks are locked, the panel has that user's rows: a
\* refetch that loses them, or fails, falls back to one's own in the same render.
THEOREM PanelShowsWhatItHas == PanelSpec => []ViewedAreTheirs
<1>1. PanelInv => ViewedAreTheirs
  BY DEF PanelInv, PanelSafe
<1> QED
  BY <1>1, PanelHolds, PTL

\* Whatever is refetched, saved elsewhere or answered late, the panel does not
\* fall behind a save confirmed while nothing else was in flight.
THEOREM PanelKeepsSaves == PanelSpec => []SaveSurvives
<1>1. PanelInv => SaveSurvives
  BY DEF PanelInv
<1> QED
  BY <1>1, PanelHolds, PTL

\* A name shown before the server confirmed it is that of the request the panel waits
\* for, and goes with it, unless a choice made while it was pending overtook it.
THEOREM PanelLabelsSettle == PanelSpec => []LabelsSettle
<1>1. PanelInv => LabelsSettle
  BY DEF PanelInv
<1> QED
  BY <1>1, PanelHolds, PTL

-----------------------------------------------------------------------------
(* SettingsForm.  Whatever the server holds or answers is valid, so a seeded *)
(* form holds what may be typed; and it is seeded whenever settings are at   *)
(* hand, hence before anything is saved.                                     *)

LegalTable == {s \in [SettingKeys -> Crons \union Instants] :
                 \A k \in SettingKeys : s[k] \in ValidFor(k)}
LegalSnapshot == [val : LegalTable, asOf : Nat]
BatchRequest == [val : Batch, left : SUBSET SettingKeys, answer : LegalSnapshot \union {NoData},
                 at : {"sent", "writing", "stored", "refused"}, deaf : BOOLEAN]

SettingsTyped ==
  /\ stored \in LegalTable /\ settingWrites \in Nat
  /\ settingsQ \in Query(LegalSnapshot)
  /\ formUp \in BOOLEAN /\ seeded \in BOOLEAN
  /\ DOMAIN form = SettingKeys /\ form = [k \in SettingKeys |-> form[k]]
  /\ \A k \in SettingKeys : form[k] \in Typed(k) \union {Empty}
  /\ formAsOf \in Nat /\ savedAsOf \in Nat
  /\ batchJob \in 0 .. MaxSettingPuts /\ sentBatches \in 0 .. MaxSettingPuts
  /\ batches \in [1 .. MaxSettingPuts -> BatchRequest \union {NoRequest}]

BatchChecked ==
  \A n \in 1 .. MaxSettingPuts : batches[n] # NoRequest =>
    /\ batches[n].at = "stored" => batches[n].answer \in LegalSnapshot
    /\ batches[n].at \in {"writing", "stored"} => batches[n].val \in LegalTable

Seeded ==
  /\ formUp /\ settingsQ.data # NoData => seeded
  /\ seeded => \A k \in SettingKeys : form[k] \in Typed(k)
  /\ batchJob # 0 \/ savedAsOf # 0 => formUp /\ seeded

SettingsInv == SettingsTyped /\ BatchChecked /\ Seeded /\ BadBatchWritesNothing /\ SavedFormStays

\* What the form shows of settings may be saved as it is.
LEMMA FormOfLegal ==
  ASSUME NEW s \in LegalSnapshot
  PROVE  /\ FormOf(s) = [k \in SettingKeys |-> FormOf(s)[k]] /\ DOMAIN FormOf(s) = SettingKeys
         /\ \A k \in SettingKeys : FormOf(s)[k] \in Typed(k)
<1>1. s.val \in LegalTable /\ \A k \in SettingKeys : s.val[k] \in ValidFor(k)
  BY DEF LegalSnapshot, LegalTable
<1>2. ASSUME NEW k \in SettingKeys PROVE FormValue(k, s.val[k]) \in Typed(k)
  <2>1. CASE k = LockKey
    <3>1. s.val[k] \in Instants
      BY <1>1, <2>1 DEF ValidFor
    <3>2. s.val[k] - (s.val[k] % 2) \in Instants
      BY <3>1, SettingsFormAssumption
    <3> QED
      BY <2>1, <3>2 DEF FormValue, Typed, ValidFor
  <2>2. CASE k # LockKey
    BY <1>1, <2>2 DEF FormValue, Typed, ValidFor
  <2> QED
    BY <2>1, <2>2
<1> QED
  BY <1>2 DEF FormOf

\* Legal settings have the types the runs check.
LEMMA LegalIsTyped ==
  /\ LegalSnapshot \subseteq Snapshot
  /\ \A q \in Query(LegalSnapshot) : q \in Query(Snapshot)
<1>1. LegalSnapshot \subseteq Snapshot
  BY DEF LegalSnapshot, Snapshot, LegalTable
<1> QED
  BY <1>1 DEF Query

\* The fields of a request that an action sets.
LEMMA BatchSet ==
  ASSUME NEW b \in BatchRequest
  PROVE  /\ \A l \in SUBSET SettingKeys :
              /\ [b EXCEPT !.left = l] \in BatchRequest /\ [b EXCEPT !.left = l].at = b.at
              /\ [b EXCEPT !.left = l].val = b.val /\ [b EXCEPT !.left = l].left = l
         /\ /\ [b EXCEPT !.deaf = TRUE] \in BatchRequest /\ [b EXCEPT !.deaf = TRUE].at = b.at
            /\ [b EXCEPT !.deaf = TRUE].val = b.val /\ [b EXCEPT !.deaf = TRUE].left = b.left
            /\ [b EXCEPT !.deaf = TRUE].answer = b.answer
BY DEF BatchRequest

\* A request changes that was checked, if it is being written, and a bad one has
\* written nothing.
LEMMA BatchMoves ==
  ASSUME SettingsInv, NEW n \in 1 .. MaxSettingPuts, NEW b \in BatchRequest,
         batches' = [batches EXCEPT ![n] = b],
         b.at = "stored" => b.answer \in LegalSnapshot,
         b.at \in {"writing", "stored"} => b.val \in LegalTable,
         b.val \in LegalTable \/ b.left = SettingKeys
  PROVE  /\ batches' \in [1 .. MaxSettingPuts -> BatchRequest \union {NoRequest}]
         /\ BatchChecked' /\ BadBatchWritesNothing'
<1>1. /\ batches \in [1 .. MaxSettingPuts -> BatchRequest \union {NoRequest}]
      /\ BatchChecked /\ BadBatchWritesNothing
  BY DEF SettingsInv, SettingsTyped
<1>2. /\ batches'[n] = b /\ \A k \in 1 .. MaxSettingPuts : k # n => batches'[k] = batches[k]
      /\ batches' \in [1 .. MaxSettingPuts -> BatchRequest \union {NoRequest}]
  BY <1>1
<1>3. BatchChecked'
  BY <1>1, <1>2 DEF BatchChecked
<1>4. b.val \in LegalTable => \A k \in SettingKeys : b.val[k] \in ValidFor(k)
  BY DEF LegalTable
<1>5. BadBatchWritesNothing'
  BY <1>1, <1>2, <1>4 DEF BadBatchWritesNothing
<1> QED
  BY <1>2, <1>3, <1>5

\* A request is forgotten.
LEMMA BatchGone ==
  ASSUME SettingsInv, NEW n \in 1 .. MaxSettingPuts,
         batches' = [batches EXCEPT ![n] = NoRequest]
  PROVE  /\ batches' \in [1 .. MaxSettingPuts -> BatchRequest \union {NoRequest}]
         /\ BatchChecked' /\ BadBatchWritesNothing'
<1>1. /\ batches \in [1 .. MaxSettingPuts -> BatchRequest \union {NoRequest}]
      /\ BatchChecked /\ BadBatchWritesNothing
  BY DEF SettingsInv, SettingsTyped
<1>2. /\ batches'[n] = NoRequest
      /\ \A k \in 1 .. MaxSettingPuts : k # n => batches'[k] = batches[k]
      /\ batches' \in [1 .. MaxSettingPuts -> BatchRequest \union {NoRequest}]
  BY <1>1
<1> QED
  BY <1>1, <1>2 DEF BatchChecked, BadBatchWritesNothing

\* A render with q: a form filled before stays, one that was not is filled.
LEMMA FillSeeds ==
  ASSUME SettingsInv, NEW q \in Query(LegalSnapshot), Fill(q), formUp' \in BOOLEAN, formUp',
         UNCHANGED <<batchJob, savedAsOf>>
  PROVE  /\ settingsQ' \in Query(LegalSnapshot) /\ seeded' \in BOOLEAN /\ formAsOf' \in Nat
         /\ DOMAIN form' = SettingKeys /\ form' = [k \in SettingKeys |-> form'[k]]
         /\ \A k \in SettingKeys : form'[k] \in Typed(k) \union {Empty}
         /\ Seeded' /\ SavedFormStays'
<1>0. /\ SettingsTyped /\ Seeded /\ SavedFormStays /\ settingsQ' = q
      /\ formAsOf \in Nat /\ savedAsOf \in Nat
  BY DEF SettingsInv, SettingsTyped, Fill
<1>1. CASE q.data # NoData /\ ~(seeded /\ formUp)
  <2>1. q.data \in LegalSnapshot /\ q.data.asOf \in Nat
    BY <1>1 DEF Query, LegalSnapshot
  <2>2. seeded' = TRUE /\ form' = FormOf(q.data) /\ formAsOf' = q.data.asOf
    BY <1>1 DEF Fill
  <2>3. batchJob = 0 /\ savedAsOf = 0
    BY <1>0, <1>1 DEF Seeded
  <2>4. /\ form' = [k \in SettingKeys |-> form'[k]] /\ DOMAIN form' = SettingKeys
        /\ \A k \in SettingKeys : form'[k] \in Typed(k)
    BY <2>1, <2>2, FormOfLegal
  <2>5. Seeded'
    BY <2>2, <2>3, <2>4 DEF Seeded
  <2>6. SavedFormStays'
    BY <2>1, <2>2, <2>3 DEF SavedFormStays
  <2> QED
    BY <1>0, <2>1, <2>2, <2>4, <2>5, <2>6
<1>2. CASE ~(q.data # NoData /\ ~(seeded /\ formUp))
  <2>1. UNCHANGED <<seeded, form, formAsOf>>
    BY <1>2 DEF Fill
  <2>2. Seeded'
    BY <1>0, <1>2, <2>1 DEF Seeded
  <2> QED
    BY <1>0, <2>1, <2>2 DEF SettingsTyped, SavedFormStays
<1> QED
  BY <1>1, <1>2

LEMMA SettingsStart == SettingsInit => SettingsInv
<1> SUFFICES ASSUME SettingsInit PROVE SettingsInv
  OBVIOUS
<1>1. stored \in LegalTable
  BY DEF SettingsInit, LegalTable
<1>2. settingsQ \in Query(LegalSnapshot) /\ settingsQ.data = NoData
  BY QueryStarts DEF SettingsInit
<1>3. /\ DOMAIN form = SettingKeys /\ form = [k \in SettingKeys |-> form[k]]
      /\ \A k \in SettingKeys : form[k] \in Typed(k) \union {Empty}
  BY DEF SettingsInit, BlankForm
<1>4. /\ batches \in [1 .. MaxSettingPuts -> BatchRequest \union {NoRequest}]
      /\ \A n \in 1 .. MaxSettingPuts : batches[n] = NoRequest
  BY DEF SettingsInit
<1>5. /\ batchJob \in 0 .. MaxSettingPuts /\ sentBatches \in 0 .. MaxSettingPuts
      /\ formAsOf \in Nat /\ savedAsOf \in Nat /\ settingWrites \in Nat
      /\ formAsOf >= savedAsOf
      /\ formUp = FALSE /\ seeded = FALSE /\ batchJob = 0 /\ savedAsOf = 0
  BY SettingsFormAssumption DEF SettingsInit
<1>6. SettingsTyped
  BY <1>1, <1>2, <1>3, <1>4, <1>5 DEF SettingsTyped
<1>7. BatchChecked /\ BadBatchWritesNothing
  BY <1>4 DEF BatchChecked, BadBatchWritesNothing
<1>8. Seeded /\ SavedFormStays
  BY <1>5 DEF Seeded, SavedFormStays
<1> QED
  BY <1>6, <1>7, <1>8 DEF SettingsInv

\* A setting is written.
LEMMA SettingWritten ==
  ASSUME SettingsInv, NEW k \in SettingKeys, NEW v \in ValidFor(k), WriteSetting(k, v)
  PROVE  stored' \in LegalTable /\ settingWrites' \in Nat
<1>1. stored \in [SettingKeys -> Crons \union Instants] /\ settingWrites \in Nat
      /\ \A j \in SettingKeys : stored[j] \in ValidFor(j)
  BY DEF SettingsInv, SettingsTyped, LegalTable
<1>2. v \in Crons \union Instants
  BY DEF ValidFor
<1>3. stored' \in [SettingKeys -> Crons \union Instants] /\ settingWrites' \in Nat
      /\ \A j \in SettingKeys : stored'[j] \in ValidFor(j)
  BY <1>1, <1>2 DEF WriteSetting
<1> QED
  BY <1>3 DEF LegalTable

LEMMA SettingsStep == SettingsInv /\ [SettingsNext]_settingsVars => SettingsInv'
<1> SUFFICES ASSUME SettingsInv, [SettingsNext]_settingsVars PROVE SettingsInv'
  OBVIOUS
<1>0. /\ SettingsTyped /\ BatchChecked /\ Seeded /\ BadBatchWritesNothing /\ SavedFormStays
      /\ stored \in LegalTable /\ settingWrites \in Nat
      /\ settingsQ \in Query(LegalSnapshot) /\ formUp \in BOOLEAN /\ seeded \in BOOLEAN
      /\ DOMAIN form = SettingKeys /\ form = [k \in SettingKeys |-> form[k]]
      /\ \A k \in SettingKeys : form[k] \in Typed(k) \union {Empty}
      /\ formAsOf \in Nat /\ savedAsOf \in Nat
      /\ batchJob \in 0 .. MaxSettingPuts /\ sentBatches \in 0 .. MaxSettingPuts
      /\ batches \in [1 .. MaxSettingPuts -> BatchRequest \union {NoRequest}]
      /\ MaxSettingPuts \in Nat
  BY SettingsFormAssumption DEF SettingsInv, SettingsTyped
<1>T. Table \in LegalSnapshot
  BY <1>0 DEF Table, LegalSnapshot
<1>1. CASE UNCHANGED settingsVars
  BY <1>0, <1>1 DEF settingsVars, settingsTable, settingsTab, SettingsInv, SettingsTyped,
                    BatchChecked, Seeded, BadBatchWritesNothing, SavedFormStays
\* The form's side stays, the query keeps its data, the server's side keeps its types.
<1>2. ASSUME stored' \in LegalTable, settingWrites' \in Nat,
             settingsQ' \in Query(LegalSnapshot), settingsQ'.data = settingsQ.data,
             batches' \in [1 .. MaxSettingPuts -> BatchRequest \union {NoRequest}],
             BatchChecked', BadBatchWritesNothing',
             UNCHANGED <<formUp, seeded, form, formAsOf, sentBatches, savedAsOf>>,
             batchJob' = batchJob \/ batchJob' = 0
      PROVE  SettingsInv'
  <2>1. batchJob' \in 0 .. MaxSettingPuts
    BY <1>0, <1>2
  <2>2. Seeded' /\ SavedFormStays'
    BY <1>0, <1>2 DEF Seeded, SavedFormStays
  <2> QED
    BY <1>0, <1>2, <2>1, <2>2 DEF SettingsInv, SettingsTyped
<1>3. ASSUME UNCHANGED batches PROVE /\ BatchChecked' /\ BadBatchWritesNothing'
  BY <1>0, <1>3 DEF BatchChecked, BadBatchWritesNothing
<1>4. ASSUME NEW k \in SettingKeys, NEW v \in ValidFor(k), SetElsewhere(k, v)
      PROVE  SettingsInv'
  <2>1. stored' \in LegalTable /\ settingWrites' \in Nat
    BY <1>0, <1>4, SettingWritten DEF SetElsewhere
  <2>2. UNCHANGED <<settingsTab, batchJob, batches, sentBatches, savedAsOf>>
    BY <1>4 DEF SetElsewhere
  <2> QED
    BY <1>0, <1>2, <1>3, <2>1, <2>2 DEF settingsTab
<1>5. CASE OpenSettings \/ (SettingsCome /\ formUp)
  <2>1. /\ Fetch(settingsQ) \in Query(LegalSnapshot) /\ Arrived(settingsQ) \in Query(LegalSnapshot)
        /\ Failed(settingsQ) \in Query(LegalSnapshot)
    BY <1>0, QueryFetched, QueryArrived, QueryFailed
  <2>2. /\ Fill(Fetch(settingsQ)) \/ Fill(Arrived(settingsQ)) \/ Fill(Failed(settingsQ))
        /\ formUp' \in BOOLEAN /\ formUp'
        /\ UNCHANGED <<settingsTable, batchJob, batches, sentBatches, savedAsOf>>
    BY <1>0, <1>5 DEF OpenSettings, SettingsCome
  <2>3. /\ settingsQ' \in Query(LegalSnapshot) /\ seeded' \in BOOLEAN /\ formAsOf' \in Nat
        /\ DOMAIN form' = SettingKeys /\ form' = [k \in SettingKeys |-> form'[k]]
        /\ \A k \in SettingKeys : form'[k] \in Typed(k) \union {Empty}
        /\ Seeded' /\ SavedFormStays'
    BY <2>1, <2>2, FillSeeds
  <2> QED
    BY <1>0, <1>3, <2>2, <2>3 DEF settingsTable, SettingsInv, SettingsTyped
<1>6. CASE SettingsCome /\ ~formUp
  <2>1. /\ Arrived(settingsQ) \in Query(LegalSnapshot) /\ Failed(settingsQ) \in Query(LegalSnapshot)
    BY <1>0, QueryArrived, QueryFailed
  <2>2. /\ settingsQ' \in Query(LegalSnapshot)
        /\ UNCHANGED <<formUp, seeded, form, formAsOf, settingsTable, batchJob, batches,
                       sentBatches, savedAsOf>>
    BY <1>6, <2>1 DEF SettingsCome, Fill
  <2>3. Seeded' /\ SavedFormStays'
    BY <1>0, <1>6, <2>2 DEF Seeded, SavedFormStays
  <2> QED
    BY <1>0, <1>3, <2>2, <2>3 DEF settingsTable, SettingsInv, SettingsTyped
<1>7. CASE CloseSettings
  <2>1. DOMAIN form' = SettingKeys /\ form' = [k \in SettingKeys |-> form'[k]]
        /\ \A k \in SettingKeys : form'[k] \in Typed(k) \union {Empty}
    BY <1>7 DEF CloseSettings, BlankForm
  <2>2. /\ formUp' = FALSE /\ seeded' = FALSE /\ formAsOf' = 0 /\ batchJob' = 0
        /\ savedAsOf' = 0 /\ UNCHANGED <<settingsTable, settingsQ, batches, sentBatches>>
    BY <1>7 DEF CloseSettings
  <2>3. Seeded' /\ SavedFormStays' /\ batchJob' \in 0 .. MaxSettingPuts
    BY <1>0, <2>2 DEF Seeded, SavedFormStays
  <2> QED
    BY <1>0, <1>3, <2>1, <2>2, <2>3 DEF settingsTable, SettingsInv, SettingsTyped
<1>8. CASE FocusSettings \/ ServeSettings
  <2>1. /\ settingsQ' \in Query(LegalSnapshot) /\ settingsQ'.data = settingsQ.data
    BY <1>0, <1>8, <1>T, QueryFetched, QueryServed DEF FocusSettings, ServeSettings
  <2>2. UNCHANGED <<settingsTable, formUp, seeded, form, formAsOf, batchJob, batches,
                    sentBatches, savedAsOf>>
    BY <1>8 DEF FocusSettings, ServeSettings
  <2> QED
    BY <1>0, <1>2, <1>3, <2>1, <2>2 DEF settingsTable
<1>9. ASSUME NEW k \in SettingKeys, NEW v \in Typed(k), TypeSetting(k, v) PROVE SettingsInv'
  <2>1. form' = [form EXCEPT ![k] = v] /\ formUp /\ settingsQ.data # NoData
        /\ UNCHANGED <<settingsTable, settingsQ, formUp, seeded, formAsOf, batchJob, batches,
                       sentBatches, savedAsOf>>
    BY <1>9 DEF TypeSetting, FormReady
  <2>2. seeded /\ \A j \in SettingKeys : form[j] \in Typed(j)
    BY <1>0, <2>1 DEF Seeded
  <2>3. /\ DOMAIN form' = SettingKeys /\ form' = [j \in SettingKeys |-> form'[j]]
        /\ \A j \in SettingKeys : form'[j] \in Typed(j)
    BY <1>0, <2>1, <2>2
  <2>4. Seeded' /\ SavedFormStays'
    BY <1>0, <2>1, <2>2, <2>3 DEF Seeded, SavedFormStays
  <2> QED
    BY <1>0, <1>3, <2>1, <2>3, <2>4 DEF settingsTable, SettingsInv, SettingsTyped
<1>10. CASE SaveSettings
  <2> DEFINE b == [val |-> form, left |-> SettingKeys, answer |-> NoData, at |-> "sent",
                   deaf |-> FALSE]
  <2>1. /\ batches' = [batches EXCEPT ![sentBatches + 1] = b] /\ sentBatches < MaxSettingPuts
        /\ sentBatches' = sentBatches + 1 /\ batchJob' = sentBatches + 1
        /\ formUp /\ settingsQ.data # NoData /\ form[LockKey] # Empty
        /\ UNCHANGED <<settingsTable, settingsTab, savedAsOf>>
    BY <1>10 DEF SaveSettings, FormReady
  <2>2. /\ sentBatches + 1 \in 1 .. MaxSettingPuts /\ batchJob' \in 0 .. MaxSettingPuts
        /\ sentBatches' \in 0 .. MaxSettingPuts
    BY <1>0, <2>1
  <2>3. seeded /\ \A k \in SettingKeys : form[k] \in Typed(k)
    BY <1>0, <2>1 DEF Seeded
  <2>4. form \in Batch
    <3>1. ASSUME NEW k \in SettingKeys PROVE form[k] \in Crons \union Instants \union {BadCron}
      BY <2>1, <2>3 DEF Typed, ValidFor
    <3> QED
      BY <1>0, <2>3, <3>1 DEF Batch
  <2>5. b \in BatchRequest /\ b.at = "sent" /\ b.left = SettingKeys
    BY <2>4 DEF BatchRequest
  <2> HIDE DEF b
  <2>6. /\ batches' \in [1 .. MaxSettingPuts -> BatchRequest \union {NoRequest}]
        /\ BatchChecked' /\ BadBatchWritesNothing'
    BY <2>1, <2>2, <2>5, BatchMoves
  <2>7. Seeded' /\ SavedFormStays'
    BY <1>0, <2>1, <2>3 DEF settingsTab, Seeded, SavedFormStays
  <2> QED
    BY <1>0, <2>1, <2>2, <2>6, <2>7 DEF settingsTable, settingsTab, SettingsInv, SettingsTyped
<1>11. ASSUME NEW n \in 1 .. MaxSettingPuts, ServeBatch(n) \/ BatchFails(n) PROVE SettingsInv'
  <2> DEFINE x == IF ServeBatch(n) THEN Checked(batches[n].val) ELSE "refused"
             b == [batches[n] EXCEPT !.at = x]
  <2>1. /\ batches[n] # NoRequest /\ batches[n].at \in {"sent", "writing"}
        /\ UNCHANGED <<settingsTable, settingsTab, batchJob, sentBatches, savedAsOf>>
    BY <1>11 DEF ServeBatch, BatchFails
  <2>2. batches[n] \in BatchRequest /\ batches[n].val \in Batch
    BY <1>0, <2>1 DEF BatchRequest
  <2>3. batches' = [batches EXCEPT ![n].at = x]
    BY <1>11 DEF ServeBatch, BatchFails
  <2>4. batches' = [batches EXCEPT ![n] = b]
    BY <1>0, <2>3
  <2>5. /\ x \in {"writing", "refused"}
        /\ x = "writing" => \A k \in SettingKeys : batches[n].val[k] \in ValidFor(k)
    BY DEF Checked
  <2> HIDE DEF x
  <2>6. /\ b \in BatchRequest /\ b.at = x /\ b.val = batches[n].val
        /\ b.left = batches[n].left /\ b.answer = batches[n].answer
    BY <2>2, <2>5 DEF BatchRequest
  <2> HIDE DEF b
  <2>7. x = "writing" => b.val \in LegalTable
    <3>1. ASSUME x = "writing" PROVE b.val \in LegalTable
      <4>1. \A k \in SettingKeys : b.val[k] \in ValidFor(k)
        BY <2>5, <2>6, <3>1
      <4>2. b.val \in [SettingKeys -> Crons \union Instants]
        BY <2>2, <2>6, <4>1 DEF Batch, ValidFor
      <4> QED
        BY <4>1, <4>2 DEF LegalTable
    <3> QED
      BY <3>1
  <2>8. b.val \in LegalTable \/ b.left = SettingKeys
    <3>1. CASE \A k \in SettingKeys : b.val[k] \in ValidFor(k)
      BY <2>2, <2>6, <3>1 DEF Batch, ValidFor, LegalTable
    <3>2. CASE ~\A k \in SettingKeys : b.val[k] \in ValidFor(k)
      BY <1>0, <2>1, <2>6, <3>2 DEF BadBatchWritesNothing
    <3> QED
      BY <3>1, <3>2
  <2>9. b.at \notin {"stored"}
    BY <2>5, <2>6
  <2>10. b.at \in {"writing", "stored"} => b.val \in LegalTable
    BY <2>6, <2>7, <2>9
  <2>11. /\ batches' \in [1 .. MaxSettingPuts -> BatchRequest \union {NoRequest}]
         /\ BatchChecked' /\ BadBatchWritesNothing'
    BY <2>4, <2>6, <2>8, <2>9, <2>10, BatchMoves
  <2> QED
    BY <1>0, <1>2, <2>1, <2>11 DEF settingsTable, settingsTab
<1>12. ASSUME NEW n \in 1 .. MaxSettingPuts, NEW k \in SettingKeys, WriteKey(n, k)
       PROVE  SettingsInv'
  <2> DEFINE l == batches[n].left \ {k}
             b == [batches[n] EXCEPT !.left = l]
  <2>1. /\ batches[n] # NoRequest /\ batches[n].at = "writing"
        /\ batches[n].val[k] \in ValidFor(k) /\ WriteSetting(k, batches[n].val[k])
        /\ batches' = [batches EXCEPT ![n].left = l]
        /\ UNCHANGED <<settingsTab, batchJob, sentBatches, savedAsOf>>
    BY <1>12 DEF WriteKey
  <2>2. batches[n] \in BatchRequest /\ l \in SUBSET SettingKeys
        /\ batches[n].val \in LegalTable
    BY <1>0, <2>1 DEF BatchRequest, BatchChecked
  <2>3. batches' = [batches EXCEPT ![n] = b]
    BY <1>0, <2>1
  <2> HIDE DEF l
  <2>4. /\ b \in BatchRequest /\ b.at = "writing" /\ b.val = batches[n].val
    BY <2>1, <2>2, BatchSet
  <2> HIDE DEF b
  <2>5. /\ batches' \in [1 .. MaxSettingPuts -> BatchRequest \union {NoRequest}]
        /\ BatchChecked' /\ BadBatchWritesNothing'
    BY <2>2, <2>3, <2>4, BatchMoves
  <2>6. stored' \in LegalTable /\ settingWrites' \in Nat
    BY <2>1, SettingWritten
  <2> QED
    BY <1>0, <1>2, <2>1, <2>5, <2>6 DEF settingsTab
<1>13. ASSUME NEW n \in 1 .. MaxSettingPuts, AnswerBatch(n) PROVE SettingsInv'
  <2> DEFINE b == [batches[n] EXCEPT !.at = "stored", !.answer = Table]
  <2>1. /\ batches[n] # NoRequest /\ batches[n].at = "writing"
        /\ batches' = [batches EXCEPT ![n].at = "stored", ![n].answer = Table]
        /\ UNCHANGED <<settingsTable, settingsTab, batchJob, sentBatches, savedAsOf>>
    BY <1>13 DEF AnswerBatch
  <2>2. batches[n] \in BatchRequest /\ batches[n].val \in LegalTable
    BY <1>0, <2>1 DEF BatchChecked
  <2>3. batches' = [batches EXCEPT ![n] = b]
    BY <1>0, <2>1
  <2>4. /\ b \in BatchRequest /\ b.val = batches[n].val /\ b.answer \in LegalSnapshot
    BY <1>T, <2>2 DEF BatchRequest
  <2> HIDE DEF b
  <2>5. /\ batches' \in [1 .. MaxSettingPuts -> BatchRequest \union {NoRequest}]
        /\ BatchChecked' /\ BadBatchWritesNothing'
    BY <2>2, <2>3, <2>4, BatchMoves
  <2> QED
    BY <1>0, <1>2, <2>1, <2>5 DEF settingsTable, settingsTab
<1>14. ASSUME NEW n \in 1 .. MaxSettingPuts, HearStoredBatch(n) PROVE SettingsInv'
  <2>1. /\ batches[n] # NoRequest /\ batches[n].at = "stored"
        /\ settingsQ' = (IF formUp THEN Refetch(settingsQ) ELSE settingsQ)
        /\ batches' = [batches EXCEPT ![n] = NoRequest]
        /\ UNCHANGED <<settingsTable, formUp, sentBatches>>
    BY <1>14 DEF HearStoredBatch
  <2>2. settingsQ' \in Query(LegalSnapshot) /\ settingsQ'.data = settingsQ.data
    BY <1>0, <2>1, QueryRefetched
  <2>3. /\ batches' \in [1 .. MaxSettingPuts -> BatchRequest \union {NoRequest}]
        /\ BatchChecked' /\ BadBatchWritesNothing'
    BY <2>1, BatchGone
  <2>4. CASE ~Waits(n)
    <3>1. UNCHANGED <<form, formAsOf, savedAsOf, seeded, batchJob>>
      BY <1>14, <2>4 DEF HearStoredBatch
    <3> QED
      BY <1>0, <1>2, <2>1, <2>2, <2>3, <3>1 DEF settingsTable
  <2>5. CASE Waits(n)
    <3>1. /\ form' = FormOf(batches[n].answer) /\ formAsOf' = batches[n].answer.asOf
          /\ savedAsOf' = formAsOf' /\ seeded' = seeded /\ batchJob' = 0
          /\ formUp /\ batchJob # 0
      BY <1>0, <1>14, <2>5 DEF HearStoredBatch, SeededAfter, Waits
    <3>2. batches[n].answer \in LegalSnapshot /\ batches[n].answer.asOf \in Nat
      BY <1>0, <2>1 DEF BatchChecked, LegalSnapshot
    <3>3. /\ form' = [k \in SettingKeys |-> form'[k]] /\ DOMAIN form' = SettingKeys
          /\ \A k \in SettingKeys : form'[k] \in Typed(k)
      BY <3>1, <3>2, FormOfLegal
    <3>4. seeded
      BY <1>0, <3>1 DEF Seeded
    <3>5. Seeded' /\ SavedFormStays' /\ batchJob' \in 0 .. MaxSettingPuts
      BY <1>0, <2>1, <3>1, <3>2, <3>3, <3>4 DEF Seeded, SavedFormStays
    <3> QED
      BY <1>0, <2>1, <2>2, <2>3, <3>1, <3>2, <3>3, <3>5
         DEF settingsTable, SettingsInv, SettingsTyped
  <2> QED
    BY <2>4, <2>5
<1>15. ASSUME NEW n \in 1 .. MaxSettingPuts, HearBatchError(n) PROVE SettingsInv'
  <2> DEFINE b == [batches[n] EXCEPT !.deaf = TRUE]
  <2>1. /\ batches[n] # NoRequest /\ (batchJob' = batchJob \/ batchJob' = 0)
        /\ batches' = [batches EXCEPT ![n].deaf = TRUE]
        /\ UNCHANGED <<settingsTable, settingsTab, sentBatches, savedAsOf>>
    BY <1>15 DEF HearBatchError
  <2>2. batches[n] \in BatchRequest /\ batches[n].val \in Batch
    BY <1>0, <2>1 DEF BatchRequest
  <2>3. batches' = [batches EXCEPT ![n] = b]
    BY <1>0, <2>1
  <2>4. /\ b \in BatchRequest /\ b.at = batches[n].at /\ b.val = batches[n].val
        /\ b.left = batches[n].left /\ b.answer = batches[n].answer
    BY <2>2, BatchSet
  <2> HIDE DEF b
  <2>5. b.val \in LegalTable \/ b.left = SettingKeys
    <3>1. CASE \A k \in SettingKeys : b.val[k] \in ValidFor(k)
      BY <2>2, <2>4, <3>1 DEF Batch, ValidFor, LegalTable
    <3>2. CASE ~\A k \in SettingKeys : b.val[k] \in ValidFor(k)
      BY <1>0, <2>1, <2>4, <3>2 DEF BadBatchWritesNothing
    <3> QED
      BY <3>1, <3>2
  <2>6. /\ b.at = "stored" => b.answer \in LegalSnapshot
        /\ b.at \in {"writing", "stored"} => b.val \in LegalTable
    BY <1>0, <2>1, <2>4 DEF BatchChecked
  <2>7. /\ batches' \in [1 .. MaxSettingPuts -> BatchRequest \union {NoRequest}]
        /\ BatchChecked' /\ BadBatchWritesNothing'
    BY <2>3, <2>4, <2>5, <2>6, BatchMoves
  <2> QED
    BY <1>0, <1>2, <2>1, <2>7 DEF settingsTable, settingsTab
<1> QED
  BY <1>0, <1>1, <1>4, <1>5, <1>6, <1>7, <1>8, <1>9, <1>10, <1>11, <1>12, <1>13, <1>14, <1>15
     DEF SettingsNext

LEMMA SettingsHold == SettingsSpec => []SettingsInv
BY SettingsStart, SettingsStep, PTL DEF SettingsSpec

\* Every variable of the settings' form and table has its type.
THEOREM SettingsTypeCorrect == SettingsSpec => []SettingsTypeOK
<1>1. SettingsInv => SettingsTypeOK
  <2> SUFFICES ASSUME SettingsInv PROVE SettingsTypeOK
    OBVIOUS
  <2>1. SettingsTyped /\ Table \in LegalSnapshot /\ Table \in Snapshot
        /\ settingsQ \in Query(Snapshot)
    BY LegalIsTyped DEF SettingsInv, SettingsTyped, Table, LegalSnapshot
  <2>2. \A n \in 1 .. MaxSettingPuts : batches[n] # NoRequest =>
          /\ batches[n].val \in Batch /\ batches[n].left \subseteq SettingKeys
          /\ batches[n].answer \in LegalSnapshot \union {NoData}
          /\ batches[n].at \in {"sent", "writing", "stored", "refused"}
          /\ batches[n].deaf \in BOOLEAN
    BY <2>1 DEF SettingsTyped, BatchRequest
  <2> QED
    BY <2>1, <2>2, LegalIsTyped DEF SettingsTyped, SettingsTypeOK
<1> QED
  BY <1>1, SettingsHold, PTL

\* No answer, late or of another admin's making, replaces what a confirmed save
\* put into the form.
THEOREM SettingsFormStays == SettingsSpec => []SavedFormStays
<1>1. SettingsInv => SavedFormStays
  BY DEF SettingsInv
<1> QED
  BY <1>1, SettingsHold, PTL

\* A batch with one invalid value has none of its keys written, however many
\* admins write at once.
THEOREM BadBatchesWriteNothing == SettingsSpec => []BadBatchWritesNothing
<1>1. SettingsInv => BadBatchWritesNothing
  BY DEF SettingsInv
<1> QED
  BY <1>1, SettingsHold, PTL

-----------------------------------------------------------------------------
(* OutcomesForm.  A choice to be kept was made in a form that is filled and  *)
(* on the page, and such a form is not filled again before a save.           *)

UpdateRequest == [val : OutcomeList, left : SUBSET OutcomeRows, at : {"writing", "stored", "failed"}]

OutcomesTyped ==
  /\ outcomes \in OutcomeList /\ outcomeWrites \in Nat
  /\ outcomesQ \in Query(OutcomeList)
  /\ bonusTab \in BOOLEAN /\ filled \in BOOLEAN
  /\ chosen \in OutcomeList /\ named \in OutcomeList /\ kept \in OutcomeList
  /\ updateJob \in 0 .. MaxUpdates /\ sentUpdates \in 0 .. MaxUpdates
  /\ updates \in [1 .. MaxUpdates -> UpdateRequest \union {NoUpdate}]

KeptShown ==
  \A c \in OutcomeRows : kept[c] # NotSet =>
    /\ filled /\ bonusTab /\ chosen[c] = kept[c]
    /\ c \notin TeamRows => named[c] = kept[c]

OutcomesInv == OutcomesTyped /\ KeptShown

\* Showing outcomes fills the form only while it keeps nothing.
LEMMA ShowKeeps ==
  ASSUME OutcomesInv, NEW q \in Query(OutcomeList), ShowOutcomes(q), bonusTab => bonusTab',
         UNCHANGED <<named, kept>>
  PROVE  /\ outcomesQ' = q /\ filled' \in BOOLEAN /\ chosen' \in OutcomeList /\ KeptShown'
<1>0. OutcomesTyped /\ KeptShown /\ kept \in OutcomeList /\ outcomesQ' = q
  BY DEF OutcomesInv, OutcomesTyped, ShowOutcomes
<1>1. CASE bonusTab' /\ Fills(q)
  <2>1. q.data \in OutcomeList /\ ~(filled /\ bonusTab)
    BY <1>1 DEF Fills, Query
  <2>2. filled' = TRUE /\ chosen' = q.data
    BY <1>1 DEF ShowOutcomes
  <2>3. \A c \in OutcomeRows : kept[c] = NotSet
    BY <1>0, <2>1 DEF KeptShown
  <2> QED
    BY <1>0, <2>1, <2>2, <2>3 DEF KeptShown
<1>2. CASE ~(bonusTab' /\ Fills(q))
  <2>1. UNCHANGED <<filled, chosen>>
    BY <1>2 DEF ShowOutcomes
  <2> QED
    BY <1>0, <2>1 DEF OutcomesTyped, KeptShown
<1> QED
  BY <1>1, <1>2

LEMMA OutcomesStart == OutcomesInit => OutcomesInv
<1> SUFFICES ASSUME OutcomesInit PROVE OutcomesInv
  OBVIOUS
<1>1. NoneSet \in OutcomeList /\ \A c \in OutcomeRows : NoneSet[c] = NotSet
  BY DEF NoneSet, OutcomeList
<1>2. outcomesQ \in Query(OutcomeList)
  BY QueryStarts DEF OutcomesInit
<1>3. /\ updates \in [1 .. MaxUpdates -> UpdateRequest \union {NoUpdate}]
      /\ updateJob \in 0 .. MaxUpdates /\ sentUpdates \in 0 .. MaxUpdates
      /\ outcomeWrites \in Nat
  BY OutcomesFormAssumption DEF OutcomesInit
<1>4. /\ outcomes = NoneSet /\ chosen = NoneSet /\ named = NoneSet /\ kept = NoneSet
      /\ bonusTab = FALSE /\ filled = FALSE
  BY DEF OutcomesInit
<1> QED
  BY <1>1, <1>2, <1>3, <1>4 DEF OutcomesInv, OutcomesTyped, KeptShown

\* An outcome is written.
LEMMA OutcomeWritten ==
  ASSUME OutcomesInv, NEW c \in OutcomeRows, NEW w \in Winners \union {NotSet}, SetOutcome(c, w)
  PROVE  outcomes' \in OutcomeList /\ outcomeWrites' \in Nat
BY DEF OutcomesInv, OutcomesTyped, OutcomeList, SetOutcome

LEMMA OutcomesStep == OutcomesInv /\ [OutcomesNext]_outcomesVars => OutcomesInv'
<1> SUFFICES ASSUME OutcomesInv, [OutcomesNext]_outcomesVars PROVE OutcomesInv'
  OBVIOUS
<1>0. /\ OutcomesTyped /\ KeptShown
      /\ outcomes \in OutcomeList /\ outcomeWrites \in Nat /\ outcomesQ \in Query(OutcomeList)
      /\ bonusTab \in BOOLEAN /\ filled \in BOOLEAN
      /\ chosen \in OutcomeList /\ named \in OutcomeList /\ kept \in OutcomeList
      /\ updateJob \in 0 .. MaxUpdates /\ sentUpdates \in 0 .. MaxUpdates
      /\ updates \in [1 .. MaxUpdates -> UpdateRequest \union {NoUpdate}]
      /\ MaxUpdates \in Nat
  BY OutcomesFormAssumption DEF OutcomesInv, OutcomesTyped
<1>N. NoneSet \in OutcomeList /\ \A c \in OutcomeRows : NoneSet[c] = NotSet
  BY DEF NoneSet, OutcomeList
<1>1. CASE UNCHANGED outcomesVars
  BY <1>0, <1>1 DEF outcomesVars, outcomesTable, outcomesTab, OutcomesInv, OutcomesTyped, KeptShown
\* The form stays.
<1>2. ASSUME outcomes' \in OutcomeList, outcomeWrites' \in Nat, outcomesQ' \in Query(OutcomeList),
             updateJob' \in 0 .. MaxUpdates, sentUpdates' \in 0 .. MaxUpdates,
             updates' \in [1 .. MaxUpdates -> UpdateRequest \union {NoUpdate}],
             UNCHANGED <<bonusTab, filled, chosen, named, kept>>
      PROVE  OutcomesInv'
  BY <1>0, <1>2 DEF OutcomesInv, OutcomesTyped, KeptShown
<1>3. ASSUME NEW c \in OutcomeRows, NEW w \in Winners, OutcomeElsewhere(c, w) PROVE OutcomesInv'
  <2>1. outcomes' \in OutcomeList /\ outcomeWrites' \in Nat
    BY <1>3, OutcomeWritten DEF OutcomeElsewhere
  <2> QED
    BY <1>0, <1>2, <1>3, <2>1 DEF OutcomeElsewhere, outcomesTab
<1>4. CASE OpenBonusTab \/ OutcomesCome
  <2>1. /\ Fetch(outcomesQ) \in Query(OutcomeList) /\ Arrived(outcomesQ) \in Query(OutcomeList)
        /\ Failed(outcomesQ) \in Query(OutcomeList)
    BY <1>0, QueryFetched, QueryArrived, QueryFailed
  <2>2. /\ ShowOutcomes(Fetch(outcomesQ)) \/ ShowOutcomes(Arrived(outcomesQ))
           \/ ShowOutcomes(Failed(outcomesQ))
        /\ bonusTab' \in BOOLEAN /\ (bonusTab => bonusTab')
        /\ UNCHANGED <<outcomesTable, named, updateJob, updates, sentUpdates, kept>>
    BY <1>0, <1>4 DEF OpenBonusTab, OutcomesCome
  <2>3. /\ outcomesQ' \in Query(OutcomeList) /\ filled' \in BOOLEAN /\ chosen' \in OutcomeList
        /\ KeptShown'
    BY <2>1, <2>2, ShowKeeps
  <2> QED
    BY <1>0, <2>2, <2>3 DEF outcomesTable, OutcomesInv, OutcomesTyped
<1>5. CASE LeaveBonusTab
  <2>1. /\ bonusTab' = FALSE /\ filled' = FALSE /\ chosen' = NoneSet /\ named' = NoneSet
        /\ updateJob' = 0 /\ kept' = NoneSet
        /\ UNCHANGED <<outcomesTable, outcomesQ, updates, sentUpdates>>
    BY <1>5 DEF LeaveBonusTab
  <2>2. updateJob' \in 0 .. MaxUpdates
    BY <1>0, <2>1
  <2> QED
    BY <1>0, <1>N, <2>1, <2>2 DEF outcomesTable, OutcomesInv, OutcomesTyped, KeptShown
<1>6. CASE FocusBonusTab \/ ServeOutcomes
  <2>1. outcomesQ' \in Query(OutcomeList)
    BY <1>0, <1>6, QueryFetched, QueryServed DEF FocusBonusTab, ServeOutcomes
  <2> QED
    BY <1>0, <1>2, <1>6, <2>1 DEF FocusBonusTab, ServeOutcomes, outcomesTable, outcomesTab
<1>7. ASSUME NEW c \in OutcomeRows, NEW w \in Winners, ChooseOutcome(c, w) PROVE OutcomesInv'
  <2>1. /\ chosen' = [chosen EXCEPT ![c] = w]
        /\ named' = (IF c \in TeamRows THEN named ELSE [named EXCEPT ![c] = w])
        /\ kept' = (IF filled THEN [kept EXCEPT ![c] = w] ELSE kept) /\ bonusTab
        /\ UNCHANGED <<outcomesTable, outcomesQ, bonusTab, filled, updateJob, updates, sentUpdates>>
    BY <1>7 DEF ChooseOutcome, OutcomesReady
  <2>2. chosen' \in OutcomeList /\ named' \in OutcomeList /\ kept' \in OutcomeList
    BY <1>0, <2>1 DEF OutcomeList
  <2>3. /\ chosen'[c] = w /\ (c \notin TeamRows => named'[c] = w)
        /\ filled => kept'[c] = w
        /\ \A d \in OutcomeRows : d # c =>
             chosen'[d] = chosen[d] /\ named'[d] = named[d] /\ kept'[d] = kept[d]
    BY <1>0, <2>1 DEF OutcomeList
  <2>4. KeptShown'
    BY <1>0, <2>1, <2>3 DEF KeptShown
  <2> QED
    BY <1>0, <2>1, <2>2, <2>4 DEF outcomesTable, OutcomesInv, OutcomesTyped
<1>8. CASE SaveOutcomes
  <2> DEFINE b == [val |-> chosen, left |-> {c \in OutcomeRows : chosen[c] # NotSet},
                   at |-> "writing"]
  <2>1. /\ updates' = [updates EXCEPT ![sentUpdates + 1] = b] /\ sentUpdates < MaxUpdates
        /\ sentUpdates' = sentUpdates + 1 /\ updateJob' = sentUpdates + 1
        /\ UNCHANGED <<outcomesTable, outcomesQ, outcomesTab, kept>>
    BY <1>8 DEF SaveOutcomes
  <2>2. b \in UpdateRequest
    BY <1>0 DEF UpdateRequest
  <2> HIDE DEF b
  <2>3. updates' \in [1 .. MaxUpdates -> UpdateRequest \union {NoUpdate}]
    BY <1>0, <2>1, <2>2
  <2>4. updateJob' \in 0 .. MaxUpdates /\ sentUpdates' \in 0 .. MaxUpdates
    BY <1>0, <2>1
  <2> QED
    BY <1>0, <1>2, <2>1, <2>3, <2>4 DEF outcomesTable, outcomesTab
<1>9. ASSUME NEW n \in 1 .. MaxUpdates, NEW c \in OutcomeRows, WriteOutcome(n, c)
      PROVE  OutcomesInv'
  <2>1. /\ updates[n] # NoUpdate /\ SetOutcome(c, updates[n].val[c])
        /\ updates' = [updates EXCEPT ![n].left = @ \ {c}]
        /\ UNCHANGED <<outcomesQ, outcomesTab, updateJob, sentUpdates, kept>>
    BY <1>9 DEF WriteOutcome
  <2>2. updates[n] \in UpdateRequest /\ updates[n].val[c] \in Winners \union {NotSet}
    BY <1>0, <2>1 DEF UpdateRequest, OutcomeList
  <2>3. outcomes' \in OutcomeList /\ outcomeWrites' \in Nat
    BY <2>1, <2>2, OutcomeWritten
  <2>4. [updates[n] EXCEPT !.left = @ \ {c}] \in UpdateRequest
    BY <2>2 DEF UpdateRequest
  <2>5. updates' \in [1 .. MaxUpdates -> UpdateRequest \union {NoUpdate}]
    BY <1>0, <2>1, <2>4
  <2> QED
    BY <1>0, <1>2, <2>1, <2>3, <2>5 DEF outcomesTab
<1>10. ASSUME NEW n \in 1 .. MaxUpdates, EndUpdate(n) PROVE OutcomesInv'
  <2>1. /\ updates[n] # NoUpdate
        /\ \/ updates' = [updates EXCEPT ![n].at = "stored"]
           \/ updates' = [updates EXCEPT ![n].at = "failed"]
        /\ UNCHANGED <<outcomesTable, outcomesQ, outcomesTab, updateJob, sentUpdates, kept>>
    BY <1>10 DEF EndUpdate
  <2>2. updates[n] \in UpdateRequest
    BY <1>0, <2>1
  <2>3. /\ [updates[n] EXCEPT !.at = "stored"] \in UpdateRequest
        /\ [updates[n] EXCEPT !.at = "failed"] \in UpdateRequest
    BY <2>2 DEF UpdateRequest
  <2>4. updates' \in [1 .. MaxUpdates -> UpdateRequest \union {NoUpdate}]
    BY <1>0, <2>1, <2>3
  <2> QED
    BY <1>0, <1>2, <2>1, <2>4 DEF outcomesTable, outcomesTab
<1>11. ASSUME NEW n \in 1 .. MaxUpdates, HearUpdateStored(n) PROVE OutcomesInv'
  <2>1. /\ outcomesQ' = (IF bonusTab THEN Refetch(outcomesQ) ELSE outcomesQ)
        /\ updates' = [updates EXCEPT ![n] = NoUpdate]
        /\ UNCHANGED <<outcomesTable, bonusTab, chosen, sentUpdates>>
    BY <1>11 DEF HearUpdateStored
  <2>2. outcomesQ' \in Query(OutcomeList)
    BY <1>0, <2>1, QueryRefetched
  <2>3. updates' \in [1 .. MaxUpdates -> UpdateRequest \union {NoUpdate}]
    BY <1>0, <2>1
  <2>4. CASE OfTab(n)
    <3>1. filled' = FALSE /\ named' = NoneSet /\ updateJob' = 0 /\ kept' = NoneSet
      BY <1>11, <2>4 DEF HearUpdateStored
    <3>2. updateJob' \in 0 .. MaxUpdates
      BY <1>0, <3>1
    <3> QED
      BY <1>0, <1>N, <2>1, <2>2, <2>3, <3>1, <3>2
         DEF outcomesTable, OutcomesInv, OutcomesTyped, KeptShown
  <2>5. CASE ~OfTab(n)
    <3>1. UNCHANGED <<filled, named, updateJob, kept>>
      BY <1>11, <2>5 DEF HearUpdateStored
    <3> QED
      BY <1>0, <1>2, <2>1, <2>2, <2>3, <3>1 DEF outcomesTable
  <2> QED
    BY <2>4, <2>5
<1>12. ASSUME NEW n \in 1 .. MaxUpdates, HearUpdateError(n) PROVE OutcomesInv'
  <2>1. /\ updateJob' = (IF OfTab(n) THEN 0 ELSE updateJob)
        /\ updates' = [updates EXCEPT ![n] = NoUpdate]
        /\ UNCHANGED <<outcomesTable, outcomesQ, outcomesTab, sentUpdates, kept>>
    BY <1>12 DEF HearUpdateError
  <2>2. updates' \in [1 .. MaxUpdates -> UpdateRequest \union {NoUpdate}]
        /\ updateJob' \in 0 .. MaxUpdates
    BY <1>0, <2>1
  <2> QED
    BY <1>0, <1>2, <2>1, <2>2 DEF outcomesTable, outcomesTab
<1> QED
  BY <1>1, <1>3, <1>4, <1>5, <1>6, <1>7, <1>8, <1>9, <1>10, <1>11, <1>12 DEF OutcomesNext

LEMMA OutcomesHold == OutcomesSpec => []OutcomesInv
BY OutcomesStart, OutcomesStep, PTL DEF OutcomesSpec

\* Every variable of the outcomes' form and table has its type.
THEOREM OutcomesTypeCorrect == OutcomesSpec => []OutcomesTypeOK
<1>1. OutcomesInv => OutcomesTypeOK
  BY DEF OutcomesInv, OutcomesTyped, UpdateRequest, OutcomesTypeOK
<1> QED
  BY <1>1, OutcomesHold, PTL

\* A choice made in a filled form stays what the row names and what a save would
\* send, until the save or until the form is left.
THEOREM OutcomeChoicesSurvive == OutcomesSpec => []ChoicesSurvive
<1>1. OutcomesInv => ChoicesSurvive
  BY DEF OutcomesInv, KeptShown, ChoicesSurvive, RowNames
<1> QED
  BY <1>1, OutcomesHold, PTL

-----------------------------------------------------------------------------
(* MatchConsole: what the lists at hand say of the matches.  A match nobody  *)
(* edited or deleted is as listed; one no longer listed is deleted, and no   *)
(* answer on its way lists it.                                               *)

Lists == UNION {[S -> Row] : S \in SUBSET Ids}
GoodDraft == {d \in Draft : MatchFormTakes(d)}

ConsoleTyped ==
  /\ fixture \in [Ids -> Fixture \union {Unborn, Gone}]
  /\ shootout \in [Ids -> Sides \union {NoSide}]
  /\ ahead \subseteq Ids /\ edited \subseteq Ids /\ elsewhere \in 0 .. MaxElsewhere
  /\ matchesQ \in Query(Lists)
  /\ consoleUp \in BOOLEAN /\ newForm \in BOOLEAN
  /\ editingId \in Ids \union {NoId} /\ resultId \in Ids \union {NoId}
  /\ deleteConfirmId \in Ids \union {NoId}
  /\ draft \in Draft /\ resultDraft \in ResultDraft
  /\ work \in [Kinds -> Work \union {NoWork}] /\ sentWork \in Nat

Untouched(m) == m \notin edited /\ fixture[m] # Gone
ShootoutFits(m, s) == fixture[m].ko /\ s \in SidesOf(fixture[m])

ListSound(l) ==
  \A m \in DOMAIN l :
    /\ fixture[m] # Unborn
    /\ Untouched(m) => /\ l[m].fixture = fixture[m]
                       /\ l[m].shootout # NoSide => ShootoutFits(m, l[m].shootout)

ListsSound ==
  /\ matchesQ.data # NoData => ListSound(matchesQ.data)
  /\ matchesQ.flight = "served" =>
       /\ matchesQ.answer # NoData /\ ListSound(matchesQ.answer)
       /\ \A m \in ListedIds : m \in DOMAIN matchesQ.answer \/ fixture[m] = Gone

ShootoutSound ==
  \A m \in Ids : shootout[m] # NoSide =>
    fixture[m] # Unborn /\ (Untouched(m) => ShootoutFits(m, shootout[m]))

DialogListed(m) ==
  m = NoId \/ m \in ListedIds
    \/ (fixture[m] = Gone /\ (matchesQ.flight = "served" => m \notin DOMAIN matchesQ.answer))

DialogsListed == DialogListed(editingId) /\ DialogListed(resultId) /\ DialogListed(deleteConfirmId)

OneDialog ==
  /\ newForm => editingId \notin ListedIds
  /\ newForm \/ editingId \in ListedIds => resultId \notin ListedIds
  /\ newForm \/ editingId \in ListedIds \/ resultId \in ListedIds => deleteConfirmId \notin ListedIds

ResultSound(m, r) ==
  Untouched(m) => (r.pens => fixture[m].ko) /\ r.winner \in SidesOf(fixture[m]) \union {NoSide}

WorkSound ==
  /\ work["create"] # NoWork => work["create"].body \in GoodDraft
  /\ \A k \in {"update", "result", "delete"} : work[k] # NoWork =>
       work[k].id \in Ids /\ fixture[work[k].id] # Unborn
  /\ work["update"] # NoWork => /\ work["update"].body \in GoodDraft
                                /\ editingId \in {work["update"].id, NoId}
  /\ work["result"] # NoWork =>
       /\ work["result"].body \in ResultDraft /\ resultId \in {work["result"].id, NoId}
       /\ work["result"].body.pens => /\ ResultSound(work["result"].id, work["result"].body)
                                      /\ work["result"].body.winner # NoSide

ConsoleInv ==
  /\ ConsoleTyped /\ ListsSound /\ ShootoutSound /\ DialogsListed /\ OneDialog
  /\ resultId # NoId => ResultSound(resultId, resultDraft)
  /\ WorkSound

\* A list: rows of some of the matches.
LEMMA ListTyped ==
  ASSUME NEW l \in Lists
  PROVE  /\ l \in [DOMAIN l -> Row] /\ DOMAIN l \subseteq Ids
         /\ \A m \in DOMAIN l : m \in Ids /\ m # NoId /\ m # New /\ l[m] \in Row
                                /\ l[m].fixture \in Fixture
<1>1. PICK S \in SUBSET Ids : l \in [S -> Row]
  BY DEF Lists
<1> QED
  BY <1>1, MatchConsoleAssumption DEF Row

LEMMA ListIsData == \A l \in Lists : l # NoData
BY MatchConsoleAssumption DEF Lists

LEMMA ListedTyped ==
  ASSUME ConsoleTyped
  PROVE  /\ ListedIds \subseteq Ids /\ NoId \notin ListedIds /\ New \notin ListedIds
         /\ \A m \in ListedIds : matchesQ.data # NoData /\ m \in DOMAIN matchesQ.data
              /\ matchesQ.data[m] \in Row /\ matchesQ.data[m].fixture \in Fixture
<1>1. matchesQ.data \in Lists \union {NoData}
  BY DEF ConsoleTyped, Query
<1>2. CASE matchesQ.data = NoData
  BY <1>2 DEF ListedIds
<1>3. CASE matchesQ.data # NoData
  <2>1. matchesQ.data \in Lists /\ ListedIds = DOMAIN matchesQ.data
    BY <1>1, <1>3 DEF ListedIds
  <2> QED
    BY <1>3, <2>1, ListTyped, MatchConsoleAssumption
<1> QED
  BY <1>2, <1>3

\* The list the server would answer with.
LEMMA RowsTyped ==
  ASSUME ConsoleTyped
  PROVE  /\ Rows \in Lists /\ DOMAIN Rows = {m \in Ids : Exists(m)}
         /\ \A m \in Ids : Exists(m) =>
              Rows[m].fixture = fixture[m] /\ Rows[m].shootout = shootout[m]
<1>1. \A m \in Ids : Exists(m) => [fixture |-> fixture[m], shootout |-> shootout[m]] \in Row
  BY DEF ConsoleTyped, Exists, Row
<1>2. Rows \in [{m \in Ids : Exists(m)} -> Row]
  BY <1>1 DEF Rows
<1> QED
  BY <1>2 DEF Rows, Lists

\* The drafts a form opens with, and what a draft makes of a match.
LEMMA DraftsTyped ==
  /\ BlankDraft \in Draft /\ BlankResult \in ResultDraft
  /\ \A row \in Row : DraftOf(row) \in Draft /\ ResultOf(row) \in ResultDraft
  /\ \A d \in GoodDraft : FixtureOf(d) \in Fixture
<1>1. BlankDraft \in Draft /\ BlankResult \in ResultDraft
  BY DEF BlankDraft, BlankResult, Draft, ResultDraft
<1>2. ASSUME NEW row \in Row PROVE DraftOf(row) \in Draft /\ ResultOf(row) \in ResultDraft
  <2>1. row.fixture \in Fixture /\ row.shootout \in Sides \union {NoSide}
    BY DEF Row
  <2>2. DraftOf(row) \in Draft
    BY <2>1 DEF DraftOf, Draft, Fixture
  <2>3. ResultOf(row) \in ResultDraft
    BY <2>1 DEF ResultOf, ResultDraft
  <2> QED
    BY <2>2, <2>3
<1>3. \A d \in GoodDraft : FixtureOf(d) \in Fixture
  BY DEF GoodDraft, MatchFormTakes, Draft, FixtureOf, Fixture
<1> QED
  BY <1>1, <1>2, <1>3

\* A dialog that is up is that of a listed match, or the form for a new one.
LEMMA DialogsUp ==
  ASSUME ConsoleTyped
  PROVE  \A d : d \in Dialogs <=>
           /\ Shown
           /\ \/ d = <<"new", New>> /\ newForm
              \/ d = <<"edit", editingId>> /\ editingId \in ListedIds
              \/ d = <<"result", resultId>> /\ resultId \in ListedIds
              \/ d = <<"delete", deleteConfirmId>> /\ deleteConfirmId \in ListedIds
<1>1. /\ editingId \in Ids \union {NoId} /\ resultId \in Ids \union {NoId}
      /\ deleteConfirmId \in Ids \union {NoId}
      /\ NoId \notin ListedIds /\ New \notin Ids /\ NoId # New
  BY ListedTyped, MatchConsoleAssumption DEF ConsoleTyped
<1> QED
  BY <1>1 DEF Dialogs

LEMMA UpMeans ==
  ASSUME ConsoleTyped, NEW k \in Kinds
  PROVE  /\ Up("new", k) => newForm
         /\ Up("edit", k) => editingId \in ListedIds /\ work[k] = NoWork
         /\ Up("result", k) => resultId \in ListedIds /\ work[k] = NoWork
         /\ Up("delete", k) => deleteConfirmId \in ListedIds /\ work[k] = NoWork
         /\ Shown /\ Dialogs = {} =>
              /\ ~newForm /\ editingId \notin ListedIds
              /\ resultId \notin ListedIds /\ deleteConfirmId \notin ListedIds
<1>2. ASSUME NEW x \in Dialogs
      PROVE  /\ x[1] = "new" => newForm
             /\ x[1] = "edit" => editingId \in ListedIds
             /\ x[1] = "result" => resultId \in ListedIds
             /\ x[1] = "delete" => deleteConfirmId \in ListedIds
  BY DialogsUp
<1>3. ASSUME Shown, Dialogs = {}
      PROVE  /\ ~newForm /\ editingId \notin ListedIds
             /\ resultId \notin ListedIds /\ deleteConfirmId \notin ListedIds
  <2>1. newForm => <<"new", New>> \in Dialogs
    BY <1>3, DialogsUp
  <2>2. editingId \in ListedIds => <<"edit", editingId>> \in Dialogs
    BY <1>3, DialogsUp
  <2>3. resultId \in ListedIds => <<"result", resultId>> \in Dialogs
    BY <1>3, DialogsUp
  <2>4. deleteConfirmId \in ListedIds => <<"delete", deleteConfirmId>> \in Dialogs
    BY <1>3, DialogsUp
  <2> QED
    BY <1>3, <2>1, <2>2, <2>3, <2>4
<1> QED
  BY <1>2, <1>3 DEF Up

\* The matches grow older: one that is there stays as it is, or is edited, or
\* goes for good.
Ages ==
  \A m \in Ids :
    /\ fixture[m] # Unborn => fixture'[m] # Unborn
    /\ fixture[m] = Gone => fixture'[m] = Gone
    /\ fixture[m] # Unborn /\ m \notin edited' /\ fixture'[m] # Gone =>
         m \notin edited /\ fixture'[m] = fixture[m]

LEMMA ListAges ==
  ASSUME Ages, NEW l \in Lists, ListSound(l)
  PROVE  ListSound(l)'
<1>1. \A m \in DOMAIN l : m \in Ids
  BY ListTyped
<1> QED
  BY <1>1 DEF Ages, ListSound, Untouched, ShootoutFits

LEMMA PageAges ==
  ASSUME ConsoleInv, Ages, UNCHANGED <<matchesQ, dialogs>>
  PROVE  /\ ListsSound' /\ DialogsListed' /\ OneDialog'
         /\ (resultId # NoId => ResultSound(resultId, resultDraft))'
<1>0. /\ ConsoleTyped /\ ListsSound /\ DialogsListed /\ OneDialog
      /\ matchesQ.data \in Lists \union {NoData} /\ matchesQ.answer \in Lists \union {NoData}
      /\ UNCHANGED <<matchesQ, newForm, editingId, resultId, deleteConfirmId, resultDraft, ListedIds>>
      /\ ListedIds \subseteq Ids
      /\ {editingId, resultId, deleteConfirmId} \subseteq Ids \union {NoId}
  BY ListedTyped DEF ConsoleInv, ConsoleTyped, Query, dialogs, ListedIds
<1>1. ListsSound'
  <2>1. matchesQ.data # NoData => ListSound(matchesQ.data)'
    BY <1>0, ListAges DEF ListsSound
  <2>2. matchesQ.flight = "served" => ListSound(matchesQ.answer)'
    BY <1>0, ListAges DEF ListsSound
  <2>3. matchesQ.flight = "served" =>
          \A m \in ListedIds : m \in DOMAIN matchesQ.answer \/ fixture'[m] = Gone
    BY <1>0 DEF ListsSound, Ages
  <2> QED
    BY <1>0, <2>1, <2>2, <2>3 DEF ListsSound
<1>2. DialogsListed'
  BY <1>0 DEF DialogsListed, DialogListed, Ages
<1>3. OneDialog'
  BY <1>0 DEF OneDialog
<1>4. (resultId # NoId => ResultSound(resultId, resultDraft))'
  <2>1. SUFFICES ASSUME resultId # NoId, resultId \notin edited', fixture'[resultId] # Gone
                 PROVE  ResultSound(resultId, resultDraft)'
    BY <1>0 DEF ResultSound, Untouched
  <2>2. resultId \in ListedIds
    BY <1>0, <2>1 DEF DialogsListed, DialogListed, Ages
  <2>3. fixture[resultId] # Unborn
    BY <1>0, <2>2, ListedTyped DEF ListsSound, ListSound
  <2>4. ResultSound(resultId, resultDraft)
    BY <2>1 DEF ConsoleInv
  <2> QED
    BY <1>0, <2>1, <2>3, <2>4 DEF Ages, ResultSound, Untouched
<1> QED
  BY <1>1, <1>2, <1>3, <1>4

LEMMA WorkAges ==
  ASSUME ConsoleInv, Ages, UNCHANGED <<work, editingId, resultId>>
  PROVE  WorkSound'
<1>0. work["result"] # NoWork =>
        work["result"].id \in Ids /\ fixture[work["result"].id] # Unborn
  BY DEF ConsoleInv, WorkSound
<1>1. \A k \in {"update", "result", "delete"} : work[k] # NoWork =>
        work[k].id \in Ids /\ fixture'[work[k].id] # Unborn
  BY DEF ConsoleInv, WorkSound, Ages
<1>2. work["result"] # NoWork =>
        /\ work["result"].body.pens => /\ ResultSound(work["result"].id, work["result"].body)'
                                       /\ work["result"].body.winner # NoSide
  BY <1>0 DEF ConsoleInv, WorkSound, Ages, ResultSound, Untouched
<1> QED
  BY <1>1, <1>2 DEF ConsoleInv, WorkSound

LEMMA ShootoutsAge ==
  ASSUME ConsoleInv, Ages, UNCHANGED shootout
  PROVE  ShootoutSound'
BY DEF ConsoleInv, ShootoutSound, Ages, ShootoutFits, Untouched

\* Nothing of the matches changes.
LEMMA TableRests ==
  ASSUME UNCHANGED matchesTable
  PROVE  Ages
BY DEF matchesTable, Ages

\* The list becomes q: the data at hand, or the answer that was on its way.
LEMMA ListingSound ==
  ASSUME ConsoleInv, NEW q \in Query(Lists), Listing(q), consoleUp' \in BOOLEAN,
         UNCHANGED <<matchesTable, newForm, editingId, resultId, deleteConfirmId, work, sentWork>>,
         \/ /\ q.data = matchesQ.data
            /\ q.flight = "served" => matchesQ.flight = "served" /\ q.answer = matchesQ.answer
         \/ /\ matchesQ.flight = "served" /\ q.data = matchesQ.answer /\ q.flight = "idle"
  PROVE  ConsoleInv'
<1>0. /\ ConsoleTyped /\ ListsSound /\ DialogsListed /\ OneDialog /\ matchesQ' = q
      /\ q.data \in Lists \union {NoData} /\ q.answer \in Lists \union {NoData}
      /\ ListedIds' = (IF q.data = NoData THEN {} ELSE DOMAIN q.data)
      /\ NoId \notin ListedIds /\ NoId \notin ListedIds'
      /\ draft \in Draft /\ resultDraft \in ResultDraft
  BY ListedTyped, ListTyped DEF ConsoleInv, ConsoleTyped, Query, Listing, ListedIds
<1>1. /\ matchesQ'.data # NoData => ListSound(matchesQ'.data)
      /\ matchesQ'.flight = "served" =>
           /\ matchesQ'.answer # NoData /\ ListSound(matchesQ'.answer)
           /\ \A m \in ListedIds' : m \in DOMAIN matchesQ'.answer \/ fixture[m] = Gone
  BY <1>0 DEF ListsSound, ListedIds
<1>2. ListsSound'
  BY <1>0, <1>1 DEF ListsSound, ListSound, matchesTable, Untouched, ShootoutFits
<1>3. ASSUME NEW m, DialogListed(m)
      PROVE  /\ m \in ListedIds' => m \in ListedIds
             /\ m = NoId \/ m \in ListedIds' \/ (fixture[m] = Gone /\ (q.flight = "served" => m \notin DOMAIN q.answer))
  BY <1>0, <1>3 DEF DialogListed, ListsSound, ListedIds
<1>4. DialogsListed'
  BY <1>0, <1>3 DEF DialogsListed, DialogListed, matchesTable
<1>5. OneDialog'
  BY <1>0, <1>3 DEF DialogsListed, OneDialog
<1>6. draft' \in Draft
  <2>1. \/ draft' = draft \/ draft' = BlankDraft
        \/ q.data # NoData /\ editingId \in DOMAIN q.data /\ draft' = DraftOf(q.data[editingId])
    BY DEF Listing
  <2> QED
    BY <1>0, <2>1, ListTyped, DraftsTyped
<1>7. /\ resultDraft' \in ResultDraft
      /\ resultId # NoId => ResultSound(resultId, resultDraft')
  <2>1. \/ resultDraft' = resultDraft \/ resultDraft' = BlankResult
        \/ q.data # NoData /\ resultId \in DOMAIN q.data /\ resultDraft' = ResultOf(q.data[resultId])
    BY DEF Listing
  <2>2. CASE resultDraft' = resultDraft
    BY <1>0, <2>2 DEF ConsoleInv
  <2>3. CASE resultDraft' = BlankResult
    BY <2>3, DraftsTyped DEF BlankResult, ResultSound
  <2>4. CASE q.data # NoData /\ resultId \in DOMAIN q.data /\ resultDraft' = ResultOf(q.data[resultId])
    <3>1. q.data[resultId] \in Row /\ ListSound(q.data)
      BY <1>0, <1>1, <2>4, ListTyped
    <3> QED
      BY <2>4, <3>1, DraftsTyped DEF ListSound, ResultSound, ResultOf, ShootoutFits
  <2> QED
    BY <2>1, <2>2, <2>3, <2>4
<1>8. (resultId # NoId => ResultSound(resultId, resultDraft))'
  BY <1>7 DEF matchesTable, ResultSound, Untouched
<1>9. ShootoutSound' /\ WorkSound'
  BY TableRests, ShootoutsAge, WorkAges DEF matchesTable
<1>10. ConsoleTyped'
  BY <1>0, <1>6, <1>7 DEF ConsoleTyped, matchesTable
<1> QED
  BY <1>2, <1>4, <1>5, <1>8, <1>9, <1>10 DEF ConsoleInv

\* A dialog opens, is filled in or is closed: no request, no match changes.
LEMMA DialogsSound ==
  ASSUME ConsoleInv, UNCHANGED <<matchesTable, matchesQ, work, sentWork>>,
         consoleUp' \in BOOLEAN, newForm' \in BOOLEAN, draft' \in Draft, resultDraft' \in ResultDraft,
         editingId' \in {editingId, NoId} \/ (editingId' \in ListedIds /\ ~AnyPending),
         resultId' \in {resultId, NoId} \/ (resultId' \in ListedIds /\ ~AnyPending),
         deleteConfirmId' \in {deleteConfirmId, NoId} \/ deleteConfirmId' \in ListedIds,
         (resultId # NoId => ResultSound(resultId, resultDraft))',
         OneDialog'
  PROVE  ConsoleInv'
<1>0. ConsoleTyped /\ ListsSound /\ DialogsListed /\ WorkSound /\ ListedIds \subseteq Ids
      /\ UNCHANGED <<fixture, shootout, ahead, edited, elsewhere, ListedIds>>
  BY ListedTyped DEF ConsoleInv, matchesTable, ListedIds
<1>1. ConsoleTyped'
  BY <1>0 DEF ConsoleTyped
<1>2. ListsSound' /\ ShootoutSound'
  BY <1>0 DEF ConsoleInv, ListsSound, ListSound, ShootoutSound, Untouched, ShootoutFits
<1>3. DialogsListed'
  BY <1>0 DEF DialogsListed, DialogListed
<1>4. WorkSound'
  <2>1. /\ work["update"] # NoWork => editingId' \in {work["update"].id, NoId}
        /\ work["result"] # NoWork => resultId' \in {work["result"].id, NoId}
    BY <1>0 DEF WorkSound, AnyPending, Kinds
  <2> QED
    BY <1>0, <2>1 DEF WorkSound, ResultSound, Untouched
<1> QED
  BY <1>1, <1>2, <1>3, <1>4 DEF ConsoleInv

LEMMA OpeningSound ==
  ASSUME ConsoleInv, ClickNew \/ \E m \in Ids : ClickEdit(m) \/ ClickResult(m) \/ ClickDelete(m)
  PROVE  ConsoleInv'
<1>0. /\ ConsoleTyped /\ ListsSound /\ UNCHANGED ListedIds /\ NoId \notin ListedIds
      /\ consoleUp \in BOOLEAN /\ newForm \in BOOLEAN /\ draft \in Draft
      /\ resultDraft \in ResultDraft /\ Kinds # {} /\ "create" \in Kinds
  BY ListedTyped DEF ConsoleInv, ConsoleTyped, ListedIds, ClickNew, ClickEdit, ClickResult,
                     ClickDelete, Kinds
<1>1. /\ ~newForm /\ editingId \notin ListedIds
      /\ resultId \notin ListedIds /\ deleteConfirmId \notin ListedIds
  BY <1>0, UpMeans DEF ClickNew, ClickEdit, ClickResult, ClickDelete, RowButtons
<1>2. (resultId # NoId => ResultSound(resultId, resultDraft))
  BY DEF ConsoleInv
<1>3. CASE ClickNew
  <2>1. /\ newForm' = TRUE /\ editingId' = NoId /\ resultId' = NoId /\ draft' = BlankDraft
        /\ UNCHANGED <<matchesTable, matchesQ, consoleUp, deleteConfirmId, resultDraft, work, sentWork>>
    BY <1>3 DEF ClickNew
  <2>2. OneDialog'
    BY <1>0, <1>1, <2>1 DEF OneDialog
  <2> QED
    BY <1>0, <2>1, <2>2, DialogsSound, DraftsTyped
<1>4. ASSUME NEW m \in Ids, ClickEdit(m) PROVE ConsoleInv'
  <2>1. /\ m \in ListedIds /\ ~AnyPending
        /\ newForm' = FALSE /\ editingId' = m /\ resultId' = NoId
        /\ draft' = DraftOf(matchesQ.data[m])
        /\ UNCHANGED <<matchesTable, matchesQ, consoleUp, deleteConfirmId, resultDraft, work, sentWork>>
    BY <1>4 DEF ClickEdit, RowButtons
  <2>2. draft' \in Draft
    BY <1>0, <2>1, ListedTyped, DraftsTyped
  <2>3. OneDialog'
    BY <1>0, <1>1, <2>1 DEF OneDialog
  <2> QED
    BY <1>0, <2>1, <2>2, <2>3, DialogsSound
<1>5. ASSUME NEW m \in Ids, ClickResult(m) PROVE ConsoleInv'
  <2>1. /\ m \in ListedIds /\ ~AnyPending
        /\ newForm' = FALSE /\ editingId' = NoId /\ resultId' = m
        /\ resultDraft' = ResultOf(matchesQ.data[m])
        /\ UNCHANGED <<matchesTable, matchesQ, consoleUp, deleteConfirmId, draft, work, sentWork>>
    BY <1>5 DEF ClickResult, RowButtons
  <2>2. matchesQ.data[m] \in Row /\ ListSound(matchesQ.data) /\ m \in DOMAIN matchesQ.data
    BY <1>0, <2>1, ListedTyped DEF ListsSound
  <2>3. resultDraft' \in ResultDraft
    BY <2>1, <2>2, DraftsTyped
  <2>4. ResultSound(m, resultDraft')
    BY <2>1, <2>2 DEF ListSound, ResultSound, ResultOf, ShootoutFits
  <2>5. (resultId # NoId => ResultSound(resultId, resultDraft))'
    BY <2>1, <2>4 DEF matchesTable, ResultSound, Untouched
  <2>6. OneDialog'
    BY <1>0, <1>1, <2>1 DEF OneDialog
  <2> QED
    BY <1>0, <2>1, <2>3, <2>5, <2>6, DialogsSound
<1>6. ASSUME NEW m \in Ids, ClickDelete(m) PROVE ConsoleInv'
  <2>1. /\ m \in ListedIds /\ deleteConfirmId' = m
        /\ UNCHANGED <<matchesTable, matchesQ, consoleUp, newForm, editingId, resultId, draft,
                       resultDraft, work, sentWork>>
    BY <1>6 DEF ClickDelete, RowButtons
  <2>2. OneDialog'
    BY <1>0, <1>1, <2>1 DEF OneDialog
  <2>3. (resultId # NoId => ResultSound(resultId, resultDraft))'
    BY <1>2, <2>1 DEF matchesTable, ResultSound, Untouched
  <2> QED
    BY <1>0, <2>1, <2>2, <2>3, DialogsSound
<1> QED
  BY <1>3, <1>4, <1>5, <1>6

LEMMA FillingSound ==
  ASSUME ConsoleInv,
         CancelDialog \/ (\E d \in Drafts : FillMatchForm(d)) \/ \E r \in ResultDraft : FillResult(r)
  PROVE  ConsoleInv'
<1>0. /\ ConsoleTyped /\ ListsSound /\ OneDialog /\ UNCHANGED <<matchesTable, ListedIds>>
      /\ consoleUp \in BOOLEAN /\ newForm \in BOOLEAN /\ draft \in Draft
      /\ resultDraft \in ResultDraft /\ NoId \notin ListedIds
      /\ (resultId # NoId => ResultSound(resultId, resultDraft))
  BY ListedTyped DEF ConsoleInv, ConsoleTyped, ListedIds, CancelDialog, FillMatchForm, FillResult
<1>1. CASE CancelDialog
  <2>1. /\ newForm' \in {newForm, FALSE} /\ editingId' \in {editingId, NoId}
        /\ resultId' \in {resultId, NoId} /\ deleteConfirmId' \in {deleteConfirmId, NoId}
        /\ draft' = BlankDraft /\ resultDraft' = BlankResult
        /\ UNCHANGED <<matchesTable, matchesQ, consoleUp, work, sentWork>>
    BY <1>1 DEF CancelDialog
  <2>2. OneDialog'
    <3>1. newForm' => newForm
      BY <2>1
    <3>2. /\ editingId' \in ListedIds' => editingId' = editingId /\ editingId \in ListedIds
          /\ resultId' \in ListedIds' => resultId' = resultId /\ resultId \in ListedIds
          /\ deleteConfirmId' \in ListedIds' =>
               deleteConfirmId' = deleteConfirmId /\ deleteConfirmId \in ListedIds
      BY <1>0, <2>1
    <3> QED
      BY <1>0, <3>1, <3>2 DEF OneDialog
  <2>3. ResultSound(resultId, resultDraft)'
    BY <2>1 DEF BlankResult, ResultSound
  <2> QED
    BY <1>0, <2>1, <2>2, <2>3, DialogsSound, DraftsTyped
<1>2. ASSUME NEW d \in Drafts, FillMatchForm(d) PROVE ConsoleInv'
  <2>1. /\ draft' = d /\ d \in Draft
        /\ UNCHANGED <<matchesTable, matchesQ, consoleUp, newForm, editingId, resultId,
                       deleteConfirmId, resultDraft, work, sentWork>>
    BY <1>2, MatchConsoleAssumption DEF FillMatchForm
  <2>2. OneDialog'
    BY <1>0, <2>1 DEF OneDialog
  <2>3. (resultId # NoId => ResultSound(resultId, resultDraft))'
    BY <1>0, <2>1 DEF matchesTable, ResultSound, Untouched
  <2> QED
    BY <1>0, <2>1, <2>2, <2>3, DialogsSound
<1>3. ASSUME NEW r \in ResultDraft, FillResult(r) PROVE ConsoleInv'
  <2> DEFINE f == matchesQ.data[resultId].fixture
  <2>1. /\ resultDraft' = r /\ Up("result", "result")
        /\ r.pens # resultDraft.pens => f.ko
        /\ r.pens => \/ r.winner = resultDraft.winner
                     \/ f.ko /\ r.winner \in SidesOf(f) \union {NoSide}
        /\ ~r.pens => r.winner = NoSide
        /\ UNCHANGED <<matchesTable, matchesQ, consoleUp, newForm, editingId, resultId,
                       deleteConfirmId, draft, work, sentWork>>
    BY <1>3 DEF FillResult
  <2>2. resultId \in ListedIds /\ resultId # NoId
    BY <1>0, <2>1, UpMeans DEF Kinds
  <2>3. Untouched(resultId) => f = fixture[resultId]
    BY <1>0, <2>2, ListedTyped DEF ListsSound, ListSound
  <2>4. ResultSound(resultId, r)
    <3>1. SUFFICES ASSUME Untouched(resultId)
                   PROVE  (r.pens => fixture[resultId].ko)
                          /\ r.winner \in SidesOf(fixture[resultId]) \union {NoSide}
      BY DEF ResultSound
    <3>2. /\ resultDraft.pens => fixture[resultId].ko
          /\ resultDraft.winner \in SidesOf(fixture[resultId]) \union {NoSide}
      BY <1>0, <2>2, <3>1 DEF ResultSound
    <3>3. r.pens \in BOOLEAN /\ resultDraft.pens \in BOOLEAN
      BY <1>0 DEF ResultDraft
    <3>4. r.pens => fixture[resultId].ko
      BY <2>1, <2>3, <3>1, <3>2, <3>3
    <3> QED
      BY <2>1, <2>3, <3>1, <3>2, <3>4
  <2>5. (resultId # NoId => ResultSound(resultId, resultDraft))'
    BY <2>1, <2>4 DEF matchesTable, ResultSound, Untouched
  <2>6. OneDialog'
    BY <1>0, <2>1 DEF OneDialog
  <2> QED
    BY <1>0, <2>1, <2>5, <2>6, DialogsSound
<1> QED
  BY <1>1, <1>2, <1>3

\* The requests change; the dialogs stay, or the deletion's closes.
LEMMA WorkChanges ==
  ASSUME ConsoleInv, Ages, ShootoutSound', WorkSound', sentWork' \in Nat,
         fixture' \in [Ids -> Fixture \union {Unborn, Gone}],
         shootout' \in [Ids -> Sides \union {NoSide}], edited' \subseteq Ids,
         ahead' \subseteq Ids, work' \in [Kinds -> Work \union {NoWork}],
         UNCHANGED <<elsewhere, matchesQ, consoleUp, newForm, editingId, resultId, draft, resultDraft>>,
         deleteConfirmId' \in {deleteConfirmId, NoId}
  PROVE  ConsoleInv'
<1>0. ConsoleTyped /\ UNCHANGED ListedIds /\ NoId \notin ListedIds /\ NoId \notin Ids
  BY ListedTyped, MatchConsoleAssumption DEF ConsoleInv, ListedIds
<1>1. ConsoleTyped'
  BY <1>0 DEF ConsoleTyped
<1>2. CASE deleteConfirmId' = deleteConfirmId
  <2>1. /\ ListsSound' /\ DialogsListed' /\ OneDialog'
        /\ (resultId # NoId => ResultSound(resultId, resultDraft))'
    BY <1>2, PageAges DEF dialogs
  <2> QED
    BY <1>1, <2>1 DEF ConsoleInv
<1>3. CASE deleteConfirmId' = NoId
  <2>1. ListsSound'
    <3>1. matchesQ.data \in Lists \union {NoData} /\ matchesQ.answer \in Lists \union {NoData}
      BY <1>0 DEF ConsoleTyped, Query
    <3>2. matchesQ.data # NoData => ListSound(matchesQ.data)'
      BY <3>1, ListAges DEF ConsoleInv, ListsSound
    <3>3. matchesQ.flight = "served" => ListSound(matchesQ.answer)'
      BY <3>1, ListAges DEF ConsoleInv, ListsSound
    <3>4. matchesQ.flight = "served" =>
            \A m \in ListedIds : m \in DOMAIN matchesQ.answer \/ fixture'[m] = Gone
      BY <1>0, ListedTyped DEF ConsoleInv, ListsSound, Ages
    <3> QED
      BY <1>0, <3>2, <3>3, <3>4 DEF ConsoleInv, ListsSound
  <2>2. DialogsListed'
    BY <1>0, <1>3 DEF ConsoleInv, ConsoleTyped, DialogsListed, DialogListed, Ages
  <2>3. OneDialog'
    BY <1>0, <1>3 DEF ConsoleInv, OneDialog
  <2>4. (resultId # NoId => ResultSound(resultId, resultDraft))'
    <3>1. SUFFICES ASSUME resultId # NoId, resultId \notin edited', fixture'[resultId] # Gone
                   PROVE  ResultSound(resultId, resultDraft)'
      BY DEF ResultSound, Untouched
    <3>2. resultId \in Ids /\ resultId \in ListedIds
      BY <1>0, <3>1 DEF ConsoleInv, ConsoleTyped, DialogsListed, DialogListed, Ages
    <3>3. fixture[resultId] # Unborn
      BY <1>0, <3>2, ListedTyped DEF ConsoleInv, ListsSound, ListSound
    <3> QED
      BY <3>1, <3>2, <3>3 DEF ConsoleInv, Ages, ResultSound, Untouched
  <2> QED
    BY <1>1, <2>1, <2>2, <2>3, <2>4 DEF ConsoleInv
<1> QED
  BY <1>2, <1>3

\* A request is sent.
LEMMA SubmitSound ==
  ASSUME ConsoleInv, Submit
  PROVE  ConsoleInv'
<1>0. /\ ConsoleTyped /\ WorkSound /\ UNCHANGED matchesTable
      /\ UNCHANGED <<matchesQ, consoleUp, newForm, editingId, resultId, draft, resultDraft>>
      /\ draft \in Draft /\ resultDraft \in ResultDraft /\ sentWork \in Nat
      /\ work \in [Kinds -> Work \union {NoWork}] /\ ListedIds \subseteq Ids
      /\ Kinds = {"create", "update", "result", "delete"}
  BY ListedTyped DEF ConsoleInv, ConsoleTyped, Submit, Kinds
<1>1. Ages /\ ShootoutSound'
  BY <1>0, TableRests, ShootoutsAge DEF matchesTable
<1>2. ASSUME sentWork' \in Nat, work' \in [Kinds -> Work \union {NoWork}], WorkSound',
             deleteConfirmId' \in {deleteConfirmId, NoId}
      PROVE  ConsoleInv'
  BY <1>0, <1>1, <1>2, WorkChanges DEF matchesTable, ConsoleTyped
<1>3. ASSUME NEW k \in Kinds, NEW id \in Ids \union {New},
             NEW body \in Draft \union ResultDraft \union {NoSide}, Sending(k, id, body)
      PROVE  /\ sentWork' \in Nat /\ work' \in [Kinds -> Work \union {NoWork}]
             /\ work'[k].id = id /\ work'[k].body = body /\ work'[k].at = "sent"
             /\ \A j \in Kinds : j # k => work'[j] = work[j]
  <2> DEFINE w == [id |-> id, body |-> body, at |-> "sent"]
  <2>1. w \in Work /\ w.id = id /\ w.body = body /\ w.at = "sent"
    BY DEF Work
  <2>2. work' = [work EXCEPT ![k] = w] /\ sentWork' = sentWork + 1
    BY <1>3 DEF Sending
  <2> HIDE DEF w
  <2> QED
    BY <1>0, <2>1, <2>2
<1>4. CASE Up("new", "create") /\ MatchFormTakes(draft) /\ Sending("create", New, draft)
           /\ UNCHANGED deleteConfirmId
  <2>1. /\ sentWork' \in Nat /\ work' \in [Kinds -> Work \union {NoWork}]
        /\ work'["create"].body = draft /\ \A j \in Kinds : j # "create" => work'[j] = work[j]
    BY <1>0, <1>3, <1>4
  <2>2. draft \in GoodDraft
    BY <1>0, <1>4 DEF GoodDraft
  <2>3. work'["update"] = work["update"] /\ work'["result"] = work["result"]
        /\ work'["delete"] = work["delete"]
    BY <1>0, <2>1
  <2>4. WorkSound'
    BY <1>0, <2>1, <2>2, <2>3 DEF WorkSound, matchesTable, ResultSound, Untouched
  <2> QED
    BY <1>2, <1>4, <2>1, <2>4
<1>5. CASE Up("edit", "update") /\ MatchFormTakes(draft) /\ Sending("update", editingId, draft)
           /\ UNCHANGED deleteConfirmId
  <2>1. editingId \in ListedIds /\ editingId \in Ids
    BY <1>0, <1>5, UpMeans
  <2>2. /\ sentWork' \in Nat /\ work' \in [Kinds -> Work \union {NoWork}]
        /\ work'["update"].body = draft /\ work'["update"].id = editingId
        /\ \A j \in Kinds : j # "update" => work'[j] = work[j]
    BY <1>0, <1>3, <1>5, <2>1
  <2>3. draft \in GoodDraft /\ fixture[editingId] # Unborn
    BY <1>0, <1>5, <2>1, ListedTyped DEF GoodDraft, ConsoleInv, ListsSound, ListSound
  <2>4. work'["create"] = work["create"] /\ work'["result"] = work["result"]
        /\ work'["delete"] = work["delete"]
    BY <1>0, <2>2
  <2>5. WorkSound'
    BY <1>0, <2>1, <2>2, <2>3, <2>4 DEF WorkSound, matchesTable, ResultSound, Untouched
  <2> QED
    BY <1>2, <1>5, <2>2, <2>5
<1>6. CASE Up("result", "result") /\ ResultFormTakes(resultId, resultDraft)
           /\ Sending("result", resultId, resultDraft) /\ UNCHANGED deleteConfirmId
  <2>1. resultId \in ListedIds /\ resultId \in Ids /\ resultId # NoId
    BY <1>0, <1>6, UpMeans, MatchConsoleAssumption
  <2>2. /\ sentWork' \in Nat /\ work' \in [Kinds -> Work \union {NoWork}]
        /\ work'["result"].body = resultDraft /\ work'["result"].id = resultId
        /\ work'["result"].at = "sent"
        /\ \A j \in Kinds : j # "result" => work'[j] = work[j]
    BY <1>0, <1>3, <1>6, <2>1
  <2>3. fixture[resultId] # Unborn
    BY <2>1, ListedTyped DEF ConsoleInv, ListsSound, ListSound
  <2>4. work'["create"] = work["create"] /\ work'["update"] = work["update"]
        /\ work'["delete"] = work["delete"]
    BY <1>0, <2>2
  <2>5. resultDraft.pens => ResultSound(resultId, resultDraft) /\ resultDraft.winner # NoSide
    BY <1>6, <2>1 DEF ConsoleInv, ResultFormTakes
  <2>6. WorkSound'
    BY <1>0, <2>1, <2>2, <2>3, <2>4, <2>5 DEF WorkSound, matchesTable, ResultSound, Untouched
  <2> QED
    BY <1>2, <1>6, <2>2, <2>6
<1>7. CASE Up("delete", "delete") /\ Sending("delete", deleteConfirmId, NoSide)
           /\ deleteConfirmId' = NoId
  <2>1. deleteConfirmId \in ListedIds /\ deleteConfirmId \in Ids
    BY <1>0, <1>7, UpMeans
  <2>2. /\ sentWork' \in Nat /\ work' \in [Kinds -> Work \union {NoWork}]
        /\ work'["delete"].id = deleteConfirmId
        /\ \A j \in Kinds : j # "delete" => work'[j] = work[j]
    BY <1>0, <1>3, <1>7, <2>1
  <2>3. fixture[deleteConfirmId] # Unborn
    BY <2>1, ListedTyped DEF ConsoleInv, ListsSound, ListSound
  <2>4. work'["create"] = work["create"] /\ work'["update"] = work["update"]
        /\ work'["result"] = work["result"]
    BY <1>0, <2>2
  <2>5. WorkSound'
    BY <1>0, <2>1, <2>2, <2>3, <2>4 DEF WorkSound, matchesTable, ResultSound, Untouched
  <2> QED
    BY <1>2, <1>7, <2>2, <2>5
<1> QED
  BY <1>4, <1>5, <1>6, <1>7 DEF Submit

\* A request is answered by the server.
LEMMA WorkSettled ==
  ASSUME ConsoleInv, Ages, NEW k \in Kinds, work[k] # NoWork, NEW x \in {"done", "refused"},
         Settled(k, x), UNCHANGED <<editingId, resultId>>
  PROVE  work' \in [Kinds -> Work \union {NoWork}] /\ WorkSound'
<1>0. /\ WorkSound /\ work[k] \in Work /\ work \in [Kinds -> Work \union {NoWork}]
      /\ Kinds = {"create", "update", "result", "delete"}
  BY DEF ConsoleInv, ConsoleTyped, Kinds
<1> DEFINE w == [work[k] EXCEPT !.at = x]
<1>1. w \in Work /\ w.id = work[k].id /\ w.body = work[k].body /\ w.at = x
  BY <1>0 DEF Work
<1>2. work' = [work EXCEPT ![k] = w]
  BY <1>0 DEF Settled
<1> HIDE DEF w
<1>3. /\ work' \in [Kinds -> Work \union {NoWork}]
      /\ \A j \in Kinds : /\ work'[j] # NoWork => work[j] # NoWork
                          /\ work'[j].id = work[j].id /\ work'[j].body = work[j].body
                          /\ work'[j].at = (IF j = k THEN x ELSE work[j].at)
  BY <1>0, <1>1, <1>2
<1>4. \A j \in {"update", "result", "delete"} : work'[j] # NoWork =>
        work'[j].id \in Ids /\ fixture'[work'[j].id] # Unborn
  BY <1>0, <1>3 DEF WorkSound, Ages
<1>5. work'["result"] # NoWork =>
        /\ work["result"] # NoWork /\ work["result"].id \in Ids
        /\ fixture[work["result"].id] # Unborn /\ work'["result"].id = work["result"].id
        /\ work'["result"].body = work["result"].body
  BY <1>0, <1>3 DEF WorkSound
<1>6. ASSUME NEW m \in Ids, NEW b, fixture[m] # Unborn
      PROVE  ResultSound(m, b) => ResultSound(m, b)'
  BY <1>6 DEF Ages, ResultSound, Untouched
<1>7. work'["result"] # NoWork /\ work'["result"].body.pens =>
        /\ ResultSound(work["result"].id, work["result"].body)
        /\ work["result"].body.winner # NoSide
  BY <1>0, <1>5 DEF WorkSound
<1>8. work'["result"] # NoWork /\ work'["result"].body.pens =>
        /\ ResultSound(work["result"].id, work["result"].body)'
        /\ work'["result"].body.winner # NoSide
  BY <1>5, <1>6, <1>7
<1>10. work'["update"] # NoWork => /\ work'["update"].body \in GoodDraft
                                  /\ editingId' \in {work'["update"].id, NoId}
  BY <1>0, <1>3 DEF WorkSound
<1>11. work'["create"] # NoWork => work'["create"].body \in GoodDraft
  BY <1>0, <1>3 DEF WorkSound
<1>12. work'["result"] # NoWork =>
         work'["result"].body \in ResultDraft /\ resultId' \in {work'["result"].id, NoId}
  BY <1>0, <1>3 DEF WorkSound
<1> QED
  BY <1>3, <1>4, <1>8, <1>10, <1>11, <1>12 DEF WorkSound

\* The server runs a handler.
LEMMA ServeWorkSound ==
  ASSUME ConsoleInv, NEW k \in Kinds, ServeWork(k)
  PROVE  ConsoleInv'
<1>0. /\ ConsoleTyped /\ WorkSound /\ ShootoutSound
      /\ fixture \in [Ids -> Fixture \union {Unborn, Gone}]
      /\ shootout \in [Ids -> Sides \union {NoSide}] /\ edited \subseteq Ids
      /\ ahead \subseteq Ids /\ work[k] # NoWork /\ sentWork \in Nat
      /\ UNCHANGED <<elsewhere, matchesQ, consoleUp, newForm, editingId, resultId,
                     deleteConfirmId, draft, resultDraft, sentWork>>
      /\ Kinds = {"create", "update", "result", "delete"}
      /\ Unborn # Gone /\ Unborn \notin Fixture /\ Gone \notin Fixture
  BY MatchConsoleAssumption DEF ConsoleInv, ConsoleTyped, ServeWork, dialogs, Kinds
<1>1. k # "create" => work[k].id \in Ids /\ fixture[work[k].id] # Unborn
  BY <1>0 DEF WorkSound
\* What a handler leaves: the matches older, the shootouts sound, the request settled.
<1>2. ASSUME Ages, ShootoutSound', fixture' \in [Ids -> Fixture \union {Unborn, Gone}],
             shootout' \in [Ids -> Sides \union {NoSide}], edited' \subseteq Ids,
             ahead' \subseteq Ids, NEW x \in {"done", "refused"}, Settled(k, x)
      PROVE  ConsoleInv'
  <2>1. work' \in [Kinds -> Work \union {NoWork}] /\ WorkSound'
    BY <1>0, <1>2, WorkSettled
  <2> QED
    BY <1>0, <1>2, <2>1, WorkChanges
<1>3. ASSUME UNCHANGED <<fixture, shootout, edited>> PROVE Ages /\ ShootoutSound'
  BY <1>0, <1>3 DEF Ages, ShootoutSound, Untouched, ShootoutFits
<1>4. CASE k = "create"
  <2>1. PICK m \in Ids : /\ fixture[m] = Unborn
                         /\ fixture' = [fixture EXCEPT ![m] = FixtureOf(work[k].body)]
                         /\ ahead' \in {ahead \union {m}, ahead \ {m}}
    BY <1>4 DEF ServeWork, Scheduled
  <2>2. Settled(k, "done") /\ UNCHANGED <<shootout, edited>>
    BY <1>4 DEF ServeWork
  <2>3. FixtureOf(work[k].body) \in Fixture
    BY <1>0, <1>4, DraftsTyped DEF WorkSound
  <2>4. Ages /\ fixture' \in [Ids -> Fixture \union {Unborn, Gone}] /\ ahead' \subseteq Ids
    BY <1>0, <2>1, <2>2, <2>3 DEF Ages
  <2>5. ShootoutSound'
    BY <2>2, <2>4, ShootoutsAge
  <2> QED
    BY <1>0, <1>2, <1>4, <2>2, <2>4, <2>5
<1>5. CASE k # "create" /\ fixture[work[k].id] = Gone
  <2>1. Settled(k, "refused") /\ UNCHANGED <<fixture, shootout, ahead, edited>>
    BY <1>5 DEF ServeWork
  <2> QED
    BY <1>0, <1>2, <1>3, <2>1
<1>6. CASE k = "update" /\ fixture[work[k].id] # Gone
  <2> DEFINE m == work[k].id
             f == FixtureOf(work[k].body)
  <2>1. EditedTo(m, f) /\ Settled(k, "done") /\ UNCHANGED shootout
    BY <1>6 DEF ServeWork
  <2>2. f \in Fixture /\ m \in Ids
    BY <1>0, <1>1, <1>6, DraftsTyped DEF WorkSound
  <2> HIDE DEF m, f
  <2>3. fixture' = [fixture EXCEPT ![m] = f] /\ edited' = edited \union {m}
        /\ ahead' \in {ahead \union {m}, ahead \ {m}}
    BY <2>1 DEF EditedTo, Scheduled
  <2>4. /\ Ages /\ fixture' \in [Ids -> Fixture \union {Unborn, Gone}] /\ edited' \subseteq Ids
        /\ ahead' \subseteq Ids
    BY <1>0, <1>6, <2>2, <2>3 DEF Ages, m
  <2>5. ShootoutSound'
    BY <2>1, <2>4, ShootoutsAge
  <2> QED
    BY <1>0, <1>2, <1>6, <2>1, <2>4, <2>5
<1>7. CASE k = "result" /\ fixture[work[k].id] # Gone
  <2> DEFINE m == work[k].id
             r == work[k].body
             s == IF r.pens THEN r.winner ELSE NoSide
  <2>1. /\ m \in Ids /\ fixture[m] # Unborn /\ r \in ResultDraft
        /\ r.pens => ResultSound(m, r) /\ r.winner # NoSide
        /\ r.pens \in BOOLEAN /\ r.winner \in Sides \union {NoSide}
    BY <1>0, <1>1, <1>7 DEF WorkSound, ResultDraft
  <2>2. CASE ServerTakesResult(m, r)
    <3>1. /\ shootout' = [shootout EXCEPT ![m] = s]
          /\ Settled(k, "done") /\ UNCHANGED <<fixture, ahead, edited>>
      BY <1>7, <2>2 DEF ServeWork
    <3>2. s \in Sides \union {NoSide} /\ (s # NoSide => ShootoutFits(m, s))
      BY <2>1, <2>2 DEF ServerTakesResult, ShootoutFits
    <3> HIDE DEF m, r, s
    <3>3. shootout' \in [Ids -> Sides \union {NoSide}] /\ shootout'[m] = s
          /\ \A j \in Ids : j # m => shootout'[j] = shootout[j]
      BY <1>0, <2>1, <3>1, <3>2
    <3>4. \A j \in Ids : shootout'[j] # NoSide =>
            fixture[j] # Unborn /\ (Untouched(j) => ShootoutFits(j, shootout'[j]))
      BY <1>0, <2>1, <3>2, <3>3 DEF ShootoutSound
    <3>5. ShootoutSound' /\ Ages
      BY <3>1, <3>4 DEF ShootoutSound, Untouched, ShootoutFits, Ages
    <3> QED
      BY <1>0, <1>2, <3>1, <3>3, <3>5
  <2>3. CASE ~ServerTakesResult(m, r)
    <3>1. Settled(k, "refused") /\ UNCHANGED <<fixture, shootout, ahead, edited>>
      BY <1>7, <2>3 DEF ServeWork
    <3> QED
      BY <1>0, <1>2, <1>3, <3>1
  <2> QED
    BY <2>2, <2>3
<1>8. CASE k = "delete" /\ fixture[work[k].id] # Gone
  <2> DEFINE m == work[k].id
  <2>1. /\ fixture' = [fixture EXCEPT ![m] = Gone] /\ ahead' = ahead \ {m} /\ m \in Ids
        /\ Settled(k, "done") /\ UNCHANGED <<shootout, edited>>
    BY <1>1, <1>8 DEF ServeWork, Deleted
  <2> HIDE DEF m
  <2>2. Ages /\ fixture' \in [Ids -> Fixture \union {Unborn, Gone}]
    BY <1>0, <2>1 DEF Ages
  <2>3. ShootoutSound'
    BY <2>1, <2>2, ShootoutsAge
  <2> QED
    BY <1>0, <1>2, <1>8, <2>1, <2>2, <2>3
<1> QED
  BY <1>0, <1>4, <1>5, <1>6, <1>7, <1>8

\* An answer arrives at the page.
LEMMA HearingSound ==
  ASSUME ConsoleInv, NEW k \in Kinds, HearDone(k) \/ HearRefused(k)
  PROVE  ConsoleInv'
<1>0. /\ ConsoleTyped /\ WorkSound /\ ListsSound /\ DialogsListed /\ OneDialog
      /\ work \in [Kinds -> Work \union {NoWork}] /\ matchesQ \in Query(Lists)
      /\ work' = [work EXCEPT ![k] = NoWork] /\ UNCHANGED <<matchesTable, consoleUp, deleteConfirmId, sentWork>>
      /\ Kinds = {"create", "update", "result", "delete"} /\ NoId \notin ListedIds
  BY ListedTyped DEF ConsoleInv, ConsoleTyped, HearDone, HearRefused, dialogs, Kinds
<1>1. /\ work' \in [Kinds -> Work \union {NoWork}]
      /\ \A j \in Kinds : work'[j] # NoWork => work'[j] = work[j]
  BY <1>0
<1>2. /\ newForm' \in BOOLEAN /\ (newForm' => newForm)
      /\ editingId' \in {editingId, NoId} /\ resultId' \in {resultId, NoId}
      /\ draft' \in {draft, BlankDraft}
      /\ resultDraft' \in {resultDraft, BlankResult} /\ (resultId' # NoId => resultDraft' = resultDraft)
      /\ matchesQ' \in {matchesQ, Refetch(matchesQ)}
  <2>1. CASE HearDone(k)
    BY <1>0, <2>1 DEF HearDone, ConsoleTyped
  <2>2. CASE HearRefused(k)
    BY <1>0, <2>2 DEF HearRefused, dialogs, ConsoleTyped
  <2> QED
    BY <2>1, <2>2
<1>3. /\ matchesQ' \in Query(Lists) /\ matchesQ'.data = matchesQ.data
      /\ matchesQ'.flight = "served" => matchesQ' = matchesQ
  BY <1>0, <1>2, QueryRefetched
<1>4. UNCHANGED ListedIds
  BY <1>3 DEF ListedIds
<1>5. ConsoleTyped'
  BY <1>0, <1>1, <1>2, <1>3, DraftsTyped DEF ConsoleTyped, matchesTable
<1>6. ListsSound'
  BY <1>0, <1>3, <1>4 DEF ListsSound, ListSound, matchesTable, Untouched, ShootoutFits
<1>7. DialogsListed'
  BY <1>0, <1>2, <1>3, <1>4 DEF DialogsListed, DialogListed, matchesTable
<1>8. OneDialog'
  <2>1. /\ editingId' \in ListedIds' => editingId \in ListedIds
        /\ resultId' \in ListedIds' => resultId \in ListedIds
        /\ deleteConfirmId' \in ListedIds' => deleteConfirmId \in ListedIds
    BY <1>0, <1>2, <1>4
  <2> QED
    BY <1>0, <1>2, <2>1 DEF OneDialog
<1>9. (resultId # NoId => ResultSound(resultId, resultDraft))'
  BY <1>0, <1>2 DEF ConsoleInv, matchesTable, ResultSound, Untouched
<1>10. ShootoutSound'
  BY <1>0, TableRests, ShootoutsAge DEF matchesTable
<1>11. WorkSound'
  <2>1. \A j \in {"update", "result", "delete"} : work'[j] # NoWork =>
          work'[j].id \in Ids /\ fixture'[work'[j].id] # Unborn
    BY <1>0, <1>1 DEF WorkSound, matchesTable
  <2>2. /\ work'["create"] # NoWork => work'["create"] = work["create"]
        /\ work'["update"] # NoWork => work'["update"] = work["update"]
        /\ work'["result"] # NoWork => work'["result"] = work["result"]
    BY <1>0, <1>1
  <2> QED
    BY <1>0, <1>2, <2>1, <2>2 DEF WorkSound, matchesTable, ResultSound, Untouched
<1> QED
  BY <1>5, <1>6, <1>7, <1>8, <1>9, <1>10, <1>11 DEF ConsoleInv

LEMMA ConsoleStart == ConsoleInit => ConsoleInv
<1> SUFFICES ASSUME ConsoleInit PROVE ConsoleInv
  OBVIOUS
<1>1. matchesQ \in Query(Lists) /\ matchesQ.data = NoData /\ matchesQ.flight = "idle"
  BY QueryStarts DEF ConsoleInit
<1>2. work \in [Kinds -> Work \union {NoWork}] /\ \A k \in Kinds : work[k] = NoWork
  BY DEF ConsoleInit
<1>3. /\ fixture \in [Ids -> Fixture \union {Unborn, Gone}]
      /\ shootout \in [Ids -> Sides \union {NoSide}] /\ \A m \in Ids : shootout[m] = NoSide
      /\ ahead \subseteq Ids /\ edited \subseteq Ids /\ elsewhere \in 0 .. MaxElsewhere
      /\ sentWork \in Nat
  BY MatchConsoleAssumption DEF ConsoleInit
<1>4. /\ consoleUp = FALSE /\ newForm = FALSE /\ editingId = NoId /\ resultId = NoId
      /\ deleteConfirmId = NoId /\ draft = BlankDraft /\ resultDraft = BlankResult
  BY DEF ConsoleInit
<1>5. ConsoleTyped
  BY <1>1, <1>2, <1>3, <1>4, DraftsTyped DEF ConsoleTyped
<1>6. ListsSound /\ ShootoutSound /\ DialogsListed /\ OneDialog
  BY <1>1, <1>3, <1>4 DEF ListsSound, ShootoutSound, DialogsListed, DialogListed, OneDialog, ListedIds
<1>7. WorkSound
  BY <1>2 DEF WorkSound, Kinds
<1> QED
  BY <1>4, <1>5, <1>6, <1>7 DEF ConsoleInv

LEMMA ConsoleStep == ConsoleInv /\ [ConsoleNext]_consoleVars => ConsoleInv'
<1> SUFFICES ASSUME ConsoleInv, [ConsoleNext]_consoleVars PROVE ConsoleInv'
  OBVIOUS
<1>0. /\ ConsoleTyped /\ ListsSound /\ DialogsListed /\ matchesQ \in Query(Lists)
      /\ fixture \in [Ids -> Fixture \union {Unborn, Gone}]
      /\ Unborn # Gone /\ Gone \notin Fixture /\ Unborn \notin Fixture /\ MaxElsewhere \in Nat
  BY MatchConsoleAssumption DEF ConsoleInv, ConsoleTyped
\* Nothing but matches and queries changes.
<1>1. ASSUME Ages, fixture' \in [Ids -> Fixture \union {Unborn, Gone}], edited' \subseteq Ids,
             ahead' \subseteq Ids, elsewhere' \in 0 .. MaxElsewhere,
             UNCHANGED <<shootout, matchesQ, consoleUp, dialogs, work, sentWork>>
      PROVE  ConsoleInv'
  <2>1. /\ ListsSound' /\ DialogsListed' /\ OneDialog'
        /\ (resultId # NoId => ResultSound(resultId, resultDraft))'
    BY <1>1, PageAges
  <2>2. ShootoutSound' /\ WorkSound'
    BY <1>1, ShootoutsAge, WorkAges DEF dialogs
  <2>3. ConsoleTyped'
    BY <1>0, <1>1 DEF ConsoleTyped, dialogs
  <2> QED
    BY <2>1, <2>2, <2>3 DEF ConsoleInv
<1>2. CASE UNCHANGED consoleVars
  <2>1. Ages
    BY <1>2, TableRests DEF consoleVars
  <2> QED
    BY <1>0, <1>1, <1>2, <2>1 DEF consoleVars, matchesTable, ConsoleTyped
<1>3. ASSUME NEW m \in Ids, DeleteElsewhere(m) PROVE ConsoleInv'
  <2>1. /\ elsewhere < MaxElsewhere /\ elsewhere' = elsewhere + 1
        /\ fixture' = [fixture EXCEPT ![m] = Gone] /\ ahead' = ahead \ {m}
        /\ UNCHANGED <<shootout, edited, matchesQ, consoleUp, dialogs, work, sentWork>>
    BY <1>3 DEF DeleteElsewhere, Deleted
  <2>2. elsewhere' \in 0 .. MaxElsewhere
    BY <1>0, <2>1 DEF ConsoleTyped
  <2>3. Ages /\ fixture' \in [Ids -> Fixture \union {Unborn, Gone}]
    BY <1>0, <2>1 DEF Ages
  <2> QED
    BY <1>0, <1>1, <2>1, <2>2, <2>3 DEF ConsoleTyped
<1>4. ASSUME NEW m \in Ids, NEW f \in Rewrites, EditElsewhere(m, f) PROVE ConsoleInv'
  <2>1. /\ elsewhere < MaxElsewhere /\ elsewhere' = elsewhere + 1 /\ Exists(m)
        /\ fixture' = [fixture EXCEPT ![m] = f] /\ edited' = edited \union {m}
        /\ ahead' \in {ahead \union {m}, ahead \ {m}}
        /\ UNCHANGED <<shootout, matchesQ, consoleUp, dialogs, work, sentWork>>
    BY <1>4 DEF EditElsewhere, EditedTo, Scheduled
  <2>2. elsewhere' \in 0 .. MaxElsewhere /\ f \in Fixture
    BY <1>0, <2>1, MatchConsoleAssumption DEF ConsoleTyped
  <2>3. /\ Ages /\ fixture' \in [Ids -> Fixture \union {Unborn, Gone}] /\ edited' \subseteq Ids
        /\ ahead' \subseteq Ids
    BY <1>0, <2>1, <2>2 DEF Ages, Exists, ConsoleTyped
  <2> QED
    BY <1>1, <2>1, <2>2, <2>3
<1>12. ASSUME NEW m \in Ids, KickOff(m) PROVE ConsoleInv'
  <2>1. /\ ahead' = ahead \ {m} /\ UNCHANGED <<fixture, edited, elsewhere>>
        /\ UNCHANGED <<shootout, matchesQ, consoleUp, dialogs, work, sentWork>>
    BY <1>12 DEF KickOff
  <2> QED
    BY <1>0, <1>1, <2>1 DEF Ages, ConsoleTyped
<1>5. CASE OpenConsole \/ MatchesCome
  <2>1. /\ Fetch(matchesQ) \in Query(Lists) /\ Fetch(matchesQ).data = matchesQ.data
        /\ Fetch(matchesQ).flight = "served" =>
             matchesQ.flight = "served" /\ Fetch(matchesQ).answer = matchesQ.answer
        /\ Arrived(matchesQ) \in Query(Lists) /\ Arrived(matchesQ).data = matchesQ.answer
        /\ Arrived(matchesQ).flight = "idle"
        /\ Failed(matchesQ) \in Query(Lists) /\ Failed(matchesQ).data = matchesQ.data
        /\ Failed(matchesQ).flight = "idle"
    BY <1>0, QueryFetched, QueryArrived, QueryFailed
  <2>2. /\ UNCHANGED <<matchesTable, newForm, editingId, resultId, deleteConfirmId, work, sentWork>>
        /\ \/ Listing(Fetch(matchesQ)) \/ Listing(Failed(matchesQ))
           \/ matchesQ.flight = "served" /\ Listing(Arrived(matchesQ))
        /\ consoleUp' \in BOOLEAN
    BY <1>0, <1>5 DEF OpenConsole, MatchesCome, ConsoleTyped
  <2> QED
    BY <2>1, <2>2, ListingSound
<1>6. CASE CloseConsole
  <2>1. /\ consoleUp' = FALSE /\ newForm' = FALSE /\ editingId' = NoId /\ resultId' = NoId
        /\ deleteConfirmId' = NoId /\ draft' = BlankDraft /\ resultDraft' = BlankResult
        /\ work' = [j \in Kinds |-> NoWork] /\ UNCHANGED <<matchesTable, matchesQ, sentWork>>
    BY <1>6 DEF CloseConsole
  <2>2. work' \in [Kinds -> Work \union {NoWork}] /\ \A j \in Kinds : work'[j] = NoWork
    BY <2>1
  <2>3. ConsoleTyped'
    BY <1>0, <2>1, <2>2, DraftsTyped DEF ConsoleTyped, matchesTable
  <2>4. WorkSound'
    BY <2>2 DEF WorkSound, Kinds
  <2>5. ListsSound' /\ ShootoutSound'
    BY <1>0, <2>1 DEF ConsoleInv, ListsSound, ListSound, ShootoutSound, Untouched, ShootoutFits,
                      matchesTable, ListedIds
  <2>6. DialogsListed' /\ OneDialog'
    BY <1>0, <2>1, ListedTyped DEF DialogsListed, DialogListed, OneDialog, ListedIds
  <2> QED
    BY <2>1, <2>3, <2>4, <2>5, <2>6 DEF ConsoleInv
<1>7. CASE FocusConsole \/ ServeMatches
  <2>1. UNCHANGED <<matchesTable, consoleUp, dialogs, work, sentWork>>
    BY <1>7 DEF FocusConsole, ServeMatches
  <2>2. /\ matchesQ' \in Query(Lists) /\ matchesQ'.data = matchesQ.data
        /\ \/ matchesQ'.flight = "sent"
           \/ matchesQ'.flight = "served" /\ matchesQ'.answer = Rows
    BY <1>0, <1>7, RowsTyped, QueryFetched, QueryServed DEF FocusConsole, ServeMatches
  <2>3. UNCHANGED ListedIds
    BY <2>2 DEF ListedIds
  <2>4. Rows # NoData /\ ListSound(Rows)
    BY <1>0, RowsTyped, ListIsData DEF ConsoleInv, ListSound, Exists, ShootoutSound
  <2>5. \A m \in ListedIds : m \in DOMAIN Rows \/ fixture[m] = Gone
    BY <1>0, RowsTyped, ListedTyped DEF ListsSound, ListSound, Exists
  <2>6. ListsSound'
    BY <1>0, <2>1, <2>2, <2>3, <2>4, <2>5
       DEF ListsSound, ListSound, Untouched, ShootoutFits, matchesTable
  <2>7. \A m \in Ids : fixture[m] = Gone => m \notin DOMAIN Rows
    BY <1>0, RowsTyped DEF Exists
  <2>8. DialogsListed'
    BY <1>0, <2>1, <2>2, <2>3, <2>7 DEF DialogsListed, DialogListed, dialogs, matchesTable, ConsoleTyped
  <2>9. OneDialog'
    BY <2>1, <2>3 DEF ConsoleInv, OneDialog, dialogs
  <2>10. (resultId # NoId => ResultSound(resultId, resultDraft))'
    BY <2>1 DEF ConsoleInv, ResultSound, Untouched, dialogs, matchesTable
  <2>11. ShootoutSound' /\ WorkSound'
    BY <2>1, TableRests, ShootoutsAge, WorkAges DEF matchesTable, dialogs
  <2>12. ConsoleTyped'
    BY <1>0, <2>1, <2>2 DEF ConsoleTyped, matchesTable, dialogs
  <2> QED
    BY <2>6, <2>8, <2>9, <2>10, <2>11, <2>12 DEF ConsoleInv
<1>8. CASE \/ ClickNew \/ \E m \in Ids : ClickEdit(m) \/ ClickResult(m) \/ ClickDelete(m)
  BY <1>8, OpeningSound
<1>9. CASE CancelDialog \/ (\E d \in Drafts : FillMatchForm(d)) \/ \E r \in ResultDraft : FillResult(r)
  BY <1>9, FillingSound
<1>10. CASE Submit
  BY <1>10, SubmitSound
<1>11. ASSUME NEW k \in Kinds, ServeWork(k) \/ HearDone(k) \/ HearRefused(k) PROVE ConsoleInv'
  BY <1>11, ServeWorkSound, HearingSound
<1> QED
  BY <1>2, <1>3, <1>4, <1>5, <1>6, <1>7, <1>8, <1>9, <1>10, <1>11, <1>12 DEF ConsoleNext

LEMMA ConsoleHolds == ConsoleSpec => []ConsoleInv
BY ConsoleStart, ConsoleStep, PTL DEF ConsoleSpec

\* Every variable of the match console has its type.
THEOREM ConsoleTypeCorrect == ConsoleSpec => []ConsoleTypeOK
<1>1. ConsoleInv => ConsoleTypeOK
  <2> SUFFICES ASSUME ConsoleInv PROVE ConsoleTypeOK
    OBVIOUS
  <2>1. ConsoleTyped /\ matchesQ.data \in Lists \union {NoData}
        /\ matchesQ.flight \in Flights /\ matchesQ.failed \in BOOLEAN
    BY DEF ConsoleInv, ConsoleTyped, Query
  <2>2. matchesQ.data # NoData => matchesQ.data \in [ListedIds -> Row] /\ ListedIds \subseteq Ids
    BY <2>1, ListTyped DEF ListedIds
  <2> QED
    BY <2>1, <2>2 DEF ConsoleTyped, ConsoleTypeOK
<1> QED
  BY <1>1, ConsoleHolds, PTL

\* One dialog at a time, and an answer closes the form that asked for it, although
\* other admins edit and delete the matches the dialogs are about.
THEOREM ConsoleAnswersItsOwn == ConsoleSpec => []AnswersCloseTheirOwn
<1>1. ConsoleInv => AnswersCloseTheirOwn
  <2> SUFFICES ASSUME ConsoleInv PROVE AnswersCloseTheirOwn
    OBVIOUS
  <2>1. ConsoleTyped /\ OneDialog
    BY DEF ConsoleInv
  <2>2. \A a, b \in Dialogs : a = b
    BY <2>1, DialogsUp DEF OneDialog
  <2>3. Cardinality(Dialogs) <= 1
    <3>1. CASE Dialogs = {}
      BY <3>1, FS_EmptySet
    <3>2. CASE Dialogs # {}
      <4>1. PICK d : d \in Dialogs
        BY <3>2
      <4>2. Dialogs = {d}
        BY <2>2, <4>1
      <4> QED
        BY <4>2, FS_Singleton
    <3> QED
      BY <3>1, <3>2
  <2> QED
    BY <2>3 DEF ConsoleInv, WorkSound, AnswersCloseTheirOwn
<1> QED
  BY <1>1, ConsoleHolds, PTL

\* What happens to the request of a result in a step: it is answered by its handler,
\* it is sent, it is forgotten, or nothing.
LEMMA ResultAnswered ==
  ASSUME ConsoleInv, [ConsoleNext]_consoleVars, ResultRefused
  PROVE  ServeWork("result")
<1>0. /\ work \in [Kinds -> Work \union {NoWork}] /\ "result" \in Kinds
      /\ work["result"].at = "sent" /\ work'["result"] # NoWork /\ work'["result"].at = "refused"
      /\ work["result"] \in Work
  BY DEF ConsoleInv, ConsoleTyped, ResultRefused, Kinds
<1>1. ~UNCHANGED work /\ work'["result"] # work["result"]
  BY <1>0
<1>2. CASE \/ \E m \in Ids : KickOff(m) \/ DeleteElsewhere(m) \/ \E f \in Rewrites : EditElsewhere(m, f)
           \/ OpenConsole \/ FocusConsole \/ ServeMatches \/ MatchesCome
           \/ ClickNew \/ CancelDialog
           \/ \E m \in Ids : ClickEdit(m) \/ ClickResult(m) \/ ClickDelete(m)
           \/ \E d \in Drafts : FillMatchForm(d)
           \/ \E r \in ResultDraft : FillResult(r)
           \/ UNCHANGED consoleVars
  BY <1>1, <1>2 DEF KickOff, DeleteElsewhere, EditElsewhere, OpenConsole, FocusConsole, ServeMatches,
       MatchesCome, ClickNew, CancelDialog, ClickEdit, ClickResult, ClickDelete, FillMatchForm,
       FillResult, consoleVars
<1>3. CASE CloseConsole
  BY <1>0, <1>3 DEF CloseConsole
<1>4. CASE Submit
  <2>1. \E k \in Kinds : \E id, body : Sending(k, id, body)
    BY <1>4 DEF Submit, Kinds
  <2> QED
    BY <1>0, <2>1 DEF Sending
<1>5. ASSUME NEW k \in Kinds, HearDone(k) \/ HearRefused(k) PROVE FALSE
  <2>1. work' = [work EXCEPT ![k] = NoWork]
    BY <1>5 DEF HearDone, HearRefused
  <2> QED
    BY <1>0, <1>1, <2>1
<1>6. ASSUME NEW k \in Kinds, ServeWork(k), k # "result" PROVE FALSE
  <2>1. \E x \in {"done", "refused"} : Settled(k, x)
    BY <1>6 DEF ServeWork, Kinds
  <2> QED
    BY <1>0, <1>1, <1>6, <2>1 DEF Settled
<1> QED
  BY <1>2, <1>3, <1>4, <1>5, <1>6 DEF ConsoleNext

\* A result the form let through is refused only if the match was edited or deleted,
\* by whomever, or has not kicked off, which only the handler checks.
THEOREM ConsoleFormAgrees == ConsoleSpec => FormAgreesWithServer
<1> DEFINE id == work["result"].id
<1>1. ASSUME ConsoleInv, [ConsoleNext]_consoleVars, ResultRefused
      PROVE  id \in edited \/ fixture[id] = Gone \/ id \in ahead
  <2>1. ServeWork("result")
    BY <1>1, ResultAnswered
  <2>2. SUFFICES ASSUME fixture[id] # Gone PROVE id \in edited \/ id \in ahead
    OBVIOUS
  <2>3. /\ work \in [Kinds -> Work \union {NoWork}] /\ "result" \in Kinds
        /\ work["result"] \in Work /\ work["result"] # NoWork
        /\ work'["result"].at = "refused"
    BY <1>1 DEF ConsoleInv, ConsoleTyped, ResultRefused, Kinds
  <2>4. ~ServerTakesResult(id, work["result"].body)
    <3>1. SUFFICES ASSUME ServerTakesResult(id, work["result"].body) PROVE FALSE
      OBVIOUS
    <3>2. Settled("result", "done")
      BY <2>1, <2>2, <3>1 DEF ServeWork
    <3> QED
      BY <2>3, <3>2 DEF Settled, Work
  <2>5. work["result"].body \in ResultDraft
        /\ (work["result"].body.pens =>
              ResultSound(id, work["result"].body) /\ work["result"].body.winner # NoSide)
    BY <1>1, <2>3 DEF ConsoleInv, WorkSound
  <2> QED
    BY <2>2, <2>4, <2>5 DEF ServerTakesResult, ResultSound, Untouched
<1>2. ConsoleInv /\ [ConsoleNext]_consoleVars =>
        [ResultRefused => LET m == work["result"].id
                          IN m \in edited \/ fixture[m] = Gone \/ m \in ahead]_consoleVars
  BY <1>1
<1> QED
  BY <1>2, ConsoleHolds, PTL DEF ConsoleSpec, FormAgreesWithServer

-----------------------------------------------------------------------------
(* Accounts: roles.                                                             *)

\* Whoever is demoted out of more than one leaves somebody behind.
LEMMA EnoughLeavesOne ==
  ASSUME NEW S, IsFiniteSet(S), Enough(S), NEW t
  PROVE  S \ {t} # {}
<1>1. Cardinality(S) \in Nat
  BY FS_CardinalityType
<1>2. /\ IsFiniteSet(S \ {t})
      /\ Cardinality(S \ {t}) = IF t \in S THEN Cardinality(S) - 1 ELSE Cardinality(S)
  BY FS_RemoveElement
<1>3. Cardinality(S \ {t}) # 0
  BY <1>1, <1>2 DEF Enough
<1> QED
  BY <1>3, FS_EmptySet

-----------------------------------------------------------------------------
(* Type correctness. *)

LEMMA NoChangeType == NoChange \in Change
BY AccountsAssumption DEF NoChange, Change, Stages

LEMMA AccountsInitType == AccountsInit => AccountsTypeOK
<1> SUFFICES ASSUME AccountsInit PROVE AccountsTypeOK
  OBVIOUS
<1>1. admins \in SUBSET People /\ roleWrites \in Nat /\ asked \in Nat /\ crossed \in BOOLEAN
  BY AccountsAssumption DEF AccountsInit
<1>2. listed \in [People -> SUBSET People] /\ confirm \in [People -> People \union {NoOne}]
  BY DEF AccountsInit
<1>3. change \in [People -> Change]
  BY NoChangeType DEF AccountsInit
<1> QED
  BY <1>1, <1>2, <1>3 DEF AccountsTypeOK

LEMMA AccountsNextType == AccountsTypeOK /\ [AccountsNext]_accountsVars => AccountsTypeOK'
<1> SUFFICES ASSUME AccountsTypeOK, [AccountsNext]_accountsVars PROVE AccountsTypeOK'
  OBVIOUS
<1> USE DEF AccountsTypeOK
<1>1. CASE UNCHANGED accountsVars
  BY <1>1 DEF accountsVars
<1>2. ASSUME NEW p \in People PROVE LoadUsers(p) => AccountsTypeOK'
  BY DEF LoadUsers
<1>3. ASSUME NEW p \in People, NEW t \in People, NEW b \in BOOLEAN, Ask(p, t, b)
      PROVE  asked' \in Nat /\ change' \in [People -> Change]
  BY <1>3, AccountsAssumption DEF Ask, Change, Stages
<1>4. ASSUME NEW p \in People, ConfirmDemote(p) PROVE AccountsTypeOK'
  <2>1. confirm[p] \in People
    BY <1>4 DEF ConfirmDemote
  <2> QED
    BY <1>3, <1>4, <2>1 DEF ConfirmDemote
<1>5. ASSUME NEW p \in People PROVE CancelDemote(p) => AccountsTypeOK'
  BY DEF CancelDemote
<1>6. ASSUME NEW p \in People, NEW t \in People PROVE ClickPromote(p, t) => AccountsTypeOK'
  BY <1>3 DEF ClickPromote
<1>7. ASSUME NEW p \in People, NEW t \in People PROVE ClickDemote(p, t) => AccountsTypeOK'
  BY DEF ClickDemote
<1>8. ASSUME NEW p \in People, Admit(p) PROVE AccountsTypeOK'
  <2>1. PICK s \in Stages : change' = [change EXCEPT ![p].at = s]
    BY <1>8 DEF Admit, Move, Stages
  <2>2. change' \in [People -> Change]
    BY <2>1 DEF Change
  <2> QED
    BY <1>8, <2>2 DEF Admit
<1>9. ASSUME NEW p \in People, ReadRole(p) PROVE AccountsTypeOK'
  <2>1. PICK s \in Stages : change' = [change EXCEPT ![p].at = s, ![p].countedAt = roleWrites]
    BY <1>9 DEF ReadRole, Stages
  <2>2. change' \in [People -> Change]
    BY <2>1 DEF Change
  <2> QED
    BY <1>9, <2>2 DEF ReadRole
<1>10. ASSUME NEW p \in People, CountAdmins(p) PROVE AccountsTypeOK'
  <2>1. PICK s \in Stages : change' = [change EXCEPT ![p].at = s, ![p].countedAt = roleWrites]
    BY <1>10 DEF CountAdmins, Stages
  <2>2. change' \in [People -> Change]
    BY <2>1 DEF Change
  <2> QED
    BY <1>10, <2>2 DEF CountAdmins
<1>11. ASSUME NEW p \in People, SetUserRole(p) PROVE AccountsTypeOK'
  <2>1. change' \in [People -> Change]
    BY <1>11 DEF SetUserRole, Move, Change, Stages
  <2>2. change[p].target \in People
    BY DEF Change
  <2>3. crossed' \in BOOLEAN
    BY <1>11 DEF SetUserRole
  <2> QED
    BY <1>11, <2>1, <2>2, <2>3 DEF SetUserRole
<1>12. ASSUME NEW p \in People PROVE RoleFails(p) => AccountsTypeOK'
  BY DEF RoleFails, Change, Stages
<1>13. ASSUME NEW p \in People PROVE HearRole(p) => AccountsTypeOK'
  BY NoChangeType DEF HearRole
<1> QED
  BY <1>1, <1>2, <1>4, <1>5, <1>6, <1>7, <1>8, <1>9, <1>10, <1>11, <1>12, <1>13
  DEF AccountsNext

\* Every variable keeps its type (Accounts).
THEOREM AccountsTypeCorrect == AccountsSpec => []AccountsTypeOK
BY AccountsInitType, AccountsNextType, PTL DEF AccountsSpec

-----------------------------------------------------------------------------
(* An admin is left.  A request that is past its check, and whose count no   *)
(* write has made out of date, leaves one behind: that is what makes         *)
(* AdminsRemain inductive.                                                   *)

LeavesOne(p) ==
  (change[p].at = "checked" /\ ~change[p].promote /\ change[p].countedAt = roleWrites)
    => admins \ {change[p].target} # {}

AccountsInv ==
  /\ AccountsTypeOK
  /\ IsFiniteSet(admins)
  /\ \A p \in People : change[p].countedAt <= roleWrites
  /\ ~crossed => admins # {} /\ \A p \in People : LeavesOne(p)

LEMMA AccountsInitInv == AccountsInit => AccountsInv
<1> SUFFICES ASSUME AccountsInit PROVE AccountsInv
  OBVIOUS
<1>1. AccountsTypeOK
  BY AccountsInitType
<1>2. IsFiniteSet(admins)
  BY AccountsAssumption, FS_Subset DEF AccountsInit
<1>3. \A p \in People : change[p].countedAt <= roleWrites /\ LeavesOne(p)
  BY DEF AccountsInit, NoChange, LeavesOne
<1> QED
  BY <1>1, <1>2, <1>3, AccountsAssumption DEF AccountsInit, AccountsInv

\* What every step does to the requests but the write, which changes the admins.
LEMMA OthersRest ==
  ASSUME AccountsInv, UNCHANGED <<admins, roleWrites, crossed>>, AccountsTypeOK',
         \A p \in People : \/ change'[p] = change[p]
                           \/ change'[p].countedAt <= roleWrites /\ (~crossed => LeavesOne(p)')
  PROVE  AccountsInv'
BY DEF AccountsInv, LeavesOne

LEMMA AccountsNextInv == AccountsInv /\ [AccountsNext]_accountsVars => AccountsInv'
<1> SUFFICES ASSUME AccountsInv, [AccountsNext]_accountsVars PROVE AccountsInv'
  OBVIOUS
<1> USE DEF AccountsInv, AccountsTypeOK
<1>0. AccountsTypeOK'
  BY AccountsNextType
<1>1. CASE UNCHANGED accountsVars
  BY <1>0, <1>1, OthersRest DEF accountsVars
<1>2. ASSUME NEW p \in People, LoadUsers(p) \/ CancelDemote(p) PROVE AccountsInv'
  BY <1>0, <1>2, OthersRest DEF LoadUsers, CancelDemote
<1>3. ASSUME NEW p \in People, NEW t, NEW b, Ask(p, t, b), UNCHANGED <<admins, roleWrites, crossed>>
      PROVE  AccountsInv'
  <2>1. change'[p].countedAt <= roleWrites /\ change'[p].at = "sent"
    BY <1>3 DEF Ask
  <2>2. \A q \in People \ {p} : change'[q] = change[q]
    BY <1>3 DEF Ask
  <2> QED
    BY <1>0, <1>3, <2>1, <2>2, OthersRest DEF LeavesOne
<1>4. ASSUME NEW p \in People, ConfirmDemote(p) PROVE AccountsInv'
  BY <1>3, <1>4 DEF ConfirmDemote
<1>5. ASSUME NEW p \in People, NEW t \in People, ClickPromote(p, t) PROVE AccountsInv'
  BY <1>3, <1>5 DEF ClickPromote
<1>6. ASSUME NEW p \in People, NEW t \in People, ClickDemote(p, t) PROVE AccountsInv'
  BY <1>0, <1>6, OthersRest DEF ClickDemote
<1>7. ASSUME NEW p \in People, Admit(p) PROVE AccountsInv'
  <2>1. change'[p].countedAt = change[p].countedAt /\ change'[p].at \in {"admitted", "refused"}
    BY <1>7 DEF Admit, Move, Change
  <2>2. \A q \in People \ {p} : change'[q] = change[q]
    BY <1>7 DEF Admit, Move
  <2> QED
    BY <1>0, <1>7, <2>1, <2>2, OthersRest DEF Admit, LeavesOne
<1>8. ASSUME NEW p \in People, ReadRole(p) PROVE AccountsInv'
  <2>1. change'[p] = [change[p] EXCEPT
           !.at = IF change[p].target \in admins /\ ~change[p].promote THEN "read" ELSE "checked",
           !.countedAt = roleWrites]
    BY <1>8 DEF ReadRole, Change
  <2>2. \A q \in People \ {p} : change'[q] = change[q]
    BY <1>8 DEF ReadRole
  <2>3. change'[p].countedAt <= roleWrites
    BY <2>1 DEF Change
  <2>4. ~crossed => LeavesOne(p)'
    BY <1>8, <2>1 DEF ReadRole, LeavesOne, Change
  <2> QED
    BY <1>0, <1>8, <2>2, <2>3, <2>4, OthersRest DEF ReadRole
<1>9. ASSUME NEW p \in People, CountAdmins(p) PROVE AccountsInv'
  <2>1. change'[p] = [change[p] EXCEPT
           !.at = IF Enough(admins) THEN "checked" ELSE "refused", !.countedAt = roleWrites]
    BY <1>9 DEF CountAdmins, Change
  <2>2. \A q \in People \ {p} : change'[q] = change[q]
    BY <1>9 DEF CountAdmins
  <2>3. change'[p].countedAt <= roleWrites
    BY <2>1 DEF Change
  <2>4. change'[p].at = "checked" => Enough(admins)
    BY <2>1 DEF Change
  <2>5. LeavesOne(p)'
    BY <1>9, <2>4, EnoughLeavesOne DEF CountAdmins, LeavesOne
  <2> QED
    BY <1>0, <1>9, <2>2, <2>3, <2>5, OthersRest DEF CountAdmins
<1>10. ASSUME NEW p \in People, SetUserRole(p) PROVE AccountsInv'
  <2>1. IsFiniteSet(admins')
    BY <1>10, FS_AddElement, FS_RemoveElement DEF SetUserRole
  <2>2. roleWrites' = roleWrites + 1
    BY <1>10 DEF SetUserRole
  <2>3. \A q \in People : change'[q].countedAt = change[q].countedAt
    BY <1>10 DEF SetUserRole, Move, Change
  <2>4. \A q \in People : change[q].countedAt \in Nat /\ change[q].countedAt < roleWrites'
    BY <2>2 DEF Change
  <2>5. \A q \in People : LeavesOne(q)'
    BY <2>2, <2>3, <2>4 DEF LeavesOne
  <2>6. ~crossed' => admins' # {}
    BY <1>10 DEF SetUserRole, Move, LeavesOne
  <2> QED
    BY <1>0, <2>1, <2>2, <2>3, <2>4, <2>5, <2>6
<1>11. ASSUME NEW p \in People, RoleFails(p) PROVE AccountsInv'
  <2>1. change'[p].countedAt = change[p].countedAt /\ change'[p].at = "refused"
    BY <1>11 DEF RoleFails, Change
  <2>2. \A q \in People \ {p} : change'[q] = change[q]
    BY <1>11 DEF RoleFails
  <2> QED
    BY <1>0, <1>11, <2>1, <2>2, OthersRest DEF RoleFails, LeavesOne
<1>12. ASSUME NEW p \in People, HearRole(p) PROVE AccountsInv'
  <2>1. change'[p].countedAt <= roleWrites /\ change'[p].at = "none"
    BY <1>12 DEF HearRole, NoChange
  <2>2. \A q \in People \ {p} : change'[q] = change[q]
    BY <1>12 DEF HearRole
  <2> QED
    BY <1>0, <1>12, <2>1, <2>2, OthersRest DEF HearRole, LeavesOne
<1> QED
  BY <1>1, <1>2, <1>4, <1>5, <1>6, <1>7, <1>8, <1>9, <1>10, <1>11, <1>12 DEF AccountsNext

\* However many admins change roles at once, the system is left without one only
\* if a demotion was written on a count that another change had made out of date
\* (PostUserRole).
THEOREM AdminsStay == AccountsSpec => []AdminsRemain
<1>1. AccountsSpec => []AccountsInv
  BY AccountsInitInv, AccountsNextInv, PTL DEF AccountsSpec
<1>2. AccountsInv => AdminsRemain
  BY DEF AccountsInv, AccountsTypeOK, AdminsRemain
<1> QED
  BY <1>1, <1>2, PTL
=============================================================================
