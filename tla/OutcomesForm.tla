----------------------------- MODULE OutcomesForm -----------------------------
(***************************************************************************)
(* The Bonus section of the admin page (Admin.tsx: BonusSection): the      *)
(* seven outcomes, chosen one by one and saved together.  The form is      *)
(* filled from the cached outcomes once, and once more after each save,    *)
(* when the refetched outcomes arrive and differ from those at hand.       *)
(*                                                                         *)
(* The server writes a batch one statement each (admin_bonus_handler.go);  *)
(* the points it then scores are module Bonus's concern.                   *)
(***************************************************************************)
EXTENDS QueryCache, Integers

CONSTANTS
  OutcomeRows,        \* categories
  TeamRows,    \* those won by teams: the others by players
  Winners,       \* teams or players
  NotSet, NoUpdate,
  MaxUpdates, MaxOutcomeWrites   \* bounds

OutcomeList == [OutcomeRows -> Winners \union {NotSet}]

ASSUME OutcomesFormAssumption ==
  TeamRows \subseteq OutcomeRows /\ NotSet \notin Winners /\ MaxUpdates \in Nat /\ MaxOutcomeWrites \in Nat

VARIABLES
  outcomes, outcomeWrites,  \* bonus_results, and how often it was written
  outcomesQ,     \* the query ["admin", "bonus-results"]
  bonusTab,      \* the section is mounted
  filled,        \* seededRef
  chosen,         \* what a save would send
  named,         \* playerLabels
  updateJob, updates, sentUpdates,
  kept           \* history: choices nothing but a save may take from the form

outcomesTable == <<outcomes, outcomeWrites>>
outcomesTab   == <<bonusTab, filled, chosen, named>>
outcomesVars  == <<outcomesTable, outcomesQ, outcomesTab, updateJob, updates, sentUpdates, kept>>

NoneSet == [c \in OutcomeRows |-> NotSet]
OutcomesReady == bonusTab /\ outcomesQ.data # NoData /\ ~outcomesQ.failed

\* The outcome a row names: for a team the choice, for a player the label of a
\* choice; without one, what is listed.
RowNames(c) ==
  LET own == IF c \in TeamRows THEN chosen[c] ELSE named[c]
  IN  IF own # NotSet THEN own ELSE outcomesQ.data[c]

-----------------------------------------------------------------------------
OutcomesInit ==
  /\ outcomes = NoneSet /\ outcomeWrites = 0
  /\ outcomesQ = Unasked /\ bonusTab = FALSE /\ filled = FALSE
  /\ chosen = NoneSet /\ named = NoneSet
  /\ updateJob = 0 /\ updates = [n \in 1 .. MaxUpdates |-> NoUpdate] /\ sentUpdates = 0
  /\ kept = NoneSet

SetOutcome(c, w) ==
  /\ outcomeWrites < MaxOutcomeWrites
  /\ outcomes' = [outcomes EXCEPT ![c] = w]
  /\ outcomeWrites' = outcomeWrites + 1

\* Another admin saves an outcome.
OutcomeElsewhere(c, w) ==
  /\ w # outcomes[c]
  /\ SetOutcome(c, w)
  /\ UNCHANGED <<outcomesQ, outcomesTab, updateJob, updates, sentUpdates, kept>>

MutFillAlways(q) == q.data # NoData /\ (bonusTab => q.data # outcomesQ.data)

\* The effect: it runs when the section is mounted or the outcomes changed.
Fills(q) ==
  /\ q.data # NoData /\ ~(filled /\ bonusTab)
  /\ ~bonusTab \/ q.data # outcomesQ.data

ShowOutcomes(q) ==
  /\ outcomesQ' = q
  /\ IF bonusTab' /\ Fills(q)
     THEN filled' = TRUE /\ chosen' = q.data
     ELSE UNCHANGED <<filled, chosen>>

OpenBonusTab ==
  /\ ~bonusTab /\ bonusTab' = TRUE
  /\ ShowOutcomes(Fetch(outcomesQ))
  /\ UNCHANGED <<outcomesTable, named, updateJob, updates, sentUpdates, kept>>

\* Another tab: the section is unmounted and its edits are gone.
LeaveBonusTab ==
  /\ bonusTab /\ bonusTab' = FALSE
  /\ filled' = FALSE /\ chosen' = NoneSet /\ named' = NoneSet
  /\ updateJob' = 0 /\ kept' = NoneSet
  /\ UNCHANGED <<outcomesTable, outcomesQ, updates, sentUpdates>>

FocusBonusTab ==
  /\ bonusTab /\ outcomesQ.flight = "idle"
  /\ outcomesQ' = Fetch(outcomesQ)
  /\ UNCHANGED <<outcomesTable, outcomesTab, updateJob, updates, sentUpdates, kept>>

ServeOutcomes ==
  /\ outcomesQ.flight = "sent"
  /\ outcomesQ' = Served(outcomesQ, outcomes)
  /\ UNCHANGED <<outcomesTable, outcomesTab, updateJob, updates, sentUpdates, kept>>

OutcomesCome ==
  /\ UNCHANGED bonusTab
  /\ \/ outcomesQ.flight = "served" /\ ShowOutcomes(Arrived(outcomesQ))
     \/ outcomesQ.flight # "idle" /\ ShowOutcomes(Failed(outcomesQ))
  /\ UNCHANGED <<outcomesTable, named, updateJob, updates, sentUpdates, kept>>

-----------------------------------------------------------------------------
\* handleTeamChange, handlePlayerSelect.  A choice made while the form waits to
\* be filled again does not last.
ChooseOutcome(c, w) ==
  /\ OutcomesReady /\ updateJob = 0 /\ w # chosen[c]
  /\ chosen' = [chosen EXCEPT ![c] = w]
  /\ named' = IF c \in TeamRows THEN named ELSE [named EXCEPT ![c] = w]
  /\ kept' = IF filled THEN [kept EXCEPT ![c] = w] ELSE kept
  /\ UNCHANGED <<outcomesTable, outcomesQ, bonusTab, filled, updateJob, updates, sentUpdates>>

\* handleSave sends every pick, those of other admins among them.
SaveOutcomes ==
  /\ OutcomesReady /\ updateJob = 0 /\ sentUpdates < MaxUpdates
  /\ sentUpdates' = sentUpdates + 1 /\ updateJob' = sentUpdates + 1
  /\ updates' = [updates EXCEPT ![sentUpdates + 1] =
       [val |-> chosen, left |-> {c \in OutcomeRows : chosen[c] # NotSet}, at |-> "writing"]]
  /\ UNCHANGED <<outcomesTable, outcomesQ, outcomesTab, kept>>

\* One statement of PutBonusResults.
WriteOutcome(n, c) ==
  /\ updates[n] # NoUpdate /\ updates[n].at = "writing" /\ c \in updates[n].left
  /\ SetOutcome(c, updates[n].val[c])
  /\ updates' = [updates EXCEPT ![n].left = @ \ {c}]
  /\ UNCHANGED <<outcomesQ, outcomesTab, updateJob, sentUpdates, kept>>

\* The outcomes are scored: the whole succeeds, or fails with the outcomes saved.
\* A statement may fail before.
EndUpdate(n) ==
  /\ updates[n] # NoUpdate /\ updates[n].at = "writing"
  /\ \/ updates[n].left = {} /\ updates' = [updates EXCEPT ![n].at = "stored"]
     \/ updates' = [updates EXCEPT ![n].at = "failed"]
  /\ UNCHANGED <<outcomesTable, outcomesQ, outcomesTab, updateJob, sentUpdates, kept>>

OfTab(n) == bonusTab /\ n = updateJob

\* onSuccess: the outcomes are refetched, and the form will be filled again.
HearUpdateStored(n) ==
  /\ updates[n] # NoUpdate /\ updates[n].at = "stored"
  /\ outcomesQ' = IF bonusTab THEN Refetch(outcomesQ) ELSE outcomesQ
  /\ IF OfTab(n)
     THEN filled' = FALSE /\ named' = NoneSet /\ updateJob' = 0 /\ kept' = NoneSet
     ELSE UNCHANGED <<filled, named, updateJob, kept>>
  /\ updates' = [updates EXCEPT ![n] = NoUpdate]
  /\ UNCHANGED <<outcomesTable, bonusTab, chosen, sentUpdates>>

\* Failed, or the answer is lost; a connection lost in the middle cancels what is
\* left with the request's context.
HearUpdateError(n) ==
  /\ updates[n] # NoUpdate
  /\ updateJob' = IF OfTab(n) THEN 0 ELSE updateJob
  /\ updates' = [updates EXCEPT ![n] = NoUpdate]
  /\ UNCHANGED <<outcomesTable, outcomesQ, outcomesTab, sentUpdates, kept>>

OutcomesNext ==
  \/ OpenBonusTab \/ LeaveBonusTab \/ FocusBonusTab \/ ServeOutcomes \/ OutcomesCome
  \/ \E c \in OutcomeRows, w \in Winners : ChooseOutcome(c, w) \/ OutcomeElsewhere(c, w)
  \/ SaveOutcomes
  \/ \E n \in 1 .. MaxUpdates :
       \/ EndUpdate(n) \/ HearUpdateStored(n) \/ HearUpdateError(n)
       \/ \E c \in OutcomeRows : WriteOutcome(n, c)

OutcomesSpec == OutcomesInit /\ [][OutcomesNext]_outcomesVars

-----------------------------------------------------------------------------
(* Properties.                                                             *)

\* Every variable has its type.
OutcomesTypeOK ==
  /\ outcomes \in OutcomeList /\ outcomeWrites \in Nat
  /\ outcomesQ \in Query(OutcomeList)
  /\ bonusTab \in BOOLEAN /\ filled \in BOOLEAN
  /\ chosen \in OutcomeList /\ named \in OutcomeList /\ kept \in OutcomeList
  /\ updateJob \in 0 .. MaxUpdates /\ sentUpdates \in 0 .. MaxUpdates
  /\ \A n \in 1 .. MaxUpdates : updates[n] # NoUpdate =>
       /\ updates[n].val \in OutcomeList /\ updates[n].left \subseteq OutcomeRows
       /\ updates[n].at \in {"writing", "stored", "failed"}

\* A choice made in a filled form is what its row names and what the next save
\* sends, whatever another admin saves, the list refetches or a save fails with
\* (BonusSection: seededRef).
ChoicesSurvive ==
  \A c \in OutcomeRows : kept[c] # NotSet => chosen[c] = kept[c] /\ RowNames(c) = kept[c]
=============================================================================
