------------------------------ MODULE Combobox ------------------------------
(***************************************************************************)
(* The searchable player field of the bonus panel and of the outcomes tab  *)
(* (PlayerCombobox.tsx, the player search of lib/bonus.ts).                *)
(*                                                                         *)
(* What is typed is searched for 300 ms later; the list under the field is *)
(* of what was searched for, not of what is typed.  Arrows move a          *)
(* highlight, an index into the list, and Enter takes the option there.    *)
(***************************************************************************)
EXTENDS Integers

CONSTANTS
  Texts, Blank,   \* what may be typed; the empty field
  LongTexts,      \* texts of two letters or more: only these are searched for
  Hits,           \* Hits[t]: how many players match t
  NoTimer

ASSUME ComboboxAssumption ==
  /\ Blank \notin Texts /\ LongTexts \subseteq Texts
  /\ Hits \in [LongTexts -> Nat]
  /\ NoTimer \notin Texts \union {Blank}

Typeable == Texts \union {Blank}

VARIABLES
  typed,        \* query
  searched,     \* debouncedQ
  debounce,     \* the text the pending timer will search for
  listOpen,     \* open
  activeIdx,    \* -1: nothing is highlighted
  found,        \* the texts whose players have been loaded
  blurred,      \* a blur's 150 ms are running
  aimedAt       \* history: the list the arrows last moved in

comboboxVars == <<typed, searched, debounce, listOpen, activeIdx, found, blurred, aimedAt>>

\* results: empty until they are loaded.
ResultCount == IF searched \in found THEN Hits[searched] ELSE 0

Smaller(a, b) == IF a < b THEN a ELSE b

MutNoFloor(a, b) == a

Larger(a, b) == IF a > b THEN a ELSE b

-----------------------------------------------------------------------------
ComboboxInit ==
  /\ typed = Blank /\ searched = Blank /\ debounce = Blank
  /\ listOpen = FALSE /\ activeIdx = -1 /\ found = {} /\ blurred = FALSE
  /\ aimedAt = Blank

\* A change of the text replaces the timer.
SetTyped(t) == typed' = t /\ debounce' = IF t = typed THEN debounce ELSE t

TypeText(t) ==
  /\ t # typed /\ SetTyped(t) /\ listOpen' = (t # Blank)
  /\ UNCHANGED <<searched, activeIdx, found, blurred, aimedAt>>

MutHighlight == activeIdx

\* setActiveIdx(-1): the highlight is of the old list.
Highlight == -1

DebounceFires ==
  /\ debounce # NoTimer /\ searched' = debounce /\ debounce' = NoTimer
  /\ activeIdx' = Highlight
  /\ UNCHANGED <<typed, listOpen, found, blurred, aimedAt>>

PlayersCome ==
  /\ searched \in LongTexts \ found /\ found' = found \union {searched}
  /\ UNCHANGED <<typed, searched, debounce, listOpen, activeIdx, blurred, aimedAt>>

\* On a closed list, down opens it at the first option, loaded or not.
ArrowDown ==
  /\ IF listOpen THEN activeIdx' = Smaller(activeIdx + 1, ResultCount - 1) /\ UNCHANGED listOpen
                 ELSE activeIdx' = 0 /\ listOpen' = TRUE
  /\ aimedAt' = searched
  /\ UNCHANGED <<typed, searched, debounce, found, blurred>>

ArrowUp ==
  /\ listOpen /\ activeIdx' = Larger(activeIdx - 1, 0) /\ aimedAt' = searched
  /\ UNCHANGED <<typed, searched, debounce, listOpen, found, blurred>>

\* selectOption.
SelectOption ==
  /\ SetTyped(Blank) /\ searched' = Blank
  /\ listOpen' = FALSE /\ activeIdx' = -1
  /\ UNCHANGED <<found, blurred, aimedAt>>

\* The highlighted option, and only one that is there.
EnterPicks == listOpen /\ activeIdx \in 0 .. ResultCount - 1

PressEnter == EnterPicks /\ SelectOption

\* A press on an option takes it whatever is highlighted.
PressOption == listOpen /\ ResultCount > 0 /\ SelectOption

PressEscape ==
  /\ listOpen /\ listOpen' = FALSE /\ activeIdx' = -1
  /\ UNCHANGED <<typed, searched, debounce, found, blurred, aimedAt>>

\* The clear button leaves the highlight where it was.
ClearText ==
  /\ typed # Blank /\ SetTyped(Blank) /\ searched' = Blank /\ listOpen' = FALSE
  /\ UNCHANGED <<activeIdx, found, blurred, aimedAt>>

\* Leaving the field closes the list a little later, even if one is back by then.
BlurField ==
  /\ ~blurred /\ blurred' = TRUE
  /\ UNCHANGED <<typed, searched, debounce, listOpen, activeIdx, found, aimedAt>>

BlurCloses ==
  /\ blurred /\ blurred' = FALSE /\ listOpen' = FALSE
  /\ UNCHANGED <<typed, searched, debounce, activeIdx, found, aimedAt>>

ComboboxNext ==
  \/ \E t \in Typeable : TypeText(t)
  \/ DebounceFires \/ PlayersCome
  \/ ArrowDown \/ ArrowUp \/ PressEnter \/ PressOption \/ PressEscape \/ ClearText
  \/ BlurField \/ BlurCloses

ComboboxSpec == ComboboxInit /\ [][ComboboxNext]_comboboxVars

-----------------------------------------------------------------------------
(* Properties.                                                             *)

\* Every variable has its type.
ComboboxTypeOK ==
  /\ typed \in Typeable /\ searched \in Typeable /\ debounce \in Typeable \union {NoTimer}
  /\ listOpen \in BOOLEAN /\ activeIdx \in Int /\ activeIdx >= -1
  /\ found \subseteq LongTexts /\ blurred \in BOOLEAN /\ aimedAt \in Typeable

\* Enter takes an option only in the list the arrows were moved in: a list that
\* comes in under the highlight, after the debounce, a clear or a blur, is not
\* chosen from by the old index (PlayerCombobox.tsx, the debounce effect).
EnterPicksFromAimedList == EnterPicks => aimedAt = searched
=============================================================================
