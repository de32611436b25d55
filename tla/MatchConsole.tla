----------------------------- MODULE MatchConsole -----------------------------
(***************************************************************************)
(* The Matches section of the admin page (Admin.tsx: MatchesSection,       *)
(* MatchForm, ResultForm, ConfirmDialog; lib/admin.ts): a list of matches, *)
(* one dialog at a time over it, and the four requests the dialogs send.   *)
(* Other admins edit and delete the same matches meanwhile.                *)
(*                                                                         *)
(* A form is filled in in one step.  Of a match's kickoff only whether it  *)
(* lies ahead counts.  What the server does with a request beyond its      *)
(* checks is module MatchPoints's.                                         *)
(***************************************************************************)
EXTENDS QueryCache, Integers, FiniteSets

CONSTANTS
  Ids,           \* matches, the created ones among them
  FirstIds,
  Sides, NoSide, \* teams
  FirstFixture,
  Rewrites,      \* fixtures other admins make of a match
  Drafts,        \* what the match form is filled with
  Unborn, Gone,  \* no fixture yet, and no longer
  NoId, New, NoWork,
  MaxElsewhere, MaxWork   \* bounds: what other admins do, requests sent

Fixture == [home : Sides, away : Sides, ko : BOOLEAN]
Draft == [home : Sides \union {NoSide}, away : Sides \union {NoSide}, ko : BOOLEAN, timed : BOOLEAN]
ResultDraft == [scores : BOOLEAN, pens : BOOLEAN, winner : Sides \union {NoSide}]

Row == [fixture : Fixture, shootout : Sides \union {NoSide}]

ASSUME MatchConsoleAssumption ==
  /\ FirstIds \subseteq Ids /\ NoId \notin Ids /\ New \notin Ids /\ NoSide \notin Sides
  /\ NoId # New /\ Unborn # Gone /\ \A S \in SUBSET Ids : NoData \notin [S -> Row]
  /\ FirstFixture \in Fixture /\ Rewrites \subseteq Fixture /\ Drafts \subseteq Draft
  /\ Gone \notin Fixture /\ Unborn \notin Fixture /\ MaxElsewhere \in Nat /\ MaxWork \in Nat

Kinds == {"create", "update", "result", "delete"}

VARIABLES
  fixture,       \* server: fixture[m], or Unborn, or Gone
  shootout,      \* server: [m] its shootout winner, NoSide without one
  ahead,         \* server: matches that have not kicked off
  edited,        \* history: matches whose fixture was edited
  elsewhere,     \* what other admins did so far
  matchesQ,      \* the query ["admin", "matches"]
  consoleUp,
  newForm, editingId, resultId, deleteConfirmId,
  draft, resultDraft,  \* the fields of the open form
  work,          \* work[k]: the pending mutation of a kind
  sentWork       \* how many requests were sent

matchesTable == <<fixture, shootout, ahead, edited, elsewhere>>
dialogs      == <<newForm, editingId, resultId, deleteConfirmId, draft, resultDraft>>
consoleVars  == <<matchesTable, matchesQ, consoleUp, dialogs, work, sentWork>>

Work == [id : Ids \union {New}, body : Draft \union ResultDraft \union {NoSide},
         at : {"sent", "done", "refused"}]

Exists(m) == fixture[m] \notin {Unborn, Gone}

\* GET /admin/matches.
Rows == [m \in {x \in Ids : Exists(x)} |-> [fixture |-> fixture[m], shootout |-> shootout[m]]]

Shown == consoleUp /\ matchesQ.data # NoData /\ ~matchesQ.failed
ListedIds == IF matchesQ.data = NoData THEN {} ELSE DOMAIN matchesQ.data

\* A dialog about a match is up while the match is listed.
Dialogs == {d \in {<<"new", IF newForm THEN New ELSE NoId>>, <<"edit", editingId>>,
                   <<"result", resultId>>, <<"delete", deleteConfirmId>>} :
              Shown /\ d[2] \in ListedIds \union {New}}

MutAnyPending == work["delete"] # NoWork

AnyPending == \E k \in Kinds : work[k] # NoWork

-----------------------------------------------------------------------------
(* The forms.                                                              *)

BlankDraft == [home |-> NoSide, away |-> NoSide, ko |-> FALSE, timed |-> FALSE]
DraftOf(row) == [home |-> row.fixture.home, away |-> row.fixture.away, ko |-> row.fixture.ko,
                 timed |-> TRUE]

\* The fields a result form opens with; without a stored shootout the scores are
\* yet to be typed.
BlankResult == [scores |-> FALSE, pens |-> FALSE, winner |-> NoSide]
ResultOf(row) == [scores |-> row.shootout # NoSide, pens |-> row.shootout # NoSide,
                  winner |-> row.shootout]

\* MatchForm: handleSubmit.
MatchFormTakes(d) == d.home # NoSide /\ d.away # NoSide /\ d.home # d.away /\ d.timed

MutResultTakes(m, r) == r.scores /\ (r.pens => matchesQ.data[m].fixture.ko)

\* ResultForm: handleSubmit.
ResultFormTakes(m, r) ==
  r.scores /\ (r.pens => matchesQ.data[m].fixture.ko /\ r.winner # NoSide)

SidesOf(f) == {f.home, f.away}

\* PutAdminMatchResult, of a match that exists.
ServerTakesResult(m, r) ==
  /\ m \notin ahead
  /\ r.pens => fixture[m].ko /\ r.winner \in SidesOf(fixture[m])

-----------------------------------------------------------------------------
ConsoleInit ==
  /\ fixture = [m \in Ids |-> IF m \in FirstIds THEN FirstFixture ELSE Unborn]
  /\ shootout = [m \in Ids |-> NoSide]
  /\ ahead = FirstIds /\ edited = {} /\ elsewhere = 0
  /\ matchesQ = Unasked /\ consoleUp = FALSE
  /\ newForm = FALSE /\ editingId = NoId /\ resultId = NoId /\ deleteConfirmId = NoId
  /\ draft = BlankDraft /\ resultDraft = BlankResult
  /\ work = [k \in Kinds |-> NoWork] /\ sentWork = 0

KickOff(m) ==
  /\ m \in ahead /\ ahead' = ahead \ {m}
  /\ UNCHANGED <<fixture, shootout, edited, elsewhere, matchesQ, consoleUp, dialogs, work, sentWork>>

\* A fixture is given, with a kickoff in the past or ahead.
Scheduled(m, f) ==
  /\ fixture' = [fixture EXCEPT ![m] = f]
  /\ \E later \in BOOLEAN : ahead' = IF later THEN ahead \union {m} ELSE ahead \ {m}

EditedTo(m, f) == Scheduled(m, f) /\ edited' = edited \union {m}

Deleted(m) == fixture' = [fixture EXCEPT ![m] = Gone] /\ ahead' = ahead \ {m}

\* Another admin edits or deletes a match.
EditElsewhere(m, f) ==
  /\ elsewhere < MaxElsewhere /\ elsewhere' = elsewhere + 1
  /\ Exists(m) /\ fixture[m] # f
  /\ EditedTo(m, f)
  /\ UNCHANGED <<shootout, matchesQ, consoleUp, dialogs, work, sentWork>>

DeleteElsewhere(m) ==
  /\ elsewhere < MaxElsewhere /\ elsewhere' = elsewhere + 1
  /\ Exists(m) /\ Deleted(m)
  /\ UNCHANGED <<shootout, edited, matchesQ, consoleUp, dialogs, work, sentWork>>

\* The list becomes q: a form whose match is not shown forgets its fields, and
\* opens anew when the match is shown again.
Listing(q) ==
  LET up == consoleUp' /\ q.data # NoData /\ ~q.failed
      shows(id) == up /\ id \in DOMAIN q.data
      stays(id) == Shown /\ id \in ListedIds
  IN  /\ matchesQ' = q
      /\ draft' = CASE shows(editingId) /\ stays(editingId) -> draft
                   [] shows(editingId) /\ ~stays(editingId) -> DraftOf(q.data[editingId])
                   [] ~shows(editingId) /\ newForm /\ up /\ Shown -> draft
                   [] OTHER -> BlankDraft
      /\ resultDraft' = CASE shows(resultId) /\ stays(resultId) -> resultDraft
                         [] shows(resultId) /\ ~stays(resultId) -> ResultOf(q.data[resultId])
                         [] OTHER -> BlankResult

OpenConsole ==
  /\ ~consoleUp /\ consoleUp' = TRUE
  /\ Listing(Fetch(matchesQ))
  /\ UNCHANGED <<matchesTable, newForm, editingId, resultId, deleteConfirmId, work, sentWork>>

\* Requests the page no longer waits for act as another admin's.
CloseConsole ==
  /\ consoleUp /\ consoleUp' = FALSE
  /\ newForm' = FALSE /\ editingId' = NoId /\ resultId' = NoId /\ deleteConfirmId' = NoId
  /\ draft' = BlankDraft /\ resultDraft' = BlankResult
  /\ work' = [k \in Kinds |-> NoWork]
  /\ UNCHANGED <<matchesTable, matchesQ, sentWork>>

FocusConsole ==
  /\ consoleUp /\ matchesQ.flight = "idle"
  /\ matchesQ' = Fetch(matchesQ)
  /\ UNCHANGED <<matchesTable, consoleUp, dialogs, work, sentWork>>

ServeMatches ==
  /\ matchesQ.flight = "sent"
  /\ matchesQ' = Served(matchesQ, Rows)
  /\ UNCHANGED <<matchesTable, consoleUp, dialogs, work, sentWork>>

MatchesCome ==
  /\ UNCHANGED <<matchesTable, consoleUp, newForm, editingId, resultId, deleteConfirmId, work, sentWork>>
  /\ \/ matchesQ.flight = "served" /\ Listing(Arrived(matchesQ))
     \/ matchesQ.flight # "idle" /\ Listing(Failed(matchesQ))

-----------------------------------------------------------------------------
(* Opening and filling dialogs: an open one covers the page.               *)

ClickNew ==
  /\ Shown /\ Dialogs = {}
  /\ newForm' = TRUE /\ editingId' = NoId /\ resultId' = NoId
  /\ draft' = BlankDraft
  /\ UNCHANGED <<matchesTable, matchesQ, consoleUp, deleteConfirmId, resultDraft, work, sentWork>>

RowButtons(m) == Shown /\ Dialogs = {} /\ ~AnyPending /\ m \in ListedIds

ClickEdit(m) ==
  /\ RowButtons(m)
  /\ editingId' = m /\ resultId' = NoId /\ newForm' = FALSE
  /\ draft' = DraftOf(matchesQ.data[m])
  /\ UNCHANGED <<matchesTable, matchesQ, consoleUp, deleteConfirmId, resultDraft, work, sentWork>>

ClickResult(m) ==
  /\ RowButtons(m)
  /\ resultId' = m /\ editingId' = NoId /\ newForm' = FALSE
  /\ resultDraft' = ResultOf(matchesQ.data[m])
  /\ UNCHANGED <<matchesTable, matchesQ, consoleUp, deleteConfirmId, draft, work, sentWork>>

ClickDelete(m) ==
  /\ RowButtons(m)
  /\ deleteConfirmId' = m
  /\ UNCHANGED <<matchesTable, matchesQ, consoleUp, newForm, editingId, resultId, draft,
                 resultDraft, work, sentWork>>

Up(d, k) == (\E x \in Dialogs : x[1] = d) /\ work[k] = NoWork

\* Cancel, Escape or the close button: not while the dialog's request is pending.
CancelDialog ==
  /\ \/ Up("new", "create") /\ newForm' = FALSE /\ UNCHANGED <<editingId, resultId, deleteConfirmId>>
     \/ Up("edit", "update") /\ editingId' = NoId /\ UNCHANGED <<newForm, resultId, deleteConfirmId>>
     \/ Up("result", "result") /\ resultId' = NoId /\ UNCHANGED <<newForm, editingId, deleteConfirmId>>
     \/ Up("delete", "delete") /\ deleteConfirmId' = NoId /\ UNCHANGED <<newForm, editingId, resultId>>
  /\ draft' = BlankDraft /\ resultDraft' = BlankResult
  /\ UNCHANGED <<matchesTable, matchesQ, consoleUp, work, sentWork>>

FillMatchForm(d) ==
  /\ Up("new", "create") \/ Up("edit", "update")
  /\ draft' = d
  /\ UNCHANGED <<matchesTable, matchesQ, consoleUp, newForm, editingId, resultId,
                 deleteConfirmId, resultDraft, work, sentWork>>

\* Penalties are asked for knockouts, their winner among the two teams listed.
FillResult(r) ==
  /\ Up("result", "result")
  /\ LET f == matchesQ.data[resultId].fixture
     IN  /\ r.pens # resultDraft.pens => f.ko
         /\ IF r.pens
            THEN \/ r.winner = resultDraft.winner
                 \/ f.ko /\ r.winner \in SidesOf(f) \union {NoSide}
            ELSE r.winner = NoSide
  /\ resultDraft' = r
  /\ UNCHANGED <<matchesTable, matchesQ, consoleUp, newForm, editingId, resultId,
                 deleteConfirmId, draft, work, sentWork>>

-----------------------------------------------------------------------------
(* Requests.                                                               *)

Sending(k, id, body) ==
  /\ sentWork < MaxWork /\ sentWork' = sentWork + 1
  /\ work' = [work EXCEPT ![k] = [id |-> id, body |-> body, at |-> "sent"]]

Submit ==
  /\ \/ Up("new", "create") /\ MatchFormTakes(draft) /\ Sending("create", New, draft)
        /\ UNCHANGED deleteConfirmId
     \/ Up("edit", "update") /\ MatchFormTakes(draft) /\ Sending("update", editingId, draft)
        /\ UNCHANGED deleteConfirmId
     \/ Up("result", "result") /\ ResultFormTakes(resultId, resultDraft)
        /\ Sending("result", resultId, resultDraft) /\ UNCHANGED deleteConfirmId
     \/ Up("delete", "delete") /\ Sending("delete", deleteConfirmId, NoSide)
        /\ deleteConfirmId' = NoId
  /\ UNCHANGED <<matchesTable, matchesQ, consoleUp, newForm, editingId, resultId, draft, resultDraft>>

Settled(k, at) == work' = [work EXCEPT ![k].at = at]

FixtureOf(d) == [home |-> d.home, away |-> d.away, ko |-> d.ko]

\* The server runs a handler: a match that is gone is not found.
ServeWork(k) ==
  /\ work[k] # NoWork /\ work[k].at = "sent"
  /\ LET w == work[k] IN
       CASE k = "create" ->
              /\ \E m \in Ids : fixture[m] = Unborn /\ Scheduled(m, FixtureOf(w.body))
              /\ Settled(k, "done") /\ UNCHANGED <<shootout, edited>>
         [] k # "create" /\ fixture[w.id] = Gone ->
              Settled(k, "refused") /\ UNCHANGED <<fixture, shootout, ahead, edited>>
         [] k = "update" /\ fixture[w.id] # Gone ->
              EditedTo(w.id, FixtureOf(w.body)) /\ Settled(k, "done") /\ UNCHANGED shootout
         [] k = "result" /\ fixture[w.id] # Gone ->
              IF ServerTakesResult(w.id, w.body)
              THEN /\ shootout' = [shootout EXCEPT ![w.id] = IF w.body.pens THEN w.body.winner ELSE NoSide]
                   /\ Settled(k, "done") /\ UNCHANGED <<fixture, ahead, edited>>
              ELSE Settled(k, "refused") /\ UNCHANGED <<fixture, shootout, ahead, edited>>
         [] k = "delete" /\ fixture[w.id] # Gone ->
              /\ Deleted(w.id)
              /\ Settled(k, "done") /\ UNCHANGED <<shootout, edited>>
  /\ UNCHANGED <<elsewhere, matchesQ, consoleUp, dialogs, sentWork>>

\* onSuccess: the dialog closes, the list is refetched.
HearDone(k) ==
  /\ work[k] # NoWork /\ work[k].at = "done"
  /\ work' = [work EXCEPT ![k] = NoWork]
  /\ newForm' = (newForm /\ k # "create")
  /\ editingId' = IF k = "update" THEN NoId ELSE editingId
  /\ resultId' = IF k = "result" THEN NoId ELSE resultId
  /\ matchesQ' = Refetch(matchesQ)
  /\ draft' = IF newForm' \/ editingId' # NoId THEN draft ELSE BlankDraft
  /\ resultDraft' = IF resultId' # NoId THEN resultDraft ELSE BlankResult
  /\ UNCHANGED <<matchesTable, consoleUp, deleteConfirmId, sentWork>>

\* Refused, failed, or the answer is lost: the dialog stays, with the error.
HearRefused(k) ==
  /\ work[k] # NoWork /\ work[k].at # "sent"
  /\ work' = [work EXCEPT ![k] = NoWork]
  /\ UNCHANGED <<matchesTable, matchesQ, consoleUp, dialogs, sentWork>>

ConsoleNext ==
  \/ \E m \in Ids : KickOff(m) \/ DeleteElsewhere(m) \/ \E f \in Rewrites : EditElsewhere(m, f)
  \/ OpenConsole \/ CloseConsole \/ FocusConsole \/ ServeMatches \/ MatchesCome
  \/ ClickNew \/ CancelDialog \/ Submit
  \/ \E m \in Ids : ClickEdit(m) \/ ClickResult(m) \/ ClickDelete(m)
  \/ \E d \in Drafts : FillMatchForm(d)
  \/ \E r \in ResultDraft : FillResult(r)
  \/ \E k \in Kinds : ServeWork(k) \/ HearDone(k) \/ HearRefused(k)

ConsoleSpec == ConsoleInit /\ [][ConsoleNext]_consoleVars

-----------------------------------------------------------------------------
(* Properties.                                                             *)

\* Every variable has its type.
ConsoleTypeOK ==
  /\ fixture \in [Ids -> Fixture \union {Unborn, Gone}]
  /\ shootout \in [Ids -> Sides \union {NoSide}]
  /\ ahead \subseteq Ids /\ edited \subseteq Ids /\ elsewhere \in 0 .. MaxElsewhere
  /\ matchesQ.data # NoData => matchesQ.data \in [ListedIds -> Row] /\ ListedIds \subseteq Ids
  /\ matchesQ.flight \in Flights /\ matchesQ.failed \in BOOLEAN
  /\ consoleUp \in BOOLEAN /\ newForm \in BOOLEAN
  /\ {editingId, resultId, deleteConfirmId} \subseteq Ids \union {NoId}
  /\ draft \in Draft /\ resultDraft \in ResultDraft
  /\ work \in [Kinds -> Work \union {NoWork}] /\ sentWork \in Nat

\* An answer closes the form that sent the request and no other: while an edit or
\* a result is being saved, no other match's form takes its place (MatchesSection:
\* anyPending), even if the match has been deleted and its form has gone.
AnswersCloseTheirOwn ==
  /\ Cardinality(Dialogs) <= 1
  /\ work["update"] # NoWork => editingId \in {work["update"].id, NoId}
  /\ work["result"] # NoWork => resultId \in {work["result"].id, NoId}

\* The server refuses a result the form let through only if the match was edited or
\* deleted, or has not kicked off, which the handler alone checks
\* (admin_matches_handler.go:206): the two agree on shootouts, whatever list the
\* form was opened from and filled in over.
ResultRefused ==
  LET w == work["result"]
  IN  w # NoWork /\ w.at = "sent" /\ work'["result"] # NoWork /\ work'["result"].at = "refused"

FormAgreesWithServer ==
  [][ResultRefused =>
       LET m == work["result"].id IN m \in edited \/ fixture[m] = Gone \/ m \in ahead]_consoleVars
=============================================================================
