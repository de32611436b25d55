-------------------------------- MODULE Shell --------------------------------
(***************************************************************************)
(* The application's shell in one browser tab: who is signed in (App.tsx,  *)
(* lib/auth.tsx, lib/api.ts against auth_handlers.go and RequireAuth), and *)
(* the victory celebration that plays over everything (lib/celebrations.ts,*)
(* VictoryCelebration.tsx against celebrations_handler.go).                *)
(*                                                                         *)
(* The session is a cookie: an answer sets or clears it when it arrives.   *)
(* The tab believes the query ["me"], which signing in and out overwrite.  *)
(* A skipped celebration ends within half a second: nobody signs in        *)
(* meanwhile.                                                              *)
(***************************************************************************)
EXTENDS QueryCache, Integers, FiniteSets

CONSTANTS
  Persons, Nobody,
  Wins,          \* final matches a celebrated team won
  NoAuth,
  MaxVisits, MaxSignIns, MaxMarks  \* bounds: page loads, logins tried, marks and skips
                                   \* under way at once

ASSUME ShellAssumption ==
  Nobody \notin Persons /\ MaxVisits \in Nat \ {0} /\ MaxSignIns \in Nat

Whoever == Persons \union {Nobody}
PendingList == [owner : Whoever, wins : SUBSET Wins]

VARIABLES
  cookie,        \* whose session the browser holds
  won, viewed,   \* server: wins so far; viewed[p]: celebration_views
  visits, signIns, viewedBefore,  \* page loads and logins tried, and viewed when the page loaded
  meQ,           \* the query ["me"]
  celQ, celAsker,\* the query ["celebrations"], and its request's session
  auth,          \* the login or logout under way
  dismissed,
  skips,         \* skipped overlays: who saw which wins, until the half second is over
  marks,         \* POSTs celebrations/seen under way
  doubt,         \* history: "some" while the belief may be wrong, "asked" once /me is asked
  played, lost   \* history: the wins each has been shown here, and those of them whose
                 \* mark got lost

shellServer == <<cookie, won, viewed>>
shellTab    == <<meQ, celQ, celAsker, auth, dismissed, skips, marks, doubt>>
shellSeen   == <<played, lost>>
shellVars   == <<shellServer, visits, signIns, viewedBefore, shellTab, shellSeen>>

ASkip == [by : Whoever, wins : SUBSET Wins]
AMark == [by : Whoever, who : Whoever, wins : SUBSET Wins, stored : BOOLEAN]

Me(q) == IF q.data = NoData THEN Nobody ELSE q.data
SignedIn(q) == Me(q) # Nobody

\* ListPendingCelebrations.
Unseen(p) == won \ viewed[p]

\* pending; activeCelebration.
PendingWins(q) == IF q.data = NoData THEN {} ELSE q.data.wins
Celebrates == SignedIn(meQ) /\ ~dismissed /\ PendingWins(celQ) # {}

\* GET /me answers with the session it carries, whenever it is served.
AskMe(q, session) == IF q.flight = "idle" THEN Served(Fetch(q), session) ELSE q

\* A failed query keeps its data; the shell looks at no error.
GivenUp(q) == [Failed(q) EXCEPT !.failed = FALSE]

-----------------------------------------------------------------------------
FreshTab ==
  /\ meQ' = AskMe(Unasked, cookie)
  /\ celQ' = Unasked /\ celAsker' = Nobody
  /\ auth' = NoAuth /\ dismissed' = FALSE
  /\ skips' = {} /\ marks' = {} /\ doubt' = "none"

ShellInit ==
  /\ cookie \in Whoever /\ won = {} /\ viewed = [p \in Persons |-> {}]
  /\ visits = 1 /\ signIns = 0 /\ viewedBefore = viewed
  /\ meQ = AskMe(Unasked, cookie)
  /\ celQ = Unasked /\ celAsker = Nobody
  /\ auth = NoAuth /\ dismissed = FALSE
  /\ skips = {} /\ marks = {} /\ doubt = "none"
  /\ played = viewed /\ lost = viewed

\* What p loses when these of p's marks come to nothing.
LostBy(p, ms) == UNION {k.wins : k \in {m \in ms : m.by = p /\ ~m.stored}}

\* The page is loaded anew: nothing but the cookie is left.
Reload ==
  /\ visits < MaxVisits
  /\ visits' = visits + 1 /\ UNCHANGED signIns /\ viewedBefore' = viewed
  /\ FreshTab
  /\ lost' = [p \in Persons |-> lost[p] \union LostBy(p, marks)]
  /\ UNCHANGED <<shellServer, played>>

\* A match a celebrated team won becomes final.
Win(w) ==
  /\ w \notin won /\ won' = won \union {w}
  /\ UNCHANGED <<cookie, viewed, visits, signIns, viewedBefore, shellTab, shellSeen>>

\* Another device celebrates.
ViewElsewhere(p, w) ==
  /\ w \in Unseen(p) /\ viewed' = [viewed EXCEPT ![p] = @ \union {w}]
  /\ UNCHANGED <<cookie, won, visits, signIns, viewedBefore, shellTab, shellSeen>>

\* But for /me, nothing about the session is under way.
Quiet == auth = NoAuth /\ celQ.flight = "idle" /\ marks = {}

\* Seven days without a request.
Expire ==
  /\ Quiet /\ meQ.flight = "idle"
  /\ cookie # Nobody /\ cookie' = Nobody /\ doubt' = "some"
  /\ UNCHANGED <<won, viewed, visits, signIns, viewedBefore, meQ, celQ, celAsker, auth,
                 dismissed, skips, marks, shellSeen>>

\* A render with me = m: the celebrations are asked for once somebody is signed in.
Render(m, c) ==
  /\ meQ' = m
  /\ celQ' = IF SignedIn(m) /\ ~SignedIn(meQ) THEN Fetch(c) ELSE c
  /\ celAsker' = IF celQ'.flight = "sent" /\ celQ.flight # "sent" THEN cookie' ELSE celAsker

FocusShell ==
  /\ meQ.flight = "idle"
  /\ doubt' = IF doubt = "some" /\ Quiet THEN "asked" ELSE doubt
  /\ meQ' = AskMe(meQ, cookie)
  /\ celQ' = IF SignedIn(meQ) THEN Fetch(celQ) ELSE celQ
  /\ celAsker' = IF celQ'.flight = "sent" /\ celQ.flight # "sent" THEN cookie ELSE celAsker
  /\ UNCHANGED <<shellServer, visits, signIns, viewedBefore, auth, dismissed,
                 skips, marks, shellSeen>>

\* An answer to a session a day old renews the cookie (RequireAuth).
Renews(p) == cookie' = cookie \/ (p # Nobody /\ cookie' = p)

\* Whatever it says, the answer to a /me asked in doubt ends the doubt.
MeComes ==
  /\ meQ.flight = "served" /\ Renews(meQ.answer)
  /\ Render(Arrived(meQ), celQ)
  /\ doubt' = IF doubt = "asked" THEN "none" ELSE doubt
  /\ UNCHANGED <<won, viewed, visits, signIns, viewedBefore, auth, dismissed, skips, marks,
                 shellSeen>>

\* /me fails: what was believed stays.
MeFails ==
  /\ meQ.flight # "idle"
  /\ doubt' = IF doubt = "asked" THEN "some" ELSE doubt
  /\ UNCHANGED <<shellServer, visits, signIns, viewedBefore, auth, dismissed, skips, marks,
                 shellSeen>>
  /\ Render(GivenUp(meQ), celQ)

-----------------------------------------------------------------------------
(* Signing in and out.                                                     *)

SignInAs(p) ==
  /\ ~SignedIn(meQ) /\ ~IsLoading(meQ) /\ auth = NoAuth /\ skips = {}
  /\ signIns < MaxSignIns /\ signIns' = signIns + 1
  /\ auth' = [kind |-> "login", who |-> p, at |-> "sent"]
  /\ UNCHANGED <<shellServer, visits, viewedBefore, meQ, celQ, celAsker,
                 dismissed, skips, marks, doubt, shellSeen>>

\* The profile menu, once it has asked; a celebration covers it.
LogOut ==
  /\ SignedIn(meQ) /\ ~Celebrates /\ auth = NoAuth
  /\ auth' = [kind |-> "logout", who |-> Nobody, at |-> "sent"]
  /\ UNCHANGED <<shellServer, visits, signIns, viewedBefore, meQ, celQ, celAsker,
                 dismissed, skips, marks, doubt, shellSeen>>

\* The server answers; or the rate limiter does, or an error page, which a login
\* takes for no answer.
ServeAuth ==
  /\ auth # NoAuth /\ auth.at = "sent"
  /\ \/ auth' = [auth EXCEPT !.at = "served"]
     \/ auth.kind = "logout" /\ auth' = [auth EXCEPT !.at = "refused"]
  /\ UNCHANGED <<shellServer, visits, signIns, viewedBefore, meQ, celQ, celAsker,
                 dismissed, skips, marks, doubt, shellSeen>>

MutAfterAuth == SetData(meQ, Me(meQ))

\* setQueryData(["me"], ...): a /me in flight is not cancelled.
AfterAuth == SetData(meQ, auth.who)

\* logout() takes any answer for a success; a login must be served.
HearAuth ==
  /\ auth # NoAuth /\ auth.at # "sent"
  /\ cookie' = IF auth.at = "served" THEN auth.who ELSE cookie
  /\ IF auth.at = "served" \/ auth.kind = "logout"
     THEN Render(AfterAuth, celQ)
     ELSE UNCHANGED <<meQ, celQ, celAsker>>
  /\ doubt' = IF \/ meQ.flight # "idle" \/ celQ.flight # "idle" \/ marks # {}
                 \/ auth.kind = "logout" /\ auth.at = "refused"
              THEN "some" ELSE doubt
  /\ auth' = NoAuth
  /\ UNCHANGED <<won, viewed, visits, signIns, viewedBefore, dismissed, skips, marks, shellSeen>>

\* No answer at all: both report it and leave the belief.
AuthLost ==
  /\ auth # NoAuth /\ auth' = NoAuth
  /\ cookie' = IF auth.at = "served" THEN auth.who ELSE cookie
  /\ doubt' = IF auth.at = "served" THEN "some" ELSE doubt
  /\ UNCHANGED <<won, viewed, visits, signIns, viewedBefore, meQ, celQ, celAsker,
                 dismissed, skips, marks, shellSeen>>

-----------------------------------------------------------------------------
(* The celebration.                                                        *)

ServeCelebrations ==
  /\ celQ.flight = "sent" /\ celAsker' = Nobody
  /\ IF celAsker = Nobody
     THEN celQ' = GivenUp(celQ)
     ELSE celQ' = Served(celQ, [owner |-> celAsker, wins |-> Unseen(celAsker)])
  /\ UNCHANGED <<shellServer, visits, signIns, viewedBefore, meQ, auth, dismissed,
                 skips, marks, doubt, shellSeen>>

CelebrationsCome ==
  /\ celAsker' = Nobody
  /\ \/ celQ.flight = "served" /\ celQ' = Arrived(celQ) /\ Renews(celQ.answer.owner)
     \/ celQ.flight # "idle" /\ celQ' = GivenUp(celQ) /\ UNCHANGED cookie
  /\ UNCHANGED <<won, viewed, visits, signIns, viewedBefore, meQ, auth, dismissed,
                 skips, marks, doubt, shellSeen>>

\* "Skip to results": the overlay fades, and its half second runs on even if the
\* overlay goes.
Skip ==
  /\ Celebrates /\ Cardinality(skips) < MaxMarks
  /\ skips' = skips \union {[by |-> Me(meQ), wins |-> PendingWins(celQ)]}
  /\ UNCHANGED <<shellServer, visits, signIns, viewedBefore, meQ, celQ, celAsker, auth,
                 dismissed, marks, doubt, shellSeen>>

MutMarkOf(by, wins) ==
  IF skips # {} THEN {} ELSE {[by |-> by, who |-> cookie, wins |-> wins, stored |-> FALSE]}

\* markSeen.mutate, with the cookie of now.
MarkOf(by, wins) ==
  IF wins = {} THEN {} ELSE {[by |-> by, who |-> cookie, wins |-> wins, stored |-> FALSE]}

\* handleCelebrationDone marks every pending win seen.  A mark sent with another
\* session's cookie is lost to whom the overlay was shown.
Done(by, wins) ==
  /\ Cardinality(marks) < MaxMarks
  /\ dismissed' = TRUE /\ marks' = marks \union MarkOf(by, wins)
  /\ played' = [p \in Persons |-> IF p = by THEN played[p] \union wins ELSE played[p]]
  /\ lost' = [p \in Persons |->
                IF p = by /\ cookie # by THEN lost[p] \union wins ELSE lost[p]]

\* The overlay has played out, or a skipped one's half second is over.
CelebrationDone ==
  /\ \/ Celebrates /\ Done(Me(meQ), PendingWins(celQ)) /\ UNCHANGED skips
     \/ \E k \in skips : Done(k.by, k.wins) /\ skips' = skips \ {k}
  /\ UNCHANGED <<shellServer, visits, signIns, viewedBefore, meQ, celQ, celAsker, auth,
                 doubt>>

ServeMark(k) ==
  /\ ~k.stored /\ k.who # Nobody
  /\ viewed' = [viewed EXCEPT ![k.who] = @ \union k.wins]
  /\ marks' = (marks \ {k}) \union {[k EXCEPT !.stored = TRUE]}
  /\ UNCHANGED <<cookie, won, visits, signIns, viewedBefore, meQ, celQ, celAsker, auth,
                 dismissed, skips, doubt, shellSeen>>

\* A success refetches; a failure is not tried again on this visit.
HearMark(k) ==
  /\ marks' = marks \ {k}
  /\ \/ /\ k.stored /\ Renews(k.who) /\ UNCHANGED lost
        /\ celQ' = IF SignedIn(meQ) THEN Refetch(celQ) ELSE celQ
        /\ celAsker' = IF SignedIn(meQ) THEN cookie' ELSE celAsker
     \/ /\ lost' = [p \in Persons |-> lost[p] \union LostBy(p, {k})]
        /\ UNCHANGED <<cookie, celQ, celAsker>>
  /\ UNCHANGED <<won, viewed, visits, signIns, viewedBefore, meQ, auth, dismissed, skips, doubt,
                 played>>

ShellNext ==
  \/ Reload \/ Expire
  \/ \E w \in Wins : Win(w) \/ \E p \in Persons : ViewElsewhere(p, w)
  \/ FocusShell \/ MeComes \/ MeFails
  \/ \E p \in Persons : SignInAs(p)
  \/ LogOut
  \/ ServeAuth \/ HearAuth \/ AuthLost
  \/ ServeCelebrations \/ CelebrationsCome
  \/ Skip \/ CelebrationDone \/ \E k \in marks : ServeMark(k) \/ HearMark(k)

ShellSpec == ShellInit /\ [][ShellNext]_shellVars

-----------------------------------------------------------------------------
(* Properties.                                                             *)

\* Every variable has its type.
ShellTypeOK ==
  /\ cookie \in Whoever /\ won \subseteq Wins
  /\ viewed \in [Persons -> SUBSET Wins] /\ viewedBefore \in [Persons -> SUBSET Wins]
  /\ played \in [Persons -> SUBSET Wins] /\ lost \in [Persons -> SUBSET Wins]
  /\ visits \in 1 .. MaxVisits /\ signIns \in 0 .. MaxSignIns
  /\ meQ \in Query(Whoever)
  /\ celQ \in Query(PendingList) /\ celAsker \in Whoever
  /\ auth = NoAuth \/ auth \in [kind : {"login", "logout"}, who : Whoever,
                               at : {"sent", "served", "refused"}]
  /\ dismissed \in BOOLEAN /\ doubt \in {"none", "some", "asked"}
  /\ skips \subseteq ASkip /\ marks \subseteq AMark

\* The tab believes in the session the browser holds, once it believes anything.
\* Four things make that doubtful: the session expires; a logout is refused, which
\* the tab takes for done; a login or a logout is served and its answer lost; or one
\* is answered while a /me, a list of celebrations or a mark is under way.  The
\* first /me that is asked after that with nothing else of the session under way,
\* and answered before anything of the kind happens again, sets the belief right,
\* whatever it was (auth.tsx, App.tsx).
BelievedIsSession == meQ.data # NoData /\ doubt = "none" => meQ.data = cookie

\* "once per user per match, across devices": the overlay shows its user no win that
\* was seen and marked elsewhere before this visit, and none that played to its end
\* or was skipped here, unless the mark of it was lost: it failed before it was
\* stored, the page was reloaded before that, or it was sent with another session's
\* cookie.  (The list may be another user's: then nothing is claimed.)
NoEncore ==
  Celebrates /\ celQ.data.owner = Me(meQ) =>
    PendingWins(celQ) \intersect (viewedBefore[Me(meQ)] \union (played[Me(meQ)] \ lost[Me(meQ)]))
      = {}
=============================================================================
