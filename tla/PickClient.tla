------------------------------ MODULE PickClient ------------------------------
(***************************************************************************)
(* One browser tab on the Predictions page: the cached match list          *)
(* (lib/matches.ts), the column with its two views (MatchesColumn) and the *)
(* cards with their steppers and Save button (MatchCard), against a server *)
(* that other devices, the clock and an admin change meanwhile.            *)
(*                                                                         *)
(* A user's stored picks are a log: entry n is the n-th pick the server    *)
(* stored, and a list served after n entries is "upto n".  Handlers of the *)
(* server are one step here; MatchPoints takes them apart.  Every instant  *)
(* of the clock is a calendar day of its own.                              *)
(***************************************************************************)
EXTENDS QueryCache, Integers, Sequences, FiniteSets

CONSTANTS
  Users, Nobody,
  Matches,       \* ids of the fixtures
  Decided,       \* those whose two teams are known
  Knockouts,
  Teams, NoTeam, \* shootout winners
  MaxGoals,      \* 99 in the code
  PickInputs,    \* what other devices save
  Kickoff0,
  Moves,         \* what an admin makes of kickoffs: pairs of a match and an instant
  Window,        \* 72 hours
  PageSize,      \* 6 in the code
  MaxTime, MaxPuts, MaxStored,   \* bounds
  NoPick, NoCard, NoPut

Goals == 0 .. MaxGoals
Pick == [home : Goals, away : Goals, pen : Teams \union {NoTeam}]
Listing == [owner : Users, upto : Nat, pick : [Matches -> Pick \union {NoPick}],
            locked : [Matches -> BOOLEAN], kickoff : [Matches -> Nat]]

Entry == [match : Matches, pick : Pick]
Card == [home : Goals, away : Goals, pen : Teams \union {NoTeam},
         flash : BOOLEAN, job : 0 .. MaxPuts, error : {"none", "locked", "other"}]
Put == [user : Users, match : Matches, pick : Pick, nth : Nat,
        at : {"sent", "stored", "locked", "other"}]

ASSUME PickClientAssumption ==
  /\ Nobody \notin Users /\ NoTeam \notin Teams
  /\ Matches \subseteq Nat /\ Decided \subseteq Matches /\ Knockouts \subseteq Matches
  /\ MaxGoals \in Nat /\ Window \in Nat /\ PageSize \in Nat \ {0}
  /\ Kickoff0 \in [Matches -> Nat] /\ Moves \subseteq Matches \X Nat
  /\ PickInputs \subseteq Pick
  /\ MaxTime \in Nat /\ MaxPuts \in Nat /\ MaxStored \in Nat
  /\ NoPick \notin Pick /\ NoCard \notin Card /\ NoPut \notin Put
  /\ NoData \notin Listing \union Nat

VARIABLES
  now, kickoff,
  log,      \* log[u]: the picks stored for u, oldest first
  user,     \* who is signed in, as the tab believes
  screen,   \* "away", or the view of the matches column
  shown,    \* shownMap: how many matches each view lists
  list,     \* the query ["matches"]
  asker,    \* whose cookie the request in flight carries
  card,     \* card[m]: the editor of a match, while it is mounted
  puts,     \* PUT prediction requests, in the order they were sent
  made,     \* how many were sent
  told      \* history: told[u], newest pick confirmed since the screen was opened

server == <<now, kickoff, log>>
tab    == <<user, screen, shown, list, asker, card, puts, made, told>>
vars   == <<server, tab>>

Views == {"upcoming", "past"}

-----------------------------------------------------------------------------
(* The server.                                                             *)

Kicked(m) == now >= kickoff[m]
Open(m) == ~Kicked(m) /\ kickoff[m] - now <= Window

\* The pick that stands for m after the first n entries.
Standing(u, m, n) ==
  LET mine == {i \in 1 .. n : log[u][i].match = m}
  IN  IF mine = {} THEN NoPick
      ELSE log[u][CHOOSE i \in mine : \A j \in mine : j <= i].pick

ListingFor(u) ==
  [owner |-> u, upto |-> Len(log[u]),
   pick |-> [m \in Matches |-> Standing(u, m, Len(log[u]))],
   locked |-> [m \in Matches |-> Kicked(m)], kickoff |-> kickoff]

\* A pick the handler takes: a shootout winner only with a knockout draw.
Valid(m, p) == p.pen # NoTeam => m \in Knockouts /\ p.home = p.away

-----------------------------------------------------------------------------
(* The column: two views, listed a page at a time.                         *)

InView(d, v) == {m \in Matches : d.locked[m] <=> v = "past"}

Before(d, x, m) ==
  \/ d.kickoff[x] < d.kickoff[m]
  \/ d.kickoff[x] = d.kickoff[m] /\ x < m

Ahead(d, v, m) ==
  {x \in InView(d, v) : IF v = "past" THEN Before(d, m, x) ELSE Before(d, x, m)}

Visible(d, v, n) == {m \in InView(d, v) : Cardinality(Ahead(d, v, m)) < n}

Remaining(d, v, n) == Cardinality(InView(d, v)) - n

\* The column shows matches: otherwise it shows a skeleton, an error, or nothing.
Shows(q, s) == s # "away" /\ q.data # NoData /\ ~q.failed

\* Matches whose editor is mounted.
Mounted(q, s, n) ==
  IF Shows(q, s) /\ s = "upcoming"
  THEN Decided \intersect Visible(q.data, "upcoming", n["upcoming"])
  ELSE {}

MutSeededUndefined(p) ==
  [home |-> IF p = NoPick THEN 0 ELSE p.home,
   away |-> IF p = NoPick THEN 0 ELSE p.away,
   pen  |-> IF p = NoPick THEN NoPick ELSE p.pen,
   flash |-> FALSE, job |-> 0, error |-> "none"]

Seeded(p) ==
  [home |-> IF p = NoPick THEN 0 ELSE p.home,
   away |-> IF p = NoPick THEN 0 ELSE p.away,
   pen  |-> IF p = NoPick THEN NoTeam ELSE p.pen,
   flash |-> FALSE, job |-> 0, error |-> "none"]

\* The next list, screen and page counts.  A card stays mounted, with what was
\* typed into it, while its match stays listed under the same date.
Render(q, s, n) ==
  /\ list' = q /\ screen' = s /\ shown' = n
  /\ card' = [m \in Matches |->
       IF m \notin Mounted(q, s, n) THEN NoCard
       ELSE IF card[m] # NoCard /\ list.data.kickoff[m] = q.data.kickoff[m]
            THEN card[m]
            ELSE Seeded(q.data.pick[m])]

FirstPage == [v \in Views |-> PageSize]

-----------------------------------------------------------------------------
(* A card.                                                                 *)

Draw(c) == c.home = c.away
ShowPenalty(m, c) == m \in Knockouts /\ Draw(c)

Payload(m, c) ==
  [home |-> c.home, away |-> c.away,
   pen |-> IF ShowPenalty(m, c) THEN c.pen ELSE NoTeam]

MutDirtyScoreOnly(m, c) ==
  LET p == list.data.pick[m]
  IN  IF p = NoPick THEN TRUE ELSE <<c.home, c.away>> # <<p.home, p.away>>

Dirty(m, c) == Payload(m, c) # list.data.pick[m]

LockedCard(m, c) == list.data.locked[m] \/ c.error = "locked"
PredOpen(m) == list.data.kickoff[m] - now <= Window

MutTypeWhileSaving(m) ==
  card[m] # NoCard /\ ~LockedCard(m, card[m]) /\ PredOpen(m)

\* The steppers and the shootout buttons take clicks.
Editable(m) ==
  /\ card[m] # NoCard
  /\ ~LockedCard(m, card[m]) /\ PredOpen(m)
  /\ card[m].job = 0

\* The Save button takes a click.
Offers(m) == Editable(m) /\ ~card[m].flash /\ Dirty(m, card[m])

-----------------------------------------------------------------------------
Init ==
  /\ now = 0 /\ kickoff = Kickoff0
  /\ log = [u \in Users |-> <<>>]
  /\ user = Nobody /\ screen = "away" /\ shown = FirstPage
  /\ list = Unasked /\ asker = Nobody
  /\ card = [m \in Matches |-> NoCard]
  /\ puts = [n \in 1 .. MaxPuts |-> NoPut] /\ made = 0
  /\ told = [u \in Users |-> 0]

Tick ==
  /\ now < MaxTime
  /\ now' = now + 1
  /\ UNCHANGED <<kickoff, log, tab>>

MoveKickoff(m, k) ==
  /\ k # kickoff[m]
  /\ kickoff' = [kickoff EXCEPT ![m] = k]
  /\ UNCHANGED <<now, log, tab>>

Stored(u, m, p) == log' = [log EXCEPT ![u] = Append(@, [match |-> m, pick |-> p])]

\* The same user saves on another device.
StoreElsewhere(u, m, p) ==
  /\ Len(log[u]) < MaxStored
  /\ m \in Decided /\ Open(m) /\ Valid(m, p)
  /\ Stored(u, m, p)
  /\ UNCHANGED <<now, kickoff, tab>>

-----------------------------------------------------------------------------
(* Signing in and out, and moving about.  The cache survives all of it.    *)

\* A request sent now carries the cookie of u.
Ask(q, u) == asker' = IF q.flight = "sent" /\ list.flight # "sent" THEN u ELSE asker

SignIn(u) ==
  /\ user = Nobody
  /\ user' = u
  /\ UNCHANGED <<server, screen, shown, list, asker, card, puts, made, told>>

SignOut ==
  /\ user # Nobody
  /\ user' = Nobody
  /\ Render(list, "away", shown)
  /\ told' = [told EXCEPT ![user] = 0]
  /\ UNCHANGED <<server, asker, puts, made>>

OpenMatches ==
  /\ user # Nobody /\ screen = "away"
  /\ Render(Fetch(list), "upcoming", FirstPage)
  /\ Ask(Fetch(list), user)
  /\ UNCHANGED <<server, user, puts, made, told>>

LeaveMatches ==
  /\ screen # "away"
  /\ Render(list, "away", shown)
  /\ told' = [told EXCEPT ![user] = 0]
  /\ UNCHANGED <<server, user, asker, puts, made>>

SwitchView(v) ==
  /\ screen \in Views /\ v # screen
  /\ Render(list, v, shown)
  /\ UNCHANGED <<server, user, asker, puts, made, told>>

LoadMore ==
  /\ Shows(list, screen)
  /\ Remaining(list.data, screen, shown[screen]) > 0
  /\ Render(list, screen, [shown EXCEPT ![screen] = @ + PageSize])
  /\ UNCHANGED <<server, user, asker, puts, made, told>>

\* A cache entry nobody uses is dropped after five minutes, which is longer than
\* any request takes.
Collect ==
  /\ screen = "away" /\ list.flight = "idle" /\ list.data # NoData
  /\ \A n \in 1 .. MaxPuts : puts[n] = NoPut
  /\ list' = Unasked
  /\ UNCHANGED <<server, user, screen, shown, asker, card, puts, made, told>>

-----------------------------------------------------------------------------
(* The list.                                                               *)

Focus ==
  /\ screen # "away" /\ list.flight = "idle"
  /\ Render(Fetch(list), screen, shown)
  /\ Ask(Fetch(list), user)
  /\ UNCHANGED <<server, user, puts, made, told>>

RetryList ==
  /\ screen # "away" /\ list.failed
  /\ Render(Refetch(list), screen, shown)
  /\ asker' = user
  /\ UNCHANGED <<server, user, puts, made, told>>

ServeList ==
  /\ list.flight = "sent"
  /\ list' = Served(list, ListingFor(asker))
  /\ UNCHANGED <<server, user, screen, shown, asker, card, puts, made, told>>

ListArrives ==
  /\ list.flight = "served"
  /\ Render(Arrived(list), screen, shown)
  /\ UNCHANGED <<server, user, asker, puts, made, told>>

ListFails ==
  /\ list.flight # "idle"
  /\ Render(Failed(list), screen, shown)
  /\ UNCHANGED <<server, user, asker, puts, made, told>>

-----------------------------------------------------------------------------
(* Editing and saving.                                                     *)

SetCard(m, c) == card' = [card EXCEPT ![m] = c]

\* PillStepper: the scores its two buttons lead to, Goals bounding them above.
Stepper(v) == {v - 1, v + 1} \intersect Goals

\* Leaving a draw forgets the shootout winner.
Step(m, home, away) ==
  /\ Editable(m)
  /\ \/ home \in Stepper(card[m].home) /\ away = card[m].away
     \/ home = card[m].home /\ away \in Stepper(card[m].away)
  /\ SetCard(m, [card[m] EXCEPT !.home = home, !.away = away,
                               !.pen = IF home = away THEN @ ELSE NoTeam])
  /\ UNCHANGED <<server, user, screen, shown, list, asker, puts, made, told>>

ChooseShootout(m, t) ==
  /\ Editable(m) /\ ShowPenalty(m, card[m])
  /\ SetCard(m, [card[m] EXCEPT !.pen = t])
  /\ UNCHANGED <<server, user, screen, shown, list, asker, puts, made, told>>

Save(m) ==
  /\ made < MaxPuts /\ Offers(m)
  /\ made' = made + 1
  /\ puts' = [puts EXCEPT ![made + 1] =
       [user |-> user, match |-> m, pick |-> Payload(m, card[m]), nth |-> 0, at |-> "sent"]]
  /\ SetCard(m, [card[m] EXCEPT !.job = made + 1, !.error = "none"])
  /\ UNCHANGED <<server, user, screen, shown, list, asker, told>>

\* The server takes a request, or refuses it: locked (409) or not yet open (422).
ServePut(n) ==
  /\ puts[n] # NoPut /\ puts[n].at = "sent"
  /\ LET p == puts[n] IN
       IF Open(p.match) /\ Valid(p.match, p.pick)
       THEN /\ Len(log[p.user]) < MaxStored
            /\ Stored(p.user, p.match, p.pick)
            /\ puts' = [puts EXCEPT ![n].at = "stored", ![n].nth = Len(log[p.user]) + 1]
       ELSE /\ puts' = [puts EXCEPT ![n].at = IF Kicked(p.match) THEN "locked" ELSE "other"]
            /\ UNCHANGED log
  /\ UNCHANGED <<now, kickoff, user, screen, shown, list, asker, card, made, told>>

\* The card that sent request n, if it is still there.
Resolve(c, n, flash, error) ==
  [m \in Matches |->
     IF c[m] # NoCard /\ c[m].job = n
     THEN [c[m] EXCEPT !.job = 0, !.flash = flash, !.error = error]
     ELSE c[m]]

MutNoInvalidate(q) == q

Invalidated(q) == IF screen = "away" THEN q ELSE Refetch(q)

\* A confirmation invalidates the list; the flash is the card's alone.
HearStored(n) ==
  /\ puts[n] # NoPut /\ puts[n].at = "stored"
  /\ list' = Invalidated(list)
  /\ asker' = IF screen # "away" /\ Anew(list) THEN user ELSE asker
  /\ card' = Resolve(card, n, TRUE, "none")
  /\ told' = IF screen # "away" /\ puts[n].user = user /\ puts[n].nth > told[user]
             THEN [told EXCEPT ![user] = puts[n].nth] ELSE told
  /\ puts' = [puts EXCEPT ![n] = NoPut]
  /\ UNCHANGED <<server, user, screen, shown, made>>

\* A refusal, or an answer that is lost whatever the server did.
HearError(n, error) ==
  /\ puts[n] # NoPut
  /\ error = "other" \/ error = puts[n].at
  /\ card' = Resolve(card, n, FALSE, error)
  /\ puts' = [puts EXCEPT ![n] = NoPut]
  /\ UNCHANGED <<server, user, screen, shown, list, asker, made, told>>

\* 1.6 seconds after a save.
FlashEnds(m) ==
  /\ card[m] # NoCard /\ card[m].flash
  /\ SetCard(m, [card[m] EXCEPT !.flash = FALSE])
  /\ UNCHANGED <<server, user, screen, shown, list, asker, puts, made, told>>

-----------------------------------------------------------------------------
Next ==
  \/ Tick
  \/ \E v \in Moves : MoveKickoff(v[1], v[2])
  \/ \E u \in Users, m \in Matches, p \in PickInputs : StoreElsewhere(u, m, p)
  \/ \E u \in Users : SignIn(u)
  \/ SignOut \/ OpenMatches \/ LeaveMatches \/ LoadMore \/ Collect
  \/ \E v \in Views : SwitchView(v)
  \/ Focus \/ RetryList \/ ServeList \/ ListArrives \/ ListFails
  \/ \E m \in Matches, h, a \in Goals : Step(m, h, a)
  \/ \E m \in Matches, t \in Teams : ChooseShootout(m, t)
  \/ \E m \in Matches : Save(m) \/ FlashEnds(m)
  \/ \E n \in 1 .. MaxPuts : ServePut(n) \/ HearStored(n)
  \/ \E n \in 1 .. MaxPuts, e \in {"locked", "other"} : HearError(n, e)

\* Requests of the list are answered and answers arrive, or fail for good.
ListFairness == WF_vars(ServeList) /\ WF_vars(ListArrives \/ ListFails)

Spec == Init /\ [][Next]_vars
FairSpec == Spec /\ ListFairness

-----------------------------------------------------------------------------
(* Properties.                                                             *)

\* Every variable has its type.
TypeOK ==
  /\ now \in Nat /\ kickoff \in [Matches -> Nat]
  /\ log \in [Users -> Seq(Entry)]
  /\ user \in Users \union {Nobody} /\ asker \in Users \union {Nobody}
  /\ screen \in Views \union {"away"} /\ shown \in [Views -> Nat]
  /\ list \in Query(Listing)
  /\ card \in [Matches -> Card \union {NoCard}]
  /\ puts \in [1 .. MaxPuts -> Put \union {NoPut}]
  /\ made \in 0 .. MaxPuts
  /\ told \in [Users -> Nat]

\* While a card says "Saving", it shows the very pick that is on its way
\* (MatchCard: every control is disabled while the mutation is pending).
SavingShowsWhatIsSent ==
  \A m \in Matches : card[m] # NoCard /\ card[m].job # 0 =>
    /\ puts[card[m].job] # NoPut
    /\ puts[card[m].job].match = m
    /\ puts[card[m].job].pick = Payload(m, card[m])

\* A card never keeps an edit to itself: whatever was saved elsewhere, refetched,
\* refused or lost on the way, a card that differs from the pick the server stored
\* when the list was served offers to save it, unless its own save is on the way,
\* it still says "Saved" (1.6 seconds), or saving is over or not yet open (locked by
\* the list or by a refusal, before the 72 hours), which the card says (MatchCard:
\* dirty and the Save button).
UnsavedIsOffered ==
  \A m \in Matches : card[m] # NoCard =>
    \/ Payload(m, card[m]) = Standing(list.data.owner, m, list.data.upto)
    \/ Offers(m)
    \/ card[m].job # 0 \/ card[m].flash
    \/ LockedCard(m, card[m]) \/ ~PredOpen(m)

\* What a screen shows of a user's picks.
View(u) ==
  IF Shows(list, screen) /\ user = u /\ list.data.owner = u
  THEN list.data.upto ELSE NoData

Register == INSTANCE PickRegister
  WITH latest <- [u \in Users |-> Len(log[u])], told <- told,
       view <- [u \in Users |-> View(u)], Blank <- NoData

\* Whatever is sent, dropped, refetched and saved elsewhere, the picks on the
\* screen never go back in time, and never behind a confirmed save (matches.ts:
\* the invalidation after a save drops the request in flight).
PicksNeverGoBack == Register!Spec

\* The screen is behind a save it was told of.
Behind(u) == View(u) # NoData /\ View(u) < told[u]

\* The screen catches up with every confirmed save, or says that it cannot load
\* (matches.ts: onSuccess invalidates the list).
CatchesUp == \A u \in Users : Behind(u) ~> ~Behind(u)

\* "Other participants' predictions for a match are hidden until that match
\* locks": a card of an open match shows no pick but the signed-in user's own.
OwnPicksOnly ==
  \A m \in Matches : card[m] # NoCard /\ list.data.pick[m] # NoPick =>
    list.data.owner = user
=============================================================================
