-------------------------- MODULE PickClient_proofs --------------------------
(***************************************************************************)
(* Theorems about PickClient, for any users, matches, bounds and window:   *)
(* type correctness, and that the client implements PickRegister.          *)
(***************************************************************************)
EXTENDS PickClient, WellFoundedInduction, TLAPS

-----------------------------------------------------------------------------
(* Lists and logs.                                                         *)

\* A set of positions has a last one.
LEMMA LastExists ==
  ASSUME NEW n \in Nat, NEW S \in SUBSET (1 .. n), S # {}
  PROVE  \E i \in S : \A j \in S : j <= i
<1> DEFINE T == {k \in Nat : \E i \in S : k = n - i}
<1>1. T \subseteq Nat /\ T # {}
  <2>1. PICK i \in S : TRUE
    OBVIOUS
  <2>2. n - i \in T
    BY <2>1
  <2> QED
    BY <2>2
<1>2. IsWellFoundedOn(OpToRel(<, Nat), Nat)
  BY NatLessThanWellFounded
<1> HIDE DEF T
<1>3. PICK x \in T : \A y \in T : ~(<<y, x>> \in OpToRel(<, Nat))
  BY <1>1, <1>2, WFMin
<1>4. \A y \in T : ~(y < x)
  BY <1>1, <1>3 DEF OpToRel
<1>5. PICK i \in S : x = n - i
  BY <1>3 DEF T
<1>6. \A j \in S : n - j \in T
  BY DEF T
<1>7. \A j \in S : j <= i
  BY <1>4, <1>5, <1>6
<1> QED
  BY <1>7

LEMMA StandingType ==
  ASSUME NEW u \in Users, NEW m, NEW n, log[u] \in Seq(Entry), n \in 0 .. Len(log[u])
  PROVE  Standing(u, m, n) \in Pick \union {NoPick}
<1> DEFINE mine == {i \in 1 .. n : log[u][i].match = m}
           last == CHOOSE i \in mine : \A j \in mine : j <= i
<1>1. CASE mine = {}
  BY <1>1 DEF Standing
<1>2. CASE mine # {}
  <2>0. n \in Nat /\ mine \in SUBSET (1 .. n) /\ Len(log[u]) \in Nat /\ n <= Len(log[u])
    OBVIOUS
  <2> HIDE DEF mine
  <2>1. \E i \in mine : \A j \in mine : j <= i
    BY <1>2, <2>0, LastExists
  <2>2. last \in mine
    BY <2>1
  <2> HIDE DEF last
  <2>3. last \in 1 .. Len(log[u])
    BY <2>0, <2>2
  <2>4. log[u][last] \in Entry
    BY <2>3
  <2>5. Standing(u, m, n) = log[u][last].pick
    BY <1>2 DEF Standing, mine, last
  <2> QED
    BY <2>4, <2>5 DEF Entry
<1> QED
  BY <1>1, <1>2

LEMMA ListingType ==
  ASSUME TypeOK, NEW u \in Users
  PROVE  ListingFor(u) \in Listing
<1>1. Len(log[u]) \in Nat /\ log[u] \in Seq(Entry)
  BY DEF TypeOK
<1>2. \A m \in Matches : Standing(u, m, Len(log[u])) \in Pick \union {NoPick}
  BY <1>1, StandingType
<1>3. [m \in Matches |-> Standing(u, m, Len(log[u]))] \in [Matches -> Pick \union {NoPick}]
  BY <1>2
<1>4. [m \in Matches |-> Kicked(m)] \in [Matches -> BOOLEAN] /\ kickoff \in [Matches -> Nat]
  BY DEF Kicked, TypeOK
<1> QED
  BY <1>1, <1>3, <1>4 DEF ListingFor, Listing

\* Appending to a user's log makes it one longer, and leaves the others' alone.
LEMMA StoredGrows ==
  ASSUME log \in [Users -> Seq(Entry)], NEW u \in Users, NEW m \in Matches, NEW p \in Pick,
         Stored(u, m, p)
  PROVE  /\ log' \in [Users -> Seq(Entry)] /\ Len(log'[u]) = Len(log[u]) + 1
         /\ \A v \in Users : v # u => log'[v] = log[v]
         /\ \A v \in Users : /\ Len(log[v]) \in Nat /\ Len(log'[v]) \in Nat
                             /\ Len(log'[v]) >= Len(log[v])
<1> DEFINE e == [match |-> m, pick |-> p]
<1>1. e \in Entry
  BY DEF Entry
<1> HIDE DEF e
<1>2. log' = [log EXCEPT ![u] = Append(log[u], e)]
  BY DEF Stored, e
<1>3. Append(log[u], e) \in Seq(Entry) /\ Len(Append(log[u], e)) = Len(log[u]) + 1
  BY <1>1
<1>4. log' \in [Users -> Seq(Entry)] /\ log'[u] = Append(log[u], e)
  BY <1>2, <1>3
<1>5. \A v \in Users : v # u => log'[v] = log[v]
  BY <1>2
<1>6. \A v \in Users : Len(log[v]) \in Nat
  OBVIOUS
<1>7. Len(log'[u]) = Len(log[u]) + 1
  BY <1>3, <1>4
<1>8. \A v \in Users : Len(log'[v]) \in Nat /\ Len(log'[v]) >= Len(log[v])
  BY <1>5, <1>6, <1>7
<1> QED
  BY <1>4, <1>5, <1>6, <1>7, <1>8

-----------------------------------------------------------------------------
(* The operations of a query.                                              *)

\* Sending a query anew keeps what it shows.
LEMMA SentKeeps ==
  ASSUME NEW D, NEW q \in Query(D)
  PROVE  /\ Sent(q) \in Query(D) /\ Sent(q).flight = "sent" /\ Sent(q).data = q.data
         /\ \A s : Shows(Sent(q), s) <=> Shows(q, s)
<1>1. Sent(q) \in Query(D)
  BY DEF Query, Flights, Sent
<1>2. /\ Sent(q).flight = "sent" /\ Sent(q).data = q.data
      /\ Sent(q).failed <=> q.failed /\ q.data # NoData
  BY DEF Query, Sent
<1> QED
  BY <1>1, <1>2 DEF Shows

LEMMA ServedKeeps ==
  ASSUME NEW D, NEW q \in Query(D), NEW v \in D
  PROVE  /\ Served(q, v) \in Query(D) /\ Served(q, v).flight = "served"
         /\ Served(q, v).data = q.data /\ Served(q, v).answer = v
         /\ \A s : Shows(Served(q, v), s) <=> Shows(q, s)
<1>1. Served(q, v) \in Query(D)
  BY DEF Query, Flights, Served
<1>2. /\ Served(q, v).flight = "served" /\ Served(q, v).data = q.data
      /\ Served(q, v).answer = v /\ Served(q, v).failed = q.failed
  BY DEF Query, Served
<1> QED
  BY <1>1, <1>2 DEF Shows

LEMMA FailedHides ==
  ASSUME NEW D, NEW q \in Query(D)
  PROVE  /\ Failed(q) \in Query(D) /\ Failed(q).flight = "idle" /\ Failed(q).data = q.data
         /\ \A s : ~Shows(Failed(q), s)
<1>1. Failed(q) \in Query(D)
  BY DEF Query, Flights, Failed
<1>2. Failed(q).flight = "idle" /\ Failed(q).data = q.data /\ Failed(q).failed
  BY DEF Query, Failed
<1> QED
  BY <1>1, <1>2 DEF Shows

LEMMA ArrivedShows ==
  ASSUME NEW D, NEW q \in Query(D)
  PROVE  /\ Arrived(q) \in Query(D) /\ Arrived(q).flight = "idle" /\ Arrived(q).data = q.answer
         /\ \A s : Shows(Arrived(q), s) <=> s # "away" /\ q.answer # NoData
BY DEF Query, Flights, Shows, Arrived

-----------------------------------------------------------------------------
(* Type correctness needs to know who is asking.                             *)

SessionOK == user = Nobody => screen = "away"

AskerOK == list.flight = "sent" => asker \in Users

CardsOK == \A m \in Matches : card[m] # NoCard => Shows(list, screen)

LEMMA SignedIn ==
  ASSUME TypeOK, SessionOK, screen # "away"
  PROVE  user \in Users /\ screen \in Views
BY DEF TypeOK, SessionOK

LEMMA UnaskedType == Unasked \in Query(Listing)
BY DEF Unasked, Query, Flights

LEMMA SeededType == ASSUME NEW p \in Pick \union {NoPick} PROVE Seeded(p) \in Card
BY PickClientAssumption DEF Seeded, Pick, Card, Goals

\* Rendering mounts cards that have their type, and none where nothing is shown.
LEMMA RenderType ==
  ASSUME TypeOK, NEW q \in Query(Listing), NEW s, NEW n, Render(q, s, n)
  PROVE  /\ list' = q /\ screen' = s /\ shown' = n
         /\ card' \in [Matches -> Card \union {NoCard}]
         /\ \A m \in Matches : card'[m] # NoCard => Shows(q, s)
<1>1. \A m \in Mounted(q, s, n) : q.data \in Listing /\ Shows(q, s)
  BY DEF Mounted, Query, Shows
<1>2. \A m \in Matches : m \in Mounted(q, s, n) => Seeded(q.data.pick[m]) \in Card
  BY <1>1, SeededType DEF Listing
<1>3. \A m \in Matches : card[m] \in Card \union {NoCard}
  BY DEF TypeOK
<1> QED
  BY <1>1, <1>2, <1>3 DEF Render

LEMMA PayloadType ==
  ASSUME NEW m, NEW c \in Card
  PROVE  Payload(m, c) \in Pick
BY DEF Payload, Card, Pick

LEMMA SetCardType ==
  ASSUME TypeOK, NEW m \in Matches, NEW c \in Card, SetCard(m, c)
  PROVE  card' \in [Matches -> Card \union {NoCard}]
BY DEF TypeOK, SetCard

TypeInv == TypeOK /\ SessionOK /\ AskerOK /\ CardsOK

LEMMA TypeInit == Init => TypeInv
<1> SUFFICES ASSUME Init PROVE TypeInv
  OBVIOUS
<1> USE DEF Init
<1>1. log \in [Users -> Seq(Entry)] /\ told \in [Users -> Nat]
  OBVIOUS
<1>2. list \in Query(Listing) /\ list.flight # "sent"
  BY UnaskedType DEF Unasked
<1>3. kickoff \in [Matches -> Nat] /\ now \in Nat /\ made \in 0 .. MaxPuts
  BY PickClientAssumption
<1>4. shown \in [Views -> Nat]
  BY PickClientAssumption DEF FirstPage
<1>5. card \in [Matches -> Card \union {NoCard}] /\ puts \in [1 .. MaxPuts -> Put \union {NoPut}]
  OBVIOUS
<1> QED
  BY <1>1, <1>2, <1>3, <1>4, <1>5 DEF TypeInv, TypeOK, SessionOK, AskerOK, CardsOK

\* What the tab's screen does: render a query that has its type.
LEMMA ScreenSteps ==
  ASSUME TypeInv, UNCHANGED server, UNCHANGED <<puts, made>>,
         NEW q \in Query(Listing), NEW s \in Views \union {"away"}, NEW n \in [Views -> Nat],
         Render(q, s, n),
         user' \in Users \union {Nobody}, user' = Nobody => s = "away",
         asker' \in Users \union {Nobody}, q.flight = "sent" => asker' \in Users,
         told' \in [Users -> Nat]
  PROVE  TypeInv'
<1> USE DEF TypeInv
<1>1. /\ list' = q /\ screen' = s /\ shown' = n
      /\ card' \in [Matches -> Card \union {NoCard}]
      /\ CardsOK'
  BY RenderType DEF CardsOK
<1> QED
  BY <1>1 DEF TypeOK, server, SessionOK, AskerOK, CardsOK

LEMMA TypeNext == TypeInv /\ [Next]_vars => TypeInv'
<1> SUFFICES ASSUME TypeInv, [Next]_vars PROVE TypeInv'
  OBVIOUS
<1> USE DEF TypeInv
<1>0. /\ list \in Query(Listing) /\ shown \in [Views -> Nat] /\ told \in [Users -> Nat]
      /\ user \in Users \union {Nobody} /\ asker \in Users \union {Nobody}
      /\ screen \in Views \union {"away"}
  BY DEF TypeOK
<1>a. Fetch(list) \in Query(Listing) /\ Refetch(list) \in Query(Listing)
  BY <1>0, SentKeeps DEF Fetch, Refetch
<1>b. \A v : user \in Users => [told EXCEPT ![user] = 0] \in [Users -> Nat]
  BY <1>0
<1>1. CASE UNCHANGED vars
  BY <1>1 DEF vars, server, tab, TypeOK, SessionOK, AskerOK, CardsOK
<1>2. CASE Tick \/ \E v \in Moves : MoveKickoff(v[1], v[2])
  <2>1. now' \in Nat /\ kickoff' \in [Matches -> Nat] /\ UNCHANGED <<log, tab>>
    BY <1>2, PickClientAssumption DEF Tick, MoveKickoff, TypeOK
  <2> QED
    BY <2>1 DEF tab, TypeOK, SessionOK, AskerOK, CardsOK
<1>3. ASSUME NEW u \in Users, NEW m \in Matches, NEW p \in PickInputs, StoreElsewhere(u, m, p)
      PROVE  TypeInv'
  <2>1. p \in Pick /\ Stored(u, m, p) /\ UNCHANGED <<now, kickoff, tab>>
    BY <1>3, PickClientAssumption DEF StoreElsewhere
  <2>2. log' \in [Users -> Seq(Entry)]
    BY <2>1, StoredGrows DEF TypeOK
  <2> QED
    BY <2>1, <2>2 DEF tab, TypeOK, SessionOK, AskerOK, CardsOK
<1>4. ASSUME NEW u \in Users, SignIn(u) PROVE TypeInv'
  BY <1>4, PickClientAssumption DEF SignIn, server, TypeOK, SessionOK, AskerOK, CardsOK
<1>5. CASE SignOut
  <2>1. user \in Users
    BY <1>0, <1>5 DEF SignOut
  <2> QED
    BY <1>0, <1>5, <1>b, <2>1, ScreenSteps DEF SignOut, AskerOK
<1>6. CASE OpenMatches
  <2>1. user \in Users /\ FirstPage \in [Views -> Nat]
    BY <1>0, <1>6, PickClientAssumption DEF OpenMatches, FirstPage
  <2>2. asker' \in Users \union {Nobody} /\ (Fetch(list).flight = "sent" => asker' \in Users)
    BY <1>0, <1>6, <2>1 DEF OpenMatches, Ask, AskerOK
  <2>3. user' = user /\ user' # Nobody /\ UNCHANGED <<server, puts, made, told>>
    BY <1>6 DEF OpenMatches
  <2> QED
    BY <1>0, <1>6, <1>a, <2>1, <2>2, <2>3, ScreenSteps DEF OpenMatches, Views
<1>7. CASE LeaveMatches
  <2>1. user \in Users
    BY <1>7, SignedIn DEF LeaveMatches
  <2> QED
    BY <1>0, <1>7, <1>b, <2>1, ScreenSteps DEF LeaveMatches, AskerOK
<1>8. ASSUME NEW v \in Views, SwitchView(v) PROVE TypeInv'
  <2>1. user \in Users
    BY <1>8, SignedIn DEF SwitchView, Views
  <2> QED
    BY <1>0, <1>8, <2>1, PickClientAssumption, ScreenSteps DEF SwitchView, AskerOK
<1>9. CASE LoadMore
  <2>1. user \in Users /\ screen \in Views
    BY <1>9, SignedIn DEF LoadMore, Shows
  <2>2. [shown EXCEPT ![screen] = @ + PageSize] \in [Views -> Nat]
    BY <1>0, <2>1, PickClientAssumption
  <2>3. Render(list, screen, [shown EXCEPT ![screen] = @ + PageSize])
        /\ UNCHANGED <<server, user, asker, puts, made, told>>
    BY <1>9 DEF LoadMore
  <2> QED
    BY <1>0, <2>1, <2>2, <2>3, PickClientAssumption, ScreenSteps DEF AskerOK
<1>10. CASE Collect
  <2>1. \A m \in Matches : card[m] = NoCard
    BY <1>10 DEF Collect, CardsOK, Shows
  <2> QED
    BY <1>10, <2>1, UnaskedType DEF Collect, server, TypeOK, SessionOK, AskerOK, CardsOK, Unasked
<1>11. CASE Focus
  <2>1. user \in Users /\ screen \in Views
    BY <1>11, SignedIn DEF Focus
  <2>2. asker' \in Users \union {Nobody} /\ (Fetch(list).flight = "sent" => asker' \in Users)
    BY <1>0, <1>11, <2>1 DEF Focus, Ask, AskerOK
  <2>3. UNCHANGED <<server, user, puts, made, told>> /\ Render(Fetch(list), screen, shown)
    BY <1>11 DEF Focus
  <2> QED
    BY <1>0, <1>a, <2>1, <2>2, <2>3, PickClientAssumption, ScreenSteps
<1>12. CASE RetryList
  <2>1. user \in Users /\ screen \in Views
    BY <1>12, SignedIn DEF RetryList
  <2>2. UNCHANGED <<server, user, puts, made, told>> /\ Render(Refetch(list), screen, shown)
        /\ asker' = user
    BY <1>12 DEF RetryList
  <2> QED
    BY <1>0, <1>a, <2>1, <2>2, PickClientAssumption, ScreenSteps
<1>13. CASE ServeList
  <2>1. asker \in Users /\ ListingFor(asker) \in Listing
    BY <1>13, ListingType DEF ServeList, AskerOK
  <2>2. list' \in Query(Listing) /\ list'.flight = "served"
        /\ \A s : Shows(list', s) <=> Shows(list, s)
    BY <1>0, <1>13, <2>1, ServedKeeps DEF ServeList
  <2> QED
    BY <1>13, <2>2 DEF ServeList, server, TypeOK, SessionOK, AskerOK, CardsOK
<1>14. CASE ListArrives \/ ListFails
  <2>1. PICK q \in {Arrived(list), Failed(list)} : Render(q, screen, shown)
    BY <1>14 DEF ListArrives, ListFails
  <2>2. q \in Query(Listing) /\ q.flight # "sent"
    BY <1>0, <2>1, ArrivedShows, FailedHides
  <2>3. UNCHANGED <<server, user, asker, puts, made, told>>
    BY <1>14 DEF ListArrives, ListFails
  <2>4. user' = Nobody => screen = "away"
    BY <2>3 DEF SessionOK
  <2> QED
    BY <1>0, <2>1, <2>2, <2>3, <2>4, ScreenSteps
<1>15. ASSUME NEW m \in Matches, NEW c \in Card, SetCard(m, c),
              UNCHANGED <<server, user, screen, shown, list, asker, told>>, card[m] # NoCard,
              puts' \in [1 .. MaxPuts -> Put \union {NoPut}], made' \in 0 .. MaxPuts
       PROVE  TypeInv'
  <2>1. Shows(list, screen) => CardsOK'
    BY <1>15 DEF CardsOK
  <2> QED
    BY <1>15, <2>1, SetCardType DEF server, TypeOK, SessionOK, AskerOK, CardsOK
<1>16. ASSUME NEW m \in Matches, NEW h \in Goals, NEW a \in Goals, Step(m, h, a) PROVE TypeInv'
  <2>1. card[m] # NoCard /\ card[m] \in Card
    BY <1>16 DEF Step, Editable, TypeOK
  <2>2. [card[m] EXCEPT !.home = h, !.away = a, !.pen = IF h = a THEN @ ELSE NoTeam] \in Card
    BY <2>1 DEF Card
  <2> QED
    BY <1>15, <1>16, <2>1, <2>2 DEF Step, TypeOK
<1>17. ASSUME NEW m \in Matches, NEW t \in Teams, ChooseShootout(m, t) PROVE TypeInv'
  <2>1. card[m] # NoCard /\ card[m] \in Card
    BY <1>17 DEF ChooseShootout, Editable, TypeOK
  <2>2. [card[m] EXCEPT !.pen = t] \in Card
    BY <2>1 DEF Card
  <2> QED
    BY <1>15, <1>17, <2>1, <2>2 DEF ChooseShootout, TypeOK
<1>18. ASSUME NEW m \in Matches, Save(m) PROVE TypeInv'
  <2>1. card[m] # NoCard /\ card[m] \in Card
    BY <1>18 DEF Save, Offers, Editable, TypeOK
  <2>2. user \in Users /\ made + 1 \in 1 .. MaxPuts
    <3>1. screen # "away"
      BY <2>1 DEF CardsOK, Shows
    <3>2. made \in 0 .. MaxPuts /\ made < MaxPuts
      BY <1>18 DEF Save, TypeOK
    <3> QED
      BY <3>1, <3>2, SignedIn, PickClientAssumption
  <2>3. [card[m] EXCEPT !.job = made + 1, !.error = "none"] \in Card
    <3>1. made + 1 \in 0 .. MaxPuts
      BY <2>2, PickClientAssumption
    <3> QED
      BY <2>1, <3>1 DEF Card
  <2> DEFINE put == [user |-> user, match |-> m, pick |-> Payload(m, card[m]),
                     nth |-> 0, at |-> "sent"]
  <2>4. put \in Put
    BY <2>1, <2>2, PayloadType DEF Put
  <2> HIDE DEF put
  <2>5. puts' = [puts EXCEPT ![made + 1] = put] /\ made' = made + 1
    BY <1>18 DEF Save, put
  <2>6. puts' \in [1 .. MaxPuts -> Put \union {NoPut}] /\ made' \in 0 .. MaxPuts
    BY <2>2, <2>4, <2>5 DEF TypeOK
  <2>7. SetCard(m, [card[m] EXCEPT !.job = made + 1, !.error = "none"])
        /\ UNCHANGED <<server, user, screen, shown, list, asker, told>>
    BY <1>18 DEF Save
  <2> QED
    BY <1>15, <2>1, <2>3, <2>6, <2>7
<1>19. ASSUME NEW m \in Matches, FlashEnds(m) PROVE TypeInv'
  <2>1. card[m] # NoCard /\ card[m] \in Card
    BY <1>19 DEF FlashEnds, TypeOK
  <2>2. [card[m] EXCEPT !.flash = FALSE] \in Card
    BY <2>1 DEF Card
  <2> QED
    BY <1>15, <1>19, <2>1, <2>2 DEF FlashEnds, TypeOK
<1>20. ASSUME NEW n \in 1 .. MaxPuts, ServePut(n) PROVE TypeInv'
  <2>1. puts[n] \in Put
    BY <1>20 DEF ServePut, TypeOK
  <2>2. /\ UNCHANGED <<now, kickoff, user, screen, shown, list, asker, card, made, told>>
        /\ log' \in [Users -> Seq(Entry)]
    BY <1>20, <2>1, StoredGrows DEF ServePut, TypeOK, Put
  <2>3. puts' \in [1 .. MaxPuts -> Put \union {NoPut}]
    <3>1. \A k \in Nat : [puts[n] EXCEPT !.at = "stored", !.nth = k] \in Put
      BY <2>1 DEF Put
    <3>2. \A r \in {"locked", "other"} : [puts[n] EXCEPT !.at = r] \in Put
      BY <2>1 DEF Put
    <3>3. Len(log[puts[n].user]) + 1 \in Nat
      BY <2>1 DEF Put, TypeOK
    <3>4. \/ puts' = [puts EXCEPT ![n] = [puts[n] EXCEPT !.at = "stored",
                                            !.nth = Len(log[puts[n].user]) + 1]]
          \/ \E r \in {"locked", "other"} : puts' = [puts EXCEPT ![n] = [puts[n] EXCEPT !.at = r]]
      BY <1>20 DEF ServePut, TypeOK
    <3> QED
      BY <3>1, <3>2, <3>3, <3>4 DEF TypeOK
  <2> QED
    BY <2>2, <2>3 DEF TypeOK, SessionOK, AskerOK, CardsOK
<1>21. ASSUME NEW n, NEW f \in BOOLEAN, NEW e \in {"none", "locked", "other"},
              card' = Resolve(card, n, f, e)
       PROVE  /\ card' \in [Matches -> Card \union {NoCard}]
              /\ \A m \in Matches : card'[m] # NoCard => card[m] # NoCard
  <2>1. \A m \in Matches : card[m] \in Card \union {NoCard}
    BY DEF TypeOK
  <2>2. ASSUME NEW m \in Matches, card[m] # NoCard
        PROVE  [card[m] EXCEPT !.job = 0, !.flash = f, !.error = e] \in Card
    <3>1. 0 \in 0 .. MaxPuts /\ card[m] \in Card
      BY <2>1, <2>2, PickClientAssumption
    <3> QED
      BY <3>1 DEF Card
  <2>3. \A m \in Matches : card'[m] = IF card[m] # NoCard /\ card[m].job = n
          THEN [card[m] EXCEPT !.job = 0, !.flash = f, !.error = e] ELSE card[m]
    BY <1>21 DEF Resolve
  <2>4. \A m \in Matches : card'[m] \in Card \union {NoCard}
                         /\ (card'[m] # NoCard => card[m] # NoCard)
    BY <2>1, <2>2, <2>3
  <2> QED
    BY <1>21, <2>4 DEF Resolve
<1>22. ASSUME NEW n \in 1 .. MaxPuts,
              HearStored(n) \/ \E e \in {"locked", "other"} : HearError(n, e)
       PROVE  TypeInv'
  <2>1. PICK f \in BOOLEAN, e \in {"none", "locked", "other"} : card' = Resolve(card, n, f, e)
    BY <1>22 DEF HearStored, HearError
  <2>2. /\ card' \in [Matches -> Card \union {NoCard}]
        /\ \A m \in Matches : card'[m] # NoCard => card[m] # NoCard
    BY <1>21, <2>1
  <2>3. puts' \in [1 .. MaxPuts -> Put \union {NoPut}] /\ UNCHANGED <<server, user, screen, shown, made>>
    BY <1>22 DEF HearStored, HearError, TypeOK
  <2>4. told' \in [Users -> Nat]
    BY <1>22 DEF HearStored, HearError, TypeOK, Put
  <2>5. list' \in Query(Listing) /\ (Shows(list, screen) => Shows(list', screen))
    BY <1>0, <1>22, <1>a, SentKeeps DEF HearStored, HearError, Invalidated, Refetch
  <2>6. asker' \in Users \union {Nobody} /\ AskerOK'
    BY <1>0, <1>22, SignedIn, SentKeeps
    DEF HearStored, HearError, Invalidated, Refetch, AskerOK
  <2> QED
    BY <2>2, <2>3, <2>4, <2>5, <2>6 DEF server, TypeOK, SessionOK, CardsOK
<1> QED
  BY <1>1, <1>2, <1>3, <1>4, <1>5, <1>6, <1>7, <1>8, <1>9, <1>10, <1>11, <1>12, <1>13, <1>14,
     <1>16, <1>17, <1>18, <1>19, <1>20, <1>22 DEF Next

\* Every variable keeps its type (PickClient).
THEOREM PickClientTypeCorrect == Spec => []TypeOK
<1>1. Spec => []TypeInv
  BY TypeInit, TypeNext, PTL DEF Spec
<1>2. TypeInv => TypeOK
  BY DEF TypeInv
<1> QED
  BY <1>1, <1>2, PTL

-----------------------------------------------------------------------------
(* The invariant behind the refinement: nothing on the tab is ahead of the   *)
(* log, and an answer on its way is behind neither what is shown nor what    *)
(* the screen was told, because being told drops the request in flight.      *)

\* A list of a user is of some moment of his log.
Dated(d) == d.upto <= Len(log[d.owner])

ToldOK ==
  \A u \in Users : /\ told[u] <= Len(log[u])
                   /\ told[u] # 0 => u = user /\ screen # "away"

ListOK ==
  /\ list.data # NoData => Dated(list.data)
  /\ list.flight = "served" =>
       /\ list.answer \in Listing /\ Dated(list.answer)
       /\ list.data # NoData /\ list.data.owner = list.answer.owner
            => list.data.upto <= list.answer.upto
       /\ screen # "away" /\ list.answer.owner = user => told[user] <= list.answer.upto

PutOK(n) ==
  puts[n] # NoPut =>
    /\ list.data # NoData
    /\ puts[n].at = "stored" => puts[n].nth <= Len(log[puts[n].user])

PutsOK == \A n \in 1 .. MaxPuts : PutOK(n)

ClientInv == TypeInv /\ ToldOK /\ ListOK /\ PutsOK

LEMMA ClientInit == Init => ClientInv
<1> SUFFICES ASSUME Init PROVE ClientInv
  OBVIOUS
<1>1. TypeInv
  BY TypeInit
<1>2. ToldOK /\ ListOK /\ PutsOK
  BY DEF Init, ToldOK, ListOK, Unasked, PutsOK, PutOK
<1> QED
  BY <1>1, <1>2 DEF ClientInv

\* What the invariant says of the types, in one place.
LEMMA ClientFacts ==
  ASSUME ClientInv
  PROVE  /\ TypeOK /\ SessionOK /\ AskerOK /\ CardsOK /\ ToldOK /\ ListOK /\ PutsOK
         /\ list \in Query(Listing) /\ told \in [Users -> Nat]
         /\ \A u \in Users : Len(log[u]) \in Nat
         /\ list.data # NoData => list.data \in Listing
BY DEF ClientInv, TypeInv, TypeOK, Query

\* A step that neither writes nor tells, and lets the list's request be or go.
LEMMA RestingSteps ==
  ASSUME ClientInv, TypeInv', UNCHANGED <<log, told, puts>>,
         user' = user \/ screen = "away", screen' = screen,
         list'.data = list.data,
         \/ list'.flight = list.flight /\ list'.answer = list.answer
         \/ list'.flight # "served"
  PROVE  ClientInv'
<1> USE ClientFacts
<1>1. ToldOK'
  BY DEF ToldOK
<1>2. ListOK'
  BY DEF ListOK, Dated
<1>3. PutsOK'
  BY DEF PutsOK, PutOK
<1> QED
  BY <1>1, <1>2, <1>3 DEF ClientInv

\* The screen shows the list, whatever of it, and may ask for it anew.
LEMMA AsksAnew ==
  ASSUME ClientInv, TypeInv', UNCHANGED <<log, user, told, puts>>, user \in Users,
         screen' \in Views, list' = list \/ list' = Sent(list)
  PROVE  ClientInv'
<1> USE ClientFacts
<1>1. ToldOK'
  BY DEF ToldOK, Views
<1>2. list'.data = list.data /\ (list' = list \/ list'.flight = "sent")
  BY SentKeeps
<1>3. list'.flight = "served" => list' = list
  BY <1>2
<1>4. screen = "away" => told[user] = 0
  BY DEF ToldOK
<1>5. list'.flight = "served" =>
        /\ list.answer \in Listing
        /\ told[user] <= list.answer.upto \/ list.answer.owner # user
  BY <1>3, <1>4 DEF ListOK, Listing
<1>6. ListOK'
  BY <1>2, <1>3, <1>5 DEF ListOK, Dated
<1>7. PutsOK'
  BY <1>2 DEF PutsOK, PutOK
<1> QED
  BY <1>1, <1>6, <1>7 DEF ClientInv

\* The screen is left: nothing is shown, nothing was told.
LEMMA LeavesScreen ==
  ASSUME ClientInv, TypeInv', UNCHANGED <<log, list, puts>>, user \in Users,
         screen' = "away", told' = [told EXCEPT ![user] = 0]
  PROVE  ClientInv'
<1> USE ClientFacts
<1>1. \A u \in Users : told'[u] = 0
  BY DEF ToldOK
<1>2. ToldOK'
  BY <1>1 DEF ToldOK
<1>3. ListOK'
  BY DEF ListOK, Dated
<1>4. PutsOK'
  BY DEF PutsOK, PutOK
<1> QED
  BY <1>2, <1>3, <1>4 DEF ClientInv

\* The log grows, and the screen rests.
LEMMA GrowthKeeps ==
  ASSUME ClientInv, NEW u \in Users, NEW m \in Matches, NEW p \in Pick, Stored(u, m, p),
         UNCHANGED <<user, screen, list, told>>
  PROVE  /\ ToldOK' /\ ListOK'
         /\ \A v \in Users : Len(log'[v]) \in Nat /\ Len(log'[v]) >= Len(log[v])
<1> USE ClientFacts
<1>1. \A v \in Users : Len(log'[v]) \in Nat /\ Len(log'[v]) >= Len(log[v])
  BY StoredGrows DEF TypeOK
<1>2. ToldOK'
  BY <1>1 DEF ToldOK
<1>3. \A d \in Listing : Dated(d) => Dated(d)'
  BY <1>1 DEF Dated, Listing
<1>4. ListOK'
  BY <1>3 DEF ListOK
<1> QED
  BY <1>1, <1>2, <1>4

\* Requests come and go; the log, the list and the screen rest.
LEMMA PutSteps ==
  ASSUME ClientInv, TypeInv', UNCHANGED <<log, user, screen, list, told>>, PutsOK'
  PROVE  ClientInv'
<1> USE ClientFacts
<1>1. ToldOK' /\ ListOK'
  BY DEF ToldOK, ListOK, Dated
<1> QED
  BY <1>1 DEF ClientInv

LEMMA ClientNext == ClientInv /\ [Next]_vars => ClientInv'
<1> SUFFICES ASSUME ClientInv, [Next]_vars PROVE ClientInv'
  OBVIOUS
<1> USE ClientFacts
<1>0. TypeInv'
  BY TypeNext DEF ClientInv
<1>1. CASE UNCHANGED vars \/ Tick \/ \E v \in Moves : MoveKickoff(v[1], v[2])
  <2>1. UNCHANGED <<log, user, screen, list, told, puts>>
    BY <1>1 DEF vars, server, tab, Tick, MoveKickoff
  <2> QED
    BY <1>0, <2>1, RestingSteps
<1>2. ASSUME NEW u \in Users, NEW m \in Matches, NEW p \in PickInputs, StoreElsewhere(u, m, p)
      PROVE  ClientInv'
  <2>1. p \in Pick /\ Stored(u, m, p) /\ UNCHANGED <<user, screen, list, told, puts>>
    BY <1>2, PickClientAssumption DEF StoreElsewhere, tab
  <2>2. /\ ToldOK' /\ ListOK'
        /\ \A v \in Users : Len(log'[v]) \in Nat /\ Len(log'[v]) >= Len(log[v])
    BY <2>1, GrowthKeeps
  <2>3. \A n \in 1 .. MaxPuts : puts[n] # NoPut => puts[n].user \in Users /\ puts[n].nth \in Nat
    BY DEF TypeOK, Put
  <2>4. \A n \in 1 .. MaxPuts : puts[n] # NoPut /\ puts[n].at = "stored" =>
          puts[n].nth <= Len(log'[puts[n].user])
    BY <2>2, <2>3 DEF PutsOK, PutOK
  <2>5. PutsOK'
    BY <2>1, <2>4 DEF PutsOK, PutOK
  <2> QED
    BY <1>0, <2>2, <2>5 DEF ClientInv
<1>3. ASSUME NEW u \in Users, SignIn(u) PROVE ClientInv'
  <2>1. screen = "away" /\ UNCHANGED <<log, screen, list, told, puts>>
    BY <1>3 DEF SignIn, SessionOK, server
  <2> QED
    BY <1>0, <2>1, RestingSteps
<1>4. CASE SignOut \/ LeaveMatches
  <2>1. user \in Users
    BY <1>4, SignedIn DEF SignOut, LeaveMatches, TypeOK
  <2>2. UNCHANGED <<log, list, puts>> /\ screen' = "away" /\ told' = [told EXCEPT ![user] = 0]
    BY <1>4 DEF SignOut, LeaveMatches, Render, server
  <2> QED
    BY <1>0, <2>1, <2>2, LeavesScreen
<1>5. CASE OpenMatches \/ LoadMore \/ Focus \/ RetryList \/ \E v \in Views : SwitchView(v)
  <2>1. user \in Users
    BY <1>5, SignedIn
    DEF OpenMatches, LoadMore, Focus, RetryList, SwitchView, Shows, TypeOK, Views
  <2>2. screen' \in Views /\ UNCHANGED <<log, user, told, puts>>
    BY <1>5, SignedIn
    DEF OpenMatches, LoadMore, Focus, RetryList, SwitchView, Shows, Render, Views, server
  <2>3. list' = list \/ list' = Sent(list)
    BY <1>5 DEF OpenMatches, LoadMore, Focus, RetryList, SwitchView, Render, Fetch, Refetch
  <2> QED
    BY <1>0, <2>1, <2>2, <2>3, AsksAnew
<1>6. CASE Collect
  <2>1. UNCHANGED <<log, user, screen, told, puts>> /\ list' = Unasked
        /\ \A n \in 1 .. MaxPuts : puts[n] = NoPut
    BY <1>6 DEF Collect, server
  <2>2. ToldOK' /\ ListOK' /\ PutsOK'
    BY <2>1 DEF ToldOK, ListOK, Unasked, PutsOK, PutOK
  <2> QED
    BY <1>0, <2>2 DEF ClientInv
<1>7. CASE ServeList
  <2>1. asker \in Users /\ UNCHANGED <<log, user, screen, told, puts>>
        /\ list' = Served(list, ListingFor(asker))
    BY <1>7 DEF ServeList, AskerOK, server
  <2>2. ListingFor(asker) \in Listing
    BY <2>1, ListingType
  <2>3. list'.data = list.data /\ list'.answer = ListingFor(asker)
    BY <2>1, <2>2, ServedKeeps
  <2>4. ListingFor(asker).owner = asker /\ ListingFor(asker).upto = Len(log[asker])
    BY DEF ListingFor
  <2>5. ListOK'
    BY <2>1, <2>2, <2>3, <2>4 DEF ListOK, Dated, ToldOK
  <2>6. ToldOK' /\ PutsOK'
    BY <2>1, <2>3 DEF ToldOK, PutsOK, PutOK
  <2> QED
    BY <1>0, <2>5, <2>6 DEF ClientInv
<1>8. CASE ListArrives
  <2>1. list.flight = "served" /\ UNCHANGED <<log, user, screen, told, puts>>
        /\ list' = Arrived(list)
    BY <1>8 DEF ListArrives, Render, server
  <2>2. list'.flight = "idle" /\ list'.data = list.answer
    BY <2>1, ArrivedShows
  <2>3. list.answer # NoData
    BY <2>1, PickClientAssumption DEF ListOK
  <2>4. ToldOK' /\ ListOK' /\ PutsOK'
    BY <2>1, <2>2, <2>3 DEF ToldOK, ListOK, Dated, PutsOK, PutOK
  <2> QED
    BY <1>0, <2>4 DEF ClientInv
<1>9. CASE ListFails
  <2>1. UNCHANGED <<log, user, screen, told, puts>> /\ list' = Failed(list)
    BY <1>9 DEF ListFails, Render, server
  <2>2. list'.flight = "idle" /\ list'.data = list.data
    BY <2>1, FailedHides
  <2> QED
    BY <1>0, <2>1, <2>2, RestingSteps
<1>10. CASE \/ \E m \in Matches, h, a \in Goals : Step(m, h, a)
            \/ \E m \in Matches, t \in Teams : ChooseShootout(m, t)
            \/ \E m \in Matches : FlashEnds(m)
  <2>1. UNCHANGED <<log, user, screen, list, told, puts>>
    BY <1>10 DEF Step, ChooseShootout, FlashEnds, server
  <2> QED
    BY <1>0, <2>1, RestingSteps
<1>11. ASSUME NEW m \in Matches, Save(m) PROVE ClientInv'
  <2>1. UNCHANGED <<log, user, screen, list, told>> /\ list.data # NoData
    BY <1>11 DEF Save, Offers, Editable, CardsOK, Shows, server
  <2> DEFINE put == [user |-> user, match |-> m, pick |-> Payload(m, card[m]),
                     nth |-> 0, at |-> "sent"]
  <2>2. puts' = [puts EXCEPT ![made + 1] = put] /\ put.at # "stored"
    BY <1>11 DEF Save
  <2> HIDE DEF put
  <2>3. \A n \in 1 .. MaxPuts : puts'[n] = puts[n] \/ puts'[n].at # "stored"
    BY <2>2 DEF TypeOK
  <2>4. PutsOK'
    BY <2>1, <2>3 DEF PutsOK, PutOK
  <2> QED
    BY <1>0, <2>1, <2>4, PutSteps
<1>12. ASSUME NEW n \in 1 .. MaxPuts, ServePut(n) PROVE ClientInv'
  <2>1. puts[n] # NoPut /\ puts[n] \in Put /\ puts \in [1 .. MaxPuts -> Put \union {NoPut}]
        /\ UNCHANGED <<user, screen, list, told>>
    BY <1>12 DEF ServePut, TypeOK
  <2>2. list.data # NoData
    BY <2>1 DEF PutsOK, PutOK
  <2>3. \A k \in 1 .. MaxPuts : k # n => puts'[k] = puts[k]
    BY <1>12, <2>1 DEF ServePut
  <2>4. CASE Open(puts[n].match) /\ Valid(puts[n].match, puts[n].pick)
    <3>1. Stored(puts[n].user, puts[n].match, puts[n].pick)
      BY <1>12, <2>4 DEF ServePut
    <3>2. /\ ToldOK' /\ ListOK'
          /\ \A v \in Users : Len(log'[v]) \in Nat /\ Len(log'[v]) >= Len(log[v])
      BY <2>1, <3>1, GrowthKeeps DEF Put
    <3>3. Len(log'[puts[n].user]) = Len(log[puts[n].user]) + 1
      BY <2>1, <3>1, StoredGrows DEF Put, TypeOK
    <3>4. puts'[n].nth = Len(log[puts[n].user]) + 1 /\ puts'[n].user = puts[n].user
      BY <1>12, <2>1, <2>4 DEF ServePut, Put
    <3>5. puts[n].user \in Users
      BY <2>1 DEF Put
    <3>6. PutOK(n)'
      BY <2>1, <2>2, <3>2, <3>3, <3>4, <3>5 DEF PutOK
    <3>7. PutsOK'
      BY <2>1, <2>3, <3>2, <3>6 DEF PutsOK, PutOK, Put
    <3> QED
      BY <1>0, <3>2, <3>7 DEF ClientInv
  <2>5. CASE ~(Open(puts[n].match) /\ Valid(puts[n].match, puts[n].pick))
    <3>1. UNCHANGED log /\ puts'[n].at # "stored"
      BY <1>12, <2>1, <2>5 DEF ServePut, Put
    <3>2. PutsOK'
      BY <2>1, <2>2, <2>3, <3>1 DEF PutsOK, PutOK
    <3> QED
      BY <1>0, <2>1, <3>1, <3>2, PutSteps
  <2> QED
    BY <2>4, <2>5
<1>13. ASSUME NEW n \in 1 .. MaxPuts, NEW e, HearError(n, e) PROVE ClientInv'
  <2>1. UNCHANGED <<log, user, screen, list, told>> /\ puts' = [puts EXCEPT ![n] = NoPut]
    BY <1>13 DEF HearError, server
  <2>2. PutsOK'
    BY <2>1 DEF PutsOK, PutOK, TypeOK
  <2> QED
    BY <1>0, <2>1, <2>2, PutSteps
<1>14. ASSUME NEW n \in 1 .. MaxPuts, HearStored(n) PROVE ClientInv'
  <2>1. puts[n] # NoPut /\ puts[n] \in Put /\ puts[n].at = "stored"
        /\ UNCHANGED <<log, user, screen>> /\ puts' = [puts EXCEPT ![n] = NoPut]
    BY <1>14 DEF HearStored, TypeOK, server
  <2>2. list.data # NoData /\ puts[n].nth <= Len(log[puts[n].user])
    BY <2>1 DEF PutsOK, PutOK
  <2>3. IF screen = "away" THEN UNCHANGED <<list, told>> ELSE list' = Sent(list)
    BY <1>14, <2>2 DEF HearStored, Invalidated, Refetch, Anew
  <2>4. list'.data = list.data /\ (list' = list \/ list'.flight = "sent")
    BY <2>3, SentKeeps
  <2>5. PutsOK'
    BY <2>1, <2>4 DEF PutsOK, PutOK, TypeOK
  <2>6. \A u \in Users : \/ told'[u] = told[u]
                         \/ /\ u = user /\ screen # "away" /\ u = puts[n].user
                            /\ told'[u] = puts[n].nth
    BY <1>14 DEF HearStored
  <2>7. ToldOK'
    BY <2>1, <2>2, <2>6 DEF ToldOK
  <2>8. screen = "away" => ListOK'
    BY <2>1, <2>3 DEF ListOK, Dated
  <2>9. screen # "away" => list'.flight = "sent"
    BY <2>3, SentKeeps
  <2>10. ListOK'
    BY <2>1, <2>4, <2>8, <2>9 DEF ListOK, Dated
  <2> QED
    BY <1>0, <2>5, <2>7, <2>10 DEF ClientInv
<1> QED
  BY <1>1, <1>2, <1>3, <1>4, <1>5, <1>6, <1>7, <1>8, <1>9, <1>10, <1>11, <1>12, <1>13, <1>14
  DEF Next

-----------------------------------------------------------------------------
(* The refinement.                                                         *)

LogLengths == [u \in Users |-> Len(log[u])]
Views0 == [u \in Users |-> View(u)]
RegisterStep == [Register!Next]_<<LogLengths, told, Views0>>

\* Only the user who is signed in sees picks, and only while a list is shown.
LEMMA OnlyTheUserSees ==
  ASSUME NEW u \in Users, u # user \/ ~Shows(list, screen)
  PROVE  View(u) = NoData
BY DEF View

\* What is shown is of some moment of the log.
LEMMA ViewBound ==
  ASSUME ClientInv, NEW u \in Users, View(u) # NoData
  PROVE  View(u) \in Nat /\ View(u) <= Len(log[u]) /\ View(u) = list.data.upto
BY ClientFacts DEF View, Shows, ListOK, Dated, Listing

LEMMA Stutters ==
  ASSUME UNCHANGED <<log, told>>, \A u \in Users : View(u)' = View(u)
  PROVE  RegisterStep
<1>1. UNCHANGED <<LogLengths, told, Views0>>
  BY DEF LogLengths, Views0
<1> QED
  BY <1>1 DEF RegisterStep

\* A step that neither writes nor tells shows a user what it showed, an error, or
\* something of his that is not older.
LEMMA Turning ==
  ASSUME UNCHANGED <<log, told>>, NEW w \in Users,
         \A u \in Users : u # w => View(u)' = View(u),
         \/ View(w)' = View(w)
         \/ View(w)' = NoData
         \/ /\ View(w)' \in told[w] .. Len(log[w])
            /\ View(w) # NoData => View(w)' >= View(w)
  PROVE  RegisterStep
<1>1. UNCHANGED <<LogLengths, told>>
  BY DEF LogLengths
<1>2. CASE View(w)' = View(w)
  BY <1>2, Stutters
<1>3. Views0' = [Views0 EXCEPT ![w] = View(w)'] /\ Views0[w] = View(w)
  BY DEF Views0
<1>4. LogLengths[w] = Len(log[w])
  BY DEF LogLengths
<1>5. CASE View(w)' = NoData
  <2>1. Register!Hide(w)
    BY <1>1, <1>3, <1>5 DEF Register!Hide, LogLengths, Views0
  <2> QED
    BY <2>1 DEF RegisterStep, Register!Next
<1>6. CASE /\ View(w)' \in told[w] .. Len(log[w])
           /\ View(w) # NoData => View(w)' >= View(w)
  <2>1. Register!Show(w)
    BY <1>1, <1>3, <1>4, <1>6 DEF Register!Show, LogLengths, Views0
  <2> QED
    BY <2>1 DEF RegisterStep, Register!Next
<1> QED
  BY <1>2, <1>5, <1>6

\* A pick is stored; the screen rests.
LEMMA Writing ==
  ASSUME ClientInv, NEW u \in Users, NEW m \in Matches, NEW p \in Pick, Stored(u, m, p),
         UNCHANGED <<user, screen, list, told>>
  PROVE  RegisterStep
<1>1. /\ Len(log'[u]) = Len(log[u]) + 1
      /\ \A v \in Users : v # u => log'[v] = log[v]
  BY ClientFacts, StoredGrows DEF TypeOK
<1>2. LogLengths' = [LogLengths EXCEPT ![u] = @ + 1]
  BY <1>1 DEF LogLengths
<1>3. \A v \in Users : View(v)' = View(v)
  BY DEF View
<1>4. UNCHANGED Views0
  BY <1>3 DEF Views0
<1>5. Register!Write(u)
  BY <1>2, <1>4 DEF Register!Write, LogLengths, Views0
<1> QED
  BY <1>5 DEF RegisterStep, Register!Next

\* The user leaves the screen.
LEMMA Leaving ==
  ASSUME ClientInv, UNCHANGED log, user \in Users, screen' = "away",
         told' = [told EXCEPT ![user] = 0]
  PROVE  RegisterStep
<1>1. \A v \in Users : View(v)' = NoData /\ (v # user => View(v) = NoData)
  BY DEF View, Shows
<1>2. Views0' = [Views0 EXCEPT ![user] = NoData] /\ UNCHANGED LogLengths
  BY <1>1 DEF Views0, LogLengths
<1>3. Register!Leave(user)
  BY <1>2 DEF Register!Leave, LogLengths, Views0
<1> QED
  BY <1>3 DEF RegisterStep, Register!Next

\* The same data go on being shown, or not.
LEMMA SameScreen ==
  ASSUME UNCHANGED <<log, told, user>>, list'.data = list.data,
         Shows(list', screen') <=> Shows(list, screen)
  PROVE  RegisterStep
<1>1. \A u \in Users : View(u)' = View(u)
  BY DEF View
<1> QED
  BY <1>1, Stutters

LEMMA Refines == ClientInv /\ [Next]_vars => RegisterStep
<1> SUFFICES ASSUME ClientInv, [Next]_vars PROVE RegisterStep
  OBVIOUS
<1> USE ClientFacts
<1>1. CASE \/ UNCHANGED vars \/ Tick \/ \E v \in Moves : MoveKickoff(v[1], v[2])
           \/ \E m \in Matches, h, a \in Goals : Step(m, h, a)
           \/ \E m \in Matches, t \in Teams : ChooseShootout(m, t)
           \/ \E m \in Matches : Save(m) \/ FlashEnds(m)
           \/ \E n \in 1 .. MaxPuts, e \in {"locked", "other"} : HearError(n, e)
  <2>1. UNCHANGED <<log, told, user, list, screen>>
    BY <1>1 DEF vars, server, tab, Tick, MoveKickoff, Step, ChooseShootout, Save, FlashEnds,
                HearError
  <2> QED
    BY <2>1, SameScreen
<1>2. ASSUME NEW u \in Users, NEW m \in Matches, NEW p \in PickInputs, StoreElsewhere(u, m, p)
      PROVE  RegisterStep
  <2>1. p \in Pick /\ Stored(u, m, p) /\ UNCHANGED <<user, screen, list, told>>
    BY <1>2, PickClientAssumption DEF StoreElsewhere, tab
  <2> QED
    BY <2>1, Writing
<1>3. ASSUME NEW u \in Users, SignIn(u) PROVE RegisterStep
  <2>1. screen = "away" /\ UNCHANGED <<log, screen, list, told>>
    BY <1>3 DEF SignIn, SessionOK, server
  <2>2. \A v \in Users : View(v) = NoData /\ View(v)' = NoData
    BY <2>1 DEF View, Shows
  <2> QED
    BY <2>1, <2>2, Stutters
<1>4. CASE SignOut \/ LeaveMatches
  <2>1. user \in Users
    BY <1>4, SignedIn DEF SignOut, LeaveMatches, TypeOK
  <2>2. UNCHANGED log /\ screen' = "away" /\ told' = [told EXCEPT ![user] = 0]
    BY <1>4 DEF SignOut, LeaveMatches, Render, server
  <2> QED
    BY <2>1, <2>2, Leaving
<1>5. CASE OpenMatches
  <2>1. user \in Users /\ screen = "away" /\ UNCHANGED <<log, told, user>>
    BY <1>5 DEF OpenMatches, server, TypeOK
  <2>2. list'.data = list.data
    BY <1>5, SentKeeps DEF OpenMatches, Render, Fetch
  <2>3. \A v \in Users : View(v) = NoData /\ (v # user => View(v)' = NoData)
    BY <2>1 DEF View, Shows
  <2>4. View(user)' # NoData =>
          list.data # NoData /\ list.data.owner = user /\ View(user)' = list.data.upto
    BY <2>1, <2>2 DEF View, Shows
  <2>5. told[user] = 0
    BY <2>1 DEF ToldOK
  <2>6. View(user)' # NoData => View(user)' \in told[user] .. Len(log[user])
    BY <2>1, <2>4, <2>5 DEF ListOK, Dated, Listing
  <2> QED
    BY <2>1, <2>3, <2>6, Turning
<1>6. CASE LoadMore \/ \E v \in Views : SwitchView(v)
  <2>1. UNCHANGED <<log, told, user, list>> /\ screen # "away" /\ screen' # "away"
    BY <1>6 DEF LoadMore, SwitchView, Render, Shows, Views, server
  <2>2. Shows(list', screen') <=> Shows(list, screen)
    BY <2>1 DEF Shows
  <2> QED
    BY <2>1, <2>2, SameScreen
<1>7. CASE Collect
  <2>1. screen = "away" /\ UNCHANGED <<log, told, screen>>
    BY <1>7 DEF Collect, server
  <2>2. \A v \in Users : View(v) = NoData /\ View(v)' = NoData
    BY <2>1 DEF View, Shows
  <2> QED
    BY <2>1, <2>2, Stutters
<1>8. CASE Focus \/ RetryList \/ \E n \in 1 .. MaxPuts : HearStored(n) /\ screen = "away"
  <2>1. UNCHANGED <<log, told, user, screen>>
    BY <1>8 DEF Focus, RetryList, HearStored, Render, server
  <2>2. list' = list \/ list' = Sent(list)
    BY <1>8 DEF Focus, RetryList, HearStored, Render, Fetch, Refetch, Invalidated
  <2>3. list'.data = list.data /\ (Shows(list', screen') <=> Shows(list, screen))
    BY <2>1, <2>2, SentKeeps
  <2> QED
    BY <2>1, <2>3, SameScreen
<1>9. CASE ServeList
  <2>1. asker \in Users /\ UNCHANGED <<log, user, screen, told>>
        /\ list' = Served(list, ListingFor(asker))
    BY <1>9 DEF ServeList, AskerOK, server
  <2>2. list'.data = list.data /\ (Shows(list', screen') <=> Shows(list, screen))
    BY <2>1, ListingType, ServedKeeps
  <2> QED
    BY <2>1, <2>2, SameScreen
<1>10. CASE ListArrives
  <2>1. list.flight = "served" /\ UNCHANGED <<log, user, screen, told>>
        /\ list' = Arrived(list)
    BY <1>10 DEF ListArrives, Render, server
  <2>2. list'.data = list.answer
        /\ (Shows(list', screen') <=> screen # "away" /\ list.answer # NoData)
    BY <2>1, ArrivedShows
  <2>3. CASE screen = "away"
    <3>1. \A v \in Users : View(v) = NoData /\ View(v)' = NoData
      BY <2>1, <2>3 DEF View, Shows
    <3> QED
      BY <2>1, <3>1, Stutters
  <2>4. CASE screen # "away"
    <3>1. user \in Users
      BY <2>4, SignedIn
    <3>2. \A v \in Users : v # user => View(v) = NoData /\ View(v)' = NoData
      BY <2>1 DEF View
    <3>3. View(user)' # NoData => list.answer.owner = user /\ View(user)' = list.answer.upto
      BY <2>1, <2>2 DEF View
    <3>4. View(user)' # NoData => View(user)' \in told[user] .. Len(log[user])
      BY <2>1, <2>4, <3>1, <3>3 DEF ListOK, Dated, Listing
    <3>5. View(user)' # NoData /\ View(user) # NoData => View(user)' >= View(user)
      BY <2>1, <3>1, <3>3 DEF ListOK, View, Shows
    <3> QED
      BY <2>1, <3>1, <3>2, <3>4, <3>5, Turning
  <2> QED
    BY <2>3, <2>4
<1>11. CASE ListFails
  <2>1. UNCHANGED <<log, user, screen, told>> /\ list' = Failed(list)
    BY <1>11 DEF ListFails, Render, server
  <2>2. \A v \in Users : View(v)' = NoData
    BY <2>1, FailedHides DEF View
  <2>3. \A v \in Users : v # user => View(v) = NoData
    BY DEF View
  <2>4. CASE user \in Users
    BY <2>1, <2>2, <2>3, <2>4, Turning
  <2>5. CASE user \notin Users
    BY <2>1, <2>2, <2>3, <2>5, Stutters
  <2> QED
    BY <2>4, <2>5
<1>12. ASSUME NEW n \in 1 .. MaxPuts, ServePut(n) PROVE RegisterStep
  <2>1. puts[n] \in Put /\ UNCHANGED <<user, screen, list, told>>
    BY <1>12 DEF ServePut, TypeOK
  <2>2. CASE Open(puts[n].match) /\ Valid(puts[n].match, puts[n].pick)
    <3>1. Stored(puts[n].user, puts[n].match, puts[n].pick)
      BY <1>12, <2>2 DEF ServePut
    <3> QED
      BY <2>1, <3>1, Writing DEF Put
  <2>3. CASE ~(Open(puts[n].match) /\ Valid(puts[n].match, puts[n].pick))
    <3>1. UNCHANGED log
      BY <1>12, <2>3 DEF ServePut
    <3> QED
      BY <2>1, <3>1, SameScreen
  <2> QED
    BY <2>2, <2>3
<1>13. ASSUME NEW n \in 1 .. MaxPuts, HearStored(n), screen # "away" PROVE RegisterStep
  <2>1. puts[n] \in Put /\ puts[n] # NoPut /\ puts[n].at = "stored"
        /\ UNCHANGED <<log, user, screen>>
    BY <1>13 DEF HearStored, TypeOK, server
  <2>2. list.data # NoData /\ puts[n].nth <= Len(log[puts[n].user]) /\ puts[n].nth \in Nat
    BY <2>1 DEF PutsOK, PutOK, Put
  <2>3. list' = Sent(list)
    BY <1>13, <2>2 DEF HearStored, Invalidated, Refetch, Anew
  <2>4. list'.data = list.data /\ (Shows(list', screen') <=> Shows(list, screen))
    BY <2>1, <2>3, SentKeeps
  <2>5. CASE UNCHANGED told
    BY <2>1, <2>4, <2>5, SameScreen
  <2>6. CASE ~UNCHANGED told
    <3>1. puts[n].user = user /\ puts[n].nth > told[user]
          /\ told' = [told EXCEPT ![user] = puts[n].nth]
      BY <1>13, <2>6 DEF HearStored
    <3>2. user \in Users /\ puts[n].nth \in told[user] + 1 .. Len(log[user])
      BY <1>13, <2>2, <3>1, SignedIn
    <3>3. \A u \in Users : View(u)' = View(u)
      BY <2>1, <2>4 DEF View
    <3>4. UNCHANGED <<LogLengths, Views0>> /\ LogLengths[user] = Len(log[user])
      BY <2>1, <3>2, <3>3 DEF LogLengths, Views0
    <3>5. Register!Tell(user)
      BY <3>1, <3>2, <3>4 DEF Register!Tell, LogLengths, Views0
    <3> QED
      BY <3>2, <3>5 DEF RegisterStep, Register!Next
  <2> QED
    BY <2>5, <2>6
<1> QED
  BY <1>1, <1>2, <1>3, <1>4, <1>5, <1>6, <1>7, <1>8, <1>9, <1>10, <1>11, <1>12, <1>13 DEF Next

\* Nothing is shown and nothing was told to begin with.
LEMMA RefinesInit == Init => Register!Init
BY DEF Init, Register!Init, View, Shows

\* For any number of users, matches, saves and requests the picks on the screen
\* never go back in time, nor behind a confirmed save: the client implements
\* PickRegister (matches.ts: the invalidation after a save).
THEOREM PicksRefine == Spec => PicksNeverGoBack
<1>1. Spec => []ClientInv
  BY ClientInit, ClientNext, PTL DEF Spec
<1> QED
  BY <1>1, Refines, RefinesInit, PTL
  DEF Spec, PicksNeverGoBack, Register!Spec, RegisterStep, LogLengths, Views0

-----------------------------------------------------------------------------
(* Saving: requests are numbered in the order they were sent, and a card     *)
(* that waits for one cannot be edited.                                      *)

Waits(m) == card[m] # NoCard /\ card[m].job # 0

SavingInv ==
  /\ TypeInv
  /\ \A n \in 1 .. MaxPuts : puts[n] # NoPut => n <= made
  /\ SavingShowsWhatIsSent

\* A request keeps what is asked, and no card begins to wait or changes while it waits.
LEMMA SavingRests ==
  ASSUME SavingInv, TypeInv', made' = made,
         \A n \in 1 .. MaxPuts : puts'[n] # NoPut =>
           puts[n] # NoPut /\ puts'[n].match = puts[n].match /\ puts'[n].pick = puts[n].pick,
         \A m \in Matches : Waits(m)' =>
           /\ Waits(m) /\ card'[m].job = card[m].job /\ Payload(m, card'[m]) = Payload(m, card[m])
           /\ puts'[card[m].job] # NoPut
  PROVE  SavingInv'
<1>1. \A n \in 1 .. MaxPuts : puts'[n] # NoPut => n <= made'
  BY DEF SavingInv
<1>2. \A m \in Matches : Waits(m) => card[m].job \in 1 .. MaxPuts
  BY DEF SavingInv, TypeInv, TypeOK, Card, Waits
<1>3. \A m \in Matches : Waits(m)' =>
        /\ puts'[card'[m].job] # NoPut /\ puts'[card'[m].job].match = m
        /\ puts'[card'[m].job].pick = Payload(m, card'[m])
  BY <1>2 DEF SavingInv, SavingShowsWhatIsSent, Waits
<1>4. SavingShowsWhatIsSent'
  BY <1>3 DEF SavingShowsWhatIsSent, Waits
<1> QED
  BY <1>1, <1>4 DEF SavingInv

\* A rendered card is the card that was there, or one that waits for nothing.
LEMMA RenderedWaits ==
  ASSUME TypeInv, NEW q, NEW s, NEW n, Render(q, s, n), NEW m \in Matches, Waits(m)'
  PROVE  Waits(m) /\ card'[m] = card[m]
BY DEF Render, Waits, Seeded

LEMMA SavingNext == SavingInv /\ [Next]_vars => SavingInv'
<1> SUFFICES ASSUME SavingInv, [Next]_vars PROVE SavingInv'
  OBVIOUS
<1>0. TypeInv /\ TypeInv' /\ TypeOK
  BY TypeNext DEF SavingInv, TypeInv
<1>a. \A m \in Matches : Waits(m) => puts[card[m].job] # NoPut
  BY DEF SavingInv, SavingShowsWhatIsSent, Waits
<1>1. CASE \/ UNCHANGED vars \/ Tick \/ \E v \in Moves : MoveKickoff(v[1], v[2])
           \/ \E u \in Users, m \in Matches, p \in PickInputs : StoreElsewhere(u, m, p)
           \/ \E u \in Users : SignIn(u)
           \/ Collect \/ ServeList
  <2>1. UNCHANGED <<puts, made, card>>
    BY <1>1 DEF vars, tab, Tick, MoveKickoff, StoreElsewhere, SignIn, Collect, ServeList
  <2> QED
    BY <1>0, <1>a, <2>1, SavingRests DEF Waits
<1>2. CASE \/ SignOut \/ OpenMatches \/ LeaveMatches \/ LoadMore
           \/ \E v \in Views : SwitchView(v)
           \/ Focus \/ RetryList \/ ListArrives \/ ListFails
  <2>1. UNCHANGED <<puts, made>> /\ \E q, s, n : Render(q, s, n)
    BY <1>2 DEF SignOut, OpenMatches, LeaveMatches, LoadMore, SwitchView, Focus, RetryList,
                ListArrives, ListFails
  <2>2. \A m \in Matches : Waits(m)' => Waits(m) /\ card'[m] = card[m]
    BY <1>0, <2>1, RenderedWaits
  <2> QED
    BY <1>0, <1>a, <2>1, <2>2, SavingRests
<1>3. ASSUME NEW m \in Matches, card[m] # NoCard, NEW c, SetCard(m, c), c.job = card[m].job,
             Waits(m) => Payload(m, c) = Payload(m, card[m]), UNCHANGED <<puts, made>>
      PROVE  SavingInv'
  <2>1. card'[m] = c /\ \A k \in Matches : k # m => card'[k] = card[k]
    BY <1>0, <1>3 DEF SetCard, TypeOK
  <2>2. \A k \in Matches : Waits(k)' =>
          Waits(k) /\ card'[k].job = card[k].job /\ Payload(k, card'[k]) = Payload(k, card[k])
    BY <1>3, <2>1 DEF Waits
  <2> QED
    BY <1>0, <1>3, <1>a, <2>2, SavingRests
<1>4. CASE \/ \E m \in Matches, h, a \in Goals : Step(m, h, a)
           \/ \E m \in Matches, t \in Teams : ChooseShootout(m, t)
  <2>1. PICK m \in Matches : Editable(m) /\ \E c : SetCard(m, c) /\ c.job = card[m].job
    <3>1. CASE \E m \in Matches, h, a \in Goals : Step(m, h, a)
      <4>1. PICK m \in Matches, h \in Goals, a \in Goals : Step(m, h, a)
        BY <3>1
      <4>2. card[m] \in Card /\ Editable(m)
        BY <1>0, <4>1 DEF Step, Editable, TypeOK
      <4>3. [card[m] EXCEPT !.home = h, !.away = a, !.pen = IF h = a THEN @ ELSE NoTeam].job
              = card[m].job
        BY <4>2 DEF Card
      <4> QED
        BY <4>1, <4>2, <4>3 DEF Step
    <3>2. CASE \E m \in Matches, t \in Teams : ChooseShootout(m, t)
      <4>1. PICK m \in Matches, t \in Teams : ChooseShootout(m, t)
        BY <3>2
      <4>2. card[m] \in Card /\ Editable(m)
        BY <1>0, <4>1 DEF ChooseShootout, Editable, TypeOK
      <4>3. [card[m] EXCEPT !.pen = t].job = card[m].job
        BY <4>2 DEF Card
      <4> QED
        BY <4>1, <4>2, <4>3 DEF ChooseShootout
    <3> QED
      BY <1>4, <3>1, <3>2
  <2>2. UNCHANGED <<puts, made>>
    BY <1>4 DEF Step, ChooseShootout
  <2> QED
    BY <1>3, <2>1, <2>2 DEF Editable, Waits
<1>5. ASSUME NEW m \in Matches, FlashEnds(m) PROVE SavingInv'
  <2> DEFINE c == [card[m] EXCEPT !.flash = FALSE]
  <2>1. card[m] # NoCard /\ SetCard(m, c) /\ UNCHANGED <<puts, made>> /\ card[m] \in Card
    BY <1>0, <1>5 DEF FlashEnds, TypeOK
  <2>2. c.job = card[m].job /\ c.home = card[m].home /\ c.away = card[m].away
        /\ c.pen = card[m].pen
    BY <2>1 DEF Card
  <2> HIDE DEF c
  <2> QED
    BY <1>3, <2>1, <2>2 DEF Payload, ShowPenalty, Draw
<1>6. ASSUME NEW m \in Matches, Save(m) PROVE SavingInv'
  <2> DEFINE put == [user |-> user, match |-> m, pick |-> Payload(m, card[m]),
                     nth |-> 0, at |-> "sent"]
             c == [card[m] EXCEPT !.job = made + 1, !.error = "none"]
  <2>0. made < MaxPuts /\ card[m] # NoCard
    BY <1>6 DEF Save, Offers, Editable
  <2>1. card[m] # NoCard /\ card[m] \in Card /\ made \in Nat /\ made + 1 \in 1 .. MaxPuts
    BY <1>0, <2>0, PickClientAssumption DEF TypeOK
  <2>2. c.job = made + 1 /\ c.home = card[m].home /\ c.away = card[m].away
        /\ c.pen = card[m].pen
    BY <2>1 DEF Card
  <2>3. put.match = m /\ put.pick = Payload(m, card[m])
    OBVIOUS
  <2>4. made' = made + 1 /\ puts' = [puts EXCEPT ![made + 1] = put] /\ SetCard(m, c)
    BY <1>6 DEF Save
  <2>5. put \in Put
    BY <1>0, <2>1, SignedIn, PayloadType DEF Put, TypeInv, CardsOK, Shows
  <2> HIDE DEF put, c
  <2>6. puts'[made + 1] = put /\ put # NoPut
        /\ \A n \in 1 .. MaxPuts : n # made + 1 => puts'[n] = puts[n]
    BY <1>0, <2>1, <2>4, <2>5, PickClientAssumption DEF TypeOK
  <2>7. card'[m] = c /\ \A k \in Matches : k # m => card'[k] = card[k]
    BY <1>0, <2>4 DEF SetCard, TypeOK
  <2>8. \A n \in 1 .. MaxPuts : puts'[n] # NoPut => n <= made'
    BY <2>1, <2>4, <2>6 DEF SavingInv
  <2>9. ASSUME NEW k \in Matches, Waits(k)'
        PROVE  /\ puts'[card'[k].job] # NoPut /\ puts'[card'[k].job].match = k
               /\ puts'[card'[k].job].pick = Payload(k, card'[k])
    <3>1. CASE k = m
      BY <2>2, <2>3, <2>6, <2>7, <3>1 DEF Payload, ShowPenalty, Draw
    <3>2. CASE k # m
      <4>1. Waits(k) /\ card'[k] = card[k] /\ card[k].job \in 1 .. MaxPuts
        BY <1>0, <2>7, <2>9, <3>2 DEF Waits, TypeOK, Card
      <4>2. puts[card[k].job] # NoPut /\ card[k].job <= made
        BY <1>a, <4>1 DEF SavingInv
      <4>3. puts'[card[k].job] = puts[card[k].job]
        BY <2>1, <2>6, <4>1, <4>2
      <4> QED
        BY <4>1, <4>2, <4>3 DEF SavingInv, SavingShowsWhatIsSent, Waits
    <3> QED
      BY <3>1, <3>2
  <2>10. SavingShowsWhatIsSent'
    BY <2>9 DEF SavingShowsWhatIsSent, Waits
  <2> QED
    BY <1>0, <2>8, <2>10 DEF SavingInv
<1>7. ASSUME NEW n \in 1 .. MaxPuts, ServePut(n) PROVE SavingInv'
  <2>1. puts[n] # NoPut /\ puts[n] \in Put /\ UNCHANGED <<card, made>>
        /\ \A k \in 1 .. MaxPuts : k # n => puts'[k] = puts[k]
    BY <1>0, <1>7 DEF ServePut, TypeOK
  <2>2. \/ puts'[n] = [puts[n] EXCEPT !.at = "stored", !.nth = Len(log[puts[n].user]) + 1]
        \/ \E r \in {"locked", "other"} : puts'[n] = [puts[n] EXCEPT !.at = r]
    BY <1>0, <1>7 DEF ServePut, TypeOK
  <2>3. puts'[n].match = puts[n].match /\ puts'[n].pick = puts[n].pick
    BY <2>1, <2>2 DEF Put
  <2>4. puts' \in [1 .. MaxPuts -> Put \union {NoPut}] /\ puts'[n] # NoPut
    <3>1. puts'[n] \in Put
      <4>1. \A k \in Nat : [puts[n] EXCEPT !.at = "stored", !.nth = k] \in Put
        BY <2>1 DEF Put
      <4>2. \A r \in {"locked", "other"} : [puts[n] EXCEPT !.at = r] \in Put
        BY <2>1 DEF Put
      <4>3. Len(log[puts[n].user]) + 1 \in Nat
        BY <1>0, <2>1 DEF Put, TypeOK
      <4> QED
        BY <2>2, <4>1, <4>2, <4>3
    <3> QED
      BY <1>0, <3>1, PickClientAssumption DEF TypeInv, TypeOK
  <2>5. \A k \in 1 .. MaxPuts : /\ puts'[k] # NoPut <=> puts[k] # NoPut
                                /\ puts'[k].match = puts[k].match /\ puts'[k].pick = puts[k].pick
    BY <2>1, <2>3, <2>4
  <2>6. \A m \in Matches : Waits(m) => card[m].job \in 1 .. MaxPuts
    BY <1>0 DEF TypeOK, Card, Waits
  <2> QED
    BY <1>0, <1>a, <2>1, <2>5, <2>6, SavingRests DEF Waits
<1>8. ASSUME NEW n \in 1 .. MaxPuts,
             HearStored(n) \/ \E e \in {"locked", "other"} : HearError(n, e)
      PROVE  SavingInv'
  <2>1. made' = made /\ puts' = [puts EXCEPT ![n] = NoPut]
        /\ \E f, e : card' = Resolve(card, n, f, e)
    BY <1>8 DEF HearStored, HearError
  <2>2. \A k \in 1 .. MaxPuts : puts'[k] = IF k = n THEN NoPut ELSE puts[k]
    BY <1>0, <2>1 DEF TypeOK
  <2>3. ASSUME NEW m \in Matches, Waits(m)'
        PROVE  Waits(m) /\ card'[m] = card[m] /\ card[m].job # n
    <3>0. PICK f, e : card' = Resolve(card, n, f, e)
      BY <2>1
    <3>1. card'[m] = IF card[m] # NoCard /\ card[m].job = n
            THEN [card[m] EXCEPT !.job = 0, !.flash = f, !.error = e] ELSE card[m]
      BY <3>0 DEF Resolve
    <3>2. CASE card[m] # NoCard /\ card[m].job = n
      <4>1. card[m] \in Card
        BY <1>0, <3>2 DEF TypeOK
      <4>2. [card[m] EXCEPT !.job = 0, !.flash = f, !.error = e].job = 0
        BY <4>1 DEF Card
      <4>3. card'[m].job = 0
        BY <3>1, <3>2, <4>2
      <4> QED
        BY <2>3, <4>3 DEF Waits
    <3>3. CASE ~(card[m] # NoCard /\ card[m].job = n)
      BY <2>3, <3>1, <3>3 DEF Waits
    <3> QED
      BY <3>2, <3>3
  <2>4. \A m \in Matches : Waits(m) => card[m].job \in 1 .. MaxPuts
    BY <1>0 DEF TypeOK, Card, Waits
  <2> QED
    BY <1>0, <1>a, <2>1, <2>2, <2>3, <2>4, SavingRests
<1> QED
  BY <1>1, <1>2, <1>4, <1>5, <1>6, <1>7, <1>8 DEF Next

\* While a card says "Saving", it shows the very pick that is on its way, however
\* many matches and requests there are (MatchCard: isPending disables the controls).
THEOREM SavingShows == Spec => []SavingShowsWhatIsSent
<1>1. Init => SavingInv
  BY TypeInit DEF Init, SavingInv, SavingShowsWhatIsSent
<1>2. SavingInv => SavingShowsWhatIsSent
  BY DEF SavingInv
<1> QED
  BY <1>1, <1>2, SavingNext, PTL DEF Spec

-----------------------------------------------------------------------------
(* A list quotes the log it was served from, and the log only grows.         *)

Latest(S) == CHOOSE i \in S : \A j \in S : j <= i

Grown == \/ UNCHANGED log
         \/ \E u \in Users, m \in Matches, p \in Pick : Stored(u, m, p)

LEMMA EntriesStay ==
  ASSUME log \in [Users -> Seq(Entry)], Grown, NEW v \in Users, NEW i \in 1 .. Len(log[v])
  PROVE  log'[v][i] = log[v][i]
<1>1. ASSUME NEW u \in Users, NEW m \in Matches, NEW p \in Pick, Stored(u, m, p)
      PROVE  log'[v][i] = log[v][i]
  <2> DEFINE e == [match |-> m, pick |-> p]
  <2>1. e \in Entry /\ log' = [log EXCEPT ![u] = Append(log[u], e)]
    BY <1>1 DEF Entry, Stored
  <2> HIDE DEF e
  <2>2. CASE v = u
    BY <2>1, <2>2
  <2>3. CASE v # u
    BY <2>1, <2>3
  <2> QED
    BY <2>2, <2>3
<1> QED
  BY <1>1 DEF Grown

\* What stood after n entries still does when more are appended.
LEMMA StandingKeeps ==
  ASSUME log \in [Users -> Seq(Entry)], Grown, NEW v \in Users, NEW k,
         NEW n \in 0 .. Len(log[v])
  PROVE  Standing(v, k, n)' = Standing(v, k, n)
<1> DEFINE old == {i \in 1 .. n : log[v][i].match = k}
           new == {i \in 1 .. n : log'[v][i].match = k}
<1>1. \A i \in 1 .. n : log'[v][i] = log[v][i]
  BY EntriesStay
<1>2. new = old /\ old \in SUBSET (1 .. n) /\ n \in Nat
  BY <1>1
<1>3. Standing(v, k, n) = IF old = {} THEN NoPick ELSE log[v][Latest(old)].pick
  BY DEF Standing, Latest
<1>4. Standing(v, k, n)' = IF new = {} THEN NoPick ELSE log'[v][Latest(new)].pick
  BY DEF Standing, Latest
<1> HIDE DEF old, new
<1>5. old # {} => Latest(old) \in 1 .. n
  <2> SUFFICES ASSUME old # {} PROVE Latest(old) \in 1 .. n
    OBVIOUS
  <2>1. \E i \in old : \A j \in old : j <= i
    BY <1>2, LastExists
  <2>2. Latest(old) \in old
    BY <2>1 DEF Latest
  <2> QED
    BY <1>2, <2>2
<1> QED
  BY <1>1, <1>2, <1>3, <1>4, <1>5

Quoted(d) == \A m \in Matches : d.pick[m] = Standing(d.owner, m, d.upto)

QuotedInv ==
  /\ ClientInv
  /\ list.data # NoData => Quoted(list.data)
  /\ list.flight = "served" => Quoted(list.answer)

\* Lists already served go on quoting the log.
LEMMA QuotesKeep ==
  ASSUME ClientInv, Grown, NEW d \in Listing, Dated(d), Quoted(d)
  PROVE  Quoted(d)'
<1>1. d.owner \in Users /\ d.upto \in 0 .. Len(log[d.owner]) /\ log \in [Users -> Seq(Entry)]
  BY ClientFacts DEF Dated, Listing, TypeOK
<1>2. \A m \in Matches : Standing(d.owner, m, d.upto)' = Standing(d.owner, m, d.upto)
  BY <1>1, StandingKeeps
<1> QED
  BY <1>2 DEF Quoted

\* How a step treats the list and the log.
ListKept == list' \in {list, Sent(list), Unasked, Failed(list)}
ListShown == list.flight = "served" /\ list' = Arrived(list)
ListServed == asker \in Users /\ UNCHANGED log /\ list' = Served(list, ListingFor(asker))

ListStep == Grown /\ (ListKept \/ ListShown \/ ListServed)

LEMMA ListSteps == ClientInv /\ [Next]_vars => ListStep
<1> SUFFICES ASSUME ClientInv, [Next]_vars PROVE ListStep
  OBVIOUS
<1> USE ClientFacts
<1>1. CASE \/ UNCHANGED vars \/ Tick \/ \E v \in Moves : MoveKickoff(v[1], v[2])
           \/ \E u \in Users : SignIn(u)
  BY <1>1
  DEF ListStep, ListKept, ListShown, ListServed, Grown, vars, server, tab, Tick, MoveKickoff,
      SignIn
<1>2. ASSUME NEW u \in Users, NEW m \in Matches, NEW p \in PickInputs, StoreElsewhere(u, m, p)
      PROVE  ListStep
  BY <1>2, PickClientAssumption
  DEF ListStep, ListKept, ListShown, ListServed, Grown, StoreElsewhere, tab
<1>3. CASE SignOut \/ LeaveMatches \/ LoadMore \/ \E v \in Views : SwitchView(v)
  BY <1>3
  DEF ListStep, ListKept, ListShown, ListServed, Grown, SignOut, LeaveMatches, LoadMore,
      SwitchView, Render, server
<1>4. CASE OpenMatches \/ Focus \/ RetryList
  BY <1>4
  DEF ListStep, ListKept, ListShown, ListServed, Grown, OpenMatches, Focus, RetryList, Render,
      Fetch, Refetch, server
<1>5. CASE Collect \/ ServeList
  BY <1>5
  DEF ListStep, ListKept, ListShown, ListServed, Grown, Collect, ServeList, AskerOK, server
<1>6. CASE ListArrives \/ ListFails
  BY <1>6
  DEF ListStep, ListKept, ListShown, ListServed, Grown, ListArrives, ListFails, Render, server
<1>7. CASE \/ \E m \in Matches, h, a \in Goals : Step(m, h, a)
           \/ \E m \in Matches, t \in Teams : ChooseShootout(m, t)
           \/ \E m \in Matches : Save(m) \/ FlashEnds(m)
  BY <1>7
  DEF ListStep, ListKept, ListShown, ListServed, Grown, Step, ChooseShootout, Save, FlashEnds,
      server
<1>8. ASSUME NEW n \in 1 .. MaxPuts, ServePut(n) PROVE ListStep
  <2>1. puts[n] \in Put
    BY <1>8 DEF ServePut, TypeOK
  <2> QED
    BY <1>8, <2>1
  DEF ListStep, ListKept, ListShown, ListServed, Grown, ServePut, Put
<1>9. CASE \/ \E n \in 1 .. MaxPuts : HearStored(n)
           \/ \E n \in 1 .. MaxPuts, e \in {"locked", "other"} : HearError(n, e)
  BY <1>9
  DEF ListStep, ListKept, ListShown, ListServed, Grown, HearStored, HearError, Invalidated,
      Refetch, server
<1> QED
  BY <1>1, <1>2, <1>3, <1>4, <1>5, <1>6, <1>7, <1>8, <1>9 DEF Next

LEMMA QuotedNext == QuotedInv /\ [Next]_vars => QuotedInv'
<1> SUFFICES ASSUME QuotedInv, [Next]_vars PROVE QuotedInv'
  OBVIOUS
<1>0. ClientInv /\ ClientInv'
  BY ClientNext DEF QuotedInv
<1>1. list \in Query(Listing)
  BY <1>0, ClientFacts
<1>2. Grown /\ (ListKept \/ ListShown \/ ListServed)
  BY <1>0, ListSteps DEF ListStep
<1>3. list.data # NoData => list.data \in Listing /\ Dated(list.data) /\ Quoted(list.data)
  BY <1>0, ClientFacts DEF QuotedInv, ListOK
<1>4. list.flight = "served" =>
        list.answer \in Listing /\ Dated(list.answer) /\ Quoted(list.answer)
  BY <1>0, ClientFacts DEF QuotedInv, ListOK
<1>5. \A d \in Listing : Dated(d) /\ Quoted(d) =>
        \A m \in Matches : d.pick[m] = Standing(d.owner, m, d.upto)'
  BY <1>0, <1>2, QuotesKeep DEF Quoted
<1>6. CASE ListKept
  <2>1. list'.data \in {NoData, list.data}
        /\ (list'.flight = "served" => list'.answer = list.answer /\ list.flight = "served")
    BY <1>1, <1>6, SentKeeps, FailedHides DEF ListKept, Unasked
  <2> QED
    BY <1>0, <1>3, <1>4, <1>5, <2>1 DEF QuotedInv, Quoted
<1>7. CASE ListShown
  <2>1. list'.data = list.answer /\ list'.flight = "idle" /\ list.flight = "served"
    BY <1>1, <1>7, ArrivedShows DEF ListShown
  <2> QED
    BY <1>0, <1>4, <1>5, <2>1 DEF QuotedInv, Quoted
<1>8. CASE ListServed
  <2>1. list'.data = list.data /\ list'.answer = ListingFor(asker)
    BY <1>0, <1>1, <1>8, ClientFacts, ListingType, ServedKeeps DEF ListServed
  <2>2. ListingFor(asker) \in Listing /\ Dated(ListingFor(asker)) /\ Quoted(ListingFor(asker))
    BY <1>0, <1>8, ClientFacts, ListingType DEF ListServed, ListingFor, Dated, Quoted
  <2> QED
    BY <1>0, <1>3, <1>5, <2>1, <2>2 DEF QuotedInv, Quoted
<1> QED
  BY <1>2, <1>6, <1>7, <1>8

\* A card that differs from what the server stored offers to save it, or says why
\* not, however many devices save and whatever is refetched (MatchCard: dirty).
THEOREM NoEditIsLost == Spec => []UnsavedIsOffered
<1>1. Init => QuotedInv
  BY ClientInit DEF Init, QuotedInv, Unasked
<1>2. QuotedInv => UnsavedIsOffered
  <2> SUFFICES ASSUME QuotedInv, NEW m \in Matches, card[m] # NoCard,
                      Payload(m, card[m]) # Standing(list.data.owner, m, list.data.upto),
                      card[m].job = 0, ~card[m].flash, ~LockedCard(m, card[m]), PredOpen(m)
               PROVE  Offers(m)
    BY DEF UnsavedIsOffered
  <2>1. list.data # NoData
    BY ClientFacts DEF QuotedInv, CardsOK, Shows
  <2>2. Dirty(m, card[m])
    BY <2>1 DEF QuotedInv, Quoted, Dirty
  <2> QED
    BY <2>2 DEF Offers, Editable
<1> QED
  BY <1>1, <1>2, QuotedNext, PTL DEF Spec
=============================================================================
