--------------------------- MODULE QueryCache_proofs ---------------------------
(***************************************************************************)
(* What the operations of QueryCache do to a query, whatever its data: the *)
(* lemmas the parts of the client that keep queries build on.              *)
(***************************************************************************)
EXTENDS QueryCache, TLAPS

\* Nothing was asked yet.
LEMMA QueryStarts ==
  ASSUME NEW D
  PROVE  /\ Unasked \in Query(D) /\ Unasked.data = NoData /\ Unasked.flight = "idle"
         /\ Unasked.answer = NoData /\ ~Unasked.failed
BY DEF Unasked, Query, Flights

\* A request leaves: the data stay, the older answer is lost.
LEMMA QuerySent ==
  ASSUME NEW D, NEW q \in Query(D)
  PROVE  /\ Sent(q) \in Query(D) /\ Sent(q).data = q.data /\ Sent(q).flight = "sent"
         /\ Sent(q).answer = NoData /\ (Sent(q).failed => q.failed)
BY DEF Query, Flights, Sent

\* A request is joined or sent.
LEMMA QueryFetched ==
  ASSUME NEW D, NEW q \in Query(D)
  PROVE  /\ Fetch(q) \in Query(D) /\ Fetch(q).data = q.data /\ Fetch(q).flight # "idle"
         /\ Fetch(q).failed => q.failed
         /\ (Fetch(q) = q /\ q.flight # "idle")
            \/ (q.flight = "idle" /\ Fetch(q).flight = "sent" /\ Fetch(q).answer = NoData)
BY QuerySent DEF Fetch

\* A request is dropped and a new one sent, or joined while there are no data.
LEMMA QueryRefetched ==
  ASSUME NEW D, NEW q \in Query(D)
  PROVE  /\ Refetch(q) \in Query(D) /\ Refetch(q).data = q.data /\ Refetch(q).flight # "idle"
         /\ Refetch(q).failed => q.failed
         /\ (Refetch(q) = q /\ q.flight # "idle" /\ q.data = NoData)
            \/ (Refetch(q).flight = "sent" /\ Refetch(q).answer = NoData)
<1>1. CASE Anew(q)
  BY <1>1, QuerySent DEF Refetch
<1>2. CASE ~Anew(q)
  BY <1>2 DEF Refetch, Anew
<1> QED
  BY <1>1, <1>2

\* The server answers; nothing shown changes.
LEMMA QueryServed ==
  ASSUME NEW D, NEW q \in Query(D), NEW v \in D
  PROVE  /\ Served(q, v) \in Query(D) /\ Served(q, v).answer = v
         /\ Served(q, v).flight = "served" /\ Served(q, v).data = q.data
         /\ Served(q, v).failed = q.failed
BY DEF Query, Flights, Served

\* The answer arrives.
LEMMA QueryArrived ==
  ASSUME NEW D, NEW q \in Query(D)
  PROVE  /\ Arrived(q) \in Query(D) /\ Arrived(q).data = q.answer
         /\ Arrived(q).flight = "idle" /\ Arrived(q).answer = NoData /\ ~Arrived(q).failed
BY DEF Query, Flights, Arrived

\* The last retry fails; the data stay.
LEMMA QueryFailed ==
  ASSUME NEW D, NEW q \in Query(D)
  PROVE  /\ Failed(q) \in Query(D) /\ Failed(q).data = q.data
         /\ Failed(q).flight = "idle" /\ Failed(q).answer = NoData /\ Failed(q).failed
BY DEF Query, Flights, Failed

\* A value is put in the data's place; the request in flight goes on.
LEMMA QuerySet ==
  ASSUME NEW D, NEW q \in Query(D), NEW v \in D
  PROVE  /\ SetData(q, v) \in Query(D) /\ SetData(q, v).data = v
         /\ SetData(q, v).flight = q.flight /\ SetData(q, v).answer = q.answer
         /\ ~SetData(q, v).failed
BY DEF Query, Flights, SetData
=============================================================================
