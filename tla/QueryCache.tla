----------------------------- MODULE QueryCache -----------------------------
(***************************************************************************)
(* One query of the client's cache (TanStack Query 5, the client of        *)
(* frontend/src/main.tsx with its defaults: data is stale at once, mounting *)
(* and focusing refetch, a failing query is retried and then fails).       *)
(*                                                                         *)
(* At most one request of a query is in flight.  The server answers it at  *)
(* one moment (Served) and the answer reaches the cache at a later one     *)
(* (Arrived): between the two the answer grows old.  Retries are one       *)
(* request that takes longer; Failed is the end of the last retry.         *)
(***************************************************************************)
CONSTANT NoData   \* undefined: nothing was ever loaded

Flights == {"idle", "sent", "served"}

Query(D) == [data : D \union {NoData}, flight : Flights,
             answer : D \union {NoData}, failed : BOOLEAN]

Unasked == [data |-> NoData, flight |-> "idle", answer |-> NoData, failed |-> FALSE]

Sent(q) == [q EXCEPT !.flight = "sent", !.answer = NoData,
                     !.failed = q.failed /\ q.data # NoData]

\* Mounting a component that uses the query, or focusing the window: a request
\* already in flight is joined.
Fetch(q) == IF q.flight = "idle" THEN Sent(q) ELSE q

MutJoin(q) == Fetch(q)

\* Invalidating a query in use, or the Retry button: a request in flight is
\* dropped and a new one sent, except while there is no data to show.
Anew(q) == q.flight = "idle" \/ q.data # NoData
Refetch(q) == IF Anew(q) THEN Sent(q) ELSE q

Served(q, v) == [q EXCEPT !.flight = "served", !.answer = v]

Arrived(q) == [data |-> q.answer, flight |-> "idle", answer |-> NoData, failed |-> FALSE]

\* The data stay, and the component is told of the error.
Failed(q) == [q EXCEPT !.flight = "idle", !.answer = NoData, !.failed = TRUE]

\* setQueryData: a request in flight is not dropped.
SetData(q, v) == [q EXCEPT !.data = v, !.failed = FALSE]

IsLoading(q) == q.data = NoData /\ q.flight # "idle"
=============================================================================
