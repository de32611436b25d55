---------------------------- MODULE PickRegister ----------------------------
(***************************************************************************)
(* What the client promises about the users' stored picks.  Each user's    *)
(* picks are a register that counts its writes.  What the screen shows of  *)
(* a register never goes back in time while it stays up, and once it was   *)
(* told that a write is stored it shows nothing newly that is older.       *)
(***************************************************************************)
EXTENDS Integers

CONSTANTS
  Users,
  Blank   \* the screen shows nothing of the user's: not a number

VARIABLES
  latest,   \* latest[u]: writes so far
  told,     \* told[u]: the newest write the screen was told of
  view      \* view[u]: the write the screen shows

Init ==
  /\ latest = [u \in Users |-> 0] /\ told = [u \in Users |-> 0]
  /\ view = [u \in Users |-> Blank]

Write(u) ==
  /\ latest' = [latest EXCEPT ![u] = @ + 1]
  /\ UNCHANGED <<told, view>>

Tell(u) ==
  /\ \E v \in told[u] + 1 .. latest[u] : told' = [told EXCEPT ![u] = v]
  /\ UNCHANGED <<latest, view>>

Show(u) ==
  /\ \E v \in told[u] .. latest[u] :
       /\ view[u] # Blank => v >= view[u]
       /\ view' = [view EXCEPT ![u] = v]
  /\ UNCHANGED <<latest, told>>

\* An error takes the place of the picks.
Hide(u) == view' = [view EXCEPT ![u] = Blank] /\ UNCHANGED <<latest, told>>

\* The user turns to another screen; the next one starts anew.
Leave(u) ==
  /\ told' = [told EXCEPT ![u] = 0] /\ view' = [view EXCEPT ![u] = Blank]
  /\ UNCHANGED latest

Next == \E u \in Users : Write(u) \/ Tell(u) \/ Show(u) \/ Hide(u) \/ Leave(u)

Spec == Init /\ [][Next]_<<latest, told, view>>
=============================================================================
