------------------------------- MODULE Accounts -------------------------------
(***************************************************************************)
(* Roles, and the Users section that changes them: the handler of a role   *)
(* change statement by statement (admin_users_handler.go: PostUserRole     *)
(* behind RequireAdmin), and one browser tab of every person (Admin.tsx:   *)
(* UsersSection) with a list of users that may be old.                     *)
(***************************************************************************)
EXTENDS Integers, FiniteSets

CONSTANTS
  People,
  FirstAdmins,   \* SEED_ADMIN_EMAILS, promoted at startup
  NoOne,
  MaxChanges     \* bound: role changes asked for

ASSUME AccountsAssumption ==
  /\ IsFiniteSet(People) /\ FirstAdmins \subseteq People /\ FirstAdmins # {}
  /\ NoOne \notin People /\ MaxChanges \in Nat

VARIABLES
  admins,        \* users with role "admin"
  roleWrites,    \* how many changes were written
  listed,        \* listed[p]: the admins by p's list of users, {} before it is loaded
  confirm,       \* demoteConfirm: whom p is asked about
  change,        \* change[p]: p's request
  asked,         \* how many requests were sent
  crossed        \* history: a demotion was written on a count out of date

accountsVars == <<admins, roleWrites, listed, confirm, change, asked, crossed>>

Stages == {"none", "sent", "admitted", "read", "checked", "done", "refused"}
Change == [target : People, promote : BOOLEAN, at : Stages, countedAt : Nat]
NoChange == [target |-> CHOOSE p \in People : TRUE, promote |-> FALSE, at |-> "none", countedAt |-> 0]

-----------------------------------------------------------------------------
AccountsInit ==
  /\ admins = FirstAdmins /\ roleWrites = 0
  /\ listed = [p \in People |-> {}]
  /\ confirm = [p \in People |-> NoOne]
  /\ change = [p \in People |-> NoChange] /\ asked = 0
  /\ crossed = FALSE

\* The list of users is loaded; it is the admins' only.
LoadUsers(p) ==
  /\ p \in admins /\ listed[p] # admins
  /\ listed' = [listed EXCEPT ![p] = admins]
  /\ UNCHANGED <<admins, roleWrites, confirm, change, asked, crossed>>

Ask(p, t, promote) ==
  /\ asked < MaxChanges /\ asked' = asked + 1
  /\ change' = [change EXCEPT ![p] =
       [target |-> t, promote |-> promote, at |-> "sent", countedAt |-> 0]]

\* "Make admin" asks at once; the row of oneself has no button.
ClickPromote(p, t) ==
  /\ listed[p] # {} /\ p # t /\ t \notin listed[p] /\ change[p].at = "none" /\ confirm[p] = NoOne
  /\ Ask(p, t, TRUE)
  /\ UNCHANGED <<admins, roleWrites, listed, confirm, crossed>>

\* "Make user" opens a dialog.
ClickDemote(p, t) ==
  /\ p # t /\ t \in listed[p] /\ change[p].at = "none" /\ confirm[p] = NoOne
  /\ confirm' = [confirm EXCEPT ![p] = t]
  /\ UNCHANGED <<admins, roleWrites, listed, change, asked, crossed>>

\* The dialog asks for the user it named, whatever the list says by now.
ConfirmDemote(p) ==
  /\ confirm[p] # NoOne
  /\ Ask(p, confirm[p], FALSE)
  /\ confirm' = [confirm EXCEPT ![p] = NoOne]
  /\ UNCHANGED <<admins, roleWrites, listed, crossed>>

CancelDemote(p) ==
  /\ confirm[p] # NoOne
  /\ confirm' = [confirm EXCEPT ![p] = NoOne]
  /\ UNCHANGED <<admins, roleWrites, listed, change, asked, crossed>>

-----------------------------------------------------------------------------
Move(p, from, to) ==
  /\ change[p].at = from
  /\ change' = [change EXCEPT ![p].at = to]

\* RequireAdmin looks the caller's role up; then one's own role is refused.
Admit(p) ==
  /\ Move(p, "sent", IF p \in admins /\ change[p].target # p THEN "admitted" ELSE "refused")
  /\ UNCHANGED <<admins, roleWrites, listed, confirm, asked, crossed>>

\* The target's role is read: only a demotion of an admin needs the count.
ReadRole(p) ==
  /\ change[p].at = "admitted"
  /\ change' = [change EXCEPT
       ![p].at = IF change[p].target \in admins /\ ~change[p].promote THEN "read" ELSE "checked",
       ![p].countedAt = roleWrites]
  /\ UNCHANGED <<admins, roleWrites, listed, confirm, asked, crossed>>

MutEnough(S) == Cardinality(S) >= 1

Enough(S) == Cardinality(S) > 1

CountAdmins(p) ==
  /\ change[p].at = "read"
  /\ change' = [change EXCEPT ![p].at = IF Enough(admins) THEN "checked" ELSE "refused",
                              ![p].countedAt = roleWrites]
  /\ UNCHANGED <<admins, roleWrites, listed, confirm, asked, crossed>>

SetUserRole(p) ==
  /\ Move(p, "checked", "done")
  /\ admins' = IF change[p].promote THEN admins \union {change[p].target}
                                    ELSE admins \ {change[p].target}
  /\ roleWrites' = roleWrites + 1
  /\ crossed' = (crossed \/ (~change[p].promote /\ change[p].countedAt # roleWrites))
  /\ UNCHANGED <<listed, confirm, asked>>

\* A statement fails, or the answer is lost, and the tab can ask again.
RoleFails(p) ==
  /\ change[p].at \notin {"none", "done", "refused"}
  /\ change' = [change EXCEPT ![p].at = "refused"]
  /\ UNCHANGED <<admins, roleWrites, listed, confirm, asked, crossed>>

HearRole(p) ==
  /\ change[p].at \in {"done", "refused"}
  /\ change' = [change EXCEPT ![p] = NoChange]
  /\ UNCHANGED <<admins, roleWrites, listed, confirm, asked, crossed>>

AccountsNext ==
  \E p \in People :
    \/ LoadUsers(p) \/ ConfirmDemote(p) \/ CancelDemote(p)
    \/ \E t \in People : ClickPromote(p, t) \/ ClickDemote(p, t)
    \/ Admit(p) \/ ReadRole(p) \/ CountAdmins(p) \/ SetUserRole(p)
    \/ RoleFails(p) \/ HearRole(p)

AccountsSpec == AccountsInit /\ [][AccountsNext]_accountsVars

-----------------------------------------------------------------------------
(* Properties.                                                             *)

\* Every variable has its type.
AccountsTypeOK ==
  /\ admins \in SUBSET People /\ roleWrites \in Nat
  /\ listed \in [People -> SUBSET People]
  /\ confirm \in [People -> People \union {NoOne}]
  /\ change \in [People -> Change] /\ asked \in Nat
  /\ crossed \in BOOLEAN

\* There is an admin, unless a demotion was written on a count of admins that
\* another change had made out of date (PostUserRole: the count and the write are
\* separate statements).
AdminsRemain == crossed \/ admins # {}
=============================================================================
