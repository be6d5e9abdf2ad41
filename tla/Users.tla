------------------------------- MODULE Users -------------------------------
(***************************************************************************)
(* A request enters the service through the two middlewares main.py adds,   *)
(* authentication and onboarding.  They are tessera_sdk's, so their steps   *)
(* are known only by what UserRepository, which main.py hands to both, lets *)
(* them do: look a person up and insert one seen for the first time, with   *)
(* what identies says of it.                                                *)
(***************************************************************************)
EXTENDS Naturals

CONSTANTS
    Requests, People,
    Emails,                   \* emails, and ids, at identies
    NoEmail                   \* NULL

ASSUME UsersAssumption == NoEmail \notin Emails

VARIABLES
    users,                    \* the rows of users: who, its email, and who wrote it
    email,                    \* email[p]: the email identies has for person p
    who,                      \* who[r]: the person the token of request r names
    entry,                    \* entry[r]: the step of its entry
    refusal,                  \* refusal[r]: the status it was refused with, 0 if not
    known,                    \* history: those whose person had a row on arrival
    rivals,                   \* history: those whose person another one onboarded since
    troubled                  \* history: those whose token, user info or database failed

entryVars == <<users, email, who, entry, refusal, known, rivals, troubled>>

Entry == {"idle", "token", "lookup", "fetch", "insert", "refresh", "in", "refused"}

User == [external_id: People, email: Emails \cup {NoEmail}, by: Requests]

UsersTypeOK ==
    /\ users \subseteq User
    /\ email \in [People -> Emails \cup {NoEmail}]
    /\ who \in [Requests -> People]
    /\ entry \in [Requests -> Entry]
    /\ refusal \in [Requests -> {0, 401, 403, 500}]
    /\ known \subseteq Requests /\ rivals \subseteq Requests /\ troubled \subseteq Requests

UsersInit ==
    /\ users = {}
    /\ email \in [People -> Emails \cup {NoEmail}]
    /\ who \in [Requests -> People]
    /\ entry = [r \in Requests |-> "idle"]
    /\ refusal = [r \in Requests |-> 0]
    /\ known = {} /\ rivals = {} /\ troubled = {}

-----------------------------------------------------------------------------
HasRow(p) == \E u \in users : u.external_id = p

\* The users that have the email of p already, under another external_id.
Namesakes(p) == {u \in users : u.external_id # p /\ u.email = email[p] /\ u.email # NoEmail}

\* Request r goes on from one step to the next.
GoOn(r, from, to) ==
    /\ entry[r] = from
    /\ entry' = [entry EXCEPT ![r] = to]
    /\ UNCHANGED <<users, email, who, refusal, known, rivals, troubled>>

Refuse(r, from, status) ==
    /\ entry[r] = from
    /\ entry' = [entry EXCEPT ![r] = "refused"]
    /\ refusal' = [refusal EXCEPT ![r] = status]
    /\ UNCHANGED <<users, email, who, known, rivals>>

Arrive(r) ==
    /\ entry[r] = "idle"
    /\ entry' = [entry EXCEPT ![r] = "token"]
    /\ known' = IF HasRow(who[r]) THEN known \cup {r} ELSE known
    /\ UNCHANGED <<users, email, who, refusal, rivals, troubled>>

\* A token that is missing, not good or without the claims that are read.
Authenticate(r) ==
    \/ GoOn(r, "token", "lookup")
    \/ /\ \E s \in {401, 403, 500} : Refuse(r, "token", s)
       /\ troubled' = troubled \cup {r}

\* Mutant of FindUser: everybody is fetched and onboarded again.
FindUserNever(r) == GoOn(r, "lookup", "fetch")

FindUser(r) ==
    GoOn(r, "lookup", IF HasRow(who[r]) THEN "in" ELSE "fetch")

\* identies answers with a user, or with something else, or not at all.
FetchUserInfo(r) ==
    \/ GoOn(r, "fetch", "insert")
    \/ (\E s \in {403, 500} : Refuse(r, "fetch", s)) /\ troubled' = troubled \cup {r}

\* Mutant of Conflicts: users has no unique index.
ConflictsNever(p) == FALSE

\* uq_users_external_id, and the unique email; the primary key, if identies has an id,
\* is unique as the email is.
Conflicts(p) == HasRow(p) \/ Namesakes(p) # {}

\* The others that are about to look for p, or to onboard p as well.
Overtaken(r, p) ==
    {q \in Requests \ {r} : who[q] = p /\ entry[q] \in {"token", "lookup", "fetch", "insert"}}

\* onboard_user: the row is inserted and committed.
Onboard(r) ==
    \/ Conflicts(who[r]) /\ Refuse(r, "insert", 500) /\ UNCHANGED troubled
    \/ /\ ~Conflicts(who[r])
       /\ entry[r] = "insert"
       /\ entry' = [entry EXCEPT ![r] = "refresh"]
       /\ users' = users \cup {[external_id |-> who[r], email |-> email[who[r]], by |-> r]}
       /\ rivals' = rivals \cup Overtaken(r, who[r])
       /\ UNCHANGED <<email, who, refusal, known, troubled>>

\* The row is read back.
RefreshUser(r) == GoOn(r, "refresh", "in")

\* The database fails.
UserQueryFails(r) ==
    (\E s \in {"lookup", "insert", "refresh"} : Refuse(r, s, 500)) /\ troubled' = troubled \cup {r}

Enter(r) ==
    \/ Arrive(r) \/ Authenticate(r) \/ FindUser(r) \/ FetchUserInfo(r)
    \/ Onboard(r) \/ RefreshUser(r) \/ UserQueryFails(r)

-----------------------------------------------------------------------------
(* Properties.                                                             *)

\* Two first requests of one person may both find no row and both insert one: the
\* person still has one row (uq_users_external_id), and no two users one email, so the
\* lookup by external_id always means the same user.
OneRowPerPerson ==
    \A u, v \in users :
        u.external_id = v.external_id \/ (u.email = v.email /\ u.email # NoEmail) => u = v

\* Nobody is onboarded twice.  A person who had a row on arrival is let in by the
\* lookup alone; a request refused with 500 though its token, identies and the database
\* were fine lost the insert to another request of the same person, so a retry is let in,
\* or to another user with the same email, and then no retry ever is.
OnboardedOnce ==
    \A r \in Requests :
        /\ r \in known => entry[r] \notin {"fetch", "insert", "refresh"}
        /\ refusal[r] = 500 /\ r \notin troubled =>
              (r \in rivals /\ HasRow(who[r])) \/ Namesakes(who[r]) # {}
=============================================================================
