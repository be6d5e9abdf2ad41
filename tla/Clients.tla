------------------------------ MODULE Clients ------------------------------
(***************************************************************************)
(* The /clients endpoints of requests that have entered: create, update,    *)
(* delete and regenerate-secret with their commands and the repository,     *)
(* each query a step, so that the requests of several administrators        *)
(* interleave at READ COMMITTED.  A secret is a function of the slug, so a   *)
(* client is its row: an id and a slug (client_id).                         *)
(***************************************************************************)
EXTENDS Users

CONSTANTS
    Clients,                  \* ids
    Slugs, Empty,             \* Empty: the empty string, a slug as any other
    None, Keep                \* no row; an update that leaves the slug alone

ASSUME ClientsAssumption ==
    /\ Clients # {} /\ Empty \in Slugs
    /\ None \notin Slugs /\ Keep \notin Slugs /\ Keep # None

VARIABLES
    table,                    \* table[c]: the slug of client c, None without a row
    key,                      \* master_secret_key is set
    at,                       \* at[r]: the statement that the call of request r is at
    op, id, ask,              \* what it asks for: the client, and the slug to set
    touch,                    \* the updates that set other columns as well
    nulls,                    \* the updates that set the slug or the name to null
    seen,                     \* seen[r]: the slug of the row that was loaded
    status, slug,             \* the answer
    taken,                    \* history: those whose id was in use on arrival
    did,                      \* history: those that changed the table
    raced,                    \* history: those during which another one changed it
    failed                    \* history: those that met a failure of the database

asked      == <<op, id, ask, touch, nulls, taken>>
answer     == <<status, slug>>
callVars   == <<table, at, asked, seen, answer, did, raced, failed>>
clientVars == <<entryVars, callVars, key>>

Stage == {"start", "load", "lookup", "select", "write", "refresh", "done"}
Op    == {"create", "update", "delete", "regenerate"}

ClientsTypeOK ==
    /\ UsersTypeOK
    /\ table \in [Clients -> Slugs \cup {None}] /\ key \in BOOLEAN
    /\ at \in [Requests -> Stage] /\ op \in [Requests -> Op]
    /\ id \in [Requests -> Clients] /\ ask \in [Requests -> Slugs \cup {Keep}]
    /\ seen \in [Requests -> Slugs \cup {None}] /\ slug \in [Requests -> Slugs \cup {None}]
    /\ status \in [Requests -> {0, 200, 400, 404, 500}]
    /\ touch \subseteq Requests /\ nulls \subseteq Requests /\ taken \subseteq Requests /\ did \subseteq Requests
    /\ raced \subseteq Requests /\ failed \subseteq Requests

SlugsUnique ==
    \A c, d \in Clients : table[c] # None /\ table[c] = table[d] => c = d

\* The service starts on a table it has filled before.
ClientsInit ==
    /\ UsersInit
    /\ table \in [Clients -> Slugs \cup {None}] /\ SlugsUnique
    /\ key \in BOOLEAN
    /\ at = [r \in Requests |-> "start"] /\ op = [r \in Requests |-> "create"]
    /\ id = [r \in Requests |-> CHOOSE c \in Clients : TRUE]
    /\ ask = [r \in Requests |-> Keep]
    /\ seen = [r \in Requests |-> None] /\ slug = [r \in Requests |-> None]
    /\ status = [r \in Requests |-> 0]
    /\ touch = {} /\ nulls = {} /\ taken = {} /\ did = {} /\ raced = {} /\ failed = {}

-----------------------------------------------------------------------------
Exists(s) == \E c \in Clients : table[c] = s

Goto(r, stage) ==
    /\ at' = [at EXCEPT ![r] = stage]
    /\ UNCHANGED <<table, asked, seen, answer, did, raced, failed>>

Answer(r, code, s) ==
    /\ at' = [at EXCEPT ![r] = "done"]
    /\ status' = [status EXCEPT ![r] = code]
    /\ slug' = [slug EXCEPT ![r] = s]
    /\ UNCHANGED <<table, asked, seen, did, raced, failed>>

\* r commits: the slug of its client becomes s.
Commit(r, s) ==
    /\ table' = [table EXCEPT ![id[r]] = s]
    /\ \/ table[id[r]] = s /\ UNCHANGED <<did, raced>>
       \/ /\ table[id[r]] # s
          /\ did' = did \cup {r}
          /\ raced' = raced \cup {q \in Requests \ {r} : at[q] \notin {"start", "done"}}
    /\ UNCHANGED <<asked, seen, slug, failed>>

CommitAndGo(r, s) == Commit(r, s) /\ at' = [at EXCEPT ![r] = "refresh"] /\ UNCHANGED status

\* The caller may name the id of the new client.  What an update leaves out it keeps, and
\* what it names as null is set to null, which no column of clients takes.
Ask(r) ==
    /\ at[r] = "start" /\ entry[r] = "in"
    /\ \E o \in Op, c \in Clients, s \in Slugs \cup {Keep} :
          /\ o = "create" => s # Keep
          /\ o \in {"delete", "regenerate"} => s = Keep
          /\ at' = [at EXCEPT ![r] = IF o = "create" THEN "lookup" ELSE "load"]
          /\ op' = [op EXCEPT ![r] = o]
          /\ id' = [id EXCEPT ![r] = c]
          /\ ask' = [ask EXCEPT ![r] = s]
          /\ \/ UNCHANGED <<touch, nulls>>
             \/ o = "update" /\ touch' = touch \cup {r} /\ UNCHANGED nulls
             \/ o = "update" /\ nulls' = nulls \cup {r} /\ UNCHANGED touch
          /\ taken' = IF table[c] # None THEN taken \cup {r} ELSE taken
    /\ UNCHANGED <<table, seen, answer, did, raced, failed>>

\* Mutant of Renames: a column that is not in the request is set as well.
RenamesUnset(r, loaded) == op[r] = "update" /\ ask[r] # loaded

\* The slug the update would set differs from the one that was loaded.
Renames(r, loaded) == op[r] = "update" /\ ask[r] \notin {Keep, loaded}

\* Before such an update the slug is looked up, but not the empty one, which is falsy.
Looks(r, loaded) == Renames(r, loaded) /\ ask[r] # Empty

\* get_client_by_id; the session keeps the object as it was loaded.
Load(r) ==
    LET row == table[id[r]]
    IN  /\ at[r] = "load"
        /\ \/ row = None /\ Answer(r, 404, None)
           \/ /\ row # None
              /\ seen' = [seen EXCEPT ![r] = row]
              /\ at' = [at EXCEPT ![r] = IF Looks(r, row) THEN "lookup" ELSE "select"]
              /\ UNCHANGED <<table, asked, answer, did, raced, failed>>

AfterLookup(r) == IF op[r] = "create" THEN "write" ELSE "select"

\* Mutant of FindSlug: the slug is not looked up.
FindSlugSkipped(r) == at[r] = "lookup" /\ Goto(r, AfterLookup(r))

FindSlug(r) ==
    /\ at[r] = "lookup"
    /\ \/ Exists(ask[r])  /\ Answer(r, 400, None)
       \/ ~Exists(ask[r]) /\ Goto(r, AfterLookup(r))

\* update_client, delete_client and regenerate_secret read the row again.
Select(r) ==
    /\ at[r] = "select"
    /\ \/ table[id[r]] = None /\ Answer(r, 404, None)
       \/ table[id[r]] # None /\ Goto(r, "write")

\* Mutant of Clash: clients has no unique index.
ClashNever(c, s) == FALSE

\* uq_clients_client_id: another row has the slug.
Clash(c, s) == \E d \in Clients \ {c} : table[d] = s

Insert(r) ==
    /\ at[r] = "write" /\ op[r] = "create"
    /\ LET conflict == table[id[r]] # None \/ Clash(id[r], ask[r])
       IN  \/ conflict  /\ Answer(r, 500, None)
           \/ ~conflict /\ CommitAndGo(r, ask[r])

\* An UPDATE is sent only for columns that differ from the loaded object; one
\* that meets no row raises StaleDataError, a null and a slug that is taken IntegrityError.
Update(r) ==
    /\ at[r] = "write" /\ op[r] = "update"
    /\ LET renames == Renames(r, seen[r])
           error == \/ r \in nulls
                    \/ table[id[r]] = None /\ (renames \/ r \in touch)
                    \/ renames /\ Clash(id[r], ask[r])
       IN  \/ error /\ Answer(r, 500, None)
           \/ ~error /\ ~renames /\ Goto(r, "refresh")
           \/ ~error /\ renames /\ CommitAndGo(r, ask[r])

\* A DELETE that meets no row is only a warning.
Delete(r) ==
    /\ at[r] = "write" /\ op[r] = "delete"
    /\ Commit(r, None)
    /\ at' = [at EXCEPT ![r] = "done"]
    /\ status' = [status EXCEPT ![r] = 200]

\* Only the time stamp is written.
Regenerate(r) ==
    /\ at[r] = "write" /\ op[r] = "regenerate"
    /\ \/ table[id[r]] = None /\ Answer(r, 500, None)
       \/ table[id[r]] # None /\ Goto(r, "refresh")

Underivable(r) == op[r] \in {"create", "regenerate"} /\ ~key

\* Mutant of Refresh: without a key the caller is told that its request was wrong.
RefreshRefuses(r) ==
    LET row == table[id[r]]
    IN  /\ at[r] = "refresh"
        /\ \/ (row = None \/ Underivable(r)) /\ Answer(r, 400, None)
           \/ row # None /\ ~Underivable(r) /\ Answer(r, 200, row)

\* The row is read back, and its secret derived where the answer has one; without
\* master_secret_key that raises.
Refresh(r) ==
    LET row == table[id[r]]
    IN  /\ at[r] = "refresh"
        /\ \/ (row = None \/ Underivable(r)) /\ Answer(r, 500, None)
           \/ row # None /\ ~Underivable(r) /\ Answer(r, 200, row)

\* The database fails.
QueryFails(r) ==
    /\ at[r] \in {"load", "lookup", "select", "write", "refresh"}
    /\ at' = [at EXCEPT ![r] = "done"]
    /\ status' = [status EXCEPT ![r] = 500]
    /\ failed' = failed \cup {r}
    /\ UNCHANGED <<table, asked, seen, slug, did, raced>>

Handle(r) ==
    \/ Ask(r) \/ Load(r) \/ FindSlug(r) \/ Select(r) \/ Insert(r) \/ Update(r)
    \/ Delete(r) \/ Regenerate(r) \/ Refresh(r) \/ QueryFails(r)

ClientsNext ==
    \E r \in Requests :
        \/ Enter(r)  /\ UNCHANGED <<callVars, key>>
        \/ Handle(r) /\ UNCHANGED <<entryVars, key>>

ClientsSpec == ClientsInit /\ [][ClientsNext]_clientVars

-----------------------------------------------------------------------------
(* Properties.                                                             *)

\* The answer that r is given in this step.
AnswerIsTrue(r) ==
    at[r] # "done" /\ at'[r] = "done" =>
        /\ status'[r] = 400 => Exists(ask[r])
        /\ status'[r] = 404 => table[id[r]] = None
        /\ status'[r] = 200 => table'[id[r]] = slug'[r]
        /\ status'[r] = 200 /\ ask[r] # Keep /\ r \notin raced => slug'[r] = ask[r]
        /\ status'[r] = 500 /\ r \notin raced /\ r \notin failed' =>
              \/ op[r] = "create" /\ r \in taken
              \/ op[r] = "update" /\ (r \in nulls \/ (ask[r] = Empty /\ Exists(Empty)))
              \/ Underivable(r)

\* What a call is answered.  400 only for a slug that is taken and 404 for a client that
\* is not there; and if no other call changed the table meanwhile and nothing failed,
\* 200 says the slug that was asked for, and 500 is only for an id in use, a secret
\* that cannot be derived, a null, or an update to the empty slug if that is taken, which
\* should have been 400.  So only a race shows a caller a 500 for any other slug, or
\* another slug than the one it asked for: and even then 200 shows the slug the row has.
AnswersAreTrue == [][\A r \in Requests : AnswerIsTrue(r)]_clientVars

\* Where a call is, seen from outside.
Phase(r) ==
    IF at[r] = "start" THEN "new" ELSE IF at[r] = "done" THEN "over" ELSE "open"

Registry == INSTANCE ClientRegistry WITH
    letIn   <- {r \in Requests : entry[r] = "in"},
    phase   <- [r \in Requests |-> Phase(r)],
    changed <- did

\* However the queries of concurrent calls interleave and fail, the table changes as if
\* each call were one transaction: one that a caller who was let in has open, once, to
\* the client it named and as it asked, and never to a slug that another client has.
ImplementsRegistry == Registry!Spec

\* A call that was refused left no trace: 400 and 404 changed nothing, and one
\* answered 500 whose change is in the table was overtaken by a delete, met a failure after
\* its commit, or could not derive the secret.
RefusedChangesNothing ==
    \A r \in Requests :
        /\ status[r] \in {400, 404} => r \notin did
        /\ status[r] = 500 /\ r \in did => r \in raced \/ r \in failed \/ ~key
        /\ status[r] = 200 /\ op[r] = "create" => r \in did
=============================================================================
