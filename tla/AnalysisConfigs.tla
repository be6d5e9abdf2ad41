--------------------------- MODULE AnalysisConfigs ---------------------------
(***************************************************************************)
(* POST, PATCH and DELETE /analysis-configs: the router's get-by-id        *)
(* dependency, the command and AnalysisConfigRepository, each request in a *)
(* session and a PostgreSQL transaction of its own at READ COMMITTED.  An  *)
(* UPDATE finds its rows in a snapshot taken as it starts, then locks and  *)
(* rechecks them one by one; a lock is held until the transaction ends.    *)
(* Of a row only its existence and is_default are modelled.                *)
(***************************************************************************)
CONSTANTS
    Config,                   \* config ids
    Request                   \* requests in flight at once

VARIABLES
    configs,                  \* committed rows
    defaults,                 \* committed rows with is_default
    unused,                   \* ids no row has had yet (ids are uuid4)
    tx,                       \* tx[r]: the session of request r
    raced                     \* have two requests ever raced for the default?

vars == <<configs, defaults, unused, tx, raced>>

\* add: create with is_default false; create, promote: with is_default true;
\* demote: PATCH with is_default false.
Op == {"add", "create", "promote", "demote", "delete"}

\* copy: is_default of the row as the session's identity map holds it.  todo:
\* rows the UPDATE has yet to reach; locks: rows it reached, false once committed.
Tx == [op : Op, id : Config, pc : {"idle", "check", "clear", "commit"},
       copy : BOOLEAN, todo : SUBSET Config, locks : SUBSET Config]

TypeOK ==
    /\ configs \in SUBSET Config /\ defaults \in SUBSET configs
    /\ unused \in SUBSET (Config \ configs)
    /\ tx \in [Request -> Tx]
    /\ raced \in BOOLEAN

\* A table with its default in place, as the migration seeds it.
Init ==
    /\ configs \in SUBSET Config
    /\ \E c \in configs : defaults = {c}
    /\ unused = Config \ configs
    /\ \E c \in Config :
         tx = [r \in Request |-> [op |-> "add", id |-> c, pc |-> "idle", copy |-> FALSE,
                                  todo |-> {}, locks |-> {}]]
    /\ raced = FALSE

-----------------------------------------------------------------------------
At(r, pc) == tx[r].pc = pc

\* Mutant of End: the session is not closed and its locks stay.
EndKeepsLocks(r) == tx' = [tx EXCEPT ![r].pc = "idle", ![r].todo = {}, ![r].copy = FALSE]

\* End of the transaction: locks and snapshot are gone.
End(r) == tx' = [tx EXCEPT ![r].pc = "idle", ![r].todo = {}, ![r].locks = {},
                           ![r].copy = FALSE]

Locked(r, c) == \E q \in Request \ {r} : c \in tx[q].locks

\* Two requests in flight at once, one of which gives the default to a row
\* that the other one takes it from, or deletes.
Sets(op) == op \in {"create", "promote"}
Conflict(op1, c1, op2, c2) ==
    \/ Sets(op1) /\ Sets(op2)
    \/ Sets(op1) /\ op2 = "delete" /\ c1 = c2
    \/ op1 = "delete" /\ Sets(op2) /\ c1 = c2

Races(r, op, c) ==
    \E q \in Request \ {r} : ~At(q, "idle") /\ Conflict(op, c, tx[q].op, tx[q].id)

-----------------------------------------------------------------------------
\* PATCH and DELETE: get_analysis_config_by_id loads the row (404 if there is
\* none) into the session that the command will use.
Load(r) ==
    /\ At(r, "idle")
    /\ \E op \in {"promote", "demote", "delete"}, c \in configs :
          /\ tx' = [tx EXCEPT ![r] = [op |-> op, id |-> c, pc |-> "check", todo |-> {},
                                      copy |-> c \in defaults, locks |-> {}]]
          /\ raced' = (raced \/ Races(r, op, c))
    /\ UNCHANGED <<configs, defaults, unused>>

\* POST with is_default: the UPDATE that clears every default starts.
Create(r) ==
    /\ At(r, "idle")
    /\ \E c \in unused :
          /\ tx' = [tx EXCEPT ![r] = [op |-> "create", id |-> c, pc |-> "clear",
                                      copy |-> FALSE, todo |-> defaults, locks |-> {}]]
          /\ unused' = unused \ {c}
          /\ raced' = (raced \/ Races(r, "create", c))
    /\ UNCHANGED <<configs, defaults>>

\* POST without is_default: INSERT and COMMIT.
Add(r) ==
    /\ At(r, "idle")
    /\ \E c \in unused : configs' = configs \cup {c} /\ unused' = unused \ {c}
    /\ UNCHANGED <<defaults, tx, raced>>

\* The repository's own get_by_id notices a row that is gone, but for one that
\* is there it returns the object loaded before, is_default as it was then.
Gone(r) ==
    /\ At(r, "check") /\ tx[r].id \notin configs
    /\ End(r)
    /\ UNCHANGED <<configs, defaults, unused, raced>>

\* update with is_default true: the UPDATE of the other defaults starts.
CheckPromote(r) ==
    /\ At(r, "check") /\ tx[r].op = "promote" /\ tx[r].id \in configs
    /\ tx' = [tx EXCEPT ![r].pc = "clear", ![r].todo = defaults \ {tx[r].id}]
    /\ UNCHANGED <<configs, defaults, unused, raced>>

\* update with is_default false: ValueError (409) if the copy is the default;
\* otherwise the attribute does not change and no UPDATE is sent.
CheckDemote(r) ==
    /\ At(r, "check") /\ tx[r].op = "demote" /\ tx[r].id \in configs
    /\ End(r)
    /\ UNCHANGED <<configs, defaults, unused, raced>>

\* Mutant of CheckDelete: the default is deleted like any other row.
CheckDeleteAny(r) ==
    /\ At(r, "check") /\ tx[r].op = "delete" /\ tx[r].id \in configs
    /\ tx' = [tx EXCEPT ![r].pc = "commit"]
    /\ UNCHANGED <<configs, defaults, unused, raced>>

\* delete: ValueError (409) if the copy is the default.
CheckDelete(r) ==
    /\ At(r, "check") /\ tx[r].op = "delete" /\ tx[r].id \in configs
    /\ \/ tx[r].copy /\ End(r)
       \/ ~tx[r].copy /\ tx' = [tx EXCEPT ![r].pc = "commit"]
    /\ UNCHANGED <<configs, defaults, unused, raced>>

\* The UPDATE reaches row c: it waits for the lock, and keeps it even if the
\* row is no longer a default.
ClearRow(r, c) ==
    /\ At(r, "clear") /\ c \in tx[r].todo /\ ~Locked(r, c)
    /\ tx' = [tx EXCEPT ![r].todo = @ \ {c}, ![r].locks = @ \cup ({c} \cap configs)]
    /\ UNCHANGED <<configs, defaults, unused, raced>>

\* Mutant of Cleared: the UPDATE is committed on its own.
ClearedCommits(r) ==
    /\ At(r, "clear") /\ tx[r].todo = {}
    /\ defaults' = defaults \ tx[r].locks
    /\ tx' = [tx EXCEPT ![r].pc = "commit", ![r].locks = {}]
    /\ UNCHANGED <<configs, unused, raced>>

Cleared(r) ==
    /\ At(r, "clear") /\ tx[r].todo = {}
    /\ tx' = [tx EXCEPT ![r].pc = "commit"]
    /\ UNCHANGED <<configs, defaults, unused, raced>>

\* INSERT of the new default, and COMMIT.
CommitCreate(r) ==
    /\ At(r, "commit") /\ tx[r].op = "create"
    /\ configs' = configs \cup {tx[r].id}
    /\ defaults' = (defaults \ tx[r].locks) \cup {tx[r].id}
    /\ End(r)
    /\ UNCHANGED <<unused, raced>>

\* Mutant of CommitPromote: the write does not notice that its row is gone.
CommitPromoteUpserts(r) ==
    /\ At(r, "commit") /\ tx[r].op = "promote" /\ ~Locked(r, tx[r].id)
    /\ defaults' = (defaults \ tx[r].locks) \cup {tx[r].id}
    /\ End(r)
    /\ UNCHANGED <<configs, unused, raced>>

\* Flush and COMMIT of a promotion.  The row is written only if the copy was
\* not the default; a write that matches no row (StaleDataError) rolls back.
CommitPromote(r) ==
    /\ At(r, "commit") /\ tx[r].op = "promote"
    /\ \/ tx[r].copy /\ defaults' = defaults \ tx[r].locks
       \/ /\ ~tx[r].copy /\ ~Locked(r, tx[r].id)
          /\ defaults' = IF tx[r].id \in configs
                         THEN (defaults \ tx[r].locks) \cup {tx[r].id} ELSE defaults
    /\ End(r)
    /\ UNCHANGED <<configs, unused, raced>>

\* DELETE by primary key, and COMMIT: it waits for a lock, and deletes what
\* the row has become.
CommitDelete(r) ==
    /\ At(r, "commit") /\ tx[r].op = "delete" /\ ~Locked(r, tx[r].id)
    /\ configs' = configs \ {tx[r].id}
    /\ defaults' = defaults \ {tx[r].id}
    /\ End(r)
    /\ UNCHANGED <<unused, raced>>

\* r waits for a row lock that q holds.
WaitsFor(r, q) ==
    \/ At(r, "clear") /\ tx[r].todo \cap tx[q].locks # {}
    \/ /\ At(r, "commit") /\ tx[r].id \in tx[q].locks
       /\ tx[r].op \in {"promote", "delete"} /\ ~tx[r].copy

\* PostgreSQL finds two transactions waiting for each other and rolls one back.
Victim(r) ==
    /\ \E q \in Request \ {r} : WaitsFor(r, q) /\ WaitsFor(q, r)
    /\ End(r)
    /\ UNCHANGED <<configs, defaults, unused, raced>>

\* A database error, the death of the worker: rollback.
Abort(r) ==
    /\ ~At(r, "idle")
    /\ End(r)
    /\ UNCHANGED <<configs, defaults, unused, raced>>

Work(r) ==
    \/ Gone(r) \/ CheckPromote(r) \/ CheckDemote(r) \/ CheckDelete(r)
    \/ (\E c \in Config : ClearRow(r, c)) \/ Cleared(r)
    \/ CommitCreate(r) \/ CommitPromote(r) \/ CommitDelete(r) \/ Victim(r)

Next == \E r \in Request : Load(r) \/ Create(r) \/ Add(r) \/ Work(r) \/ Abort(r)

Spec == Init /\ [][Next]_vars

\* Strong fairness: a row lock is queued for, so a request that waits for one
\* gets it however often others take it first.
FairSpec == Spec /\ \A r \in Request : SF_vars(Work(r))

-----------------------------------------------------------------------------
(* Properties.                                                             *)

\* The table, without the transactions.
Promise == INSTANCE DefaultConfig WITH Config <- Config, configs <- configs, defaults <- defaults

\* The repository keeps the documented invariant as long as no two requests
\* race for the default; every other interleaving is harmless.
OneDefaultUnlessRaced == raced \/ Promise!OneDefault

\* Until then every commit is one of the promised changes: the default moves
\* in one step and its row is not deleted.
KeepsPromise == [][raced' \/ Promise!Next]_(Promise!vars)

\* Every request is answered.
EveryRequestEnds == \A r \in Request : []<>At(r, "idle")

\* docs/config/analysis_configs.md: exactly one default at all times, which the
\* repository enforces.
ExactlyOneDefault == \E c \in Config : defaults = {c}
=============================================================================
