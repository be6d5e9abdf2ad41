--------------------------- MODULE ConnectionPool ---------------------------
(***************************************************************************)
(* The connection pool that app/db.py makes from the settings: a session    *)
(* takes a connection at its first query, returns it at a commit, a rollback *)
(* or its close, and waits at most database_pool_timeout seconds for one.    *)
(***************************************************************************)
EXTENDS FiniteSets, Naturals

CONSTANTS
    database_pool_size, database_max_overflow,
    database_pool_timeout     \* in ticks

ASSUME PoolAssumption ==
    /\ database_pool_size \in Nat /\ database_max_overflow \in Nat
    /\ database_pool_size + database_max_overflow > 0
    /\ database_pool_timeout \in Nat

VARIABLES
    held,                     \* the requests whose session has a connection
    patience                  \* ticks a request will still wait for one

Capacity == database_pool_size + database_max_overflow

Take(r) ==
    /\ Cardinality(held) < Capacity
    /\ held' = held \cup {r}

Release(r) == held' = held \ {r}

\* Mutant of GiveUp: a request waits for as long as it takes.
GiveUpNever(r) == FALSE

\* Nothing came back in time.
GiveUp(r) == patience[r] = 0 /\ Cardinality(held) >= Capacity

\* Mutant of PassTime: the time runs out and nobody looks.
PassTimeOn(waiting) ==
    patience' = [r \in DOMAIN patience |->
                    IF r \in waiting THEN patience[r] - 1 ELSE database_pool_timeout]

\* Those who wait do not wait beyond their time.
PassTime(waiting) ==
    /\ \A r \in waiting : patience[r] > 0
    /\ patience' = [r \in DOMAIN patience |->
                       IF r \in waiting THEN patience[r] - 1 ELSE database_pool_timeout]
=============================================================================
