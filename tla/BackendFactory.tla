--------------------------- MODULE BackendFactory ---------------------------
(***************************************************************************)
(* StorageFactory.get_backend, called by requests in the threads of one     *)
(* process without a lock, and the constructor of the local backend, which  *)
(* proves with a file that it can write.  The factories of the analysis     *)
(* backend and of the cache have the same three lines.                      *)
(***************************************************************************)
EXTENDS FiniteSets, Naturals

CONSTANTS Requests, NoBackend

ASSUME FactoryAssumption == NoBackend \notin Requests

VARIABLES
    provider,                 \* settings.storage_backend
    at,                       \* at[r]: the statement request r is at
    instance,                 \* _instance, named by the request that built it
    probe,                    \* the file .test_write exists
    overlap                   \* requests whose build overlapped another, until they have a backend

factoryVars == <<provider, at, instance, probe, overlap>>

Building == {"construct", "write", "unlink", "assign"}
FactoryStage == Building \cup {"check", "return", "given", "failed", "broken"}

Builders == {r \in Requests : at[r] \in Building}

FactoryInit ==
    /\ provider \in {"local", "s3"}
    /\ instance = NoBackend
    /\ probe = FALSE
    /\ overlap = {}

To(r, stage) == at' = [at EXCEPT ![r] = stage]

\* Mutant of Check: a backend for every request.
CheckNever(r) ==
    /\ at[r] = "check"
    /\ To(r, "construct")
    /\ overlap' = IF Builders = {} THEN overlap ELSE overlap \cup Builders \cup {r}
    /\ UNCHANGED <<provider, instance, probe>>

Check(r) ==
    /\ at[r] = "check"
    /\ IF instance = NoBackend
       THEN /\ To(r, "construct")
            /\ overlap' = IF Builders = {} THEN overlap ELSE overlap \cup Builders \cup {r}
       ELSE To(r, "return") /\ UNCHANGED overlap
    /\ UNCHANGED <<provider, instance, probe>>

\* The constructor: S3 makes its client, local its directories.
Construct(r) ==
    /\ at[r] = "construct"
    /\ To(r, IF provider = "s3" THEN "assign" ELSE "write")
    /\ UNCHANGED <<provider, instance, probe, overlap>>

\* Mutant of WriteProbe: the file is to be there already.
WriteProbeNot(r) ==
    /\ at[r] = "write"
    /\ To(r, "unlink")
    /\ UNCHANGED <<provider, instance, probe, overlap>>

WriteProbe(r) ==
    /\ at[r] = "write"
    /\ To(r, "unlink")
    /\ probe' = TRUE
    /\ UNCHANGED <<provider, instance, overlap>>

\* A file that is gone already is an OSError, answered 500.
UnlinkProbe(r) ==
    /\ at[r] = "unlink"
    /\ To(r, IF probe THEN "assign" ELSE "failed")
    /\ probe' = FALSE
    /\ UNCHANGED <<provider, instance, overlap>>

Assign(r) ==
    /\ at[r] = "assign"
    /\ To(r, "return")
    /\ instance' = r
    /\ UNCHANGED <<provider, probe, overlap>>

\* What is returned is _instance as it is now.
Return(r) ==
    /\ at[r] = "return"
    /\ To(r, "given")
    /\ overlap' = overlap \ {r}
    /\ UNCHANGED <<provider, instance, probe>>

\* The disk, or the client of S3, fails.
BuildFails(r) ==
    /\ at[r] \in {"construct", "write", "unlink"}
    /\ To(r, "broken")
    /\ UNCHANGED <<provider, instance, probe, overlap>>

GetBackend(r) ==
    \/ Check(r) \/ Construct(r) \/ WriteProbe(r) \/ UnlinkProbe(r)
    \/ Assign(r) \/ Return(r) \/ BuildFails(r)

-----------------------------------------------------------------------------
(* Properties.                                                             *)

\* Requests share one backend as soon as one is built and nobody else is building: _instance
\* is replaced only by builds that began while there was none, so two backends
\* are in use only after their builds overlapped.
SettlesOnOne ==
    [][/\ instance # NoBackend => Cardinality(Builders') <= Cardinality(Builders)
       /\ instance # NoBackend /\ instance' # instance => instance' \in overlap]_factoryVars

\* A request is not told that storage is broken when it is not: the constructor
\* fails on a disk that works only if two of them removed each other's test file.
ProbeFailsOnlyIfShared ==
    \A r \in Requests : at[r] = "failed" => r \in overlap
=============================================================================
