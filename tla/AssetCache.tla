----------------------------- MODULE AssetCache -----------------------------
(***************************************************************************)
(* The read-through cache over table assets: AssetCache, the two readers   *)
(* that fill it (get_asset_for_serving behind GET /assets/serve/{payload}, *)
(* get_asset_by_id behind GET and DELETE /assets/{id}), and the two        *)
(* commands that write a row and then invalidate it.  Requests interleave  *)
(* at every call to the database or to Redis.                              *)
(***************************************************************************)
EXTENDS Integers

CONSTANTS
    Asset,                    \* asset ids
    Request,                  \* requests in flight at once
    MaxVersion,               \* bound: commits to one row
    PositiveTtl, NegativeTtl, \* lifetimes, in ticks of the clock
    Faults                    \* may Redis, the database or a worker fail?

ASSUME CacheAssumption ==
    /\ MaxVersion \in Nat
    /\ PositiveTtl \in Nat \ {0} /\ NegativeTtl \in Nat \ {0}
    /\ Faults \in BOOLEAN

VARIABLES
    row,                      \* row[a]: version and existence of the row
    cache,                    \* cache[k][a]: the entry of a under key k
    req,                      \* req[r]: where request r is
    acked                     \* assets whose DELETE has been answered 200

vars == <<row, cache, req, acked>>

\* Both keys of an asset derive from the same row.
Key == {"serve", "record"}

\* A version counts the commits to the row and stands for its contents.  A row
\* that is not live was deleted, or never existed (version 0): ids are uuid4,
\* so neither comes back.
Row == [ver : Nat, live : BOOLEAN]

\* An entry as written by write_found / write_not_found, the ticks it has left,
\* and, for the properties only, why the key may not follow the row: it was
\* filled from a read that a commit had overtaken, or an invalidation was lost.
Miss  == [ver |-> 0, live |-> FALSE, left |-> 0, excuse |-> "none"]
Entry == [ver : Nat, live : BOOLEAN, left : Nat, excuse : {"none", "raced", "lost"}]
Cached(k, a) == cache[k][a].left > 0

Op == {"serve", "get", "delete", "update"}
Pc == {"idle", "lookup", "load", "fill", "owner", "select", "commit",
       "refresh", "invserve", "invrecord"}

\* saw: the row this request loaded, to be written into the cache.
Req  == [op : Op, id : Asset, pc : Pc, saw : Row]

TypeOK ==
    /\ row \in [Asset -> Row]
    /\ cache \in [Key -> [Asset -> Entry]]
    /\ req \in [Request -> Req]
    /\ acked \in SUBSET Asset

Unseen == [ver |-> 0, live |-> FALSE]

Init ==
    /\ row \in [Asset -> {[ver |-> 1, live |-> TRUE], [ver |-> 0, live |-> FALSE]}]
    /\ cache = [k \in Key |-> [a \in Asset |-> Miss]]
    /\ \E a \in Asset :
          req = [r \in Request |-> [op |-> "get", id |-> a, pc |-> "idle", saw |-> Unseen]]
    /\ acked = {}

-----------------------------------------------------------------------------
At(r, pc) == req[r].pc = pc

Goto(r, pc) == req' = [req EXCEPT ![r].pc = pc, ![r].saw = Unseen]

\* The key a request reads through.
KeyOf(r) == IF req[r].op = "serve" THEN "serve" ELSE "record"

\* After the read-through: a delete of an asset it found goes on to the owner
\* check, everything else is answered.
Found(r, live) ==
    IF req[r].op = "delete" /\ live THEN Goto(r, "owner") ELSE Goto(r, "idle")

\* A request arrives.  Updates come from the one request that uploaded the
\* asset, so one at a time; MaxVersion bounds how many.
MayUpdate(a) ==
    /\ row[a].live /\ row[a].ver < MaxVersion
    /\ \A q \in Request : req[q].op = "update" /\ req[q].id = a => At(q, "idle")

Begin(r) ==
    /\ At(r, "idle")
    /\ \E op \in Op, a \in Asset :
          /\ op = "update" => MayUpdate(a)
          /\ req' = [req EXCEPT ![r] = [op |-> op, id |-> a, saw |-> Unseen,
                        pc |-> IF op = "update" THEN "select" ELSE "lookup"]]
    /\ UNCHANGED <<row, cache, acked>>

-----------------------------------------------------------------------------
(* Reading through the cache.                                              *)

\* Mutant of Hit: reading an entry renews its TTL.
HitRenews(r) ==
    LET a == req[r].id
        k == KeyOf(r) IN
    /\ At(r, "lookup") /\ Cached(k, a)
    /\ cache' = [cache EXCEPT ![k][a].left = IF @ = 0 THEN 0 ELSE PositiveTtl]
    /\ Found(r, cache[k][a].live)
    /\ UNCHANGED <<row, acked>>

\* read / read_record; Redis down reads as a miss.
Hit(r) ==
    LET a == req[r].id IN
    /\ At(r, "lookup") /\ Cached(KeyOf(r), a)
    /\ Found(r, cache[KeyOf(r)][a].live)
    /\ UNCHANGED <<row, cache, acked>>

NoHit(r) ==
    /\ At(r, "lookup") /\ (Faults \/ ~Cached(KeyOf(r), req[r].id))
    /\ Goto(r, "load")
    /\ UNCHANGED <<row, cache, acked>>

\* Mutant of Load: a database error is taken for a missing row.
LoadErrorIsMissing(r) ==
    /\ At(r, "load")
    /\ \E s \in {row[req[r].id], Unseen} :
          req' = [req EXCEPT ![r].pc = "fill", ![r].saw = s]
    /\ UNCHANGED <<row, cache, acked>>

\* AssetRepository.get_asset.
Load(r) ==
    /\ At(r, "load")
    /\ req' = [req EXCEPT ![r].pc = "fill", ![r].saw = row[req[r].id]]
    /\ UNCHANGED <<row, cache, acked>>

\* Mutant of EntryFor: written without a TTL, which Redis reports as -1.
EntryForNoTtl(s, a) ==
    [ver    |-> s.ver,
     live   |-> s.live,
     left   |-> -1,
     excuse |-> IF s.ver = row[a].ver THEN "none" ELSE "raced"]

\* The entry a row seen as s is cached as.
EntryFor(s, a) ==
    [ver    |-> s.ver,
     live   |-> s.live,
     left   |-> IF s.live THEN PositiveTtl ELSE NegativeTtl,
     excuse |-> IF s.ver = row[a].ver THEN "none" ELSE "raced"]

\* write_found / write_not_found and the record pair: the key is written
\* unconditionally, whatever was committed or invalidated since the load.
Fill(r) ==
    LET a == req[r].id IN
    /\ At(r, "fill")
    /\ \/ cache' = [cache EXCEPT ![KeyOf(r)][a] = EntryFor(req[r].saw, a)]
       \/ Faults /\ UNCHANGED cache
    /\ Found(r, req[r].saw.live)
    /\ UNCHANGED <<row, acked>>

-----------------------------------------------------------------------------
(* UpdateAssetCommand and DeleteAssetCommand.                              *)

\* delete_asset of the router: 403 unless the caller owns the asset.
Owner(r) ==
    /\ At(r, "owner")
    /\ Goto(r, "select") \/ Goto(r, "idle")
    /\ UNCHANGED <<row, cache, acked>>

\* The repository's SELECT; on a missing row nothing is invalidated.
Select(r) ==
    /\ At(r, "select")
    /\ Goto(r, IF row[req[r].id].live THEN "commit" ELSE "idle")
    /\ UNCHANGED <<row, cache, acked>>

\* UPDATE of a row that may have gone meanwhile (StaleDataError), and COMMIT.
CommitUpdate(r) ==
    LET a == req[r].id IN
    /\ At(r, "commit") /\ req[r].op = "update"
    /\ \/ /\ row[a].live
          /\ row' = [row EXCEPT ![a].ver = @ + 1]
          /\ Goto(r, "refresh")
       \/ ~row[a].live /\ Goto(r, "idle") /\ UNCHANGED row
    /\ UNCHANGED <<cache, acked>>

\* Mutant of CommitDelete: of the two keys only the record is invalidated.
CommitDeleteForgetsServe(r) ==
    LET a == req[r].id IN
    /\ At(r, "commit") /\ req[r].op = "delete"
    /\ \/ row[a].live /\ row' = [row EXCEPT ![a] = [ver |-> @.ver + 1, live |-> FALSE]]
       \/ ~row[a].live /\ UNCHANGED row
    /\ Goto(r, "invrecord")
    /\ UNCHANGED <<cache, acked>>

\* DELETE and COMMIT; deleting a row that has gone is only warned about.
CommitDelete(r) ==
    LET a == req[r].id IN
    /\ At(r, "commit") /\ req[r].op = "delete"
    /\ \/ row[a].live /\ row' = [row EXCEPT ![a] = [ver |-> @.ver + 1, live |-> FALSE]]
       \/ ~row[a].live /\ UNCHANGED row
    /\ Goto(r, "invserve")
    /\ UNCHANGED <<cache, acked>>

\* What is left of an entry that should have been deleted: from here on the
\* key owes its staleness to a lost invalidation.
Lose(ks, a) ==
    cache' = [k \in Key |->
                IF k \in ks /\ Cached(k, a)
                THEN [cache[k] EXCEPT ![a].excuse = "lost"] ELSE cache[k]]

\* db.refresh after the commit raises if the row has gone, and then the
\* command rolls back and raises without invalidating.
Refresh(r) ==
    /\ At(r, "refresh")
    /\ \/ row[req[r].id].live /\ Goto(r, "invserve") /\ UNCHANGED cache
       \/ ~row[req[r].id].live /\ Goto(r, "idle") /\ Lose(Key, req[r].id)
    /\ UNCHANGED <<row, acked>>

\* invalidate: two deletes, the serve key first; a Redis error is swallowed.
Drop(k, a) ==
    \/ cache' = [cache EXCEPT ![k][a] = Miss]
    \/ Faults /\ Lose({k}, a)

InvalidateServe(r) ==
    /\ At(r, "invserve")
    /\ Drop("serve", req[r].id)
    /\ Goto(r, "invrecord")
    /\ UNCHANGED <<row, acked>>

InvalidateRecord(r) ==
    /\ At(r, "invrecord")
    /\ Drop("record", req[r].id)
    /\ Goto(r, "idle")
    /\ acked' = IF req[r].op = "delete" THEN acked \cup {req[r].id} ELSE acked
    /\ UNCHANGED row

-----------------------------------------------------------------------------
\* The keys a request that has committed still has to invalidate.
Owed(r) ==
    CASE req[r].pc \in {"refresh", "invserve"} -> Key
      [] req[r].pc = "invrecord"               -> {"record"}
      [] OTHER                                 -> {}

\* A database call raises, a COMMIT goes unacknowledged or the worker dies:
\* the request ends where it is and owes nothing any more.
Abort(r) ==
    /\ Faults /\ ~At(r, "idle")
    /\ Lose(Owed(r), req[r].id)
    /\ Goto(r, "idle")
    /\ UNCHANGED <<row, acked>>

\* Time passes and Redis expires entries.
Tick ==
    /\ \E k \in Key, a \in Asset : Cached(k, a)
    /\ cache' = [k \in Key |-> [a \in Asset |->
                    IF cache[k][a].left > 1
                    THEN [cache[k][a] EXCEPT !.left = @ - 1] ELSE Miss]]
    /\ UNCHANGED <<row, req, acked>>

Work(r) ==
    \/ Hit(r) \/ NoHit(r) \/ Load(r) \/ Fill(r) \/ Owner(r) \/ Select(r)
    \/ CommitUpdate(r) \/ CommitDelete(r) \/ Refresh(r)
    \/ InvalidateServe(r) \/ InvalidateRecord(r)

Next == Tick \/ \E r \in Request : Begin(r) \/ Work(r) \/ Abort(r)

Spec == Init /\ [][Next]_vars
FairSpec == Spec /\ WF_vars(Tick) /\ \A r \in Request : WF_vars(Work(r))

-----------------------------------------------------------------------------
(* Properties.                                                             *)

\* An entry has the contents of the row, or a request that committed a newer
\* version is about to drop it, or the entry says why not: it was filled by a
\* read that a commit had overtaken, or an invalidation was lost.  There is no
\* fourth way to be stale: the order commit, serve key, record key is enough.
StaleHasCause ==
    \A k \in Key, a \in Asset :
        Cached(k, a) =>
            \/ cache[k][a].ver = row[a].ver /\ cache[k][a].live = row[a].live
            \/ \E r \in Request : req[r].id = a /\ k \in Owed(r)
            \/ cache[k][a].excuse # "none"

\* A cached "not found" is always true: no asset is ever reported missing
\* because of the cache while its row exists.
NotFoundIsTrue ==
    \A k \in Key, a \in Asset : Cached(k, a) /\ ~cache[k][a].live => ~row[a].live

\* Once a row is deleted every trace of it leaves the cache and the requests
\* for good, whatever was raced or lost: the TTL is the backstop.
Traces(a) ==
    \/ \E k \in Key : Cached(k, a) /\ cache[k][a].live
    \/ \E r \in Request : req[r].id = a /\ req[r].saw.live

DeletedIsForgotten == \A a \in Asset : ~row[a].live ~> []~Traces(a)

\* Its safety half: of a deleted row that has left no trace none ever comes back,
\* and neither does the row.  No reader can revive it from a copy of its own.
ForgottenForGood ==
    [][\A a \in Asset : ~row[a].live /\ ~Traces(a) => ~row'[a].live /\ ~Traces(a)']_vars

\* PRD 0004: once a delete has been answered no cached copy of the asset is
\* left to serve from.
DeleteTakesEffect ==
    \A a \in acked : ~(Cached("serve", a) /\ cache["serve"][a].live)

\* What is left of that: the row is gone for good, and a copy that is still cached
\* was filled by a read that the delete overtook, or outlived a lost invalidation, or
\* another request is about to drop it.
DeleteTakesEffectUnlessRaced ==
    \A a \in acked :
        /\ ~row[a].live
        /\ \A k \in Key : Cached(k, a) /\ cache[k][a].live =>
               \/ cache[k][a].excuse # "none"
               \/ \E r \in Request : req[r].id = a /\ k \in Owed(r)
=============================================================================
