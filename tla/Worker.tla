------------------------------- MODULE Worker -------------------------------
(***************************************************************************)
(* The requests of one process, run.py without --workers: GET /assets/serve *)
(* and /assets/download, an upload, and a request that only queries.  They  *)
(* share the storage backend, the connection pool and the clock their links *)
(* run out by.  A member of Requests is a thread, which serves one request  *)
(* after another.                                                          *)
(***************************************************************************)
EXTENDS BackendFactory, ConnectionPool, SignedUrls

CONSTANTS
    Commits,                  \* commits of an upload: at most 5
    Lifetimes,                \* the expires_in that callers ask for
    Horizon,                  \* bound: the clock stops here
    MaxLinks                  \* bound on the links and tokens that are kept

\* A process has so many threads; an upload commits at least its row.
ASSUME WorkerAssumption ==
    /\ IsFiniteSet(Requests) /\ Assets # {} /\ Lifetimes \subseteq Int
    /\ Commits \in Nat \ {0} /\ Horizon \in Nat /\ MaxLinks \in Nat

VARIABLES
    kind,                     \* kind[r]: the endpoint
    todo,                     \* todo[r]: commits an upload has before it
    payload,                  \* payload[r]: the link r presents, until it is verified
    token,                    \* token[r]: when the token r presents was made
    minted,                   \* the links there are, who signed them and when
    tokens,                   \* the tokens there are, by the time they were made
    now,
    key                       \* master_secret_key is set

requestVars == <<kind, todo, payload, token>>
poolVars    == <<held, patience>>
linkVars    == <<minted, tokens, key>>
shared      == <<provider, instance, probe, overlap>>
workerVars  == <<at, shared, requestVars, poolVars, linkVars, now>>

Kind  == {"serve", "download", "upload", "other"}
Stage == FactoryStage \cup {"idle", "lookup", "wait", "query", "work", "transfer"}

SomeAsset == CHOOSE a \in Assets : TRUE

NoLink == [asset |-> SomeAsset, slug |-> Internal, expires_at |-> 0,
           signature |-> <<SomeAsset, Internal, 0>>, lost |-> "part"]

WorkerTypeOK ==
    /\ provider \in {"local", "s3"} /\ instance \in Requests \cup {NoBackend}
    /\ probe \in BOOLEAN /\ overlap \subseteq Requests
    /\ at \in [Requests -> Stage] /\ kind \in [Requests -> Kind]
    /\ todo \in [Requests -> 0..Commits]
    /\ payload \in [Requests -> Payload]
    /\ token \in [Requests -> 0..Horizon]
    /\ held \subseteq Requests /\ patience \in [Requests -> 0..database_pool_timeout]
    /\ minted \subseteq [link: Payload, by: {"upload", "holder"}, born: 0..Horizon]
    /\ tokens \subseteq 0..Horizon /\ now \in 0..Horizon /\ key \in BOOLEAN

WorkerInit ==
    /\ FactoryInit
    /\ at = [r \in Requests |-> "idle"]
    /\ kind = [r \in Requests |-> "other"]
    /\ todo = [r \in Requests |-> Commits]
    /\ payload = [r \in Requests |-> NoLink]
    /\ token = [r \in Requests |-> 0]
    /\ held = {} /\ patience = [r \in Requests |-> database_pool_timeout]
    /\ minted = {} /\ tokens = {} /\ now = 0
    /\ key \in BOOLEAN

-----------------------------------------------------------------------------
(* Requests.                                                               *)

Go(r, stage) == To(r, stage) /\ UNCHANGED <<held, kind, todo>>

\* The handler ends, whatever it answers, and the session is closed.
End(r) ==
    /\ To(r, "idle")
    /\ Release(r)
    /\ kind' = [kind EXCEPT ![r] = "other"]
    /\ todo' = [todo EXCEPT ![r] = Commits]

Arrive(r, k, l, t) ==
    /\ at[r] = "idle"
    /\ kind' = [kind EXCEPT ![r] = k]
    /\ payload' = [payload EXCEPT ![r] = l]
    /\ token' = [token EXCEPT ![r] = t]
    /\ To(r, IF k = "other" THEN "wait" ELSE "check")
    /\ UNCHANGED <<shared, todo, poolVars, linkVars, now>>

\* A link may arrive damaged.
Request(r) ==
    \/ \E m \in minted : \E l \in {m.link} \cup Damaged(m.link) : Arrive(r, "serve", l, 0)
    \/ \E t \in tokens : Arrive(r, "download", NoLink, t)
    \/ \E k \in {"upload", "other"} : Arrive(r, k, NoLink, 0)

UseFactory(r) ==
    GetBackend(r) /\ UNCHANGED <<requestVars, poolVars, linkVars, now>>

FactoryFailed(r) ==
    /\ at[r] \in {"failed", "broken"}
    /\ End(r)
    /\ overlap' = overlap \ {r}
    /\ UNCHANGED <<provider, instance, probe, payload, token, patience, linkVars, now>>

Accepted(r) ==
    CASE kind[r] = "serve"    -> verify_signed_url(payload[r], now, key) = 200
      [] kind[r] = "download" -> verify_token(token[r], now) = 200
      [] OTHER                -> TRUE

\* The statements before the first query.
Verify(r) ==
    /\ at[r] = "given"
    /\ IF Accepted(r) THEN Go(r, IF kind[r] = "serve" THEN "lookup" ELSE "wait") ELSE End(r)
    /\ payload' = [payload EXCEPT ![r] = NoLink]
    /\ token' = [token EXCEPT ![r] = 0]
    /\ UNCHANGED <<shared, patience, linkVars, now>>

\* The serve lookup: a hit, found or not, needs no connection.
LookUp(r) ==
    /\ at[r] = "lookup"
    /\ Go(r, "transfer") \/ Go(r, "wait") \/ End(r)
    /\ UNCHANGED <<shared, payload, token, patience, linkVars, now>>

\* After a commit an upload takes a connection again to refresh its row.
Get(r) ==
    /\ at[r] = "wait"
    /\ Take(r)
    /\ To(r, IF kind[r] = "upload" /\ todo[r] < Commits THEN "work" ELSE "query")
    /\ patience' = [patience EXCEPT ![r] = database_pool_timeout]
    /\ UNCHANGED <<shared, requestVars, linkVars, now>>

TimeOut(r) ==
    /\ at[r] = "wait"
    /\ GiveUp(r)
    /\ End(r)
    /\ patience' = [patience EXCEPT ![r] = database_pool_timeout]
    /\ UNCHANGED <<shared, payload, token, linkVars, now>>

\* Mutant of LoadServingMetadata: the session is left to the end of the response.
LoadServingMetadataHolds(r) ==
    /\ at[r] = "query" /\ kind[r] = "serve"
    /\ Go(r, "transfer") \/ End(r)

\* The session is closed whatever comes of the query.
LoadServingMetadata(r) ==
    /\ at[r] = "query" /\ kind[r] = "serve"
    /\ \/ To(r, "transfer") /\ Release(r) /\ UNCHANGED <<kind, todo>>
       \/ End(r)

\* A download and its query share the session until the file is sent.
QueryDownload(r) ==
    /\ at[r] = "query" /\ kind[r] = "download"
    /\ Go(r, "transfer") \/ End(r)

QueryOther(r) == at[r] = "query" /\ kind[r] = "other" /\ End(r)

\* A command of an upload: the commit returns the connection.
CommitUpload(r) ==
    /\ at[r] = "query" /\ kind[r] = "upload"
    /\ \/ To(r, "wait") /\ Release(r) /\ todo' = [todo EXCEPT ![r] = @ - 1] /\ UNCHANGED kind
       \/ End(r)

Query(r) ==
    /\ LoadServingMetadata(r) \/ QueryDownload(r) \/ QueryOther(r) \/ CommitUpload(r)
    /\ UNCHANGED <<shared, payload, token, patience, linkVars, now>>

\* The client keeps the link it is given, or the token of local storage.
Mint(by, links, ts) ==
    /\ Cardinality(minted) + Cardinality(tokens) < MaxLinks
    /\ minted' = minted \cup {[link |-> l, by |-> by, born |-> now] : l \in links}
    /\ tokens' = tokens \cup ts

\* The refreshed row keeps a connection while storage and providers work.
Work(r) ==
    /\ at[r] = "work"
    /\ \/ todo[r] > 0 /\ Go(r, "query") /\ UNCHANGED <<minted, tokens>>
       \/ End(r) /\ UNCHANGED <<minted, tokens>>
       \/ todo[r] = 0 /\ provider = "local" /\ End(r) /\ Mint("upload", {}, {now})
       \/ /\ todo[r] = 0 /\ key
          /\ End(r)
          /\ \E a \in Assets, e \in Lifetimes :
                Mint("upload", {sign_serve_url(a, Internal, Capped(e), now)}, {})
    /\ UNCHANGED <<shared, payload, token, patience, key, now>>

\* The file or the body is sent, as slowly as the client takes it.
Transfer(r) ==
    /\ at[r] = "transfer"
    /\ End(r)
    /\ UNCHANGED <<shared, payload, token, patience, linkVars, now>>

\* Outside the service: whoever was given the secret of a slug signs a link.
HolderSigns ==
    /\ key
    /\ \E a \in Assets, s \in Slugs, e \in Lifetimes :
          Mint("holder", {sign_serve_url(a, s, e, now)}, {})
    /\ UNCHANGED <<at, shared, requestVars, poolVars, key, now>>

Tick ==
    /\ PassTime({r \in Requests : at[r] = "wait"})
    /\ now' = IF now < Horizon THEN now + 1 ELSE Horizon
    /\ UNCHANGED <<at, shared, requestVars, held, linkVars>>

Handler(r) ==
    \/ UseFactory(r) \/ FactoryFailed(r) \/ Verify(r) \/ LookUp(r)
    \/ Get(r) \/ TimeOut(r) \/ Query(r) \/ Work(r)

WorkerNext ==
    \/ \E r \in Requests : Request(r) \/ Handler(r) \/ Transfer(r)
    \/ HolderSigns \/ Tick

\* Statements are executed and time passes; clients need not read what they are sent.
WorkerFair == WF_workerVars(Tick) /\ \A r \in Requests : WF_workerVars(Handler(r))

WorkerSpec == WorkerInit /\ [][WorkerNext]_workerVars /\ WorkerFair

-----------------------------------------------------------------------------
(* Properties.                                                             *)

\* No connection is lost and none is kept too long: the pool never hands out more
\* than it has, a request that waits or has ended has none, and serving a file, however
\* slowly the client reads it, takes none from others.
PoolIsWhole ==
    /\ Cardinality(held) <= Capacity
    /\ \A r \in held : at[r] \in {"query", "work"} \/ (at[r] = "transfer" /\ kind[r] # "serve")

\* A link works until it expires and no longer: it is accepted if and only if it
\* is, unchanged, one that was signed, and its time has not passed.  A slug with a
\* dot makes links that never work.  Nothing but time ends a link.
LinksWorkUntilExpiry ==
    [][\A r \in Requests :
          at[r] = "given" /\ kind[r] = "serve" /\ at'[r] # "given" =>
             (at'[r] = "lookup" <=>
                /\ payload[r].slug \notin Dotted
                /\ \E m \in minted : m.link = payload[r] /\ now <= m.link.expires_at)]_workerVars

\* An upload gives no link that works for ever: what it signed is not accepted later
\* than MaxServeUrlExpiry after it was made, whatever life its caller asked for.
UploadLinksAreCapped ==
    [][\A r \in Requests, m \in minted :
          /\ at[r] = "given" /\ kind[r] = "serve" /\ at'[r] = "lookup"
          /\ m.by = "upload" /\ m.link = payload[r]
          => now <= m.born + MaxServeUrlExpiry]_workerVars

\* A request that waits for a connection gets one or is told that there is none,
\* though uploads hold theirs while they work and clients may never read to the end.
NobodyStalls ==
    \A r \in Requests : at[r] = "wait" ~> at[r] # "wait"
=============================================================================
