----------------------------- MODULE WorkerProofs -----------------------------
(***************************************************************************)
(* What the requests of one process may rely on, for any number of threads, *)
(* any pool and any links: types, the factory, the pool and the links each  *)
(* have an invariant of their own.                                          *)
(***************************************************************************)
EXTENDS Worker, FiniteSetTheorems, TLAPS

\* An upload that is about to commit has a commit left.
Unfinished == \A r \in Requests : at[r] = "query" /\ kind[r] = "upload" => todo[r] # 0

TypeInv == WorkerTypeOK /\ Unfinished

\* Two that build know of each other, and so does one that builds beside a backend;
\* only another one's constructor takes away the test file.
FactoryInv ==
    /\ \A r, q \in Builders : r # q => r \in overlap
    /\ \A r \in Builders : instance # NoBackend => r \in overlap
    /\ \A r \in Requests : at[r] = "unlink" /\ ~probe => r \in overlap
    /\ ProbeFailsOnlyIfShared

PoolInv == IsFiniteSet(held) /\ PoolIsWhole

\* What is signed has a key, covers the whole link, and an upload's is capped.
Signed(m) ==
    /\ m.link.lost = "nothing"
    /\ m.link.signature = <<m.link.asset, m.link.slug, m.link.expires_at>>
    /\ m.by = "upload" => m.link.expires_at <= m.born + MaxServeUrlExpiry

\* What is presented was signed, or is a damaged copy.
LinkInv ==
    /\ minted # {} => key
    /\ \A m \in minted : Signed(m)
    /\ \A r \in Requests :
          at[r] \in Building \cup {"check", "return", "given"} /\ kind[r] = "serve" =>
             \E m \in minted : payload[r] = m.link \/ payload[r] \in Damaged(m.link)

WorkerInv == TypeInv /\ FactoryInv /\ PoolInv /\ LinkInv

-----------------------------------------------------------------------------
(* Links.                                                                  *)

LEMMA SomeAssetExists == SomeAsset \in Assets
BY WorkerAssumption DEF SomeAsset

LEMMA SignedLink ==
  ASSUME NEW a \in Assets, NEW s \in Slugs, NEW e \in Int, NEW t \in Int
  PROVE  /\ sign_serve_url(a, s, e, t) \in Payload
         /\ sign_serve_url(a, s, e, t).lost = "nothing"
         /\ sign_serve_url(a, s, e, t).expires_at = t + e
         /\ sign_serve_url(a, s, e, t).signature =
               <<sign_serve_url(a, s, e, t).asset, sign_serve_url(a, s, e, t).slug,
                 sign_serve_url(a, s, e, t).expires_at>>
BY DEF sign_serve_url, Payload, derive_secret

LEMMA CappedLife ==
  ASSUME NEW e \in Int PROVE Capped(e) \in Int /\ Capped(e) <= MaxServeUrlExpiry
BY SignedUrlsAssumption DEF Capped

\* A damaged link has lost something or names another time.
LEMMA DamagedLink ==
  ASSUME NEW l \in Payload, NEW d \in Damaged(l)
  PROVE  /\ d \in Payload
         /\ d.slug = l.slug /\ d.asset = l.asset /\ d.signature = l.signature
         /\ \/ d.lost \in {"part", "field"}
            \/ d.lost = l.lost /\ d.expires_at # l.expires_at
<1>1. CASE d = [l EXCEPT !.lost = "part"]
  BY <1>1 DEF Payload
<1>2. CASE d = [l EXCEPT !.lost = "field"]
  BY <1>2 DEF Payload
<1>3. CASE d = [l EXCEPT !.expires_at = @ + 1]
  BY <1>3 DEF Payload
<1> QED
  BY <1>1, <1>2, <1>3 DEF Damaged

\* A link that is accepted is whole, matches its signature and is in time.
LEMMA AcceptedLink ==
  ASSUME NEW l \in Payload, NEW t \in Int
  PROVE  verify_signed_url(l, t, key) = 200 <=>
            /\ l.lost = "nothing" /\ l.slug \notin Dotted /\ t <= l.expires_at /\ key
            /\ l.signature = <<l.asset, l.slug, l.expires_at>>
BY DEF verify_signed_url, HasFourParts, Expired, Matches, derive_secret, Payload

-----------------------------------------------------------------------------
(* Types.                                                                  *)

LEMMA WorkerInitInv == WorkerInit => WorkerInv
<1> SUFFICES ASSUME WorkerInit PROVE WorkerInv
  OBVIOUS
<1>1. NoLink \in Payload
  BY SomeAssetExists, SignedUrlsAssumption DEF NoLink, Payload
<1>2. TypeInv
  <2>1. 0 \in 0..Horizon /\ Commits \in 0..Commits
        /\ database_pool_timeout \in 0..database_pool_timeout
    BY WorkerAssumption, PoolAssumption
  <2>2. WorkerTypeOK
    BY <1>1, <2>1 DEF WorkerInit, FactoryInit, WorkerTypeOK, Stage, FactoryStage, Kind
  <2> QED BY <2>2 DEF WorkerInit, TypeInv, Unfinished
<1>3. FactoryInv
  BY DEF WorkerInit, FactoryInit, FactoryInv, Builders, Building, ProbeFailsOnlyIfShared
<1>4. PoolInv
  BY FS_EmptySet, PoolAssumption DEF WorkerInit, PoolInv, PoolIsWhole, Capacity
<1>5. LinkInv
  BY DEF WorkerInit, LinkInv, Building
<1> QED
  BY <1>2, <1>3, <1>4, <1>5 DEF WorkerInv

LEMMA MintTypes ==
  ASSUME WorkerTypeOK, NEW by \in {"upload", "holder"},
         NEW links \in SUBSET Payload, NEW ts \in SUBSET (0..Horizon), Mint(by, links, ts)
  PROVE  /\ minted' \subseteq [link: Payload, by: {"upload", "holder"}, born: 0..Horizon]
         /\ tokens' \subseteq 0..Horizon
BY DEF WorkerTypeOK, Mint

LEMMA TypeStep ==
  ASSUME TypeInv, WorkerNext PROVE TypeInv'
<1> USE DEF TypeInv, WorkerTypeOK, Stage, FactoryStage, Building, Kind, shared, requestVars,
        poolVars, linkVars
<1>1. ASSUME NEW r \in Requests, Request(r) PROVE TypeInv'
  <2>1. ASSUME NEW k \in Kind, NEW l \in Payload, NEW t \in 0..Horizon, Arrive(r, k, l, t)
        PROVE  TypeInv'
    BY <2>1 DEF Arrive, To, Unfinished
  <2>2. ASSUME NEW m \in minted, NEW l \in {m.link} \cup Damaged(m.link) PROVE l \in Payload
    <3>1. m.link \in Payload
      OBVIOUS
    <3> QED BY <3>1, DamagedLink
  <2>3. NoLink \in Payload /\ 0 \in 0..Horizon
    BY SomeAssetExists, SignedUrlsAssumption, WorkerAssumption DEF NoLink, Payload
  <2> QED
    BY <1>1, <2>1, <2>2, <2>3 DEF Request
<1>2. ASSUME NEW r \in Requests, UseFactory(r) PROVE TypeInv'
  BY <1>2 DEF UseFactory, GetBackend, Check, Construct, WriteProbe, UnlinkProbe, Assign, Return,
     BuildFails, To, Builders, Unfinished
<1>3. ASSUME NEW r \in Requests, FactoryFailed(r) PROVE TypeInv'
  BY <1>3, WorkerAssumption DEF FactoryFailed, End, To, Release, Unfinished
<1>4. ASSUME NEW r \in Requests, Verify(r) PROVE TypeInv'
  <2>1. NoLink \in Payload /\ 0 \in 0..Horizon
    BY SomeAssetExists, SignedUrlsAssumption, WorkerAssumption DEF NoLink, Payload
  <2> QED
    BY <1>4, <2>1, WorkerAssumption DEF Verify, Go, End, To, Release, Unfinished
<1>5. ASSUME NEW r \in Requests, LookUp(r) PROVE TypeInv'
  BY <1>5, WorkerAssumption DEF LookUp, Go, End, To, Release, Unfinished
<1>6. ASSUME NEW r \in Requests, Get(r) PROVE TypeInv'
  BY <1>6, WorkerAssumption, PoolAssumption DEF Get, Take, To, Unfinished
<1>7. ASSUME NEW r \in Requests, TimeOut(r) PROVE TypeInv'
  BY <1>7, WorkerAssumption, PoolAssumption DEF TimeOut, End, To, Release, Unfinished
<1>8. ASSUME NEW r \in Requests, Query(r) PROVE TypeInv'
  <2>1. CASE LoadServingMetadata(r)
    BY <1>8, <2>1, WorkerAssumption DEF Query, LoadServingMetadata, End, To, Release, Unfinished
  <2>2. CASE QueryDownload(r) \/ QueryOther(r)
    BY <1>8, <2>2, WorkerAssumption DEF Query, QueryDownload, QueryOther, Go, End, To, Release, Unfinished
  <2>3. CASE CommitUpload(r)
    BY <1>8, <2>3, WorkerAssumption DEF Query, CommitUpload, End, To, Release, Unfinished
  <2> QED BY <1>8, <2>1, <2>2, <2>3 DEF Query
<1>9. ASSUME NEW r \in Requests, Work(r) PROVE TypeInv'
  <2>1. /\ at' \in [Requests -> Stage] /\ kind' \in [Requests -> Kind]
        /\ todo' \in [Requests -> 0..Commits] /\ held' \subseteq Requests
        /\ UNCHANGED <<shared, payload, token, patience, key, now>>
    BY <1>9, WorkerAssumption DEF Work, Go, End, To, Release
  <2>2. Unfinished'
    BY <1>9 DEF Work, Go, End, To, Release, Unfinished
  <2>3. /\ minted' \subseteq [link: Payload, by: {"upload", "holder"}, born: 0..Horizon]
        /\ tokens' \subseteq 0..Horizon
    <3>1. CASE UNCHANGED <<minted, tokens>>
      BY <3>1
    <3>2. CASE Mint("upload", {}, {now})
      BY <3>2, MintTypes
    <3>3. ASSUME NEW a \in Assets, NEW e \in Lifetimes,
                 Mint("upload", {sign_serve_url(a, Internal, Capped(e), now)}, {})
          PROVE  /\ minted' \subseteq [link: Payload, by: {"upload", "holder"}, born: 0..Horizon]
                 /\ tokens' \subseteq 0..Horizon
      <4>1. sign_serve_url(a, Internal, Capped(e), now) \in Payload
        BY SignedLink, CappedLife, WorkerAssumption, SignedUrlsAssumption
      <4> QED BY <3>3, <4>1, MintTypes
    <3> QED BY <1>9, <3>1, <3>2, <3>3 DEF Work
  <2> QED BY <2>1, <2>2, <2>3
<1>10. ASSUME NEW r \in Requests, Transfer(r) PROVE TypeInv'
  BY <1>10, WorkerAssumption DEF Transfer, End, To, Release, Unfinished
<1>11. CASE HolderSigns
  <2>1. PICK a \in Assets, s \in Slugs, e \in Lifetimes :
           Mint("holder", {sign_serve_url(a, s, e, now)}, {})
    BY <1>11 DEF HolderSigns
  <2>2. sign_serve_url(a, s, e, now) \in Payload
    BY SignedLink, WorkerAssumption
  <2>3. /\ minted' \subseteq [link: Payload, by: {"upload", "holder"}, born: 0..Horizon]
        /\ tokens' \subseteq 0..Horizon
    BY <2>1, <2>2, MintTypes
  <2> QED BY <1>11, <2>3 DEF HolderSigns, Unfinished
<1>12. CASE Tick
  BY <1>12, PoolAssumption, WorkerAssumption DEF Tick, PassTime, Unfinished
<1> QED
  BY <1>1, <1>2, <1>3, <1>4, <1>5, <1>6, <1>7, <1>8, <1>9, <1>10, <1>11, <1>12
     DEF WorkerNext, Handler

-----------------------------------------------------------------------------
(* The factory.                                                            *)

\* A step of r elsewhere leaves the builds alone.
LEMMA BuildsElsewhere ==
  ASSUME TypeInv, FactoryInv, NEW r \in Requests, NEW stage \in Stage \ (Building \cup {"failed"}),
         at' = [at EXCEPT ![r] = stage], UNCHANGED <<instance, probe>>,
         \A q \in Requests \ {r} : q \in overlap => q \in overlap'
  PROVE  FactoryInv'
BY DEF TypeInv, WorkerTypeOK, FactoryInv, Builders, ProbeFailsOnlyIfShared, Building

LEMMA FactoryStep ==
  ASSUME TypeInv, FactoryInv, WorkerNext PROVE FactoryInv'
<1> USE DEF shared, requestVars, poolVars, linkVars
<1>1. ASSUME NEW r \in Requests, UseFactory(r) PROVE FactoryInv'
  <2> USE <1>1 DEF TypeInv, WorkerTypeOK, FactoryInv, Builders, Building, ProbeFailsOnlyIfShared, To,
          UseFactory
  <2>1. CASE Check(r)
    <3>1. CASE instance = NoBackend
      BY <2>1, <3>1 DEF Check
    <3>2. CASE instance # NoBackend
      BY <2>1, <3>2 DEF Check
    <3> QED BY <3>1, <3>2
  <2>2. CASE Construct(r)
    BY <2>2 DEF Construct
  <2>3. CASE WriteProbe(r)
    BY <2>3 DEF WriteProbe
  <2>4. CASE UnlinkProbe(r)
    BY <2>4 DEF UnlinkProbe
  <2>5. CASE Assign(r)
    BY <2>5 DEF Assign
  <2>6. CASE Return(r)
    BY <2>6 DEF Return
  <2>7. CASE BuildFails(r)
    BY <2>7 DEF BuildFails
  <2> QED
    BY <2>1, <2>2, <2>3, <2>4, <2>5, <2>6, <2>7 DEF GetBackend
<1>2. ASSUME NEW r \in Requests, FactoryFailed(r) PROVE FactoryInv'
  BY <1>2, BuildsElsewhere DEF FactoryFailed, End, To, Stage, FactoryStage, Building
<1>3. ASSUME NEW r \in Requests,
             Request(r) \/ Verify(r) \/ LookUp(r) \/ Get(r) \/ TimeOut(r) \/ Query(r) \/ Work(r)
                \/ Transfer(r)
      PROVE  FactoryInv'
  <2>1. UNCHANGED <<instance, probe, overlap>>
    BY <1>3 DEF Request, Arrive, Verify, LookUp, Get, TimeOut, Query, Work, Transfer
  <2>2. \E stage \in {"idle", "lookup", "wait", "query", "work", "transfer", "check"} :
           at' = [at EXCEPT ![r] = stage]
    <3>1. CASE Request(r)
      BY <3>1 DEF Request, Arrive, To
    <3>2. CASE Verify(r) \/ LookUp(r) \/ Get(r) \/ TimeOut(r)
      BY <3>2 DEF Verify, LookUp, Get, TimeOut, Go, End, To
    <3>3. CASE Query(r)
      BY <3>3 DEF Query, LoadServingMetadata, QueryDownload, QueryOther, CommitUpload, Go, End, To
    <3>4. CASE Work(r) \/ Transfer(r)
      BY <3>4 DEF Work, Transfer, Go, End, To
    <3> QED BY <1>3, <3>1, <3>2, <3>3, <3>4
  <2> QED
    BY <2>1, <2>2, BuildsElsewhere DEF Stage, FactoryStage, Building
<1>4. CASE HolderSigns \/ Tick
  <2>1. UNCHANGED <<at, instance, probe, overlap>>
    BY <1>4 DEF HolderSigns, Tick
  <2> QED
    BY <2>1 DEF FactoryInv, Builders, ProbeFailsOnlyIfShared
<1> QED
  BY <1>1, <1>2, <1>3, <1>4 DEF WorkerNext, Handler

-----------------------------------------------------------------------------
(* The pool.                                                               *)

\* A step that takes no connection, and leaves its stage only without one.
LEMMA NoTake ==
  ASSUME PoolInv, held' \subseteq held,
         \A r \in held' : at'[r] \in {"query", "work"} \/ (at'[r] = "transfer" /\ kind'[r] # "serve")
  PROVE  PoolInv'
<1>1. IsFiniteSet(held') /\ Cardinality(held') <= Cardinality(held)
  BY FS_Subset DEF PoolInv
<1>2. Cardinality(held) \in Nat /\ Cardinality(held') \in Nat /\ Capacity \in Nat
  BY <1>1, FS_CardinalityType, PoolAssumption DEF PoolInv, Capacity
<1>3. Capacity' = Capacity
  BY DEF Capacity
<1> QED
  BY <1>1, <1>2, <1>3 DEF PoolInv, PoolIsWhole

LEMMA PoolStep ==
  ASSUME TypeInv, PoolInv, WorkerNext PROVE PoolInv'
<1> USE DEF shared, requestVars, poolVars, linkVars
<1>1. held \subseteq Requests
      /\ \A r \in held : at[r] \in {"query", "work"} \/ (at[r] = "transfer" /\ kind[r] # "serve")
  BY DEF TypeInv, WorkerTypeOK, PoolInv, PoolIsWhole
<1> DEFINE Kept == /\ held' \subseteq held
                   /\ \A r \in held' : at'[r] \in {"query", "work"}
                                       \/ (at'[r] = "transfer" /\ kind'[r] # "serve")
<1>2. Kept => PoolInv'
  BY NoTake
<1> USE DEF TypeInv, WorkerTypeOK
<1>3. ASSUME NEW r \in Requests, Request(r) PROVE Kept
  BY <1>1, <1>3 DEF Request, Arrive, To
<1>4. ASSUME NEW r \in Requests, UseFactory(r) PROVE Kept
  BY <1>1, <1>4 DEF UseFactory, GetBackend, Check, Construct, WriteProbe, UnlinkProbe, Assign,
     Return, BuildFails, To
<1>5. ASSUME NEW r \in Requests, FactoryFailed(r) \/ TimeOut(r) \/ Transfer(r) PROVE Kept
  BY <1>1, <1>5 DEF FactoryFailed, TimeOut, Transfer, End, To, Release
<1>6. ASSUME NEW r \in Requests, Verify(r) \/ LookUp(r) PROVE Kept
  BY <1>1, <1>6 DEF Verify, LookUp, Go, End, To, Release
<1>7. ASSUME NEW r \in Requests, Query(r) PROVE Kept
  BY <1>1, <1>7 DEF Query, LoadServingMetadata, QueryDownload, QueryOther, CommitUpload, Go, End,
     To, Release
<1>8. ASSUME NEW r \in Requests, Work(r) PROVE Kept
  <2>1. at[r] = "work" /\ (Go(r, "query") \/ End(r))
    BY <1>8 DEF Work
  <2> QED BY <1>1, <2>1 DEF Go, End, To, Release
<1>9. CASE HolderSigns \/ Tick
  <2>1. UNCHANGED <<at, kind, held>>
    BY <1>9 DEF HolderSigns, Tick
  <2> QED BY <1>1, <1>2, <2>1
<1>10. ASSUME NEW r \in Requests, Get(r) PROVE PoolInv'
  <2>1. held' = held \cup {r} /\ Cardinality(held) < Capacity
    BY <1>10 DEF Get, Take
  <2>2. r \notin held
    BY <1>1, <1>10 DEF Get
  <2>3. IsFiniteSet(held') /\ Cardinality(held') = Cardinality(held) + 1
    BY <2>1, <2>2, FS_AddElement DEF PoolInv
  <2>4. Cardinality(held) \in Nat /\ Capacity \in Nat /\ Capacity' = Capacity
    BY FS_CardinalityType, PoolAssumption DEF PoolInv, Capacity
  <2>5. Cardinality(held') <= Capacity'
    BY <2>1, <2>3, <2>4
  <2>6. \A q \in held' : at'[q] \in {"query", "work"} \/ (at'[q] = "transfer" /\ kind'[q] # "serve")
    BY <1>1, <1>10, <2>1 DEF Get, To
  <2> QED BY <2>3, <2>5, <2>6 DEF PoolInv, PoolIsWhole
<1> QED
  BY <1>2, <1>3, <1>4, <1>5, <1>6, <1>7, <1>8, <1>9, <1>10 DEF WorkerNext, Handler

-----------------------------------------------------------------------------
(* The links.                                                              *)

\* Requests keep their links, and no link is forgotten.
LEMMA LinksKept ==
  ASSUME LinkInv, minted \subseteq minted', UNCHANGED key, minted' # {} => key,
         \A m \in minted' : Signed(m),
         \A r \in Requests :
            at'[r] \in Building \cup {"check", "return", "given"} /\ kind'[r] = "serve" =>
               /\ at[r] \in Building \cup {"check", "return", "given"} /\ kind[r] = "serve"
               /\ payload'[r] = payload[r]
  PROVE  LinkInv'
<1>1. \A m \in minted' : Signed(m)'
  BY DEF Signed
<1>2. ASSUME NEW r \in Requests,
             at'[r] \in Building \cup {"check", "return", "given"}, kind'[r] = "serve"
      PROVE  \E m \in minted' : payload'[r] = m.link \/ payload'[r] \in Damaged(m.link)
  <2>1. PICK m \in minted : payload[r] = m.link \/ payload[r] \in Damaged(m.link)
    BY <1>2 DEF LinkInv
  <2>2. m \in minted' /\ payload'[r] = payload[r]
    BY <1>2
  <2> QED BY <2>1, <2>2
<1> QED
  BY <1>1, <1>2 DEF LinkInv

LEMMA MintedLinks ==
  ASSUME LinkInv, NEW by \in {"upload", "holder"}, NEW a \in Assets, NEW s \in Slugs, NEW e \in Int,
         now \in Int, by = "upload" => e <= MaxServeUrlExpiry,
         minted' = minted \cup {[link |-> l, by |-> by, born |-> now] :
                                   l \in {sign_serve_url(a, s, e, now)}}
  PROVE  minted \subseteq minted' /\ \A m \in minted' : Signed(m)
<1> DEFINE l == sign_serve_url(a, s, e, now)
           new == [link |-> l, by |-> by, born |-> now]
<1>1. minted' = minted \cup {new}
  OBVIOUS
<1>2. /\ l.lost = "nothing" /\ l.expires_at = now + e
      /\ l.signature = <<l.asset, l.slug, l.expires_at>>
  BY SignedLink
<1> HIDE DEF l
<1>3. Signed(new)
  BY <1>2, SignedUrlsAssumption DEF Signed
<1> QED
  BY <1>1, <1>3 DEF LinkInv

LEMMA LinkStep ==
  ASSUME TypeInv, LinkInv, WorkerNext PROVE LinkInv'
<1> USE DEF shared, requestVars, poolVars, linkVars
<1> DEFINE Bearing(r) == at[r] \in Building \cup {"check", "return", "given"} /\ kind[r] = "serve"
           Same == /\ minted' = minted /\ UNCHANGED key
                   /\ \A r \in Requests :
                        at'[r] \in Building \cup {"check", "return", "given"} /\ kind'[r] = "serve" =>
                           Bearing(r) /\ payload'[r] = payload[r]
<1>1. Same => LinkInv'
  BY LinksKept DEF LinkInv
<1>2. ASSUME NEW r \in Requests, Request(r) PROVE LinkInv'
  <2>1. PICK k \in Kind, l \in Payload, t \in Int : Arrive(r, k, l, t)
           /\ (k = "serve" => \E m \in minted : l = m.link \/ l \in Damaged(m.link))
    <3>1. CASE \E m \in minted : \E l \in {m.link} \cup Damaged(m.link) : Arrive(r, "serve", l, 0)
      <4>1. PICK m \in minted : \E l \in {m.link} \cup Damaged(m.link) : Arrive(r, "serve", l, 0)
        BY <3>1
      <4>2. PICK l \in {m.link} \cup Damaged(m.link) : Arrive(r, "serve", l, 0)
        BY <4>1
      <4>3. m.link \in Payload
        BY DEF TypeInv, WorkerTypeOK
      <4>4. l \in Payload
        BY <4>3, DamagedLink
      <4> QED BY <4>2, <4>4 DEF Kind
    <3>2. NoLink \in Payload
      BY SomeAssetExists, SignedUrlsAssumption DEF NoLink, Payload
    <3>3. CASE \E t \in tokens : Arrive(r, "download", NoLink, t)
      BY <3>2, <3>3, WorkerAssumption DEF Kind, TypeInv, WorkerTypeOK
    <3>4. CASE \E k \in {"upload", "other"} : Arrive(r, k, NoLink, 0)
      BY <3>2, <3>4 DEF Kind
    <3> QED BY <1>2, <3>1, <3>3, <3>4 DEF Request
  <2>2. /\ UNCHANGED <<minted, key>>
        /\ kind'[r] = k /\ payload'[r] = l
        /\ \A q \in Requests \ {r} : at'[q] = at[q] /\ kind'[q] = kind[q] /\ payload'[q] = payload[q]
    BY <2>1 DEF Arrive, To, TypeInv, WorkerTypeOK
  <2>3. ASSUME NEW q \in Requests,
               at'[q] \in Building \cup {"check", "return", "given"}, kind'[q] = "serve"
        PROVE  \E m \in minted' : payload'[q] = m.link \/ payload'[q] \in Damaged(m.link)
    <3>1. CASE q = r
      BY <2>1, <2>2, <2>3, <3>1
    <3>2. CASE q # r
      BY <2>2, <2>3, <3>2 DEF LinkInv
    <3> QED BY <3>1, <3>2
  <2>4. \A m \in minted' : Signed(m)'
    BY <2>2 DEF LinkInv, Signed
  <2> QED
    BY <2>2, <2>3, <2>4 DEF LinkInv
<1> USE DEF TypeInv, WorkerTypeOK
<1>3. ASSUME NEW r \in Requests, UseFactory(r) PROVE Same
  BY <1>3 DEF UseFactory, GetBackend, Check, Construct, WriteProbe, UnlinkProbe, Assign,
     Return, BuildFails, To, Building
<1>4. ASSUME NEW r \in Requests, FactoryFailed(r) \/ TimeOut(r) \/ Transfer(r) PROVE Same
  BY <1>4 DEF FactoryFailed, TimeOut, Transfer, End, To, Building
<1>5. ASSUME NEW r \in Requests, Verify(r) PROVE Same
  BY <1>5 DEF Verify, Go, End, To, Building
<1>6. ASSUME NEW r \in Requests, LookUp(r) \/ Get(r) PROVE Same
  BY <1>6 DEF LookUp, Get, Go, End, To, Building
<1>7. ASSUME NEW r \in Requests, Query(r) PROVE Same
  BY <1>7 DEF Query, LoadServingMetadata, QueryDownload, QueryOther, CommitUpload, Go, End,
     To, Building
<1>8. ASSUME NEW r \in Requests, Work(r) PROVE LinkInv'
  <2>1. /\ UNCHANGED key
        /\ \A q \in Requests :
              at'[q] \in Building \cup {"check", "return", "given"} /\ kind'[q] = "serve" =>
                 Bearing(q) /\ payload'[q] = payload[q]
    <3>1. at[r] = "work" /\ (Go(r, "query") \/ End(r)) /\ UNCHANGED <<key, payload>>
      BY <1>8 DEF Work
    <3> QED BY <3>1 DEF Go, End, To, Building
  <2>2. CASE minted' = minted
    BY <1>1, <2>1, <2>2
  <2>3. ASSUME NEW a \in Assets, NEW e \in Lifetimes, key,
               Mint("upload", {sign_serve_url(a, Internal, Capped(e), now)}, {})
        PROVE  LinkInv'
    <3>1. Capped(e) \in Int /\ Capped(e) <= MaxServeUrlExpiry /\ Internal \in Slugs /\ now \in Int
      BY CappedLife, WorkerAssumption, SignedUrlsAssumption
    <3>2. minted \subseteq minted' /\ \A m \in minted' : Signed(m)
      BY <2>3, <3>1, MintedLinks DEF Mint
    <3> QED BY <2>1, <2>3, <3>2, LinksKept
  <2>4. CASE Mint("upload", {}, {now})
    BY <2>2, <2>4 DEF Mint
  <2> QED BY <1>8, <2>2, <2>3, <2>4 DEF Work
<1>9. CASE HolderSigns
  <2>1. PICK a \in Assets, s \in Slugs, e \in Lifetimes :
           Mint("holder", {sign_serve_url(a, s, e, now)}, {})
    BY <1>9 DEF HolderSigns
  <2>2. e \in Int /\ now \in Int
    BY WorkerAssumption
  <2>3. minted \subseteq minted' /\ \A m \in minted' : Signed(m)
    BY <2>1, <2>2, MintedLinks DEF Mint
  <2>4. UNCHANGED <<at, kind, payload, key>> /\ key
    BY <1>9 DEF HolderSigns
  <2> QED BY <2>3, <2>4, LinksKept
<1>10. CASE Tick
  <2>1. UNCHANGED <<at, kind, payload, minted, key>>
    BY <1>10 DEF Tick
  <2> QED BY <1>1, <2>1
<1> QED
  BY <1>1, <1>2, <1>3, <1>4, <1>5, <1>6, <1>7, <1>8, <1>9, <1>10 DEF WorkerNext, Handler

-----------------------------------------------------------------------------
(* Together.                                                               *)

LEMMA WorkerStep == WorkerInv /\ [WorkerNext]_workerVars => WorkerInv'
<1>1. ASSUME WorkerInv, WorkerNext PROVE WorkerInv'
  BY <1>1, TypeStep, FactoryStep, PoolStep, LinkStep DEF WorkerInv
<1>2. ASSUME WorkerInv, UNCHANGED workerVars PROVE WorkerInv'
  <2> USE <1>2 DEF workerVars, shared, requestVars, poolVars, linkVars, WorkerInv
  <2>1. TypeInv'
    BY DEF TypeInv, WorkerTypeOK, Unfinished
  <2>2. FactoryInv'
    BY DEF FactoryInv, Builders, ProbeFailsOnlyIfShared
  <2>3. PoolInv'
    BY DEF PoolInv, PoolIsWhole, Capacity
  <2>4. LinkInv'
    <3>1. \A m \in minted' : Signed(m)'
      BY DEF LinkInv, Signed
    <3> QED BY <3>1 DEF LinkInv
  <2> QED BY <2>1, <2>2, <2>3, <2>4
<1> QED BY <1>1, <1>2

LEMMA WorkerInvHolds == WorkerSpec => []WorkerInv
BY WorkerInitInv, WorkerStep, PTL DEF WorkerSpec

\* In every process: types, a pool that is whole, and a constructor that fails on a
\* good disk only when it is not alone.
THEOREM WorkerSafety == WorkerSpec => [](WorkerTypeOK /\ PoolIsWhole /\ ProbeFailsOnlyIfShared)
<1>1. WorkerInv => WorkerTypeOK /\ PoolIsWhole /\ ProbeFailsOnlyIfShared
  BY DEF WorkerInv, TypeInv, PoolInv, FactoryInv
<1> QED BY <1>1, WorkerInvHolds, PTL

\* For any number of threads every variable of the process keeps its type: nobody waits
\* longer than the pool's timeout, and no link is dated after the clock's end.
THEOREM WorkerTyped == WorkerSpec => []WorkerTypeOK
BY WorkerSafety, PTL

\* The constructor of the local backend reports a good disk as broken only beside another one.
THEOREM NoFalseAlarm == WorkerSpec => []ProbeFailsOnlyIfShared
BY WorkerSafety, PTL

\* Beside a backend nobody starts to build, and who assigns built it before.
LEMMA BuildsEnd ==
  ASSUME TypeInv, FactoryInv, WorkerNext, instance # NoBackend
  PROVE  Builders' \subseteq Builders /\ (instance' # instance => instance' \in overlap)
<1> DEFINE Fewer == /\ \A q \in Requests : at'[q] \in Building => at[q] \in Building
                    /\ instance' # instance => instance' \in overlap
<1> USE DEF TypeInv, WorkerTypeOK, shared, requestVars, poolVars, linkVars
<1>1. ASSUME NEW r \in Requests, UseFactory(r) PROVE Fewer
  BY <1>1 DEF UseFactory, GetBackend, Check, Construct, WriteProbe, UnlinkProbe, Assign,
     Return, BuildFails, To, FactoryInv, Builders, Building
<1>2. ASSUME NEW r \in Requests,
             FactoryFailed(r) \/ Verify(r) \/ LookUp(r) \/ Get(r) \/ TimeOut(r) \/ Transfer(r)
      PROVE  Fewer
  BY <1>2 DEF FactoryFailed, Verify, LookUp, Get, TimeOut, Transfer, Go, End, To, Building
<1>3. ASSUME NEW r \in Requests, Request(r) PROVE Fewer
  BY <1>3 DEF Request, Arrive, To, Building
<1>4. ASSUME NEW r \in Requests, Query(r) PROVE Fewer
  BY <1>4 DEF Query, LoadServingMetadata, QueryDownload, QueryOther, CommitUpload, Go, End,
     To, Building
<1>5. ASSUME NEW r \in Requests, Work(r) PROVE Fewer
  <2>1. (Go(r, "query") \/ End(r)) /\ UNCHANGED instance
    BY <1>5 DEF Work
  <2> QED BY <2>1 DEF Go, End, To, Building
<1>6. ASSUME HolderSigns \/ Tick PROVE Fewer
  <2>1. UNCHANGED <<at, instance>>
    BY <1>6 DEF HolderSigns, Tick
  <2> QED BY <2>1
<1>7. Fewer
  BY <1>1, <1>2, <1>3, <1>4, <1>5, <1>6 DEF WorkerNext, Handler
<1> QED
  BY <1>7 DEF Builders

\* However many threads ask first, they end with one backend: _instance is replaced
\* only by builds that overlapped.
THEOREM OneBackend == WorkerSpec => SettlesOnOne
<1>1. ASSUME WorkerInv, WorkerNext, instance # NoBackend
      PROVE  /\ Cardinality(Builders') <= Cardinality(Builders)
             /\ instance' # instance => instance' \in overlap
  <2>1. Builders' \subseteq Builders /\ (instance' # instance => instance' \in overlap)
    BY <1>1, BuildsEnd DEF WorkerInv
  <2>2. IsFiniteSet(Builders)
    BY WorkerAssumption, FS_Subset DEF Builders
  <2> QED BY <2>1, <2>2, FS_Subset
<1>2. ASSUME WorkerInv, UNCHANGED workerVars
      PROVE  UNCHANGED factoryVars
  BY <1>2 DEF workerVars, shared, factoryVars
<1>3. WorkerInv /\ [WorkerNext]_workerVars =>
        [/\ instance # NoBackend => Cardinality(Builders') <= Cardinality(Builders)
         /\ instance # NoBackend /\ instance' # instance => instance' \in overlap]_factoryVars
  BY <1>1, <1>2
<1> QED
  BY <1>3, WorkerInvHolds, PTL DEF WorkerSpec, SettlesOnOne

-----------------------------------------------------------------------------
(* What becomes of a link.                                                 *)

\* Only Verify decides on a link.
LEMMA Verified ==
  ASSUME TypeInv, WorkerNext, NEW r \in Requests, at[r] = "given", kind[r] = "serve", at'[r] # "given"
  PROVE  at'[r] = "lookup" <=> verify_signed_url(payload[r], now, key) = 200
<1> USE DEF TypeInv, WorkerTypeOK, shared, requestVars, poolVars, linkVars
<1>1. ASSUME NEW q \in Requests, Request(q) \/ UseFactory(q) \/ FactoryFailed(q) \/ LookUp(q) \/ Get(q)
                \/ TimeOut(q) \/ Transfer(q)
      PROVE  FALSE
  <2>1. \E stage : at' = [at EXCEPT ![q] = stage]
    BY <1>1 DEF Request, Arrive, UseFactory, GetBackend, Check, Construct, WriteProbe, UnlinkProbe,
       Assign, Return, BuildFails, FactoryFailed, LookUp, Get, TimeOut, Transfer, Go, End, To
  <2>2. at[q] # "given"
    BY <1>1 DEF Request, Arrive, UseFactory, GetBackend, Check, Construct, WriteProbe, UnlinkProbe,
       Assign, Return, BuildFails, FactoryFailed, LookUp, Get, TimeOut, Transfer
  <2> QED BY <2>1, <2>2
<1>2. ASSUME NEW q \in Requests, Query(q) \/ Work(q) PROVE FALSE
  <2>1. at[q] # "given" /\ \E stage : at' = [at EXCEPT ![q] = stage]
    BY <1>2 DEF Query, LoadServingMetadata, QueryDownload, QueryOther, CommitUpload, Work, Go, End, To
  <2> QED BY <2>1
<1>3. ASSUME HolderSigns \/ Tick PROVE FALSE
  BY <1>3 DEF HolderSigns, Tick
<1>4. ASSUME NEW q \in Requests, Verify(q)
      PROVE  at'[r] = "lookup" <=> verify_signed_url(payload[r], now, key) = 200
  <2>1. q = r
    BY <1>4 DEF Verify, Go, End, To
  <2> QED
    BY <1>4, <2>1 DEF Verify, Go, End, To, Accepted
<1> QED
  BY <1>1, <1>2, <1>3, <1>4 DEF WorkerNext, Handler

\* A link is accepted if and only if it was signed, is unchanged and in time: a damaged
\* copy either lost something or is not what its signature covers.
THEOREM LinksWork == WorkerSpec => LinksWorkUntilExpiry
<1>1. ASSUME WorkerInv, WorkerNext, NEW r \in Requests,
             at[r] = "given", kind[r] = "serve", at'[r] # "given"
      PROVE  at'[r] = "lookup" <=>
                /\ payload[r].slug \notin Dotted
                /\ \E m \in minted : m.link = payload[r] /\ now <= m.link.expires_at
  <2>1. PICK m \in minted : payload[r] = m.link \/ payload[r] \in Damaged(m.link)
    BY <1>1 DEF WorkerInv, LinkInv, Building
  <2>2. key /\ \A n \in minted : Signed(n)
    BY <2>1, <1>1 DEF WorkerInv, LinkInv
  <2>3. payload[r] \in Payload /\ m.link \in Payload /\ now \in Int
    BY <1>1, <2>1, WorkerAssumption DEF WorkerInv, TypeInv, WorkerTypeOK
  <2>4. at'[r] = "lookup" <=> verify_signed_url(payload[r], now, key) = 200
    BY <1>1, Verified DEF WorkerInv
  <2>5. at'[r] = "lookup" <=>
            /\ payload[r].lost = "nothing" /\ payload[r].slug \notin Dotted
            /\ now <= payload[r].expires_at
            /\ payload[r].signature = <<payload[r].asset, payload[r].slug, payload[r].expires_at>>
    <3>1. verify_signed_url(payload[r], now, key) = 200 <=>
            /\ payload[r].lost = "nothing" /\ payload[r].slug \notin Dotted
            /\ now <= payload[r].expires_at /\ key
            /\ payload[r].signature = <<payload[r].asset, payload[r].slug, payload[r].expires_at>>
      BY <2>3, AcceptedLink
    <3> QED BY <2>2, <2>4, <3>1, Zenon
  <2>6. CASE payload[r] = m.link
    BY <2>1, <2>2, <2>5, <2>6 DEF Signed
  <2>7. CASE payload[r] \in Damaged(m.link)
    <3>1. \/ payload[r].lost \in {"part", "field"}
          \/ payload[r].signature # <<payload[r].asset, payload[r].slug, payload[r].expires_at>>
      BY <2>1, <2>2, <2>3, <2>7, DamagedLink DEF Signed
    <3>2. \A n \in minted : n.link # payload[r]
      BY <3>1, <2>2 DEF Signed
    <3> QED BY <2>5, <3>1, <3>2
  <2> QED BY <2>1, <2>6, <2>7
<1>2. WorkerInv /\ [WorkerNext]_workerVars =>
        [\A r \in Requests :
            at[r] = "given" /\ kind[r] = "serve" /\ at'[r] # "given" =>
               (at'[r] = "lookup" <=>
                  /\ payload[r].slug \notin Dotted
                  /\ \E m \in minted : m.link = payload[r] /\ now <= m.link.expires_at)]_workerVars
  BY <1>1
<1> QED
  BY <1>2, WorkerInvHolds, PTL DEF WorkerSpec, LinksWorkUntilExpiry

\* Whatever life its caller asks for, an upload signs none longer than the cap.
THEOREM UploadLinksEnd == WorkerSpec => UploadLinksAreCapped
<1>1. ASSUME WorkerInv, WorkerNext, NEW r \in Requests, NEW m \in minted,
             at[r] = "given", kind[r] = "serve", at'[r] = "lookup", m.by = "upload", m.link = payload[r]
      PROVE  now <= m.born + MaxServeUrlExpiry
  <2>1. verify_signed_url(payload[r], now, key) = 200
    BY <1>1, Verified DEF WorkerInv
  <2>2. payload[r] \in Payload /\ now \in Int /\ m.born \in Int
    BY <1>1, WorkerAssumption DEF WorkerInv, TypeInv, WorkerTypeOK
  <2>3. now <= m.link.expires_at /\ m.link.expires_at \in Int
    BY <1>1, <2>1, <2>2, AcceptedLink DEF Payload
  <2>4. m.link.expires_at <= m.born + MaxServeUrlExpiry
    BY <1>1 DEF WorkerInv, LinkInv, Signed
  <2> QED BY <2>2, <2>3, <2>4, SignedUrlsAssumption
<1>2. WorkerInv /\ [WorkerNext]_workerVars =>
        [\A r \in Requests, m \in minted :
            /\ at[r] = "given" /\ kind[r] = "serve" /\ at'[r] = "lookup"
            /\ m.by = "upload" /\ m.link = payload[r]
            => now <= m.born + MaxServeUrlExpiry]_workerVars
  BY <1>1
<1> QED
  BY <1>2, WorkerInvHolds, PTL DEF WorkerSpec, UploadLinksAreCapped
=============================================================================
