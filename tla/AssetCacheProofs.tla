-------------------------- MODULE AssetCacheProofs --------------------------
(* Proofs about AssetCache, for any assets, requests, lifetimes and bound.  *)
EXTENDS AssetCache, TLAPS

USE CacheAssumption

\* Nothing cached or in flight is ahead of the row; what has the version of
\* the row has its contents, and what was found missing is missing.
Behind ==
    /\ \A k \in Key, a \in Asset : Cached(k, a) =>
          /\ cache[k][a].ver <= row[a].ver
          /\ cache[k][a].ver = row[a].ver => cache[k][a].live = row[a].live
    /\ \A r \in Request : req[r].pc = "fill" =>
          LET a == req[r].id IN
          /\ req[r].saw.ver <= row[a].ver
          /\ req[r].saw.ver = row[a].ver => req[r].saw.live = row[a].live
          /\ ~req[r].saw.live => ~row[a].live

Inv == TypeOK /\ Behind /\ StaleHasCause /\ NotFoundIsTrue

\* The helpers keep the types.
LEMMA GotoType == ASSUME TypeOK, NEW r \in Request, NEW pc \in Pc, Goto(r, pc)
                  PROVE  req' \in [Request -> Req]
<1>1. [req[r] EXCEPT !.pc = pc, !.saw = Unseen] \in Req
  BY DEF TypeOK, Req, Unseen, Row
<1>2. req' = [req EXCEPT ![r] = [req[r] EXCEPT !.pc = pc, !.saw = Unseen]]
  BY DEF Goto, TypeOK, Req
<1>3. QED
  BY <1>1, <1>2 DEF TypeOK

LEMMA LoseType == ASSUME TypeOK, NEW ks, NEW a \in Asset, Lose(ks, a)
                  PROVE  cache' \in [Key -> [Asset -> Entry]]
<1>1. ASSUME NEW k \in Key
      PROVE  [cache[k] EXCEPT ![a].excuse = "lost"] \in [Asset -> Entry]
  BY DEF TypeOK, Entry
<1>2. QED
  BY <1>1 DEF Lose, TypeOK

LEMMA DropType == ASSUME TypeOK, NEW k \in Key, NEW a \in Asset, Drop(k, a)
                  PROVE  cache' \in [Key -> [Asset -> Entry]]
<1>1. CASE cache' = [cache EXCEPT ![k][a] = Miss]
  BY <1>1 DEF TypeOK, Miss, Entry
<1>2. CASE Lose({k}, a)
  BY <1>2, LoseType
<1>3. QED
  BY <1>1, <1>2 DEF Drop

LEMMA TypeStep == ASSUME TypeOK, [Next]_vars PROVE TypeOK'
<1>. USE DEF TypeOK
<1>1. CASE UNCHANGED vars
  BY <1>1 DEF vars
<1>2. CASE Tick
  <2>1. ASSUME NEW k \in Key, NEW a \in Asset
        PROVE  (IF cache[k][a].left > 1
                THEN [cache[k][a] EXCEPT !.left = @ - 1] ELSE Miss) \in Entry
    BY DEF Entry, Miss
  <2>2. QED
    BY <1>2, <2>1 DEF Tick
<1>3. ASSUME NEW r \in Request, Begin(r) PROVE TypeOK'
  <2>1. ASSUME NEW op \in Op, NEW a \in Asset
        PROVE  [op |-> op, id |-> a, saw |-> Unseen,
                pc |-> IF op = "update" THEN "select" ELSE "lookup"] \in Req
    BY DEF Req, Unseen, Row, Pc
  <2>2. QED
    BY <1>3, <2>1 DEF Begin
<1>4. ASSUME NEW r \in Request, Work(r) PROVE TypeOK'
  <2>0. req[r].id \in Asset /\ req[r] \in Req
    BY DEF Req
  <2>1. ASSUME NEW live \in BOOLEAN, Found(r, live) PROVE req' \in [Request -> Req]
    BY <2>1, GotoType DEF Found, Pc
  <2>2. CASE Hit(r)
    <3>1. KeyOf(r) \in Key
      BY DEF KeyOf, Key
    <3>2. cache[KeyOf(r)][req[r].id].live \in BOOLEAN
      BY <2>0, <3>1 DEF Entry
    <3>3. QED
      BY <2>1, <2>2, <3>2 DEF Hit
  <2>3. CASE NoHit(r)
    BY <2>3, GotoType DEF NoHit, Pc
  <2>4. CASE Load(r)
    BY <2>0, <2>4 DEF Load, Req, Pc
  <2>5. CASE Fill(r)
    <3>1. EntryFor(req[r].saw, req[r].id) \in Entry
      BY <2>0 DEF EntryFor, Entry, Req, Row
    <3>2. cache' \in [Key -> [Asset -> Entry]]
      BY <2>0, <2>5, <3>1 DEF Fill, KeyOf, Key
    <3>3. QED
      BY <2>0, <2>1, <2>5, <3>2 DEF Fill, Req, Row
  <2>6. CASE Owner(r) \/ Select(r)
    BY <2>6, GotoType DEF Owner, Select, Pc
  <2>7. CASE CommitUpdate(r) \/ CommitDelete(r)
    <3>1. row' \in [Asset -> Row]
      <4>1. row[req[r].id].ver \in Nat /\ row[req[r].id].live \in BOOLEAN
        BY <2>0 DEF Row
      <4>2. CASE CommitUpdate(r)
        BY <2>0, <4>1, <4>2 DEF CommitUpdate, Row
      <4>3. CASE CommitDelete(r)
        <5>1. [ver |-> row[req[r].id].ver + 1, live |-> FALSE] \in Row
          BY <4>1 DEF Row
        <5>2. QED
          BY <2>0, <4>3, <5>1 DEF CommitDelete
      <4>4. QED
        BY <2>7, <4>2, <4>3
    <3>2. QED
      BY <2>7, <3>1, GotoType DEF CommitUpdate, CommitDelete, Pc
  <2>8. CASE Refresh(r)
    BY <2>0, <2>8, GotoType, LoseType DEF Refresh, Pc
  <2>9. CASE InvalidateServe(r)
    BY <2>0, <2>9, GotoType, DropType DEF InvalidateServe, Pc, Key
  <2>10. CASE InvalidateRecord(r)
    BY <2>0, <2>10, GotoType, DropType DEF InvalidateRecord, Pc, Key
  <2>11. QED
    BY <1>4, <2>2, <2>3, <2>4, <2>5, <2>6, <2>7, <2>8, <2>9, <2>10 DEF Work
<1>5. ASSUME NEW r \in Request, Abort(r) PROVE TypeOK'
  BY <1>5, GotoType, LoseType DEF Abort, Pc, Req
<1>6. QED
  BY <1>1, <1>2, <1>3, <1>4, <1>5 DEF Next

-----------------------------------------------------------------------------
\* What the helpers change, field by field.
LEMMA GotoFacts == ASSUME TypeOK, NEW r \in Request, NEW pc \in Pc, Goto(r, pc)
                   PROVE  /\ req'[r].pc = pc /\ req'[r].id = req[r].id
                          /\ \A q \in Request \ {r} : req'[q] = req[q]
BY DEF TypeOK, Req, Goto

LEMMA LoseFacts == ASSUME TypeOK, NEW ks, NEW a \in Asset, Lose(ks, a)
                   PROVE  \A k \in Key, b \in Asset :
                            /\ cache'[k][b].ver = cache[k][b].ver
                            /\ cache'[k][b].live = cache[k][b].live
                            /\ cache'[k][b].left = cache[k][b].left
                            /\ cache[k][b].excuse # "none" => cache'[k][b].excuse # "none"
                            /\ b = a /\ k \in ks /\ Cached(k, a) => cache'[k][b].excuse = "lost"
BY DEF TypeOK, Entry, Lose, Cached

LEMMA DropFacts == ASSUME TypeOK, NEW d \in Key, NEW a \in Asset, Drop(d, a)
                   PROVE  \A k \in Key, b \in Asset :
                            \/ k = d /\ b = a /\ cache'[k][b] = Miss
                            \/ /\ k # d \/ b # a \/ ~Cached(k, b) \/ cache'[k][b].excuse = "lost"
                               /\ cache'[k][b].ver = cache[k][b].ver
                               /\ cache'[k][b].live = cache[k][b].live
                               /\ cache'[k][b].left = cache[k][b].left
                               /\ cache[k][b].excuse # "none" => cache'[k][b].excuse # "none"
<1>1. CASE cache' = [cache EXCEPT ![d][a] = Miss]
  BY <1>1 DEF TypeOK
<1>2. CASE Lose({d}, a)
  BY <1>2, LoseFacts
<1>3. QED
  BY <1>1, <1>2 DEF Drop

LEMMA TickFacts == ASSUME TypeOK, Tick
                   PROVE  \A k \in Key, a \in Asset :
                            cache'[k][a].left > 0 =>
                              /\ cache[k][a].left > 0
                              /\ cache'[k][a].ver = cache[k][a].ver
                              /\ cache'[k][a].live = cache[k][a].live
                              /\ cache'[k][a].excuse = cache[k][a].excuse
<1>. SUFFICES ASSUME NEW k \in Key, NEW a \in Asset, cache'[k][a].left > 0
              PROVE  /\ cache[k][a].left > 0
                     /\ cache'[k][a].ver = cache[k][a].ver
                     /\ cache'[k][a].live = cache[k][a].live
                     /\ cache'[k][a].excuse = cache[k][a].excuse
  OBVIOUS
<1>. DEFINE e == cache[k][a]
<1>1. cache'[k][a] = IF e.left > 1 THEN [e EXCEPT !.left = @ - 1] ELSE Miss
  BY DEF Tick
<1>2. e.left > 1
  BY <1>1 DEF Miss
<1>3. cache'[k][a] = [e EXCEPT !.left = @ - 1]
  BY <1>1, <1>2
<1>4. e \in Entry
  BY DEF TypeOK
<1>. HIDE DEF e
<1>5. QED
  BY <1>2, <1>3, <1>4 DEF Entry, e

LEMMA InvInit == Init => Inv
<1>. SUFFICES ASSUME Init PROVE Inv
  OBVIOUS
<1>1. TypeOK
  <2>1. row \in [Asset -> Row] /\ acked \in SUBSET Asset
    <3>1. [ver |-> 1, live |-> TRUE] \in Row /\ [ver |-> 0, live |-> FALSE] \in Row
      BY DEF Row
    <3>2. QED
      BY <3>1 DEF Init
  <2>2. Miss \in Entry
    BY DEF Miss, Entry
  <2>3. cache \in [Key -> [Asset -> Entry]]
    BY <2>2 DEF Init
  <2>4. req \in [Request -> Req]
    BY DEF Init, Req, Op, Pc, Unseen, Row
  <2>5. QED
    BY <2>1, <2>3, <2>4 DEF TypeOK
<1>2. \A k \in Key, a \in Asset : ~Cached(k, a)
  <2>1. ASSUME NEW k \in Key, NEW a \in Asset PROVE cache[k][a] = Miss
    BY DEF Init
  <2>2. QED
    BY <2>1 DEF Miss, Cached
<1>3. \A r \in Request : req[r].pc = "idle"
  BY DEF Init
<1>4. QED
  BY <1>1, <1>2, <1>3 DEF Inv, Behind, StaleHasCause, NotFoundIsTrue

\* A commit to one row, or none, whose request then owes both keys.
LEMMA CommitKeeps ==
  ASSUME Inv, TypeOK', UNCHANGED cache, NEW r \in Request,
         req[r].pc = "commit", req'[r].id = req[r].id,
         \A q \in Request \ {r} : req'[q] = req[q],
         \A b \in Asset \ {req[r].id} : row'[b] = row[b],
         \/ UNCHANGED row /\ req'[r].pc \in {"idle", "invserve"}
         \/ /\ row'[req[r].id].ver = row[req[r].id].ver + 1 /\ row[req[r].id].live
            /\ req'[r].pc \in {"refresh", "invserve"}
  PROVE  Behind' /\ StaleHasCause' /\ NotFoundIsTrue'
<1>. DEFINE a == req[r].id
<1>0. TypeOK /\ Behind /\ StaleHasCause /\ NotFoundIsTrue
  BY DEF Inv
<1>1. /\ a \in Asset
      /\ \A b \in Asset : row[b].ver \in Nat /\ row'[b].ver \in Nat
      /\ \A k \in Key, b \in Asset : cache[k][b].ver \in Nat
      /\ \A q \in Request : req[q].id \in Asset /\ req[q].saw.ver \in Nat
  BY <1>0 DEF TypeOK, Row, Entry, Req
<1>2. \A q \in Request : req'[q].id = req[q].id /\ Owed(q) \subseteq Owed(q)'
  BY DEF Owed
<1>3. CASE UNCHANGED row
  <2>1. Behind'
    BY <1>0, <1>3 DEF Behind, Cached
  <2>2. StaleHasCause'
    BY <1>0, <1>2, <1>3 DEF StaleHasCause, Cached
  <2>3. QED
    BY <1>0, <1>3, <2>1, <2>2 DEF NotFoundIsTrue, Cached
<1>4. CASE /\ row'[a].ver = row[a].ver + 1 /\ row[a].live
           /\ req'[r].pc \in {"refresh", "invserve"}
  <2>1. Behind'
    BY <1>0, <1>1, <1>4 DEF Behind, Cached
  <2>2. Owed(r)' = Key
    BY <1>4 DEF Owed
  <2>3. StaleHasCause'
    BY <1>0, <1>2, <2>2 DEF StaleHasCause, Cached
  <2>4. NotFoundIsTrue'
    BY <1>0, <1>4 DEF NotFoundIsTrue, Cached
  <2>5. QED
    BY <2>1, <2>3, <2>4
<1>5. QED
  BY <1>3, <1>4

LEMMA InvStep == ASSUME Inv, [Next]_vars PROVE Inv'
<1>0. TypeOK /\ TypeOK' /\ Behind /\ StaleHasCause /\ NotFoundIsTrue
  BY TypeStep DEF Inv
<1>a. Key = {"serve", "record"}
  BY DEF Key
<1>. USE <1>0, <1>a
<1>. SUFFICES Behind' /\ StaleHasCause' /\ NotFoundIsTrue'
  BY DEF Inv
<1>. USE DEF Behind, StaleHasCause, NotFoundIsTrue, Cached
<1>1. CASE UNCHANGED vars
  BY <1>1 DEF vars, Owed
<1>2. CASE Tick
  BY <1>2, TickFacts DEF Tick, Owed
<1>3. ASSUME NEW r \in Request, Begin(r) PROVE Behind' /\ StaleHasCause' /\ NotFoundIsTrue'
  <2>1. /\ req'[r].pc \in {"select", "lookup"} /\ \A q \in Request \ {r} : req'[q] = req[q]
        /\ UNCHANGED <<row, cache>> /\ req[r].pc = "idle"
    BY <1>3 DEF Begin, TypeOK, At
  <2>2. QED
    BY <2>1 DEF Owed
<1>4. ASSUME NEW r \in Request, Work(r) PROVE Behind' /\ StaleHasCause' /\ NotFoundIsTrue'
  <2>0. req[r].id \in Asset /\ req[r].saw \in Row
    BY DEF Req, TypeOK
  <2>. DEFINE Elsewhere(pc) == /\ req'[r].pc = pc /\ req'[r].id = req[r].id
                               /\ \A q \in Request \ {r} : req'[q] = req[q]
  <2>1. ASSUME NEW live, Found(r, live) PROVE Elsewhere("owner") \/ Elsewhere("idle")
    BY <2>1, GotoFacts DEF Found, Pc
  <2>2. CASE Hit(r)
    BY <2>1, <2>2 DEF Hit, Owed, At
  <2>3. CASE NoHit(r)
    BY <2>3, GotoFacts DEF NoHit, Owed, At, Pc
  <2>4. CASE Load(r)
    <3>1. /\ req'[r].pc = "fill" /\ req'[r].saw = row[req[r].id] /\ req'[r].id = req[r].id
          /\ \A q \in Request \ {r} : req'[q] = req[q]
          /\ UNCHANGED <<row, cache>> /\ req[r].pc = "load"
      BY <2>4 DEF Load, TypeOK, Req, At
    <3>2. row[req[r].id].ver <= row[req[r].id].ver
      BY <2>0 DEF TypeOK, Row
    <3>3. Behind'
      BY <3>1, <3>2
    <3>4. QED
      BY <3>1, <3>3 DEF Owed
  <2>5. CASE Fill(r)
    <3>. DEFINE a == req[r].id
                e == EntryFor(req[r].saw, a)
    <3>1. /\ e.ver = req[r].saw.ver /\ e.live = req[r].saw.live
          /\ e.excuse = "none" => e.ver = row[a].ver
      BY DEF EntryFor
    <3>2. \A k \in Key, b \in Asset :
             cache'[k][b] = cache[k][b] \/ (b = a /\ cache'[k][b] = e)
      BY <2>0, <2>5 DEF Fill, KeyOf, TypeOK
    <3>3. /\ e.ver <= row[a].ver
          /\ e.ver = row[a].ver => e.live = row[a].live
          /\ ~e.live => ~row[a].live
      BY <2>5, <3>1 DEF Fill, At
    <3>4. /\ req[r].pc = "fill" /\ UNCHANGED row
          /\ Elsewhere("owner") \/ Elsewhere("idle")
      BY <2>1, <2>5 DEF Fill, At
    <3>. HIDE DEF e
    <3>5. Behind'
      BY <3>2, <3>3, <3>4
    <3>6. NotFoundIsTrue'
      BY <3>2, <3>3, <3>4
    <3>7. \A q \in Request : Owed(q)' = Owed(q) /\ req'[q].id = req[q].id
      BY <3>4 DEF Owed
    <3>8. StaleHasCause'
      BY <3>1, <3>2, <3>3, <3>4, <3>7
    <3>9. QED
      BY <3>5, <3>6, <3>8
  <2>6. CASE Owner(r) \/ Select(r)
    BY <2>6, GotoFacts DEF Owner, Select, Owed, At, Pc
  <2>7. CASE CommitUpdate(r)
    <3>. DEFINE a == req[r].id
    <3>1. /\ req[r].pc = "commit" /\ UNCHANGED cache /\ a \in Asset
          /\ \A b \in Asset \ {a} : row'[b] = row[b]
          /\ \A b \in Asset : row[b].ver \in Nat
      BY <2>0, <2>7 DEF CommitUpdate, At, TypeOK, Row
    <3>2. \/ /\ UNCHANGED row
             /\ Elsewhere("idle") \/ Elsewhere("invserve")
          \/ /\ row'[a].ver = row[a].ver + 1 /\ row[a].live
             /\ Elsewhere("refresh")
      BY <2>0, <2>7, GotoFacts DEF CommitUpdate, Pc, TypeOK, Row
    <3>3. QED
      BY <3>1, <3>2, CommitKeeps
  <2>8. CASE CommitDelete(r)
    <3>. DEFINE a == req[r].id
    <3>1. /\ req[r].pc = "commit" /\ UNCHANGED cache /\ a \in Asset
          /\ \A b \in Asset \ {a} : row'[b] = row[b]
          /\ \A b \in Asset : row[b].ver \in Nat
      BY <2>0, <2>8 DEF CommitDelete, At, TypeOK, Row
    <3>2. \/ /\ UNCHANGED row
             /\ Elsewhere("idle") \/ Elsewhere("invserve")
          \/ /\ row'[a].ver = row[a].ver + 1 /\ row[a].live
             /\ Elsewhere("invserve")
      BY <2>0, <2>8, GotoFacts DEF CommitDelete, Pc, TypeOK, Row
    <3>3. QED
      BY <3>1, <3>2, CommitKeeps
  <2>9. CASE Refresh(r)
    BY <2>0, <2>9, GotoFacts, LoseFacts DEF Refresh, Owed, At, Pc
  <2>10. CASE InvalidateServe(r)
    BY <2>0, <2>10, GotoFacts, DropFacts DEF InvalidateServe, Owed, At, Pc, Miss
  <2>11. CASE InvalidateRecord(r)
    BY <2>0, <2>11, GotoFacts, DropFacts DEF InvalidateRecord, Owed, At, Pc, Miss
  <2>12. QED
    BY <1>4, <2>2, <2>3, <2>4, <2>5, <2>6, <2>7, <2>8, <2>9, <2>10, <2>11 DEF Work
<1>5. ASSUME NEW r \in Request, Abort(r) PROVE Behind' /\ StaleHasCause' /\ NotFoundIsTrue'
  <2>1. req[r].id \in Asset
    BY DEF Req, TypeOK
  <2>2. QED
    BY <1>5, <2>1, GotoFacts, LoseFacts DEF Abort, Owed, Pc
<1>6. QED
  BY <1>1, <1>2, <1>3, <1>4, <1>5 DEF Next

\* For any number of readers, writers, assets and versions, and under every
\* fault: an entry that does not follow its row has one of the named causes,
\* and "not found" is never a lie.
THEOREM Safety == Spec => [](TypeOK /\ StaleHasCause /\ NotFoundIsTrue)
<1>1. Inv => TypeOK /\ StaleHasCause /\ NotFoundIsTrue
  BY DEF Inv
<1>2. QED
  BY <1>1, InvInit, InvStep, PTL DEF Spec

\* Whatever the readers, writers and faults, the cache and the requests hold what they
\* are modelled to hold: no TTL below zero, no version that is not a number.
THEOREM CacheTyped == Spec => []TypeOK
BY Safety, PTL

\* No reader is told that an asset is missing while its row is there.
THEOREM NotFoundHolds == Spec => []NotFoundIsTrue
BY Safety, PTL

-----------------------------------------------------------------------------
\* What a request holds after it moved on is nothing, and what a lost or done
\* invalidation leaves of an entry is no more live than before.
LEMMA GotoForgets == ASSUME TypeOK, NEW r \in Request, NEW pc \in Pc, Goto(r, pc)
                     PROVE  /\ ~req'[r].saw.live
                            /\ \A q \in Request \ {r} : req'[q] = req[q]
BY DEF TypeOK, Req, Goto, Unseen

\* A row that is gone and without a trace stays so in every step: the only copies a
\* step makes are of the row, which is not live, and of copies that exist.
LEMMA ForgottenStep ==
  ASSUME TypeOK, [Next]_vars, NEW a \in Asset, ~row[a].live, ~Traces(a)
  PROVE  ~row'[a].live /\ ~Traces(a)'
<1>. DEFINE CacheForgets == \A k \in Key : ~(cache'[k][a].left > 0 /\ cache'[k][a].live)
            ReqForgets   == \A q \in Request : req'[q].id = a => ~req'[q].saw.live
<1>0. /\ \A k \in Key : ~(cache[k][a].left > 0 /\ cache[k][a].live)
      /\ \A q \in Request : req[q].id = a => ~req[q].saw.live
  BY DEF Traces, Cached
<1>1. SUFFICES ~row'[a].live /\ CacheForgets /\ ReqForgets
  BY DEF Traces, Cached
<1>2. UNCHANGED cache => CacheForgets
  BY <1>0
<1>3. ASSUME NEW r \in Request, NEW pc \in Pc, Goto(r, pc) PROVE ReqForgets
  BY <1>0, <1>3, GotoForgets
<1>4. ASSUME NEW r \in Request, NEW live, Found(r, live) PROVE ReqForgets
  BY <1>3, <1>4 DEF Found, Pc
<1>5. ASSUME NEW ks, NEW b \in Asset, Lose(ks, b) PROVE CacheForgets
  BY <1>0, <1>5, LoseFacts
<1>6. ASSUME NEW k \in Key, NEW b \in Asset, Drop(k, b) PROVE CacheForgets
  BY <1>0, <1>6, DropFacts DEF Miss
<1>7. \A r \in Request : req[r].id \in Asset /\ KeyOf(r) \in Key
  BY DEF TypeOK, Req, KeyOf, Key
<1>8. CASE UNCHANGED vars
  BY <1>0, <1>8 DEF vars
<1>9. CASE Tick
  BY <1>0, <1>9, TickFacts DEF Tick
<1>10. ASSUME NEW r \in Request, Begin(r)
       PROVE  ~row'[a].live /\ CacheForgets /\ ReqForgets
  <2>1. ~req'[r].saw.live /\ \A q \in Request \ {r} : req'[q] = req[q]
    BY <1>10 DEF Begin, TypeOK, Unseen
  <2> QED
    BY <1>0, <1>2, <1>10, <2>1 DEF Begin
<1>11. ASSUME NEW r \in Request, Hit(r) \/ NoHit(r) \/ Owner(r) \/ Select(r)
       PROVE  ~row'[a].live /\ CacheForgets /\ ReqForgets
  BY <1>2, <1>3, <1>4, <1>11 DEF Hit, NoHit, Owner, Select, Pc
<1>12. ASSUME NEW r \in Request, Load(r)
       PROVE  ~row'[a].live /\ CacheForgets /\ ReqForgets
  <2>1. /\ req'[r].saw = row[req[r].id] /\ req'[r].id = req[r].id
        /\ \A q \in Request \ {r} : req'[q] = req[q]
    BY <1>12 DEF Load, TypeOK, Req
  <2> QED
    BY <1>0, <1>2, <1>12, <2>1 DEF Load
<1>13. ASSUME NEW r \in Request, Fill(r)
       PROVE  ~row'[a].live /\ CacheForgets /\ ReqForgets
  <2>. DEFINE e == EntryFor(req[r].saw, req[r].id)
  <2>1. e.live = req[r].saw.live
    BY DEF EntryFor
  <2>2. \A k \in Key : cache'[k][a] = cache[k][a] \/ (req[r].id = a /\ cache'[k][a] = e)
    BY <1>7, <1>13 DEF Fill, TypeOK
  <2>. HIDE DEF e
  <2>3. CacheForgets
    BY <1>0, <2>1, <2>2
  <2> QED
    BY <1>4, <1>13, <2>3 DEF Fill
<1>14. ASSUME NEW r \in Request, CommitUpdate(r) \/ CommitDelete(r)
       PROVE  ~row'[a].live /\ CacheForgets /\ ReqForgets
  <2>1. row'[a] = row[a]
    BY <1>7, <1>14 DEF CommitUpdate, CommitDelete, TypeOK
  <2> QED
    BY <1>2, <1>3, <1>14, <2>1 DEF CommitUpdate, CommitDelete, Pc
<1>15. ASSUME NEW r \in Request,
              Refresh(r) \/ InvalidateServe(r) \/ InvalidateRecord(r) \/ Abort(r)
       PROVE  ~row'[a].live /\ CacheForgets /\ ReqForgets
  <2>1. UNCHANGED row /\ \E pc \in Pc : Goto(r, pc)
    BY <1>15 DEF Refresh, InvalidateServe, InvalidateRecord, Abort, Pc
  <2>2. CacheForgets
    BY <1>2, <1>5, <1>6, <1>7, <1>15
       DEF Refresh, InvalidateServe, InvalidateRecord, Abort, Key
  <2> QED
    BY <1>3, <2>1, <2>2
<1> QED
  BY <1>8, <1>9, <1>10, <1>11, <1>12, <1>13, <1>14, <1>15 DEF Next, Work

\* A deleted asset that has left no trace is never served again: no request revives it
\* from a copy, and no entry of it is ever live again, however requests interleave.
THEOREM ForgottenStays == Spec => ForgottenForGood
<1>1. TypeOK /\ [Next]_vars
      => [\A a \in Asset : ~row[a].live /\ ~Traces(a) => ~row'[a].live /\ ~Traces(a)']_vars
  BY ForgottenStep
<1> QED
  BY <1>1, Safety, PTL DEF Spec, ForgottenForGood

-----------------------------------------------------------------------------
\* A delete that has been answered, or only has keys left to drop, has its row gone.
Deleting(r) == req[r].op = "delete" /\ req[r].pc \in {"refresh", "invserve", "invrecord"}
DeletedRowsGone ==
    /\ \A a \in acked : ~row[a].live
    /\ \A r \in Request : Deleting(r) => ~row[req[r].id].live

\* No row comes back.
LEMMA RowsStayGone ==
  ASSUME TypeOK, [Next]_vars, NEW a \in Asset, ~row[a].live PROVE ~row'[a].live
<1>1. CASE UNCHANGED row
  BY <1>1
<1>2. ASSUME NEW r \in Request, CommitUpdate(r) \/ CommitDelete(r) PROVE ~row'[a].live
  BY <1>2 DEF CommitUpdate, CommitDelete, TypeOK, Req
<1> QED
  BY <1>1, <1>2 DEF Next, vars, Tick, Begin, Work, Abort, Hit, NoHit, Load, Fill, Owner,
     Select, Refresh, InvalidateServe, InvalidateRecord

LEMMA DeletedStep == ASSUME TypeOK, TypeOK', DeletedRowsGone, [Next]_vars PROVE DeletedRowsGone'
<1>0. \A r \in Request : req[r].id \in Asset
  BY DEF TypeOK, Req
<1>1. \A a \in Asset : ~row[a].live => ~row'[a].live
  BY RowsStayGone
<1>2. ASSUME UNCHANGED acked,
             \A r \in Request : req'[r] = req[r] \/ ~Deleting(r)'
      PROVE  DeletedRowsGone'
  BY <1>0, <1>1, <1>2 DEF DeletedRowsGone, Deleting, TypeOK
<1>3. ASSUME NEW r \in Request, NEW pc \in Pc \ {"refresh", "invserve", "invrecord"}, Goto(r, pc),
             UNCHANGED acked
      PROVE  DeletedRowsGone'
  BY <1>2, <1>3, GotoFacts DEF Deleting
<1>4. CASE UNCHANGED vars \/ Tick
  BY <1>2, <1>4 DEF vars, Tick
<1>5. ASSUME NEW r \in Request, Begin(r) PROVE DeletedRowsGone'
  BY <1>2, <1>5 DEF Begin, TypeOK, Deleting
<1>6. ASSUME NEW r \in Request, Hit(r) \/ NoHit(r) \/ Fill(r) \/ Owner(r) \/ Select(r) \/ Abort(r)
      PROVE  DeletedRowsGone'
  BY <1>3, <1>6 DEF Hit, NoHit, Fill, Owner, Select, Abort, Found, Pc
<1>7. ASSUME NEW r \in Request, Load(r) PROVE DeletedRowsGone'
  BY <1>2, <1>7 DEF Load, TypeOK, Req, Deleting
<1>9. ASSUME NEW r \in Request, NEW pc \in {"refresh", "invserve", "invrecord"}, Goto(r, pc),
             UNCHANGED acked, req[r].op = "delete" => ~row'[req[r].id].live
      PROVE  DeletedRowsGone'
  <2>1. /\ req'[r].id = req[r].id /\ req'[r].op = req[r].op
        /\ \A q \in Request \ {r} : req'[q] = req[q]
    BY <1>9 DEF Goto, TypeOK, Req
  <2> QED
    BY <1>0, <1>1, <1>9, <2>1 DEF DeletedRowsGone, Deleting, TypeOK
<1>8. ASSUME NEW r \in Request, CommitUpdate(r) PROVE DeletedRowsGone'
  BY <1>3, <1>8, <1>9 DEF CommitUpdate, Pc
<1>10. ASSUME NEW r \in Request, CommitDelete(r) PROVE DeletedRowsGone'
  BY <1>0, <1>9, <1>10 DEF CommitDelete, TypeOK
<1>11. ASSUME NEW r \in Request, Refresh(r) PROVE DeletedRowsGone'
  <2>1. CASE Goto(r, "idle")
    BY <1>3, <1>11, <2>1 DEF Refresh, Pc
  <2>2. CASE row[req[r].id].live /\ Goto(r, "invserve")
    BY <1>9, <1>11, <2>2 DEF Refresh, At, Deleting, DeletedRowsGone
  <2> QED BY <1>11, <2>1, <2>2 DEF Refresh
<1>12. ASSUME NEW r \in Request, InvalidateServe(r) PROVE DeletedRowsGone'
  BY <1>0, <1>1, <1>9, <1>12 DEF InvalidateServe, At, DeletedRowsGone, Deleting
<1>13. ASSUME NEW r \in Request, InvalidateRecord(r) PROVE DeletedRowsGone'
  <2>1. /\ req'[r].pc = "idle" /\ req'[r].id = req[r].id
        /\ \A q \in Request \ {r} : req'[q] = req[q]
    BY <1>13, GotoFacts DEF InvalidateRecord, Pc
  <2>2. req[r].op = "delete" => ~row[req[r].id].live
    BY <1>13 DEF InvalidateRecord, At, DeletedRowsGone, Deleting
  <2> QED
    BY <1>0, <1>1, <1>13, <2>1, <2>2 DEF InvalidateRecord, DeletedRowsGone, Deleting, TypeOK
<1> QED
  BY <1>4, <1>5, <1>6, <1>7, <1>8, <1>10, <1>11, <1>12, <1>13 DEF Next, Work

\* PRD 0004 as far as it is true: of an asset whose DELETE was answered no row is left,
\* and no live copy either, but for one that a race or a lost invalidation explains.
THEOREM DeletesHold == Spec => []DeleteTakesEffectUnlessRaced
<1>1. Init => DeletedRowsGone
  BY DEF Init, DeletedRowsGone, Deleting
<1>2. Inv /\ DeletedRowsGone /\ [Next]_vars => Inv' /\ DeletedRowsGone'
  BY InvStep, DeletedStep DEF Inv
<1>3. Inv /\ DeletedRowsGone => DeleteTakesEffectUnlessRaced
  BY DEF Inv, TypeOK, StaleHasCause, DeletedRowsGone, DeleteTakesEffectUnlessRaced
<1> QED
  BY <1>1, <1>2, <1>3, InvInit, PTL DEF Spec
=============================================================================
