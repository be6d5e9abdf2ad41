------------------------- MODULE UploadRequestProofs -------------------------
(***************************************************************************)
(* What the two upload endpoints guarantee, for any requests, projects and *)
(* backends.  AssetUploadProofs says what upload_asset leaves behind; what *)
(* is added here is where in the endpoint a request is.                    *)
(***************************************************************************)
EXTENDS UploadRequest, AssetUploadProofs

Permitted == {"url", "download", "save temp", "wrap", "upload"}

\* The one refusal that leaves a row, which upload_asset has marked FAILED.
LeftFailed(a) ==
    outcome[a] = "error" /\ a \in barred /\ a \notin FromUrl /\ status[a] = "400"

\* Before "upload" nothing is recorded; after Custos agreed the domain is known.
Where(a) ==
    /\ at[a] \notin {"upload", "end"} => stage[a] = "create" /\ outcome[a] = "none"
    /\ status[a] \notin {"none", "lost"} => (status[a] = "200" <=> outcome[a] = "ok")
    /\ at[a] = "end" <=> status[a] # "none"
    /\ at[a] \in Permitted => granted[a] = asked[a] /\ asked[a] # "bad"
    /\ at[a] = "authorize" => asked[a] # "bad"
    /\ at[a] \notin {"wrap", "upload", "end"} => ~temp[a]
    /\ a \in barred => a \in Local /\ object[a] = "none" /\ stage[a] \in {"fail", "done"}
    /\ status[a] \in Refusal =>
          ~temp[a] /\ (stage[a] = "create" \/ outcome[a] = "refused" \/ LeftFailed(a))
    /\ temp[a] /\ status[a] \notin {"none", "lost"} => status[a] = "500" /\ stage[a] = "create"
    /\ temp[a] \/ object[a] # "none" \/ row[a] # "absent"
          => granted[a] = asked[a] /\ asked[a] # "bad"
    /\ row[a] # "absent" => owner[a] = asked[a]

RequestInv ==
    /\ Inv
    /\ RequestTypeOK
    /\ \A a \in Asset : Where(a)

LEMMA RequestInitInv == RequestInit => RequestInv
<1> SUFFICES ASSUME RequestInit PROVE RequestInv
  OBVIOUS
<1>1. Inv
  BY InvInit DEF RequestInit
<1>2. RequestTypeOK
  BY <1>1 DEF RequestInit, RequestTypeOK, Inv, Step
<1>3. \A a \in Asset : Where(a)
  BY DEF RequestInit, Init, Where, LeftFailed, Permitted, Refusal
<1> QED
  BY <1>1, <1>2, <1>3 DEF RequestInv

\* The invariant says what the properties promise.
LEMMA RequestInvImplies ==
  RequestInv => /\ RequestTypeOK /\ StoredAsAuthorized /\ RefusedStoresNothing
                /\ TempFileGoes /\ StatusTellsOutcome
<1> SUFFICES ASSUME RequestInv
             PROVE  StoredAsAuthorized /\ RefusedStoresNothing /\ TempFileGoes /\ StatusTellsOutcome
  BY DEF RequestInv
<1>1. StoredAsAuthorized
  <2> SUFFICES ASSUME NEW a \in Asset, temp[a] \/ object[a] # "none" \/ row[a] # "absent"
               PROVE  granted[a] # "none" /\ (row[a] # "absent" => owner[a] = granted[a])
    BY DEF StoredAsAuthorized
  <2>1. asked[a] # "none"
    BY RequestAssumption DEF RequestInv, RequestTypeOK, Domain
  <2> QED
    BY <2>1 DEF RequestInv, Where
<1>2. ASSUME NEW a \in Asset, status[a] \in Refusal
      PROVE  /\ object[a] = "none" /\ ~temp[a]
             /\ \/ row[a] = "absent"
                \/ /\ status[a] = "400" /\ a \in Local \ FromUrl
                   /\ row[a] \in {"failed", "deleted"}
  <2>1. ~temp[a] /\ (stage[a] = "create" \/ outcome[a] = "refused" \/ LeftFailed(a))
    BY <1>2 DEF RequestInv, Where
  <2>2. stage[a] = "create" => row[a] = "absent" /\ object[a] = "none"
    BY DEF RequestInv, Inv, Consistent, RowAt, BytesAt
  <2>3. outcome[a] = "refused" => row[a] = "absent" /\ object[a] = "none"
    BY DEF RequestInv, Inv, AnswerMatchesRow
  <2>4. LeftFailed(a) => /\ status[a] = "400" /\ a \in Local \ FromUrl /\ object[a] = "none"
                         /\ row[a] \in {"failed", "deleted"}
    BY DEF RequestInv, Inv, AnswerMatchesRow, Where, LeftFailed
  <2> QED
    BY <2>1, <2>2, <2>3, <2>4
<1>3. TempFileGoes
  BY DEF RequestInv, Where, TempFileGoes
<1>4. StatusTellsOutcome
  BY DEF RequestInv, Where, Inv, AnswerMatchesRow, StatusTellsOutcome
<1> QED
  BY <1>1, <1>2, <1>3, <1>4 DEF RefusedStoresNothing

-----------------------------------------------------------------------------
\* Nothing happens to the other requests when an endpoint goes on with its own.
OthersAsWere(a) ==
    \A b \in Asset \ {a} : /\ at'[b] = at[b] /\ granted'[b] = granted[b]
                           /\ owner'[b] = owner[b] /\ temp'[b] = temp[b]
                           /\ status'[b] = status[b]

LEMMA OneHandler ==
  ASSUME RequestInv, NEW a \in Asset, UNCHANGED vars, UNCHANGED <<asked, large, barred>>,
         RequestTypeOK', Where(a)', OthersAsWere(a)
  PROVE  RequestInv'
<1>1. Inv'
  BY InvStep DEF RequestInv
<1>2. ASSUME NEW b \in Asset \ {a} PROVE Where(b)'
  BY <1>2 DEF RequestInv, Where, LeftFailed, OthersAsWere, vars
<1> QED
  BY <1>1, <1>2 DEF RequestInv

\* The endpoint passes a check or a download: what the next statement relies on is there.
LEMMA ProceedKeeps ==
  ASSUME RequestInv, NEW a \in Asset, UNCHANGED vars,
         UNCHANGED <<asked, large, barred, granted, owner, temp>>,
         at[a] \notin {"upload", "end"}, NEW s \in Step \ {"end"}, Proceed(a, s),
         s \in Permitted => granted[a] = asked[a] /\ asked[a] # "bad",
         s = "authorize" => asked[a] # "bad",
         s \notin {"wrap", "upload"} => ~temp[a]
  PROVE  RequestInv'
<1>1. RequestTypeOK /\ Where(a) /\ UNCHANGED <<row, object, outcome, stage, phase>>
  BY DEF RequestInv, vars
<1>2. RequestTypeOK'
  BY <1>1, InvStep DEF RequestInv, RequestTypeOK, Inv, Proceed
<1>3. at'[a] = s /\ OthersAsWere(a) /\ UNCHANGED status
  BY <1>1 DEF RequestTypeOK, Proceed, OthersAsWere
<1>4. Where(a)'
  BY <1>1, <1>3 DEF Where, LeftFailed, Permitted
<1> QED
  BY <1>2, <1>3, <1>4, OneHandler

\* The endpoint answers before upload_asset has begun.
LEMMA AnswerKeeps ==
  ASSUME RequestInv, NEW a \in Asset, UNCHANGED vars, UNCHANGED <<asked, large, barred, granted, owner>>,
         at[a] \notin {"upload", "end"}, NEW c \in Refusal \cup {"500"}, Answer(a, c),
         temp' \in [Asset -> BOOLEAN], \A b \in Asset \ {a} : temp'[b] = temp[b],
         temp'[a] => c = "500" /\ granted[a] = asked[a] /\ asked[a] # "bad"
  PROVE  RequestInv'
<1>1. RequestTypeOK /\ Where(a) /\ UNCHANGED <<row, object, outcome, stage, phase>>
  BY DEF RequestInv, vars
<1>2. RequestTypeOK'
  BY <1>1, InvStep DEF RequestInv, RequestTypeOK, Inv, Answer, Step
<1>3. at'[a] = "end" /\ status'[a] = c /\ OthersAsWere(a)
  BY <1>1 DEF RequestTypeOK, Answer, OthersAsWere
<1>4. c \notin {"200", "none", "lost"} /\ stage[a] = "create" /\ outcome[a] = "none"
  BY <1>1 DEF Where, Refusal
<1>5. Where(a)'
  BY <1>1, <1>3, <1>4 DEF Where, LeftFailed, Permitted, Refusal
<1> QED
  BY <1>2, <1>3, <1>5, OneHandler

\* The same with the temporary file left as it is: there is none but at "wrap".
LEMMA RefusalKeeps ==
  ASSUME RequestInv, NEW a \in Asset, UNCHANGED vars,
         UNCHANGED <<asked, large, barred, granted, owner, temp>>,
         at[a] \notin {"wrap", "upload", "end"}, NEW c \in Refusal \cup {"500"}, Answer(a, c)
  PROVE  RequestInv'
<1>1. ~temp[a] /\ temp \in [Asset -> BOOLEAN]
  BY DEF RequestInv, RequestTypeOK, Where
<1> QED
  BY <1>1, AnswerKeeps

\* A statement of an endpoint before or after upload_asset.
LEMMA HandlerStep ==
  ASSUME RequestInv, NEW a \in Asset, Handler(a), UNCHANGED vars, UNCHANGED <<asked, large, barred>>
  PROVE  RequestInv'
<1>1. /\ RequestTypeOK /\ Where(a)
      /\ UNCHANGED <<row, object, outcome, stage, phase>>
  BY DEF RequestInv, vars
<1>2. at[a] \notin {"wrap", "upload", "end"} => ~temp[a]
  BY <1>1 DEF Where
<1>3. at[a] \in Permitted => granted[a] = asked[a] /\ asked[a] # "bad"
  BY <1>1 DEF Where
<1>4. CASE Receive(a)
  <2>1. at[a] = "receive" /\ UNCHANGED <<granted, owner, temp>>
    BY <1>4 DEF Receive
  <2>2. ASSUME NEW s \in {"scope", "labels"}, Proceed(a, s) PROVE RequestInv'
    BY <1>2, <2>1, <2>2, ProceedKeeps DEF Step, Permitted
  <2>3. ASSUME NEW c \in {"413", "401", "422", "500"}, Answer(a, c) PROVE RequestInv'
    BY <2>1, <2>3, RefusalKeeps DEF Refusal
  <2> QED
    BY <1>4, <2>2, <2>3 DEF Receive
<1>5. CASE Labels(a) \/ Prepare(a)
  <2>1. at[a] \in {"labels", "prepare"} /\ UNCHANGED <<granted, owner, temp>>
    BY <1>5 DEF Labels, Prepare
  <2>2. ASSUME NEW s \in {"prepare", "scope"}, Proceed(a, s) PROVE RequestInv'
    BY <1>2, <2>1, <2>2, ProceedKeeps DEF Step, Permitted
  <2>3. ASSUME NEW c \in {"400", "404", "500"}, Answer(a, c) PROVE RequestInv'
    BY <2>1, <2>3, RefusalKeeps DEF Refusal
  <2> QED
    BY <1>5, <2>2, <2>3 DEF Labels, Prepare
<1>6. CASE Scope(a)
  <2>1. at[a] = "scope" /\ UNCHANGED <<granted, owner, temp>>
    BY <1>6 DEF Scope
  <2>2. CASE asked[a] # "bad" /\ Proceed(a, "authorize")
    BY <1>2, <2>1, <2>2, ProceedKeeps DEF Step, Permitted
  <2>3. CASE Answer(a, "400")
    BY <2>1, <2>3, RefusalKeeps DEF Refusal
  <2> QED
    BY <1>6, <2>2, <2>3 DEF Scope
<1>7. CASE Authorize(a)
  <2>1. at[a] = "authorize" /\ UNCHANGED <<owner, temp>> /\ asked[a] # "bad" /\ ~temp[a]
    BY <1>1, <1>2, <1>7 DEF Authorize, Where
  <2>2. ASSUME NEW s \in {"url", "upload"}, Proceed(a, s),
               granted' = [granted EXCEPT ![a] = asked[a]]
        PROVE  RequestInv'
    <3>1. RequestTypeOK'
      BY <1>1, <2>1, <2>2, InvStep DEF RequestInv, RequestTypeOK, Inv, Proceed, Step
    <3>2. /\ at'[a] = s /\ granted'[a] = asked[a] /\ status'[a] = status[a]
          /\ OthersAsWere(a)
      BY <1>1, <2>1, <2>2 DEF RequestTypeOK, Proceed, OthersAsWere
    <3>3. Where(a)'
      BY <1>1, <2>1, <2>2, <3>2 DEF Where, LeftFailed, Permitted
    <3> QED
      BY <3>1, <3>2, <3>3, OneHandler
  <2>3. ASSUME NEW c \in {"500", "503", "403"}, Answer(a, c), UNCHANGED granted
        PROVE  RequestInv'
    BY <2>1, <2>3, RefusalKeeps DEF Refusal
  <2> QED
    BY <1>7, <2>2, <2>3 DEF Authorize
<1>8. CASE CheckUrl(a) \/ Download(a)
  <2>1. at[a] \in {"url", "download"} /\ UNCHANGED <<granted, owner, temp>>
    BY <1>8 DEF CheckUrl, Download
  <2>2. ASSUME NEW s \in {"download", "save temp"}, Proceed(a, s) PROVE RequestInv'
    <3>1. granted[a] = asked[a] /\ asked[a] # "bad"
      BY <1>3, <2>1 DEF Permitted
    <3> QED
      BY <1>2, <2>1, <2>2, <3>1, ProceedKeeps DEF Step
  <2>3. ASSUME NEW c \in {"400", "500"}, Answer(a, c) PROVE RequestInv'
    BY <2>1, <2>3, RefusalKeeps DEF Refusal
  <2> QED
    BY <1>8, <2>2, <2>3 DEF CheckUrl, Download
<1>9. CASE SaveTemp(a)
  <2>1. /\ at[a] = "save temp" /\ UNCHANGED <<granted, owner>>
        /\ granted[a] = asked[a] /\ asked[a] # "bad"
    BY <1>3, <1>9 DEF SaveTemp, Permitted
  <2>2. /\ temp' \in [Asset -> BOOLEAN]
        /\ \A b \in Asset \ {a} : temp'[b] = temp[b]
    BY <1>1, <1>9 DEF SaveTemp, RequestTypeOK
  <2>3. CASE Answer(a, "500")
    BY <2>1, <2>2, <2>3, AnswerKeeps
  <2>4. CASE Proceed(a, "wrap")
    <3>1. RequestTypeOK'
      BY <1>1, <2>1, <2>2, <2>4, InvStep DEF RequestInv, RequestTypeOK, Inv, Proceed, Step
    <3>2. at'[a] = "wrap" /\ status'[a] = status[a] /\ OthersAsWere(a)
      BY <1>1, <2>1, <2>2, <2>4 DEF RequestTypeOK, Proceed, OthersAsWere
    <3>3. Where(a)'
      BY <1>1, <2>1, <3>2 DEF Where, LeftFailed, Permitted, Refusal
    <3> QED
      BY <3>1, <3>2, <3>3, OneHandler
  <2> QED
    BY <1>9, <2>3, <2>4 DEF SaveTemp
<1>10. CASE Wrap(a)
  <2>1. /\ at[a] = "wrap" /\ UNCHANGED <<granted, owner>>
        /\ granted[a] = asked[a] /\ asked[a] # "bad"
    BY <1>3, <1>10 DEF Wrap, Permitted
  <2>2. CASE Proceed(a, "upload") /\ UNCHANGED temp
    BY <2>1, <2>2, ProceedKeeps DEF Step
  <2>3. CASE Answer(a, "500") /\ Unlink(a)
    <3>1. /\ temp' \in [Asset -> BOOLEAN]
          /\ \A b \in Asset \ {a} : temp'[b] = temp[b]
      BY <1>1, <2>3 DEF Unlink, RequestTypeOK
    <3> QED
      BY <2>1, <2>3, <3>1, AnswerKeeps
  <2> QED
    BY <1>10, <2>2, <2>3 DEF Wrap
<1>11. CASE Reply(a)
  <2>1. /\ at[a] = "upload" /\ stage[a] = "done" /\ UNCHANGED <<granted, owner>>
        /\ Answer(a, StatusOf(a)) /\ Unlink(a)
    BY <1>11 DEF Reply
  <2>2. /\ StatusOf(a) \in {"200", "400", "413", "500"}
        /\ StatusOf(a) = "200" <=> outcome[a] = "ok"
        /\ StatusOf(a) = "413" => outcome[a] = "refused"
        /\ StatusOf(a) = "400" => outcome[a] = "error" /\ a \in barred /\ a \notin FromUrl
    BY DEF StatusOf
  <2>3. RequestTypeOK'
    BY <1>1, <2>1, <2>2, InvStep
    DEF RequestInv, RequestTypeOK, Inv, Answer, Unlink, Step, Refusal
  <2>4. at'[a] = "end" /\ status'[a] = StatusOf(a) /\ ~temp'[a] /\ OthersAsWere(a)
    BY <1>1, <2>1 DEF RequestTypeOK, Answer, Unlink, OthersAsWere
  <2>5. Where(a)'
    BY <1>1, <2>1, <2>2, <2>4 DEF Where, LeftFailed, Permitted, Refusal
  <2> QED
    BY <2>3, <2>4, <2>5, OneHandler
<1> QED
  BY <1>4, <1>5, <1>6, <1>7, <1>8, <1>9, <1>10, <1>11 DEF Handler

\* The steps of one upload leave the others alone.
LEMMA UploadLocal ==
  ASSUME Inv, NEW a \in Asset, Work(a) \/ Delete(a) \/ Crash(a), NEW b \in Asset \ {a}
  PROVE  /\ row'[b] = row[b] /\ object'[b] = object[b]
         /\ stage'[b] = stage[b] /\ outcome'[b] = outcome[b]
<1> USE DEF Inv, TypeOK, GoTo, Finish, Raise
<1>1. CASE Refuse(a) \/ Create(a) \/ RefreshCreated(a) \/ Fetch(a) \/ Handle(a)
  BY <1>1 DEF Refuse, Create, RefreshCreated, Fetch, Handle
<1>2. CASE Select(a) \/ Flush(a) \/ FlushFails(a) \/ Refresh(a)
  BY <1>2 DEF Select, Flush, FlushFails, Refresh, Return, CommandRaises
<1>3. CASE Save(a) \/ SaveEnds(a) \/ StorageFails(a) \/ GetUrl(a) \/ Process(a) \/ Sign(a)
  BY <1>3 DEF Save, SaveEnds, StorageFails, GetUrl, Process, Sign
<1>4. CASE Delete(a) \/ Crash(a)
  BY <1>4 DEF Delete, Crash
<1> QED
  BY <1>1, <1>2, <1>3, <1>4 DEF Work

\* What a step of upload_asset, of a delete, or the worker's death changes.
LEMMA OthersStay ==
  ASSUME RequestInv, NEW a \in Asset, Work(a) \/ Delete(a) \/ Crash(a),
         UNCHANGED <<asked, large>>, NEW b \in Asset \ {a}, b \in barred' <=> b \in barred,
         at'[b] = at[b], granted'[b] = granted[b], owner'[b] = owner[b],
         temp'[b] = temp[b], status'[b] = status[b]
  PROVE  Where(b)'
<1>1. /\ row'[b] = row[b] /\ object'[b] = object[b]
      /\ stage'[b] = stage[b] /\ outcome'[b] = outcome[b]
  BY UploadLocal DEF RequestInv
<1> QED
  BY <1>1 DEF RequestInv, Where, LeftFailed

\* Of a save that was refused only the failure is still to be recorded.
LEMMA BarredStays ==
  ASSUME Inv, NEW a \in Asset, Work(a), object[a] = "none", stage[a] \in {"fail", "done"}
  PROVE  object'[a] = "none" /\ stage'[a] \in {"fail", "done"}
<1> USE DEF Inv, TypeOK, GoTo, Finish, Raise, Return, CommandRaises
<1>1. CASE Select(a) \/ Flush(a) \/ FlushFails(a) \/ Refresh(a)
  BY <1>1 DEF Select, Flush, FlushFails, Refresh, Updating
<1>2. CASE ~(Select(a) \/ Flush(a) \/ FlushFails(a) \/ Refresh(a))
  BY <1>2 DEF Work, Refuse, Create, RefreshCreated, Fetch, Handle, Save, SaveEnds, StorageFails,
              GetUrl, Process, Sign
<1> QED
  BY <1>1, <1>2

LEMMA UploadStep ==
  ASSUME RequestInv, NEW a \in Asset, Upload(a), UNCHANGED <<asked, large>>
  PROVE  RequestInv'
<1>1. Inv'
  BY InvStep DEF RequestInv, Upload, Next
<1>2. at[a] = "upload" /\ UNCHANGED <<at, granted, temp, status>> /\ Work(a)
  BY DEF Upload
<1>3. RequestTypeOK /\ Where(a) /\ asked[a] \in Domain
  BY <1>2 DEF RequestInv, RequestTypeOK, Where, LeftFailed, Permitted
<1>4. RequestTypeOK'
  BY <1>1, <1>2, <1>3 DEF RequestTypeOK, Inv, Upload, ProjectArg
<1>5. a \in barred' => a \in Local /\ object'[a] = "none" /\ stage'[a] \in {"fail", "done"}
  <2>1. CASE BackendRefuses(a)
    BY <2>1 DEF RequestInv, Inv, TypeOK, Consistent, BytesAt, BackendRefuses, StorageFails, Raise, GoTo
  <2>2. CASE UNCHANGED barred /\ a \in barred
    BY <1>2, <1>3, <2>2, BarredStays DEF RequestInv, Where
  <2> QED
    BY <2>1, <2>2 DEF Upload
<1>6. Where(a)'
  BY <1>2, <1>3, <1>5 DEF RequestTypeOK, Where, LeftFailed, Permitted, Refusal, Upload, ProjectArg
<1>7. ASSUME NEW b \in Asset \ {a} PROVE Where(b)'
  <2>1. owner'[b] = owner[b] /\ (b \in barred' <=> b \in barred)
    BY <1>3 DEF RequestTypeOK, Upload
  <2> QED
    BY <1>2, <2>1, OthersStay
<1> QED
  BY <1>1, <1>4, <1>6, <1>7 DEF RequestInv

LEMMA DieStep ==
  ASSUME RequestInv, NEW a \in Asset, Die(a), UNCHANGED <<asked, large, barred>>
  PROVE  RequestInv'
<1>1. Inv'
  <2>1. [Next]_vars
    BY DEF Die, Next
  <2> QED
    BY <2>1, InvStep DEF RequestInv
<1>2. RequestTypeOK /\ Where(a) /\ Answer(a, "lost") /\ UNCHANGED <<granted, owner, temp>>
  BY DEF RequestInv, Die
<1>3. RequestTypeOK'
  BY <1>1, <1>2 DEF RequestTypeOK, Answer, Inv, Step
<1>4. UNCHANGED <<row, object>> /\ stage'[a] = "done"
  BY DEF RequestInv, Inv, TypeOK, Die, Crash, Finish, GoTo, vars
<1>5. Where(a)'
  BY <1>2, <1>4 DEF RequestTypeOK, Answer, Where, LeftFailed, Permitted, Refusal
<1>6. ASSUME NEW b \in Asset \ {a} PROVE Where(b)'
  <2>1. at'[b] = at[b] /\ status'[b] = status[b]
    BY <1>2 DEF RequestTypeOK, Answer
  <2>2. CASE Crash(a)
    BY <1>2, <2>1, <2>2, OthersStay
  <2>3. CASE UNCHANGED vars
    BY <1>2, <2>1, <2>3 DEF RequestInv, Where, LeftFailed, vars
  <2> QED
    BY <2>2, <2>3 DEF Die
<1> QED
  BY <1>1, <1>3, <1>5, <1>6 DEF RequestInv

LEMMA DeleteStep ==
  ASSUME RequestInv, NEW a \in Asset, Delete(a),
         UNCHANGED <<asked, large, barred, at, granted, owner, temp, status>>
  PROVE  RequestInv'
<1>1. Inv'
  BY InvStep DEF RequestInv, Next
<1>2. RequestTypeOK'
  BY <1>1 DEF RequestInv, RequestTypeOK, Inv
<1>3. Where(a)'
  <2>1. row[a] # "absent" /\ UNCHANGED <<object, outcome, stage>>
    BY DEF Delete, Live, Lifecycle!Live
  <2> QED
    BY <2>1 DEF RequestInv, Where, LeftFailed
<1>4. ASSUME NEW b \in Asset \ {a} PROVE Where(b)'
  BY OthersStay
<1> QED
  BY <1>1, <1>2, <1>3, <1>4 DEF RequestInv

LEMMA RequestStep ==
  ASSUME RequestInv, [RequestNext]_requestVars PROVE RequestInv'
<1>1. CASE UNCHANGED requestVars
  <2>1. Inv'
    BY <1>1, InvStep DEF RequestInv, requestVars, vars
  <2> QED
    BY <1>1, <2>1 DEF requestVars, RequestInv, RequestTypeOK, Inv, Where, LeftFailed
<1>2. CASE RequestNext
  BY <1>2, HandlerStep, UploadStep, DieStep, DeleteStep DEF RequestNext
<1> QED
  BY <1>1, <1>2

LEMMA RequestInvHolds == RequestSpec => []RequestInv
BY RequestInitInv, RequestStep, PTL DEF RequestSpec

\* For any requests to either endpoint, any projects and backends: nothing is
\* fetched or stored before Custos agreed and a row belongs to the project it
\* agreed to; a refusal has stored nothing; temporary files do not outlive requests.
THEOREM RequestSafety ==
  RequestSpec => [](RequestTypeOK /\ StoredAsAuthorized /\ RefusedStoresNothing /\ TempFileGoes)
BY RequestInvHolds, RequestInvImplies, PTL

\* A request to either endpoint that is refused has stored nothing, and recorded nothing
\* but the failure of a form upload that the local backend refused.
THEOREM RefusalsAreClean == RequestSpec => []RefusedStoresNothing
BY RequestSafety, PTL

\* The temporary file of an upload from a URL does not outlive its request.
THEOREM TempFilesEnd == RequestSpec => []TempFileGoes
BY RequestSafety, PTL

\* Every variable of the endpoints keeps its type, whatever is asked and fails.
THEOREM RequestTyped == RequestSpec => []RequestTypeOK
BY RequestSafety, PTL

\* 200 from either endpoint is a whole object and a COMPLETED row; any other answer is
\* no success of upload_asset.
THEOREM StatusIsTrue == RequestSpec => []StatusTellsOutcome
BY RequestInvHolds, RequestInvImplies, PTL

-----------------------------------------------------------------------------
(* The endpoints around upload_asset take nothing away from what it promises. *)

LEMMA RequestStepUploads == ASSUME [RequestNext]_requestVars PROVE [Next]_vars
<1>1. CASE UNCHANGED requestVars
  BY <1>1 DEF requestVars, vars
<1>2. ASSUME NEW a \in Asset, Upload(a) \/ Die(a) \/ Delete(a) PROVE [Next]_vars
  BY <1>2 DEF Upload, Die, Next
<1> QED
  BY <1>1, <1>2 DEF RequestNext

\* What the endpoints do to the row, the bytes and the answer of upload_asset is what
\* upload_asset alone may do.
THEOREM RequestUploads == RequestSpec => Spec
<1>1. RequestInit => Init
  BY DEF RequestInit
<1> QED
  BY <1>1, RequestStepUploads, PTL DEF RequestSpec, Spec

\* The two endpoints, with refusals before Custos, downloads, temporary files and workers
\* that die anywhere, implement AssetLifecycle.
THEOREM RequestRefines == RequestSpec => ImplementsLifecycle
BY RequestUploads, Refinement, PTL

\* What AssetUpload promises of an answer and of a COMPLETED row holds of requests to
\* either endpoint.
THEOREM RequestKeepsPromises == RequestSpec => [](AnswerMatchesRow /\ CompletedHasBytes)
BY RequestUploads, Safety, PTL
=============================================================================
