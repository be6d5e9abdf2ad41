---------------------------- MODULE AssetServing ----------------------------
(***************************************************************************)
(* The two endpoints that hand out bytes, GET /assets/serve/{payload} and  *)
(* GET /assets/download/{token}, while uploads and deletes go on: requests *)
(* whose signature has been verified look the asset up, find its file or   *)
(* open it at S3, and send it.  Neither looks at asset.state.              *)
(***************************************************************************)
EXTENDS AssetUpload

CONSTANT Reader               \* requests for bytes in flight at once

VARIABLES
    reader,                   \* reader[r]: where request r is
    got                       \* got[r]: the last response that client received whole

servingVars == <<row, object, outcome, stage, phase, reader, got>>

\* seen: the row when the request looked it up.  size: the bytes there were
\* when the response announced its length.
Endpoint == {"serve", "download"}
Reading  == [op : Endpoint, id : Asset, pc : {"lookup", "locate", "open", "send"},
             seen : Live \cup {"none", "deleted"}, size : Lifecycle!Bytes]
Idle     == [pc |-> "idle"]

\* A full response: every one of "serve" says public, immutable, for a year.
Response == [op : Endpoint, id : Asset, seen : Live \cup {"deleted"}, body : Lifecycle!Bytes]
Nothing  == [body |-> "nothing"]

ServingTypeOK ==
    /\ TypeOK
    /\ reader \in [Reader -> Reading \cup {Idle}]
    /\ got \in [Reader -> Response \cup {Nothing}]

ServingInit ==
    /\ Init
    /\ reader = [r \in Reader |-> Idle]
    /\ got = [r \in Reader |-> Nothing]

-----------------------------------------------------------------------------
Reads(r, pc) == reader[r].pc = pc

\* The response is over, whatever its status.
Over(r) == reader' = [reader EXCEPT ![r] = Idle]

\* The client has received the whole of a body.
Receive(r, body) ==
    got' = [got EXCEPT ![r] = [op |-> reader[r].op, id |-> reader[r].id,
                               seen |-> reader[r].seen, body |-> body]]

\* A request with a valid signature for any id: signing needs no row.  Without
\* local storage a download is answered 400 before anything else.
Ask(r) ==
    /\ Reads(r, "idle")
    /\ \E op \in Endpoint, a \in Asset :
          /\ op = "download" => a \in Local
          /\ reader' = [reader EXCEPT ![r] = [op |-> op, id |-> a, pc |-> "lookup",
                                              seen |-> "none", size |-> "none"]]
    /\ UNCHANGED got

\* What the lookup may find.  A download reads the row; serve reads it through
\* the cache, which may remember a deleted row but never misses one that is
\* there (NotFoundIsTrue of AssetCache).
MayFind(r) ==
    LET s == row[reader[r].id] IN
    s \in Live \/ (s = "deleted" /\ reader[r].op = "serve")

\* Mutant of Lookup: metadata that is None is not answered 404.
LookupUnchecked(r) ==
    /\ Reads(r, "lookup")
    /\ reader' = [reader EXCEPT ![r].pc = "locate", ![r].seen = row[reader[r].id]]
    /\ UNCHANGED got

\* 404 for an asset that is not found, 500 if the database fails.
Lookup(r) ==
    /\ Reads(r, "lookup")
    /\ \/ /\ MayFind(r)
          /\ reader' = [reader EXCEPT ![r].pc = "locate", ![r].seen = row[reader[r].id]]
       \/ Over(r)
    /\ UNCHANGED got

\* Local: 404 unless the file exists; the ETag is made from its size now.
LocateFile(r) ==
    /\ Reads(r, "locate") /\ reader[r].id \in Local
    /\ \/ object[reader[r].id] # "none" /\ reader' = [reader EXCEPT ![r].pc = "open"]
       \/ object[reader[r].id] = "none" /\ Over(r)
    /\ UNCHANGED got

\* Local: FileResponse takes the Content-Length from the file as it is now.
OpenFile(r) ==
    /\ Reads(r, "open")
    /\ reader' = [reader EXCEPT ![r].pc = "send", ![r].size = object[reader[r].id]]
    /\ UNCHANGED got

\* Mutant of OpenObject: whatever S3 answers is passed on.
OpenObjectUnchecked(r) ==
    /\ Reads(r, "locate") /\ reader[r].id \notin Local
    /\ reader' = [reader EXCEPT ![r].pc = "send", ![r].size = object[reader[r].id]]
    /\ UNCHANGED got

\* S3: presign, and open the upstream response before committing to a 200.
\* Anything but 200 becomes 404 or 502, an exception 500.
OpenObject(r) ==
    /\ Reads(r, "locate") /\ reader[r].id \notin Local
    /\ \/ /\ object[reader[r].id] = "whole"
          /\ reader' = [reader EXCEPT ![r].pc = "send", ![r].size = "whole"]
       \/ Over(r)
    /\ UNCHANGED got

\* The body.  The client takes it for complete if it has the announced length:
\* it does not if a file grew meanwhile, if S3 stops early or the client goes.
Send(r) ==
    /\ Reads(r, "send")
    /\ \/ object[reader[r].id] = reader[r].size /\ Receive(r, reader[r].size)
       \/ UNCHANGED got
    /\ Over(r)

Serve(r) ==
    \/ Lookup(r) \/ LocateFile(r) \/ OpenFile(r) \/ OpenObject(r) \/ Send(r)

ServingNext ==
    \/ Next /\ UNCHANGED <<reader, got>>
    \/ \E r \in Reader : (Ask(r) \/ Serve(r)) /\ UNCHANGED vars

ServingSpec == ServingInit /\ [][ServingNext]_servingVars

-----------------------------------------------------------------------------
(* Properties.                                                             *)

\* A client that receives a whole response for an asset that was COMPLETED
\* when the request looked it up, or that lives in S3, has all its bytes,
\* whatever the upload, deletes and failures did between lookup and body.
CompletedIsServedWhole ==
    \A r \in Reader :
        got[r] # Nothing /\ (got[r].seen = "completed" \/ got[r].id \notin Local)
            => got[r].body = "whole"

\* "Asset bytes never change for a given id, so serve URLs can be cached by
\* clients/proxies/CDNs for good": what clients keep of an asset agrees.
Keeps(r, a) ==
    got[r] # Nothing /\ got[r].op = "serve" /\ got[r].id = a /\ got[r].seen \in Live
ServedBytesNeverChange ==
    \A q, r \in Reader, a \in Asset : Keeps(q, a) /\ Keeps(r, a) => got[q].body = got[r].body

\* What holds of it: the copies of an asset that lives in S3 agree, and so do those of one
\* that was COMPLETED when it was looked up.
CopiesAgree ==
    \A q, r \in Reader, a \in Asset :
        /\ got[q] # Nothing /\ got[q].id = a /\ (a \notin Local \/ got[q].seen = "completed")
        /\ got[r] # Nothing /\ got[r].id = a /\ (a \notin Local \/ got[r].seen = "completed")
        => got[q].body = got[r].body
=============================================================================
