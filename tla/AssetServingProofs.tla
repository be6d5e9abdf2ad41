-------------------------- MODULE AssetServingProofs --------------------------
(***************************************************************************)
(* What the readers are given, for any uploads and any number of readers.  *)
(* The argument rests on AssetUploadProofs: a row is COMPLETED only once   *)
(* all bytes are there, and bytes that are all there stay as they are.     *)
(***************************************************************************)
EXTENDS AssetServing, AssetUploadProofs

\* What a request has established of the bytes it will send.
Located(r) ==
    /\ reader[r].pc \in {"locate", "open", "send"} /\ reader[r].seen = "completed"
          => object[reader[r].id] = "whole"
    /\ reader[r].pc = "open" => reader[r].id \in Local
    /\ reader[r].pc = "send" /\ (reader[r].seen = "completed" \/ reader[r].id \notin Local)
          => reader[r].size = "whole"
    /\ reader[r].pc # "idle" => reader[r].pc = "lookup" \/ reader[r].seen # "none"

ServingInv ==
    /\ Inv
    /\ ServingTypeOK
    /\ \A r \in Reader : Located(r)
    /\ CompletedIsServedWhole

LEMMA ServingInitInv == ServingInit => ServingInv
<1> SUFFICES ASSUME ServingInit PROVE ServingInv
  OBVIOUS
<1>1. Inv
  BY InvInit DEF ServingInit
<1>2. ServingTypeOK /\ CompletedIsServedWhole
  BY <1>1 DEF ServingInit, ServingTypeOK, CompletedIsServedWhole, Inv
<1>3. \A r \in Reader : Located(r)
  BY DEF ServingInit, Located, Idle
<1> QED
  BY <1>1, <1>2, <1>3 DEF ServingInv

\* Nothing overwrites a whole object.
LEMMA WholeStays ==
  ASSUME Inv, [Next]_vars, NEW a \in Asset, object[a] = "whole"
  PROVE  object'[a] = "whole"
<1> USE DEF Inv, TypeOK, Consistent, BytesAt
<1>1. CASE UNCHANGED vars
  BY <1>1 DEF vars
<1>2. ASSUME NEW b \in Asset, Save(b) \/ SaveEnds(b) PROVE object'[a] = "whole"
  BY <1>2 DEF Save, SaveEnds
<1>3. ASSUME NEW b \in Asset, Work(b) \/ Delete(b) \/ Crash(b), ~Save(b), ~SaveEnds(b)
      PROVE  object' = object
  BY <1>3 DEF Work, Refuse, Create, RefreshCreated, Select, Flush, FlushFails, Refresh,
              StorageFails, GetUrl, Process, Sign, Fetch, Handle, Delete, Crash, Raise
<1> QED
  BY <1>1, <1>2, <1>3 DEF Next

\* An upload, or a delete, takes nothing away from a reader.
LEMMA UploadKeepsServing ==
  ASSUME ServingInv, [Next]_vars, UNCHANGED <<reader, got>>
  PROVE  ServingInv'
<1>1. Inv'
  BY InvStep DEF ServingInv
<1>2. ServingTypeOK' /\ CompletedIsServedWhole'
  BY <1>1 DEF ServingInv, ServingTypeOK, CompletedIsServedWhole, Inv
<1>3. ASSUME NEW r \in Reader PROVE Located(r)'
  <2>1. CASE reader[r] = Idle
    BY <2>1 DEF Located, Idle
  <2>2. CASE reader[r] \in Reading
    <3>1. reader[r].id \in Asset
      BY <2>2 DEF Reading
    <3> QED
      BY <3>1, WholeStays DEF ServingInv, Located
  <2> QED
    BY <2>1, <2>2 DEF ServingInv, ServingTypeOK
<1> QED
  BY <1>1, <1>2, <1>3 DEF ServingInv

LEMMA ServeKeepsServing ==
  ASSUME ServingInv, NEW r \in Reader, Ask(r) \/ Serve(r), UNCHANGED vars
  PROVE  ServingInv'
<1>1. Inv'
  BY InvStep DEF ServingInv
<1>2. /\ reader \in [Reader -> Reading \cup {Idle}]
      /\ got \in [Reader -> Response \cup {Nothing}]
      /\ UNCHANGED <<row, object>>
  BY DEF ServingInv, ServingTypeOK, vars
<1>3. SUFFICES /\ reader' \in [Reader -> Reading \cup {Idle}]
               /\ got' \in [Reader -> Response \cup {Nothing}]
               /\ Located(r)' /\ \A q \in Reader \ {r} : reader'[q] = reader[q]
               /\ CompletedIsServedWhole'
  BY <1>1, <1>2 DEF ServingInv, ServingTypeOK, Located, Inv
<1>4. /\ reader[r].pc # "idle" => reader[r] \in Reading
      /\ Located(r) /\ CompletedIsServedWhole
  BY <1>2 DEF ServingInv, Idle
<1>5. CASE Ask(r)
  <2>1. PICK op \in Endpoint, a \in Asset :
           reader' = [reader EXCEPT ![r] = [op |-> op, id |-> a, pc |-> "lookup",
                                            seen |-> "none", size |-> "none"]]
    BY <1>5 DEF Ask
  <2>2. [op |-> op, id |-> a, pc |-> "lookup", seen |-> "none", size |-> "none"] \in Reading
    BY DEF Reading, Lifecycle!Bytes
  <2> QED
    BY <1>2, <1>4, <1>5, <2>1, <2>2 DEF Ask, Located, CompletedIsServedWhole
<1>6. CASE Lookup(r)
  <2>1. CASE Over(r)
    BY <1>2, <1>4, <1>6, <2>1 DEF Lookup, Over, Located, Idle, CompletedIsServedWhole
  <2>2. CASE ~Over(r)
    <3>1. /\ reader[r] \in Reading /\ reader[r].pc = "lookup" /\ UNCHANGED got /\ MayFind(r)
          /\ reader' = [reader EXCEPT ![r].pc = "locate", ![r].seen = row[reader[r].id]]
      BY <1>4, <1>6, <2>2 DEF Lookup, Reads
    <3>2. row[reader[r].id] \in Live \cup {"deleted"} /\ row[reader[r].id] # "none"
      BY <3>1 DEF MayFind, Live, Lifecycle!Live
    <3>3. row[reader[r].id] = "completed" => object[reader[r].id] = "whole"
      BY <3>1 DEF ServingInv, Inv, CompletedHasBytes, Reading
    <3> QED
      BY <1>2, <1>4, <3>1, <3>2, <3>3 DEF Reading, Located, CompletedIsServedWhole
  <2> QED
    BY <2>1, <2>2
<1>7. CASE LocateFile(r)
  BY <1>2, <1>4, <1>7 DEF LocateFile, Reads, Over, Reading, Located, Idle, CompletedIsServedWhole
<1>8. CASE OpenFile(r)
  <2>1. object[reader[r].id] \in Lifecycle!Bytes
    BY <1>4, <1>8 DEF OpenFile, Reads, Reading, ServingInv, Inv, TypeOK
  <2> QED
    BY <1>2, <1>4, <1>8, <2>1 DEF OpenFile, Reads, Reading, Located, CompletedIsServedWhole
<1>9. CASE OpenObject(r)
  BY <1>2, <1>4, <1>9
     DEF OpenObject, Reads, Over, Reading, Lifecycle!Bytes, Located, Idle, CompletedIsServedWhole
<1>10. CASE Send(r)
  <2>1. /\ reader[r] \in Reading /\ reader[r].pc = "send"
        /\ reader' = [reader EXCEPT ![r] = Idle]
    BY <1>4, <1>10 DEF Send, Reads, Over
  <2>2. reader' \in [Reader -> Reading \cup {Idle}] /\ Located(r)'
        /\ \A q \in Reader \ {r} : reader'[q] = reader[q]
    BY <1>2, <2>1 DEF Located, Idle
  <2>3. CASE UNCHANGED got
    BY <1>2, <1>4, <2>2, <2>3 DEF CompletedIsServedWhole
  <2>4. CASE Receive(r, reader[r].size)
    <3> DEFINE new == [op |-> reader[r].op, id |-> reader[r].id,
                       seen |-> reader[r].seen, body |-> reader[r].size]
    <3>1. new \in Response
      BY <1>4, <2>1 DEF Reading, Response, Located
    <3>2. got' = [got EXCEPT ![r] = new]
      BY <2>4 DEF Receive
    <3>3. new.seen = "completed" \/ new.id \notin Local => new.body = "whole"
      BY <1>4, <2>1 DEF Located
    <3> HIDE DEF new
    <3> QED
      BY <1>2, <1>4, <2>2, <3>1, <3>2, <3>3 DEF CompletedIsServedWhole
  <2> QED
    BY <1>10, <2>3, <2>4 DEF Send
<1> QED
  BY <1>5, <1>6, <1>7, <1>8, <1>9, <1>10 DEF Serve

LEMMA ServingStep ==
  ASSUME ServingInv, [ServingNext]_servingVars PROVE ServingInv'
<1>1. CASE UNCHANGED servingVars
  BY <1>1, UploadKeepsServing DEF servingVars, vars
<1>2. CASE Next /\ UNCHANGED <<reader, got>>
  BY <1>2, UploadKeepsServing
<1>3. CASE \E r \in Reader : (Ask(r) \/ Serve(r)) /\ UNCHANGED vars
  BY <1>3, ServeKeepsServing
<1> QED
  BY <1>1, <1>2, <1>3 DEF ServingNext

LEMMA ServingInvHolds == ServingSpec => []ServingInv
BY ServingInitInv, ServingStep, PTL DEF ServingSpec

\* For any uploads to either backend and any number of readers: what is
\* received whole for an asset that was COMPLETED at the lookup, or that lives
\* in S3, is all of it (serve_asset_via_signed_url and download_asset).
THEOREM ServingSafety == ServingSpec => [](ServingTypeOK /\ CompletedIsServedWhole)
<1>1. ServingInv => ServingTypeOK /\ CompletedIsServedWhole
  BY DEF ServingInv
<1> QED
  BY <1>1, ServingInvHolds, PTL

\* Every variable of the readers keeps its type.
THEOREM ServingTyped == ServingSpec => []ServingTypeOK
BY ServingSafety, PTL

\* A whole response for an asset that was COMPLETED, or that lives in S3, is all of it.
THEOREM WholeIsServed == ServingSpec => []CompletedIsServedWhole
BY ServingSafety, PTL

\* Serve URLs may be cached for good for assets in S3, and for those that were COMPLETED at
\* the lookup: any two responses agree.
THEOREM CopiesStay == ServingSpec => []CopiesAgree
<1>1. CompletedIsServedWhole => CopiesAgree
  BY DEF CompletedIsServedWhole, CopiesAgree
<1> QED
  BY <1>1, ServingSafety, PTL

-----------------------------------------------------------------------------
(* Readers change nothing of the uploads.                                  *)

\* Serving and downloading leave every row, object and answer to upload_asset and deletes.
THEOREM ServingUploads == ServingSpec => Spec
<1>1. ServingInit => Init
  BY DEF ServingInit
<1>2. [ServingNext]_servingVars => [Next]_vars
  BY DEF ServingNext, servingVars, vars
<1> QED
  BY <1>1, <1>2, PTL DEF ServingSpec, Spec

\* Uploads that are read while they run, by any number of readers, implement
\* AssetLifecycle.
THEOREM ServingRefines == ServingSpec => ImplementsLifecycle
BY ServingUploads, Refinement, PTL
=============================================================================
