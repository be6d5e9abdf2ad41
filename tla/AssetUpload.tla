---------------------------- MODULE AssetUpload ----------------------------
(***************************************************************************)
(* The upload request: upload_asset of app/services/asset_upload.py with   *)
(* the asset commands, the repository and the storage backend it calls,    *)
(* against DELETE /assets/{id} of another request, failing database and    *)
(* storage calls, and the death of the worker.  Each asset id is made by   *)
(* one upload request, so the request is named by its asset.               *)
(*                                                                         *)
(* The session runs at READ COMMITTED and an update command is three       *)
(* visible steps (SELECT; UPDATE and COMMIT; refresh): another request may *)
(* delete the row between any two of them.                                 *)
(***************************************************************************)
CONSTANTS
    Asset,                    \* asset ids
    Local                     \* those uploaded where STORAGE_BACKEND is local;
                              \* the others go to S3

ASSUME LocalAssumption == Local \subseteq Asset

VARIABLES
    row,                      \* row[a]: asset.state, "absent" or "deleted"
    object,                   \* object[a]: the bytes in the storage backend
    outcome,                  \* outcome[a]: the answer of the request
    stage,                    \* stage[a]: the statement the request is at
    phase                     \* phase[a]: where it is inside update_asset

vars == <<row, object, outcome, stage, phase>>

Lifecycle == INSTANCE AssetLifecycle
    WITH Asset <- Asset, row <- row, object <- object, outcome <- outcome

Live == Lifecycle!Live

\* The statements of upload_asset; "handle" and "fail" are its except block.
Updating == {"mark", "enrich", "complete", "fail"}
Stage    == Updating \cup {"create", "created", "save", "saving", "url",
                           "process", "sign", "fetch", "handle", "done"}
Phase    == {"select", "flush", "refresh"}

TypeOK ==
    /\ row \in [Asset -> Lifecycle!RowState]
    /\ object \in [Asset -> Lifecycle!Bytes]
    /\ outcome \in [Asset -> Lifecycle!Outcome]
    /\ stage \in [Asset -> Stage]
    /\ phase \in [Asset -> Phase]

Init ==
    /\ row = [a \in Asset |-> "absent"]
    /\ object = [a \in Asset |-> "none"]
    /\ outcome = [a \in Asset |-> "none"]
    /\ stage = [a \in Asset |-> "create"]
    /\ phase = [a \in Asset |-> "select"]

-----------------------------------------------------------------------------
GoTo(a, s) == stage' = [stage EXCEPT ![a] = s]

\* The request is over and the client has answer o.
Finish(a, o) ==
    /\ GoTo(a, "done")
    /\ phase' = [phase EXCEPT ![a] = "select"]
    /\ outcome' = [outcome EXCEPT ![a] = o]

\* A statement of the try block that raises outside an update command: the
\* session is untouched, so asset.id is readable and the handler goes on.
Raise(a) ==
    /\ GoTo(a, "fail")
    /\ UNCHANGED <<row, object, outcome, phase>>

-----------------------------------------------------------------------------
(* Before the try block.                                                   *)

\* _validate_file_size answers 413, or CreateAssetCommand fails: no row.
Refuse(a) ==
    /\ stage[a] = "create"
    /\ Finish(a, "refused")
    /\ UNCHANGED <<row, object>>

\* INSERT and COMMIT of create_asset.
Create(a) ==
    /\ stage[a] = "create"
    /\ row' = [row EXCEPT ![a] = "pending"]
    /\ GoTo(a, "created")
    /\ UNCHANGED <<object, outcome, phase>>

\* refresh of create_asset; it fails if the row is gone or the database is.
RefreshCreated(a) ==
    /\ stage[a] = "created"
    /\ \/ row[a] \in Live /\ GoTo(a, "mark") /\ UNCHANGED <<outcome, phase>>
       \/ Finish(a, "unrecorded")
    /\ UNCHANGED <<row, object>>

-----------------------------------------------------------------------------
(* UpdateAssetCommand: the four updates of the upload share these steps.   *)

\* Mutant of Written: the handler writes a state the enumeration lacks.
WrittenUnlisted(s, r) ==
    CASE s = "mark"     -> "uploading"
      [] s = "complete" -> "completed"
      [] s = "fail"     -> "error"
      [] OTHER          -> r

\* The state an update writes into a row that holds r.
Written(s, r) ==
    CASE s = "mark"     -> "uploading"
      [] s = "complete" -> "completed"
      [] s = "fail"     -> "failed"
      [] OTHER          -> r

\* Mutant of After: the bytes are never handed to the storage backend.
AfterSkipsSave(s) ==
    CASE s = "mark"     -> "url"
      [] s = "enrich"   -> "sign"
      [] s = "complete" -> "fetch"
      [] OTHER          -> "done"

\* The statement after an update.
After(s) ==
    CASE s = "mark"     -> "save"
      [] s = "enrich"   -> "sign"
      [] s = "complete" -> "fetch"
      [] OTHER          -> "done"

\* The command returned, with the row or with None.
Return(a) ==
    \/ stage[a] = "fail" /\ Finish(a, "error")
    \/ /\ stage[a] # "fail"
       /\ GoTo(a, After(stage[a]))
       /\ phase' = [phase EXCEPT ![a] = "select"]
       /\ UNCHANGED outcome

\* Mutant of CommandRaises: the handler swallows the failure of its own update
\* and answers as if it had been recorded.
CommandRaisesUnseen(a) ==
    \/ stage[a] = "fail" /\ Finish(a, "error")
    \/ /\ stage[a] # "fail"
       /\ GoTo(a, "handle")
       /\ phase' = [phase EXCEPT ![a] = "select"]
       /\ UNCHANGED outcome

\* The command rolled back, which expires asset, and raised.  In the handler
\* nothing catches it: the row keeps the state it has.
CommandRaises(a) ==
    \/ stage[a] = "fail" /\ Finish(a, "unrecorded")
    \/ /\ stage[a] # "fail"
       /\ GoTo(a, "handle")
       /\ phase' = [phase EXCEPT ![a] = "select"]
       /\ UNCHANGED outcome

\* SELECT: a row that is gone makes update_asset return None, not raise.
Select(a) ==
    /\ stage[a] \in Updating /\ phase[a] = "select"
    /\ \/ /\ row[a] \in Live
          /\ phase' = [phase EXCEPT ![a] = "flush"]
          /\ UNCHANGED <<stage, outcome>>
       \/ row[a] \notin Live /\ Return(a)
       \/ CommandRaises(a)
    /\ UNCHANGED <<row, object>>

\* Mutant of Flush: an upsert, which brings a deleted row back.
FlushUpserts(a) ==
    /\ stage[a] \in Updating /\ phase[a] = "flush"
    /\ row' = [row EXCEPT ![a] = Written(stage[a], row[a])]
    /\ phase' = [phase EXCEPT ![a] = "refresh"]
    /\ UNCHANGED <<object, outcome, stage>>

\* UPDATE and COMMIT.  A row deleted since the SELECT matches nothing and
\* raises StaleDataError.
Flush(a) ==
    /\ stage[a] \in Updating /\ phase[a] = "flush"
    /\ row[a] \in Live
    /\ row' = [row EXCEPT ![a] = Written(stage[a], row[a])]
    /\ phase' = [phase EXCEPT ![a] = "refresh"]
    /\ UNCHANGED <<object, outcome, stage>>

FlushFails(a) ==
    /\ stage[a] \in Updating /\ phase[a] = "flush"
    /\ CommandRaises(a)
    /\ UNCHANGED <<row, object>>

\* refresh: raises if the row is gone or the database is, after the COMMIT.
\* A COMMIT that took effect but was not acknowledged ends the same way.
Refresh(a) ==
    /\ stage[a] \in Updating /\ phase[a] = "refresh"
    /\ \/ row[a] \in Live /\ Return(a)
       \/ CommandRaises(a)
    /\ UNCHANGED <<row, object>>

-----------------------------------------------------------------------------
(* The try block between the updates.                                      *)

\* S3 stores the object whole or not at all; local opens the file and copies.
Save(a) ==
    /\ stage[a] = "save"
    /\ \/ /\ a \notin Local
          /\ object' = [object EXCEPT ![a] = "whole"]
          /\ stage' \in {[stage EXCEPT ![a] = "url"], [stage EXCEPT ![a] = "fail"]}
       \/ /\ a \in Local
          /\ object' = [object EXCEPT ![a] = "partial"]
          /\ GoTo(a, "saving")
    /\ UNCHANGED <<row, outcome, phase>>

\* Mutant of SaveEnds: a copy that stopped short passes for a finished one.
SaveEndsShort(a) ==
    /\ stage[a] = "saving"
    /\ GoTo(a, "url")
    /\ UNCHANGED <<row, object, outcome, phase>>

\* End of shutil.copyfileobj.
SaveEnds(a) ==
    /\ stage[a] = "saving"
    /\ object' = [object EXCEPT ![a] = "whole"]
    /\ GoTo(a, "url")
    /\ UNCHANGED <<row, outcome, phase>>

\* Mutant of StorageFails: a failed save is retried, however often it fails.
StorageFailsRetries(a) ==
    /\ stage[a] \in {"save", "saving", "url"}
    /\ GoTo(a, "save")
    /\ UNCHANGED <<row, object, outcome, phase>>

\* Reading the upload, saving it or making its URL raises.  What was written
\* stays: the storage backend's delete is never called.
StorageFails(a) == stage[a] \in {"save", "saving", "url"} /\ Raise(a)

GetUrl(a) ==
    /\ stage[a] = "url"
    /\ GoTo(a, "process")
    /\ UNCHANGED <<row, object, outcome, phase>>

\* Processors swallow their own exceptions, so the loop ends with updates to
\* write or with none; AssetUpdate(**updates) may reject what they returned.
Process(a) ==
    /\ stage[a] = "process"
    /\ \/ GoTo(a, "enrich") /\ UNCHANGED <<row, object, outcome, phase>>
       \/ GoTo(a, "sign") /\ UNCHANGED <<row, object, outcome, phase>>
       \/ Raise(a)

\* The serve URL: derive_secret and sign_serve_url, or the storage URL.
Sign(a) ==
    /\ stage[a] = "sign"
    /\ \/ GoTo(a, "complete") /\ UNCHANGED <<row, object, outcome, phase>>
       \/ Raise(a)

\* get_asset.  A row that is gone rebinds asset to None, and then neither the
\* response nor the handler can read asset.id; a SELECT that fails leaves the
\* session in a failed transaction, which the handler's update then meets.
Fetch(a) ==
    /\ stage[a] = "fetch"
    /\ \/ row[a] \in Live /\ Finish(a, "ok")
       \/ Finish(a, "unrecorded")
    /\ UNCHANGED <<row, object>>

\* The except block after a rollback: asset.id is reloaded, and raises if the
\* row or the database is gone.
Handle(a) ==
    /\ stage[a] = "handle"
    /\ \/ row[a] \in Live /\ GoTo(a, "fail") /\ UNCHANGED <<outcome, phase>>
       \/ Finish(a, "unrecorded")
    /\ UNCHANGED <<row, object>>

-----------------------------------------------------------------------------
(* The environment.                                                        *)

\* DeleteAssetCommand of another request: the row goes, the object stays.
Delete(a) ==
    /\ row[a] \in Live
    /\ row' = [row EXCEPT ![a] = "deleted"]
    /\ UNCHANGED <<object, outcome, stage, phase>>

\* The worker dies; nothing later looks for requests it left behind.
Crash(a) ==
    /\ stage[a] # "done"
    /\ Finish(a, "crash")
    /\ UNCHANGED <<row, object>>

Work(a) ==
    \/ Refuse(a) \/ Create(a) \/ RefreshCreated(a)
    \/ Select(a) \/ Flush(a) \/ FlushFails(a) \/ Refresh(a)
    \/ Save(a) \/ SaveEnds(a) \/ StorageFails(a) \/ GetUrl(a)
    \/ Process(a) \/ Sign(a) \/ Fetch(a) \/ Handle(a)

Next == \E a \in Asset : Work(a) \/ Delete(a) \/ Crash(a)

Spec == Init /\ [][Next]_vars
FairSpec == Spec /\ \A a \in Asset : WF_vars(Work(a))

-----------------------------------------------------------------------------
(* Properties.                                                             *)

\* The answer and the row agree when the request is over, whatever failed and
\* whoever deleted the row meanwhile: 200 only for a whole object whose row
\* was COMPLETED; a refusal leaves no row and no bytes; an answered failure is
\* recorded as FAILED.  So a row is left PENDING or UPLOADING for good only by
\* a crash or by a failure that also hit its own recording.
AnswerMatchesRow ==
    \A a \in Asset :
        /\ outcome[a] = "ok" => object[a] = "whole" /\ row[a] \in {"completed", "deleted"}
        /\ outcome[a] = "refused" => row[a] = "absent" /\ object[a] = "none"
        /\ outcome[a] = "error" => row[a] \in {"failed", "deleted"}
        /\ stage[a] = "done" /\ row[a] \in {"pending", "uploading"}
              => outcome[a] \in {"unrecorded", "crash"}

\* A row other requests can read as COMPLETED has all its bytes in storage,
\* even while the upload is still running and may yet be marked FAILED.
CompletedHasBytes ==
    \A a \in Asset : row[a] = "completed" => object[a] = "whole"

\* Which rows and bytes are possible at each statement: the invariant that
\* makes the two above inductive.
RowAt(s, p) ==
    CASE s = "create"   -> {"absent"}
      [] s = "created"  -> {"pending", "deleted"}
      [] s = "mark"     -> IF p = "refresh" THEN {"uploading", "deleted"}
                                            ELSE {"pending", "deleted"}
      [] s = "complete" -> IF p = "refresh" THEN {"completed", "deleted"}
                                            ELSE {"uploading", "deleted"}
      [] s = "fetch"    -> {"completed", "deleted"}
      [] s = "handle"   -> {"pending", "uploading", "completed", "deleted"}
      [] s = "fail"     -> IF p = "refresh" THEN {"failed", "deleted"}
                              ELSE {"pending", "uploading", "completed", "deleted"}
      [] s = "done"     -> Lifecycle!RowState
      [] OTHER          -> {"uploading", "deleted"}

BytesAt(s) ==
    CASE s \in {"create", "created", "mark", "save"} -> {"none"}
      [] s = "saving"                                -> {"partial"}
      [] s \in {"handle", "fail", "done"}            -> Lifecycle!Bytes
      [] OTHER                                       -> {"whole"}

\* Every request is where its row and its bytes say it is.
Consistent ==
    \A a \in Asset :
        /\ row[a] \in RowAt(stage[a], phase[a])
        /\ object[a] \in BytesAt(stage[a])
        /\ stage[a] = "done" <=> outcome[a] # "none"
        /\ phase[a] # "select" => stage[a] \in Updating

\* Every step of the request is a step of the promised lifecycle or hidden
\* from it: no state is skipped, nothing completes without its bytes, nothing
\* moves after the answer but a delete, a deleted row never comes back.
ImplementsLifecycle == Lifecycle!Spec

\* A request whose worker keeps running, or dies, is over some day.
EveryUploadEnds == \A a \in Asset : []<>(stage[a] = "done")
=============================================================================
