--------------------------- MODULE AssetLifecycle ---------------------------
(***************************************************************************)
(* What an upload promises, whatever happens inside the request: the       *)
(* states the row of an asset may go through, the bytes behind it, and the *)
(* answer the client gets.  AssetUpload implements it.                     *)
(***************************************************************************)
CONSTANT Asset                \* asset ids; an id is never reused (uuid4)

VARIABLES
    row,                      \* row[a]: state of the row of a in table assets
    object,                   \* object[a]: the bytes the storage holds for a
    outcome                   \* outcome[a]: how the upload request of a ended

Live     == {"pending", "uploading", "completed", "failed"}
RowState == Live \cup {"absent", "deleted"}
Bytes    == {"none", "partial", "whole"}

(***************************************************************************)
(* none: not over.  ok: 200.  refused: no row was created.  error: the     *)
(* failure was recorded in the row (or the row is gone).  unrecorded: the  *)
(* request failed and so did the recording.  crash: the process died.      *)
(***************************************************************************)
Outcome == {"none", "ok", "refused", "error", "unrecorded", "crash"}

vars == <<row, object, outcome>>

Init ==
    /\ row = [a \in Asset |-> "absent"]
    /\ object = [a \in Asset |-> "none"]
    /\ outcome = [a \in Asset |-> "none"]

Set(a, s) == row' = [row EXCEPT ![a] = s]

\* The request moves the row only while it runs.
Advance(a) ==
    /\ outcome[a] = "none"
    /\ \/ row[a] = "absent" /\ Set(a, "pending")
       \/ row[a] = "pending" /\ Set(a, "uploading")
       \/ row[a] = "uploading" /\ object[a] = "whole" /\ Set(a, "completed")
       \/ row[a] \in Live \ {"failed"} /\ Set(a, "failed")
    /\ UNCHANGED <<object, outcome>>

\* Bytes are only added, and only for an asset that has had a row.
Store(a) ==
    /\ outcome[a] = "none"
    /\ row[a] \in {"uploading", "deleted"}
    /\ \E b \in {"partial", "whole"} : object' = [object EXCEPT ![a] = b]
    /\ object[a] # "whole"
    /\ UNCHANGED <<row, outcome>>

Delete(a) ==
    /\ row[a] \in Live
    /\ Set(a, "deleted")
    /\ UNCHANGED <<object, outcome>>

\* What the answer says of the asset.
Justified(a, o) ==
    \/ o = "ok" /\ row[a] = "completed" /\ object[a] = "whole"
    \/ o = "refused" /\ row[a] = "absent"
    \/ o = "error" /\ row[a] \in {"failed", "deleted"}
    \/ o \in {"unrecorded", "crash"}

Answer(a) ==
    /\ outcome[a] = "none"
    /\ \E o \in Outcome \ {"none"} :
          Justified(a, o) /\ outcome' = [outcome EXCEPT ![a] = o]
    /\ UNCHANGED <<row, object>>

Next == \E a \in Asset : Advance(a) \/ Store(a) \/ Delete(a) \/ Answer(a)

Spec == Init /\ [][Next]_vars
=============================================================================
