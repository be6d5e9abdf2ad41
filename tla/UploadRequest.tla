---------------------------- MODULE UploadRequest ----------------------------
(***************************************************************************)
(* POST /assets and POST /assets/from-url: what both endpoints do around   *)
(* upload_asset.  They check the request, ask Custos whether the caller    *)
(* may create assets in the named project, fetch the file if it is named   *)
(* by URL, and turn the end of the upload into a status code.  Order       *)
(* matters: nothing may be fetched, stored or recorded for a request that  *)
(* is refused.                                                             *)
(***************************************************************************)
EXTENDS AssetUpload

CONSTANTS
    FromUrl,                  \* uploads that came to POST /assets/from-url
    Project                   \* ids of projects

ASSUME RequestAssumption ==
    /\ FromUrl \subseteq Asset
    /\ Project \cap {"*", "bad", "none"} = {}

VARIABLES
    asked,                    \* asked[a]: the project_id field, "bad" if unusable
    large,                    \* large[a]: the file exceeds max_file_size
    at,                       \* at[a]: the statement of the endpoint
    granted,                  \* granted[a]: the domain Custos said yes to
    owner,                    \* owner[a]: the project written to the row
    temp,                     \* temp[a]: there is a temporary file
    barred,                   \* uploads the local backend itself answered 400
    status                    \* status[a]: the answer, "lost" if the worker died

requestVars == <<row, object, outcome, stage, phase,
                 asked, large, at, granted, owner, temp, barred, status>>

Step    == {"receive", "labels", "prepare", "scope", "authorize", "url",
            "download", "save temp", "wrap", "upload", "end"}
Refusal == {"400", "401", "403", "404", "413", "422", "503"}
Domain  == Project \cup {"*"}

RequestTypeOK ==
    /\ TypeOK
    /\ asked \in [Asset -> Domain \cup {"bad"}]
    /\ large \in [Asset -> BOOLEAN]
    /\ at \in [Asset -> Step]
    /\ granted \in [Asset -> Domain \cup {"none"}]
    /\ owner \in [Asset -> Domain \cup {"none"}]
    /\ temp \in [Asset -> BOOLEAN]
    /\ barred \subseteq Asset
    /\ status \in [Asset -> Refusal \cup {"none", "lost", "200", "500"}]

RequestInit ==
    /\ Init
    /\ asked \in [Asset -> Domain \cup {"bad"}]
    /\ large \in [Asset -> BOOLEAN]
    /\ at = [a \in Asset |-> "receive"]
    /\ granted = [a \in Asset |-> "none"]
    /\ owner = [a \in Asset |-> "none"]
    /\ temp = [a \in Asset |-> FALSE]
    /\ barred = {}
    /\ status = [a \in Asset |-> "none"]

-----------------------------------------------------------------------------
Proceed(a, s) ==
    /\ at' = [at EXCEPT ![a] = s]
    /\ UNCHANGED status

Answer(a, c) ==
    /\ at' = [at EXCEPT ![a] = "end"]
    /\ status' = [status EXCEPT ![a] = c]

\* The dependencies, then the fields.  A form upload has its size checked before
\* the caller is authenticated.
Receive(a) ==
    /\ at[a] = "receive"
    /\ \/ a \notin FromUrl /\ large[a] /\ Answer(a, "413")
       \/ (a \in FromUrl \/ ~large[a]) /\ \E c \in {"401", "422", "500"} : Answer(a, c)
       \/ a \in FromUrl /\ Proceed(a, "scope")
       \/ a \notin FromUrl /\ ~large[a] /\ Proceed(a, "labels")
    /\ UNCHANGED <<granted, owner, temp>>

\* The labels must be a JSON dictionary.
Labels(a) ==
    /\ at[a] = "labels"
    /\ Answer(a, "400") \/ Proceed(a, "prepare")
    /\ UNCHANGED <<granted, owner, temp>>

\* Storage backend, analysis config and processors: 404 for a config_id that
\* does not exist, 500 for the rest that may fail.
Prepare(a) ==
    /\ at[a] = "prepare"
    /\ Proceed(a, "scope") \/ \E c \in {"404", "500"} : Answer(a, c)
    /\ UNCHANGED <<granted, owner, temp>>

\* Mutant of Scope: a project_id that is no UUID is not refused.
ScopeUnparsed(a) ==
    /\ at[a] = "scope"
    /\ Answer(a, "400") \/ Proceed(a, "authorize")
    /\ UNCHANGED <<granted, owner, temp>>

\* _parse_project_scope and _parse_classification.
Scope(a) ==
    /\ at[a] = "scope"
    /\ \/ Answer(a, "400")
       \/ asked[a] # "bad" /\ Proceed(a, "authorize")
    /\ UNCHANGED <<granted, owner, temp>>

\* authorize_asset_create fails closed: 500 if Custos is not configured, 503
\* if it does not answer, 403 if it says no.
Authorize(a) ==
    /\ at[a] = "authorize"
    /\ \/ /\ Proceed(a, IF a \in FromUrl THEN "url" ELSE "upload")
          /\ granted' = [granted EXCEPT ![a] = asked[a]]
       \/ (\E c \in {"500", "503", "403"} : Answer(a, c)) /\ UNCHANGED granted
    /\ UNCHANGED <<owner, temp>>

-----------------------------------------------------------------------------
(* POST /assets/from-url: the file comes from another server.              *)

CheckUrl(a) ==
    /\ at[a] = "url"
    /\ Answer(a, "400") \/ Proceed(a, "download")
    /\ UNCHANGED <<granted, owner, temp>>

\* 400 for an HTTP or a transport error, 500 for anything else.
Download(a) ==
    /\ at[a] = "download"
    /\ Proceed(a, "save temp") \/ \E c \in {"400", "500"} : Answer(a, c)
    /\ UNCHANGED <<granted, owner, temp>>

\* NamedTemporaryFile(delete=False): a file whose write fails stays.
SaveTemp(a) ==
    /\ at[a] = "save temp"
    /\ \/ /\ temp' = [temp EXCEPT ![a] = TRUE]
          /\ Proceed(a, "wrap") \/ Answer(a, "500")
       \/ Answer(a, "500") /\ UNCHANGED temp
    /\ UNCHANGED <<granted, owner>>

\* The wrapper's __del__ unlinks the file when the wrapper is freed.
Unlink(a) == temp' = [temp EXCEPT ![a] = FALSE]

\* The wrapper opens the file, and the storage backend is made.
Wrap(a) ==
    /\ at[a] = "wrap"
    /\ \/ Proceed(a, "upload") /\ UNCHANGED temp
       \/ Answer(a, "500") /\ Unlink(a)
    /\ UNCHANGED <<granted, owner>>

-----------------------------------------------------------------------------
(* upload_asset and its end.                                               *)

\* Mutant of ProjectArg: the argument is forgotten, and the default, global
\* scope, is recorded.
ProjectArgDefault(a) == "*"

\* The project_id an endpoint passes to upload_asset.
ProjectArg(a) == asked[a]

\* LocalStorageBackend.save raises HTTPException 400 before it writes a byte: the
\* path leaves the storage directory, or the file exists already.
BackendRefuses(a) == a \in Local /\ stage[a] = "save" /\ StorageFails(a)

\* A step of upload_asset.  Its first one measures the file and records the
\* owning project with the row.
Upload(a) ==
    /\ at[a] = "upload"
    /\ Work(a)
    /\ stage[a] = "create" /\ large[a] => Refuse(a)
    /\ owner' = IF row[a] = "absent" /\ row'[a] # "absent"
                THEN [owner EXCEPT ![a] = ProjectArg(a)] ELSE owner
    /\ \/ BackendRefuses(a) /\ barred' = barred \cup {a}
       \/ UNCHANGED barred
    /\ UNCHANGED <<at, granted, temp, status>>

\* Mutant of StatusOf: whatever ends the block is put down to the download.
StatusOfDownload(a) ==
    CASE outcome[a] = "ok" -> "200"
      [] a \in FromUrl     -> "400"
      [] OTHER             -> "500"

\* from-url answers 500 for every exception of the upload, the 413 of
\* _validate_file_size included; a form upload passes HTTPExceptions on, which are
\* that 413 and, once the handler has recorded the failure, the backend's own 400.
StatusOf(a) ==
    CASE outcome[a] = "ok" -> "200"
      [] outcome[a] = "refused" /\ large[a] /\ a \notin FromUrl    -> "413"
      [] outcome[a] = "error" /\ a \in barred /\ a \notin FromUrl -> "400"
      [] OTHER             -> "500"

\* Mutant of Reply: the temporary file is left to the operating system.
ReplyKeepsTemp(a) ==
    /\ at[a] = "upload" /\ stage[a] = "done"
    /\ Answer(a, StatusOf(a))
    /\ UNCHANGED <<granted, owner, temp>>

\* The endpoint returns or raises, and the wrapper is freed.
Reply(a) ==
    /\ at[a] = "upload" /\ stage[a] = "done"
    /\ Answer(a, StatusOf(a))
    /\ Unlink(a)
    /\ UNCHANGED <<granted, owner>>

Handler(a) ==
    \/ Receive(a) \/ Labels(a) \/ Prepare(a) \/ Scope(a) \/ Authorize(a)
    \/ CheckUrl(a) \/ Download(a) \/ SaveTemp(a) \/ Wrap(a) \/ Reply(a)

\* The worker dies: no answer, and no __del__ either.
Die(a) ==
    /\ at[a] # "end"
    /\ Answer(a, "lost")
    /\ Crash(a) \/ (stage[a] = "done" /\ UNCHANGED vars)
    /\ UNCHANGED <<granted, owner, temp>>

RequestNext ==
    /\ \E a \in Asset :
          \/ Handler(a) /\ UNCHANGED <<vars, barred>>
          \/ Upload(a)
          \/ Die(a) /\ UNCHANGED barred
          \/ Delete(a) /\ UNCHANGED <<at, granted, owner, temp, barred, status>>
    /\ UNCHANGED <<asked, large>>

RequestSpec == RequestInit /\ [][RequestNext]_requestVars

-----------------------------------------------------------------------------
(* Properties.                                                             *)

\* "Custos decides whether the caller may create assets there; a Custos
\* failure refuses the upload": no file is fetched or stored and no row is made
\* for a request before Custos has said yes, and a row names as its owner the
\* very project that was authorized, on both endpoints.
StoredAsAuthorized ==
    \A a \in Asset :
        /\ temp[a] \/ object[a] # "none" \/ row[a] # "absent" => granted[a] # "none"
        /\ row[a] # "absent" => owner[a] = granted[a]

\* A request that is told it was refused has stored nothing: no bytes, no temporary
\* file, and no row, except that a form upload which the local backend refused to
\* store has left its FAILED row.  That is the one refusal that is recorded: never
\* as PENDING or COMPLETED, and never for a file from a URL.
RefusedStoresNothing ==
    \A a \in Asset : status[a] \in Refusal =>
        /\ object[a] = "none" /\ ~temp[a]
        /\ \/ row[a] = "absent"
           \/ /\ status[a] = "400" /\ a \in Local \ FromUrl
              /\ row[a] \in {"failed", "deleted"}

\* A temporary file is gone once the request is answered, whatever happened in
\* the upload, unless its own write failed.
TempFileGoes ==
    \A a \in Asset : temp[a] /\ status[a] \notin {"none", "lost"} =>
        status[a] = "500" /\ stage[a] = "create"

\* The status a client gets and the answer of upload_asset agree, on both endpoints, and
\* 200 means that all bytes are stored and the row was COMPLETED.
StatusTellsOutcome ==
    \A a \in Asset :
        /\ status[a] \notin {"none", "lost"} => (status[a] = "200" <=> outcome[a] = "ok")
        /\ status[a] = "200" => object[a] = "whole" /\ row[a] \in {"completed", "deleted"}

\* "Both raise HTTP 413 with a message that includes the configured limit":
\* a file refused for its size is answered 413.
TooLargeIsAnswered413 ==
    \A a \in Asset : large[a] /\ outcome[a] = "refused" => status[a] \in {"none", "lost", "413"}
=============================================================================
