# Vaulta, verified

TLA+ models of vaulta, the asset service of this repository: a FastAPI application that takes
uploads, stores their bytes on disk or in S3, keeps a row per asset in PostgreSQL, extracts data
from documents, and serves the bytes back under signed URLs through a Redis cache.  Modules are
checked with TLC on small instances; theorems about them are proved with TLAPS for all values of
the constants.  `PROJECT.json` lists components, runs, mutants, hazards, theorems and the source
lines each definition stands for.

## The system

| Part | State it keeps | Operations | Hard behaviour | What makes it correct |
|---|---|---|---|---|
| Asset upload: `services/asset_upload.py`, `commands/assets/*`, `repositories/asset_repository.py` | row of `assets` with its state; bytes in the storage backend | `upload_asset`, create/update/delete commands | twelve statements that may each raise; the handler writes to a database that may have just failed; another request deletes the row; the worker dies | states are gone through in order, the answer says what the row says, COMPLETED means the bytes are there |
| Asset cache: `cache/asset_cache.py`, `services/asset_lookup.py`, `routers/utils/dependencies.py` | two Redis keys per asset, positive and negative entries with TTLs | read-through by two readers, invalidation by two commands | fills race with commits; invalidations get lost; two keys, one row | an entry is stale only for a known reason and for a bounded time; "not found" is never wrong |
| Analysis configs: `routers/analysis_configs.py`, its commands and repository | table `analysis_configs`, one row is the default | create, patch, delete | concurrent transactions at READ COMMITTED, row locks, objects loaded earlier in the request | exactly one default; the default moves in one step |
| Endpoints: `routers/assets.py` | none | upload, upload from a URL, serve, download, search, delete | order of validation, authorization and effects; streaming after the metadata lookup; broad `except` | a refused request stores nothing; what is served for good is complete |
| Storage: `storage/*` | files or S3 objects; a process-wide singleton | `save`, `get_url`, `delete` (never called) | partial files; the unlocked singleton, whose constructor probes the disk with one shared file | bytes never change for an id; one backend, and no false alarm about the disk |
| Processors and analysis: `services/processors/*`, `services/analysis/*`, `services/summarization/*` | a process-wide default backend | `process`, `analyze`, `summarize` | provider failures are swallowed; answers say one field twice, under two names, or blank | a failure costs its own result only; the result is what the provider said last; pictures fit its limit |
| Document analyzer: `processing/document_analyzer.py` | temporary files | `analyze`: PDF417, then MRZ, then OCR, page by page | every reader may fail; variants and scores; files made and removed on many paths; date formats, two-digit years | the strongest evidence decides but for two failures that hide it; no file is left; a date is read as printed, or is one of two misreadings known by name |
| Signed URLs: `utils/token_utils.py` | none (stateless HMAC) | sign and verify serve and download URLs | expiry, the cap of uploads, order of the checks | only what was signed, unchanged, and only until it expires |
| Clients: `routers/clients.py`, commands, repository | table `clients`, unique slug | create, update, delete, regenerate-secret | check-then-insert, objects loaded earlier, a commit before the secret is derived | slugs stay unique, a refusal leaves no trace, an answer is true |
| Users: `main.py`, `repositories/user_repository.py`, `models/user.py` | table `users` | lookup and onboarding on first request, by middlewares of tessera_sdk | two first requests at once; two people with one email | one row per external id and per email, nobody onboarded twice |
| Database: `db.py` | connection pool | sessions | connections held while files are sent and providers work | none is lost, no request waits for ever |
| Settings: `config.py` | none after start | validators | two names for one limit | the documented setting decides |

Interactions: a request enters through token verification and onboarding; the upload endpoint
calls `upload_asset`, which calls the storage backend, the processors (which call a provider) and
the commands; every command commits through the repository and then invalidates the cache; the
readers (serve, get, delete) go through the cache to the repository; the upload reads an analysis
config to choose its provider, and signs a link.  Requests share nothing but PostgreSQL, Redis,
the storage, and in a process the connection pool and three singletons.

## The modules

### Uploads

**`AssetLifecycle`** is the promise: the states a row may go through, that COMPLETED needs all
bytes, that nothing moves after the answer except by a delete, and what each answer implies.

**`AssetUpload`** is `upload_asset` as written.  `stage[a]` is the statement the request of asset
`a` is at and `phase[a]` the step inside `AssetRepository.update_asset` (SELECT; UPDATE and
COMMIT; refresh), which the four updates of an upload share.  Every statement that can raise has
the branch: a storage call goes to the handler directly, a failed update command first rolls back
and expires the object (`handle`), and a failure inside the handler escapes it.  The environment is
`Delete` (DELETE /assets/{id} by another request, at any moment) and `Crash`.  Instances of
`Local` differ in `Save`: S3 stores an object whole, the local backend opens the file and copies.
Which processor returned what, and the response body, are abstracted away.

**`UploadRequest`** composes `AssetUpload` with the two endpoints around it.  `at[a]` is the
statement of the endpoint (for a form: size, labels, config, scope, Custos; for a URL: scope,
Custos, URL, download, temporary file, wrapper), `Upload` a step of `AssetUpload`, `Reply` the way
its end becomes a status code.  `granted[a]` is the domain Custos agreed to and `owner[a]` the
project the row records; `barred` holds the uploads whose save the local backend refused with a 400
of its own (`BackendRefuses`), which the form endpoint passes on although the row is FAILED by
then.  Every check may fail; a file may be too large; the worker may die anywhere.

### Reading back

**`AssetCache`** is the cache over the table: `row[a]` has a version that counts commits and
stands for its contents, `cache[k][a]` is the entry under each of the two keys, `req[r]` the call
request `r` is at.  Readers take the steps read, SELECT, write; a delete goes through
`get_asset_by_id` and the owner check first; commands take the steps SELECT, COMMIT, refresh,
delete serve key, delete record key.  With `Faults`, Redis may fail at any call (a miss, or a
write or delete that does not happen), and any request may end at any step.  Each entry carries, for the
properties only, whether a commit had overtaken its read or its invalidation was lost.

**`AssetServing`** composes `AssetUpload` with requests for bytes.  `reader[r]` is where request `r`
of `/assets/serve` or `/assets/download` is (lookup, locate the file or open the object at S3,
size the file, send), `got[r]` the last response its client received whole.  Between any two of
these an upload may write, a delete may commit, a worker may die.  The client of a body that is
not as long as announced knows it, so such a response is not in `got`.  The lookup may return what
`AssetCache` allows: a deleted row, never "not found" for one that is there.

### What is in a document

**`DocumentFields`** holds the readers as operators: what a document prints in each of the formats
(`Printed`), what the code makes of it (`ReadDates`, `ReadNumber`, `Infer`, `MrzType`), and,
independently of the readers, what a date is as printed (`AsPrinted`, with the dates that are
passed over) and which dates the code gets wrong (`Misread`).

**`DocumentAnalyzer`** is `DocumentAnalyzer.analyze` for one document.  `at` is the statement (open,
convert a page, barcode, MRZ of the page, prepare variants, MRZ of each, text), `seen[p]` what the
readers found on page `p`, `best` the MRZ reading kept, `files` the temporary files, of which the
page iterator will unlink those in `listed`; `stuck` are those whose write or unlink failed.  Each
reader finds anything or fails (and is then believed to have found nothing, as each catches what
it raises), including the command-line readers that stand in for zxing.  A barcode whose format
cannot be checked is `opaque`, and an MRZ has a score and `data`, FALSE if `_extract_mrz_data`
returned None.  The `except` around each
page in `analyze` is practically out of reach for that reason and has no action.

**`AssetProcessors`** runs the processors of an upload (`todo`) around it: analysis by the local
analyzer, by a provider (picture, call, then one step per item of the answer, `adapted` and
`reading`), or by Modela; and summarization.  Every one of them may raise at every step.

### People and clients

**`Users`** is a request on its way in: token, lookup, identies, insert, refresh.  `main.py:67-92` adds
two middlewares of tessera_sdk for it, whose code is not in the repository: what they do with
the token and with identies is external, and what they can do to the table is what
`UserRepository` and the indexes of `users` say (external id, and email, which stands for the id at
identies as well).  The class `VerifyToken` of `utils/auth.py` does the same steps, but only
`verify_token_dependency` makes one, which no route depends on.  **`Clients`** is
what it then asks of /clients.  `table[c]` is the slug of client `c`; since a secret is derived from
the slug and the master key, a client is no more than that.  Every query is a step, so that calls
interleave as at READ COMMITTED; `seen[r]` is the slug of the object the dependency loaded, which
decides what the UPDATE sends; `nulls` are the updates that name a column as null, and `Empty` is
the slug that `update_client_command.py:20` takes for none.  The histories `did`, `raced` and
`failed` say which calls changed the table, which had another one change it meanwhile and which met a failure; `known`, `rivals` and
`troubled` do the same for entries.  **`ClientRegistry`** is what the endpoints promise of the
table: each call is one transaction of a caller who was let in.

### One process

**`BackendFactory`** is `StorageFactory.get_backend` with the constructor of the local backend,
statement by statement; the factories of analysis backends and of the cache have the same shape.
**`ConnectionPool`** is who holds a connection (`held`) and how long who has none will wait
(`patience`).  **`SignedUrls`** is the links: a payload, what signs it, the checks in their order,
and the two expiries.  **`Worker`** composes the three: each thread serves one request after
another (serve, download, upload, any other), takes and returns connections where the code's
sessions do (a serve gives its own back before it streams, a download keeps it, an upload takes
one again after each commit to refresh its row), and presents links that were signed by an upload
or the holder of a secret, as they are or damaged.  Its clock is `now`.

### Configurations of analysis

**`AnalysisConfigs`** is the admin API over `analysis_configs`, one transaction per request; the
object the dependency loads (`copy`) is what the repository later tests, because the session's
identity map returns it unrefreshed.  UPDATE statements take a snapshot when they start, lock rows
one at a time and keep the locks to the end; PostgreSQL resolves a lock cycle of two (`Victim`).
**`DefaultConfig`** is the documented promise, and `raced` records whether two requests for the
default have overlapped.

The `*Proofs` modules hold the theorems, the `MC*` modules and configurations the instances.
Operators introduced by a comment starting "Mutant of" are variants of the definition they precede,
each a plausible bug; one property of the run they belong to rejects each.

## Runs

| Run | Configuration | Instance | Shows |
|---|---|---|---|
| upload | `MCAssetUpload.cfg` | two uploads, one local, one to S3 | `Consistent`, `AnswerMatchesRow`, `CompletedHasBytes` hold; the upload refines `AssetLifecycle`; `EveryUploadEnds` |
| cache | `MCAssetCache.cfg` | one asset, two requests, two versions, TTLs 2 and 1 | `StaleHasCause`, `NotFoundIsTrue` hold under every fault; `DeletedIsForgotten` |
| cache_race | `MCAssetCacheRace.cfg` | the same without faults | violates `DeleteTakesEffect` |
| configs | `MCAnalysisConfigs.cfg` | three ids, two requests | `OneDefaultUnlessRaced`, `KeepsPromise`, `EveryRequestEnds` |
| configs_one_default | `MCAnalysisConfigsOneDefault.cfg` | two ids, two requests | violates `ExactlyOneDefault` |
| serving | `MCAssetServing.cfg` | two uploads, one local, one to S3, one reader of both | `CompletedIsServedWhole` holds |
| serving_bytes | `MCAssetServingBytes.cfg` | one local upload, two readers | violates `ServedBytesNeverChange` |
| requests | `MCUploadRequest.cfg` | a form upload and a URL upload to local storage, one project; 147,190 states | `StoredAsAuthorized`, `RefusedStoresNothing`, `TempFileGoes` hold |
| requests_too_large | `MCUploadRequestTooLarge.cfg` | the same | violates `TooLargeIsAnswered413` |
| documents | `MCDocuments.cfg` | two pages, two variants, scores to 2 with and without data, five documents, images up to 7 by 7 around a limit of 3, answers of up to three items; 2.1 million states, 80 s | `BestEvidenceWins`, `TempFilesGo`, `FieldsAsPrinted`, `PictureFits`, `LastWordWins`, `FailuresStayApart` hold |
| clients | `MCClients.cfg` | two requests, two people, one email, two clients, two slugs, one of them empty; 2.9 million states, 100 s | `OneRowPerPerson`, `OnboardedOnce`, `RefusedChangesNothing`, `AnswersAreTrue` hold; the calls refine `ClientRegistry`, in which slugs are unique |
| worker | `MCWorker.cfg` | two threads, one connection with a patience of 1, uploads of two commits, one link or token at a time, a cap of 1 on links asked for 2, time to 2 | `SettlesOnOne`, `ProbeFailsOnlyIfShared`, `PoolIsWhole`, `LinksWorkUntilExpiry`, `UploadLinksAreCapped`, `NobodyStalls` hold |

Every passing run has a type invariant besides.

Bounds.

* Uploads touch only their own asset, so two of them, one per backend, show every interleaving
  there is (and the proofs cover any number); for the endpoints one project and the global scope
  tell whether the right one is recorded, and both upload to local storage because only that
  backend refuses by itself (S3 is in `upload` and `serving`).
* Cache entries of different assets do not interact, so one asset is enough; two requests give
  every race of a fill with a commit, and two versions both a row that was updated and one that was
  then deleted.  TTLs count ticks: a positive entry can outlive a negative one, as 600 s and 60 s do.
* Three configs let one be default, one be promoted and one be created at once.
* Readers share nothing but the row and the bytes, so one reader shows what a reader can meet, and
  two are needed only to compare what they received.
* `documents`: the first page may be passed over for the second, the page's own MRZ and two
  variants can improve on each other or tie, a reading without data can hide one that ties with it,
  an opaque code a PDF417, and the five documents have dates at both edges of
  the year windows, days that are months and days that are not, years outside 1900 to 2100, and
  numbers with a right, a wrong and no length.  Images are below, at and above the limit on either side, and
  so narrow that a side vanishes.  Three items let a field be said, said again and left blank, with
  a type between.
* `clients`: a race needs two calls, a second person and slug tell theirs from another's, and the
  table starts in every state it can be left in.  One email is shared by both people, by one or by
  none; of two slugs one is empty, as it alone is not looked up.  Requests and people are
  symmetric.
* `worker`: one connection for two threads makes every wait happen; two threads make every race
  for the singleton; the times put requests before, at and after both expiries.  `Horizon`
  stops the clock, after which links no longer age but waits still run out; `MaxLinks` bounds the
  links kept at once.

Deadlock is checked in `cache` and `worker`, which never stop.  The others stop for good when their
uploads, requests or documents are over (ids of configs are used once), and say so.

Fairness.  Requests that run keep running (`WF` on the steps of a request, never on its arrival,
on deletes or on failures), because the server's threads are scheduled and calls end or raise.
Time passes (`WF` on `Tick`).  In `AnalysisConfigs` it is `SF`, because a transaction that waits
for a row lock is queued for it.  In `Worker` nothing is assumed of clients: `Transfer`, which
depends on how fast a client reads, has no fairness, and a connection held by a download may
never come back; `NobodyStalls` holds because the pool's timeout ends the wait.

## What the model checker disagrees with

* `cache_race`: a reader loads the row, the delete commits, invalidates both keys and is answered,
  and then the reader writes the row it loaded.  The serve endpoint goes on serving metadata of
  the deleted asset until the TTL ends, against `docs/prds/0004-cached-asset-serving.md:16` and
  `:26`.  `StaleHasCause` shows that this race and lost invalidations are the only causes.
* `configs_one_default`: two overlapping promotions each clear what their snapshot shows and both
  end as default; and a delete tests the `is_default` it loaded before the row was promoted, and
  removes the only default.  Both are against `docs/config/analysis_configs.md:74` and `:77`.
* `serving_bytes`: a request for a file that the local backend is still copying is answered 200
  with the size it has, "immutable", and a later request gets the whole file, against the comment
  at `src/app/routers/assets.py:177`.  `CompletedIsServedWhole` shows what does hold: an asset found
  COMPLETED, or any asset in S3, is received whole.  A client that signs its own URLs knows ids of
  assets that are still uploading, because the rows are listed from the first commit on.
* `requests_too_large`: the 413 of the service layer is caught by the last `except` of
  `create_asset_from_url` and answered 500, against `docs/config/upload.md:15` and
  `docs/file_upload_configuration.md:98`.  The refusal itself leaves nothing behind.

Peculiarities of the code that the models contain, and the properties allow for by name:

* `Misread`: a passport's expiry is matched month first and read day first
  (`document_analyzer.py:1000`), so of a passport that prints the month first month and day are
  exchanged, even to a month above 12; and the first date of a license's text is taken for the
  birth, whichever it is (`:903`).  `FieldsAsPrinted` excludes these by name; nothing in the
  repository promises otherwise.  `PassedOver`: with the day first an expiry is not read at all
  when the day is no month.  An MRZ gives two digits of a year (`Window`).
* `ReadNumber`: a DAQ number without its length loses its first two digits, or more, although the
  comment at `document_analyzer.py:411` speaks of "both with and without length prefix".
* `Pick`: a code whose format cannot be checked makes the first code the answer, also before a
  PDF417 (`:341`).  `Better`: `best_score` is raised before the data of an MRZ is extracted, so one that
  gives none hides later ones that are no better (`:647`), and one on the page itself ends the search
  for an MRZ (`:600`), although the comment at `:645` says "Keep the result with highest valid_score".
* `BackendRefuses`: a form upload that the local backend refuses (the file exists, or the path leaves
  the directory) is answered 400 and leaves a FAILED row; from a URL it is answered 500.
* `Users`: a person whose email another user has is never let in: every first request ends in the
  500 of the unique index.
* `Adapt`: Textract has "unknown" for a blank type, Google's blank type stays blank.
* `DocumentAnalyzer`: bytes are written to a file with the suffix `.tmp`, so the pages of a PDF
  that is uploaded are never rendered by the `local` provider; the branch that accepts an MRZ without a score is out of
  reach, as only readings with a score above 0 are kept.
* `SignedUrls`: a slug with a dot makes links that never verify (`Dotted`), since the payload is
  split at dots.  `generate_token` takes an `expires_in` it does not use: a token lives for `MaxAge`.
* `BackendFactory`: of two first requests that build the local backend at once, the second unlink
  of the test file may fail, and its request is answered 500.
* `Clients`: an update that sets a column to null is answered 500, and so is one to the empty slug if
  that is taken, since `update_client_command.py:20` looks up no falsy slug; without `master_secret_key` a create is answered 500 after its commit, and a retry
  400; a rename back to the slug that was loaded sends no UPDATE; regenerate-secret answers with the
  same secret, as it depends on nothing but the slug and the key.

## What is proved

Every invariant, action property and refinement that a passing run checks is also a theorem, for
any finite or infinite values of the constants, from the assumptions named in the modules:
`LocalAssumption`, `RequestAssumption` (`*` and the like are no projects), `CacheAssumption` (TTLs
are positive), `UsersAssumption` and `ClientsAssumption` (there is an id, the empty slug is a slug, and
markers are no emails and no slugs), `AnalyzerAssumption`
and `ProcessorsAssumption` (types of the inputs, and at least one page: an image is always one,
whatever `pdf_pages` says), `FactoryAssumption`, `PoolAssumption` (a connection can be had at all),
`SignedUrlsAssumption` (the internal slug has no dot) and `WorkerAssumption` (finitely many
threads, and an upload commits at least once).

* `AssetUploadProofs`: `Safety`, and from it `Typed`, `WhereRequestsAre` and `Complete`; and
  `Refinement`.  The inductive invariant is `Consistent`: at every stage only certain row states
  and bytes are possible (`RowAt`, `BytesAt`).  Without it `CompletedHasBytes` is not inductive,
  since nothing else says that "complete" comes after the save.
* `AssetServingProofs`: `ServingSafety` (and `ServingTyped`, `WholeIsServed`).  It extends the
  invariant of `AssetUploadProofs` with what a request has established (`Located`): bytes that
  were whole at the lookup are whole at every later step, because nothing overwrites a whole
  object (`WholeStays`).  `CopiesStay` follows.  `ServingUploads` says that readers change nothing
  of the uploads (`ServingSpec => Spec`), so `ServingRefines`: read while they run, uploads still
  implement `AssetLifecycle`.
* `UploadRequestProofs`: `RequestSafety`, and from it `RequestTyped`, `RefusalsAreClean` and
  `TempFilesEnd`; and `StatusIsTrue`.  Its invariant `Where` says what holds at each statement of
  an endpoint: nothing is recorded before "upload", from Custos's answer on the granted domain is
  the requested project, a status is 200 exactly if the upload's outcome is "ok", and a refusal
  has left nothing or the FAILED row of a save that was refused (`LeftFailed`).
  Each statement passes on (`ProceedKeeps`) or answers (`AnswerKeeps`), and `UploadLocal` says that
  one upload's steps leave the others alone.  What the endpoints do to row,
  bytes and answer is what `upload_asset` may do (`RequestUploads`), hence `RequestRefines` and
  `RequestKeepsPromises`.
* `AssetCacheProofs`: `Safety`, and from it `CacheTyped` and `NotFoundHolds`.  `NotFoundIsTrue`
  needs that a loaded row seen missing stays missing, `StaleHasCause` that a loaded version is
  never ahead of the row; both are conjuncts of its invariant.  `ForgottenStays` is the safety half
  of `DeletedIsForgotten`: what has left no trace leaves none again.  `DeletesHold` is what remains
  of the PRD's promise that `cache_race` refutes; it needs that no request with keys left to drop
  has a row that is still there (`DeletedRowsGone`).
* `AnalysisConfigsProofs`: `Safety`, `ConfigsTyped` and `Keeps`.  The invariant `Calm` says what a
  request may count on while no other conflicts with it: its copy is not stale (promotions), its
  UPDATE has reached every default (`Sound`), and requests in flight are pairwise `Apart`.
  `CalmStep` also yields that each step is a promised change, hence `Keeps`.
* `ClientsProofs`: `ClientsTypes`, `Onboarding` (and `OneRowEach`), `ClientsKept` (and
  `SlugsStayUnique`), `ClientsAnswers`, `RegistryKept`.  For entries the invariant is `Entered`: a
  request that is past the point where it could have seen its person's row has a rival if there
  is one, so a 500 with nothing wrong is a rival's doing or that of a shared email.  For calls it says what a call may count on at each statement: before its write it left
  no trace, after it the table has what it wrote unless it was raced, and while it is `Alone` the
  row it loaded is the row there is.  The answers are an action property that follows from the
  invariant at each step that answers.  For the refinement, a commit that changes the row is the
  call's one transaction (`CommitMaps`) and every other statement opens the call, closes it or is
  hidden (`PhaseMaps`); an entry only ever lets in (`LetInStays`).
* `WorkerProofs`: `WorkerSafety` (and `WorkerTyped`, `NoFalseAlarm`), `OneBackend`, `LinksWork`,
  `UploadLinksEnd`.  Four invariants, one per part: `TypeInv`; `FactoryInv` (any two that build know
  that they overlap, and only another one's constructor takes the test file away); `PoolInv`,
  where the held connections are finitely many, so that the count of `Take` means something; and
  `LinkInv` (whatever is presented was signed or is a damaged copy, which fails a check).  The
  theorems hold without the fairness.
* `DocumentsProofs`: `FieldsRead`, `FilesGone`, `StrongestEvidence`, `PicturesFit`, `LastWordKept`,
  `FailuresCostOne`, `DocumentsTyped`.  `FieldsInv` says that the fields are those of one print in
  one format, and `BirthRead`, `ExpiryRead` and `WholeNumber` that outside of `Misread` every date,
  and every number with its length, is read as printed (the two digits of a year come back in the window, for all years: `MrzYears`).
  `FilesInv` accounts for every temporary file at every statement, `RunsInv` for every processor,
  and `ReadingInv` carries `LastWordWins` from item to item (`LastOfNext`), for which an answer
  must be adapted by an analysis that has an empty result, hence its last conjunct.
  `EvidenceInv` says that the pages before the one at hand say nothing, those after it are
  unread, and of the one at hand what each statement knows (`PageInv`): at "text" no reading
  counts, at "variants" the reading kept is the first of the best that count so far (`Kept`,
  `KeptNext`).
  `PictureInv` says that a picture is what `Resized` makes of some image; that it is in proportion
  is a lemma about the quotients, for all sizes (`ResizedFits`).  `AnswerInv` bounds what is read of
  an answer.

Four of the theorems are about properties that no configuration lists, because the properties of
the same runs come first: `StatusTellsOutcome`, `CopiesAgree` and `DeleteTakesEffectUnlessRaced`,
which hold on the instances of `MCUploadRequest.cfg`, `MCAssetServing.cfg` and `MCAssetCache.cfg`
too, and `ForgottenForGood`, the step version of `DeletedIsForgotten`.

Only model-checked: the liveness properties (`EveryUploadEnds`, `DeletedIsForgotten`,
`EveryRequestEnds`, `NobodyStalls`), which rest on fairness, and the violation runs.

## Order of work, and what is left

Done in this order: upload and its lifecycle, cache, analysis configs, serving and the upload
endpoints composed with uploads; then documents and processors, users and clients, and the
process with its factory, pool and links.  Left: a composition of cache and serving in
place of what `MayFind` assumes of the lookup (it is what `NotFoundIsTrue` and `StaleHasCause`
say of one asset, so the composition would repeat them at the price of both state spaces).  To be
proved still: who may hold which row lock in `AnalysisConfigs` once requests have raced, and the
steps behind `NobodyStalls`, that a wait only gets shorter and a waiter is never passed over
when its patience ends.

## Not modelled

* Encrypted columns: stateless conversions by a cryptographic library; HMACs are ideal in
  `SignedUrls`, where a slug stands for its secret.
* Wiring, logging, telemetry and RBAC: no state; what is permitted is another service's decision,
  which the endpoints' models take as a choice (Custos, identies).
* Pictures: decoding, enhancement, OCR and the MRZ library are choices of what a reader finds; the
  names and addresses of a document are texts that no property tells apart.
* The requests to providers, prompts, and the shape of their JSON beyond names, order and blanks.
* Settings: a fresh object at each call, that changes nothing.  Its one rule with an effect, that
  `max_file_size_mb` always overrides `max_file_size` by its default (`config.py:148`), is a
  constant of the upload.
* Functions without a caller: `generate_token_with_client`, `verify_client_token` and
  `verify_token_with_service` (which uses a `Client.all` that is not there), `VerifyToken`, `delete` of the
  storage backends, `create_user`, `update_user` and `delete_user`.
* Listing and searching, which only read.
