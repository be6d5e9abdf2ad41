--------------------------- MODULE AssetProcessors ---------------------------
(***************************************************************************)
(* The processors of one upload: upload_asset calls them in turn and merges *)
(* what they return.  Analysis is by the local DocumentAnalyzer, or by a     *)
(* provider that gets one JPEG of limited size and answers with a list of    *)
(* what it read, or by Modela; summarization is one call.                   *)
(***************************************************************************)
EXTENDS DocumentAnalyzer

CONSTANTS
    max_image_px,
    Sizes,                    \* width and height of the images that are uploaded
    Names,                    \* what a provider calls what it reads
    MaxItems                  \* bound on the length of an answer

ASSUME ProcessorsAssumption ==
    /\ max_image_px \in Nat \ {0} /\ MaxItems \in Nat
    /\ Sizes \subseteq (Nat \ {0}) \X (Nat \ {0})

VARIABLES
    provider,                 \* of the analysis
    wanted,                   \* the processors the upload asked for
    todo,                     \* those still to run
    step,                     \* where the analysis by a provider is
    picture,                  \* the image and the JPEG made of it
    answer,                   \* what the provider read, in its order
    adapted,                  \* how much of the answer is in the result
    reading,                  \* the result: the item the type, and each field, is from
    updates,                  \* the processors whose update is merged
    broken                    \* the processors that raised

processorVars == <<provider, wanted, todo, step, picture, answer, adapted, reading, updates, broken>>
documentVars  == <<analyzerVars, processorVars>>

Provider  == {"local", "textract", "google_dai", "claude", "modela"}
Processor == {"analysis", "summarization"}

\* An item that is blank has no text but white space.
Item      == [name: Names, blank: BOOLEAN]
NoPicture == [size |-> <<1, 1>>, jpeg |-> <<1, 1>>]
NoReading == [type |-> 0, fields |-> << >>]

DocumentsTypeOK ==
    /\ AnalyzerTypeOK
    /\ provider \in Provider
    /\ wanted \in Seq(Processor) /\ todo \in Seq(Processor)
    /\ step \in {"next", "call", "adapt"}
    /\ picture.size \in Nat \X Nat /\ picture.jpeg \in (Nat \ {0}) \X (Nat \ {0})
    /\ answer \in Seq(Item) /\ adapted \in 0..Len(answer)
    /\ reading.type \in 0..adapted
    /\ \A c \in DOMAIN reading.fields : reading.fields[c] \in 1..adapted
    /\ updates \subseteq Processor /\ broken \subseteq Processor

\* An upload has bytes; the analyzer is also called alone, with a path.
DocumentsInit ==
    /\ AnalyzerInit
    /\ provider \in IF bytes THEN Provider ELSE {"local"}
    /\ wanted \in IF bytes THEN {<<"analysis">>, <<"summarization">>, <<"analysis", "summarization">>}
                  ELSE {<< >>}
    /\ todo = wanted
    /\ step = "next"
    /\ picture = NoPicture
    /\ answer = << >> /\ adapted = 0
    /\ reading = NoReading
    /\ updates = {} /\ broken = {}

-----------------------------------------------------------------------------
Runs(p) == todo # << >> /\ Head(todo) = p

Returns ==
    /\ todo' = Tail(todo)
    /\ updates' = updates \cup {Head(todo)}
    /\ UNCHANGED broken

\* Mutant of Raises: the upload does not get to the processors after it.
RaisesFurther == todo' = << >> /\ broken' = broken \cup {Head(todo)} /\ UNCHANGED updates

\* Every processor catches what it raises and returns no update.
Raises == todo' = Tail(todo) /\ broken' = broken \cup {Head(todo)} /\ UNCHANGED updates

AnalyzeLocally ==
    /\ provider = "local"
    /\ bytes => Runs("analysis")
    /\ AnalyzerNext
    /\ UNCHANGED processorVars

\* DocumentAnalyzer raises nothing, and a document it cannot tell is a result as well.
LocalResult ==
    /\ Runs("analysis") /\ provider = "local"
    /\ at = "end"
    /\ Returns
    /\ UNCHANGED <<analyzerVars, provider, wanted, step, picture, answer, adapted, reading>>

\* Modela is given the url of the asset and a token for the user.
Scan ==
    /\ Runs("analysis") /\ provider = "modela"
    /\ Returns \/ Raises
    /\ UNCHANGED <<analyzerVars, provider, wanted, step, picture, answer, adapted, reading>>

Summarize ==
    /\ Runs("summarization")
    /\ Returns \/ Raises
    /\ UNCHANGED <<analyzerVars, provider, wanted, step, picture, answer, adapted, reading>>

-----------------------------------------------------------------------------
(* Analysis by a provider.                                                 *)

Remote == Runs("analysis") /\ provider \in {"textract", "google_dai", "claude"}

\* Mutant of Longest: only the width counts.
Width(size) == size[1]

Longest(size) == IF size[1] > size[2] THEN size[1] ELSE size[2]

\* int(x * (max_image_px / longest)): a product that should be whole may, in floating
\* point, be just below it.
Scaled(x, longest) ==
    LET whole == (x * max_image_px) \div longest
    IN  {whole} \cup (IF whole * longest = x * max_image_px THEN {whole - 1} ELSE {})

Resized(size) ==
    IF Longest(size) <= max_image_px THEN {size}
    ELSE Scaled(size[1], Longest(size)) \X Scaled(size[2], Longest(size))

\* No image in the file, or a side without a pixel: it raises.
ToJpeg ==
    /\ Remote /\ step = "next"
    /\ \/ Raises /\ UNCHANGED <<step, picture>>
       \/ \E size \in Sizes : \E jpeg \in Resized(size) :
             IF 0 \in {jpeg[1], jpeg[2]} THEN Raises /\ UNCHANGED <<step, picture>>
             ELSE /\ step' = "call"
                  /\ picture' = [size |-> size, jpeg |-> jpeg]
                  /\ UNCHANGED <<todo, updates, broken>>
    /\ UNCHANGED <<analyzerVars, provider, wanted, answer, adapted, reading>>

\* The provider fails, or what it answers is no document.
Call ==
    /\ Remote /\ step = "call"
    /\ picture' = NoPicture
    /\ \/ Raises /\ step' = "next" /\ UNCHANGED answer
       \/ /\ step' = "adapt"
          /\ answer' \in UNION {[1..n -> Item] : n \in 0..MaxItems}
          /\ UNCHANGED <<todo, updates, broken>>
    /\ UNCHANGED <<analyzerVars, provider, wanted, adapted, reading>>

\* The names a provider has for one field.
Canonical(name) ==
    CASE provider = "textract" /\ name \in {"DATE_OF_EXPIRY", "EXPIRATION_DATE"} -> "expiration_date"
      [] provider = "google_dai" /\ name = "family_name"                         -> "surname"
      [] OTHER                                                                   -> name

\* Mutant of Adapt: what is read once stays.
AdaptFirst(i) ==
    LET c == Canonical(answer[i].name)
    IN  IF answer[i].name = "type" THEN [reading EXCEPT !.type = i]
        ELSE IF answer[i].blank \/ c \in DOMAIN reading.fields THEN reading
        ELSE [reading EXCEPT !.fields = [x \in DOMAIN @ \cup {c} |-> IF x = c THEN i ELSE @[x]]]

\* One item of the answer.  Textract has "unknown" for a blank type.
Adapt(i) ==
    LET c == Canonical(answer[i].name)
    IN  IF answer[i].name = "type"
        THEN [reading EXCEPT !.type = IF provider = "textract" /\ answer[i].blank THEN 0 ELSE i]
        ELSE IF answer[i].blank THEN reading
        ELSE [reading EXCEPT !.fields = [x \in DOMAIN @ \cup {c} |-> IF x = c THEN i ELSE @[x]]]

\* Claude may give a confidence that is no number, or a type that is no text.
AdaptItem ==
    /\ Remote /\ step = "adapt"
    /\ adapted < Len(answer)
    /\ \/ /\ adapted' = adapted + 1
          /\ reading' = Adapt(adapted + 1)
          /\ UNCHANGED <<todo, step, updates, broken>>
       \/ provider = "claude" /\ Raises /\ step' = "next" /\ UNCHANGED <<adapted, reading>>
    /\ UNCHANGED <<analyzerVars, provider, wanted, picture, answer>>

Result ==
    /\ Remote /\ step = "adapt"
    /\ adapted = Len(answer)
    /\ Returns
    /\ step' = "next"
    /\ UNCHANGED <<analyzerVars, provider, wanted, picture, answer, adapted, reading>>

DocumentsNext ==
    AnalyzeLocally \/ LocalResult \/ Scan \/ Summarize \/ ToJpeg \/ Call \/ AdaptItem \/ Result

DocumentsSpec == DocumentsInit /\ [][DocumentsNext]_documentVars

-----------------------------------------------------------------------------
(* Properties.                                                             *)

\* The picture a provider gets fits max_image_px on its longest side, which is at most a pixel
\* shorter, keeps its proportions to a pixel, and is never enlarged.
PictureFits ==
    step = "call" =>
        LET size == picture.size
            jpeg == picture.jpeg
            longest == IF size[1] > size[2] THEN size[1] ELSE size[2]
        IN  /\ jpeg[1] <= max_image_px /\ jpeg[2] <= max_image_px
            /\ longest <= max_image_px => jpeg = size
            /\ longest > max_image_px =>
                  \A i \in 1..2 : /\ jpeg[i] * longest <= size[i] * max_image_px
                                  /\ size[i] * max_image_px <= (jpeg[i] + 1) * longest

\* A result says of every field the last thing the provider said of it, under whichever
\* name, and nothing the provider left blank.
LastWordWins ==
    LET told == {i \in 1..adapted : answer[i].name # "type" /\ ~answer[i].blank}
    IN  /\ DOMAIN reading.fields = {Canonical(answer[i].name) : i \in told}
        /\ \A i \in told : LET c == Canonical(answer[i].name)
                           IN  i <= reading.fields[c] /\ reading.fields[c] \in told
                               /\ Canonical(answer[reading.fields[c]].name) = c
        /\ \A i \in 1..adapted : answer[i].name = "type" =>
              reading.type >= i \/ (reading.type = 0 /\ provider = "textract")

\* A processor that fails costs its own result and nothing else: every other one the
\* upload asked for has run, and its update is merged.
FailuresStayApart ==
    todo = << >> => updates = {wanted[i] : i \in DOMAIN wanted} \ broken
=============================================================================
