-------------------------- MODULE DocumentAnalyzer --------------------------
(***************************************************************************)
(* DocumentAnalyzer.analyze of app/processing/document_analyzer.py for one *)
(* document: its pages become JPEG files one after the other, and each is  *)
(* read three ways, the barcode, then the MRZ on the page and on enhanced  *)
(* variants of it, then the text, until one says what the document is.     *)
(* What the readers find is chosen as they are called; every one of them   *)
(* catches what it raises.                                                 *)
(***************************************************************************)
EXTENDS DocumentFields, FiniteSets

CONSTANTS
    Pages,                    \* pdf_pages, and the single page of an image
    Variants,                 \* variants of a page made for the MRZ reader: 6
    Readings,                 \* what the MRZ reader may say of a picture
    Codes,                    \* the barcodes a page may have, as sequences
    Texts,                    \* the texts a page may have, as sets of words
    Prints                    \* what documents print

Payload == {"none", "plain", "aamva"}

\* A code the format of which cannot be checked, AttributeError or TypeError, is opaque.
Barcode == [kind: {"pdf417", "other", "opaque"}, payload: Payload \ {"none"}]

\* What the MRZ reader says: the valid_score, 0 if it finds none or raises, and whether
\* _extract_mrz_data makes data of it, which is tried only of a higher score.
Mrz == {r \in [score: 0..100, data: BOOLEAN] : r.data => r.score > 0}

ASSUME AnalyzerAssumption ==
    /\ Pages \in Nat \ {0} /\ Variants \in Nat
    /\ Readings \subseteq Mrz
    /\ Codes \subseteq Seq(Barcode)
    /\ Texts \subseteq SUBSET Word
    /\ Prints \subseteq Imprint

VARIABLES
    bytes,                    \* the input is bytes, else a path
    left,                     \* pages still to come
    page,                     \* the page at hand, 0 before the first
    at,                       \* the statement
    seen,                     \* seen[p]: what the readers found on page p
    best,                     \* the MRZ reading kept, 0 if none
    made,                     \* number of variants of the page
    files,                    \* temporary files there are
    listed,                   \* those the page iterator will unlink
    stuck,                    \* those whose write or unlink failed
    result,                   \* the classification
    print,                    \* what the document prints, once it is known
    fields                    \* the fields read from it

analyzerVars == <<bytes, left, page, at, seen, best, made,
                  files, listed, stuck, result, print, fields>>

\* Files are named by page and variant: <<0, 0>> is the input, <<p, 0>> page p.
File == (0..Pages) \X (0..Variants + 1)

Nothing  == [payload |-> "none", codes |-> << >>, readings |-> << >>, words |-> {}]
Unknown  == [source |-> "none", type |-> "unknown", confidence |-> 0]
NoPrint  == [birth |-> NoDate, expiry |-> NoDate, first |-> "birth", number |-> << >>]
NoFields == [format |-> "none", birth |-> NoDate, expiry |-> NoDate, number |-> << >>]

AnalyzerTypeOK ==
    /\ bytes \in BOOLEAN
    /\ left \in 0..Pages /\ page \in 0..Pages
    /\ at \in {"open", "convert", "barcode", "mrz", "prepare", "variants", "text", "end"}
    /\ seen \in [1..Pages -> [payload: Payload, codes: Codes \cup {<< >>},
                              readings: Seq(Mrz), words: SUBSET Word]]
    /\ best \in 0..Variants + 1 /\ made \in 0..Variants
    /\ files \subseteq File /\ listed \subseteq File /\ stuck \subseteq File
    /\ result \in [source: {"none", "barcode", "mrz", "text"}, type: Type, confidence: 0..100]
    /\ print \in Prints \cup {NoPrint}
    /\ fields \in [format: Format \cup {"none"}, birth: Reading, expiry: Reading, number: Seq(0..9)]

AnalyzerInit ==
    /\ bytes \in BOOLEAN
    /\ left = 0 /\ page = 0
    /\ at = "open"
    /\ seen = [p \in 1..Pages |-> Nothing]
    /\ best = 0 /\ made = 0
    /\ files = {} /\ listed = {} /\ stuck = {}
    /\ result = Unknown
    /\ print = NoPrint
    /\ fields = NoFields

-----------------------------------------------------------------------------
(* The pages.                                                              *)

\* Mutant of Close: cleaning up stops at the first file that cannot be unlinked.
CloseStops(fs, st) ==
    /\ at' = "end"
    /\ IF bytes
       THEN \E kept \in SUBSET listed :
               /\ files' = IF kept = {} THEN fs \ listed ELSE fs
               /\ stuck' = st \cup kept
       ELSE files' = fs /\ stuck' = st

\* The iterator is closed and the analysis over: it unlinks what it listed, if
\* the input was bytes, and passes over what cannot be unlinked.  fs and st are
\* the files, and the stuck ones, at that time.
Close(fs, st) ==
    /\ at' = "end"
    /\ IF bytes
       THEN \E kept \in SUBSET listed :
               files' = fs \ (listed \ kept) /\ stuck' = st \cup kept
       ELSE files' = fs /\ stuck' = st

\* Bytes are written to a file whose suffix names no format.
Open ==
    /\ at = "open"
    /\ \/ /\ bytes
          /\ files' = {<<0, 0>>}
          /\ \/ at' = "convert" /\ left' = 1 /\ listed' = {<<0, 0>>} /\ UNCHANGED stuck
             \/ at' = "end" /\ stuck' = {<<0, 0>>} /\ UNCHANGED <<left, listed>>
       \/ ~bytes /\ at' = "convert" /\ left' \in 0..Pages /\ UNCHANGED <<files, listed, stuck>>
    /\ UNCHANGED <<bytes, page, seen, best, made, result, print, fields>>

\* The next page as a JPEG.  Without one, or if making it raises, the analysis
\* is over; a file is listed only once its picture is saved.
Convert ==
    /\ at = "convert"
    /\ \/ Close(files, stuck) /\ UNCHANGED <<left, page, listed, best, made>>
       \/ /\ left > 0
          /\ LET jpeg == {<<page + 1, 0>>}
             IN  \/ /\ at' = "barcode"
                    /\ page' = page + 1 /\ left' = left - 1
                    /\ files' = files \cup jpeg /\ listed' = listed \cup jpeg
                    /\ best' = 0 /\ made' = 0
                    /\ UNCHANGED stuck
                 \/ Close(files \cup jpeg, stuck \cup jpeg)
                    /\ UNCHANGED <<left, page, listed, best, made>>
    /\ UNCHANGED <<bytes, seen, result, print, fields>>

-----------------------------------------------------------------------------
(* What a page says.                                                       *)

\* The fields of a document: a barcode has the license number as well, a Social
\* Security or identity card nothing that is read here.
FieldsOf(fmt, p) ==
    IF fmt = "none" THEN NoFields
    ELSE LET dates == ReadDates(fmt, p)
         IN  [format |-> fmt, birth |-> dates.birth, expiry |-> dates.expiry,
              number |-> IF fmt = "barcode" THEN ReadNumber(p.number) ELSE << >>]

\* The formats of the dates a text may have.
FormatsOf(type) ==
    CASE type = "drivers_license" -> {"license"}
      [] type = "passport"        -> {"named", "day_first", "month_first"}
      [] OTHER                    -> {"none"}

\* The source decides how sure the answer is: LocalAnalysisBackend makes percents
\* of it.
Confidence(source, score) ==
    CASE source = "barcode" -> 95
      [] source = "mrz"     -> IF score > 0 THEN 100 ELSE 0
      [] source = "text"    -> 60

\* The page is understood.
Found(source, type, score, fmts, fs, st) ==
    /\ result' = [source |-> source, type |-> type, confidence |-> Confidence(source, score)]
    /\ \E p \in Prints, fmt \in fmts : print' = p /\ fields' = FieldsOf(fmt, p)
    /\ Close(fs, st)

NotFound(next) == at' = next /\ UNCHANGED <<files, stuck, result, print, fields>>

Note(key, value) == seen' = [seen EXCEPT ![page] = [@ EXCEPT ![key] = value]]

\* Mutant of Pick: the first code, whatever it is.
PickFirst(codes) == IF codes = << >> THEN "none" ELSE codes[1].payload

\* The first PDF417; or the first code, if there is none or an opaque one comes before it.
Pick(codes) ==
    LET stops == {i \in DOMAIN codes : codes[i].kind # "other"}
        stop  == CHOOSE i \in stops : \A j \in stops : i <= j
    IN  IF codes = << >> THEN "none"
        ELSE IF stops # {} /\ codes[stop].kind = "pdf417" THEN codes[stop].payload
        ELSE codes[1].payload

\* zxing reads all codes of the page.  If it fails, the first command line tool that prints
\* anything within its five seconds is believed.
Decode ==
    /\ at = "barcode"
    /\ \E codes \in Codes \cup {<< >>} : \E payload \in {Pick(codes)} \cup (IF codes = << >> THEN Payload ELSE {}) :
          /\ seen' = [seen EXCEPT ![page] = [@ EXCEPT !.codes = codes, !.payload = payload]]
          /\ IF payload = "aamva"
             THEN Found("barcode", "drivers_license", 0, {"barcode"}, files, stuck)
             ELSE NotFound("mrz")
    /\ UNCHANGED <<bytes, left, page, best, made, listed>>

\* A reading replaces the one kept only if its score is higher than all before it, also
\* than that of a reading without data: best_score is raised before the data is made.
Better(r) ==
    LET readings == seen[page].readings
    IN  r.data /\ \A i \in DOMAIN readings : r.score > readings[i].score

\* The page itself.  An MRZ of it that gives no data ends the search: no variant is read.
ReadPage ==
    /\ at = "mrz"
    /\ \E r \in Readings :
          /\ Note("readings", <<r>>)
          /\ IF r.data
             THEN /\ best' = 1
                  /\ \E t \in {"TD3", "ID-1", "ID-2", "other"}, isP \in BOOLEAN :
                        Found("mrz", MrzType(t, isP), r.score, {"mrz"}, files, stuck)
             ELSE NotFound(IF r.score > 0 THEN "text" ELSE "prepare") /\ UNCHANGED best
    /\ UNCHANGED <<bytes, left, page, made, listed>>

\* Variants are made until saving one fails; that one is left behind.
Prepare ==
    /\ at = "prepare"
    /\ at' = "variants"
    /\ made' \in 0..Variants
    /\ \E lost \in SUBSET {<<page, made' + 1>>} :
          /\ lost # {} => made' < Variants
          /\ files' = files \cup ({page} \X (1..made')) \cup lost
          /\ stuck' = stuck \cup lost
    /\ UNCHANGED <<bytes, left, page, seen, best, listed, result, print, fields>>

ReadVariant ==
    /\ at = "variants"
    /\ Len(seen[page].readings) <= made
    /\ \E r \in Readings :
          /\ Note("readings", Append(seen[page].readings, r))
          /\ best' = IF Better(r) THEN Len(seen[page].readings) + 1 ELSE best
    /\ UNCHANGED <<bytes, left, page, at, made, files, listed, stuck, result, print, fields>>

\* The variants go, and the best reading is the result.  analyze also takes one
\* with attributes and no score, but none is kept whose score is not above 0.
ReadVariants ==
    /\ at = "variants"
    /\ Len(seen[page].readings) > made
    /\ \E kept \in SUBSET ({page} \X (1..made)) :
          LET rest == (files \ ({page} \X (1..made))) \cup kept
          IN  IF best # 0
              THEN \E t \in {"TD3", "ID-1", "ID-2", "other"}, isP \in BOOLEAN :
                      Found("mrz", MrzType(t, isP), seen[page].readings[best].score,
                            {"mrz"}, rest, stuck \cup kept)
              ELSE /\ at' = "text"
                   /\ files' = rest /\ stuck' = stuck \cup kept
                   /\ UNCHANGED <<result, print, fields>>
    /\ UNCHANGED <<bytes, left, page, seen, best, made, listed>>

\* The text of the page, blank if the engine cannot be made or raises.  Text
\* nothing is inferred from still counts for the confidence.
ReadText ==
    /\ at = "text"
    /\ \E words \in Texts \cup {{}} :
          /\ Note("words", words)
          /\ IF Infer(words) # "unknown"
             THEN Found("text", Infer(words), 0, FormatsOf(Infer(words)), files, stuck)
             ELSE /\ at' = "convert"
                  /\ result' = IF words = {} THEN result ELSE [result EXCEPT !.confidence = 20]
                  /\ UNCHANGED <<files, stuck, print, fields>>
    /\ UNCHANGED <<bytes, left, page, best, made, listed>>

AnalyzerNext ==
    Open \/ Convert \/ Decode \/ ReadPage \/ Prepare \/ ReadVariant \/ ReadVariants \/ ReadText

AnalyzerSpec == AnalyzerInit /\ [][AnalyzerNext]_analyzerVars

-----------------------------------------------------------------------------
(* Properties.                                                             *)

\* The MRZ readings that count: those with data, but one with a score that an earlier
\* reading without data has reached is hidden by it.
Good(readings) ==
    {i \in DOMAIN readings :
        /\ readings[i].data
        /\ \A j \in DOMAIN readings :
              j < i /\ readings[j].score >= readings[i].score => readings[j].data}

\* What a page is, by what was found on it.
Verdict(e) ==
    IF e.payload = "aamva"             THEN "barcode"
    ELSE IF Good(e.readings) # {}      THEN "mrz"
    ELSE IF Infer(e.words) # "unknown" THEN "text"
    ELSE "none"

\* A PDF417 code that no opaque one comes before is what the page's codes say.
Pdf417Counts(e) ==
    LET clear == {i \in DOMAIN e.codes :
                     /\ e.codes[i].kind = "pdf417"
                     /\ \A j \in DOMAIN e.codes : j < i => e.codes[j].kind # "opaque"}
    IN  clear # {} => \E i \in clear : e.payload = e.codes[i].payload

\* "Detection order: PDF417 barcode, MRZ, OCR heuristics": when the analysis is
\* over it answers with the strongest evidence of the first page that has any,
\* however many readers raised or found nothing before it; a page's PDF417 code is passed
\* over for another code only behind an opaque one; and of the MRZ readings that count the
\* answer is the first of the best.  Two failures do hide stronger evidence, and only
\* they: that opaque code, and an MRZ that was found but gave no data.
BestEvidenceWins ==
    /\ \A p \in 1..Pages : Pdf417Counts(seen[p])
    /\ at = "end" =>
          /\ \A p \in 1..Pages : p # page => Verdict(seen[p]) = "none"
          /\ page = 0 => result.source = "none"
          /\ page > 0 => result.source = Verdict(seen[page])
          /\ result.source = "mrz" =>
                LET readings == seen[page].readings
                IN  /\ best \in Good(readings)
                    /\ \A i \in Good(readings) :
                          /\ readings[i].score <= readings[best].score
                          /\ readings[i].score = readings[best].score => best <= i

\* A failure costs the temporary file it hits and no other: when the analysis of
\* bytes is over only files that could not be written or unlinked are left,
\* and of a path besides them at most its pages.
TempFilesGo ==
    at = "end" => \A f \in files : f \in stuck \/ (~bytes /\ f[1] > 0 /\ f[2] = 0)

\* A date read from a document is the one it prints, never moved by a year, a day or a
\* century, outside of the dates Misread names, which the code does get wrong.  A license
\* number is whole if its length is printed before it: without one the code takes the
\* first two digits for it, and drops or cuts the number.
FieldsAsPrinted ==
    fields.format # "none" =>
        /\ \A use \in Use : ~Misread(use, fields.format, print)
              => AsPrinted(use, fields.format, print[use], fields[use])
        /\ LET n == print.number
           IN  fields.format = "barcode" /\ Len(n) > 2 /\ Len(n) = 2 + 10 * n[1] + n[2]
                  => fields.number = SubSeq(n, 3, Len(n))
=============================================================================
