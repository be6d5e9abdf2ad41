--------------------------- MODULE DocumentsProofs ---------------------------
(***************************************************************************)
(* What an analysis gives its caller, for documents of any pages, codes,    *)
(* texts and dates: the fields are what is printed, the temporary files go, *)
(* a processor that fails costs only its own result, and the answer is from *)
(* the strongest evidence.                                                  *)
(***************************************************************************)
EXTENDS AssetProcessors, WellFoundedInduction, TLAPS

(* The readers.                                                            *)

LEMMA DateOf == ASSUME NEW d \in Dates PROVE d = Date(d.year, d.month, d.day)
BY DEF Dates, Date

\* The two digits of a year, put into the window of their use, are still those digits.
LEMMA MrzYears ==
  ASSUME NEW y \in Nat
  PROVE  /\ BirthYear(y % 100) \in 1951..2050 /\ BirthYear(y % 100) % 100 = y % 100
         /\ ExpiryYear(y % 100) \in 1950..2049 /\ ExpiryYear(y % 100) % 100 = y % 100
<1> DEFINE yy == y % 100
<1>1. yy \in 0..99
  OBVIOUS
<1> HIDE DEF yy
<1>2. \A t \in 0..99 : (1900 + t) % 100 = t /\ (2000 + t) % 100 = t
  OBVIOUS
<1>3. /\ BirthYear(yy) \in 1951..2050 /\ BirthYear(yy) % 100 = yy
      /\ ExpiryYear(yy) \in 1950..2049 /\ ExpiryYear(yy) % 100 = yy
  BY <1>1, <1>2 DEF BirthYear, ExpiryYear
<1> QED BY <1>3 DEF yy

\* No reader but those of Misread gives another date than the one printed.
LEMMA BirthRead ==
  ASSUME NEW fmt \in Format, NEW p \in Imprint, ~Misread("birth", fmt, p)
  PROVE  AsPrinted("birth", fmt, p.birth, ReadDates(fmt, p).birth)
<1>1. p.birth \in Dates /\ p.first \in Use
  BY DEF Imprint
<1>2. fmt # "month_first" /\ ~(fmt = "license" /\ p.first = "expiry")
  BY <1>1 DEF Misread, Use
<1>3. ReadDates(fmt, p).birth = Read("birth", fmt, Printed(fmt, p.birth))
  BY <1>2 DEF ReadDates
<1>4. CASE fmt = "mrz"
  BY <1>1, <1>3, <1>4, MrzYears
  DEF AsPrinted, PassedOver, Read, Printed, ReadMrz, IsDay, Dates, Date, Window
<1>5. CASE fmt = "barcode"
  BY <1>1, <1>3, <1>5, DateOf DEF AsPrinted, PassedOver, Read, Printed, ReadBarcode, IsDay, Dates
<1>6. CASE fmt = "license"
  BY <1>1, <1>3, <1>6, DateOf DEF AsPrinted, PassedOver, Read, Printed, ReadLicense, IsDay, Dates
<1>7. CASE fmt \in {"named", "day_first"}
  <2>1. Printed(fmt, p.birth) = <<p.birth.day, p.birth.month, p.birth.year>>
    BY <1>7 DEF Printed
  <2>2. ReadDates(fmt, p).birth = Date(p.birth.year, p.birth.month, p.birth.day)
    BY <1>3, <1>7, <2>1 DEF Read, ReadPassport
  <2>3. ReadDates(fmt, p).birth = p.birth
    BY <1>1, <2>2, DateOf
  <2> QED BY <1>7, <2>3 DEF AsPrinted, PassedOver
<1> QED
  BY <1>2, <1>4, <1>5, <1>6, <1>7 DEF Format

LEMMA ExpiryRead ==
  ASSUME NEW fmt \in Format, NEW p \in Imprint, ~Misread("expiry", fmt, p)
  PROVE  AsPrinted("expiry", fmt, p.expiry, ReadDates(fmt, p).expiry)
<1>1. p.expiry \in Dates /\ fmt # "month_first"
  BY DEF Imprint, Misread
<1>2. ReadDates(fmt, p).expiry = Read("expiry", fmt, Printed(fmt, p.expiry))
  BY DEF ReadDates
<1>3. CASE fmt = "mrz"
  BY <1>1, <1>2, <1>3, MrzYears
  DEF AsPrinted, PassedOver, Read, Printed, ReadMrz, IsDay, Dates, Date, Window
<1>4. CASE fmt = "barcode"
  BY <1>1, <1>2, <1>4, DateOf DEF AsPrinted, PassedOver, Read, Printed, ReadBarcode, IsDay, Dates
<1>5. CASE fmt = "license"
  BY <1>1, <1>2, <1>5, DateOf DEF AsPrinted, PassedOver, Read, Printed, ReadLicense, IsDay, Dates
<1>6. CASE fmt = "named"
  BY <1>1, <1>2, <1>6, DateOf DEF AsPrinted, PassedOver, Read, Printed, ReadPassport, Dates
<1>7. CASE fmt = "day_first"
  <2>1. Printed(fmt, p.expiry) = <<p.expiry.day, p.expiry.month, p.expiry.year>>
    BY <1>7 DEF Printed
  <2>2. ReadDates(fmt, p).expiry =
           IF p.expiry.day <= 12 THEN Date(p.expiry.year, p.expiry.month, p.expiry.day) ELSE NoDate
    BY <1>1, <1>2, <1>7, <2>1 DEF Read, ReadPassportExpiry, ReadPassport, IsDay, Dates
  <2>3. ReadDates(fmt, p).expiry = IF p.expiry.day <= 12 THEN p.expiry ELSE NoDate
    BY <1>1, <2>2, DateOf
  <2> QED BY <1>1, <1>7, <2>3 DEF AsPrinted, PassedOver, Dates
<1> QED
  BY <1>1, <1>3, <1>4, <1>5, <1>6, <1>7 DEF Format

LEMMA WholeNumber ==
  ASSUME NEW n \in Seq(0..9), Len(n) > 2, Len(n) = 2 + 10 * n[1] + n[2]
  PROVE  ReadNumber(n) = SubSeq(n, 3, Len(n))
<1>1. Len(n) \in Nat /\ n[1] \in 0..9 /\ n[2] \in 0..9
  OBVIOUS
<1>2. \A a, b \in 0..9 : \A k \in Nat : k = 2 + 10 * a + b => 10 * a + b + 2 = k
  OBVIOUS
<1>3. 10 * n[1] + n[2] + 2 = Len(n)
  BY <1>1, <1>2
<1> QED
  BY <1>1, <1>3 DEF ReadNumber

\* The fields of a document are those of one print in one format.
FieldsInv ==
    fields.format # "none" =>
        /\ fields.format \in Format /\ print \in Imprint
        /\ fields = FieldsOf(fields.format, print)

LEMMA FieldsInvImplies == FieldsInv => FieldsAsPrinted
<1> SUFFICES ASSUME FieldsInv, fields.format # "none" PROVE FieldsAsPrinted
  BY DEF FieldsAsPrinted
<1> DEFINE fmt == fields.format
<1>1. /\ fmt \in Format /\ fmt # "none" /\ print \in Imprint
      /\ fields.birth = ReadDates(fmt, print).birth
      /\ fields.expiry = ReadDates(fmt, print).expiry
      /\ fmt = "barcode" => fields.number = ReadNumber(print.number)
  BY DEF FieldsInv, FieldsOf
<1>2. print.number \in Seq(0..9)
  BY <1>1 DEF Imprint
<1>3. ASSUME NEW use \in Use, ~Misread(use, fmt, print)
      PROVE  AsPrinted(use, fmt, print[use], fields[use])
  <2>1. CASE use = "birth"
    BY <1>1, <1>3, <2>1, BirthRead
  <2>2. CASE use = "expiry"
    BY <1>1, <1>3, <2>2, ExpiryRead
  <2> QED BY <2>1, <2>2 DEF Use
<1> QED
  BY <1>1, <1>2, <1>3, WholeNumber DEF FieldsAsPrinted

-----------------------------------------------------------------------------
(* Fields and files.                                                       *)

\* What may be left of a file: it is stuck, or listed and will be unlinked, or,
\* of a path, a page.
Accounted(f, st) == f \in st \/ (bytes /\ f \in listed) \/ (~bytes /\ f[1] > 0 /\ f[2] = 0)

VariantFiles == {page} \X (1..made)

FilesInv ==
    /\ page \in Nat
    /\ at # "end" => \A f \in files : Accounted(f, stuck) \/ (at = "variants" /\ f \in VariantFiles)
    /\ TempFilesGo

LEMMA CloseKeeps ==
  ASSUME NEW fs, NEW st, Close(fs, st), UNCHANGED bytes, \A f \in fs : Accounted(f, st)
  PROVE  at' = "end" /\ TempFilesGo'
BY DEF Close, Accounted, TempFilesGo

LEMMA FoundKeeps ==
  ASSUME NEW source, NEW type, NEW score, NEW fmts \in SUBSET (Format \cup {"none"}), NEW fs, NEW st,
         Found(source, type, score, fmts, fs, st), UNCHANGED bytes, \A f \in fs : Accounted(f, st)
  PROVE  at' = "end" /\ TempFilesGo' /\ FieldsInv'
<1>1. PICK p \in Prints, fmt \in fmts : print' = p /\ fields' = FieldsOf(fmt, p)
  BY DEF Found
<1>2. p \in Imprint
  BY AnalyzerAssumption
<1>3. CASE fmt = "none"
  <2>1. fields'.format = "none"
    BY <1>1, <1>3 DEF FieldsOf, NoFields
  <2> QED BY <2>1, CloseKeeps DEF Found, FieldsInv
<1>4. CASE fmt # "none"
  <2>1. fields'.format = fmt /\ fmt \in Format
    BY <1>1, <1>4 DEF FieldsOf
  <2>2. FieldsInv'
    BY <1>1, <1>2, <2>1 DEF FieldsInv
  <2> QED BY <2>2, CloseKeeps DEF Found
<1> QED BY <1>3, <1>4

AnalyzerInv == FieldsInv /\ FilesInv

LEMMA AnalyzerInitInv == AnalyzerInit => AnalyzerInv
BY DEF AnalyzerInit, AnalyzerInv, FieldsInv, FilesInv, NoFields, TempFilesGo

LEMMA AnalyzerStep == ASSUME AnalyzerInv, AnalyzerNext PROVE AnalyzerInv'
<1> USE DEF AnalyzerInv
<1> DEFINE Quiet == UNCHANGED <<print, fields>>
<1>1. Quiet => FieldsInv'
  BY DEF FieldsInv
<1>2. ASSUME at # "end", at # "variants" PROVE \A f \in files : Accounted(f, stuck)
  BY <1>2 DEF FilesInv
<1>3. CASE Open
  <2>1. FilesInv'
    <3>1. CASE bytes
      BY <1>3, <3>1 DEF Open, FilesInv, Accounted, TempFilesGo
    <3>2. CASE ~bytes
      BY <1>3, <3>2 DEF Open, FilesInv, Accounted, TempFilesGo
    <3> QED BY <3>1, <3>2
  <2> QED BY <1>1, <1>3, <2>1 DEF Open
<1>4. CASE Convert
  <2>1. Quiet /\ UNCHANGED bytes /\ at = "convert"
    BY <1>4 DEF Convert
  <2>2. \A f \in files : Accounted(f, stuck)
    BY <1>2, <2>1
  <2> DEFINE jpeg == {<<page + 1, 0>>}
  <2>3. CASE Close(files, stuck) /\ UNCHANGED <<left, page, listed, best, made>>
    BY <1>1, <2>1, <2>2, <2>3, CloseKeeps DEF FilesInv
  <2>4. CASE Close(files \cup jpeg, stuck \cup jpeg) /\ UNCHANGED <<left, page, listed, best, made>>
    <3>1. \A f \in files \cup jpeg : Accounted(f, stuck \cup jpeg)
      BY <2>2 DEF Accounted
    <3> QED BY <1>1, <2>1, <2>4, <3>1, CloseKeeps DEF FilesInv
  <2>5. CASE /\ at' = "barcode" /\ page' = page + 1
             /\ files' = files \cup jpeg /\ listed' = listed \cup jpeg /\ UNCHANGED stuck
    <3>1. page + 1 \in Nat /\ page + 1 > 0
      BY DEF FilesInv
    <3>2. \A f \in jpeg : f[1] = page + 1 /\ f[2] = 0
      OBVIOUS
    <3>3. \A f \in files' : Accounted(f, stuck)'
      BY <2>1, <2>2, <2>5, <3>1, <3>2 DEF Accounted
    <3> QED BY <1>1, <2>1, <2>5, <3>1, <3>3 DEF FilesInv, TempFilesGo
  <2> QED BY <1>4, <2>3, <2>4, <2>5 DEF Convert
<1>5. CASE Decode
  <2>1. at = "barcode" /\ UNCHANGED <<bytes, page, listed>> /\ \A f \in files : Accounted(f, stuck)
    BY <1>2, <1>5 DEF Decode
  <2>2. CASE Found("barcode", "drivers_license", 0, {"barcode"}, files, stuck)
    BY <2>1, <2>2, FoundKeeps DEF FilesInv, Format
  <2>3. CASE NotFound("mrz")
    BY <1>1, <2>1, <2>3 DEF NotFound, FilesInv, Accounted, TempFilesGo
  <2> QED BY <1>5, <2>2, <2>3 DEF Decode
<1>6. CASE ReadPage
  <2>1. at = "mrz" /\ UNCHANGED <<bytes, page, listed>> /\ \A f \in files : Accounted(f, stuck)
    BY <1>2, <1>6 DEF ReadPage
  <2>2. ASSUME NEW t, NEW s, Found("mrz", t, s, {"mrz"}, files, stuck) PROVE AnalyzerInv'
    BY <2>1, <2>2, FoundKeeps DEF FilesInv, Format
  <2>3. ASSUME NEW s \in {"text", "prepare"}, NotFound(s) PROVE AnalyzerInv'
    BY <1>1, <2>1, <2>3 DEF NotFound, FilesInv, Accounted, TempFilesGo
  <2> QED BY <1>6, <2>2, <2>3 DEF ReadPage
<1>7. CASE Prepare
  <2>1. /\ at = "prepare" /\ at' = "variants" /\ Quiet /\ UNCHANGED <<bytes, page, listed>>
        /\ \A f \in files : Accounted(f, stuck)
    BY <1>2, <1>7 DEF Prepare
  <2>2. PICK lost \in SUBSET {<<page, made' + 1>>} :
           files' = files \cup ({page} \X (1..made')) \cup lost /\ stuck' = stuck \cup lost
    BY <1>7 DEF Prepare
  <2>3. \A f \in files' : Accounted(f, stuck)' \/ f \in VariantFiles'
    BY <2>1, <2>2 DEF Accounted, VariantFiles
  <2> QED BY <1>1, <2>1, <2>3 DEF FilesInv, TempFilesGo
<1>8. CASE ReadVariant
  <2>1. Quiet /\ UNCHANGED <<bytes, page, at, made, files, listed, stuck>>
    BY <1>8 DEF ReadVariant
  <2> QED BY <1>1, <2>1 DEF FilesInv, Accounted, VariantFiles, TempFilesGo
<1>9. CASE ReadVariants
  <2>1. at = "variants" /\ UNCHANGED <<bytes, page, listed>>
    BY <1>9 DEF ReadVariants
  <2> DEFINE rest(kept) == (files \ VariantFiles) \cup kept
  <2>2. ASSUME NEW kept, NEW f \in rest(kept) PROVE Accounted(f, stuck \cup kept)
    BY <2>1, <2>2 DEF FilesInv, Accounted
  <2>3. PICK kept \in SUBSET VariantFiles :
           \/ \E t, s : Found("mrz", t, s, {"mrz"}, rest(kept), stuck \cup kept)
           \/ at' = "text" /\ files' = rest(kept) /\ stuck' = stuck \cup kept /\ Quiet
    BY <1>9 DEF ReadVariants, VariantFiles
  <2>4. ASSUME NEW t, NEW s, Found("mrz", t, s, {"mrz"}, rest(kept), stuck \cup kept)
        PROVE  AnalyzerInv'
    <3>1. \A f \in rest(kept) : Accounted(f, stuck \cup kept)
      BY <2>2
    <3> HIDE DEF rest
    <3> QED BY <2>1, <2>4, <3>1, FoundKeeps DEF FilesInv, Format
  <2>5. CASE at' = "text" /\ files' = rest(kept) /\ stuck' = stuck \cup kept /\ Quiet
    <3>1. \A f \in files' : Accounted(f, stuck)'
      BY <2>1, <2>2, <2>5 DEF Accounted
    <3> QED BY <1>1, <2>1, <2>5, <3>1 DEF FilesInv, TempFilesGo
  <2> QED BY <2>3, <2>4, <2>5
<1>10. CASE ReadText
  <2>1. at = "text" /\ UNCHANGED <<bytes, page, listed>> /\ \A f \in files : Accounted(f, stuck)
    BY <1>2, <1>10 DEF ReadText
  <2>2. ASSUME NEW t, Found("text", t, 0, FormatsOf(t), files, stuck) PROVE AnalyzerInv'
    <3>1. FormatsOf(t) \in SUBSET (Format \cup {"none"})
      BY DEF FormatsOf, Format
    <3> QED BY <2>1, <2>2, <3>1, FoundKeeps DEF FilesInv
  <2>3. CASE at' = "convert" /\ UNCHANGED <<files, stuck, print, fields>>
    BY <1>1, <2>1, <2>3 DEF FilesInv, Accounted, TempFilesGo
  <2> QED BY <1>10, <2>2, <2>3 DEF ReadText
<1> QED
  BY <1>3, <1>4, <1>5, <1>6, <1>7, <1>8, <1>9, <1>10 DEF AnalyzerNext

-----------------------------------------------------------------------------
(* The processors of an upload.                                            *)

\* Those that ran are told apart from those still to run; none is asked for twice.
RunsInv ==
    \/ wanted = << >> /\ todo = << >> /\ updates = {} /\ broken = {}
    \/ \E p \in Processor :
          /\ wanted = <<p>>
          /\ \/ todo = <<p>> /\ updates = {} /\ broken = {}
             \/ todo = << >> /\ updates = {p} /\ broken = {}
             \/ todo = << >> /\ updates = {} /\ broken = {p}
    \/ \E p, q \in Processor :
          /\ p # q /\ wanted = <<p, q>>
          /\ \/ todo = <<p, q>> /\ updates = {} /\ broken = {}
             \/ todo = <<q>> /\ updates \cup broken = {p} /\ updates \cap broken = {}
             \/ todo = << >> /\ updates \cup broken = {p, q} /\ updates \cap broken = {}

LEMMA RunsInvImplies == RunsInv => FailuresStayApart
<1> SUFFICES ASSUME RunsInv, todo = << >>
             PROVE  updates = {wanted[i] : i \in DOMAIN wanted} \ broken
  BY DEF FailuresStayApart
<1>1. CASE wanted = << >> /\ updates = {} /\ broken = {}
  BY <1>1
<1>2. ASSUME NEW p \in Processor, wanted = <<p>>, updates \cup broken = {p}, updates \cap broken = {}
      PROVE  updates = {wanted[i] : i \in DOMAIN wanted} \ broken
  <2>1. {wanted[i] : i \in DOMAIN wanted} = {p}
    BY <1>2
  <2> QED BY <1>2, <2>1
<1>3. ASSUME NEW p \in Processor, NEW q \in Processor, wanted = <<p, q>>,
             updates \cup broken = {p, q}, updates \cap broken = {}
      PROVE  updates = {wanted[i] : i \in DOMAIN wanted} \ broken
  <2>1. {wanted[i] : i \in DOMAIN wanted} = {p, q}
    BY <1>3
  <2> QED BY <1>3, <2>1
<1> QED BY <1>1, <1>2, <1>3 DEF RunsInv

LEMMA RunsStep == ASSUME RunsInv, UNCHANGED wanted, todo # << >>, Returns \/ Raises PROVE RunsInv'
<1>1. /\ todo' = Tail(todo)
      /\ \/ updates' = updates \cup {Head(todo)} /\ broken' = broken
         \/ broken' = broken \cup {Head(todo)} /\ updates' = updates
  BY DEF Returns, Raises
<1>2. ASSUME NEW p \in Processor, wanted = <<p>>, todo = <<p>>, updates = {}, broken = {} PROVE RunsInv'
  BY <1>1, <1>2 DEF RunsInv
<1>3. ASSUME NEW p \in Processor, NEW q \in Processor, p # q, wanted = <<p, q>>, todo = <<p, q>>,
             updates = {}, broken = {}
      PROVE  RunsInv'
  <2>1. Tail(todo) = <<q>> /\ Head(todo) = p
    BY <1>3
  <2> QED BY <1>1, <1>3, <2>1 DEF RunsInv
<1>4. ASSUME NEW p \in Processor, NEW q \in Processor, p # q, wanted = <<p, q>>, todo = <<q>>,
             updates \cup broken = {p}, updates \cap broken = {}
      PROVE  RunsInv'
  <2>1. Tail(todo) = << >> /\ Head(todo) = q
    BY <1>4
  <2>2. q \notin updates \cup broken
    BY <1>4
  <2>3. updates' \cup broken' = {p, q} /\ updates' \cap broken' = {}
    BY <1>1, <1>4, <2>1, <2>2
  <2> QED BY <1>1, <1>4, <2>1, <2>3 DEF RunsInv
<1> QED BY <1>2, <1>3, <1>4 DEF RunsInv

-----------------------------------------------------------------------------
(* The answer of a provider.                                               *)

\* LastWordWins after n items: those that say something of a field, what f must be
\* for them, and what t must be for the types.
Told(n) == {i \in 1..n : answer[i].name # "type" /\ ~answer[i].blank}

LastOf(f, n) ==
    /\ DOMAIN f = {Canonical(answer[i].name) : i \in Told(n)}
    /\ \A i \in Told(n) : LET c == Canonical(answer[i].name)
                          IN  i <= f[c] /\ f[c] \in Told(n) /\ Canonical(answer[f[c]].name) = c

LastType(t, n) ==
    \A i \in 1..n : answer[i].name = "type" => t >= i \/ (t = 0 /\ provider = "textract")

\* One more item.
LEMMA LastOfNext ==
  ASSUME NEW n \in Nat, NEW f, LastOf(f, n), NEW c, c = Canonical(answer[n + 1].name),
         answer[n + 1].name # "type", ~answer[n + 1].blank
  PROVE  LastOf([x \in DOMAIN f \cup {c} |-> IF x = c THEN n + 1 ELSE f[x]], n + 1)
<1> DEFINE g == [x \in DOMAIN f \cup {c} |-> IF x = c THEN n + 1 ELSE f[x]]
<1>1. Told(n + 1) = Told(n) \cup {n + 1}
  BY DEF Told
<1>2. \A i \in Told(n) : i \in Nat /\ i <= n
  BY DEF Told
<1>3. DOMAIN g = {Canonical(answer[i].name) : i \in Told(n + 1)}
  BY <1>1 DEF LastOf
<1>4. ASSUME NEW i \in Told(n + 1), NEW d, d = Canonical(answer[i].name)
      PROVE  i <= g[d] /\ g[d] \in Told(n + 1) /\ Canonical(answer[g[d]].name) = d
  <2>1. CASE d = c
    <3>1. g[d] = n + 1
      BY <2>1
    <3> HIDE DEF g
    <3> QED BY <1>1, <1>2, <1>4, <2>1, <3>1
  <2>2. CASE d # c
    <3>1. i \in Told(n)
      BY <1>1, <1>4, <2>2
    <3>2. d \in DOMAIN f /\ i <= f[d] /\ f[d] \in Told(n) /\ Canonical(answer[f[d]].name) = d
      BY <1>4, <3>1 DEF LastOf
    <3>3. g[d] = f[d]
      BY <2>2, <3>2
    <3> HIDE DEF g
    <3> QED BY <1>1, <3>2, <3>3
  <2> QED BY <2>1, <2>2
<1> HIDE DEF g
<1>5. LastOf(g, n + 1)
  BY <1>3, <1>4 DEF LastOf
<1> QED BY <1>5 DEF g

LEMMA LastOfSame ==
  ASSUME NEW n \in Nat, NEW f, LastOf(f, n), answer[n + 1].name = "type" \/ answer[n + 1].blank
  PROVE  LastOf(f, n + 1)
<1>1. Told(n + 1) = Told(n)
  BY DEF Told
<1> QED BY <1>1 DEF LastOf

LEMMA LastTypeNext ==
  ASSUME NEW n \in Nat, NEW t \in 0..n, LastType(t, n), NEW u \in 0..n + 1,
         IF answer[n + 1].name = "type" THEN u = n + 1 \/ (u = 0 /\ provider = "textract") ELSE u = t
  PROVE  LastType(u, n + 1)
BY DEF LastType

Pending == \E i \in DOMAIN todo : todo[i] = "analysis"

\* An answer is adapted once, by the analysis, into a result that was empty.
ReadingInv ==
    /\ adapted \in Nat
    /\ reading = [type |-> reading.type, fields |-> reading.fields]
    /\ reading.type \in 0..adapted
    /\ LastOf(reading.fields, adapted)
    /\ LastType(reading.type, adapted)
    /\ IF step = "adapt" THEN Remote ELSE Pending => adapted = 0

LEMMA ReadingInvImplies == ReadingInv => LastWordWins
BY DEF ReadingInv, LastWordWins, LastOf, LastType, Told

\* Of two processors, only the first is the analysis.
LEMMA AnalysisOnce == ASSUME RunsInv, Runs("analysis"), todo' = Tail(todo) PROVE ~Pending'
<1>1. ASSUME NEW p, todo = <<p>> PROVE ~Pending'
  BY <1>1 DEF Pending
<1>2. ASSUME NEW p, NEW q, p # q, todo = <<p, q>> PROVE ~Pending'
  <2>1. todo' = <<q>> /\ p = "analysis"
    BY <1>2 DEF Runs
  <2> QED BY <1>2, <2>1 DEF Pending
<1>3. todo # << >>
  BY DEF Runs
<1> QED BY <1>1, <1>2, <1>3 DEF RunsInv

LEMMA RunsPending == ASSUME RunsInv, Runs("analysis") PROVE Pending
<1>1. todo # << >> /\ Head(todo) = "analysis"
  BY DEF Runs
<1>2. 1 \in DOMAIN todo /\ todo[1] = Head(todo)
  BY <1>1 DEF RunsInv
<1> QED BY <1>1, <1>2 DEF Pending

\* Of any list, what is pending in the rest is pending in all.
LEMMA PendingInTail == ASSUME RunsInv, todo # << >>, todo' = Tail(todo), Pending' PROVE Pending
<1>1. ASSUME NEW p, todo = <<p>> PROVE Pending
  BY <1>1 DEF Pending
<1>2. ASSUME NEW p, NEW q, todo = <<p, q>> PROVE Pending
  <2>1. todo' = <<q>> /\ todo[2] = q /\ 2 \in DOMAIN todo
    BY <1>2
  <2>2. q = "analysis"
    <3>1. PICK i \in DOMAIN todo' : todo'[i] = "analysis"
      BY DEF Pending
    <3>2. \A x \in DOMAIN <<q>> : <<q>>[x] = q
      OBVIOUS
    <3> QED BY <2>1, <3>1, <3>2, Zenon
  <2>3. todo[2] = "analysis"
    BY <2>1, <2>2
  <2> QED BY <2>1, <2>3 DEF Pending
<1> QED BY <1>1, <1>2 DEF RunsInv

LEMMA AnswerKept ==
  ASSUME UNCHANGED <<provider, answer>>, LastOf(reading'.fields, adapted'), LastType(reading'.type, adapted')
  PROVE  LastOf(reading.fields, adapted)' /\ LastType(reading.type, adapted)'
<1>1. \A name : Canonical(name)' = Canonical(name)
  BY DEF Canonical
<1>2. Told(adapted)' = Told(adapted')
  BY DEF Told
<1>3. LastOf(reading.fields, adapted)'
  BY <1>1, <1>2 DEF LastOf
<1>4. LastType(reading.type, adapted)'
  BY DEF LastType
<1> QED BY <1>3, <1>4

LEMMA ReadingKept ==
  ASSUME ReadingInv, UNCHANGED <<provider, answer, adapted, reading>>,
         IF step' = "adapt" THEN Remote' ELSE Pending' => adapted = 0
  PROVE  ReadingInv'
<1>1. LastOf(reading.fields, adapted)' /\ LastType(reading.type, adapted)'
  BY AnswerKept DEF ReadingInv
<1> QED BY <1>1 DEF ReadingInv

LEMMA AdaptKeeps ==
  ASSUME ReadingInv, UNCHANGED <<provider, answer, step, todo>>, step = "adapt",
         adapted' = adapted + 1, reading' = Adapt(adapted + 1)
  PROVE  ReadingInv'
<1> DEFINE n == adapted
           item == answer[n + 1]
           c == Canonical(item.name)
           g == [x \in DOMAIN reading.fields \cup {c} |-> IF x = c THEN n + 1 ELSE reading.fields[x]]
<1>1. /\ n \in Nat /\ reading.type \in 0..n /\ LastOf(reading.fields, n) /\ LastType(reading.type, n)
      /\ reading = [type |-> reading.type, fields |-> reading.fields]
  BY DEF ReadingInv
<1>2. Remote'
  BY DEF ReadingInv, Remote, Runs
<1>3. /\ reading' = [type |-> reading'.type, fields |-> reading'.fields]
      /\ reading'.type \in 0..n + 1
      /\ LastOf(reading'.fields, n + 1) /\ LastType(reading'.type, n + 1)
  <2>1. CASE item.name = "type"
    <3>1. PICK u \in {0, n + 1} : /\ reading' = [reading EXCEPT !.type = u]
                                  /\ u = 0 => provider = "textract"
      BY <1>1, <2>1 DEF Adapt
    <3>2. reading' = [type |-> u, fields |-> reading.fields] /\ u \in 0..n + 1
      BY <1>1, <3>1
    <3>3. LastType(u, n + 1)
      BY <1>1, <2>1, <3>1, <3>2, LastTypeNext
    <3>4. LastOf(reading.fields, n + 1)
      BY <1>1, <2>1, LastOfSame
    <3> QED BY <3>2, <3>3, <3>4
  <2>2. CASE item.name # "type"
    <3>1. LastType(reading.type, n + 1) /\ reading.type \in 0..n + 1
      BY <1>1, <2>2, LastTypeNext
    <3>2. CASE item.blank
      <4>1. reading' = reading
        BY <2>2, <3>2 DEF Adapt
      <4>2. LastOf(reading.fields, n + 1)
        BY <1>1, <3>2, LastOfSame
      <4> QED BY <1>1, <3>1, <4>1, <4>2
    <3>3. CASE ~item.blank
      <4>1. reading' = [reading EXCEPT !.fields = g]
        BY <2>2, <3>3 DEF Adapt
      <4>2. LastOf(g, n + 1)
        BY <1>1, <2>2, <3>3, LastOfNext
      <4> HIDE DEF g
      <4>3. reading' = [type |-> reading.type, fields |-> g]
        BY <1>1, <4>1
      <4> QED BY <3>1, <4>2, <4>3
    <3> QED BY <3>2, <3>3
  <2> QED BY <2>1, <2>2
<1>4. LastOf(reading.fields, adapted)' /\ LastType(reading.type, adapted)'
  BY <1>3, AnswerKept
<1> QED BY <1>1, <1>2, <1>3, <1>4 DEF ReadingInv

-----------------------------------------------------------------------------
(* Both together.                                                         *)

DocumentsInv == AnalyzerInv /\ RunsInv /\ ReadingInv

LEMMA DocumentsInitInv == DocumentsInit => DocumentsInv
<1> SUFFICES ASSUME DocumentsInit PROVE DocumentsInv
  OBVIOUS
<1>1. AnalyzerInv
  BY AnalyzerInitInv DEF DocumentsInit
<1>2. RunsInv
  <2>1. /\ wanted \in {<< >>, <<"analysis">>, <<"summarization">>, <<"analysis", "summarization">>}
        /\ todo = wanted /\ updates = {} /\ broken = {}
    BY DEF DocumentsInit
  <2> QED BY <2>1 DEF RunsInv, Processor
<1>3. ReadingInv
  <2>1. reading = [type |-> 0, fields |-> << >>] /\ adapted = 0 /\ step = "next"
    BY DEF DocumentsInit, NoReading
  <2>2. Told(0) = {}
    BY DEF Told
  <2>3. LastOf(<< >>, 0)
    BY <2>2 DEF LastOf
  <2>4. LastType(0, 0)
    BY DEF LastType
  <2> QED BY <2>1, <2>3, <2>4 DEF ReadingInv
<1> QED BY <1>1, <1>2, <1>3 DEF DocumentsInv

LEMMA DocumentsStep == ASSUME DocumentsInv, [DocumentsNext]_documentVars PROVE DocumentsInv'
<1> USE DEF DocumentsInv
<1>1. ASSUME UNCHANGED analyzerVars PROVE AnalyzerInv'
  BY <1>1 DEF analyzerVars, AnalyzerInv, FieldsInv, FilesInv, Accounted, VariantFiles, TempFilesGo
<1>2. ASSUME UNCHANGED <<wanted, todo, updates, broken>> PROVE RunsInv'
  BY <1>2 DEF RunsInv
<1>3. ASSUME UNCHANGED processorVars PROVE RunsInv' /\ ReadingInv'
  <2>1. UNCHANGED <<provider, wanted, todo, step, answer, adapted, reading, updates, broken>>
    BY <1>3 DEF processorVars
  <2>2. IF step' = "adapt" THEN Remote' ELSE Pending' => adapted = 0
    BY <2>1 DEF ReadingInv, Remote, Runs, Pending
  <2> QED BY <1>2, <2>1, <2>2, ReadingKept
<1>4. ASSUME UNCHANGED <<analyzerVars, wanted>>, todo # << >>, Returns \/ Raises
      PROVE  AnalyzerInv' /\ RunsInv' /\ todo' = Tail(todo)
  BY <1>1, <1>4, RunsStep DEF Returns, Raises
\* The analysis is over: nothing is adapted any more.
<1>5. ASSUME UNCHANGED <<analyzerVars, wanted, provider, answer, adapted, reading>>,
             Runs("analysis"), Returns \/ Raises, step' # "adapt"
      PROVE  DocumentsInv'
  <2>1. AnalyzerInv' /\ RunsInv' /\ todo' = Tail(todo)
    BY <1>4, <1>5 DEF Runs
  <2>2. ~Pending'
    BY <1>5, <2>1, AnalysisOnce
  <2> QED BY <1>5, <2>1, <2>2, ReadingKept
\* A step of the analysis before it adapts anything.
<1>6. ASSUME UNCHANGED <<analyzerVars, wanted, provider, answer, adapted, reading, todo, updates, broken>>,
             step # "adapt", step' # "adapt"
      PROVE  DocumentsInv'
  <2>1. Pending' => adapted = 0
    BY <1>6 DEF ReadingInv, Pending
  <2> QED BY <1>1, <1>2, <1>6, <2>1, ReadingKept
<1>7. CASE UNCHANGED documentVars
  BY <1>1, <1>3, <1>7 DEF documentVars
<1>8. CASE AnalyzeLocally
  BY <1>3, <1>8, AnalyzerStep DEF AnalyzeLocally
<1>9. CASE LocalResult
  BY <1>5, <1>9 DEF LocalResult, ReadingInv, Remote
<1>10. CASE Scan
  BY <1>5, <1>10 DEF Scan, ReadingInv, Remote
<1>11. CASE Summarize
  <2>1. AnalyzerInv' /\ RunsInv' /\ todo' = Tail(todo) /\ todo # << >>
    BY <1>4, <1>11 DEF Summarize, Runs
  <2>2. step # "adapt"
    BY <1>11 DEF Summarize, ReadingInv, Remote, Runs
  <2>3. Pending' => adapted = 0
    BY <2>1, <2>2, PendingInTail DEF ReadingInv
  <2> QED BY <1>11, <2>1, <2>2, <2>3, ReadingKept DEF Summarize
<1>12. CASE ToJpeg
  <2>1. /\ Runs("analysis") /\ step = "next"
        /\ UNCHANGED <<analyzerVars, wanted, provider, answer, adapted, reading>>
        /\ \/ Raises /\ UNCHANGED step
           \/ step' = "call" /\ UNCHANGED <<todo, updates, broken>>
    BY <1>12 DEF ToJpeg, Remote
  <2> QED BY <1>5, <1>6, <2>1
<1>13. CASE Call
  <2>1. /\ Runs("analysis") /\ step = "call"
        /\ UNCHANGED <<analyzerVars, wanted, provider, adapted, reading>>
    BY <1>13 DEF Call, Remote
  <2>2. CASE Raises /\ step' = "next" /\ UNCHANGED answer
    BY <1>5, <2>1, <2>2
  <2>3. CASE step' = "adapt" /\ UNCHANGED <<todo, updates, broken>>
    <3>1. Pending
      BY <2>1, RunsPending
    <3>2. adapted = 0 /\ DOMAIN reading.fields = {} /\ reading.type = 0
      BY <2>1, <3>1 DEF ReadingInv, LastOf, Told
    <3>3. ReadingInv'
      BY <2>1, <2>3, <3>2, <1>13 DEF ReadingInv, LastOf, LastType, Told, Runs, Remote, Call
    <3> QED BY <1>1, <1>2, <2>1, <2>3, <3>3
  <2> QED BY <1>13, <2>2, <2>3 DEF Call
<1>14. CASE AdaptItem
  <2>1. /\ Runs("analysis") /\ step = "adapt"
        /\ UNCHANGED <<analyzerVars, wanted, provider, answer>>
    BY <1>14 DEF AdaptItem, Remote
  <2>2. CASE adapted' = adapted + 1 /\ reading' = Adapt(adapted + 1) /\ UNCHANGED <<todo, step, updates, broken>>
    BY <1>1, <1>2, <2>1, <2>2, AdaptKeeps
  <2>3. CASE Raises /\ step' = "next" /\ UNCHANGED <<adapted, reading>>
    BY <1>5, <2>1, <2>3
  <2> QED BY <1>14, <2>2, <2>3 DEF AdaptItem
<1>15. CASE Result
  BY <1>5, <1>15 DEF Result, Remote
<1> QED
  BY <1>7, <1>8, <1>9, <1>10, <1>11, <1>12, <1>13, <1>14, <1>15 DEF DocumentsNext

LEMMA DocumentsInvHolds == DocumentsSpec => []DocumentsInv
<1>1. DocumentsInv /\ [DocumentsNext]_documentVars => DocumentsInv'
  BY DocumentsStep
<1> QED BY <1>1, DocumentsInitInv, PTL DEF DocumentsSpec

-----------------------------------------------------------------------------
(* Types of what is read.                                                  *)

LEMMA PrintedTypes ==
  ASSUME NEW fmt, NEW d \in Dates
  PROVE  \E a \in Nat, b \in 0..31, c \in Nat :
            /\ Printed(fmt, d) = <<a, b, c>>
            /\ fmt \in {"barcode", "license"} => a \in 0..31
            /\ fmt = "mrz" => c \in 0..31
            /\ fmt \notin {"barcode", "license", "mrz"} => a \in 0..31
<1>1. d.year \in Nat /\ d.month \in 1..12 /\ d.day \in 1..31
  BY DEF Dates
<1>2. d.year % 100 \in 0..99
  BY <1>1
<1>3. d.month \in 0..31 /\ d.day \in 0..31 /\ d.month \in Nat /\ d.day \in Nat
  BY <1>1
<1>4. CASE fmt = "mrz"
  BY <1>2, <1>3, <1>4 DEF Printed
<1>5. CASE fmt \in {"barcode", "license", "month_first"}
  BY <1>1, <1>3, <1>5 DEF Printed
<1>6. CASE fmt \notin {"barcode", "license", "month_first", "mrz"}
  BY <1>1, <1>3, <1>6 DEF Printed
<1> QED BY <1>4, <1>5, <1>6

LEMMA ReadTypes ==
  ASSUME NEW use \in Use, NEW fmt \in Format, NEW d \in Dates
  PROVE  Read(use, fmt, Printed(fmt, d)) \in Reading
<1> DEFINE f == Printed(fmt, d)
<1>1. NoDate \in Reading
  BY DEF NoDate, Date, Reading
<1>2. \A y \in Nat, m \in 0..31, k \in 0..31 : Date(y, m, k) \in Reading
  BY DEF Date, Reading
<1>3. PICK a \in Nat, b \in 0..31, c \in Nat :
         /\ f = <<a, b, c>>
         /\ fmt \in {"barcode", "license"} => a \in 0..31
         /\ fmt = "mrz" => c \in 0..31
         /\ fmt \notin {"barcode", "license", "mrz"} => a \in 0..31
  BY PrintedTypes
<1>4. f[1] = a /\ f[2] = b /\ f[3] = c
  BY <1>3
<1> HIDE DEF f
<1>5. CASE fmt = "barcode"
  BY <1>1, <1>2, <1>3, <1>4, <1>5 DEF Read, ReadBarcode, f
<1>6. CASE fmt = "mrz"
  <2>1. BirthYear(a) \in Nat /\ ExpiryYear(a) \in Nat
    BY <1>3 DEF BirthYear, ExpiryYear
  <2> QED BY <1>1, <1>2, <1>3, <1>4, <1>6, <2>1 DEF Read, ReadMrz, f
<1>7. CASE fmt = "license"
  BY <1>1, <1>2, <1>3, <1>4, <1>7 DEF Read, ReadLicense, f
<1>8. CASE fmt \in {"named", "day_first", "month_first"}
  <2>1. ReadPassport(f) \in Reading
    BY <1>2, <1>3, <1>4, <1>8 DEF ReadPassport
  <2> QED BY <1>1, <1>8, <2>1 DEF Read, ReadPassportExpiry, f
<1> QED BY <1>5, <1>6, <1>7, <1>8 DEF Format

LEMMA NumberTypes == ASSUME NEW n \in Seq(0..9) PROVE ReadNumber(n) \in Seq(0..9)
<1>1. CASE Len(n) < 3
  BY <1>1 DEF ReadNumber
<1>2. CASE ~(Len(n) < 3)
  <2>1. n[1] \in 0..9 /\ n[2] \in 0..9 /\ Len(n) \in Nat
    BY <1>2
  <2>2. PICK length \in Nat : length = 10 * n[1] + n[2]
    <3>1. \A a, b \in 0..9 : 10 * a + b \in Nat
      OBVIOUS
    <3>2. 10 * n[1] + n[2] \in Nat
      BY <2>1, <3>1, Zenon
    <3> QED BY <3>2
  <2>3. PICK to \in Nat : /\ to = IF length + 2 < Len(n) THEN length + 2 ELSE Len(n)
                          /\ to <= Len(n)
    BY <2>1, <2>2
  <2>4. ReadNumber(n) = SubSeq(n, 3, to)
    BY <1>2, <2>2, <2>3 DEF ReadNumber
  <2> QED BY <2>3, <2>4
<1> QED BY <1>1, <1>2

Fields == [format: Format \cup {"none"}, birth: Reading, expiry: Reading, number: Seq(0..9)]

LEMMA FieldsTypes ==
  ASSUME NEW fmt \in Format \cup {"none"}, NEW p \in Imprint
  PROVE  FieldsOf(fmt, p) \in Fields
<1>1. NoFields \in Fields
  BY DEF NoFields, Fields, NoDate, Date, Reading
<1>2. CASE fmt = "none"
  BY <1>1, <1>2 DEF FieldsOf
<1>3. CASE fmt \in Format /\ fmt # "none"
  <2>1. p.birth \in Dates /\ p.expiry \in Dates /\ p.number \in Seq(0..9)
    BY DEF Imprint
  <2>2. ReadDates(fmt, p).birth \in Reading
    BY <1>3, <2>1, ReadTypes DEF ReadDates, Use
  <2>3. ReadDates(fmt, p).expiry \in Reading
    BY <1>3, <2>1, ReadTypes DEF ReadDates, Use
  <2>4. ReadNumber(p.number) \in Seq(0..9) /\ << >> \in Seq(0..9)
    BY <2>1, NumberTypes
  <2> QED BY <1>3, <2>2, <2>3, <2>4 DEF FieldsOf, Fields
<1> QED BY <1>2, <1>3

LEMMA InferTypes == ASSUME NEW words PROVE Infer(words) \in Type
BY DEF Infer, Type

LEMMA MrzTypes == ASSUME NEW t, NEW isP PROVE MrzType(t, isP) \in Type
BY DEF MrzType, Type

-----------------------------------------------------------------------------
(* The evidence.                                                           *)

\* The reading kept is better than all before it, and no reading that counts is better.
Kept(b, rs) ==
    /\ b # 0 => /\ b \in DOMAIN rs /\ rs[b].data
                /\ \A i \in DOMAIN rs : i < b => rs[i].score < rs[b].score
    /\ \A i \in Good(rs) : b # 0 /\ rs[i].score <= rs[b].score

\* What the readers before the statement said of the page at hand.
PageInv(e) ==
    /\ at = "barcode" => e = Nothing /\ best = 0 /\ made = 0
    /\ at \in {"mrz", "prepare", "variants", "text"} => e.payload # "aamva" /\ e.words = {}
    /\ at = "mrz" => e.readings = << >> /\ best = 0 /\ made = 0
    /\ at = "prepare" => ~e.readings[1].data /\ Len(e.readings) = 1 /\ best = 0 /\ made = 0
    /\ at = "variants" => Len(e.readings) \in 1..made + 1 /\ Kept(best, e.readings)
    /\ at = "text" => Good(e.readings) = {}
    /\ at = "convert" => Verdict(e) = "none"
    /\ at = "end" => result.source = Verdict(e)
    /\ at = "end" /\ result.source = "mrz" => best # 0 /\ Kept(best, e.readings)

\* Pages before the one at hand say nothing, those after it have not been read.
EvidenceInv ==
    /\ page + left <= Pages
    /\ page = 0 => at \in {"open", "convert", "end"}
    /\ at = "open" => page = 0
    /\ at # "end" \/ page = 0 => result.source = "none"
    /\ \A p \in 1..Pages : /\ p < page => Verdict(seen[p]) = "none"
                           /\ p > page => seen[p] = Nothing
                           /\ Pdf417Counts(seen[p])
    /\ page > 0 => PageInv(seen[page])

LEMMA LeastOf == ASSUME NEW S, S \subseteq Nat, S # {} PROVE \E x \in S : \A y \in S : x <= y
<1>1. \E x \in S : \A y \in S : ~(<<y, x>> \in OpToRel(<, Nat))
  BY NatLessThanWellFounded, WFMin
<1>2. PICK x \in S : \A y \in S : ~(<<y, x>> \in OpToRel(<, Nat))
  BY <1>1
<1>3. \A y \in S : ~(y < x)
  BY <1>2 DEF OpToRel
<1> QED BY <1>3

LEMMA PickTypes ==
  ASSUME NEW codes \in Codes \cup {<< >>}
  PROVE  /\ codes \in Seq(Barcode) /\ Pick(codes) \in Payload
         /\ \A e : e.codes = codes /\ e.payload = Pick(codes) => Pdf417Counts(e)
<1> DEFINE stops == {i \in DOMAIN codes : codes[i].kind # "other"}
           stop  == CHOOSE i \in stops : \A j \in stops : i <= j
           clear == {i \in DOMAIN codes :
                        /\ codes[i].kind = "pdf417"
                        /\ \A j \in DOMAIN codes : j < i => codes[j].kind # "opaque"}
<1>1. codes \in Seq(Barcode)
  <2>1. << >> \in Seq(Barcode)
    OBVIOUS
  <2> QED BY <2>1, AnalyzerAssumption, Zenon
<1>2. /\ DOMAIN codes \subseteq Nat
      /\ \A i \in DOMAIN codes : codes[i].payload \in Payload
                                 /\ codes[i].kind \in {"pdf417", "other", "opaque"}
  <2>1. \A i \in DOMAIN codes : codes[i] \in Barcode
    BY <1>1
  <2>2. DOMAIN codes \subseteq Nat
    BY <1>1
  <2> QED BY <2>1, <2>2 DEF Barcode
<1>3. Pick(codes) \in Payload
  <2>1. CASE codes = << >>
    BY <2>1 DEF Pick, Payload
  <2>2. CASE codes # << >>
    <3>1. 1 \in DOMAIN codes
      BY <1>1, <2>2
    <3>2. stops # {} => stop \in DOMAIN codes
      <4>1. stops # {} => \E i \in stops : \A j \in stops : i <= j
        BY <1>2, LeastOf
      <4>2. stops # {} => stop \in stops
        BY <4>1, Zenon
      <4> HIDE DEF stop
      <4> QED BY <4>2
    <3>3. Pick(codes) = IF stops # {} /\ codes[stop].kind = "pdf417"
                        THEN codes[stop].payload ELSE codes[1].payload
      BY <2>2 DEF Pick
    <3> HIDE DEF stops, stop
    <3> QED BY <1>2, <3>1, <3>2, <3>3
  <2> QED BY <2>1, <2>2
<1>4. ASSUME clear # {}
      PROVE  stop \in clear /\ Pick(codes) = codes[stop].payload
  <2>1. PICK i \in clear : TRUE
    BY <1>4
  <2>2. i \in stops /\ codes # << >>
    BY <2>1
  <2>3. \E k \in stops : \A j \in stops : k <= j
    BY <1>2, <2>2, LeastOf
  <2>4. stop \in stops /\ \A j \in stops : stop <= j
    BY <2>3, Zenon
  <2> HIDE DEF stop
  <2>5. stop <= i /\ stop \in DOMAIN codes /\ i \in DOMAIN codes
    BY <2>2, <2>4
  <2>6. codes[stop].kind = "pdf417"
    <3>1. CASE stop = i
      BY <2>1, <3>1
    <3>2. CASE stop < i
      BY <1>2, <2>1, <2>4, <2>5, <3>2
    <3> QED BY <1>2, <2>5, <3>1, <3>2
  <2>7. \A j \in DOMAIN codes : j < stop => codes[j].kind # "opaque"
    <3> SUFFICES ASSUME NEW j \in DOMAIN codes, j < stop PROVE codes[j].kind # "opaque"
      OBVIOUS
    <3>1. j < i
      BY <1>2, <2>5
    <3> QED BY <2>1, <3>1
  <2>8. Pick(codes) = codes[stop].payload
    BY <2>2, <2>6 DEF Pick, stop
  <2> QED BY <2>5, <2>6, <2>7, <2>8
<1>5. ASSUME NEW e, e.codes = codes, e.payload = Pick(codes) PROVE Pdf417Counts(e)
  <2> HIDE DEF stop
  <2> QED BY <1>4, <1>5 DEF Pdf417Counts
<1> QED BY <1>1, <1>3, <1>5

Notes == [payload: Payload, codes: Codes \cup {<< >>}, readings: Seq(Mrz), words: SUBSET Word]

\* Of the pages only the one at hand is written on.
LEMMA NoteKeeps ==
  ASSUME seen \in [1..Pages -> Notes], page \in 1..Pages, NEW e \in Notes,
         seen' = [seen EXCEPT ![page] = e]
  PROVE  /\ seen' \in [1..Pages -> Notes] /\ seen'[page] = e
         /\ \A p \in 1..Pages : p # page => seen'[p] = seen[p]
OBVIOUS

LEMMA EvidenceKept ==
  ASSUME EvidenceInv, page \in 1..Pages, left \in Nat, UNCHANGED <<page, left>>,
         \A p \in 1..Pages : p # page => seen'[p] = seen[p],
         at' # "open", at' # "end" => result'.source = "none",
         Pdf417Counts(seen'[page]), PageInv(seen[page])'
  PROVE  EvidenceInv'
<1>1. \A p \in 1..Pages : /\ p < page' => Verdict(seen'[p]) = "none"
                          /\ p > page' => seen'[p] = Nothing
                          /\ Pdf417Counts(seen'[p])
  <2> SUFFICES ASSUME NEW p \in 1..Pages
               PROVE  /\ p < page' => Verdict(seen'[p]) = "none"
                      /\ p > page' => seen'[p] = Nothing
                      /\ Pdf417Counts(seen'[p])
    OBVIOUS
  <2>1. CASE p = page
    BY <2>1
  <2>2. CASE p # page
    BY <2>2 DEF EvidenceInv
  <2> QED BY <2>1, <2>2
<1>2. page' # 0
  OBVIOUS
<1>3. \A p \in 1..Pages : Pdf417Counts(seen'[p]) = Pdf417Counts(seen[p])' /\ Verdict(seen'[p]) = Verdict(seen[p])'
  BY DEF Pdf417Counts, Verdict
<1> QED BY <1>1, <1>2, <1>3 DEF EvidenceInv

Results == [source: {"none", "barcode", "mrz", "text"}, type: Type, confidence: 0..100]

LEMMA FoundTypes ==
  ASSUME AnalyzerTypeOK,
         NEW source \in {"barcode", "mrz", "text"}, NEW type \in Type, NEW score \in Nat,
         NEW fmts \in SUBSET (Format \cup {"none"}), NEW fs \in SUBSET File, NEW st \in SUBSET File,
         Found(source, type, score, fmts, fs, st)
  PROVE  /\ at' = "end" /\ files' \subseteq File /\ stuck' \subseteq File
         /\ result' \in Results /\ result'.source = source
         /\ print' \in Prints \cup {NoPrint} /\ fields' \in Fields
<1>1. at' = "end" /\ files' \subseteq File /\ stuck' \subseteq File
  BY DEF Found, Close, AnalyzerTypeOK
<1>2. Confidence(source, score) \in 0..100
  BY DEF Confidence
<1>3. result' \in Results /\ result'.source = source
  BY <1>2 DEF Found, Results
<1>4. PICK p \in Prints, fmt \in fmts : print' = p /\ fields' = FieldsOf(fmt, p)
  BY DEF Found
<1>5. fields' \in Fields
  BY <1>4, FieldsTypes, AnalyzerAssumption
<1> QED BY <1>1, <1>3, <1>4, <1>5

EvidencedInv == AnalyzerTypeOK /\ EvidenceInv

LEMMA EvidencedInit == AnalyzerInit => EvidencedInv
<1> SUFFICES ASSUME AnalyzerInit PROVE EvidencedInv
  OBVIOUS
<1>1. /\ page = 0 /\ left = 0 /\ at = "open" /\ best = 0 /\ made = 0 /\ result = Unknown
      /\ seen = [p \in 1..Pages |-> Nothing] /\ files = {} /\ listed = {} /\ stuck = {}
      /\ print = NoPrint /\ fields = NoFields /\ bytes \in BOOLEAN
  BY DEF AnalyzerInit
<1>2. Nothing \in Notes
  BY DEF Nothing, Notes, Payload
<1>3. NoFields \in Fields
  BY DEF NoFields, Fields, NoDate, Date, Reading
<1>4. Unknown \in Results /\ Unknown.source = "none"
  BY DEF Unknown, Results, Type
<1>5. AnalyzerTypeOK
  BY <1>1, <1>2, <1>3, <1>4, AnalyzerAssumption DEF AnalyzerTypeOK, Notes, Fields, Results
<1>6. Pdf417Counts(Nothing)
  BY DEF Pdf417Counts, Nothing
<1>7. EvidenceInv
  BY <1>1, <1>4, <1>6, AnalyzerAssumption DEF EvidenceInv
<1> QED BY <1>5, <1>7 DEF EvidencedInv

\* The facts that every step of a page starts from.
LEMMA PageFacts ==
  ASSUME EvidencedInv, at \notin {"open", "convert", "end"}
  PROVE  /\ page \in 1..Pages /\ left \in Nat /\ page + left <= Pages
         /\ seen \in [1..Pages -> Notes] /\ seen[page] \in Notes
         /\ Pdf417Counts(seen[page]) /\ PageInv(seen[page])
         /\ result \in Results /\ result.source = "none"
         /\ best \in Nat /\ made \in 0..Variants
         /\ files \subseteq File /\ stuck \subseteq File /\ listed \subseteq File
<1>1. page \in 0..Pages /\ left \in 0..Pages /\ Pages \in Nat
  BY AnalyzerAssumption DEF EvidencedInv, AnalyzerTypeOK
<1>2. page # 0
  BY DEF EvidencedInv, EvidenceInv
<1>3. page \in 1..Pages /\ page > 0
  BY <1>1, <1>2
<1>4. /\ seen \in [1..Pages -> Notes] /\ result \in Results /\ best \in 0..Variants + 1 /\ made \in 0..Variants
      /\ files \subseteq File /\ stuck \subseteq File /\ listed \subseteq File
  BY DEF EvidencedInv, AnalyzerTypeOK, Notes, Results
<1>5. /\ page + left <= Pages /\ Pdf417Counts(seen[page]) /\ PageInv(seen[page])
      /\ result.source = "none"
  BY <1>3 DEF EvidencedInv, EvidenceInv
<1> QED BY <1>1, <1>3, <1>4, <1>5, AnalyzerAssumption

\* A step of a page, from what it writes.
LEMMA PageStep ==
  ASSUME EvidencedInv, at \notin {"open", "convert", "end"},
         UNCHANGED <<bytes, page, left, listed>>,
         NEW e \in Notes, seen' = [seen EXCEPT ![page] = e],
         at' \in {"convert", "mrz", "prepare", "variants", "text", "end"},
         files' \subseteq File, stuck' \subseteq File,
         best' \in 0..Variants + 1, made' \in 0..Variants,
         result' \in Results, print' \in Prints \cup {NoPrint}, fields' \in Fields,
         at' # "end" => result'.source = "none",
         Pdf417Counts(e), seen'[page] = e => PageInv(seen[page])'
  PROVE  EvidencedInv'
<1>1. /\ page \in 1..Pages /\ left \in Nat /\ seen \in [1..Pages -> Notes]
  BY PageFacts
<1>2. /\ seen' \in [1..Pages -> Notes] /\ seen'[page] = e
      /\ \A p \in 1..Pages : p # page => seen'[p] = seen[p]
  BY <1>1, NoteKeeps
<1>3. EvidenceInv'
  BY <1>1, <1>2, EvidenceKept DEF EvidencedInv
<1>4. AnalyzerTypeOK'
  BY <1>2 DEF EvidencedInv, AnalyzerTypeOK, Notes, Fields, Results
<1> QED BY <1>3, <1>4 DEF EvidencedInv

LEMMA OpenEvidence == ASSUME EvidencedInv, Open PROVE EvidencedInv'
<1>1. Pages \in Nat /\ Pages > 0 /\ Variants \in Nat
  BY AnalyzerAssumption
<1>2. page = 0 /\ result.source = "none" /\ left \in 0..Pages
  BY DEF Open, EvidencedInv, EvidenceInv, AnalyzerTypeOK
<1>3. UNCHANGED <<bytes, page, seen, best, made, result, print, fields>>
  BY DEF Open
<1>4. {<<0, 0>>} \subseteq File
  BY <1>1 DEF File
<1>5. /\ at' \in {"convert", "end"} /\ left' \in 0..Pages
      /\ files' \subseteq File /\ listed' \subseteq File /\ stuck' \subseteq File
  <2>1. files \subseteq File /\ listed \subseteq File /\ stuck \subseteq File /\ 1 \in 0..Pages
    BY <1>1 DEF EvidencedInv, AnalyzerTypeOK
  <2>2. CASE bytes
    BY <1>2, <1>4, <2>1, <2>2 DEF Open
  <2>3. CASE ~bytes
    BY <1>2, <2>1, <2>3 DEF Open
  <2> QED BY <2>2, <2>3
<1>6. AnalyzerTypeOK'
  BY <1>3, <1>5 DEF EvidencedInv, AnalyzerTypeOK
<1>7. \A p \in 1..Pages : /\ ~(p < page') /\ seen'[p] = Nothing
                          /\ Pdf417Counts(seen[p])'
  BY <1>1, <1>2, <1>3 DEF EvidencedInv, EvidenceInv, Pdf417Counts
<1>8. page' + left' <= Pages /\ page' = 0 /\ result'.source = "none"
  <2>1. page' = 0
    BY <1>2, <1>3
  <2>2. result'.source = "none"
    BY <1>2, <1>3
  <2>3. page' + left' <= Pages
    <3>1. PICK l \in 0..Pages : l = left'
      BY <1>5
    <3>2. 0 + l <= Pages
      BY <1>1
    <3> QED BY <2>1, <3>1, <3>2
  <2> QED BY <2>1, <2>2, <2>3
<1>9. \A p \in 1..Pages : p < page' => Verdict(seen[p])' = "none"
  BY <1>7
<1>10. ~(page' > 0)
  BY <1>8
<1>11. EvidenceInv'
  BY <1>5, <1>7, <1>8, <1>9, <1>10 DEF EvidenceInv
<1> QED BY <1>6, <1>11 DEF EvidencedInv

LEMMA ConvertEvidence == ASSUME EvidencedInv, Convert PROVE EvidencedInv'
<1>1. Pages \in Nat /\ Pages > 0 /\ Variants \in Nat /\ page \in 0..Pages /\ left \in 0..Pages
  BY AnalyzerAssumption DEF EvidencedInv, AnalyzerTypeOK
<1>2. /\ at = "convert" /\ result.source = "none" /\ page + left <= Pages
      /\ UNCHANGED <<bytes, seen, result, print, fields>>
  BY DEF Convert, EvidencedInv, EvidenceInv
<1>3. \A p \in 1..Pages : p <= page => Verdict(seen[p]) = "none"
  <2> SUFFICES ASSUME NEW p \in 1..Pages, p <= page PROVE Verdict(seen[p]) = "none"
    OBVIOUS
  <2>1. CASE p < page
    BY <2>1 DEF EvidencedInv, EvidenceInv
  <2>2. CASE p = page
    BY <1>1, <1>2, <2>2 DEF EvidencedInv, EvidenceInv, PageInv
  <2> QED BY <1>1, <2>1, <2>2
<1>4. \A p \in 1..Pages : Pdf417Counts(seen[p]) /\ (p > page => seen[p] = Nothing)
  BY DEF EvidencedInv, EvidenceInv
<1> DEFINE jpeg == {<<page + 1, 0>>}
<1>5. left > 0 => jpeg \subseteq File
  BY <1>1, <1>2 DEF File
<1>6. ASSUME NEW fs \in SUBSET File, NEW st \in SUBSET File, Close(fs, st),
             UNCHANGED <<left, page, listed, best, made>>
      PROVE  EvidencedInv'
  <2>1. at' = "end" /\ files' \subseteq File /\ stuck' \subseteq File
    BY <1>6 DEF Close, EvidencedInv, AnalyzerTypeOK
  <2>2. AnalyzerTypeOK'
    BY <1>2, <1>6, <2>1 DEF EvidencedInv, AnalyzerTypeOK
  <2>3. page > 0 => PageInv(seen[page])'
    BY <1>1, <1>2, <1>3, <1>6, <2>1 DEF PageInv, Verdict
  <2>4. \A p \in 1..Pages : /\ p < page' => Verdict(seen[p])' = "none"
                            /\ p > page' => seen'[p] = Nothing
                            /\ Pdf417Counts(seen[p])'
    BY <1>1, <1>2, <1>3, <1>4, <1>6 DEF Verdict, Pdf417Counts
  <2>5. EvidenceInv'
    BY <1>1, <1>2, <1>6, <2>1, <2>3, <2>4 DEF EvidenceInv
  <2> QED BY <2>2, <2>5 DEF EvidencedInv
<1>7. CASE Close(files, stuck) /\ UNCHANGED <<left, page, listed, best, made>>
  BY <1>6, <1>7 DEF EvidencedInv, AnalyzerTypeOK
<1>8. CASE left > 0 /\ Close(files \cup jpeg, stuck \cup jpeg) /\ UNCHANGED <<left, page, listed, best, made>>
  <2>1. files \cup jpeg \in SUBSET File /\ stuck \cup jpeg \in SUBSET File
    BY <1>5, <1>8 DEF EvidencedInv, AnalyzerTypeOK
  <2> QED BY <1>6, <1>8, <2>1
<1>9. CASE /\ left > 0 /\ at' = "barcode" /\ page' = page + 1 /\ left' = left - 1
           /\ files' = files \cup jpeg /\ listed' = listed \cup jpeg
           /\ best' = 0 /\ made' = 0 /\ UNCHANGED stuck
  <2>1. /\ page' \in 1..Pages /\ page' > page /\ left' \in 0..Pages /\ page' + left' <= Pages
        /\ \A p \in 1..Pages : (p < page' => p <= page) /\ (p > page' => p > page)
    BY <1>1, <1>2, <1>9
  <2>2. AnalyzerTypeOK'
    <3>1. files' \subseteq File /\ listed' \subseteq File /\ stuck' \subseteq File
      BY <1>5, <1>9 DEF EvidencedInv, AnalyzerTypeOK
    <3>2. best' \in 0..Variants + 1 /\ made' \in 0..Variants
      BY <1>1, <1>9
    <3> QED BY <1>2, <1>9, <2>1, <3>1, <3>2 DEF EvidencedInv, AnalyzerTypeOK
  <2>3. seen'[page'] = Nothing
    BY <1>2, <1>4, <2>1
  <2>4. PageInv(seen[page])'
    BY <1>9, <2>3 DEF PageInv
  <2>5. \A p \in 1..Pages : /\ p < page' => Verdict(seen[p])' = "none"
                            /\ p > page' => seen'[p] = Nothing
                            /\ Pdf417Counts(seen[p])'
    BY <1>2, <1>3, <1>4, <2>1 DEF Verdict, Pdf417Counts
  <2>6. EvidenceInv'
    BY <1>1, <1>2, <1>9, <2>1, <2>4, <2>5 DEF EvidenceInv
  <2> QED BY <2>2, <2>6 DEF EvidencedInv
<1> QED BY <1>7, <1>8, <1>9 DEF Convert

\* A step that finds nothing leaves the classification as it is.
LEMMA NotFoundTypes ==
  ASSUME EvidencedInv, UNCHANGED <<result, print, fields>>
  PROVE  result' \in Results /\ print' \in Prints \cup {NoPrint} /\ fields' \in Fields
BY DEF EvidencedInv, AnalyzerTypeOK, Results, Fields

LEMMA Bounds == EvidencedInv => best \in 0..Variants + 1 /\ made \in 0..Variants /\ AnalyzerTypeOK
BY DEF EvidencedInv, AnalyzerTypeOK

LEMMA DecodeEvidence == ASSUME EvidencedInv, Decode PROVE EvidencedInv'
<1>1. /\ at = "barcode" /\ UNCHANGED <<bytes, page, left, listed, best, made>>
  BY DEF Decode
<1>2. PICK codes \in Codes \cup {<< >>} :
      \E payload \in {Pick(codes)} \cup (IF codes = << >> THEN Payload ELSE {}) :
          /\ seen' = [seen EXCEPT ![page] = [@ EXCEPT !.codes = codes, !.payload = payload]]
          /\ IF payload = "aamva"
             THEN Found("barcode", "drivers_license", 0, {"barcode"}, files, stuck)
             ELSE NotFound("mrz")
  BY DEF Decode
<1>3. PICK payload \in {Pick(codes)} \cup (IF codes = << >> THEN Payload ELSE {}) :
          /\ seen' = [seen EXCEPT ![page] = [@ EXCEPT !.codes = codes, !.payload = payload]]
          /\ IF payload = "aamva"
             THEN Found("barcode", "drivers_license", 0, {"barcode"}, files, stuck)
             ELSE NotFound("mrz")
  BY <1>2
<1>4. /\ page \in 1..Pages /\ seen \in [1..Pages -> Notes] /\ result.source = "none"
      /\ files \in SUBSET File /\ stuck \in SUBSET File
      /\ seen[page] = Nothing /\ best = 0 /\ made = 0
  BY <1>1, PageFacts DEF PageInv
<1>5. payload \in Payload
  BY <1>3, PickTypes
<1> DEFINE e == [seen[page] EXCEPT !.codes = codes, !.payload = payload]
<1>6. seen' = [seen EXCEPT ![page] = e]
  BY <1>3, <1>4
<1>7. /\ e \in Notes /\ e.payload = payload /\ e.codes = codes
      /\ e.words = {} /\ e.readings = << >>
  <2>1. seen[page] \in Notes /\ seen[page].words = {} /\ seen[page].readings = << >>
    <3>1. seen[page] \in Notes
      BY <1>4
    <3>2. Nothing.words = {} /\ Nothing.readings = << >>
      BY DEF Nothing
    <3> QED BY <1>4, <3>1, <3>2
  <2> QED BY <1>5, <2>1 DEF Notes
<1> HIDE DEF e
<1>8. Pdf417Counts(e)
  BY <1>3, <1>7, PickTypes DEF Pdf417Counts
<1>9. CASE payload = "aamva"
  <2>1. Found("barcode", "drivers_license", 0, {"barcode"}, files, stuck)
    BY <1>3, <1>9
  <2>2. /\ at' = "end" /\ files' \subseteq File /\ stuck' \subseteq File
        /\ result' \in Results /\ result'.source = "barcode"
        /\ print' \in Prints \cup {NoPrint} /\ fields' \in Fields
    BY <1>4, <2>1, FoundTypes, Bounds DEF Type, Format
  <2>3. seen'[page] = e => PageInv(seen[page])'
    BY <1>1, <1>7, <1>9, <2>2 DEF PageInv, Verdict
  <2> QED BY <1>1, <1>6, <1>7, <1>8, <2>2, <2>3, PageStep, Bounds
<1>10. CASE payload # "aamva"
  <2>1. at' = "mrz" /\ UNCHANGED <<files, stuck, result, print, fields>>
    BY <1>3, <1>10 DEF NotFound
  <2>2. result' \in Results /\ print' \in Prints \cup {NoPrint} /\ fields' \in Fields
    BY <2>1, NotFoundTypes
  <2>3. seen'[page] = e => PageInv(seen[page])'
    BY <1>1, <1>4, <1>7, <1>10, <2>1 DEF PageInv
  <2> QED BY <1>1, <1>4, <1>6, <1>7, <1>8, <2>1, <2>2, <2>3, PageStep, Bounds
<1> QED BY <1>9, <1>10

\* A first reading counts if it has data.
LEMMA FirstReading ==
  ASSUME NEW r \in Mrz
  PROVE  /\ <<r>> \in Seq(Mrz) /\ r.score \in Nat
         /\ Good(<<r>>) = IF r.data THEN {1} ELSE {}
         /\ Kept(IF r.data THEN 1 ELSE 0, <<r>>)
<1>1. r.score \in Nat /\ r.data \in BOOLEAN
  BY DEF Mrz
<1>2. Good(<<r>>) = IF r.data THEN {1} ELSE {}
  BY <1>1 DEF Good
<1>3. Kept(IF r.data THEN 1 ELSE 0, <<r>>)
  BY <1>1, <1>2 DEF Kept
<1> QED BY <1>1, <1>2, <1>3

LEMMA ReadPageEvidence == ASSUME EvidencedInv, ReadPage PROVE EvidencedInv'
<1>1. /\ at = "mrz" /\ UNCHANGED <<bytes, page, left, listed, made>>
  BY DEF ReadPage
<1>2. PICK r \in Readings :
         /\ seen' = [seen EXCEPT ![page] = [@ EXCEPT !["readings"] = <<r>>]]
         /\ IF r.data
             THEN /\ best' = 1
                  /\ \E t \in {"TD3", "ID-1", "ID-2", "other"}, isP \in BOOLEAN :
                        Found("mrz", MrzType(t, isP), r.score, {"mrz"}, files, stuck)
             ELSE NotFound(IF r.score > 0 THEN "text" ELSE "prepare") /\ UNCHANGED best
  BY DEF ReadPage, Note
<1>3. /\ page \in 1..Pages /\ seen \in [1..Pages -> Notes] /\ result.source = "none"
      /\ files \in SUBSET File /\ stuck \in SUBSET File
      /\ seen[page] \in Notes /\ Pdf417Counts(seen[page])
      /\ seen[page].payload # "aamva" /\ seen[page].words = {} /\ best = 0 /\ made = 0
  BY <1>1, PageFacts DEF PageInv
<1>4. r \in Mrz /\ 1 \in 0..Variants + 1
  BY AnalyzerAssumption
<1>5. /\ <<r>> \in Seq(Mrz) /\ r.score \in Nat /\ Len(<<r>>) = 1 /\ <<r>>[1] = r
      /\ Good(<<r>>) = IF r.data THEN {1} ELSE {}
      /\ Kept(IF r.data THEN 1 ELSE 0, <<r>>)
  BY <1>4, FirstReading
<1> DEFINE e == [seen[page] EXCEPT !.readings = <<r>>]
<1>6. seen' = [seen EXCEPT ![page] = e]
  BY <1>2, <1>3
<1>7. /\ e \in Notes /\ e.payload = seen[page].payload /\ e.codes = seen[page].codes
      /\ e.words = {} /\ e.readings = <<r>>
  BY <1>3, <1>5 DEF Notes
<1> HIDE DEF e
<1>8. Pdf417Counts(e)
  BY <1>3, <1>7 DEF Pdf417Counts
<1>9. CASE r.data
  <2>1. best' = 1 /\ \E t, isP : Found("mrz", MrzType(t, isP), r.score, {"mrz"}, files, stuck)
    BY <1>2, <1>9
  <2>2. /\ at' = "end" /\ files' \subseteq File /\ stuck' \subseteq File
        /\ result' \in Results /\ result'.source = "mrz"
        /\ print' \in Prints \cup {NoPrint} /\ fields' \in Fields
    BY <1>3, <1>5, <2>1, FoundTypes, MrzTypes, Bounds DEF Format
  <2>3. Kept(1, <<r>>) /\ Verdict(e) = "mrz"
    BY <1>3, <1>5, <1>7, <1>9 DEF Verdict
  <2>4. seen'[page] = e => PageInv(seen[page])'
    BY <1>1, <1>7, <2>1, <2>2, <2>3 DEF PageInv, Verdict, Kept, Good
  <2> QED BY <1>1, <1>4, <1>6, <1>7, <1>8, <2>1, <2>2, <2>4, PageStep, Bounds
<1>10. CASE ~r.data
  <2>1. /\ at' = (IF r.score > 0 THEN "text" ELSE "prepare")
        /\ UNCHANGED <<files, stuck, result, print, fields, best>>
    BY <1>2, <1>10 DEF NotFound
  <2>2. result' \in Results /\ print' \in Prints \cup {NoPrint} /\ fields' \in Fields
    BY <2>1, NotFoundTypes
  <2>3. seen'[page] = e => PageInv(seen[page])'
    BY <1>1, <1>3, <1>5, <1>7, <1>10, <2>1 DEF PageInv, Good
  <2> QED BY <1>1, <1>3, <1>6, <1>7, <1>8, <2>1, <2>2, <2>3, PageStep, Bounds
<1> QED BY <1>9, <1>10

LEMMA PrepareEvidence == ASSUME EvidencedInv, Prepare PROVE EvidencedInv'
<1>1. /\ at = "prepare" /\ at' = "variants" /\ made' \in 0..Variants
      /\ UNCHANGED <<bytes, left, page, seen, best, listed, result, print, fields>>
  BY DEF Prepare
<1>2. PICK lost \in SUBSET {<<page, made' + 1>>} :
         /\ lost # {} => made' < Variants
         /\ files' = files \cup ({page} \X (1..made')) \cup lost
         /\ stuck' = stuck \cup lost
  BY DEF Prepare
<1>3. /\ page \in 1..Pages /\ seen \in [1..Pages -> Notes] /\ result.source = "none"
      /\ files \subseteq File /\ stuck \subseteq File
      /\ seen[page] \in Notes /\ Pdf417Counts(seen[page])
      /\ seen[page].payload # "aamva" /\ seen[page].words = {} /\ best = 0
      /\ seen[page].readings \in Seq(Mrz) /\ Len(seen[page].readings) = 1 /\ ~seen[page].readings[1].data
  BY <1>1, PageFacts DEF PageInv, Notes
<1>4. files' \subseteq File /\ stuck' \subseteq File
  <2>1. PICK m \in 0..Variants : m = made'
    BY <1>1
  <2>2. {page} \X (1..m) \subseteq File /\ <<page, m + 1>> \in File
    BY <1>3, <2>1, AnalyzerAssumption DEF File
  <2> QED BY <1>2, <1>3, <2>1, <2>2
<1>5. seen' = [seen EXCEPT ![page] = seen[page]]
  BY <1>1, <1>3
<1>6. result' \in Results /\ print' \in Prints \cup {NoPrint} /\ fields' \in Fields
  BY <1>1, NotFoundTypes
<1>7. Kept(0, seen[page].readings)
  BY <1>3 DEF Kept, Good
<1>8. 1 \in 1..made' + 1
  <2>1. PICK m \in 0..Variants : m = made'
    BY <1>1
  <2>2. 1 \in 1..m + 1
    BY AnalyzerAssumption
  <2> QED BY <2>1, <2>2
<1>9. PageInv(seen[page])'
  BY <1>1, <1>3, <1>7, <1>8 DEF PageInv, Kept, Good
<1> QED BY <1>1, <1>3, <1>4, <1>5, <1>6, <1>9, PageStep, Bounds

LEMMA ScoreTypes == ASSUME NEW r \in Mrz PROVE r.score \in Nat /\ r.data \in BOOLEAN
<1>1. r \in [score: 0..100, data: BOOLEAN]
  BY DEF Mrz
<1>2. r.score \in 0..100 /\ r.data \in BOOLEAN
  BY <1>1
<1> QED BY <1>2

LEMMA ReadingTypes ==
  ASSUME NEW q \in Seq(Mrz)
  PROVE  /\ Len(q) \in Nat /\ DOMAIN q = 1..Len(q)
         /\ \A i \in DOMAIN q : q[i].score \in Nat /\ q[i].data \in BOOLEAN
<1>1. \A i \in DOMAIN q : q[i] \in Mrz
  OBVIOUS
<1>2. \A r \in Mrz : r.score \in Nat /\ r.data \in BOOLEAN
  BY ScoreTypes
<1> HIDE DEF Mrz
<1>3. Len(q) \in Nat /\ DOMAIN q = 1..Len(q)
  OBVIOUS
<1> QED BY <1>1, <1>2, <1>3

\* One more reading.  It is kept if it is better; if it is not and counts, so does the
\* earlier one that is no worse, and what is kept is no worse than that.
LEMMA KeptNext ==
  ASSUME NEW rs \in Seq(Mrz), NEW b \in Nat, Kept(b, rs), NEW r \in Mrz, NEW c,
         c = IF r.data /\ \A i \in DOMAIN rs : r.score > rs[i].score THEN Len(rs) + 1 ELSE b
  PROVE  Kept(c, Append(rs, r))
<1> DEFINE longer == Append(rs, r)
           n == Len(rs)
<1>1. /\ n \in Nat /\ DOMAIN rs = 1..n /\ DOMAIN longer = 1..n + 1 /\ longer[n + 1] = r
      /\ \A i \in DOMAIN rs : longer[i] = rs[i]
      /\ \A i \in DOMAIN rs : rs[i].score \in Nat /\ rs[i].data \in BOOLEAN
      /\ r.score \in Nat /\ r.data \in BOOLEAN
  <2>1. n \in Nat /\ DOMAIN rs = 1..n
    BY ReadingTypes
  <2>2. \A i \in DOMAIN rs : rs[i].score \in Nat /\ rs[i].data \in BOOLEAN
    BY ReadingTypes
  <2>3. r.score \in Nat /\ r.data \in BOOLEAN
    BY ScoreTypes
  <2>4. DOMAIN longer = 1..n + 1 /\ longer[n + 1] = r
    BY <2>1
  <2>5. \A i \in DOMAIN rs : longer[i] = rs[i]
    BY <2>1
  <2> QED BY <2>1, <2>2, <2>3, <2>4, <2>5
<1> HIDE DEF longer, n
<1>2. \A i \in DOMAIN longer : i \in DOMAIN rs \/ i = n + 1
  BY <1>1
<1>3. \A i \in Good(longer) : i \in DOMAIN rs => i \in Good(rs)
  BY <1>1 DEF Good
<1>4. CASE r.data /\ \A i \in DOMAIN rs : r.score > rs[i].score
  <2>1. c = n + 1
    BY <1>4 DEF n
  <2>2. \A i \in DOMAIN longer : longer[i].score <= longer[c].score
    BY <1>1, <1>2, <1>4, <2>1
  <2>3. \A i \in DOMAIN longer : i < c => longer[i].score < longer[c].score
    BY <1>1, <1>2, <1>4, <2>1
  <2>4. \A i \in Good(longer) : i \in DOMAIN longer
    BY DEF Good
  <2>5. c # 0 /\ c \in DOMAIN longer /\ longer[c].data
    BY <1>1, <1>4, <2>1
  <2>6. Kept(c, longer)
    BY <2>2, <2>3, <2>4, <2>5 DEF Kept
  <2> QED BY <2>6 DEF longer
<1>5. CASE ~(r.data /\ \A i \in DOMAIN rs : r.score > rs[i].score)
  <2>1. c = b /\ (b # 0 => b \in DOMAIN rs /\ b < n + 1)
    BY <1>1, <1>5 DEF Kept, n
  <2>2. ASSUME NEW i \in Good(longer) PROVE b # 0 /\ longer[i].score <= rs[b].score
    <3>1. CASE i \in DOMAIN rs
      BY <1>1, <1>3, <2>2, <3>1 DEF Kept
    <3>2. CASE i = n + 1
      <4>1. r.data /\ \A j \in DOMAIN rs : rs[j].score >= r.score => rs[j].data
        BY <1>1, <2>2, <3>2 DEF Good
      <4>2. PICK j \in DOMAIN rs : rs[j].score >= r.score
        BY <1>1, <1>5, <4>1
      <4>3. j \in Good(rs)
        BY <1>1, <4>1, <4>2 DEF Good
      <4>4. b # 0 /\ rs[j].score <= rs[b].score /\ rs[b].score \in Nat
        BY <1>1, <2>1, <4>3 DEF Kept
      <4> QED BY <1>1, <3>2, <4>2, <4>4
    <3>3. i \in DOMAIN longer
      BY <2>2 DEF Good
    <3> QED BY <1>2, <3>1, <3>2, <3>3
  <2>3. b # 0 => /\ longer[b] = rs[b] /\ rs[b].data
                 /\ \A i \in DOMAIN longer : i < b => longer[i].score < longer[b].score
    BY <1>1, <1>2, <2>1 DEF Kept
  <2>4. b # 0 => b \in DOMAIN longer /\ longer[b].data
    BY <1>1, <2>1, <2>3
  <2>5. \A i \in Good(longer) : b # 0 /\ longer[i].score <= longer[b].score
    BY <2>2, <2>3
  <2>6. b # 0 => \A i \in DOMAIN longer : i < b => longer[i].score < longer[b].score
    BY <2>3
  <2>7. Kept(b, longer)
    BY <2>4, <2>5, <2>6 DEF Kept
  <2> QED BY <2>1, <2>7 DEF longer
<1> QED BY <1>4, <1>5

LEMMA ReadVariantEvidence == ASSUME EvidencedInv, ReadVariant PROVE EvidencedInv'
<1>1. /\ at = "variants" /\ Len(seen[page].readings) <= made
      /\ UNCHANGED <<bytes, left, page, at, made, files, listed, stuck, result, print, fields>>
  BY DEF ReadVariant
<1>2. PICK r \in Readings :
         /\ seen' = [seen EXCEPT ![page] = [@ EXCEPT !["readings"] = Append(seen[page].readings, r)]]
         /\ best' = IF Better(r) THEN Len(seen[page].readings) + 1 ELSE best
  BY DEF ReadVariant, Note
<1> DEFINE readings == seen[page].readings
           e == [seen[page] EXCEPT !.readings = Append(readings, r)]
<1>3. /\ page \in 1..Pages /\ seen \in [1..Pages -> Notes] /\ result.source = "none"
      /\ files \subseteq File /\ stuck \subseteq File
      /\ seen[page] \in Notes /\ Pdf417Counts(seen[page]) /\ made \in 0..Variants /\ best \in Nat
      /\ seen[page].payload # "aamva" /\ seen[page].words = {}
      /\ Len(readings) \in 1..made + 1 /\ Kept(best, readings)
  BY <1>1, PageFacts DEF PageInv
<1>4. readings \in Seq(Mrz) /\ r \in Mrz
  BY <1>3, AnalyzerAssumption DEF Notes
<1>5. Len(readings) \in Nat
  <2> HIDE DEF readings
  <2> QED BY <1>4, ReadingTypes
<1>6. seen' = [seen EXCEPT ![page] = e]
  BY <1>2, <1>3
<1>7. /\ e \in Notes /\ e.payload = seen[page].payload /\ e.codes = seen[page].codes
      /\ e.words = {} /\ e.readings = Append(readings, r)
  <2>1. Append(readings, r) \in Seq(Mrz)
    BY <1>4
  <2> HIDE DEF readings
  <2> QED BY <1>3, <2>1 DEF Notes
<1> HIDE DEF e
<1>8. Pdf417Counts(e)
  BY <1>3, <1>7 DEF Pdf417Counts
<1>9. Kept(best', Append(readings, r))
  <2>1. best' = IF r.data /\ \A i \in DOMAIN readings : r.score > readings[i].score
               THEN Len(readings) + 1 ELSE best
    BY <1>2 DEF Better
  <2> HIDE DEF readings
  <2> QED BY <1>3, <1>4, <2>1, KeptNext
<1>10. best' \in 0..Variants + 1
  <2>1. Len(readings) + 1 \in 0..Variants + 1
    <3> HIDE DEF readings
    <3> QED BY <1>1, <1>3, <1>5, AnalyzerAssumption DEF readings
  <2>2. best \in 0..Variants + 1
    BY Bounds
  <2> HIDE DEF readings
  <2> QED BY <1>2, <2>1, <2>2 DEF readings
<1>11. Len(Append(readings, r)) \in 1..made + 1
  <2>1. Len(readings) <= made
    BY <1>1
  <2> HIDE DEF readings
  <2> QED BY <1>3, <1>5, <2>1
<1>12. result' \in Results /\ print' \in Prints \cup {NoPrint} /\ fields' \in Fields
  BY <1>1, NotFoundTypes
<1> HIDE DEF readings
<1>13. seen'[page] = e => PageInv(seen[page])'
  BY <1>1, <1>3, <1>7, <1>9, <1>11 DEF PageInv, Kept, Good
<1> QED BY <1>1, <1>3, <1>6, <1>7, <1>8, <1>10, <1>12, <1>13, PageStep, Bounds

\* The reading kept counts, and is the first of the best that do.
LEMMA KeptCounts ==
  ASSUME NEW rs \in Seq(Mrz), NEW b \in Nat, b # 0, Kept(b, rs)
  PROVE  /\ b \in Good(rs)
         /\ \A i \in Good(rs) : rs[i].score <= rs[b].score /\ (rs[i].score = rs[b].score => b <= i)
<1>1. /\ DOMAIN rs \subseteq Nat /\ b \in DOMAIN rs
      /\ \A i \in DOMAIN rs : rs[i].score \in Nat /\ rs[i].data \in BOOLEAN
  BY ReadingTypes DEF Kept
<1>2. b \in Good(rs)
  BY <1>1 DEF Kept, Good
<1>3. ASSUME NEW i \in Good(rs)
      PROVE  rs[i].score <= rs[b].score /\ (rs[i].score = rs[b].score => b <= i)
  <2>1. i \in DOMAIN rs
    BY <1>3 DEF Good
  <2> QED BY <1>1, <1>3, <2>1 DEF Kept
<1> QED BY <1>2, <1>3

LEMMA ReadVariantsEvidence == ASSUME EvidencedInv, ReadVariants PROVE EvidencedInv'
<1>1. /\ at = "variants"
      /\ UNCHANGED <<bytes, left, page, seen, best, made, listed>>
  BY DEF ReadVariants
<1>2. PICK kept \in SUBSET ({page} \X (1..made)) :
         LET rest == (files \ ({page} \X (1..made))) \cup kept
         IN  IF best # 0
             THEN \E t \in {"TD3", "ID-1", "ID-2", "other"}, isP \in BOOLEAN :
                      Found("mrz", MrzType(t, isP), seen[page].readings[best].score, {"mrz"}, rest, stuck \cup kept)
             ELSE /\ at' = "text"
                  /\ files' = rest /\ stuck' = stuck \cup kept
                  /\ UNCHANGED <<result, print, fields>>
  BY DEF ReadVariants
<1> DEFINE readings == seen[page].readings
           rest == (files \ ({page} \X (1..made))) \cup kept
<1>3. /\ page \in 1..Pages /\ seen \in [1..Pages -> Notes] /\ result.source = "none"
      /\ files \subseteq File /\ stuck \subseteq File
      /\ seen[page] \in Notes /\ Pdf417Counts(seen[page]) /\ made \in 0..Variants /\ best \in Nat
      /\ seen[page].payload # "aamva" /\ seen[page].words = {} /\ Kept(best, readings)
  BY <1>1, PageFacts DEF PageInv
<1>4. readings \in Seq(Mrz)
  BY <1>3 DEF Notes
<1>5. rest \in SUBSET File /\ stuck \cup kept \in SUBSET File
  <2>1. {page} \X (1..made) \subseteq File
    BY <1>3, AnalyzerAssumption DEF File
  <2> QED BY <1>3, <2>1
<1>6. seen' = [seen EXCEPT ![page] = seen[page]]
  BY <1>1, <1>3
<1>7. CASE best # 0
  <2>1. best \in Good(readings) /\ readings[best].score \in Nat
    <3> HIDE DEF readings
    <3> QED BY <1>3, <1>4, <1>7, KeptCounts, ReadingTypes DEF Good
  <2>2. \E t, isP : Found("mrz", MrzType(t, isP), readings[best].score, {"mrz"}, rest, stuck \cup kept)
    BY <1>2, <1>7
  <2>3. /\ at' = "end" /\ files' \subseteq File /\ stuck' \subseteq File
        /\ result' \in Results /\ result'.source = "mrz"
        /\ print' \in Prints \cup {NoPrint} /\ fields' \in Fields
    <3> HIDE DEF rest
    <3> QED BY <1>5, <2>1, <2>2, FoundTypes, MrzTypes, Bounds DEF Format
  <2>4. Verdict(seen[page]) = "mrz"
    BY <1>3, <2>1 DEF Verdict
  <2>5. PageInv(seen[page])'
    BY <1>1, <1>3, <1>7, <2>3, <2>4 DEF PageInv, Verdict, Kept, Good
  <2> QED BY <1>1, <1>3, <1>6, <2>3, <2>5, PageStep, Bounds
<1>8. CASE best = 0
  <2>1. at' = "text" /\ files' = rest /\ stuck' = stuck \cup kept /\ UNCHANGED <<result, print, fields>>
    BY <1>2, <1>8
  <2>2. result' \in Results /\ print' \in Prints \cup {NoPrint} /\ fields' \in Fields
    BY <2>1, NotFoundTypes
  <2>3. Good(readings) = {}
    BY <1>3, <1>8 DEF Kept
  <2>4. PageInv(seen[page])'
    BY <1>1, <1>3, <2>1, <2>3 DEF PageInv, Good
  <2> QED BY <1>1, <1>3, <1>5, <1>6, <2>1, <2>2, <2>4, PageStep, Bounds
<1> QED BY <1>7, <1>8

LEMMA ReadTextEvidence == ASSUME EvidencedInv, ReadText PROVE EvidencedInv'
<1>1. at = "text" /\ UNCHANGED <<bytes, left, page, best, made, listed>>
  BY DEF ReadText
<1>2. PICK words \in Texts \cup {{}} :
         /\ seen' = [seen EXCEPT ![page] = [@ EXCEPT !["words"] = words]]
         /\ IF Infer(words) # "unknown"
            THEN Found("text", Infer(words), 0, FormatsOf(Infer(words)), files, stuck)
            ELSE /\ at' = "convert"
                 /\ result' = IF words = {} THEN result ELSE [result EXCEPT !.confidence = 20]
                 /\ UNCHANGED <<files, stuck, print, fields>>
  BY DEF ReadText, Note
<1>3. /\ page \in 1..Pages /\ seen \in [1..Pages -> Notes] /\ result.source = "none" /\ result \in Results
      /\ files \in SUBSET File /\ stuck \in SUBSET File
      /\ seen[page] \in Notes /\ Pdf417Counts(seen[page])
      /\ seen[page].payload # "aamva" /\ Good(seen[page].readings) = {}
  BY <1>1, PageFacts DEF PageInv
<1>4. words \subseteq Word
  BY AnalyzerAssumption
<1> DEFINE e == [seen[page] EXCEPT !.words = words]
<1>5. seen' = [seen EXCEPT ![page] = e]
  BY <1>2, <1>3
<1>6. /\ e \in Notes /\ e.payload = seen[page].payload /\ e.codes = seen[page].codes
      /\ e.words = words /\ e.readings = seen[page].readings
  BY <1>3, <1>4 DEF Notes
<1> HIDE DEF e
<1>7. Pdf417Counts(e)
  BY <1>3, <1>6 DEF Pdf417Counts
<1>8. Good(e.readings) = {}
  BY <1>3, <1>6
<1>9. CASE Infer(words) # "unknown"
  <2>1. Found("text", Infer(words), 0, FormatsOf(Infer(words)), files, stuck)
    BY <1>2, <1>9
  <2>2. FormatsOf(Infer(words)) \in SUBSET (Format \cup {"none"})
    BY DEF FormatsOf, Format
  <2>3. /\ at' = "end" /\ files' \subseteq File /\ stuck' \subseteq File
        /\ result' \in Results /\ result'.source = "text"
        /\ print' \in Prints \cup {NoPrint} /\ fields' \in Fields
    BY <1>3, <2>1, <2>2, FoundTypes, InferTypes, Bounds
  <2>4. Verdict(e) = "text"
    BY <1>3, <1>6, <1>8, <1>9 DEF Verdict
  <2>5. seen'[page] = e => PageInv(seen[page])'
    BY <1>1, <2>3, <2>4 DEF PageInv, Verdict
  <2> QED BY <1>1, <1>5, <1>6, <1>7, <2>3, <2>5, PageStep, Bounds
<1>10. CASE Infer(words) = "unknown"
  <2>1. /\ at' = "convert" /\ UNCHANGED <<files, stuck, print, fields>>
        /\ result' = IF words = {} THEN result ELSE [result EXCEPT !.confidence = 20]
    BY <1>2, <1>10
  <2>2. result' \in Results /\ result'.source = "none"
    BY <1>3, <2>1 DEF Results
  <2>3. print' \in Prints \cup {NoPrint} /\ fields' \in Fields
    BY <2>1, Bounds DEF AnalyzerTypeOK, Fields
  <2>4. Verdict(e) = "none"
    BY <1>3, <1>6, <1>8, <1>10 DEF Verdict
  <2>5. seen'[page] = e => PageInv(seen[page])'
    BY <1>1, <2>1, <2>4 DEF PageInv, Verdict
  <2> QED BY <1>1, <1>3, <1>5, <1>6, <1>7, <2>1, <2>2, <2>3, <2>5, PageStep, Bounds
<1> QED BY <1>9, <1>10

LEMMA EvidencedStep == ASSUME EvidencedInv, AnalyzerNext PROVE EvidencedInv'
BY OpenEvidence, ConvertEvidence, DecodeEvidence, ReadPageEvidence, PrepareEvidence,
   ReadVariantEvidence, ReadVariantsEvidence, ReadTextEvidence DEF AnalyzerNext

LEMMA EvidenceInvImplies == EvidencedInv => BestEvidenceWins
<1> SUFFICES ASSUME EvidencedInv PROVE BestEvidenceWins
  OBVIOUS
<1>1. page \in 0..Pages /\ Pages \in Nat
  <2>1. Pages \in Nat
    BY AnalyzerAssumption
  <2> QED BY <2>1, Bounds DEF AnalyzerTypeOK
<1>2. Verdict(Nothing) = "none"
  <2>1. Nothing.payload = "none" /\ Nothing.readings = << >> /\ Nothing.words = {}
    BY DEF Nothing
  <2>2. Good(<< >>) = {}
    BY DEF Good
  <2>3. Infer({}) = "unknown"
    BY DEF Infer
  <2> QED BY <2>1, <2>2, <2>3 DEF Verdict
<1>3. \A p \in 1..Pages : /\ Pdf417Counts(seen[p])
                          /\ p # page => Verdict(seen[p]) = "none"
  <2> SUFFICES ASSUME NEW p \in 1..Pages
               PROVE Pdf417Counts(seen[p]) /\ (p # page => Verdict(seen[p]) = "none")
    OBVIOUS
  <2>1. p < page \/ p = page \/ p > page
    BY <1>1
  <2> QED BY <1>2, <2>1 DEF EvidencedInv, EvidenceInv
<1>4. ASSUME at = "end"
      PROVE  /\ page = 0 => result.source = "none"
             /\ page > 0 => result.source = Verdict(seen[page])
             /\ page > 0 /\ result.source = "mrz" => best # 0 /\ Kept(best, seen[page].readings)
  BY <1>4 DEF EvidencedInv, EvidenceInv, PageInv
<1>5. page = 0 \/ page > 0
  BY <1>1
<1> DEFINE readings == seen[page].readings
<1>6. ASSUME at = "end", result.source = "mrz"
      PROVE  /\ best \in Good(readings)
             /\ \A i \in Good(readings) :
                   /\ readings[i].score <= readings[best].score
                   /\ readings[i].score = readings[best].score => best <= i
  <2>1. page > 0
    BY <1>4, <1>5, <1>6
  <2>2. best # 0 /\ Kept(best, readings)
    BY <1>4, <1>6, <2>1
  <2>3. readings \in Seq(Mrz) /\ best \in Nat
    BY <1>1, <2>1, Bounds, AnalyzerAssumption DEF AnalyzerTypeOK
  <2> HIDE DEF readings
  <2> QED BY <2>2, <2>3, KeptCounts
<1> QED BY <1>3, <1>4, <1>6 DEF BestEvidenceWins

-----------------------------------------------------------------------------
(* The picture of a provider.                                              *)

LEMMA Quotient ==
  ASSUME NEW P \in Nat, NEW L \in Nat, L > 0
  PROVE  /\ P \div L \in Nat
         /\ (P \div L) * L <= P /\ P < ((P \div L) + 1) * L
OBVIOUS

LEMMA Monotone == ASSUME NEW x \in Nat, NEW y \in Nat, NEW m \in Nat, x <= y PROVE x * m <= y * m
OBVIOUS

LEMMA Cancel == ASSUME NEW x \in Nat, NEW y \in Nat, NEW m \in Nat, m > 0, x * m <= y * m PROVE x <= y
OBVIOUS

\* A side that is scaled down is a pixel short at most, and not above the limit.
LEMMA ScaledFits ==
  ASSUME NEW x \in Nat, NEW longest \in Nat, x > 0, x <= longest, NEW j \in Scaled(x, longest)
  PROVE  /\ j \in Nat /\ j <= max_image_px
         /\ j * longest <= x * max_image_px /\ x * max_image_px <= (j + 1) * longest
<1> DEFINE whole == (x * max_image_px) \div longest
<1>1. max_image_px \in Nat /\ x * max_image_px \in Nat
  BY ProcessorsAssumption
<1>2. whole \in Nat /\ whole * longest <= x * max_image_px /\ x * max_image_px < (whole + 1) * longest
  BY <1>1, Quotient
<1>3. x * max_image_px <= longest * max_image_px
  BY <1>1, Monotone
<1>4. longest * max_image_px = max_image_px * longest
  BY <1>1
<1>5. whole * longest <= max_image_px * longest
  BY <1>1, <1>2, <1>3, <1>4
<1>6. whole <= max_image_px
  BY <1>1, <1>2, <1>5, Cancel
<1>7. j = whole \/ (j = whole - 1 /\ whole * longest = x * max_image_px)
  BY DEF Scaled
<1> HIDE DEF whole
<1>8. CASE j = whole
  BY <1>1, <1>2, <1>6, <1>8
<1>9. CASE j = whole - 1 /\ whole * longest = x * max_image_px
  <2>1. (whole - 1) * longest = whole * longest - longest /\ (whole - 1) + 1 = whole
    BY <1>2
  <2>2. whole # 0
    <3>1. x * max_image_px # 0 /\ 0 * longest = 0
      BY ProcessorsAssumption
    <3> QED BY <1>9, <3>1
  <2> QED BY <1>1, <1>2, <1>6, <1>9, <2>1, <2>2
<1> QED BY <1>7, <1>8, <1>9

\* A picture is one that Resized makes of an image, and no side of it is empty.
PictureInv ==
    \E size \in (Nat \ {0}) \X (Nat \ {0}) : \E jpeg \in Resized(size) :
        /\ 0 \notin {jpeg[1], jpeg[2]}
        /\ picture = [size |-> size, jpeg |-> jpeg]

LEMMA ResizedFits ==
  ASSUME NEW size \in (Nat \ {0}) \X (Nat \ {0}), NEW jpeg \in Resized(size)
  PROVE  /\ jpeg[1] \in Nat /\ jpeg[2] \in Nat /\ jpeg = <<jpeg[1], jpeg[2]>>
         /\ jpeg[1] <= max_image_px /\ jpeg[2] <= max_image_px
         /\ Longest(size) <= max_image_px => jpeg = size
         /\ Longest(size) > max_image_px =>
              \A i \in 1..2 : /\ jpeg[i] * Longest(size) <= size[i] * max_image_px
                              /\ size[i] * max_image_px <= (jpeg[i] + 1) * Longest(size)
<1> DEFINE longest == Longest(size)
<1>1. /\ size[1] \in Nat /\ size[2] \in Nat /\ size[1] > 0 /\ size[2] > 0 /\ size = <<size[1], size[2]>>
      /\ longest \in Nat /\ longest > 0 /\ size[1] <= longest /\ size[2] <= longest
  BY DEF Longest
<1> HIDE DEF longest
<1>2. CASE longest <= max_image_px
  <2>1. jpeg = size
    BY <1>2 DEF Resized, longest
  <2> QED BY <1>1, <1>2, <2>1, ProcessorsAssumption DEF longest
<1>3. CASE longest > max_image_px
  <2>1. jpeg \in Scaled(size[1], longest) \X Scaled(size[2], longest)
    BY <1>1, <1>3, ProcessorsAssumption DEF Resized, longest
  <2>2. jpeg[1] \in Scaled(size[1], longest) /\ jpeg[2] \in Scaled(size[2], longest)
        /\ jpeg = <<jpeg[1], jpeg[2]>>
    BY <2>1
  <2>3. ASSUME NEW i \in 1..2
        PROVE  /\ jpeg[i] \in Nat /\ jpeg[i] <= max_image_px
               /\ jpeg[i] * longest <= size[i] * max_image_px
               /\ size[i] * max_image_px <= (jpeg[i] + 1) * longest
    <3>1. i = 1 \/ i = 2
      OBVIOUS
    <3>2. CASE i = 1
      BY <1>1, <2>2, <3>2, ScaledFits
    <3>3. CASE i = 2
      BY <1>1, <2>2, <3>3, ScaledFits
    <3> QED BY <3>1, <3>2, <3>3
  <2>4. ~(longest <= max_image_px)
    BY <1>1, <1>3, ProcessorsAssumption
  <2> QED BY <2>2, <2>3, <2>4 DEF longest
<1> QED BY <1>1, <1>2, <1>3, ProcessorsAssumption

LEMMA PictureInvImplies == PictureInv => PictureFits
<1> SUFFICES ASSUME PictureInv PROVE PictureFits
  OBVIOUS
<1>1. PICK size \in (Nat \ {0}) \X (Nat \ {0}) :
          \E jpeg \in Resized(size) : picture = [size |-> size, jpeg |-> jpeg]
  BY DEF PictureInv
<1>2. PICK jpeg \in Resized(size) : picture = [size |-> size, jpeg |-> jpeg]
  BY <1>1
<1>3. picture.size = size /\ picture.jpeg = jpeg
  BY <1>2
<1> QED BY <1>3, ResizedFits DEF PictureFits, Longest

LEMMA SmallPicture ==
  \E size \in (Nat \ {0}) \X (Nat \ {0}) : \E jpeg \in Resized(size) :
      0 \notin {jpeg[1], jpeg[2]} /\ NoPicture = [size |-> size, jpeg |-> jpeg]
<1>1. Longest(<<1, 1>>) <= max_image_px
  BY ProcessorsAssumption DEF Longest
<1>2. <<1, 1>> \in Resized(<<1, 1>>) /\ <<1, 1>> \in (Nat \ {0}) \X (Nat \ {0})
  BY <1>1 DEF Resized
<1> QED BY <1>2 DEF NoPicture

LEMMA PictureStep == ASSUME PictureInv, [DocumentsNext]_documentVars PROVE PictureInv'
<1>1. CASE UNCHANGED picture
  BY <1>1 DEF PictureInv
<1>2. CASE ToJpeg /\ picture' # picture
  <2>1. PICK size \in Sizes : \E jpeg \in Resized(size) :
          0 \notin {jpeg[1], jpeg[2]} /\ picture' = [size |-> size, jpeg |-> jpeg]
    BY <1>2 DEF ToJpeg
  <2>2. size \in (Nat \ {0}) \X (Nat \ {0})
    BY ProcessorsAssumption
  <2>3. Resized(size)' = Resized(size)
    BY DEF Resized, Scaled, Longest
  <2> QED BY <2>1, <2>2, <2>3 DEF PictureInv
<1>3. CASE Call
  <2>1. picture' = NoPicture
    BY <1>3 DEF Call
  <2>2. \A size : Resized(size)' = Resized(size)
    BY DEF Resized, Scaled, Longest
  <2> QED BY <2>1, <2>2, SmallPicture DEF PictureInv
<1> QED
  BY <1>1, <1>2, <1>3
  DEF DocumentsNext, AnalyzeLocally, LocalResult, Scan, Summarize, AdaptItem, Result, documentVars, processorVars

-----------------------------------------------------------------------------
(* Types, evidence and pictures.                                           *)

\* The result reads no more of an answer than there is.
AnswerInv ==
    /\ provider \in Provider /\ step \in {"next", "call", "adapt"}
    /\ answer \in Seq(Item) /\ adapted <= Len(answer)

LEMMA AnswerStep ==
  ASSUME RunsInv, ReadingInv, AnswerInv, [DocumentsNext]_documentVars
  PROVE  AnswerInv'
<1>1. adapted \in Nat /\ Len(answer) \in Nat
  BY DEF ReadingInv, AnswerInv
<1>2. CASE UNCHANGED <<provider, step, answer, adapted>>
  BY <1>2 DEF AnswerInv
<1>3. CASE ToJpeg
  BY <1>3 DEF ToJpeg, AnswerInv
<1>4. CASE Call
  <2>1. Runs("analysis") /\ step = "call" /\ UNCHANGED <<provider, adapted>>
    BY <1>4 DEF Call, Remote
  <2>2. adapted = 0
    BY <2>1, RunsPending DEF ReadingInv
  <2>3. CASE step' = "next" /\ UNCHANGED answer
    BY <2>1, <2>3 DEF AnswerInv
  <2>4. CASE step' = "adapt" /\ answer' \in UNION {[1..n -> Item] : n \in 0..MaxItems}
    <3>1. PICK n \in 0..MaxItems : answer' \in [1..n -> Item]
      BY <2>4
    <3>2. PICK items \in [1..n -> Item] : items = answer'
      BY <3>1
    <3>3. items \in Seq(Item) /\ Len(items) = n
      BY ProcessorsAssumption
    <3>4. 0 <= n
      BY ProcessorsAssumption
    <3> QED BY <2>1, <2>2, <2>4, <3>2, <3>3, <3>4 DEF AnswerInv
  <2> QED BY <1>4, <2>3, <2>4 DEF Call
<1>5. CASE AdaptItem
  <2>1. UNCHANGED <<provider, answer>> /\ adapted < Len(answer)
    BY <1>5 DEF AdaptItem
  <2>2. \/ adapted' = adapted + 1 /\ step' = step
        \/ adapted' = adapted /\ step' = "next"
    BY <1>5 DEF AdaptItem
  <2>3. adapted' <= Len(answer)
    BY <1>1, <2>1, <2>2
  <2> QED BY <2>1, <2>2, <2>3 DEF AnswerInv
<1>6. CASE Result
  BY <1>6 DEF Result, AnswerInv
<1> QED
  BY <1>2, <1>3, <1>4, <1>5, <1>6
  DEF DocumentsNext, AnalyzeLocally, LocalResult, Scan, Summarize, documentVars, processorVars

WholeInv == DocumentsInv /\ EvidencedInv /\ PictureInv /\ AnswerInv

LEMMA WholeInitInv == DocumentsInit => WholeInv
<1> SUFFICES ASSUME DocumentsInit PROVE WholeInv
  OBVIOUS
<1>1. EvidencedInv
  BY EvidencedInit DEF DocumentsInit
<1>2. PictureInv
  BY SmallPicture DEF DocumentsInit, PictureInv
<1>3. AnswerInv
  BY DEF DocumentsInit, AnswerInv, Provider
<1> QED BY <1>1, <1>2, <1>3, DocumentsInitInv DEF WholeInv

LEMMA WholeStep == ASSUME WholeInv, [DocumentsNext]_documentVars PROVE WholeInv'
<1>1. ASSUME AnalyzerNext PROVE EvidencedInv'
  BY <1>1, EvidencedStep DEF WholeInv
<1>2. ASSUME UNCHANGED analyzerVars PROVE EvidencedInv'
  BY <1>2 DEF WholeInv, analyzerVars, EvidencedInv, AnalyzerTypeOK, EvidenceInv, PageInv,
              Pdf417Counts, Kept, Good, Verdict
<1>3. EvidencedInv'
  BY <1>1, <1>2 DEF WholeInv, DocumentsNext, AnalyzeLocally, LocalResult, Scan, Summarize, ToJpeg,
                    Call, AdaptItem, Result, documentVars
<1>4. DocumentsInv'
  BY DocumentsStep DEF WholeInv
<1>5. PictureInv'
  BY PictureStep DEF WholeInv
<1>6. AnswerInv'
  BY AnswerStep DEF WholeInv, DocumentsInv
<1> QED BY <1>3, <1>4, <1>5, <1>6 DEF WholeInv

LEMMA RunsTypes ==
  RunsInv => /\ wanted \in Seq(Processor) /\ todo \in Seq(Processor)
             /\ updates \subseteq Processor /\ broken \subseteq Processor
<1>1. \A p, q \in Processor : << >> \in Seq(Processor) /\ <<p>> \in Seq(Processor) /\ <<p, q>> \in Seq(Processor)
  OBVIOUS
<1>2. << >> \in Seq(Processor)
  OBVIOUS
<1>3. ASSUME RunsInv PROVE wanted \in Seq(Processor) /\ todo \in Seq(Processor)
  BY <1>1, <1>2, <1>3 DEF RunsInv
<1>4. ASSUME RunsInv PROVE updates \subseteq Processor /\ broken \subseteq Processor
  BY <1>4 DEF RunsInv
<1> QED BY <1>3, <1>4

LEMMA PictureTypes ==
  PictureInv => picture.size \in Nat \X Nat /\ picture.jpeg \in (Nat \ {0}) \X (Nat \ {0})
<1> SUFFICES ASSUME PictureInv
             PROVE picture.size \in Nat \X Nat /\ picture.jpeg \in (Nat \ {0}) \X (Nat \ {0})
  OBVIOUS
<1>1. PICK size \in (Nat \ {0}) \X (Nat \ {0}) : \E jpeg \in Resized(size) :
         0 \notin {jpeg[1], jpeg[2]} /\ picture = [size |-> size, jpeg |-> jpeg]
  BY DEF PictureInv
<1>2. PICK jpeg \in Resized(size) :
         0 \notin {jpeg[1], jpeg[2]} /\ picture = [size |-> size, jpeg |-> jpeg]
  BY <1>1
<1>3. jpeg[1] \in Nat /\ jpeg[2] \in Nat /\ jpeg = <<jpeg[1], jpeg[2]>>
  BY ResizedFits
<1> QED BY <1>2, <1>3

LEMMA WholeTypes == WholeInv => DocumentsTypeOK
<1> SUFFICES ASSUME WholeInv PROVE DocumentsTypeOK
  OBVIOUS
<1>1. adapted \in 0..Len(answer)
  BY DEF WholeInv, DocumentsInv, ReadingInv, AnswerInv
<1>2. reading.type \in 0..adapted
  BY DEF WholeInv, DocumentsInv, ReadingInv
<1>3. \A c \in DOMAIN reading.fields : reading.fields[c] \in 1..adapted
  BY DEF WholeInv, DocumentsInv, ReadingInv, LastOf, Told
<1> QED
  BY <1>1, <1>2, <1>3, RunsTypes, PictureTypes
  DEF WholeInv, DocumentsInv, EvidencedInv, AnswerInv, DocumentsTypeOK

LEMMA WholeInvHolds == DocumentsSpec => []WholeInv
<1>1. WholeInv /\ [DocumentsNext]_documentVars => WholeInv'
  BY WholeStep
<1> QED BY <1>1, WholeInitInv, PTL DEF DocumentsSpec

\* Whatever a document prints, in any format: outside of the dates Misread names, and of
\* numbers without their length, the fields DocumentAnalyzer reads are what is printed.
THEOREM FieldsRead == DocumentsSpec => []FieldsAsPrinted
<1>1. DocumentsInv => FieldsAsPrinted
  BY FieldsInvImplies DEF DocumentsInv, AnalyzerInv
<1> QED BY <1>1, DocumentsInvHolds, PTL

\* However many pages and variants there are and whichever reader fails: when analyze returns
\* no temporary file is left but those a failure hit.
THEOREM FilesGone == DocumentsSpec => []TempFilesGo
<1>1. DocumentsInv => TempFilesGo
  BY DEF DocumentsInv, AnalyzerInv, FilesInv
<1> QED BY <1>1, DocumentsInvHolds, PTL

\* An answer of any length, in any order and with any repetitions: the result of a provider's
\* backend has its last word of every field.
THEOREM LastWordKept == DocumentsSpec => []LastWordWins
<1>1. DocumentsInv => LastWordWins
  BY ReadingInvImplies DEF DocumentsInv
<1> QED BY <1>1, DocumentsInvHolds, PTL

\* Every processor of an upload runs and is merged, whichever of the others raises.
THEOREM FailuresCostOne == DocumentsSpec => []FailuresStayApart
<1>1. DocumentsInv => FailuresStayApart
  BY RunsInvImplies DEF DocumentsInv
<1> QED BY <1>1, DocumentsInvHolds, PTL

\* Every variable of the analyzer and of the processors keeps its type: the pages, the
\* variants and the parts of an answer stay within what there is of them, and every
\* reader gives dates and types the program knows.
THEOREM DocumentsTyped == DocumentsSpec => []DocumentsTypeOK
BY WholeTypes, WholeInvHolds, PTL

\* Of any number of pages, with any codes, readings and texts: the answer is from the
\* strongest evidence of the first page that has any, where only a code of unknown format
\* hides a PDF417 behind it, and only an MRZ without data readings that are no better.
THEOREM StrongestEvidence == DocumentsSpec => []BestEvidenceWins
<1>1. WholeInv => BestEvidenceWins
  BY EvidenceInvImplies DEF WholeInv
<1> QED BY <1>1, WholeInvHolds, PTL

\* Of images of any size, with any limit: what a provider is sent is within the limit,
\* in proportion to a pixel, and never enlarged.
THEOREM PicturesFit == DocumentsSpec => []PictureFits
<1>1. WholeInv => PictureFits
  BY PictureInvImplies DEF WholeInv
<1> QED BY <1>1, WholeInvHolds, PTL
=============================================================================
