--------------------------- MODULE DocumentFields ---------------------------
(***************************************************************************)
(* How DocumentAnalyzer turns what a document prints into field values: the *)
(* dates of the four formats it knows, license numbers, Social Security     *)
(* numbers and the type of a document.  A printed date is the three numbers  *)
(* of its format in the order of that format.                               *)
(***************************************************************************)
EXTENDS Integers, Sequences

Date(y, m, d) == [year |-> y, month |-> m, day |-> d]
NoDate        == Date(0, 0, 0)            \* the attribute is not set
Dates         == [year: Nat, month: 1..12, day: 1..31]
Reading       == [year: Nat, month: 0..31, day: 0..31]

Use    == {"birth", "expiry"}
Format == {"barcode", "mrz", "license", "named", "day_first", "month_first"}

\* What the document prints: MMDDYYYY in a barcode, YYMMDD in an MRZ,
\* MM/DD/YYYY on a license; a passport names the month or has it as a number.
Printed(fmt, d) ==
    CASE fmt \in {"barcode", "license", "month_first"} -> <<d.month, d.day, d.year>>
      [] fmt = "mrz" -> <<d.year % 100, d.month, d.day>>
      [] OTHER       -> <<d.day, d.month, d.year>>

-----------------------------------------------------------------------------
(* Readers.                                                                *)

IsDay(m, d) == m \in 1..12 /\ d \in 1..31

ReadBarcode(f) ==
    IF IsDay(f[1], f[2]) /\ f[3] \in 1900..2100 THEN Date(f[3], f[1], f[2]) ELSE NoDate

\* Mutant of BirthYear: a later pivot, and adults are born in the future.
BirthYearLate(yy) == IF yy > 80 THEN 1900 + yy ELSE 2000 + yy

\* The two digits of a birth are of 1951 to 2050, those of an expiry of 1950 to
\* 2049.
BirthYear(yy)  == IF yy > 50 THEN 1900 + yy ELSE 2000 + yy
ExpiryYear(yy) == IF yy < 50 THEN 2000 + yy ELSE 1900 + yy

ReadMrz(use, f) ==
    LET year == IF use = "birth" THEN BirthYear(f[1]) ELSE ExpiryYear(f[1])
    IN  IF IsDay(f[2], f[3]) THEN Date(year, f[2], f[3]) ELSE NoDate

\* The expressions for licenses match month first and nothing else.
ReadLicense(f) ==
    IF IsDay(f[1], f[2]) THEN Date(f[3], f[1], f[2]) ELSE NoDate

\* Day, month, year, taken as they come.
ReadPassport(f) == Date(f[3], f[2], f[1])

\* The first expression for expiries matches numbers with the month first, but
\* the code below it takes the first number for the day.
ReadPassportExpiry(f) == IF IsDay(f[1], f[2]) THEN ReadPassport(f) ELSE NoDate

Read(use, fmt, f) ==
    CASE fmt = "barcode" -> ReadBarcode(f)
      [] fmt = "mrz"     -> ReadMrz(use, f)
      [] fmt = "license" -> ReadLicense(f)
      [] fmt \in {"day_first", "month_first"} /\ use = "expiry" -> ReadPassportExpiry(f)
      [] OTHER           -> ReadPassport(f)

\* What a document prints of its holder; first is the date its text begins with.
Imprint == [birth: Dates, expiry: Dates, first: Use, number: Seq(0..9)]

\* Both dates of a document.  On a license the birth is not labelled: the first
\* date of the text is taken for it.
ReadDates(fmt, p) ==
    [birth  |-> Read("birth", fmt,
                     Printed(fmt, IF fmt = "license" /\ p.first = "expiry"
                                  THEN p.expiry ELSE p.birth)),
     expiry |-> Read("expiry", fmt, Printed(fmt, p.expiry))]

-----------------------------------------------------------------------------
(* What is right.                                                          *)

\* The years the two digits of an MRZ can be told for.
Window(use) == IF use = "birth" THEN 1951..2050 ELSE 1950..2049

\* The dates the code reads wrong, though the document has them: of a passport that
\* prints the month first month and day are exchanged, to a month 13 to 31 even, and of a
\* license that prints its expiry first the birth is that expiry.
Misread(use, fmt, p) ==
    \/ fmt = "month_first"
    \/ fmt = "license" /\ use = "birth" /\ p.first # "birth"

\* The dates it passes over: years a barcode is not trusted with, and the expiry of a
\* passport that prints the day first if that day is no month.
PassedOver(use, fmt, d) ==
    \/ fmt = "barcode" /\ d.year \notin 1900..2100
    \/ fmt = "day_first" /\ use = "expiry" /\ d.day > 12

\* r is date d as a document of format fmt prints it.  An MRZ has no century.
AsPrinted(use, fmt, d, r) ==
    CASE fmt = "mrz" -> /\ r.month = d.month /\ r.day = d.day
                        /\ r.year \in Window(use)
                        /\ r.year % 100 = d.year % 100
      [] PassedOver(use, fmt, d) -> r = NoDate
      [] OTHER                   -> r = d

-----------------------------------------------------------------------------
(* Numbers and types.                                                      *)

\* DAQ: two digits of length, then the number.
ReadNumber(f) ==
    IF Len(f) < 3 THEN << >>
    ELSE LET length == 10 * f[1] + f[2]
         IN  SubSeq(f, 3, IF length + 2 < Len(f) THEN length + 2 ELSE Len(f))

\* What a text is searched for.  "ssn" is a Social Security number with an area
\* other than 000, 666 and 9xx and a group other than 00, "text" any other word;
\* a text without words is blank.
Word == {"text", "social security", "ssn", "driver license", "passport", "identity"}

\* The first rule that applies decides.
Infer(words) ==
    IF {"social security", "ssn"} \subseteq words THEN "social_security_card"
    ELSE IF "driver license" \in words            THEN "drivers_license"
    ELSE IF "passport" \in words                  THEN "passport"
    ELSE IF "identity" \in words                  THEN "national_id"
    ELSE "unknown"

\* Mutant of MrzType: a type the rest of the program does not know.
MrzTypeRaw(type, isP) == IF isP THEN "passport" ELSE type

\* The type of an MRZ from its two type attributes.
MrzType(type, isP) ==
    IF type = "TD3" \/ isP           THEN "passport"
    ELSE IF type \in {"ID-1", "ID-2"} THEN "national_id"
    ELSE "unknown"

Type == {"unknown", "drivers_license", "passport", "national_id", "social_security_card"}
=============================================================================
