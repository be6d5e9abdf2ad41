---------------------------- MODULE MCDocuments ----------------------------
(* Two pages, two variants, three scores, readings without data and a code  *)
(* of unknown format; dates at the edges of the windows and with days that  *)
(* are, and are not, months; images around the limit of three pixels, and   *)
(* answers of up to three items.                                            *)
EXTENDS AssetProcessors

Code(kind, payload) == [kind |-> kind, payload |-> payload]

SomeCodes ==
    {<<Code("other", "aamva")>>,
     <<Code("other", "plain"), Code("pdf417", "aamva")>>,
     <<Code("pdf417", "plain"), Code("other", "aamva")>>,
     <<Code("opaque", "plain"), Code("pdf417", "aamva")>>}

MrzOf(score, data) == [score |-> score, data |-> data]

SomeReadings ==
    {MrzOf(0, FALSE), MrzOf(1, TRUE), MrzOf(1, FALSE), MrzOf(2, TRUE)}

SomeTexts ==
    {{"social security", "text"}, {"social security", "ssn"},
     {"social security", "driver license", "passport"}, {"passport"}, {"identity"}}

Doc(birth, expiry, first, number) ==
    [birth |-> birth, expiry |-> expiry, first |-> first, number |-> number]

SomePrints ==
    {Doc(Date(1951, 12, 31), Date(2049, 1, 13), "birth", <<0, 3, 7, 7, 1>>),
     Doc(Date(1950, 3, 4), Date(2050, 2, 5), "expiry", <<7, 7, 1>>),
     Doc(Date(2050, 10, 12), Date(1950, 12, 10), "birth", <<0, 1, 5>>),
     Doc(Date(1899, 6, 30), Date(2101, 1, 1), "expiry", << >>),
     Doc(Date(1990, 5, 15), Date(2030, 12, 31), "expiry", <<1, 2, 3, 4, 5>>)}

SomeSizes == (1..7) \X (1..7)
=============================================================================
