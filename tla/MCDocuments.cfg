SPECIFICATION DocumentsSpec
CONSTANTS
    Pages = 2
    Variants = 2
    Readings <- SomeReadings
    Codes <- SomeCodes
    Texts <- SomeTexts
    Prints <- SomePrints
    max_image_px = 3
    Sizes <- SomeSizes
    Names = {"type", "DATE_OF_EXPIRY", "EXPIRATION_DATE", "family_name"}
    MaxItems = 3
INVARIANTS
    DocumentsTypeOK
    BestEvidenceWins
    TempFilesGo
    FieldsAsPrinted
    PictureFits
    LastWordWins
    FailuresStayApart
CHECK_DEADLOCK FALSE
