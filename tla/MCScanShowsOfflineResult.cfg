SPECIFICATION VerifySpec
CONSTANTS
    Text <- MCText
    BlankText <- MCBlankText
    Clean <- MCClean
    Numeric <- MCNumeric
    ParseInt <- MCParseInt
    Chain <- MCChain
    Code <- MCCode
    CodeId <- MCCodeId
    MaxVerifications = 2
    MaxScanners = 2
PROPERTIES
    ScanShowsOfflineResult
