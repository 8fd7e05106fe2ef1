CONSTANTS
    MaxSeq = 4
    MaxHeight = 4
    EvHeight <- MCEvHeight
    Offset = 1
    TriggerCount = 1
    TxLimit = 2
    MaxRuns = 2
    SrcCloses = FALSE

SPECIFICATION Spec

PROPERTY StopsOnlyOnFatal
