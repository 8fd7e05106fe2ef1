CONSTANTS
    MaxSeq = 4
    MaxHeight = 4
    EvHeight <- MCEvHeight
    Offset = 1
    TriggerCount = 1
    TxLimit = 2
    MaxRuns = 3
    SrcCloses = FALSE

SPECIFICATION FairSpec

INVARIANT TypeOK
INVARIANT NoLoss
INVARIANT InFlightApplicable

PROPERTY TxStartsAtNext
PROPERTY AllDelivered
