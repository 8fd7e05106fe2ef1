CONSTANTS
    Width = 8
    MaxN = 3
    MinDelay = 0
    MaxDelay = 3
    MaxK = 4
SPECIFICATION Spec
INVARIANT TypeOK AtMostNCalls SleepBackoff OutcomeMatchesAttempts
