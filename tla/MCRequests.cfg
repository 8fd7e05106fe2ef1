CONSTANTS
    Coins = {n, t1, t2}
    Native = n
    Failing = {"dial", "CoinNames", "key", "rpc", "contract", "receipt"}
    RetryLimit = 10

SPECIFICATION Spec

INVARIANT CoinMapSound
INVARIANT PollBound
