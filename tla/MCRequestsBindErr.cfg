CONSTANTS
    Coins = {n, t1, t2}
    Native = n
    Failing = {"CoinId", "NewErc20tradable"}
    RetryLimit = 10

SPECIFICATION Spec

INVARIANT CoinMapSound
