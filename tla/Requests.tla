------------------------------ MODULE Requests ------------------------------
(***************************************************************************)
(* The BSC request API of src/cmd/e2etest/chain/bsc/requests.go.           *)
(*                                                                         *)
(* newRequestAPI dials the node, binds the BTS contracts and, in           *)
(* getCoinAddresses, checks the coins the BTS core reports against the     *)
(* configured ones and binds an ERC20 contract per non-native coin. Test   *)
(* scripts then issue requests one at a time: transfers, approvals, a     *)
(* reclaim and balance queries, and poll for a transaction's receipt with  *)
(* waitForResults.                                                         *)
(*                                                                         *)
(* A request is one step: the code runs it start to end on the caller's   *)
(* goroutine. Its result is abstracted to its class: a hash (or value), an *)
(* error, or a panic. Every RPC and contract call that can fail is a      *)
(* nondeterministic choice, allowed for the call classes in Failing.       *)
(* An ERC20 binding is "ok" (the coin's contract), "zero" (bound to the    *)
(* zero address) or "nil" (a nil binding stored in the map); "none" means *)
(* the coin has no entry in ercPerCoin.                                    *)
(***************************************************************************)
EXTENDS Naturals, FiniteSets

CONSTANTS
    Coins,      \* coin names, of the config and of the BTS core
    Native,     \* cfg.NativeCoin
    Failing,    \* the call classes that may fail in this environment
    RetryLimit  \* retryLimit of waitForResults

CallClasses == {"dial", "CoinNames", "CoinId", "NewErc20tradable", "key",
                "rpc", "contract", "receipt"}

\* The methods of CallBTS, and one it does not support.
CallMethods == {"CheckTransferRestrictions", "IsUserBlackListed",
                "GetTokenLimit", "IsOwner", "unsupported"}

ASSUME RequestsAssumption ==
    /\ IsFiniteSet(Coins) /\ Native \in Coins
    /\ Failing \subseteq CallClasses
    /\ RetryLimit \in Nat

Bindings == {"none", "ok", "zero", "nil"}

VARIABLES
    pc,          \* "new", "coinNames", "check", "bind", "ready" (requests are
                 \* served), "failed" (newRequestAPI returned an error),
                 \* "wait" (in waitForResults) or "panicked"
    inputs,      \* cfg.NativeTokens and cfg.WrappedCoins
    registered,  \* the coin names btsc.CoinNames returns
    todo,        \* the coins the binding loop has still to visit
    erc,         \* ercPerCoin: coin -> binding
    err,         \* the named result err of getCoinAddresses is non-nil
    out,         \* class of the result of the last request
    polls,       \* retryCounter of the current waitForResults
    mined        \* the transaction waited for has been mined

vars == <<pc, inputs, registered, todo, erc, err, out, polls, mined>>

TypeOK ==
    /\ pc \in {"new", "coinNames", "check", "bind", "ready", "failed", "wait",
               "panicked"}
    /\ inputs \subseteq Coins /\ registered \subseteq Coins /\ todo \subseteq Coins
    /\ erc \in [Coins -> Bindings]
    /\ err \in BOOLEAN
    /\ out \in {"none", "hash", "err", "panic", "response", "receipt", "timeout"}
    /\ polls \in 0..RetryLimit
    /\ mined \in BOOLEAN

\* Any configuration, and any registration of coins on the BTS core, which
\* always lists the native coin.
Init ==
    /\ pc = "new"
    /\ inputs \in SUBSET Coins
    /\ registered \in {R \in SUBSET Coins : Native \in R}
    /\ todo = {}
    /\ erc = [c \in Coins |-> "none"]
    /\ err = FALSE
    /\ out = "none"
    /\ polls = 0
    /\ mined = FALSE

-----------------------------------------------------------------------------
(* newRequestAPI and getCoinAddresses                                       *)

\* The network id check, rpc.Dial, or the lookup and binding of the BTS
\* core or periphery fails: newRequestAPI returns the error.
NewFail ==
    /\ pc = "new"
    /\ "dial" \in Failing
    /\ pc' = "failed"
    /\ err' = TRUE
    /\ UNCHANGED <<inputs, registered, todo, erc, out, polls, mined>>

\* The client and both BTS bindings are made: getCoinAddresses starts.
New ==
    /\ pc = "new"
    /\ pc' = "coinNames"
    /\ UNCHANGED <<inputs, registered, todo, erc, err, out, polls, mined>>

\* btsc.CoinNames: on error the function returns it.
CoinNames ==
    /\ pc = "coinNames"
    /\ \/ /\ pc' = "check"
          /\ UNCHANGED err
       \/ /\ "CoinNames" \in Failing
          /\ pc' = "failed"
          /\ err' = TRUE
    /\ UNCHANGED <<inputs, registered, todo, erc, out, polls, mined>>

\* The binding loop without the check that every configured coin is
\* registered.
CheckCoinsOneWay ==
    /\ pc = "check"
    /\ IF registered \ {Native} \subseteq inputs
       THEN /\ pc' = "bind"
            /\ todo' = registered \ {Native}
            /\ UNCHANGED err
       ELSE /\ pc' = "failed"
            /\ err' = TRUE
            /\ UNCHANGED todo
    /\ UNCHANGED <<inputs, registered, erc, out, polls, mined>>

\* Every registered coin but the native one is configured, and every
\* configured coin is registered; then ercMap is made and the loop starts.
CheckCoins ==
    /\ pc = "check"
    /\ IF /\ registered \ {Native} \subseteq inputs
          /\ inputs \subseteq registered
       THEN /\ pc' = "bind"
            /\ todo' = registered \ {Native}
            /\ UNCHANGED err
       ELSE /\ pc' = "failed"
            /\ err' = TRUE
            /\ UNCHANGED todo
    /\ UNCHANGED <<inputs, registered, erc, out, polls, mined>>

\* One iteration for coin c: coinAddress, errs := btsc.CoinId(c), tested as
\* "if err != nil" on the named result; then ercMap[c], err =
\* NewErc20tradable(coinAddress), and on its error err = errors.Wrap(errs, ..),
\* which is nil when errs is nil. The loop ends with a return either way.
BindCoin ==
    /\ pc = "bind"
    /\ \E c \in todo, idFails, newFails \in BOOLEAN :
         /\ idFails => "CoinId" \in Failing
         /\ newFails => "NewErc20tradable" \in Failing
         /\ IF err
            THEN /\ pc' = "failed"
                 /\ UNCHANGED <<todo, erc, err>>
            ELSE IF newFails
            THEN /\ erc' = [erc EXCEPT ![c] = "nil"]
                 /\ err' = idFails
                 /\ pc' = IF idFails THEN "failed" ELSE "ready"
                 /\ UNCHANGED todo
            ELSE /\ erc' = [erc EXCEPT ![c] = IF idFails THEN "zero" ELSE "ok"]
                 /\ todo' = todo \ {c}
                 /\ pc' = IF todo \ {c} = {} THEN "ready" ELSE "bind"
                 /\ UNCHANGED err
    /\ UNCHANGED <<inputs, registered, out, polls, mined>>

\* No coin to bind: getCoinAddresses returns the empty map.
BindNone ==
    /\ pc = "bind"
    /\ todo = {}
    /\ pc' = "ready"
    /\ UNCHANGED <<inputs, registered, todo, erc, err, out, polls, mined>>

-----------------------------------------------------------------------------
(* Requests                                                                 *)

\* A request: pre holds when its own checks (lengths, coin lookups) pass,
\* bind is the contract binding it calls, onFail what a failing contract
\* call becomes: "err" when its error is returned, "panic" when the nil
\* transaction's hash is read without testing the error, "response" when
\* the error is handed back as the result with a nil err.
Op(pre, bind, onFail) == [pre |-> pre, bind |-> bind, onFail |-> onFail]

\* GetWalletFromPrivKey: hex.DecodeString and crypto.ToECDSA of the key.
GetWalletFromPrivKey == {"wallet"} \cup (IF "key" \in Failing THEN {"err"} ELSE {})

\* getTransactionRequest: GetWalletFromPrivKey, ChainID, the transactor and
\* SuggestGasPrice, each of which may fail.
getTransactionRequest ==
    {"txo"} \cup (IF "err" \in GetWalletFromPrivKey \/ "rpc" \in Failing
                  THEN {"err"} ELSE {})

\* The result classes of a request: an error of a check or of an RPC call;
\* a method called on a nil binding panics; the contract call fails (its
\* transaction is nil) or yields the hash.
Outcomes(o) ==
    IF ~o.pre THEN {"err"}
    ELSE (IF "err" \in getTransactionRequest THEN {"err"} ELSE {})
         \cup (IF o.bind = "nil" THEN {"panic"}
               ELSE {"hash"} \cup
                    (IF "contract" \in Failing
                     THEN {o.onFail} ELSE {}))

\* Wallet, PendingNonceAt, SuggestGasPrice, ChainID, SignTx and
\* SendTransaction, each error returned.
transferNativeIntraChain == Op(TRUE, "ok", "err")

transferTokenIntraChain(c) == Op(erc[c] # "none", erc[c], "err")

transferIntraChain(c) ==
    IF c = Native THEN transferNativeIntraChain ELSE transferTokenIntraChain(c)

transferNativeCrossChain == Op(TRUE, "ok", "err")

\* Looks the coin up in ercPerCoin but calls btsc.Transfer.
transferTokensCrossChain(c) == Op(erc[c] # "none", "ok", "err")

transferInterChain(c) ==
    IF c = Native THEN transferNativeCrossChain ELSE transferTokensCrossChain(c)

\* The lengths must agree and every non-native coin be in ercPerCoin; the
\* error of btsc.TransferBatch is not tested before txn.Hash().
transferBatch(cs, sameLen) ==
    Op(sameLen /\ \A c \in cs \ {Native} : erc[c] # "none", "ok", "panic")

\* The native coin needs no approval; BTS is in contractNameToAddress since
\* newRequestAPI found it there.
approveCoin(c) == Op(c # Native /\ erc[c] # "none", erc[c], "err")

\* btsc.BalanceOf, its error returned.
getCoinBalance == Op(TRUE, "ok", "err")

\* The error of btsc.Reclaim is not tested before txn.Hash().
reclaim == Op(TRUE, "ok", "panic")

\* TransactWithBTS: every method is unsupported; it returns an error.
TransactWithBTS == Op(FALSE, "ok", "err")

\* CallBTS: the arguments are checked (nil, count, types, the network of
\* _net) and the BTS periphery or core is called. CheckTransferRestrictions
\* assigns the binding's only result, its error, to response and leaves err
\* nil; the other methods return the binding's error.
CallBTS(method, argsOk) ==
    Op(method # "unsupported" /\ argsOk, "ok",
       IF method = "CheckTransferRestrictions" THEN "response" ELSE "err")

\* The caller issues request o.
Request(o) ==
    /\ pc = "ready"
    /\ out' \in Outcomes(o)
    /\ pc' = IF out' = "panic" THEN "panicked" ELSE "ready"
    /\ UNCHANGED <<inputs, registered, todo, erc, err, polls, mined>>

-----------------------------------------------------------------------------
(* waitForResults                                                           *)

\* The caller waits for the transaction whose hash it got.
WaitStart ==
    /\ pc = "ready"
    /\ out = "hash"
    /\ pc' = "wait"
    /\ polls' = 0
    /\ mined' = FALSE
    /\ UNCHANGED <<inputs, registered, todo, erc, err, out>>

\* The chain mines the transaction.
Mine ==
    /\ pc = "wait"
    /\ ~mined
    /\ mined' = TRUE
    /\ UNCHANGED <<pc, inputs, registered, todo, erc, err, out, polls>>

\* ctx.Done(): the wait returns an error.
WaitCancel ==
    /\ pc = "wait"
    /\ out' = "err"
    /\ pc' = "ready"
    /\ UNCHANGED <<inputs, registered, todo, erc, err, polls, mined>>

\* The limit test with > instead of >=.
WaitTickOffByOne ==
    /\ pc = "wait"
    /\ IF polls > RetryLimit
       THEN /\ out' = "timeout" /\ pc' = "ready" /\ UNCHANGED polls
       ELSE /\ polls' = polls + 1
            /\ \/ ~mined /\ UNCHANGED <<pc, out>>
               \/ mined /\ out' = "receipt" /\ pc' = "ready"
               \/ "receipt" \in Failing /\ out' = "err" /\ pc' = "ready"
    /\ UNCHANGED <<inputs, registered, todo, erc, err, mined>>

\* A tick: past the limit the wait fails; otherwise TransactionReceipt is
\* asked; NotFound continues the loop, a receipt or another error is
\* returned.
WaitTick ==
    /\ pc = "wait"
    /\ IF polls >= RetryLimit
       THEN /\ out' = "timeout" /\ pc' = "ready" /\ UNCHANGED polls
       ELSE /\ polls' = polls + 1
            /\ \/ ~mined /\ UNCHANGED <<pc, out>>
               \/ mined /\ out' = "receipt" /\ pc' = "ready"
               \/ "receipt" \in Failing /\ out' = "err" /\ pc' = "ready"
    /\ UNCHANGED <<inputs, registered, todo, erc, err, mined>>

\* newRequestAPI failed or a request panicked: no more requests.
Ended ==
    /\ pc \in {"failed", "panicked"}
    /\ UNCHANGED vars

Next ==
    \/ NewFail \/ New \/ CoinNames \/ CheckCoins \/ BindCoin \/ BindNone
    \/ \E c \in Coins :
         \/ Request(transferIntraChain(c)) \/ Request(transferInterChain(c))
         \/ Request(approveCoin(c))
    \/ \E cs \in SUBSET Coins, sameLen \in BOOLEAN :
         Request(transferBatch(cs, sameLen))
    \/ Request(getCoinBalance) \/ Request(reclaim) \/ Request(TransactWithBTS)
    \/ \E m \in CallMethods, argsOk \in BOOLEAN : Request(CallBTS(m, argsOk))
    \/ WaitStart \/ Mine \/ WaitCancel \/ WaitTick
    \/ Ended

Spec == Init /\ [][Next]_vars

-----------------------------------------------------------------------------
(* Properties                                                               *)

\* The comments of getCoinAddresses (requests.go:99, 109): when
\* newRequestAPI returns without error, every configured and every
\* registered non-native coin has a binding to its own ERC20 contract.
CoinMapSound ==
    pc \in {"ready", "wait"} =>
        \A c \in (inputs \cup registered) \ {Native} : erc[c] = "ok"

\* What getCoinAddresses guarantees whatever fails: when newRequestAPI
\* returns without error, each configured or registered non-native coin is
\* bound to its own contract, or to the zero address after a failed CoinId
\* whose error the test of requests.go:122 missed, or else the loop was
\* cut short by a failed NewErc20tradable whose error Wrap(errs) dropped
\* (requests.go:128).  These two are the only ways the map is unusable.
CoinMapFailsOnlyByBinding ==
    pc \in {"ready", "wait"} =>
        \/ \A c \in (inputs \cup registered) \ {Native} :
              \/ erc[c] = "ok"
              \/ erc[c] = "zero" /\ "CoinId" \in Failing
        \/ \E c \in Coins : erc[c] = "nil" /\ "NewErc20tradable" \in Failing

\* No request panics on the nil transaction of a failed contract call or on
\* a nil binding (requests.go:351, 408).
NoNilTxnDeref == out # "panic"

\* waitForResults asks for the receipt at most retryLimit times, and gives
\* up with "Retry Limit Exceeded" only after exactly retryLimit NotFound
\* answers.
PollBound ==
    /\ polls <= RetryLimit
    /\ out = "timeout" => polls = RetryLimit

=============================================================================
