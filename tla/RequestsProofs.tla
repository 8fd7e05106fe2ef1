--------------------------- MODULE RequestsProofs ---------------------------
(***************************************************************************)
(* Proofs about the BSC request API of Requests, for every set of coins,   *)
(* every set of failing calls and every retry limit: type correctness,     *)
(* the bound on waitForResults' polling, and that newRequestAPI leaves a   *)
(* coin map that is sound except through the two mishandled errors of      *)
(* the calls that bind the ERC20 contracts.                                *)
(***************************************************************************)
EXTENDS Requests, TLAPS

USE RequestsAssumption

\* The requests, described by what they are built from.
Ops == [pre : BOOLEAN, bind : Bindings, onFail : {"err", "panic", "response"}]

\* The request disjuncts of Next.
AnyRequest ==
    \/ \E c \in Coins :
         \/ Request(transferIntraChain(c)) \/ Request(transferInterChain(c))
         \/ Request(approveCoin(c))
    \/ \E cs \in SUBSET Coins, sameLen \in BOOLEAN :
         Request(transferBatch(cs, sameLen))
    \/ Request(getCoinBalance) \/ Request(reclaim) \/ Request(TransactWithBTS)
    \/ \E m \in CallMethods, argsOk \in BOOLEAN : Request(CallBTS(m, argsOk))

\* Every request of the API is an Op of Ops.
LEMMA RequestInOps == TypeOK /\ AnyRequest => \E o \in Ops : Request(o)
<1> SUFFICES ASSUME TypeOK, AnyRequest PROVE \E o \in Ops : Request(o)
    OBVIOUS
<1>1. \A c \in Coins : /\ transferIntraChain(c) \in Ops
                       /\ transferInterChain(c) \in Ops
                       /\ approveCoin(c) \in Ops
      BY DEF TypeOK, Ops, Op, Bindings, transferIntraChain, transferInterChain,
         transferNativeIntraChain, transferTokenIntraChain,
         transferNativeCrossChain, transferTokensCrossChain, approveCoin
<1>2. \A cs \in SUBSET Coins, sameLen \in BOOLEAN : transferBatch(cs, sameLen) \in Ops
      BY DEF Ops, Op, Bindings, transferBatch
<1>3. {getCoinBalance, reclaim, TransactWithBTS} \subseteq Ops
      BY DEF Ops, Op, Bindings, getCoinBalance, reclaim, TransactWithBTS
<1>4. \A m \in CallMethods, argsOk \in BOOLEAN : CallBTS(m, argsOk) \in Ops
      BY DEF Ops, Op, Bindings, CallBTS
<1>5. QED BY <1>1, <1>2, <1>3, <1>4, Zenon DEF AnyRequest

\* A request changes only the control point and the result class, and its
\* result is one of the classes of a request.
LEMMA RequestEffect ==
    ASSUME NEW o \in Ops, Request(o)
    PROVE  /\ pc = "ready" /\ pc' \in {"ready", "panicked"}
           /\ out' \in {"hash", "err", "panic", "response"}
           /\ UNCHANGED <<inputs, registered, todo, erc, err, polls, mined>>
<1>1. out' \in Outcomes(o)
      BY DEF Request
<1>2. Outcomes(o) \subseteq {"hash", "err", "panic", "response"}
      BY DEF Outcomes, Ops
<1>3. QED BY <1>1, <1>2 DEF Request

\* Next, with the requests gathered under AnyRequest.
LEMMA NextCases ==
    [Next]_vars <=>
        \/ NewFail \/ New \/ CoinNames \/ CheckCoins \/ BindCoin \/ BindNone
        \/ AnyRequest
        \/ WaitStart \/ Mine \/ WaitCancel \/ WaitTick \/ Ended
        \/ UNCHANGED vars
BY Zenon DEF Next, AnyRequest

-----------------------------------------------------------------------------
(* Type correctness.                                                        *)

\* Every step keeps the variables in their types.
LEMMA TypeStep == TypeOK /\ [Next]_vars => TypeOK'
<1> SUFFICES ASSUME TypeOK, [Next]_vars PROVE TypeOK'
    OBVIOUS
<1> USE DEF TypeOK
<1>1. CASE NewFail \/ New \/ CoinNames \/ BindNone \/ Ended \/ UNCHANGED vars
      BY <1>1 DEF NewFail, New, CoinNames, BindNone, Ended, vars
<1>2. CASE CheckCoins
      BY <1>2 DEF CheckCoins
<1>3. CASE BindCoin
      BY <1>3 DEF BindCoin, Bindings
<1>4. CASE AnyRequest
      <2>1. PICK o \in Ops : Request(o)
            BY <1>4, RequestInOps
      <2>2. QED BY <2>1, RequestEffect
<1>5. CASE WaitStart \/ Mine \/ WaitCancel
      <2>1. CASE WaitStart
            <3>1. polls' = 0 /\ pc' = "wait" /\ mined' = FALSE
                  /\ UNCHANGED <<inputs, registered, todo, erc, err, out>>
                  BY <2>1 DEF WaitStart
            <3>2. polls' \in 0..RetryLimit
                  BY <3>1
            <3>3. QED BY <3>1, <3>2, Zenon
      <2>2. CASE Mine
            BY <2>2 DEF Mine
      <2>3. CASE WaitCancel
            BY <2>3 DEF WaitCancel
      <2>4. QED BY <1>5, <2>1, <2>2, <2>3
<1>6. CASE WaitTick
      <2>1. CASE polls >= RetryLimit
            <3>1. out' = "timeout" /\ pc' = "ready"
                  /\ UNCHANGED <<inputs, registered, todo, erc, err, mined, polls>>
                  BY <1>6, <2>1 DEF WaitTick
            <3>2. QED BY <3>1
      <2>2. CASE polls < RetryLimit
            <3>1. /\ polls' = polls + 1
                  /\ pc' \in {"wait", "ready"}
                  /\ out' \in {out, "receipt", "err"}
                  /\ UNCHANGED <<inputs, registered, todo, erc, err, mined>>
                  BY <1>6, <2>2 DEF WaitTick
            <3>2. polls' \in 0..RetryLimit
                  BY <2>2, <3>1
            <3>3. QED BY <3>1, <3>2
      <2>3. QED BY <2>1, <2>2
<1>7. QED BY <1>1, <1>2, <1>3, <1>4, <1>5, <1>6, NextCases

\* The initial states are well typed.
LEMMA TypeInit == Init => TypeOK
<1> SUFFICES ASSUME Init PROVE TypeOK
    OBVIOUS
<1>1. inputs \subseteq Coins /\ registered \subseteq Coins /\ todo \subseteq Coins
      BY DEF Init
<1>2. erc \in [Coins -> Bindings]
      BY DEF Init, Bindings
<1>3. polls \in 0..RetryLimit
      BY DEF Init
<1>4. QED BY <1>1, <1>2, <1>3 DEF Init, TypeOK

\* Every reachable state of the request API is well typed.
THEOREM TypeCorrect == Spec => []TypeOK
BY TypeInit, TypeStep, PTL DEF Spec

-----------------------------------------------------------------------------
(* The polling bound of waitForResults.                                     *)

\* While waiting, the result is the hash that the wait started from.
WaitHash == pc = "wait" => out = "hash"

PInv == TypeOK /\ PollBound /\ WaitHash

\* Every step keeps PInv.
LEMMA PInvStep == PInv /\ [Next]_vars => PInv'
<1> SUFFICES ASSUME PInv, [Next]_vars PROVE PInv'
    OBVIOUS
<1>0. TypeOK /\ TypeOK'
      BY TypeStep DEF PInv
<1> USE <1>0 DEF PInv, PollBound, WaitHash
<1>1. CASE NewFail \/ New \/ CoinNames \/ CheckCoins \/ BindCoin \/ BindNone
           \/ Ended \/ UNCHANGED vars
      <2>1. pc' # "wait" \/ UNCHANGED pc
            BY <1>1 DEF NewFail, New, CoinNames, CheckCoins, BindCoin, BindNone,
               Ended, vars
      <2>2. UNCHANGED <<out, polls>>
            BY <1>1 DEF NewFail, New, CoinNames, CheckCoins, BindCoin, BindNone,
               Ended, vars
      <2>3. QED BY <2>1, <2>2
<1>2. CASE AnyRequest
      <2>1. PICK o \in Ops : Request(o)
            BY <1>2, RequestInOps
      <2>2. QED BY <2>1, RequestEffect
<1>3. CASE WaitStart \/ Mine \/ WaitCancel
      BY <1>3 DEF WaitStart, Mine, WaitCancel
<1>4. CASE WaitTick
      <2>0. pc = "wait" /\ out = "hash" /\ polls \in 0..RetryLimit
            BY <1>4 DEF WaitTick, TypeOK
      <2>1. CASE polls >= RetryLimit
            <3>1. out' = "timeout" /\ pc' = "ready" /\ UNCHANGED polls
                  BY <1>4, <2>1 DEF WaitTick
            <3>2. polls' = RetryLimit
                  BY <2>0, <2>1, <3>1
            <3>3. QED BY <3>1, <3>2
      <2>2. CASE polls < RetryLimit
            <3>1. /\ polls' = polls + 1
                  /\ \/ pc' = "wait" /\ out' = out
                     \/ pc' = "ready" /\ out' \in {"receipt", "err"}
                  BY <1>4, <2>0, <2>2 DEF WaitTick
            <3>2. polls' <= RetryLimit
                  BY <2>0, <2>2, <3>1
            <3>3. QED BY <2>0, <3>1, <3>2
      <2>3. QED BY <2>0, <2>1, <2>2
<1>5. QED BY <1>1, <1>2, <1>3, <1>4, NextCases

\* waitForResults asks for the receipt at most retryLimit times and reports
\* "Retry Limit Exceeded" only after exactly retryLimit NotFound answers,
\* for every retry limit.
THEOREM PollBoundInvariant == Spec => []PollBound
<1>1. Init => PInv
      BY TypeInit DEF Init, PInv, PollBound, WaitHash
<1>2. PInv => PollBound
      BY DEF PInv
<1>3. QED BY <1>1, <1>2, PInvStep, PTL DEF Spec


-----------------------------------------------------------------------------
(* The coin map of newRequestAPI.                                           *)

\* A coin is bound when the loop has set its entry: to its contract, or to
\* the zero address when CoinId failed.
Bound(c) ==
    \/ erc[c] = "ok"
    \/ erc[c] = "zero" /\ "CoinId" \in Failing

\* Up to the binding loop no error has been recorded.  In the loop the
\* configured coins are registered, the loop visits registered non-native
\* coins only, and every coin it has visited is bound.  A "nil" entry is
\* left only by a failed NewErc20tradable.
CInv ==
    /\ TypeOK
    /\ pc \in {"new", "coinNames", "check"} => ~err
    /\ \A c \in Coins : erc[c] = "nil" => "NewErc20tradable" \in Failing
    /\ pc = "bind" =>
         /\ ~err
         /\ inputs \subseteq registered
         /\ todo \subseteq registered \ {Native}
         /\ \A c \in (registered \ {Native}) \ todo : Bound(c)
    /\ CoinMapFailsOnlyByBinding

\* Every step keeps CInv, whichever calls may fail.
LEMMA CInvStep == CInv /\ [Next]_vars => CInv'
<1> SUFFICES ASSUME CInv, [Next]_vars PROVE CInv'
    OBVIOUS
<1>0. TypeOK'
      BY TypeStep DEF CInv
<1> USE <1>0 DEF CInv
<1>1. CASE NewFail \/ New \/ CoinNames \/ Ended \/ UNCHANGED vars
      <2>1. UNCHANGED <<inputs, registered, todo, erc>>
            BY <1>1 DEF NewFail, New, CoinNames, Ended, vars
      <2>2. CASE NewFail
            BY <2>1, <2>2 DEF NewFail, CoinMapFailsOnlyByBinding, Bound
      <2>3. CASE New
            BY <2>1, <2>3 DEF New, CoinMapFailsOnlyByBinding, Bound
      <2>4. CASE CoinNames
            BY <2>1, <2>4 DEF CoinNames, CoinMapFailsOnlyByBinding, Bound
      <2>5. CASE Ended \/ UNCHANGED vars
            <3>1. UNCHANGED <<pc, err>>
                  BY <2>5 DEF Ended, vars
            <3>2. QED BY <2>1, <3>1 DEF CoinMapFailsOnlyByBinding, Bound
      <2>6. QED BY <1>1, <2>2, <2>3, <2>4, <2>5
<1>2. CASE CheckCoins
      <2>1. /\ pc = "check"
            /\ \/ /\ pc' = "bind"
                  /\ inputs \subseteq registered
                  /\ todo' = registered \ {Native}
                  /\ err' = err
               \/ pc' = "failed"
            /\ UNCHANGED <<inputs, registered, erc>>
            BY <1>2 DEF CheckCoins
      <2>2. QED BY <2>1 DEF CoinMapFailsOnlyByBinding, Bound
<1>3. CASE BindCoin
      <2>1. pc = "bind" /\ ~err
            BY <1>3 DEF BindCoin
      <2>2. PICK c \in todo, idFails, newFails \in BOOLEAN :
              /\ idFails => "CoinId" \in Failing
              /\ newFails => "NewErc20tradable" \in Failing
              /\ IF newFails
                 THEN /\ erc' = [erc EXCEPT ![c] = "nil"]
                      /\ err' = idFails
                      /\ pc' = IF idFails THEN "failed" ELSE "ready"
                      /\ UNCHANGED todo
                 ELSE /\ erc' = [erc EXCEPT ![c] = IF idFails THEN "zero" ELSE "ok"]
                      /\ todo' = todo \ {c}
                      /\ pc' = IF todo \ {c} = {} THEN "ready" ELSE "bind"
                      /\ UNCHANGED err
              /\ UNCHANGED <<inputs, registered>>
            BY <1>3, <2>1 DEF BindCoin
      <2>3. c \in Coins
            BY <2>2 DEF TypeOK
      <2>4. CASE newFails
            <3>1. /\ erc' = [erc EXCEPT ![c] = "nil"] /\ pc' \in {"failed", "ready"}
                  /\ "NewErc20tradable" \in Failing
                  BY <2>2, <2>4
            <3>2. erc'[c] = "nil" /\ \A d \in Coins \ {c} : erc'[d] = erc[d]
                  BY <2>3, <3>1 DEF TypeOK
            <3>3. (\A d \in Coins : erc[d] = "nil" => "NewErc20tradable" \in Failing)'
                  BY <3>1, <3>2
            <3>4. CoinMapFailsOnlyByBinding'
                  BY <2>3, <3>1, <3>2 DEF CoinMapFailsOnlyByBinding
            <3>5. QED BY <3>1, <3>3, <3>4
      <2>5. CASE ~newFails
            <3> DEFINE v == IF idFails THEN "zero" ELSE "ok"
            <3>1. /\ erc' = [erc EXCEPT ![c] = v]
                  /\ todo' = todo \ {c}
                  /\ pc' = IF todo \ {c} = {} THEN "ready" ELSE "bind"
                  /\ err' = err
                  BY <2>2, <2>5
            <3>2. /\ erc'[c] = v /\ \A d \in Coins \ {c} : erc'[d] = erc[d]
                  /\ Bound(c)'
                  BY <2>2, <2>3, <3>1 DEF TypeOK, Bound
            <3>3. \A d \in (registered \ {Native}) \ todo' : Bound(d)'
                  BY <2>1, <3>1, <3>2 DEF Bound
            <3>4. (\A d \in Coins : erc[d] = "nil" => "NewErc20tradable" \in Failing)'
                  BY <3>2
            <3>5. CASE todo \ {c} = {}
                  <4>1. pc' = "ready"
                        BY <3>1, <3>5
                  <4>2. \A d \in (inputs \cup registered) \ {Native} : Bound(d)'
                        BY <2>1, <2>2, <3>1, <3>3, <3>5
                  <4>3. QED BY <2>2, <3>1, <3>4, <4>1, <4>2
                        DEF CoinMapFailsOnlyByBinding, Bound
            <3>6. CASE todo \ {c} # {}
                  BY <2>1, <2>2, <3>1, <3>3, <3>4, <3>6 DEF CoinMapFailsOnlyByBinding
            <3>7. QED BY <3>5, <3>6
      <2>6. QED BY <2>4, <2>5
<1>4. CASE BindNone
      <2>1. /\ pc = "bind" /\ todo = {} /\ pc' = "ready"
            /\ UNCHANGED <<inputs, registered, todo, erc, err>>
            BY <1>4 DEF BindNone
      <2>2. QED BY <2>1 DEF CoinMapFailsOnlyByBinding, Bound
<1>5. CASE AnyRequest
      <2>1. PICK o \in Ops : Request(o)
            BY <1>5, RequestInOps DEF CInv
      <2>2. QED BY <2>1, RequestEffect DEF CoinMapFailsOnlyByBinding, Bound
<1>6. CASE WaitStart \/ Mine \/ WaitCancel \/ WaitTick
      <2>1. /\ pc \in {"ready", "wait"} /\ pc' \in {"ready", "wait"}
            /\ UNCHANGED <<inputs, registered, todo, erc, err>>
            BY <1>6 DEF WaitStart, Mine, WaitCancel, WaitTick
      <2>2. QED BY <2>1 DEF CoinMapFailsOnlyByBinding, Bound
<1>7. QED BY <1>1, <1>2, <1>3, <1>4, <1>5, <1>6, NextCases

\* For every configuration, registration and set of failing calls, a
\* newRequestAPI that returned without error left each needed coin bound
\* to its contract, except through the two mishandled errors of
\* getCoinAddresses: a failed CoinId binds the zero address
\* (requests.go:122), a failed NewErc20tradable ends the loop with a nil
\* error (requests.go:128).  In an environment where neither call fails
\* this is CoinMapSound, which requests_core checks.
THEOREM CoinMapFailsOnlyByBindingInvariant == Spec => []CoinMapFailsOnlyByBinding
<1>1. Init => CInv
      BY TypeInit DEF Init, CInv, CoinMapFailsOnlyByBinding
<1>2. CInv => CoinMapFailsOnlyByBinding
      BY DEF CInv
<1>3. CInv /\ [Next]_vars => CInv'
      BY CInvStep
<1>4. QED BY <1>1, <1>2, <1>3, PTL DEF Spec

=============================================================================
