# TLA+ verification of the BTP relay

This directory holds TLA+ models of the Go code under `src/`. It also holds the TLC configurations that
model-check them and the TLAPS proofs about them. `PROJECT.json` lists:

- every component, with its status;
- every run, with the properties it checks;
- the mutants that show each property can fail;
- the map from each definition to the source lines it models;
- the hazards of the code and the findings.

## The system

| Part | Source | Role |
|---|---|---|
| Relay Orchestrator | `src/cmd/btpsimple/relay/relay.go` (`relay.Start`) | One goroutine. It reads the destination's link status (`rxSeq`, `rxHeight`) and subscribes to source events from `max(rxHeight, Offset)` and `rxSeq`. It then loops over a `select` on cancellation, a ticker, inbound messages and `relayCh`, a coalescing flush signal of capacity 1. A flush re-reads the status, trims the pending message (`removeProcessedMessages`) and asks the destination to `Segment` it into one transaction plus a residual. It then retries `tx.Send` forever, retries `tx.Receipt` forever, and finally adopts the residual as the new pending message. |
| Message Aggregator | same file | The pending message `srcMsg`, a list of receipts each holding a list of events: the absorb step of the inbound case (drop empty receipts, append), `removeProcessedMessages`, the cut by `Segment` and the adopted residual. `Relay` models it as a set of events; `RelayList` models the lists and refines `Relay`. |
| Resilient Operation Runner | `src/cmd/btpsimple/module/hmny/utils.go` (`Retry`) | A recursive retry with a jittered, doubling delay. |
| Proof Builder | same file (`receiptsTrie`, `receiptProof`) | Builds a Merkle-Patricia trie of receipts in a pooled in-memory database and extracts a proof. |
| E2E Test Executor | `src/cmd/e2etest/executor/executor.go` | A test harness. One dispatcher goroutine fans chain events out to concurrently running test scripts. It uses per-script channels kept in a map under an `RWMutex`. |
| BSC request API | `src/cmd/e2etest/chain/bsc/requests.go` | Used by e2e test scripts. `newRequestAPI` binds the BTS contracts and an ERC20 contract per coin. The API then builds and sends transactions, answers view calls and polls for receipts, all over go-ethereum bindings. |

The orchestrator drives the aggregator. The source receiver and the destination sender are interfaces whose implementations are not
under `src/`. The model treats them as the environment, following `spec.md`.

## Module `Relay` (with `MCRelay`, `RelayProofs`)

### Data abstraction

- An event is its sequence number `s ∈ 1..MaxSeq`. The constant `EvHeight[s]` is the height of its block and is nondecreasing in `s`.
- A receipt is the set of events at one height.
- The pending message `srcMsg` is the set of its events. The receipt count that the trigger compares with `relayTriggerReceiptsCount` is therefore the number of distinct heights.
- A destination transaction is identified by `<<run, events, last>>`: the process run that built it, the events it carries (a prefix of the trimmed message, at most `TxLimit` of them) and its last sequence.

### State

| Variable | Code |
|---|---|
| `pc` | The control point of `Start`: `init`, `idle` (the `select`), `send` (the send loop), `confirm` (the wait loop), `stopped`, or `crashed` after a panic. |
| `srcMsg` | The pending message. |
| `sub` | The subscription position. |
| `relayCh` | The coalescing flush signal. |
| `cur` | The transaction in flight. |
| `newMsg` | The residual returned by `Segment`. |
| `dst` | The destination's link status. |
| `txSt` | The state of each transaction at the destination: none, unsent, in the pool, executed. |
| `runs` | Process restarts. |
| `exitErr` | Why the last run ended. |
| `srcOpen` | Whether the subscription's `srcMessageCh` is still open. |

### Actions

Each action is one handler of the code with all its error paths:

- `Start`, `StartFail`;
- `Cancel`, the `ctx.Done()` case, taken at any suspension point;
- `Tick`, the ticker case;
- `Receive`, the inbound case with absorb and trigger;
- `FlushStatusFail`, `FlushStatusCancel`, `FlushSegmentFail`;
- `FlushOk`, whose disjuncts are `FlushNil` and `FlushSegment`;
- `SendOk`, `SendFailBroadcast`: a failed `Send` that may still have reached the pool and is retried;
- `ReceiptOk`;
- `ReceiveClosed`: the receive case on a closed `srcMessageCh`. The code takes the nil message without the `ok` flag, and `msg.Receipts[:0]` panics.

The environment actions are modelled from `spec.md` and marked `spec_modelled`:

- `Include`: the destination executes a pooled transaction only if it continues its link with no gap. It then advances `rxSeq` and `rxHeight`.
- `Restart`: a new run of the process after a stop, bounded by `MaxRuns`. Its transactions in the pool survive it.
- `SrcClose`: the source receiver closes the subscription's channel, when the constant `SrcCloses` allows it. Spec section 6 says the stream may end or fail.
- `Crashed`: the process that panicked does nothing more.

### Properties

- `NoLoss`: every event the destination has not consumed is in `srcMsg` or is still to come from the subscription. This covers restarts, stale status reads and partial receipts trimmed at `rxHeight`.
- `InFlightApplicable`: the transaction the wait loop waits for can still be executed. If it could not, `waitLoop` would spin forever.
- `TxStartsAtNext`, an action property: every transaction the relay builds starts exactly at `rxSeq + 1`.
- `AllDelivered`, liveness: the destination eventually consumes every event.
- `StopsOnlyOnFatal`: a run ends only on cancellation or a failed start (spec section 7). This one is violated; see the findings.
- `NoPanicOnClosedSource`: the run never panics on a closed source channel (spec section 6). This one is violated; see the findings.
- `IInvApplicable`: the inductive invariant used by the proofs. It is `IInv` plus `SrcBelow` and `InFlightApplicable`.

### Fairness

Go's `select` picks uniformly among the ready cases, so a case that stays ready is eventually taken. A status error is transient. This
justifies strong fairness on `Tick`, `Receive` and `FlushOk`, and weak fairness on `Start`, `Restart`, `SendOk`, `ReceiptOk` and
`Include`. Faults (`Cancel`, the failures, `SendFailBroadcast`) have no fairness: they may happen but are not forced.

### Runs

| Run | Config | Checks | Result |
|---|---|---|---|
| `relay_core` | `MCRelay.cfg` | `TypeOK`, `NoLoss`, `InFlightApplicable`, `TxStartsAtNext`, `AllDelivered` under `FairSpec` | pass |
| `relay_inductive` | `MCRelayInd.cfg` | `IInvApplicable`, the inductive invariant of `RelayProofs`, with `SrcCloses = TRUE` | pass, 169,375 states |
| `relay_fatal_errors` | `MCRelayFatal.cfg` | `StopsOnlyOnFatal` | violation |
| `relay_source_closed` | `MCRelayClosed.cfg` | `NoPanicOnClosedSource` | violation in 5 steps |

The bounds are 4 events at heights `<<1, 2, 2, 4>>`, `Offset = 1`, `TriggerCount = 1`, `TxLimit = 2` and `MaxRuns = 3`. They make
every interesting case happen:

- two events share a height, so a transaction can split a receipt and the residual's receipt sits at the destination's `rxHeight`;
- height 3 is empty;
- a message needs two transactions;
- a transaction of a crashed run can still execute after the next run has read the status;
- a resent transaction can meet one that already executed.

`relay_core` reaches 69,052 distinct states. It runs with `SrcCloses = FALSE`: the closed channel ends in a panic, which would
hide the liveness of the other paths. `relay_inductive` runs with `SrcCloses = TRUE` and without fairness, so the close of the
source channel, the receive from the closed channel and the crash all happen there, and the invariant that the proofs rest on is
checked over them too.

## Module `RelayList` (with `MCRelayList`)

`RelayList` models the pending message at the level of its lists, as `chain.Message` holds it. `srcList` is a sequence of receipts
`[height, events]`, and `events` is the sequence of their sequence numbers.

- `Receive` drops the empty receipts of the incoming message, appends the others, and signals when `Len(srcList)` exceeds the
  trigger count.
- `TrimList` is `removeProcessedMessages` as the code writes it. It skips the receipts below `rxHeight`, filters each remaining
  receipt's events above `rxSeq` in place, and keeps a receipt only if events are left.
- `FlushSegment` takes the events up to some event `c` and cuts the receipt holding `c`. The residual `newList` keeps the rest.
- `ReceiptOk` adopts the residual.

Every other step is `Relay`'s own, taken through `R == INSTANCE Relay WITH srcMsg <- Events(srcList), newMsg <- Events(newList)`.

| Run | Config | Checks | Result |
|---|---|---|---|
| `relay_list_refinement` | `MCRelayList.cfg` | `NoEmptyReceipt`; `StrictlyIncreasing` (flattened, the list's sequence numbers strictly increase); `ImplementsRelay` (`R!Spec`) | pass, 169,375 states |

`ImplementsRelay` shows that the set-level model loses nothing the lists decide. Counting receipts by the length of the list
agrees with counting heights, and the in-place trim, the cut and the residual are the set operations. The refinement mapping
forgets order and grouping, so the order itself is checked by `StrictlyIncreasing`. The bounds are those of `MCRelay`, with
closing source channels. Both models reach 169,375 distinct states. On the reachable states the lists are determined by their events: sorted,
grouped by height, with no empty receipt.

## Module `Requests` (with `RequestsProofs`)

`Requests` models `requests.go`.

- `newRequestAPI` with `getCoinAddresses`:
  - `NewFail` and `New`;
  - `CoinNames`;
  - `CheckCoins`: the two subset tests between configured and registered coins;
  - the binding loop `BindCoin` / `BindNone`, with its tests of the named result `err`.
- Each request is one step, `Request(o)`, whose result is abstracted to a class: hash or value, error, panic, or `response`.
  `response` is the error handed back as a response.
  - A request is described by an `Op`: whether its own checks pass, the binding it calls, and what a failing contract call
    becomes.
  - The transfers, `approveCoin`, `getCoinBalance`, `reclaim`, `TransactWithBTS` (always an error) and `CallBTS` are such
    `Op`s.
  - `getTransactionRequest` and `GetWalletFromPrivKey` may fail.
- `waitForResults` is `WaitStart`, `WaitTick` and `WaitCancel`, against a chain that `Mine`s the transaction.

Which calls may fail is the constant `Failing`. Coins are `{n, t1, t2}` with `n` native, so that configuration and registration
can disagree in both directions. `RetryLimit = 10`.

| Run | Config | Checks | Result |
|---|---|---|---|
| `requests_core` | `MCRequests.cfg` | `CoinMapSound` (after a successful `newRequestAPI` every configured and registered non-native coin is bound to its contract); `PollBound` | pass, 1,124 states |
| `requests_binding_errors` | `MCRequestsBindErr.cfg` | `CoinMapSound`, with `CoinId` and `NewErc20tradable` failing | violation |

## Module `Executor` (with `MCExecutor`)

`Executor` models the e2e test harness of `executor.go`: concurrent `Execute` calls, one per test script, and the dispatcher
goroutine of `Subscribe`.

- **State.** Each script has a control point `spc` (`getID`, `add`, `run`, `remove`, `signal`, `done`) and its drawn id `sid`.
  `reg` is the map `sinkChanPerID` from ids to channels. A channel is named by the script that made it. `closed` is the set of
  closed channels. The dispatcher has a control point `dpc`, the ids of its current event still to dispatch `dtargets`, and the
  channel `getChan` returned, `dch`, which it holds across the unlocked send. `mpc` is the main goroutine. `panicked` records a
  panic that ended the process.
- **Atomicity.** Each critical section of the `RWMutex` is one step: `GetID`, `AddChan`, `RemoveChan`, `GetChan`. The window
  between `getID` and `addChan` is therefore visible, and so is the one between `getChan` and the send. The exception is
  `removeChan`, which sends on the unbuffered `stoppedChan` while holding the write lock. That is the state `signal`, and while a
  script is in it no other critical section can run (`Locked`).
- **Environment.** Chain events target any subset of the id space, at most `MaxEvents` of them. Main reads `Done()` once and
  returns, which ends the process (`Alive`, marked `spec_modelled`). A script's callback may receive events on its channel
  (`Deliver`, a rendezvous with the dispatcher) and may return at any time; every return path runs the deferred `removeChan`.

| Run | Config | Checks | Result |
|---|---|---|---|
| `executor_core` | `MCExecutor.cfg` | `TypeOK`; `NoClosePanic` (removeChan never closes a nil or closed channel); `SignalOnEmpty` (the map is empty when main's `Done()` returns, because the lock is held across the send); `IInv` of the proofs; no deadlock | pass, 8,088 states |
| `executor_send_on_closed` | `MCExecutorSendClosed.cfg` | `NoSendOnClosed` | violation |
| `executor_duplicate_id` | `MCExecutorDupId.cfg` | `OwnChannelOpen` | violation |

The bounds are three scripts (symmetric), two ids and two events. Two ids for three scripts make both a full id space (`GetIDFail`)
and collisions happen. Two events let one event reach a script after another has been delivered.

## Module `Retry`

`Retry` models `Retry(attempts, sleep, f)`. One step is one frame of the recursion:

- `Succeed`;
- `FailExhausted`;
- `JitterPanic`: `rand.Int63n` with a non-positive bound;
- `FailRetry`: draw the jitter in `[0, sleep)`, sleep `sleep + jitter/2`, recurse with twice that.

`time.Duration` is a signed integer of `Width` bits that wraps. Init ranges over every call `Retry(n0, d, f)` with
`n0 ≤ MaxN` and `MinDelay ≤ d ≤ MaxDelay`, and over every operation that fails its first `k ≤ MaxK` calls.

| Run | Config | Checks | Result |
|---|---|---|---|
| `retry_core` | `MCRetry.cfg` | `TypeOK`; `AtMostNCalls` (at most `max(n, 1)` calls of f); `SleepBackoff` (each sleep at least doubles the previous one); `OutcomeMatchesAttempts` (nil exactly when `k < max(n, 1)`) | pass |
`Retry.tla` also states `NoJitterPanic`: `rand.Int63n(int64(sleep))` panics when `sleep` is 0, so `Retry(n, 0, f)` with
`n >= 2` panics on the first failure. With an 8-bit `Duration` and more attempts, the doubling also wraps negative and `Int63n`
panics; at 64 bits this needs about 60 retries and centuries of sleep. No kept run checks it: the only caller of `Retry` in the
repository is its own recursion with `2*sleep`, so no zero delay reaches it from the code. It is listed as a hazard.

## Module `ProofBuilder` (with `ProofBuilderProofs`)

`ProofBuilder` models the loop of `receiptsTrie` and `receiptProof`:

- `Update`: receipt `i` goes under the key `rlp.EncodeToBytes(uint64(i))`;
- `EncodeFail` and the failing branch of `Commit`: the error returns.

The Merkle-Patricia trie is abstracted to the map it stores. A proof is abstracted to the value it proves. The RLP encoding of an
unsigned integer is modelled byte for byte, because the encoding decides whether two indexes share a key. `Weight` is the table
of `256^j`, `Byte(n, j)` is byte `j`, `ByteLen(n)` the count of significant bytes, and `BigEndian` the bytes most significant
first. None of these is recursive, so the module can be proved about. `tr.Update` is `TrieUpdate`, which binds a key and
replaces any earlier value. RLP and the trie are go-ethereum code, so the map points at their call sites in `utils.go`. The pooled `memorydb` under the trie database is not modelled. Committed nodes go to the trie database built over
it, and no property here can tell where they are cached.

| Run | Config | Checks | Result |
|---|---|---|---|
| `proofbuilder_index_keys` | `MCProofBuilder.cfg` | `ProvableAtIndex`: after a successful build, every receipt is proved at its own index | pass, 300 receipts |

300 receipts cross both length changes of the key: at 128 it grows to two bytes, at 256 to three. The mutant keyed by the index's
low byte is caught at 256.

## Proofs (`RelayProofs`)

TLAPS checks these for every value of the constants satisfying `ConstAssumption`:

- `TypeCorrect`: `Spec => []TypeOK`.
- `NoLossInvariant`: `Spec => []NoLoss`.
- `InFlightApplicableInvariant`: `Spec => []InFlightApplicable`.
- `IInvApplicableInvariant`: `Spec => []IInvApplicable`, the invariant the run `relay_inductive` checks.
- `TxStartsAtNextProperty`: `Spec => TxStartsAtNext`, the action property of `relay_core`.

`NoLoss` is not inductive as it stands. The strengthening `IInv` adds:

- `DstConsistent`: `rxHeight` is the height of event `rxSeq`.
- `TxBounded`: every transaction ends within the events.
- `OkConsumed`: an executed transaction's events are consumed.
- `CurSplit`: during send and confirm, `srcMsg` is the transaction's events plus the residual, and the transaction exists at the destination.

With these:

1. `Init => IInv`.
2. `IInv /\ [Next]_vars => IInv'` (lemma `IInvStep`, one case per action).
3. `IInv => NoLoss`.

`TrimKeeps` (trimming at the destination's status keeps every unconsumed event) and `HeightAbove` are the lemmas these rest on.

`InFlightApplicable` needs two more conjuncts, and `IInvApplicable` adds them to `IInv`:

- `SrcBelow`: while a run is in its loop, every pending event is in a block the subscription has already delivered.
- `InFlightApplicable` itself.

Lemma `SegmentApplicable` is the core of the argument. Take a transaction cut from the trimmed message up to event `c`, and an
event `s` with `rxSeq < s ≤ c`. By `NoLoss`, `s` is pending or still to come. It cannot still be to come: it lies in a block no
later than `c`'s, and `c` is pending, so that block was delivered (`SrcBelow`). So `s` is pending, and the trim kept it. After that,
the link status only grows (`ApplicableMonotone`), while sends and resends only move a transaction from unsent to the pool. Run
`relay_inductive` checks `IInvApplicable` with TLC, closing source channels included. Through `ImplementsRelay`, it also holds
of the list model.

`TxStartsAtNext` follows from `IInvApplicable` (lemma `TxStartStep`). The only step that moves a transaction id from `none` to
`unsent` is `FlushSegment`. By `SegmentApplicable`, the transaction it cuts at `c` holds every event in `rxSeq+1..c`. The trim
keeps only events above `rxSeq`, so its least event is `rxSeq + 1`. `SendOk`, `SendFailBroadcast` and `Include` only write
`pool` or `ok`, and every other step leaves `txSt` alone.

## Proofs (`RequestsProofs`)

TLAPS checks these for every set of coins, every set of failing calls and every retry limit (`RequestsAssumption`):

- `TypeCorrect`: `Spec => []TypeOK`.
- `PollBoundInvariant`: `Spec => []PollBound`. The strengthening adds `WaitHash`: during a wait the result is the hash the wait
  started from. Without it, a tick that leaves `out` alone could carry an old `timeout` forward.
- `CoinMapFailsOnlyByBindingInvariant`: `Spec => []CoinMapFailsOnlyByBinding`, for every set of failing calls. Once
  `newRequestAPI` returns without error, each configured or registered non-native coin is bound to its own contract, with two
  exceptions:
  - a failed `CoinId` bound the coin to the zero address, which the wrong error test at `requests.go:122` lets through;
  - a failed `NewErc20tradable` left a `nil` entry and ended the loop with a nil error (`Wrap(nil)` at `requests.go:128`).

  These two mishandled errors are the only ways the map is unusable. In an environment where neither call fails, the
  property is `CoinMapSound`, which `requests_core` checks and `requests_binding_errors` shows violated when they do fail. The
  invariant `CInv` says:
  - no error is recorded before the binding loop;
  - in the loop, the configured coins are registered;
  - the loop visits registered non-native coins only;
  - every coin the loop has visited is bound (`Bound`: to its contract, or to zero after a failed `CoinId`);
  - a `nil` entry exists only if `NewErc20tradable` can fail.

Each request is shown to be an `Op` of `Ops` (`RequestInOps`). One lemma, `RequestEffect`, then covers every request.

Liveness (`AllDelivered`) is only model-checked: TLAPS does not handle `ENABLED` and fairness here.

## Proofs (`ExecutorProofs`)

TLAPS checks these for any finite nonempty sets of scripts and ids and any event bound (`ExecutorAssumption`):

- `TypeCorrect`: `Spec => []TypeOK`.
- `NoClosePanicInvariant`: `Spec => []NoClosePanic`.
- `IInvInvariant`: `Spec => []IInv`, which `executor_core` also checks.
- `SignalOnEmptyProperty`: `Spec => SignalOnEmpty`, the action property of `executor_core`.

The inductive invariant `IInv` strengthens `NoClosePanic` with three conjuncts:

- `HasId`: a script between `getID` and the end of its `removeChan` holds an id.
- `RegOpen`: a channel in the map is open, sits under its owner's id, and its owner has registered it.
- `ClosedStarted`: only a registered channel has ever been closed.

The argument for `removeChan` runs as follows. The channel under the script's id is open by `RegOpen`, so `close` does not panic.
That channel is closed and its entry deleted in one critical section. No other id maps to it, since it sits under its owner's id.
So `RegOpen` survives. `addChan` registers a channel that is open by `ClosedStarted`. A duplicate id only overwrites an entry, and
the overwritten channel stays open and unregistered. That is why the property holds despite the duplicate-id finding. Run
`executor_core` checks `IInv` with TLC. The lemmas are `DispatcherStep`, `RemoveChanStep` and `ScriptStepIInv`.

`SignalOnEmpty` rests on `SignalEmpty`: a script waiting to send on `stoppedChan` left the map empty. `RemoveChan` only enters
`signal` when the entry it deleted was the last one. While a script is there, the write lock is held (`Locked`). That keeps out
`getID`, `addChan` and every other `removeChan`, and only these write the map. The step into `stopped` is `SignalDone` of such a
script, and it leaves the map alone (lemma `SignalEmptyStep`).

## Proofs (`RetryProofs`)

TLAPS checks these for every width, every bound on the arguments and every count of failures (`RetryAssumption`):

- `TypeCorrect`: `Spec => []TypeOK`, whatever the wrap does to the sleeps.
- `AtMostNCallsInvariant`: `Spec => []AtMostNCalls`.
- `OutcomeInvariant`: `Spec => []OutcomeMatchesAttempts`. A finished call returns nil exactly when `k < max(n, 1)`.
- `BackoffUntilWrap`: every positive sleep is at least twice the one before it.
- `NoWrapBackoff`: `Spec => []SleepBackoff` whenever `MaxDelay * 3^MaxN < Half` (see below).

The call count is not inductive alone. `CallsInv` adds:

- while a frame is about to call `f`, `calls + attempts = n0`, at least one attempt is left after a first call, and
  `calls <= k`;
- a successful call ended at call `k + 1`, and a failed one with `n0 <= calls <= k`.

`BackoffUntilWrap` adds `SleepDoubled`: the sleep of a frame is the wrapped double of what the previous frame slept. A positive
wrap of a number in `0..2*Half-1` means no wrap happened (`WrapPositive`). So a positive sleep is the previous one doubled, and
a positive `slept` is that plus a non-negative jitter.

`SleepBackoff` itself is false once a sum wraps. From a one-second delay at 64 bits it takes 21 to 33 retries. `NoWrapBackoff` proves
`Spec => []SleepBackoff` for every instance in which the backoff cannot wrap. The hypothesis is a `Ladder(b)`: bounds
`b[0..MaxN]` below `Half`, starting at `MaxDelay`, each at least three times the one before it. Such a ladder exists exactly when
`MaxDelay * 3^MaxN < Half`. It is stated as a function because the provers know no facts about `^`.

The inductive invariant `NoWrapInv(b)` says three things:

- the sleep of frame `calls` is at most `b[calls]`;
- no duration is negative;
- each sleep is exactly twice what the previous frame slept.

A retried frame sleeps `x = sleep + jitter/2`. The next sleep is `2x <= 3 * sleep - 1 < b[calls + 1] < Half`, so neither `Wrap`
changes anything, and `x >= sleep = 2 * slept`.

The hypothesis holds for `retry_core`'s instance, with the ladder 3, 9, 27, 81. TLC confirms `NoWrapInv` on that instance.
It also holds for Go's 64-bit `Duration` with a one-second initial sleep, up to 20 attempts. `RetryAssumption` states
`Half = 2^(Width-1) > 0` because the provers know no facts about `^`; TLC evaluates it.

## Proofs (`ProofBuilderProofs`)

- `ProvableAtIndexInvariant`: `Spec => []ProvableAtIndex` for every block of at most `256^7 = 2^56` receipts. After a successful
  build, the trie proves each receipt at the key `rlp.EncodeToBytes(uint64(index))`.

The argument has two parts.

1. **The encoding is injective** (lemma `RlpInjective`).
   - A key of one byte comes from an index below 128, and two such indexes with the same key are equal.
   - A longer key starts with `128 + ByteLen(n)`, so two equal keys have the same byte count (`RlpShape`, `ByteLenSpec`).
   - Their remaining bytes are the significant bytes, and the bytes above them are zero (`HighByteZero`).
   - Equal bytes make equal numbers: divide by 256 repeatedly (`Split`, `BytesDetermine`).
2. **The trie invariant** (`TrieInv`). After `i` iterations, the domain of the trie is exactly the keys of `0 .. i - 1`, and each
   key is bound to its own receipt. An `Update` adds the key of `i`. By injectivity, that key is none of the earlier keys, so
   no earlier binding is overwritten.

Why the bound is `2^56` and not `2^64`: the provers' integer encoding breaks on terms of the size of `256^8`. Even
`256 * 2^56 > 0` fails to prove. So the proofs never mention a weight above `256^7`. A Go slice of `2^56` receipts cannot exist on
any machine. `MCProofBuilder.cfg` checks 300 receipts with TLC, across both changes of key length.

The lemma `Split` shows a known trap. TLA+ parses `x + y % 256` as `(x + y) % 256`, so each byte term is parenthesised.

## What stays with TLC

- **Liveness.** `AllDelivered` needs fairness and `ENABLED`, which the prover does not handle here.
- **The refinement `RelayList => Relay`.** Its mapping and the steps it relates go through `SelectSeq` (the trim, the cut, the
  dropping of empty receipts). The lemma each step needs (for example, that `Events` of a filtered list is the filtered set)
  is a fact about every sequence, so it needs induction over the data. It is only model-checked.
- **The list-level properties of `RelayList`.** `NoEmptyReceipt` and `StrictlyIncreasing` follow `SelectSeq` and `FlattenSeq`.
  These are recursive functions over the sequence, and every fact about them needs induction over the data.
- **`ProvableAtIndex` beyond `2^56` receipts.** `ProvableAtIndexInvariant` stops at seven-byte indexes (see `ProofBuilderProofs`).
- **`SleepBackoff` where the backoff wraps.** There `SleepBackoff` is false, and `NoWrapBackoff` does not apply.

## Findings

- `dst.Segment` errors are fatal in the code (`relay.go:151` returns them). The spec lists only cancellation and a failed start as
  fatal. Run `relay_fatal_errors` shows a run ending through `FlushSegmentFail`.

Findings of the executor and of `Retry`:

- **The dispatcher can panic** (`executor.go:199`). It can send on a channel that a returning script has just closed.
- **`Done()` can fire before every script has finished** (`executor.go:139`). `AllDoneAtStop` states the property, but no run
  checks it any more; TLC found it violated while the model was built.
- **Two scripts can draw the same id** (`executor.go:227`, between `getID` and `addChan`). One script then closes the other's channel.
- **`Retry(0, d, f)` can succeed** (`utils.go:40`). The spec says it cannot. `SucceedsIffMoreAttempts` states the spec's version, but no run
  checks it any more. `OutcomeMatchesAttempts` states what the code does instead: nil exactly when `k < max(n, 1)`.
  `retry_core` checks it and `RetryProofs` proves it.
- **`Retry(n, 0, f)` panics** (`utils.go:43`). `NoJitterPanic` states the property and fails at `d = 0`; since no code outside
  `Retry` calls it, no run keeps that check and it is listed as a hazard.

Findings of the relay's source channel and of the request API:

- **A closed source channel panics the relay** (`relay.go:114`, run `relay_source_closed`). The receive case ignores `ok`, so
  `msg` is nil and `msg.Receipts[:0]` panics. Spec section 6 says the stream ending ends the run.
- **The binding loop mixes up `err` and `errs`** (`requests.go:122` and `128`, run `requests_binding_errors`). A failing
  `btsc.CoinId` is stored in `errs`, but the code tests `err`, so the coin is bound to the zero address. A failing
  `NewErc20tradable` is wrapped from the nil `errs`, which yields nil. `newRequestAPI` then succeeds with a nil binding stored and
  the remaining coins unbound.
- **`reclaim` and `transferBatch` panic when the contract call fails** (`requests.go:408`, `351`). They read `txn.Hash()`
  without testing the error. `NoNilTxnDeref` states the property; with `Failing = {"contract"}`, TLC finds it violated in three
  steps. No run keeps that check.

A hazard without a run: `CallBTS(CheckTransferRestrictions)` returns the binding's error as the response, with a nil `err`
(`requests.go:515`). The model distinguishes the outcome, but nothing under `src/` says what callers expect.

## Not modelled yet

- **Proof Builder: trie node structure and hashing.** The Merkle-Patricia node structure and its hashing are beyond TLC's reach.
- **E2E Executor: client set-up and key loading in `New`.** These are file and network I/O.
- **BSC request API: `generateKeyPair`.** It has no caller under `src/`.
- **BSC request API: the argument formats.** Argument formats (the `btp:` address split, hex decoding) are abstracted to whether the checks pass.
- **E2E Executor: the error channels' `break` (`executor.go:209`).** It would end the dispatcher on a value that is not an
  error. The channel element types are declared outside `src/`.
- **Logging, the `From` address and the data-size computation of `Segment`.** These are left out; `Segment` is modelled by its contract.
