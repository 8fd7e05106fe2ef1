------------------------------- MODULE Relay -------------------------------
(***************************************************************************)
(* The relay orchestration loop of cmd/btpsimple/relay/relay.go, with the  *)
(* source chain's event stream, the destination chain's link status and    *)
(* the destination's transaction pool as its environment.                  *)
(*                                                                         *)
(* An event is identified by its sequence number s \in Seqs; it was        *)
(* emitted in the source block EvHeight[s].  The pending message srcMsg is *)
(* kept as the set of the sequence numbers it holds: a receipt of the code *)
(* is the subset of srcMsg at one height, so len(srcMsg.Receipts) is the   *)
(* number of distinct heights in srcMsg.                                   *)
(***************************************************************************)
EXTENDS Naturals, FiniteSets, FiniteSetsExt

CONSTANTS
    MaxSeq,        \* number of events the source emits on the link
    MaxHeight,     \* highest source block the subscription delivers
    EvHeight,      \* EvHeight[s]: the source block in which event s was emitted
    Offset,        \* cfg.Src.Offset: configured start height of the link
    TriggerCount,  \* relayTriggerReceiptsCount
    TxLimit,       \* most events Segment puts in one transaction (TxDataSizeLimit)
    MaxRuns,       \* bound on the relay runs: Start is called at most MaxRuns times
    SrcCloses      \* whether the source receiver may close srcMessageCh

Seqs == 1..MaxSeq
Heights == 1..MaxHeight

\* Sequence numbers are emitted in block order, and the link starts at
\* Offset: no event of the link is older than the configured offset.
ASSUME ConstAssumption ==
    /\ MaxSeq \in Nat \ {0}
    /\ MaxHeight \in Nat \ {0}
    /\ EvHeight \in [Seqs -> Heights]
    /\ \A a, b \in Seqs : a <= b => EvHeight[a] <= EvHeight[b]
    /\ Offset \in Heights
    /\ \A s \in Seqs : Offset <= EvHeight[s]
    /\ TriggerCount \in Nat
    /\ TxLimit \in Nat \ {0}
    /\ MaxRuns \in Nat \ {0}
    /\ SrcCloses \in BOOLEAN

VARIABLES
    pc,        \* where Start is: "init", "idle" (the select loop), "send"
               \* (sendLoop), "confirm" (waitLoop) or "stopped" (returned)
    srcMsg,    \* the pending message, as the set of its events
    sub,       \* the subscription's cursor: next block height, and fromSeq
    relayCh,   \* relayCh (capacity 1) holds a signal
    cur,       \* the transaction handle tx of the current flush
    newMsg,    \* the residual message returned by Segment with tx
    txSt,      \* destination: the state of every transaction ever built
    dst,       \* destination: the link status [rxSeq, rxHeight]
    runs,      \* number of the current relay run
    exitErr,   \* the class of the error the last run returned
    srcOpen    \* srcMessageCh of the current subscription is open

vars == <<pc, srcMsg, sub, relayCh, cur, newMsg, txSt, dst, runs, exitErr, srcOpen>>

\* A transaction is identified by the run that built it, its events and the
\* last sequence number it carries.
TxIds == (1..MaxRuns) \X (SUBSET Seqs) \X Seqs
TxStates == {"none", "unsent", "pool", "ok"}
Links == [rxSeq : 0..MaxSeq, rxHeight : 0..MaxHeight]
Running == {"idle", "send", "confirm"}

-----------------------------------------------------------------------------
(* Environment: what the source receiver and the destination provide.      *)

\* The receipt of block h that SubscribeMessage(_, fromSeq) delivers: the
\* events of the block with a sequence above fromSeq (possibly none).
BlockEvents(h, fromSeq) == {s \in Seqs : EvHeight[s] = h /\ s > fromSeq}

\* Events the current subscription has still to deliver.
Future == {s \in Seqs : s > sub.seq /\ EvHeight[s] >= sub.height}

\* The destination accepts a transaction with events T up to last when those
\* it has not consumed yet continue the link without a gap.
Applicable(T, last, link) == \A s \in Seqs : link.rxSeq < s /\ s <= last => s \in T

-----------------------------------------------------------------------------
(* Mutated forms of the definitions below, one per checked property.        *)

rxHeightNoOffset(linkRxHeight) == linkRxHeight

removeProcessedMessagesHeightOffByOne(msg, rxH, rxS) ==
    {s \in msg : EvHeight[s] > rxH /\ s > rxS}

removeProcessedMessagesSeqOffByOne(msg, rxH, rxS) ==
    {s \in msg : ~(EvHeight[s] < rxH) /\ s >= rxS}

-----------------------------------------------------------------------------
(* The relay.                                                               *)

\* relay.rxHeight: subscribe from the later of the link's height and the offset.
rxHeight(linkRxHeight) == IF Offset > linkRxHeight THEN Offset ELSE linkRxHeight

\* removeProcessedMessages: drop the receipts below rxHeight, the events up to
\* rxSeq, and the receipts left empty.
removeProcessedMessages(msg, rxH, rxS) ==
    {s \in msg : ~(EvHeight[s] < rxH) /\ s > rxS}

\* len(srcMsg.Receipts): one receipt per source height.
ReceiptCount(msg) == Cardinality({EvHeight[s] : s \in msg})

Init ==
    /\ pc = "init"
    /\ srcMsg = {}
    /\ sub = [height |-> Offset, seq |-> 0]
    /\ relayCh = FALSE
    /\ cur = <<1, {}, 1>>
    /\ newMsg = {}
    /\ txSt = [id \in TxIds |-> "none"]
    /\ dst = [rxSeq |-> 0, rxHeight |-> 0]
    /\ runs = 1
    /\ exitErr = "none"
    /\ srcOpen = TRUE

\* The run returns an error of class err (any error path of Start).
Stop(err) ==
    /\ runs < MaxRuns
    /\ pc' = "stopped"
    /\ exitErr' = err

\* Start up to the loop: dst.Status, then SubscribeMessage from
\* (rxHeight(link.RxHeight), link.RxSeq), then an empty srcMsg.
Start ==
    /\ pc = "init"
    /\ pc' = "idle"
    /\ sub' = [height |-> rxHeight(dst.rxHeight), seq |-> dst.rxSeq]
    /\ srcMsg' = {}
    /\ relayCh' = FALSE
    /\ srcOpen' = TRUE
    /\ UNCHANGED <<cur, newMsg, txSt, dst, runs, exitErr>>

\* dst.Status or SubscribeMessage fails: Start returns the error.
StartFail ==
    /\ pc = "init"
    /\ Stop("init")
    /\ UNCHANGED <<srcOpen, srcMsg, sub, relayCh, cur, newMsg, txSt, dst, runs>>

\* ctx.Done() observed at a suspension point: in the select of the loop, or
\* as a Canceled error of tx.Send or tx.Receipt.
Cancel ==
    /\ pc \in Running
    /\ Stop("cancel")
    /\ UNCHANGED <<srcOpen, srcMsg, sub, relayCh, cur, newMsg, txSt, dst, runs>>

TickNoSignal ==
    /\ pc = "idle"
    /\ UNCHANGED vars

\* relayTicker.C fires: relaySignal (a full relayCh drops the signal).
Tick ==
    /\ pc = "idle"
    /\ relayCh' = TRUE
    /\ UNCHANGED <<srcOpen, pc, srcMsg, sub, cur, newMsg, txSt, dst, runs, exitErr>>

\* A message arrives on srcMessageCh: the receipt of the next block.  Empty
\* receipts are dropped; a non-empty one is appended to srcMsg, and more than
\* TriggerCount receipts pending raise relaySignal.
Receive ==
    /\ pc = "idle"
    /\ srcOpen
    /\ sub.height <= MaxHeight
    /\ LET msg == BlockEvents(sub.height, sub.seq) IN
       /\ srcMsg' = srcMsg \cup msg
       /\ relayCh' = IF msg # {} /\ ReceiptCount(srcMsg \cup msg) > TriggerCount
                     THEN TRUE ELSE relayCh
    /\ sub' = [sub EXCEPT !.height = @ + 1]
    /\ UNCHANGED <<srcOpen, pc, cur, newMsg, txSt, dst, runs, exitErr>>

\* srcMessageCh is closed: the receive yields a nil *chain.Message and
\* msg.Receipts[:0] dereferences it; the panic ends the process.
ReceiveClosed ==
    /\ pc = "idle"
    /\ ~srcOpen
    /\ pc' = "crashed"
    /\ UNCHANGED <<srcOpen, srcMsg, sub, relayCh, cur, newMsg, txSt, dst, runs, exitErr>>

\* A signal is taken from relayCh and dst.Status fails with a non-Canceled
\* error: the signal is dropped (continue).
FlushStatusFail ==
    /\ pc = "idle"
    /\ relayCh
    /\ relayCh' = FALSE
    /\ UNCHANGED <<srcOpen, pc, srcMsg, sub, cur, newMsg, txSt, dst, runs, exitErr>>

\* dst.Status fails with context.Canceled: Start returns it.
FlushStatusCancel ==
    /\ pc = "idle"
    /\ relayCh
    /\ relayCh' = FALSE
    /\ Stop("cancel")
    /\ UNCHANGED <<srcOpen, srcMsg, sub, cur, newMsg, txSt, dst, runs>>

\* srcMsg trimmed against the status just read.
Trimmed == removeProcessedMessages(srcMsg, dst.rxHeight, dst.rxSeq)

\* The status is read and srcMsg trimmed; dst.Segment then fails: Start
\* returns the error.
FlushSegmentFail ==
    /\ pc = "idle"
    /\ relayCh
    /\ relayCh' = FALSE
    /\ srcMsg' = Trimmed
    /\ Stop("segment")
    /\ UNCHANGED <<srcOpen, sub, cur, newMsg, txSt, dst, runs>>

\* Segment returns a nil tx: nothing is ready, back to the loop.
FlushNil ==
    /\ pc = "idle"
    /\ relayCh
    /\ Trimmed = {}
    /\ relayCh' = FALSE
    /\ srcMsg' = Trimmed
    /\ UNCHANGED <<srcOpen, pc, sub, cur, newMsg, txSt, dst, runs, exitErr>>

\* Segment returns a transaction holding the first events of the trimmed
\* message, at most TxLimit of them and cut anywhere, even inside a
\* receipt, and the rest as newMsg: the send loop starts.
FlushSegment ==
    /\ pc = "idle"
    /\ relayCh
    /\ \E c \in Trimmed :
         LET tx == {s \in Trimmed : s <= c} IN
         /\ Cardinality(tx) <= TxLimit
         /\ cur' = <<runs, tx, c>>
         /\ newMsg' = Trimmed \ tx
         /\ txSt' = [txSt EXCEPT ![<<runs, tx, c>>] = "unsent"]
    /\ relayCh' = FALSE
    /\ srcMsg' = Trimmed
    /\ pc' = "send"
    /\ UNCHANGED <<srcOpen, sub, dst, runs, exitErr>>

FlushOk == FlushNil \/ FlushSegment

\* tx.Send succeeds: the transaction is in the destination's pool (sending
\* one already there is harmless); on to waitLoop.
SendOk ==
    /\ pc = "send"
    /\ txSt' = [txSt EXCEPT ![cur] = IF @ = "unsent" THEN "pool" ELSE @]
    /\ pc' = "confirm"
    /\ UNCHANGED <<srcOpen, srcMsg, sub, relayCh, cur, newMsg, dst, runs, exitErr>>

\* tx.Send returns an error other than Canceled after the transaction reached
\* the pool (a timeout): the loop sleeps and sends again.  The errors that
\* leave nothing behind (insufficient balance, a refused call) only sleep
\* and are stuttering steps.
SendFailBroadcast ==
    /\ pc = "send"
    /\ txSt[cur] = "unsent"
    /\ txSt' = [txSt EXCEPT ![cur] = "pool"]
    /\ UNCHANGED <<srcOpen, pc, srcMsg, sub, relayCh, cur, newMsg, dst, runs, exitErr>>

ReceiptOkDropResidual ==
    /\ pc = "confirm"
    /\ txSt[cur] = "ok"
    /\ srcMsg' = {}
    /\ pc' = "idle"
    /\ UNCHANGED <<srcOpen, sub, relayCh, cur, newMsg, txSt, dst, runs, exitErr>>

\* tx.Receipt succeeds once the destination has executed the transaction:
\* the residual message becomes srcMsg.  A Receipt error other than
\* Canceled only sleeps and is a stuttering step.
ReceiptOk ==
    /\ pc = "confirm"
    /\ txSt[cur] = "ok"
    /\ srcMsg' = newMsg
    /\ pc' = "idle"
    /\ UNCHANGED <<srcOpen, sub, relayCh, cur, newMsg, txSt, dst, runs, exitErr>>

\* The process is started again after Start returned.
Restart ==
    /\ pc = "stopped"
    /\ runs < MaxRuns
    /\ pc' = "init"
    /\ runs' = runs + 1
    /\ UNCHANGED <<srcOpen, srcMsg, sub, relayCh, cur, newMsg, txSt, dst, exitErr>>

\* The source receiver closes the subscription's channel (the stream ends
\* or fails); messages sent before the close have been received.
SrcClose ==
    /\ SrcCloses
    /\ pc \in Running
    /\ srcOpen
    /\ srcOpen' = FALSE
    /\ UNCHANGED <<pc, srcMsg, sub, relayCh, cur, newMsg, txSt, dst, runs, exitErr>>

\* The process has died of a panic: nothing happens any more.
Crashed ==
    /\ pc = "crashed"
    /\ UNCHANGED vars

\* The destination executes a pooled transaction of any run: events it has
\* consumed are skipped, the others advance the link status.
Include ==
    \E id \in TxIds :
       /\ txSt[id] = "pool"
       /\ Applicable(id[2], id[3], dst)
       /\ txSt' = [txSt EXCEPT ![id] = "ok"]
       /\ dst' = IF id[3] > dst.rxSeq
                 THEN [rxSeq |-> id[3], rxHeight |-> EvHeight[id[3]]]
                 ELSE dst
       /\ UNCHANGED <<srcOpen, pc, srcMsg, sub, relayCh, cur, newMsg, runs, exitErr>>

Next ==
    \/ Start \/ StartFail \/ Cancel \/ Tick \/ Receive
    \/ FlushStatusFail \/ FlushStatusCancel \/ FlushSegmentFail \/ FlushOk
    \/ SendOk \/ SendFailBroadcast \/ ReceiptOk \/ Restart \/ Include
    \/ ReceiveClosed \/ SrcClose \/ Crashed

Spec == Init /\ [][Next]_vars

\* The select of the loop picks uniformly among ready cases, and the calls to
\* the destination fail only transiently: every step the relay keeps coming
\* back to is eventually taken.  No fairness for cancellation and fatal errors.
Fairness ==
    /\ WF_vars(Start) /\ WF_vars(Restart)
    /\ SF_vars(Tick) /\ SF_vars(Receive) /\ SF_vars(FlushOk)
    /\ WF_vars(SendOk) /\ WF_vars(ReceiptOk) /\ WF_vars(Include)

FairSpec == Spec /\ Fairness

-----------------------------------------------------------------------------
(* Properties.                                                              *)

TypeOK ==
    /\ pc \in {"init", "idle", "send", "confirm", "stopped", "crashed"}
    /\ srcMsg \subseteq Seqs
    /\ sub \in [height : Offset..(MaxHeight + 1), seq : 0..MaxSeq]
    /\ relayCh \in BOOLEAN
    /\ cur \in TxIds
    /\ newMsg \subseteq Seqs
    /\ txSt \in [TxIds -> TxStates]
    /\ dst \in Links
    /\ runs \in 1..MaxRuns
    /\ exitErr \in {"none", "init", "cancel", "segment"}
    /\ srcOpen \in BOOLEAN

\* No event is lost: while a run is in its loop, every event the destination
\* has not consumed is pending in srcMsg or still to come from the
\* subscription.  It rests on the subscription start (rxHeight, rxSeq), on
\* the height test of removeProcessedMessages when Segment has split a
\* receipt, and on adopting newMsg after the receipt.
NoLoss ==
    pc \in Running =>
        \A s \in Seqs : s > dst.rxSeq => s \in srcMsg \cup Future

\* The destination never has to reject a transaction: every transaction built
\* by any run and not yet executed, stale ones of earlier runs included,
\* continues the link without a gap whenever it is executed.
InFlightApplicable ==
    \A id \in TxIds :
        txSt[id] \in {"unsent", "pool"} => Applicable(id[2], id[3], dst)

\* Every transaction Segment builds starts exactly at the destination's next
\* expected sequence number: trimming after a fresh dst.Status leaves no
\* consumed event in front, and nothing is missing.
TxStartsAtNext ==
    [][\A id \in TxIds :
          txSt[id] = "none" /\ txSt'[id] = "unsent" => Min(id[2]) = dst.rxSeq + 1]_vars

\* Every event of the link is eventually consumed by the destination.
AllDelivered == <>(dst.rxSeq = MaxSeq)

\* The spec (section 7): only a Canceled context and a failed start surface
\* as the error of Start; every other error is handled inside the loop.
StopsOnlyOnFatal ==
    [][pc # "stopped" /\ pc' = "stopped" => exitErr' \in {"init", "cancel"}]_vars

\* The spec (section 6): the source stream closing ends the relay run.  The
\* receive case of the loop (relay.go:111) must then not take the nil message
\* of the closed srcMessageCh for a message.
NoPanicOnClosedSource == pc # "crashed"

-----------------------------------------------------------------------------
(* The inductive strengthenings that RelayProofs proves.                    *)

\* The destination's rxHeight is the block of the last event it consumed.
DstConsistent ==
    dst.rxHeight = IF dst.rxSeq = 0 THEN 0 ELSE EvHeight[dst.rxSeq]

\* No transaction carries an event after its last sequence number.
TxBounded == \A id \in TxIds : txSt[id] # "none" => \A s \in id[2] : s <= id[3]

\* An executed transaction has been consumed up to its last event.
OkConsumed == \A id \in TxIds : txSt[id] = "ok" => id[3] <= dst.rxSeq

\* During the send and wait loops srcMsg is split into tx and newMsg.
CurSplit ==
    pc \in {"send", "confirm"} =>
        /\ srcMsg = cur[2] \cup newMsg
        /\ txSt[cur] # "none"

\* The invariant of the relay that implies NoLoss: no event is lost because
\* the destination's status is consistent, an executed transaction's events
\* are consumed, and the residual adopted after the receipt is the rest of
\* srcMsg.
IInv == TypeOK /\ DstConsistent /\ TxBounded /\ OkConsumed /\ CurSplit /\ NoLoss

\* While a run is in its loop, every pending event lies in a block the
\* subscription has already delivered.
SrcBelow == pc \in Running => \A s \in srcMsg : EvHeight[s] < sub.height

\* The strengthening of IInv that implies InFlightApplicable: a transaction
\* cut by Segment from the trimmed srcMsg has no gap, since every event up to
\* its last one is already pending, and the destination's status only grows.
IInvApplicable == IInv /\ SrcBelow /\ InFlightApplicable

=============================================================================
