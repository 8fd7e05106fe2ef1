----------------------------- MODULE RelayList -----------------------------
(***************************************************************************)
(* The message aggregation of relay.go at the level of its lists: srcMsg   *)
(* is the list of its receipts, each a source height with the list of its  *)
(* events' sequence numbers, as chain.Message holds them.  The inbound     *)
(* case appends the non-empty receipts of a message, removeProcessedMessages *)
(* filters the list in place, Segment cuts it, and the receipt of the      *)
(* transaction adopts the residual list.                                   *)
(*                                                                         *)
(* Relay keeps srcMsg as the set of its events.  RelayList implements it:  *)
(* under the mapping that forgets the order and the grouping into         *)
(* receipts, every step of RelayList is a step of Relay (ImplementsRelay). *)
(* The steps that do not touch the message are Relay's own.                *)
(***************************************************************************)
EXTENDS Naturals, Sequences, SequencesExt

CONSTANTS MaxSeq, MaxHeight, EvHeight, Offset, TriggerCount, TxLimit, MaxRuns,
          SrcCloses

VARIABLES pc, srcList, sub, relayCh, cur, newList, txSt, dst, runs, exitErr,
          srcOpen

lvars == <<pc, srcList, sub, relayCh, cur, newList, txSt, dst, runs, exitErr,
           srcOpen>>

\* The events of a list of receipts.
Events(l) == UNION {Range(l[i].events) : i \in DOMAIN l}

R == INSTANCE Relay WITH srcMsg <- Events(srcList), newMsg <- Events(newList)

\* The sequence numbers of a list, in list order.
SeqsOf(l) == FlattenSeq([i \in DOMAIN l |-> l[i].events])

\* The receipt of block h from SubscribeMessage(_, fromSeq), events in order.
ReceiptAt(h, fromSeq) ==
    [height |-> h, events |-> SetToSortSeq(R!BlockEvents(h, fromSeq), <)]

\* removeProcessedMessages skipping the receipt at rxHeight too.
TrimListHeightOffByOne(l, rxH, rxS) ==
    LET kept == SelectSeq(l, LAMBDA r : ~(r.height <= rxH))
        cut == [i \in DOMAIN kept |->
                  [kept[i] EXCEPT !.events = SelectSeq(@, LAMBDA e : e > rxS)]]
    IN  SelectSeq(cut, LAMBDA r : r.events # <<>>)

\* removeProcessedMessages keeping a receipt whose events were all removed.
TrimListKeepEmpty(l, rxH, rxS) ==
    LET kept == SelectSeq(l, LAMBDA r : ~(r.height < rxH))
    IN  [i \in DOMAIN kept |->
           [kept[i] EXCEPT !.events = SelectSeq(@, LAMBDA e : e > rxS)]]

\* removeProcessedMessages: skip the receipts below rxHeight, keep the
\* events above rxSeq, and keep a receipt only if it has events left.
TrimList(l, rxH, rxS) ==
    LET kept == SelectSeq(l, LAMBDA r : ~(r.height < rxH))
        cut == [i \in DOMAIN kept |->
                  [kept[i] EXCEPT !.events = SelectSeq(@, LAMBDA e : e > rxS)]]
    IN  SelectSeq(cut, LAMBDA r : r.events # <<>>)

\* The inbound case appending the new receipts in front of srcMsg.
ReceivePrepend ==
    /\ pc = "idle" /\ srcOpen /\ sub.height <= MaxHeight
    /\ LET msg == SelectSeq(<<ReceiptAt(sub.height, sub.seq)>>,
                            LAMBDA r : r.events # <<>>)
       IN  /\ srcList' = msg \o srcList
           /\ relayCh' = IF msg # <<>> /\ Len(msg \o srcList) > TriggerCount
                         THEN TRUE ELSE relayCh
    /\ sub' = [sub EXCEPT !.height = @ + 1]
    /\ UNCHANGED <<pc, cur, newList, txSt, dst, runs, exitErr, srcOpen>>

\* case msg := <-srcMessageCh: drop the empty receipts of msg; if some are
\* left, append them to srcMsg.Receipts and signal when more than
\* relayTriggerReceiptsCount receipts are pending.
Receive ==
    /\ pc = "idle" /\ srcOpen /\ sub.height <= MaxHeight
    /\ LET msg == SelectSeq(<<ReceiptAt(sub.height, sub.seq)>>,
                            LAMBDA r : r.events # <<>>)
       IN  /\ srcList' = srcList \o msg
           /\ relayCh' = IF msg # <<>> /\ Len(srcList \o msg) > TriggerCount
                         THEN TRUE ELSE relayCh
    /\ sub' = [sub EXCEPT !.height = @ + 1]
    /\ UNCHANGED <<pc, cur, newList, txSt, dst, runs, exitErr, srcOpen>>

\* srcMsg trimmed against the status read for this flush.
Trimmed == TrimList(srcList, dst.rxHeight, dst.rxSeq)

\* Segment fails after the trim: Start returns the error.
FlushSegmentFail ==
    /\ pc = "idle" /\ relayCh
    /\ R!Stop("segment")
    /\ relayCh' = FALSE
    /\ srcList' = Trimmed
    /\ UNCHANGED <<sub, cur, newList, txSt, dst, runs, srcOpen>>

\* Segment returns a nil transaction: the trimmed list is empty.
FlushNil ==
    /\ pc = "idle" /\ relayCh
    /\ Trimmed = <<>>
    /\ relayCh' = FALSE
    /\ srcList' = Trimmed
    /\ UNCHANGED <<pc, sub, cur, newList, txSt, dst, runs, exitErr, srcOpen>>

\* Segment takes the events of the trimmed list up to some event c, at most
\* TxLimit of them, and returns the rest, a receipt cut at c keeping its
\* height, as the residual message.
FlushSegment ==
    /\ pc = "idle" /\ relayCh
    /\ \E c \in Range(SeqsOf(Trimmed)) :
         LET tx == {s \in Range(SeqsOf(Trimmed)) : s <= c}
             rest == [i \in DOMAIN Trimmed |->
                        [Trimmed[i] EXCEPT !.events = SelectSeq(@, LAMBDA e : e > c)]]
         IN  /\ Cardinality(tx) <= TxLimit
             /\ cur' = <<runs, tx, c>>
             /\ newList' = SelectSeq(rest, LAMBDA r : r.events # <<>>)
             /\ txSt' = [txSt EXCEPT ![<<runs, tx, c>>] = "unsent"]
    /\ relayCh' = FALSE
    /\ srcList' = Trimmed
    /\ pc' = "send"
    /\ UNCHANGED <<sub, dst, runs, exitErr, srcOpen>>

\* The receipt confirmed and srcMsg left as it was.
ReceiptOkKeepSrc ==
    /\ pc = "confirm" /\ txSt[cur] = "ok"
    /\ pc' = "idle"
    /\ UNCHANGED <<srcList, sub, relayCh, cur, newList, txSt, dst, runs, exitErr, srcOpen>>

\* tx.Receipt succeeds: srcMsg = newMsg.
ReceiptOk ==
    /\ pc = "confirm" /\ txSt[cur] = "ok"
    /\ srcList' = newList
    /\ pc' = "idle"
    /\ UNCHANGED <<sub, relayCh, cur, newList, txSt, dst, runs, exitErr, srcOpen>>

\* Start ends with srcMsg := r.createMessage(), an empty message.
Start ==
    /\ srcList' = <<>>
    /\ UNCHANGED newList
    /\ R!Start

\* The steps of Relay that leave the message alone.
Other ==
    /\ UNCHANGED <<srcList, newList>>
    /\ \/ R!StartFail \/ R!Cancel \/ R!Tick \/ R!FlushStatusFail
       \/ R!FlushStatusCancel \/ R!SendOk \/ R!SendFailBroadcast \/ R!Restart
       \/ R!Include \/ R!ReceiveClosed \/ R!SrcClose \/ R!Crashed

Init ==
    /\ srcList = <<>>
    /\ newList = <<>>
    /\ R!Init

Next ==
    \/ Start \/ Receive \/ FlushSegmentFail \/ FlushNil \/ FlushSegment
    \/ ReceiptOk \/ Other

Spec == Init /\ [][Next]_lvars

-----------------------------------------------------------------------------
(* Properties                                                               *)

\* Spec section 8: the pending message never holds a receipt without events,
\* neither after absorbing a message nor after a trim, a cut by Segment or
\* the adoption of the residual.
NoEmptyReceipt ==
    \A i \in DOMAIN srcList : srcList[i].events # <<>>

\* Spec section 8: flattening the pending message yields a strictly
\* increasing sequence of sequence numbers, however messages, trims,
\* segments and restarts interleave; in particular no event is duplicated.
StrictlyIncreasing == IsSorted(SeqsOf(srcList), <)

\* The list-level aggregation implements Relay: counting receipts by the
\* length of the list agrees with counting the heights of the set, and the
\* in-place trim, the cut and the adopted residual are the set operations.
ImplementsRelay == R!Spec

=============================================================================
