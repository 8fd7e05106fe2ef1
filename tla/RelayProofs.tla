---------------------------- MODULE RelayProofs ----------------------------
(***************************************************************************)
(* Proofs about the relay loop of Relay: type correctness, and that no     *)
(* event of the link is ever lost (NoLoss), for every value of the         *)
(* constants allowed by ConstAssumption.                                   *)
(***************************************************************************)
EXTENDS Relay, TLAPS

USE ConstAssumption

\* Every action of the relay and of its environment keeps the variables in
\* their types.
LEMMA TypeStep == TypeOK /\ [Next]_vars => TypeOK'
<1> SUFFICES ASSUME TypeOK, [Next]_vars PROVE TypeOK'
    OBVIOUS
<1> USE DEF TypeOK, Links, Running
<1>1. CASE Start
      <2>1. sub' \in [height : Offset..(MaxHeight + 1), seq : 0..MaxSeq]
            BY <1>1 DEF Start, rxHeight, Heights
      <2>2. QED BY <1>1, <2>1, Zenon DEF Start
<1>2. CASE StartFail
      BY <1>2 DEF StartFail, Stop
<1>3. CASE Cancel
      BY <1>3 DEF Cancel, Stop
<1>4. CASE Tick
      BY <1>4 DEF Tick
<1>5. CASE Receive
      <2>1. srcMsg' \subseteq Seqs
            BY <1>5 DEF Receive, BlockEvents, Seqs
      <2>2. sub' \in [height : Offset..(MaxHeight + 1), seq : 0..MaxSeq]
            <3>1. sub.height <= MaxHeight /\ sub' = [sub EXCEPT !.height = @ + 1]
                  BY <1>5, Zenon DEF Receive
            <3>2. QED BY <3>1 DEF Heights
      <2>3. relayCh' \in BOOLEAN
            BY <1>5 DEF Receive
      <2>4. QED BY <1>5, <2>1, <2>2, <2>3, Zenon DEF Receive
<1>6. CASE FlushStatusFail
      BY <1>6 DEF FlushStatusFail
<1>7. CASE FlushStatusCancel
      BY <1>7 DEF FlushStatusCancel, Stop
<1>8. CASE FlushSegmentFail
      BY <1>8 DEF FlushSegmentFail, Stop, Trimmed, removeProcessedMessages
<1>9. CASE FlushOk
      <2>1. CASE FlushNil
            BY <2>1 DEF FlushNil, Trimmed, removeProcessedMessages
      <2>2. CASE FlushSegment
            <3>1. PICK c \in Trimmed :
                    LET tx == {s \in Trimmed : s <= c} IN
                    /\ cur' = <<runs, tx, c>>
                    /\ newMsg' = Trimmed \ tx
                    /\ txSt' = [txSt EXCEPT ![<<runs, tx, c>>] = "unsent"]
                  BY <2>2, Zenon DEF FlushSegment
            <3>2. Trimmed \subseteq Seqs
                  BY DEF Trimmed, removeProcessedMessages
            <3>3. cur' \in TxIds
                  BY <3>1, <3>2 DEF TxIds
            <3>4. txSt' \in [TxIds -> TxStates]
                  BY <3>1, <3>2 DEF TxIds, TxStates
            <3>5. newMsg' \subseteq Seqs
                  BY <3>1, <3>2
            <3>6. QED BY <2>2, <3>2, <3>3, <3>4, <3>5, Zenon DEF FlushSegment
      <2>3. QED BY <1>9, <2>1, <2>2 DEF FlushOk
<1>10. CASE SendOk
       BY <1>10 DEF SendOk, TxStates
<1>11. CASE SendFailBroadcast
       BY <1>11 DEF SendFailBroadcast, TxStates
<1>12. CASE ReceiptOk
       BY <1>12 DEF ReceiptOk
<1>13. CASE Restart
       BY <1>13 DEF Restart
<1>14. CASE Include
       <2>1. PICK id \in TxIds :
               /\ txSt' = [txSt EXCEPT ![id] = "ok"]
               /\ dst' = IF id[3] > dst.rxSeq
                         THEN [rxSeq |-> id[3], rxHeight |-> EvHeight[id[3]]]
                         ELSE dst
               /\ UNCHANGED <<srcOpen, pc, srcMsg, sub, relayCh, cur, newMsg, runs, exitErr>>
             BY <1>14, Zenon DEF Include
       <2>2. txSt' \in [TxIds -> TxStates]
             BY <2>1 DEF TxStates
       <2>3. dst' \in Links
             <3>1. id[3] \in 1..MaxSeq
                   BY DEF TxIds, Seqs
             <3>2. EvHeight[id[3]] \in 0..MaxHeight
                   BY <3>1 DEF Seqs, Heights
             <3>3. [rxSeq |-> id[3], rxHeight |-> EvHeight[id[3]]] \in Links
                   BY <3>1, <3>2 DEF Links
             <3>4. dst \in Links
                   BY DEF TypeOK
             <3>5. QED BY <2>1, <3>3, <3>4
       <2>4. QED BY <2>1, <2>2, <2>3, Zenon
<1>15. CASE UNCHANGED vars
       BY <1>15, Zenon DEF vars
<1>16. CASE ReceiveClosed \/ SrcClose \/ Crashed
       BY <1>16 DEF ReceiveClosed, SrcClose, Crashed, vars
<1>17. QED
       BY <1>1, <1>2, <1>3, <1>4, <1>5, <1>6, <1>7, <1>8, <1>9, <1>10,
          <1>11, <1>12, <1>13, <1>14, <1>15, <1>16 DEF Next

\* The initial state is well typed.
LEMMA TypeCorrect_Init == Init => TypeOK
<1> SUFFICES ASSUME Init PROVE TypeOK
    OBVIOUS
<1>1. cur \in TxIds
      BY DEF Init, TxIds, Seqs
<1>2. txSt \in [TxIds -> TxStates]
      BY DEF Init, TxStates
<1>3. sub \in [height : Offset..(MaxHeight + 1), seq : 0..MaxSeq]
      BY DEF Init, Heights
<1>4. dst \in Links
      BY DEF Init, Links
<1>5. /\ pc \in {"init", "idle", "send", "confirm", "stopped"}
      /\ srcMsg \subseteq Seqs /\ newMsg \subseteq Seqs
      /\ relayCh \in BOOLEAN
      /\ exitErr \in {"none", "init", "cancel", "segment"}
      /\ srcOpen \in BOOLEAN
      BY Zenon DEF Init
<1>6. runs \in 1..MaxRuns
      BY DEF Init
<1>7. QED BY <1>1, <1>2, <1>3, <1>4, <1>5, <1>6, Zenon DEF TypeOK

\* Type correctness of the relay: every reachable state satisfies TypeOK.
THEOREM TypeCorrect == Spec => []TypeOK
BY TypeCorrect_Init, TypeStep, PTL DEF Spec

-----------------------------------------------------------------------------
(* No event is lost.                                                        *)

\* An event the destination has not consumed lies in a block at or above the
\* destination's rxHeight: the fact removeProcessedMessages and the start of
\* the subscription rely on.
LEMMA HeightAbove ==
    ASSUME DstConsistent, dst \in Links, NEW s \in Seqs, s > dst.rxSeq
    PROVE  EvHeight[s] >= dst.rxHeight
<1>1. CASE dst.rxSeq = 0
      BY <1>1 DEF DstConsistent, Seqs, Heights
<1>2. CASE dst.rxSeq # 0
      <2>1. dst.rxSeq \in Seqs /\ dst.rxSeq <= s
            BY <1>2 DEF Links, Seqs
      <2>2. QED BY <1>2, <2>1 DEF DstConsistent, Seqs, Heights
<1>3. QED BY <1>1, <1>2

\* Trimming srcMsg against the current status keeps every event the
\* destination has not consumed.
LEMMA TrimKeeps ==
    ASSUME DstConsistent, dst \in Links, srcMsg \subseteq Seqs,
           \A s \in Seqs : s > dst.rxSeq => s \in srcMsg \cup Future
    PROVE  \A s \in Seqs : s > dst.rxSeq => s \in Trimmed \cup Future
<1> SUFFICES ASSUME NEW s \in Seqs, s > dst.rxSeq, s \in srcMsg
             PROVE  s \in Trimmed
    OBVIOUS
<1>1. EvHeight[s] >= dst.rxHeight
      BY HeightAbove
<1>2. QED BY <1>1 DEF Trimmed, removeProcessedMessages, Seqs, Heights, Links

\* Every step keeps the inductive invariant.
LEMMA IInvStep == IInv /\ [Next]_vars => IInv'
<1> SUFFICES ASSUME IInv, [Next]_vars PROVE IInv'
    OBVIOUS
<1>0. TypeOK'
      BY TypeStep DEF IInv
<1> USE <1>0 DEF IInv
<1>1. CASE Start
      <2>1. \A s \in Seqs : s > dst.rxSeq => EvHeight[s] >= rxHeight(dst.rxHeight)
            <3> SUFFICES ASSUME NEW s \in Seqs, s > dst.rxSeq
                         PROVE  EvHeight[s] >= rxHeight(dst.rxHeight)
                OBVIOUS
            <3>1. EvHeight[s] >= dst.rxHeight
                  BY HeightAbove DEF TypeOK
            <3>2. EvHeight[s] >= Offset
                  OBVIOUS
            <3>3. QED BY <3>1, <3>2 DEF rxHeight, Seqs, Heights
      <2>2. NoLoss'
            BY <1>1, <2>1 DEF Start, NoLoss, Future
      <2>3. QED BY <1>1, <2>2, Zenon
            DEF Start, DstConsistent, TxBounded, OkConsumed, CurSplit
<1>2. CASE StartFail \/ Cancel \/ FlushStatusCancel \/ FlushSegmentFail \/ Restart
      <2>1. pc' \in {"stopped", "init"} /\ UNCHANGED <<txSt, dst>>
            BY <1>2, Zenon DEF StartFail, Cancel, FlushStatusCancel,
               FlushSegmentFail, Restart, Stop
      <2>2. QED BY <2>1, Zenon
            DEF DstConsistent, TxBounded, OkConsumed, CurSplit, NoLoss, Running
<1>3. CASE Tick \/ FlushStatusFail
      <2>1. UNCHANGED <<pc, srcMsg, sub, cur, newMsg, txSt, dst>>
            BY <1>3, Zenon DEF Tick, FlushStatusFail
      <2>2. QED BY <2>1, Zenon
            DEF DstConsistent, TxBounded, OkConsumed, CurSplit, NoLoss, Future
<1>4. CASE Receive
      <2>1. NoLoss'
            <3> SUFFICES ASSUME NEW s \in Seqs, s > dst.rxSeq, s \in Future
                         PROVE  s \in srcMsg' \cup Future'
                BY <1>4 DEF Receive, NoLoss
            <3>1. sub.height \in Nat /\ sub.seq \in Nat /\ EvHeight[s] \in Nat
                  BY DEF TypeOK, Seqs, Heights
            <3>2. QED BY <1>4, <3>1 DEF Receive, Future, BlockEvents
      <2>2. QED BY <1>4, <2>1, Zenon
            DEF Receive, DstConsistent, TxBounded, OkConsumed, CurSplit
<1>5. CASE FlushOk
      <2>1. \A s \in Seqs : s > dst.rxSeq => s \in Trimmed \cup Future
            <3>1. pc = "idle"
                  BY <1>5 DEF FlushOk, FlushNil, FlushSegment
            <3>2. \A s \in Seqs : s > dst.rxSeq => s \in srcMsg \cup Future
                  BY <3>1 DEF NoLoss, Running
            <3>3. QED BY <3>2, TrimKeeps DEF TypeOK
      <2>2. CASE FlushNil
            <3>1. NoLoss'
                  BY <2>1, <2>2 DEF FlushNil, NoLoss, Future
            <3>2. QED BY <2>2, <3>1, Zenon
                  DEF FlushNil, DstConsistent, TxBounded, OkConsumed, CurSplit
      <2>3. CASE FlushSegment
            <3>1. PICK c \in Trimmed :
                    LET tx == {s \in Trimmed : s <= c} IN
                    /\ cur' = <<runs, tx, c>>
                    /\ newMsg' = Trimmed \ tx
                    /\ txSt' = [txSt EXCEPT ![<<runs, tx, c>>] = "unsent"]
                  BY <2>3, Zenon DEF FlushSegment
            <3>2. /\ srcMsg' = Trimmed /\ pc' = "send"
                  /\ UNCHANGED <<sub, dst, runs>>
                  BY <2>3, Zenon DEF FlushSegment
            <3>3. Trimmed \subseteq Seqs /\ c \in Seqs
                  BY DEF Trimmed, removeProcessedMessages, TypeOK
            <3>4. <<runs, {s \in Trimmed : s <= c}, c>> \in TxIds
                  BY <3>3 DEF TypeOK, TxIds
            <3>5. NoLoss'
                  BY <2>1, <3>2 DEF NoLoss, Future, Running
            <3>6. DstConsistent'
                  BY <3>2 DEF DstConsistent
            <3>7. TxBounded'
                  BY <3>1, <3>3, <3>4 DEF TxBounded, TypeOK, Seqs
            <3>8. OkConsumed'
                  BY <3>1, <3>2, <3>4 DEF OkConsumed, TypeOK
            <3>9. CurSplit'
                  BY <3>1, <3>2, <3>4 DEF CurSplit, TypeOK
            <3>10. QED BY <3>5, <3>6, <3>7, <3>8, <3>9
      <2>4. QED BY <1>5, <2>2, <2>3 DEF FlushOk
<1>6. CASE SendOk \/ SendFailBroadcast
      <2>1. /\ pc = "send" /\ pc' \in {"send", "confirm"}
            /\ UNCHANGED <<srcMsg, sub, cur, newMsg, dst>>
            /\ txSt' = [txSt EXCEPT ![cur] = IF @ = "unsent" THEN "pool" ELSE @]
            BY <1>6, Zenon DEF SendOk, SendFailBroadcast
      <2>2. TxBounded' /\ OkConsumed' /\ CurSplit'
            BY <2>1 DEF TxBounded, OkConsumed, CurSplit, TypeOK
      <2>3. DstConsistent' /\ NoLoss'
            BY <2>1 DEF DstConsistent, NoLoss, Future, Running
      <2>4. QED BY <2>2, <2>3
<1>7. CASE ReceiptOk
      <2>1. /\ pc = "confirm" /\ txSt[cur] = "ok"
            /\ srcMsg' = newMsg /\ pc' = "idle"
            /\ UNCHANGED <<sub, cur, newMsg, txSt, dst>>
            BY <1>7, Zenon DEF ReceiptOk
      <2>2. cur[3] <= dst.rxSeq
            BY <2>1 DEF OkConsumed, TypeOK
      <2>3. \A s \in cur[2] : s <= cur[3]
            BY <2>1 DEF TxBounded, TypeOK
      <2>4. NoLoss'
            <3> SUFFICES ASSUME NEW s \in Seqs, s > dst.rxSeq
                         PROVE  s \in newMsg \cup Future
                BY <2>1 DEF NoLoss, Future
            <3>1. s \in cur[2] \cup newMsg \cup Future
                  BY <2>1 DEF NoLoss, CurSplit, Running
            <3>2. s \notin cur[2]
                  <4> SUFFICES ASSUME s \in cur[2] PROVE FALSE
                      OBVIOUS
                  <4>1. s <= cur[3]
                        BY <2>3
                  <4>2. cur[3] \in Nat /\ dst.rxSeq \in Nat
                        <5>1. cur \in TxIds /\ dst \in Links
                              BY DEF TypeOK
                        <5>2. QED BY <5>1 DEF TxIds, Seqs, Links
                  <4>3. QED BY <2>2, <4>1, <4>2 DEF Seqs
            <3>3. QED BY <3>1, <3>2
      <2>5. QED BY <2>1, <2>4, Zenon
            DEF DstConsistent, TxBounded, OkConsumed, CurSplit
<1>8. CASE Include
      <2>1. PICK id \in TxIds :
              /\ txSt[id] = "pool"
              /\ txSt' = [txSt EXCEPT ![id] = "ok"]
              /\ dst' = IF id[3] > dst.rxSeq
                        THEN [rxSeq |-> id[3], rxHeight |-> EvHeight[id[3]]]
                        ELSE dst
              /\ UNCHANGED <<pc, srcMsg, sub, cur, newMsg>>
            BY <1>8, Zenon DEF Include
      <2>2. id[3] \in Seqs /\ dst.rxSeq <= dst'.rxSeq /\ id[3] <= dst'.rxSeq
            BY <2>1 DEF TxIds, TypeOK, Links, Seqs
      <2>3. DstConsistent'
            BY <2>1, <2>2 DEF DstConsistent, Seqs
      <2>4. \A x \in TxIds : (txSt'[x] = "none") <=> (txSt[x] = "none")
            BY <2>1 DEF TypeOK
      <2>8. TxBounded'
            BY <2>4 DEF TxBounded
      <2>9. CurSplit'
            BY <2>1, <2>4 DEF CurSplit, TypeOK
      <2>5. OkConsumed'
            <3> SUFFICES ASSUME NEW x \in TxIds, txSt'[x] = "ok"
                         PROVE  x[3] <= dst'.rxSeq
                BY DEF OkConsumed
            <3>1. x[3] \in Nat /\ dst.rxSeq \in Nat /\ dst'.rxSeq \in Nat
                  <4>1. x[3] \in Nat
                        BY DEF TxIds, Seqs
                  <4>2. dst \in Links
                        BY DEF TypeOK
                  <4>3. dst.rxSeq \in Nat
                        BY <4>2 DEF Links
                  <4>4. dst'.rxSeq \in Nat
                        BY <2>1, <2>2, <4>3 DEF Seqs
                  <4>5. QED BY <4>1, <4>3, <4>4
            <3>2. CASE x = id
                  BY <2>2, <3>1, <3>2
            <3>3. CASE x # id
                  <4>1. txSt[x] = "ok"
                        BY <2>1, <3>3 DEF TypeOK
                  <4>2. x[3] <= dst.rxSeq
                        BY <4>1 DEF OkConsumed
                  <4>3. QED BY <2>2, <3>1, <4>2
            <3>4. QED BY <3>2, <3>3
      <2>6. NoLoss'
            BY <2>1, <2>2 DEF NoLoss, Future, TypeOK, Links, Seqs
      <2>7. QED BY <2>3, <2>5, <2>6, <2>8, <2>9
<1>9. CASE UNCHANGED vars \/ Crashed
      <2>1. UNCHANGED vars
            BY <1>9 DEF Crashed
      <2>2. QED BY <2>1, Zenon
      DEF vars, DstConsistent, TxBounded, OkConsumed, CurSplit, NoLoss, Future
<1>11. CASE ReceiveClosed \/ SrcClose
      <2>1. /\ pc' \in {pc, "crashed"} /\ (pc' = "crashed" \/ pc \in Running)
            /\ UNCHANGED <<srcMsg, sub, cur, newMsg, txSt, dst>>
            BY <1>11, Zenon DEF ReceiveClosed, SrcClose
      <2>2. QED BY <2>1, Zenon
            DEF DstConsistent, TxBounded, OkConsumed, CurSplit, NoLoss, Future, Running
<1>10. QED
       BY <1>1, <1>2, <1>3, <1>4, <1>5, <1>6, <1>7, <1>8, <1>9, <1>11 DEF Next

\* No event of the link is ever lost, across crashes and restarts of the
\* relay and stale transactions of earlier runs: while a run is in its loop,
\* every event the destination has not consumed is in srcMsg or still to come
\* from the subscription.
THEOREM NoLossInvariant == Spec => []NoLoss
<1>1. Init => IInv
      <2> SUFFICES ASSUME Init PROVE IInv
          OBVIOUS
      <2>1. TypeOK
            BY TypeCorrect_Init
      <2>2. DstConsistent /\ NoLoss /\ CurSplit
            BY DEF Init, DstConsistent, NoLoss, CurSplit, Running
      <2>3. TxBounded /\ OkConsumed
            BY DEF Init, TxBounded, OkConsumed
      <2>4. QED BY <2>1, <2>2, <2>3 DEF IInv
<1>2. IInv => NoLoss
      BY DEF IInv
<1>3. QED
      BY <1>1, <1>2, IInvStep, PTL DEF Spec


-----------------------------------------------------------------------------
(* No transaction is ever rejected by the destination.                     *)

\* A transaction cut from the trimmed srcMsg up to one of its events c holds
\* every event the destination has not consumed up to c: those events are
\* pending (NoLoss), since an event still to come lies in a block above c's.
LEMMA SegmentApplicable ==
    ASSUME IInv, SrcBelow, pc = "idle", NEW c \in Trimmed
    PROVE  Applicable({s \in Trimmed : s <= c}, c, dst)
<1> SUFFICES ASSUME NEW s \in Seqs, dst.rxSeq < s, s <= c
             PROVE  s \in Trimmed
    BY DEF Applicable
<1>1. s \in Trimmed \cup Future
      <2>1. \A x \in Seqs : x > dst.rxSeq => x \in srcMsg \cup Future
            BY DEF IInv, NoLoss, Running
      <2>2. QED BY <2>1, TrimKeeps DEF IInv, TypeOK
<1>2. s \notin Future
      <2>1. c \in srcMsg /\ c \in Seqs
            BY DEF Trimmed, removeProcessedMessages, IInv, TypeOK
      <2>2. EvHeight[c] < sub.height
            BY <2>1 DEF SrcBelow, Running
      <2>3. EvHeight[s] <= EvHeight[c]
            BY <2>1
      <2>4. sub.height \in Nat /\ EvHeight[s] \in Nat /\ EvHeight[c] \in Nat
            BY <2>1 DEF IInv, TypeOK, Heights
      <2>5. QED BY <2>2, <2>3, <2>4 DEF Future
<1>3. QED BY <1>1, <1>2

\* Applicable only depends on how far the destination has consumed: a
\* transaction applicable to a status stays so when the status advances.
LEMMA ApplicableMonotone ==
    ASSUME NEW T, NEW last, NEW l1, NEW l2,
           l1.rxSeq \in Nat, l2.rxSeq \in Nat, l1.rxSeq <= l2.rxSeq,
           Applicable(T, last, l1)
    PROVE  Applicable(T, last, l2)
BY DEF Applicable, Seqs

\* Every step keeps IInvApplicable.
LEMMA ApplicableStep == IInvApplicable /\ [Next]_vars => IInvApplicable'
<1> SUFFICES ASSUME IInvApplicable, [Next]_vars PROVE IInvApplicable'
    OBVIOUS
<1>0. IInv /\ IInv' /\ SrcBelow /\ InFlightApplicable
      BY IInvStep DEF IInvApplicable
<1> USE <1>0 DEF IInvApplicable
<1>1. CASE Start
      <2>1. srcMsg' = {} /\ UNCHANGED <<txSt, dst>>
            BY <1>1 DEF Start
      <2>2. QED BY <2>1 DEF SrcBelow, InFlightApplicable
<1>2. CASE StartFail \/ Cancel \/ FlushStatusCancel \/ FlushSegmentFail
           \/ Restart \/ ReceiveClosed
      <2>1. pc' \in {"stopped", "init", "crashed"} /\ UNCHANGED <<txSt, dst>>
            BY <1>2, Zenon DEF StartFail, Cancel, FlushStatusCancel,
               FlushSegmentFail, Restart, ReceiveClosed, Stop
      <2>2. QED BY <2>1 DEF SrcBelow, InFlightApplicable, Running
<1>3. CASE Tick \/ FlushStatusFail \/ SrcClose \/ UNCHANGED vars \/ Crashed
      <2>1. UNCHANGED <<pc, srcMsg, sub, txSt, dst>>
            BY <1>3, Zenon DEF Tick, FlushStatusFail, SrcClose, Crashed, vars
      <2>2. QED BY <2>1 DEF SrcBelow, InFlightApplicable
<1>4. CASE Receive
      <2>1. /\ pc = "idle"
            /\ srcMsg' = srcMsg \cup BlockEvents(sub.height, sub.seq)
            /\ sub'.height = sub.height + 1
            /\ UNCHANGED <<pc, txSt, dst>>
            BY <1>4, Zenon DEF Receive, IInv, TypeOK
      <2>2. SrcBelow'
            <3> SUFFICES ASSUME NEW s \in srcMsg'
                         PROVE  EvHeight[s] < sub'.height
                BY DEF SrcBelow
            <3>1. s \in Seqs
                  BY DEF IInv, TypeOK
            <3>2. sub.height \in Nat
                  BY DEF IInv, TypeOK, Heights
            <3>3. EvHeight[s] \in Nat
                  BY <3>1 DEF Heights
            <3>4. EvHeight[s] <= sub.height
                  <4>1. CASE s \in srcMsg
                        BY <2>1, <3>2, <3>3, <4>1 DEF SrcBelow, Running
                  <4>2. CASE s \in BlockEvents(sub.height, sub.seq)
                        BY <3>2, <3>3, <4>2 DEF BlockEvents
                  <4>3. QED BY <2>1, <4>1, <4>2
            <3>5. QED BY <2>1, <3>2, <3>3, <3>4
      <2>3. QED BY <2>1, <2>2 DEF InFlightApplicable
<1>5. CASE FlushOk
      <2>1. pc = "idle" /\ pc' \in Running /\ srcMsg' = Trimmed
            /\ UNCHANGED <<sub, dst>>
            BY <1>5, Zenon DEF FlushOk, FlushNil, FlushSegment, Running
      <2>2. SrcBelow'
            BY <2>1 DEF SrcBelow, Trimmed, removeProcessedMessages, Running
      <2>3. CASE FlushNil
            <3>1. UNCHANGED txSt
                  BY <2>3 DEF FlushNil
            <3>2. QED BY <2>1, <2>2, <3>1 DEF InFlightApplicable
      <2>4. CASE FlushSegment
            <3>1. PICK c \in Trimmed :
                    txSt' = [txSt EXCEPT ![<<runs, {s \in Trimmed : s <= c}, c>>]
                               = "unsent"]
                  BY <2>4, Zenon DEF FlushSegment
            <3>2. Applicable({s \in Trimmed : s <= c}, c, dst)
                  BY <2>1, SegmentApplicable
            <3>3. InFlightApplicable'
                  <4> DEFINE id == <<runs, {s \in Trimmed : s <= c}, c>>
                  <4> SUFFICES ASSUME NEW x \in TxIds,
                                      txSt'[x] \in {"unsent", "pool"}
                               PROVE  Applicable(x[2], x[3], dst')
                      BY DEF InFlightApplicable
                  <4>1. id \in TxIds
                        BY DEF Trimmed, removeProcessedMessages, IInv, TypeOK,
                           TxIds
                  <4>2. CASE x = id
                        BY <2>1, <3>2, <4>2
                  <4>3. CASE x # id
                        <5>1. txSt'[x] = txSt[x]
                              BY <3>1, <4>1, <4>3 DEF IInv, TypeOK
                        <5>2. QED BY <2>1, <5>1 DEF InFlightApplicable
                  <4>4. QED BY <4>2, <4>3
            <3>4. QED BY <2>2, <3>3
      <2>5. QED BY <1>5, <2>3, <2>4 DEF FlushOk
<1>6. CASE SendOk \/ SendFailBroadcast
      <2>1. pc = "send" /\ UNCHANGED <<srcMsg, sub, dst>>
            BY <1>6, Zenon DEF SendOk, SendFailBroadcast
      <2>2. \A x \in TxIds : txSt'[x] \in {"unsent", "pool"}
                               => txSt[x] \in {"unsent", "pool"}
            <3> SUFFICES ASSUME NEW x \in TxIds, txSt'[x] \in {"unsent", "pool"}
                         PROVE  txSt[x] \in {"unsent", "pool"}
                OBVIOUS
            <3>1. cur \in TxIds /\ txSt \in [TxIds -> TxStates]
                  BY DEF IInv, TypeOK
            <3>2. CASE SendOk
                  <4>1. txSt' = [txSt EXCEPT ![cur] = IF @ = "unsent" THEN "pool" ELSE @]
                        BY <3>2 DEF SendOk
                  <4>2. QED BY <3>1, <4>1
            <3>3. CASE SendFailBroadcast
                  <4>1. txSt' = [txSt EXCEPT ![cur] = "pool"] /\ txSt[cur] = "unsent"
                        BY <3>3 DEF SendFailBroadcast
                  <4>2. QED BY <3>1, <4>1
            <3>4. QED BY <1>6, <3>2, <3>3
      <2>3. QED BY <2>1, <2>2 DEF SrcBelow, InFlightApplicable, Running
<1>7. CASE ReceiptOk
      <2>1. /\ pc = "confirm" /\ srcMsg' = newMsg
            /\ UNCHANGED <<sub, txSt, dst>>
            BY <1>7, Zenon DEF ReceiptOk
      <2>2. newMsg \subseteq srcMsg
            BY <2>1 DEF IInv, CurSplit
      <2>3. QED BY <2>1, <2>2 DEF SrcBelow, InFlightApplicable, Running
<1>8. CASE Include
      <2>1. PICK id \in TxIds :
              /\ txSt' = [txSt EXCEPT ![id] = "ok"]
              /\ dst' = IF id[3] > dst.rxSeq
                        THEN [rxSeq |-> id[3], rxHeight |-> EvHeight[id[3]]]
                        ELSE dst
              /\ UNCHANGED <<pc, srcMsg, sub>>
            BY <1>8, Zenon DEF Include
      <2>2. dst.rxSeq \in Nat /\ dst'.rxSeq \in Nat /\ dst.rxSeq <= dst'.rxSeq
            BY <2>1 DEF IInv, TypeOK, Links, TxIds, Seqs
      <2>3. InFlightApplicable'
            <3> SUFFICES ASSUME NEW x \in TxIds, txSt'[x] \in {"unsent", "pool"}
                         PROVE  Applicable(x[2], x[3], dst')
                BY DEF InFlightApplicable
            <3>1. txSt[x] \in {"unsent", "pool"}
                  BY <2>1 DEF IInv, TypeOK
            <3>2. Applicable(x[2], x[3], dst)
                  BY <3>1 DEF InFlightApplicable
            <3>3. QED BY <2>2, <3>2, ApplicableMonotone
      <2>4. QED BY <2>1, <2>3 DEF SrcBelow
<1>9. QED
      BY <1>1, <1>2, <1>3, <1>4, <1>5, <1>6, <1>7, <1>8 DEF Next

\* The destination never has to reject a transaction of the relay: every
\* transaction Segment has built, in any run, and that is not yet executed
\* continues the link without a gap from the destination's current status,
\* however sends, resends, executions of stale transactions and restarts
\* interleave.
THEOREM InFlightApplicableInvariant == Spec => []InFlightApplicable
<1>1. Init => IInvApplicable
      <2> SUFFICES ASSUME Init PROVE IInvApplicable
          OBVIOUS
      <2>1. IInv
            BY TypeCorrect_Init DEF Init, IInv, DstConsistent, NoLoss, CurSplit,
               Running, TxBounded, OkConsumed
      <2>2. SrcBelow /\ InFlightApplicable
            BY DEF Init, SrcBelow, InFlightApplicable
      <2>3. QED BY <2>1, <2>2 DEF IInvApplicable
<1>2. IInvApplicable => InFlightApplicable
      BY DEF IInvApplicable
<1>3. QED
      BY <1>1, <1>2, ApplicableStep, PTL DEF Spec

\* The invariant the relay's safety rests on holds in every reachable state,
\* also when the source channel closes and the relay crashes: no event is
\* lost, the pending events lie above the subscription's height, and every
\* transaction in flight applies at the destination (relay.go:100-193).
THEOREM IInvApplicableInvariant == Spec => []IInvApplicable
<1>1. Init => IInvApplicable
      <2> SUFFICES ASSUME Init PROVE IInvApplicable
          OBVIOUS
      <2>1. IInv
            BY TypeCorrect_Init DEF Init, IInv, DstConsistent, NoLoss, CurSplit,
               Running, TxBounded, OkConsumed
      <2>2. SrcBelow /\ InFlightApplicable
            BY DEF Init, SrcBelow, InFlightApplicable
      <2>3. QED BY <2>1, <2>2 DEF IInvApplicable
<1>2. QED
      BY <1>1, ApplicableStep, PTL DEF Spec


-----------------------------------------------------------------------------
(* Every transaction starts at the destination's next sequence number       *)

\* The only step that makes a transaction id go from "none" to "unsent" is
\* FlushSegment, and the transaction it builds begins right after the
\* status it has just read.
LEMMA TxStartStep ==
    ASSUME IInvApplicable, [Next]_vars,
           NEW id \in TxIds, txSt[id] = "none", txSt'[id] = "unsent"
    PROVE  Min(id[2]) = dst.rxSeq + 1
<1>0. IInv /\ SrcBelow /\ txSt \in [TxIds -> TxStates]
      BY DEF IInvApplicable, IInv, TypeOK
<1>1. CASE FlushSegment
      <2>1. pc = "idle"
            BY <1>1 DEF FlushSegment
      <2>2. PICK c \in Trimmed :
              txSt' = [txSt EXCEPT ![<<runs, {s \in Trimmed : s <= c}, c>>]
                         = "unsent"]
            BY <1>1, Zenon DEF FlushSegment
      <2> DEFINE tx == {s \in Trimmed : s <= c}
      <2>3. id = <<runs, tx, c>>
            BY <1>0, <2>2
      <2>4. Applicable(tx, c, dst)
            BY <1>0, <2>1, SegmentApplicable
      <2>5. /\ c \in Seqs /\ dst.rxSeq \in Nat /\ dst.rxSeq < c
            /\ \A s \in tx : s \in Seqs /\ dst.rxSeq < s
            BY <1>0 DEF Trimmed, removeProcessedMessages, IInv, TypeOK, Links
      <2>6. dst.rxSeq + 1 \in tx
            BY <2>4, <2>5 DEF Applicable, Seqs
      <2>7. \A s \in tx : dst.rxSeq + 1 <= s
            BY <2>5 DEF Seqs
      <2>8. Min(tx) = dst.rxSeq + 1
            BY <2>5, <2>6, <2>7 DEF Min, Seqs
      <2>9. QED BY <2>3, <2>8
<1>2. CASE SendOk
      <2>1. txSt' = [txSt EXCEPT ![cur] = IF @ = "unsent" THEN "pool" ELSE @]
            BY <1>2 DEF SendOk
      <2>2. FALSE
            BY <1>0, <2>1
      <2>3. QED BY <2>2
<1>3. CASE SendFailBroadcast \/ Include
      <2>1. \E x : txSt' = [txSt EXCEPT ![x] = "pool"] \/ txSt' = [txSt EXCEPT ![x] = "ok"]
            BY <1>3, Zenon DEF SendFailBroadcast, Include
      <2>2. FALSE
            BY <1>0, <2>1
      <2>3. QED BY <2>2
<1>4. CASE ~FlushSegment /\ ~SendOk /\ ~SendFailBroadcast /\ ~Include
      <2>1. UNCHANGED txSt
            BY <1>4, Zenon DEF Next, vars, Start, StartFail, Cancel, Tick, Receive,
               FlushStatusFail, FlushStatusCancel, FlushSegmentFail, FlushOk,
               FlushNil, ReceiptOk, Restart, ReceiveClosed, SrcClose, Crashed, Stop
      <2>2. QED BY <2>1
<1>5. QED BY <1>1, <1>2, <1>3, <1>4

\* Segment is only ever asked for a transaction that starts at the
\* destination's next expected sequence number: the trim after dst.Status
\* (relay.go:142-148) leaves no consumed event in front and no gap, across
\* restarts, resends and stale transactions executing late.
THEOREM TxStartsAtNextProperty == Spec => TxStartsAtNext
<1>1. IInvApplicable /\ [Next]_vars =>
        [\A id \in TxIds :
           txSt[id] = "none" /\ txSt'[id] = "unsent" => Min(id[2]) = dst.rxSeq + 1]_vars
      BY TxStartStep
<1>2. QED
      BY <1>1, IInvApplicableInvariant, PTL DEF Spec, TxStartsAtNext
=============================================================================
