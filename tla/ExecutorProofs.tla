--------------------------- MODULE ExecutorProofs ---------------------------
(***************************************************************************)
(* Proofs about Executor for any finite sets of scripts and ids and any    *)
(* bound on events: every reachable state is well typed, and removeChan    *)
(* never closes a nil or closed channel.                                    *)
(***************************************************************************)
EXTENDS Executor, TLAPS

USE ExecutorAssumption

\* Steps of one script, named for the case split of the step lemma.
ScriptStep(p) ==
    GetID(p) \/ GetIDFail(p) \/ AddChan(p) \/ Return(p)
    \/ RemoveChan(p) \/ SignalDone(p)

LEMMA InitIInv == Init => IInv
BY DEF Init, IInv, TypeOK, HasId, RegOpen, ClosedStarted, NoClosePanic, Started

\* The dispatcher's steps change neither the map, the closed channels nor
\* any script.
LEMMA DispatcherStep ==
    ASSUME IInv,
           DispRecv \/ DispCancel \/ GetChan \/ Deliver \/ SendPanic
    PROVE  IInv'
<1> USE DEF IInv, HasId, RegOpen, ClosedStarted, NoClosePanic, Started
<1>1. CASE DispRecv
  BY <1>1 DEF DispRecv, TypeOK
<1>2. CASE DispCancel
  BY <1>2 DEF DispCancel, TypeOK
<1>3. CASE GetChan
  <2>1. PICK i \in dtargets :
          /\ dtargets' = dtargets \ {i}
          /\ dch' = reg[i]
          /\ dpc' = IF reg[i] # NoChan THEN "send"
                    ELSE IF dtargets \ {i} = {} THEN "select" ELSE "lookup"
    BY <1>3 DEF GetChan
  <2>2. TypeOK'
    BY <1>3, <2>1 DEF GetChan, TypeOK
  <2>3. QED
    BY <1>3, <2>2 DEF GetChan
<1>4. CASE Deliver
  BY <1>4 DEF Deliver, TypeOK
<1>5. CASE SendPanic
  BY <1>5 DEF SendPanic, TypeOK
<1>6. QED
  BY <1>1, <1>2, <1>3, <1>4, <1>5

\* removeChan: the channel under the script's id is open (RegOpen), so the
\* close does not panic; it is closed and its entry deleted together.
LEMMA RemoveChanStep ==
    ASSUME IInv, NEW p \in Scripts, RemoveChan(p)
    PROVE  IInv'
<1> DEFINE ch == reg[sid[p]]
           reg2 == [reg EXCEPT ![sid[p]] = NoChan]
<1>1. sid[p] \in Ids
  <2>1. spc[p] = "remove"
    BY DEF RemoveChan
  <2>2. QED
    BY <2>1 DEF IInv, HasId
<1>2. ~(ch # NoChan /\ ch \in closed)
  BY <1>1 DEF IInv, RegOpen
<1>3. /\ closed' = IF ch # NoChan THEN closed \cup {ch} ELSE closed
      /\ reg' = reg2
      /\ spc' = [spc EXCEPT ![p] =
                   IF \A i \in Ids : reg2[i] = NoChan THEN "signal" ELSE "done"]
      /\ panicked' = panicked
      /\ UNCHANGED <<sid, dpc, dtargets, dch, events, mpc>>
  BY <1>2 DEF RemoveChan
<1>4. TypeOK'
  BY <1>1, <1>3 DEF IInv, TypeOK
<1>5. Started' = Started
  BY <1>3, <1>4 DEF RemoveChan, Started, IInv, TypeOK
<1>6. RegOpen'
  <2> SUFFICES ASSUME NEW i \in Ids, reg'[i] # NoChan
               PROVE  /\ reg'[i] \notin closed'
                      /\ sid'[reg'[i]] = i
                      /\ reg'[i] \in Started'
    BY DEF RegOpen
  <2>1. i # sid[p] /\ reg'[i] = reg[i]
    BY <1>1, <1>3 DEF IInv, TypeOK
  <2>2. reg[i] # ch
    BY <1>1, <2>1 DEF IInv, RegOpen
  <2>3. QED
    BY <1>3, <1>5, <2>1, <2>2 DEF IInv, RegOpen
<1>7. ClosedStarted'
  <2>1. ch # NoChan => ch \in Started
    BY <1>1 DEF IInv, RegOpen
  <2>2. QED
    BY <1>3, <1>5, <2>1 DEF IInv, ClosedStarted
<1>8. HasId'
  BY <1>1, <1>3 DEF IInv, HasId, TypeOK
<1>9. QED
  BY <1>3, <1>4, <1>6, <1>7, <1>8 DEF IInv, NoClosePanic

LEMMA ScriptStepIInv ==
    ASSUME IInv, NEW p \in Scripts, ScriptStep(p)
    PROVE  IInv'
<1>1. CASE GetID(p)
  <2>1. PICK i \in Ids \ Registered :
          /\ sid' = [sid EXCEPT ![p] = i]
          /\ spc' = [spc EXCEPT ![p] = "add"]
    BY <1>1 DEF GetID
  <2>2. p \notin Started /\ Started' = Started
    BY <1>1, <2>1 DEF GetID, Started, IInv, TypeOK
  <2>3. \A j \in Ids : reg[j] # NoChan => reg[j] # p
    BY <2>2 DEF IInv, RegOpen
  <2>4. TypeOK'
    BY <1>1, <2>1 DEF GetID, IInv, TypeOK
  <2>5. HasId'
    BY <1>1, <2>1 DEF GetID, IInv, HasId, TypeOK
  <2>6. QED
    BY <1>1, <2>1, <2>2, <2>3, <2>4, <2>5
       DEF GetID, IInv, RegOpen, ClosedStarted, NoClosePanic
<1>2. CASE GetIDFail(p)
  <2>1. p \notin closed
    BY <1>2 DEF GetIDFail, IInv, ClosedStarted, Started
  <2>2. \A j \in Ids : reg[j] # NoChan => reg[j] # p
    BY <1>2 DEF GetIDFail, IInv, RegOpen, Started
  <2>3. Started \subseteq Started'
    BY <1>2 DEF GetIDFail, Started, IInv, TypeOK
  <2>4. QED
    BY <1>2, <2>1, <2>2, <2>3
       DEF GetIDFail, IInv, TypeOK, HasId, RegOpen, ClosedStarted, NoClosePanic
<1>3. CASE AddChan(p)
  <2>1. spc[p] = "add" /\ sid[p] \in Ids
    BY <1>3 DEF AddChan, AddChanNoLock, IInv, HasId
  <2>2. p \notin closed
    BY <2>1 DEF IInv, ClosedStarted, Started
  <2>3. Started' = Started \cup {p}
    BY <1>3 DEF AddChan, AddChanNoLock, Started, IInv, TypeOK
  <2>4. TypeOK'
    BY <1>3, <2>1 DEF AddChan, AddChanNoLock, IInv, TypeOK
  <2>5. RegOpen'
    BY <1>3, <2>1, <2>2, <2>3 DEF AddChan, AddChanNoLock, IInv, RegOpen
  <2>6. QED
    BY <1>3, <2>1, <2>3, <2>4, <2>5
       DEF AddChan, AddChanNoLock, IInv, HasId, ClosedStarted, NoClosePanic
<1>4. CASE Return(p)
  <2>1. Started' = Started
    BY <1>4 DEF Return, Started, IInv, TypeOK
  <2>2. QED
    BY <1>4, <2>1 DEF Return, IInv, TypeOK, HasId, RegOpen, ClosedStarted, NoClosePanic
<1>5. CASE RemoveChan(p)
  BY <1>5, RemoveChanStep
<1>6. CASE SignalDone(p)
  <2>1. Started' = Started
    BY <1>6 DEF SignalDone, Started, IInv, TypeOK
  <2>2. QED
    BY <1>6, <2>1 DEF SignalDone, IInv, TypeOK, HasId, RegOpen, ClosedStarted, NoClosePanic
<1>7. QED
  BY <1>1, <1>2, <1>3, <1>4, <1>5, <1>6 DEF ScriptStep

LEMMA NextIInv == IInv /\ [Next]_vars => IInv'
<1> SUFFICES ASSUME IInv, [Next]_vars PROVE IInv'
  OBVIOUS
<1>1. CASE \E p \in Scripts : ScriptStep(p)
  BY <1>1, ScriptStepIInv
<1>2. CASE DispRecv \/ DispCancel \/ GetChan \/ Deliver \/ SendPanic
  BY <1>2, DispatcherStep
<1>3. CASE Terminated \/ UNCHANGED vars
  BY <1>3 DEF Terminated, vars, IInv, TypeOK, HasId, RegOpen, ClosedStarted,
             NoClosePanic, Started
<1>4. QED
  BY <1>1, <1>2, <1>3 DEF Next, ScriptStep

\* Every reachable state of the harness is well typed; in particular the
\* dispatcher holds a non-nil channel exactly while it sends.
THEOREM TypeCorrect == Spec => []TypeOK
<1>1. IInv => TypeOK
  BY DEF IInv
<1>2. QED
  BY <1>1, InitIInv, NextIInv, PTL DEF Spec

\* removeChan never panics in close(ex.sinkChanPerID[id]) (executor.go:135),
\* however scripts interleave and even when two of them draw the same id.
THEOREM NoClosePanicInvariant == Spec => []NoClosePanic
<1>1. IInv => NoClosePanic
  BY DEF IInv
<1>2. QED
  BY <1>1, InitIInv, NextIInv, PTL DEF Spec


\* The harness's inductive invariant holds in every reachable state: every
\* script past getID holds an id, a registered channel is open, only a
\* started script's channel is closed, and removeChan never closes a
\* closed channel (executor.go:120-139, 190-230).
THEOREM IInvInvariant == Spec => []IInv
<1>1. QED
  BY InitIInv, NextIInv, PTL DEF Spec


-----------------------------------------------------------------------------
(* Done() fires on an empty map                                             *)

\* A removeChan that keeps the write lock to send on stoppedChan left the
\* map empty, and the map stays empty while it holds the lock.
SignalEmpty == \A p \in Scripts : spc[p] = "signal" => Registered = {}

LEMMA SignalEmptyStep ==
    ASSUME IInv, SignalEmpty, [Next]_vars
    PROVE  SignalEmpty'
<1>0. TypeOK
  BY DEF IInv
<1>1. CASE \E p \in Scripts : RemoveChan(p)
  <2>1. PICK p \in Scripts : RemoveChan(p)
    BY <1>1
  <2>2. ~Locked /\ UNCHANGED sid
    BY <2>1 DEF RemoveChan
  <2>3. \A q \in Scripts : spc[q] # "signal"
    BY <2>2 DEF Locked
  <2> DEFINE reg2 == [reg EXCEPT ![sid[p]] = NoChan]
  <2>4. \/ UNCHANGED <<spc, reg>>
        \/ /\ reg' = reg2
           /\ spc' = [spc EXCEPT ![p] =
                        IF \A i \in Ids : reg2[i] = NoChan THEN "signal" ELSE "done"]
    BY <2>1 DEF RemoveChan
  <2>5. CASE UNCHANGED <<spc, reg>>
    BY <2>3, <2>5 DEF SignalEmpty
  <2>6. CASE /\ reg' = reg2
             /\ spc' = [spc EXCEPT ![p] =
                          IF \A i \in Ids : reg2[i] = NoChan THEN "signal" ELSE "done"]
    <3> SUFFICES ASSUME NEW q \in Scripts, spc'[q] = "signal"
                 PROVE  Registered' = {}
      BY DEF SignalEmpty
    <3>1. q = p /\ \A i \in Ids : reg2[i] = NoChan
      BY <1>0, <2>3, <2>6 DEF TypeOK
    <3>2. QED BY <2>6, <3>1 DEF Registered
  <2>7. QED BY <2>4, <2>5, <2>6
<1>2. CASE \E p \in Scripts : AddChan(p)
  <2>1. PICK p \in Scripts : AddChan(p)
    BY <1>2
  <2>2. \A q \in Scripts : spc[q] # "signal"
    BY <2>1 DEF AddChan, Locked
  <2>3. spc' = [spc EXCEPT ![p] = "run"]
    BY <2>1 DEF AddChan, AddChanNoLock
  <2>4. \A q \in Scripts : spc'[q] # "signal"
    BY <1>0, <2>2, <2>3 DEF TypeOK
  <2>5. QED BY <2>4 DEF SignalEmpty
<1>3. CASE \E p \in Scripts : GetID(p) \/ GetIDFail(p) \/ Return(p) \/ SignalDone(p)
  <2>1. PICK p \in Scripts : GetID(p) \/ GetIDFail(p) \/ Return(p) \/ SignalDone(p)
    BY <1>3
  <2>2. /\ UNCHANGED reg
        /\ \E v \in {"add", "done", "remove"} : spc' = [spc EXCEPT ![p] = v]
    BY <2>1 DEF GetID, GetIDFail, Return, SignalDone
  <2>3. \A q \in Scripts : spc'[q] = "signal" => spc[q] = "signal"
    BY <1>0, <2>2 DEF TypeOK
  <2>4. QED BY <2>2, <2>3 DEF SignalEmpty, Registered
<1>4. CASE DispRecv \/ DispCancel \/ GetChan \/ Deliver \/ SendPanic
          \/ Terminated \/ UNCHANGED vars
  <2>1. UNCHANGED <<spc, reg>>
    BY <1>4 DEF DispRecv, DispCancel, GetChan, Deliver, SendPanic, Terminated, vars
  <2>2. QED BY <2>1 DEF SignalEmpty, Registered
<1>5. QED
  BY <1>1, <1>2, <1>3, <1>4 DEF Next

\* When main's read of Done() returns, the map is empty (executor.go:130-139):
\* removeChan sends on stoppedChan while it still holds the write lock, so
\* no addChan can register a channel between the emptiness test and the
\* signal, however the scripts and the dispatcher interleave.
THEOREM SignalOnEmptyProperty == Spec => SignalOnEmpty
<1>1. Init => SignalEmpty
  BY DEF Init, SignalEmpty
<1>2. IInv /\ SignalEmpty /\ [Next]_vars => SignalEmpty'
  BY SignalEmptyStep
<1>3. SignalEmpty /\ [Next]_vars => [mpc = "wait" /\ mpc' = "stopped" => Registered' = {}]_vars
  <2> SUFFICES ASSUME SignalEmpty, [Next]_vars, mpc = "wait", mpc' = "stopped"
               PROVE  Registered' = {}
    OBVIOUS
  <2>1. PICK p \in Scripts : SignalDone(p)
    BY DEF Next, GetID, GetIDFail, AddChan, AddChanNoLock, Return, RemoveChan,
       DispRecv, DispCancel, GetChan, Deliver, SendPanic, Terminated, Alive, vars
  <2>2. spc[p] = "signal" /\ UNCHANGED reg
    BY <2>1 DEF SignalDone
  <2>3. QED BY <2>2 DEF SignalEmpty, Registered
<1>4. QED
  BY <1>1, <1>2, <1>3, InitIInv, NextIInv, PTL DEF Spec, SignalOnEmpty
=============================================================================
