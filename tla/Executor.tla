------------------------------ MODULE Executor ------------------------------
(***************************************************************************)
(* The e2e test executor of src/cmd/e2etest/executor/executor.go.          *)
(*                                                                         *)
(* Test scripts run Execute concurrently. Each draws a random id (getID),  *)
(* registers an unbuffered channel under it in sinkChanPerID (addChan),    *)
(* runs its callback and, on return, removes and closes the channel        *)
(* registered under its id (removeChan, deferred). One dispatcher          *)
(* goroutine (Subscribe) receives chain events carrying target ids, looks  *)
(* up the channel of each id (getChan) and sends the event on it. The map  *)
(* is guarded by an RWMutex. Every critical section is one step of the     *)
(* model, except the one of removeChan: it sends on the unbuffered         *)
(* stoppedChan while it still holds the write lock.                        *)
(*                                                                         *)
(* A channel is identified by the script that made it. The main goroutine  *)
(* reads Done() once and then returns, which ends the process. A panic in  *)
(* any goroutine also ends it. Events and their target ids come from the   *)
(* chains: any subset of the id space, at most MaxEvents of them.          *)
(***************************************************************************)
EXTENDS Naturals, FiniteSets

CONSTANTS
    Scripts,    \* the concurrently executed test scripts
    Ids,        \* the space getID draws from
    NoId,       \* sid of a script that has no id yet
    NoChan,     \* no channel: an absent map entry or a nil channel
    MaxEvents   \* bound on the chain events the dispatcher receives

ASSUME ExecutorAssumption ==
    /\ Scripts # {} /\ IsFiniteSet(Scripts)
    /\ Ids # {} /\ IsFiniteSet(Ids)
    /\ NoId \notin Ids
    /\ NoChan \notin Scripts
    /\ MaxEvents \in Nat

VARIABLES
    spc,        \* control point of each script's Execute
    sid,        \* the id each script drew
    reg,        \* sinkChanPerID: id -> channel (NoChan when absent)
    closed,     \* channels that have been closed
    dpc,        \* control point of the dispatcher goroutine
    dtargets,   \* ids of the current event not yet dispatched
    dch,        \* the channel getChan returned, held across the send
    events,     \* chain events received so far
    mpc,        \* the main goroutine: waiting on Done() or returned
    panicked    \* "none", or the operation whose panic ended the process

vars == <<spc, sid, reg, closed, dpc, dtargets, dch, events, mpc, panicked>>

Registered == {i \in Ids : reg[i] # NoChan}

\* The write lock is held only by a removeChan blocked on stoppedChan; every
\* other critical section is a single step.
Locked == \E p \in Scripts : spc[p] = "signal"

\* The process runs until main returns or a goroutine panics.
Alive == mpc = "wait" /\ panicked = "none"

TypeOK ==
    /\ spc \in [Scripts -> {"getID", "add", "run", "remove", "signal", "done"}]
    /\ sid \in [Scripts -> Ids \cup {NoId}]
    /\ reg \in [Ids -> Scripts \cup {NoChan}]
    /\ closed \subseteq Scripts
    /\ dpc \in {"select", "lookup", "send", "exit"}
    /\ dtargets \subseteq Ids
    /\ dch \in IF dpc = "send" THEN Scripts ELSE {NoChan}
    /\ events \in 0..MaxEvents
    /\ mpc \in {"wait", "stopped"}
    /\ panicked \in {"none", "send", "close"}

\* New: an empty map, no channel closed; every script is about to call
\* Execute and the dispatcher is in its select loop.
Init ==
    /\ spc = [p \in Scripts |-> "getID"]
    /\ sid = [p \in Scripts |-> NoId]
    /\ reg = [i \in Ids |-> NoChan]
    /\ closed = {}
    /\ dpc = "select"
    /\ dtargets = {}
    /\ dch = NoChan
    /\ events = 0
    /\ mpc = "wait"
    /\ panicked = "none"

(***************************************************************************)
(* Execute (script side)                                                   *)
(***************************************************************************)

\* getID under the read lock: an id not in the map.
GetID(p) ==
    /\ Alive /\ ~Locked
    /\ spc[p] = "getID"
    /\ \E i \in Ids \ Registered :
         /\ sid' = [sid EXCEPT ![p] = i]
         /\ spc' = [spc EXCEPT ![p] = "add"]
    /\ UNCHANGED <<reg, closed, dpc, dtargets, dch, events, mpc, panicked>>

\* All five random draws of getID hit ids in use: Execute returns the error
\* before it registers anything, so no removeChan is deferred.
GetIDFail(p) ==
    /\ Alive /\ ~Locked
    /\ spc[p] = "getID"
    /\ Registered # {}
    /\ spc' = [spc EXCEPT ![p] = "done"]
    /\ UNCHANGED <<sid, reg, closed, dpc, dtargets, dch, events, mpc, panicked>>

\* addChan under the write lock; overwrites an entry another script added
\* under the same id since this script's getID.
AddChanNoLock(p) ==
    /\ Alive
    /\ spc[p] = "add"
    /\ reg' = [reg EXCEPT ![sid[p]] = p]
    /\ spc' = [spc EXCEPT ![p] = "run"]
    /\ UNCHANGED <<sid, closed, dpc, dtargets, dch, events, mpc, panicked>>

AddChan(p) ==
    /\ ~Locked
    /\ AddChanNoLock(p)

\* The callback returns: normally, with an error, or at once because it is
\* nil. Every path runs the deferred removeChan.
Return(p) ==
    /\ Alive
    /\ spc[p] = "run"
    /\ spc' = [spc EXCEPT ![p] = "remove"]
    /\ UNCHANGED <<sid, reg, closed, dpc, dtargets, dch, events, mpc, panicked>>

\* removeChan without the presence and nil checks: close(nil) panics too.
RemoveChanUnchecked(p) ==
    /\ Alive /\ ~Locked
    /\ spc[p] = "remove"
    /\ LET ch == reg[sid[p]]
           reg2 == [reg EXCEPT ![sid[p]] = NoChan]
       IN  IF ch = NoChan \/ ch \in closed
           THEN /\ panicked' = "close"
                /\ UNCHANGED <<spc, reg, closed>>
           ELSE /\ closed' = closed \cup {ch}
                /\ reg' = reg2
                /\ spc' = [spc EXCEPT ![p] =
                             IF \A i \in Ids : reg2[i] = NoChan THEN "signal" ELSE "done"]
                /\ UNCHANGED panicked
    /\ UNCHANGED <<sid, dpc, dtargets, dch, events, mpc>>

\* removeChan under the write lock: close the channel registered under the
\* script's id (closing a closed channel panics), delete the entry, and if
\* the map is now empty keep the lock and send on stoppedChan.
RemoveChan(p) ==
    /\ Alive /\ ~Locked
    /\ spc[p] = "remove"
    /\ LET ch == reg[sid[p]]
           reg2 == [reg EXCEPT ![sid[p]] = NoChan]
       IN  IF ch # NoChan /\ ch \in closed
           THEN /\ panicked' = "close"
                /\ UNCHANGED <<spc, reg, closed>>
           ELSE /\ closed' = IF ch # NoChan THEN closed \cup {ch} ELSE closed
                /\ reg' = reg2
                /\ spc' = [spc EXCEPT ![p] =
                             IF \A i \in Ids : reg2[i] = NoChan THEN "signal" ELSE "done"]
                /\ UNCHANGED panicked
    /\ UNCHANGED <<sid, dpc, dtargets, dch, events, mpc>>

\* stoppedChan <- struct{}{} meets main's read of Done(); main returns.
SignalDone(p) ==
    /\ Alive
    /\ spc[p] = "signal"
    /\ spc' = [spc EXCEPT ![p] = "done"]
    /\ mpc' = "stopped"
    /\ UNCHANGED <<sid, reg, closed, dpc, dtargets, dch, events, panicked>>

(***************************************************************************)
(* Subscribe (dispatcher side)                                             *)
(***************************************************************************)

\* reflect.Select yields a chain event with its target ids; an event with
\* no target is logged and dropped.
DispRecv ==
    /\ Alive
    /\ dpc = "select"
    /\ events < MaxEvents
    /\ \E T \in SUBSET Ids :
         /\ dtargets' = T
         /\ dpc' = IF T = {} THEN "select" ELSE "lookup"
    /\ events' = events + 1
    /\ UNCHANGED <<spc, sid, reg, closed, dch, mpc, panicked>>

\* The context is cancelled: the dispatcher goroutine returns.
DispCancel ==
    /\ Alive
    /\ dpc = "select"
    /\ dpc' = "exit"
    /\ UNCHANGED <<spc, sid, reg, closed, dtargets, dch, events, mpc, panicked>>

\* getChan without the dst != nil check: a send on a nil channel.
GetChanNoNilCheck ==
    /\ Alive /\ ~Locked
    /\ dpc = "lookup"
    /\ \E i \in dtargets :
         /\ dtargets' = dtargets \ {i}
         /\ dch' = reg[i]
         /\ dpc' = "send"
    /\ UNCHANGED <<spc, sid, reg, closed, events, mpc, panicked>>

\* getChan under the read lock for the next target id; the channel it
\* returns is used after the lock is released.
GetChan ==
    /\ Alive /\ ~Locked
    /\ dpc = "lookup"
    /\ \E i \in dtargets :
         /\ dtargets' = dtargets \ {i}
         /\ dch' = reg[i]
         /\ dpc' = IF reg[i] # NoChan THEN "send"
                   ELSE IF dtargets \ {i} = {} THEN "select" ELSE "lookup"
    /\ UNCHANGED <<spc, sid, reg, closed, events, mpc, panicked>>

\* dst <- evt meets the script that owns the channel receiving from it.
Deliver ==
    /\ Alive
    /\ dpc = "send"
    /\ dch \notin closed
    /\ spc[dch] = "run"
    /\ dpc' = IF dtargets = {} THEN "select" ELSE "lookup"
    /\ dch' = NoChan
    /\ UNCHANGED <<spc, sid, reg, closed, dtargets, events, mpc, panicked>>

\* A send on a closed channel, or one blocked when the channel is closed,
\* panics.
SendPanic ==
    /\ Alive
    /\ dpc = "send"
    /\ dch \in closed
    /\ panicked' = "send"
    /\ UNCHANGED <<spc, sid, reg, closed, dpc, dtargets, dch, events, mpc>>

\* The process has ended.
Terminated ==
    /\ ~Alive
    /\ UNCHANGED vars

Next ==
    \/ \E p \in Scripts :
         GetID(p) \/ GetIDFail(p) \/ AddChan(p) \/ Return(p)
         \/ RemoveChan(p) \/ SignalDone(p)
    \/ DispRecv \/ DispCancel \/ GetChan \/ Deliver \/ SendPanic
    \/ Terminated

Spec == Init /\ [][Next]_vars

(***************************************************************************)
(* Properties                                                              *)
(***************************************************************************)

\* close(ex.sinkChanPerID[id]) in removeChan never panics: it never closes
\* a nil or an already closed channel, even when two scripts drew the same
\* id and one removeChan closed the other's channel.
NoClosePanic == panicked # "close"

\* When main's read of Done() returns, the map of removeChan that sent on
\* stoppedChan is still empty: the write lock it keeps across the send
\* keeps addChan out.
SignalOnEmpty ==
    [][mpc = "wait" /\ mpc' = "stopped" => Registered' = {}]_vars

\* The dispatcher never sends on a closed channel (executor.go:199).
NoSendOnClosed == panicked # "send"

\* "All test scripts have been completed" (executor.go:140): when Done()
\* fires, every script's Execute has returned.
AllDoneAtStop == mpc = "stopped" => \A p \in Scripts : spc[p] = "done"

\* A script's own channel is not closed while its callback still runs.
OwnChannelOpen == \A p \in Scripts : spc[p] = "run" => p \notin closed

(***************************************************************************)
(* Inductive invariant for NoClosePanic                                    *)
(***************************************************************************)

\* Scripts that have passed addChan (or given up in getID).
Started == {p \in Scripts : spc[p] \notin {"getID", "add"}}

\* A channel in the map is open, sits under its owner's id, and its owner
\* has registered it: so removeChan's close never meets a closed channel.
RegOpen ==
    \A i \in Ids : reg[i] # NoChan =>
        /\ reg[i] \notin closed
        /\ sid[reg[i]] = i
        /\ reg[i] \in Started

\* Only a registered channel gets closed, so a script still to register
\* owns an open channel.
ClosedStarted == closed \subseteq Started

\* A script that drew an id holds it until its removeChan is over; one whose
\* getID failed is done without one.
HasId ==
    \A p \in Scripts : spc[p] \in {"add", "run", "remove", "signal"} => sid[p] \in Ids

IInv == TypeOK /\ HasId /\ RegOpen /\ ClosedStarted /\ NoClosePanic

=============================================================================
