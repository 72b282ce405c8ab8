---------------------------- MODULE DeviceCache ----------------------------
(***************************************************************************)
(* One device, the daemon's cached snapshot of it, and everything that     *)
(* talks to it: the polling loop (cmd/breezyd/poller.go) and the           *)
(* operations of the HTTP handlers, the HomeKit callbacks, the scheduler   *)
(* and the RTC syncer, which all take the poller's udpMu, dial, exchange,  *)
(* record each acknowledged write in the cache (State.WriteThrough, then   *)
(* Poller.NoticeWrite) and let go of udpMu.                                *)
(*                                                                         *)
(* udpMu covers the exchanges and the cache, not the poller's choice of    *)
(* what to read, which is made before it is taken.                         *)
(*                                                                         *)
(* Data.  A parameter's value is the number of changes it has had, so that *)
(* two values tell which is older; None is a missing map key.  A           *)
(* snapshot's LastPoll is what it vouches for: the device's values when    *)
(* that poll took udpMu.  Time is only the two countdowns of the settle    *)
(* window and of the ramping fans.                                         *)
(***************************************************************************)
EXTENDS Integers, Sequences, FiniteSets

CONSTANTS Params,       \* the device's parameters
          ReadIDs,      \* sequence of those a tick polls
          BatchSize,    \* pollBatchSize
          FanWrites,    \* fanWriteIDs
          FanReads,     \* fanSensitiveReads
          Settle,       \* fanSettleDuration, 12 s
          Ramp,         \* how long the unit's fans ramp: 10 to 15 s
          Ops,          \* operations: sequences of sets of parameters written
          Workers,      \* goroutines that run operations
          HasPoller,    \* the device had an IP when the daemon started
          Poller, None,
          \* Bound of the model.
          Budget        \* writes, failures and changes of the device's own

ASSUME DeviceCacheAssumption ==
    /\ ReadIDs \in Seq(Params)
    /\ BatchSize \in Nat \ {0}
    /\ FanWrites \subseteq Params
    /\ FanReads \subseteq Params
    /\ Settle \in Nat \ {0}
    /\ Ramp \in Nat
    /\ Ops \subseteq Seq(SUBSET Params)
    /\ HasPoller \in BOOLEAN
    /\ Poller \notin Workers
    /\ None \notin Workers \cup {Poller} \cup Nat
    /\ Budget \in Nat

VARIABLES dev,       \* the device's values
          ramp,      \* time until its fans have settled
          snap,      \* the cached Snapshot
          settle,    \* time until settleDeadline
          udpMu,     \* its holder, or None
          tick,      \* the running tick
          op,        \* the running operation of each worker
          seen,      \* history: newest value of each parameter cached so far
          ramped,    \* history: cached parameters read while the fans ramped
          silent,    \* history: the fans ramp by a write nobody acknowledged
          budget

vars == <<dev, ramp, snap, settle, udpMu, tick, op, seen, ramped, silent,
          budget>>

Values == [Params -> Nat \cup {None}]
NoValues == [p \in Params |-> None]
Zero == [p \in Params |-> 0]

Snapshot == [values : Values, lastPoll : [Params -> Nat], err : BOOLEAN]
Tick == [at : {"idle", "wait", "dial", "read"}, ids : SUBSET DOMAIN ReadIDs,
         got : Values, fans : SUBSET Params, failed : BOOLEAN,
         prev : Snapshot, began : [Params -> Nat]]
Op == [at : {"idle", "wait", "dial", "open", "acked", "cached", "close"},
       todo : Seq(SUBSET Params), sent : [Params -> Nat]]

ZeroSnapshot == [values |-> NoValues, lastPoll |-> Zero, err |-> FALSE]
Idle == [at |-> "idle", todo |-> <<>>, sent |-> Zero]
IdleTick == [at |-> "idle", ids |-> {}, got |-> NoValues, fans |-> {},
             failed |-> FALSE, prev |-> ZeroSnapshot, began |-> Zero]

\* g's values over f's.
Merge(f, g) == [p \in Params |-> IF g[p] = None THEN f[p] ELSE g[p]]

\* The values of the parameters ps.
Only(ps, f) == [p \in Params |-> IF p \in ps THEN f[p] ELSE None]

\* The parameters a map holds.
Known(f) == {p \in Params : f[p] # None}

Spend(n) == /\ budget >= n
            /\ budget' = budget - n

Init == /\ dev = Zero
        /\ ramp = 0
        /\ snap = ZeroSnapshot
        /\ settle = 0
        /\ udpMu = None
        /\ tick = IdleTick
        /\ op = [w \in Workers |-> Idle]
        /\ seen = Zero
        /\ ramped = {}
        /\ silent = FALSE
        /\ budget = Budget

\* State.Set: the snapshot is replaced whole; fans are those of its values
\* that were read while the fans ramped.
SetSnap(values, lastPoll, err, fans) ==
    /\ snap' = [values |-> values, lastPoll |-> lastPoll, err |-> err]
    /\ seen' = Merge(seen, values)
    /\ ramped' = fans

-----------------------------------------------------------------------------
(* udpMu.  A device without a poller has no mutex: lockDevice does nothing. *)

Free == HasPoller => udpMu = None

Lock(a) == /\ Free
           /\ udpMu' = IF HasPoller THEN a ELSE None

Unlock == udpMu' = None

-----------------------------------------------------------------------------
(* One tick of the poller.                                                 *)

\* idsForThisTick, as the positions of ReadIDs that it keeps.
ThisTick == IF settle = 0 THEN DOMAIN ReadIDs
            ELSE {i \in DOMAIN ReadIDs : ReadIDs[i] \notin FanReads}

\* The ids are chosen before udpMu is asked for.
TickBegin ==
    /\ HasPoller
    /\ tick.at = "idle"
    /\ tick' = [tick EXCEPT !.at = "wait", !.ids = ThisTick]
    /\ UNCHANGED <<dev, ramp, snap, settle, udpMu, op, seen, ramped, silent,
                   budget>>

TickLock ==
    /\ tick.at = "wait"
    /\ Lock(Poller)
    /\ tick' = [tick EXCEPT !.at = "dial", !.prev = snap, !.began = dev]
    /\ UNCHANGED <<dev, ramp, snap, settle, op, seen, ramped, silent, budget>>

\* Defect: the early return of a failed dial keeps the mutex.
TickDialFailsLocked ==
    /\ tick.at = "dial"
    /\ SetSnap(tick.prev.values, tick.prev.lastPoll, TRUE, ramped)
    /\ tick' = IdleTick
    /\ Spend(1)
    /\ UNCHANGED <<dev, ramp, settle, udpMu, op, silent>>

\* OnTick and OnPoll are not called.
TickDialFails ==
    /\ tick.at = "dial"
    /\ SetSnap(tick.prev.values, tick.prev.lastPoll, TRUE, ramped)
    /\ tick' = IdleTick
    /\ Unlock
    /\ Spend(1)
    /\ UNCHANGED <<dev, ramp, settle, op, silent>>

TickDial ==
    /\ tick.at = "dial"
    /\ tick' = [tick EXCEPT !.at = "read"]
    /\ UNCHANGED <<dev, ramp, snap, settle, udpMu, op, seen, ramped, silent,
                   budget>>

\* The positions of the next packet's ids: the first BatchSize.
Chunk == {i \in tick.ids : Cardinality({j \in tick.ids : j < i}) < BatchSize}

\* Its parameters.
Batch == {ReadIDs[i] : i \in Chunk}

\* Defect: only the first batch is read.
RestNone == {}

\* What is left for later packets.
Rest == tick.ids \ Chunk

\* One ReadParams: the reply's values are the device's of that moment, or the
\* exchange fails and the next batch is tried.
ReadBatch ==
    /\ tick.at = "read"
    /\ tick.ids # {}
    /\ \/ /\ tick' = [tick EXCEPT
                !.ids = Rest,
                !.got = Merge(@, Only(Batch, dev)),
                !.fans = IF ramp > 0 THEN @ \cup (Batch \cap FanReads) ELSE @]
          /\ UNCHANGED budget
       \/ /\ tick' = [tick EXCEPT !.ids = Rest, !.failed = TRUE]
          /\ Spend(1)
    /\ UNCHANGED <<dev, ramp, snap, settle, udpMu, op, seen, ramped, silent>>

\* Defect: a failed tick advances LastPoll too.
LastPollAlways == tick.began

LastPoll == IF tick.failed THEN tick.prev.lastPoll ELSE tick.began

\* A tick that read nothing falls back to the previous values.
TickEnd ==
    /\ tick.at = "read"
    /\ tick.ids = {}
    /\ IF tick.failed /\ tick.got = NoValues /\ tick.prev.values # NoValues
       THEN SetSnap(tick.prev.values, LastPoll, TRUE, ramped)
       ELSE SetSnap(tick.got, LastPoll, tick.failed, tick.fans)
    /\ tick' = IdleTick
    /\ Unlock
    /\ UNCHANGED <<dev, ramp, settle, op, silent, budget>>

-----------------------------------------------------------------------------
(* An operation: doDeviceOp, doDeviceOpBackground, doDeviceRead (nothing   *)
(* to write), Scheduler.fire and RTCSyncer.syncOnce.                       *)

OpBegin(w, o) ==
    /\ op[w].at = "idle"
    /\ op' = [op EXCEPT ![w].at = "wait", ![w].todo = o]
    /\ Spend(1)
    /\ UNCHANGED <<dev, ramp, snap, settle, udpMu, tick, seen, ramped, silent>>

OpLock(w) ==
    /\ op[w].at = "wait"
    /\ Lock(w)
    /\ op' = [op EXCEPT ![w].at = "dial"]
    /\ UNCHANGED <<dev, ramp, snap, settle, tick, seen, ramped, silent,
                   budget>>

OpDial(w) ==
    /\ op[w].at = "dial"
    /\ op' = [op EXCEPT ![w].at = "open"]
    /\ UNCHANGED <<dev, ramp, snap, settle, udpMu, tick, seen, ramped, silent,
                   budget>>

\* Defect: dial() returns the factory's error with the mutex held.
OpDialFailsLocked(w) ==
    /\ op[w].at = "dial"
    /\ op' = [op EXCEPT ![w] = Idle]
    /\ Spend(1)
    /\ UNCHANGED <<dev, ramp, snap, settle, udpMu, tick, seen, ramped, silent>>

OpDialFails(w) ==
    /\ op[w].at = "dial"
    /\ op' = [op EXCEPT ![w] = Idle]
    /\ Unlock
    /\ Spend(1)
    /\ UNCHANGED <<dev, ramp, snap, settle, tick, seen, ramped, silent>>

\* The device takes a write of ps; its fans ramp if ps asks them to.
Apply(ps) ==
    /\ dev' = [p \in Params |-> IF p \in ps THEN dev[p] + 1 ELSE dev[p]]
    /\ ramp' = IF ps \cap FanWrites # {} THEN Ramp ELSE ramp

\* Defect: udpMu is let go of before the write is recorded.
AckedUnlocked(w) ==
    /\ op[w].at = "open"
    /\ op[w].todo # <<>>
    /\ Apply(Head(op[w].todo))
    /\ op' = [op EXCEPT ![w].at = "acked", ![w].sent = dev']
    /\ Unlock
    /\ UNCHANGED <<snap, settle, tick, seen, ramped, silent, budget>>

\* WriteParams is acknowledged.
Acked(w) ==
    /\ op[w].at = "open"
    /\ op[w].todo # <<>>
    /\ Apply(Head(op[w].todo))
    /\ op' = [op EXCEPT ![w].at = "acked", ![w].sent = dev']
    /\ UNCHANGED <<snap, settle, udpMu, tick, seen, ramped, silent, budget>>

\* It fails and the operation gives up, but the device may have taken it: only
\* the replies were lost.
Unacked(w) ==
    /\ op[w].at = "open"
    /\ op[w].todo # <<>>
    /\ \/ /\ Apply(Head(op[w].todo))
          /\ silent' = (silent \/ Head(op[w].todo) \cap FanWrites # {})
       \/ UNCHANGED <<dev, ramp, silent>>
    /\ op' = [op EXCEPT ![w].at = "close"]
    /\ Spend(1)
    /\ UNCHANGED <<snap, settle, udpMu, tick, seen, ramped>>

\* recordWrite, first half: State.WriteThrough puts the written values in the
\* cache and leaves LastPoll and LastErr.
WriteThrough(w) ==
    /\ op[w].at = "acked"
    /\ SetSnap(Merge(snap.values, Only(Head(op[w].todo), op[w].sent)),
               snap.lastPoll, snap.err, ramped)
    /\ op' = [op EXCEPT ![w].at = "cached"]
    /\ UNCHANGED <<dev, ramp, settle, udpMu, tick, silent, budget>>

\* Defect: only a write of nothing but fan parameters opens the window.
FanWriteOnly(ps) == ps \subseteq FanWrites

FanWrite(ps) == ps \cap FanWrites # {}

\* Defect: each write adds its window to what is left of the last.
NoticeAdds(w) ==
    /\ op[w].at = "cached"
    /\ settle' = IF FanWrite(Head(op[w].todo)) THEN settle + Settle ELSE settle
    /\ op' = [op EXCEPT ![w].at = "open", ![w].todo = Tail(@)]
    /\ UNCHANGED <<dev, ramp, snap, udpMu, tick, seen, ramped, silent, budget>>

\* Second half: NoticeWrite opens, or prolongs, the settle window.
Notice(w) ==
    /\ op[w].at = "cached"
    /\ settle' = IF FanWrite(Head(op[w].todo)) THEN Settle ELSE settle
    /\ op' = [op EXCEPT ![w].at = "open", ![w].todo = Tail(@)]
    /\ UNCHANGED <<dev, ramp, snap, udpMu, tick, seen, ramped, silent, budget>>

\* The client is closed and udpMu let go of, with the writes done or not.
OpEnd(w) ==
    /\ \/ op[w].at = "close"
       \/ op[w].at = "open" /\ op[w].todo = <<>>
    /\ op' = [op EXCEPT ![w] = Idle]
    /\ Unlock
    /\ UNCHANGED <<dev, ramp, snap, settle, tick, seen, ramped, silent,
                   budget>>

-----------------------------------------------------------------------------
(* The device and time.                                                    *)

\* A parameter changes by itself, or from the unit's remote control.
Drift(p) ==
    /\ dev' = [dev EXCEPT ![p] = @ + 1]
    /\ Spend(1)
    /\ UNCHANGED <<ramp, snap, settle, udpMu, tick, op, seen, ramped, silent>>

Less(n) == IF n = 0 THEN 0 ELSE n - 1

\* Time passes.
Pass ==
    /\ ramp > 0 \/ settle > 0
    /\ ramp' = Less(ramp)
    /\ settle' = Less(settle)
    /\ silent' = (silent /\ ramp > 1)
    /\ UNCHANGED <<dev, snap, udpMu, tick, op, seen, ramped, budget>>

PollerStep == TickBegin \/ TickDial \/ TickDialFails \/ ReadBatch \/ TickEnd

OpStep(w) == \/ OpDial(w) \/ OpDialFails(w)
             \/ Acked(w) \/ Unacked(w)
             \/ WriteThrough(w) \/ Notice(w)
             \/ OpEnd(w)

Next == \/ PollerStep \/ TickLock
        \/ \E w \in Workers : \/ OpStep(w) \/ OpLock(w)
                              \/ \E o \in Ops : OpBegin(w, o)
        \/ \E p \in Params : Drift(p)
        \/ Pass

Spec == Init /\ [][Next]_vars

\* The ticker ticks, exchanges end (each has a deadline), time passes, and a
\* goroutine that waits for udpMu gets it: sync.Mutex hands itself to a waiter
\* it has kept for a millisecond.
FairSpec == /\ Spec
            /\ WF_vars(PollerStep) /\ SF_vars(TickLock)
            /\ \A w \in Workers : WF_vars(OpStep(w)) /\ SF_vars(OpLock(w))
            /\ WF_vars(Pass)

-----------------------------------------------------------------------------
(* Properties.                                                             *)

\* The fields hold what their Go types and their uses allow.
TypeOK ==
    /\ dev \in [Params -> Nat]
    /\ ramp \in 0..Ramp
    /\ snap \in Snapshot
    /\ settle \in 0..Settle
    /\ udpMu \in Workers \cup {Poller, None}
    /\ tick \in Tick
    /\ op \in [Workers -> Op]
    /\ seen \in [Params -> Nat]
    /\ ramped \in SUBSET Params
    /\ silent \in BOOLEAN
    /\ budget \in Nat

\* Whoever talks to the device holds udpMu, and only then: no path, failed
\* dials and failed writes included, keeps it, and none lets go of another's.
LockHeld ==
    HasPoller =>
        /\ udpMu = Poller <=> tick.at \in {"dial", "read"}
        /\ \A w \in Workers : udpMu = w <=> op[w].at \notin {"idle", "wait"}

\* A reader of the cache (GET, the dashboard, HomeKit, /metrics) never sees a
\* parameter go back in time or hold a value the device never had, whatever
\* interleaves with a tick that carries the previous values around, and even
\* when a parameter drops out of the cache for some ticks.
Cache == INSTANCE Replica WITH device <- dev, shown <- snap.values
NeverGoesBack == Cache!ReplicaSpec

\* LastPoll vouches for every value shown: none is older than what the device
\* had when the poll that LastPoll is of took udpMu.  The dashboard's stale
\* gate relies on it through any mix of failed dials, failed batches,
\* fallbacks to the previous values and write-throughs.
LastPollHonest ==
    \A p \in Known(snap.values) : snap.values[p] >= snap.lastPoll[p]

\* If fanSettleDuration is as long as the ramp, the settle window outlasts the
\* ramp of every write that has been recorded: the fans can ramp unseen only
\* between an acknowledgement and its notice, and after a write whose replies
\* were lost.
SettleCovers ==
    ramp > settle /\ Ramp <= Settle =>
        \/ silent
        \/ \E w \in Workers : /\ op[w].at \in {"acked", "cached"}
                              /\ Head(op[w].todo) \cap FanWrites # {}

\* Every operation that asks for the device ends, though the poller and the
\* others want it too and every dial may fail.
OpsFinish == \A w \in Workers : op[w].at = "wait" ~> op[w].at = "idle"

\* When the device is left alone and answers, the cache comes to show it: all
\* that is polled, with the values it has, and stays so.
Converges ==
    <>[](\A i \in DOMAIN ReadIDs :
            snap.values[ReadIDs[i]] = dev[ReadIDs[i]])

\* What fanSettleDuration is for: no reading taken while the fans ramp is
\* recorded.
NoRampRecorded == ramped = {}

\* "If a batch fails or the dial fails, reuse the prior Snapshot's Values": a
\* failed tick hides no parameter.
KnownKept ==
    [][snap' # snap /\ snap'.err =>
            Known(snap.values) \subseteq Known(snap'.values)]_vars

\* "The cache mirrors the device": a recorded write is not overwritten by an
\* older one.
WritesInOrder ==
    [][\A p \in Known(snap.values) \cap Known(snap'.values) :
            snap'.values[p] >= snap.values[p]]_vars
=============================================================================
