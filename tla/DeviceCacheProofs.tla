------------------------- MODULE DeviceCacheProofs -------------------------
(***************************************************************************)
(* Proofs about DeviceCache, for every set of parameters, batch size,      *)
(* settle window, set of operations and number of goroutines.              *)
(***************************************************************************)
EXTENDS DeviceCache, TLAPS

\* A write that is being recorded is still in the list.
OpShape == /\ op \in [Workers -> Op]
           /\ \A w \in Workers :
                 op[w].at \in {"acked", "cached"} => op[w].todo # <<>>

\* TypeOK, but for what the cache's promises do not depend on.
Shape == /\ dev \in [Params -> Nat]
         /\ snap \in Snapshot
         /\ udpMu \in Workers \cup {Poller, None}
         /\ tick \in Tick
         /\ OpShape
         /\ seen \in [Params -> Nat]

LEMMA MergeType ==
    ASSUME NEW f \in Values, NEW g \in Values
    PROVE  Merge(f, g) \in Values
  BY DEF Merge, Values

LEMMA OnlyType ==
    ASSUME NEW ps, NEW f \in [Params -> Nat]
    PROVE  Only(ps, f) \in Values
  BY DEF Only, Values

LEMMA SetSnapType ==
    ASSUME Shape, NEW values \in Values, NEW lastPoll \in [Params -> Nat],
           NEW err \in BOOLEAN, NEW fans, SetSnap(values, lastPoll, err, fans)
    PROVE  snap' \in Snapshot /\ seen' \in [Params -> Nat]
  <1>1. snap' \in Snapshot
    BY DEF SetSnap, Snapshot
  <1>2. seen' \in [Params -> Nat]
    BY DEF SetSnap, Merge, Values, Shape
  <1> QED
    BY <1>1, <1>2

LEMMA InitShape == Init => Shape
  <1> SUFFICES ASSUME Init PROVE Shape
    OBVIOUS
  <1>1. Zero \in [Params -> Nat] /\ NoValues \in Values
    BY DEF Zero, NoValues, Values
  <1>2. ZeroSnapshot \in Snapshot
    BY <1>1 DEF ZeroSnapshot, Snapshot
  <1>3. IdleTick \in Tick
    BY <1>1, <1>2 DEF IdleTick, Tick
  <1>4. Idle \in Op
    BY <1>1 DEF Idle, Op
  <1> QED
    BY <1>1, <1>2, <1>3, <1>4 DEF Init, Shape, Tick, OpShape, Idle

LEMMA TickShapeStep ==
    ASSUME Shape, PollerStep \/ TickLock
    PROVE  Shape'
  <1>1. Zero \in [Params -> Nat] /\ NoValues \in Values
    BY DEF Zero, NoValues, Values
  <1>2. ZeroSnapshot \in Snapshot
    BY <1>1 DEF ZeroSnapshot, Snapshot
  <1>3. ASSUME tick' = IdleTick
        PROVE  tick' \in Tick
    BY <1>1, <1>2, <1>3 DEF IdleTick, Tick
  <1>4. /\ tick.prev.values \in Values
        /\ tick.prev.lastPoll \in [Params -> Nat]
    BY DEF Shape, Tick, Snapshot
  <1>a. CASE TickBegin
    <2>1. ThisTick \subseteq DOMAIN ReadIDs
      BY DEF ThisTick
    <2> QED
      BY <1>a, <2>1 DEF TickBegin, Shape, Tick, OpShape
  <1>b. CASE TickLock
    BY <1>b DEF TickLock, Lock, Shape, Tick, OpShape
  <1>c. CASE TickDial
    BY <1>c DEF TickDial, Shape, Tick, OpShape
  <1>d. CASE TickDialFails
    <2>1. snap' \in Snapshot /\ seen' \in [Params -> Nat]
      BY <1>d, <1>4, SetSnapType DEF TickDialFails
    <2> QED
      BY <1>d, <1>3, <2>1 DEF TickDialFails, Unlock, Shape, OpShape
  <1>e. CASE ReadBatch
    <2>1. Merge(tick.got, Only(Batch, dev)) \in Values
      BY MergeType, OnlyType DEF Shape, Tick, OpShape
    <2>2. Rest \subseteq DOMAIN ReadIDs
      BY DEF Rest, Shape, Tick
    <2>3. Batch \cap FanReads \subseteq Params
      BY DeviceCacheAssumption
    <2>4. tick \in Tick /\ tick.fans \cup (Batch \cap FanReads) \subseteq Params
      BY <2>3 DEF Shape, Tick
    <2>5. \/ tick' = [tick EXCEPT !.ids = Rest,
                                 !.got = Merge(@, Only(Batch, dev)),
                                 !.fans = @ \cup (Batch \cap FanReads)]
          \/ tick' = [tick EXCEPT !.ids = Rest,
                                 !.got = Merge(@, Only(Batch, dev))]
          \/ tick' = [tick EXCEPT !.ids = Rest, !.failed = TRUE]
      BY <1>e, <2>4 DEF ReadBatch, Tick
    <2>6. tick' \in Tick
      BY <2>1, <2>2, <2>4, <2>5 DEF Tick
    <2> QED
      BY <1>e, <2>6 DEF ReadBatch, Shape, OpShape
  <1>f. CASE TickEnd
    <2>1. LastPoll \in [Params -> Nat] /\ tick.got \in Values
          /\ tick.failed \in BOOLEAN
      BY <1>4 DEF LastPoll, Shape, Tick, OpShape
    <2>2. snap' \in Snapshot /\ seen' \in [Params -> Nat]
      BY <1>f, <1>4, <2>1, SetSnapType DEF TickEnd
    <2> QED
      BY <1>f, <1>3, <2>2 DEF TickEnd, Unlock, Shape, OpShape
  <1> QED
    BY <1>a, <1>b, <1>c, <1>d, <1>e, <1>f DEF PollerStep

LEMMA OpShapeStep ==
    ASSUME Shape, NEW w \in Workers,
           OpStep(w) \/ OpLock(w) \/ \E o \in Ops : OpBegin(w, o)
    PROVE  Shape'
  <1>1. /\ op[w] \in Op
        /\ op[w].todo \in Seq(SUBSET Params)
        /\ op[w].sent \in [Params -> Nat]
    BY DEF Shape, OpShape, Op
  <1>2. Idle \in Op
    BY DEF Idle, Op, Zero
  <1>3. ASSUME op' = [op EXCEPT ![w] = Idle]
        PROVE  OpShape'
    BY <1>2, <1>3 DEF Shape, OpShape, Idle
  <1>a. CASE \E o \in Ops : OpBegin(w, o)
    <2>1. PICK o \in Ops : OpBegin(w, o)
      BY <1>a
    <2>2. o \in Seq(SUBSET Params)
      BY DeviceCacheAssumption
    <2>3. OpShape'
      BY <1>1, <2>1, <2>2 DEF OpBegin, Shape, OpShape, Op
    <2> QED
      BY <2>1, <2>3 DEF OpBegin, Shape, Tick, OpShape
  <1>b. CASE OpLock(w)
    <2>1. OpShape'
      BY <1>1, <1>b DEF OpLock, Shape, OpShape, Op
    <2> QED
      BY <1>b, <2>1 DEF OpLock, Lock, Shape, Tick, OpShape
  <1>c. CASE OpDial(w)
    <2>1. OpShape'
      BY <1>1, <1>c DEF OpDial, Shape, OpShape, Op
    <2> QED
      BY <1>c, <2>1 DEF OpDial, Shape, Tick, OpShape
  <1>d. CASE OpDialFails(w)
    <2>1. OpShape'
      BY <1>3, <1>d DEF OpDialFails
    <2> QED
      BY <1>d, <2>1 DEF OpDialFails, Unlock, Shape, Tick, OpShape
  <1>e. ASSUME NEW ps, Apply(ps)
        PROVE  dev' \in [Params -> Nat]
    BY <1>e DEF Apply, Shape
  <1>f. CASE Acked(w)
    <2>1. dev' \in [Params -> Nat]
      BY <1>e, <1>f DEF Acked
    <2>2. OpShape'
      BY <1>1, <1>f, <2>1 DEF Acked, Shape, OpShape, Op
    <2> QED
      BY <1>f, <2>1, <2>2 DEF Acked, Shape, Tick, OpShape
  <1>g. CASE Unacked(w)
    <2>1. dev' \in [Params -> Nat]
      BY <1>e, <1>g DEF Unacked, Shape
    <2>2. OpShape'
      BY <1>1, <1>g DEF Unacked, Shape, OpShape, Op
    <2> QED
      BY <1>g, <2>1, <2>2 DEF Unacked, Shape, Tick, OpShape
  <1>h. CASE WriteThrough(w)
    <2>1. /\ snap.values \in Values
          /\ snap.lastPoll \in [Params -> Nat]
          /\ snap.err \in BOOLEAN
      BY DEF Shape, Snapshot
    <2>2. Merge(snap.values, Only(Head(op[w].todo), op[w].sent)) \in Values
      BY <1>1, <2>1, MergeType, OnlyType
    <2>3. snap' \in Snapshot /\ seen' \in [Params -> Nat]
      BY <1>h, <2>1, <2>2, SetSnapType DEF WriteThrough
    <2>4. OpShape'
      BY <1>1, <1>h DEF WriteThrough, Shape, OpShape, Op
    <2> QED
      BY <1>h, <2>3, <2>4 DEF WriteThrough, Shape, Tick, OpShape
  <1>i. CASE Notice(w)
    <2>1. op[w].todo # <<>>
      BY <1>i DEF Notice, Shape, OpShape
    <2>2. Tail(op[w].todo) \in Seq(SUBSET Params)
      BY <1>1, <2>1
    <2>3. OpShape'
      BY <1>1, <1>i, <2>2 DEF Notice, Shape, OpShape, Op
    <2> QED
      BY <1>i, <2>3 DEF Notice, Shape, Tick, OpShape
  <1>j. CASE OpEnd(w)
    <2>1. OpShape'
      BY <1>3, <1>j DEF OpEnd
    <2> QED
      BY <1>j, <2>1 DEF OpEnd, Unlock, Shape, Tick, OpShape
  <1> QED
    BY <1>a, <1>b, <1>c, <1>d, <1>f, <1>g, <1>h, <1>i, <1>j DEF OpStep

LEMMA ShapeStep == Shape /\ [Next]_vars => Shape'
  <1> SUFFICES ASSUME Shape, [Next]_vars PROVE Shape'
    OBVIOUS
  <1>1. CASE PollerStep \/ TickLock
    BY <1>1, TickShapeStep
  <1>2. CASE \E w \in Workers : \/ OpStep(w) \/ OpLock(w)
                                \/ \E o \in Ops : OpBegin(w, o)
    BY <1>2, OpShapeStep
  <1>3. CASE \E p \in Params : Drift(p)
    BY <1>3 DEF Drift, Shape, Tick, OpShape
  <1>4. CASE Pass
    BY <1>4 DEF Pass, Shape, Tick, OpShape
  <1>5. CASE UNCHANGED vars
    BY <1>5 DEF vars, Shape, Tick, OpShape
  <1> QED
    BY <1>1, <1>2, <1>3, <1>4, <1>5 DEF Next

(***************************************************************************)
(* Types.                                                                  *)
(***************************************************************************)

\* The two countdowns, what was read while the fans ramped, and the bound.
Counts == /\ ramp \in 0..Ramp
          /\ settle \in 0..Settle
          /\ ramped \in SUBSET Params
          /\ silent \in BOOLEAN
          /\ budget \in Nat

LEMMA SpendType ==
    ASSUME budget \in Nat, NEW n \in Nat, Spend(n)
    PROVE  budget' \in Nat
  BY DEF Spend

LEMMA ApplyType ==
    ASSUME ramp \in 0..Ramp, NEW ps, Apply(ps)
    PROVE  ramp' \in 0..Ramp
  BY DeviceCacheAssumption DEF Apply

LEMMA PollerCounts ==
    ASSUME Shape, Counts, PollerStep \/ TickLock
    PROVE  Counts'
  <1>1. tick.fans \in SUBSET Params
    BY DEF Shape, Tick
  <1>a. CASE TickBegin
    BY <1>a DEF TickBegin, Counts
  <1>b. CASE TickLock
    BY <1>b DEF TickLock, Counts
  <1>c. CASE TickDial
    BY <1>c DEF TickDial, Counts
  <1>d. CASE TickDialFails
    BY <1>d, SpendType DEF TickDialFails, SetSnap, Counts
  <1>e. CASE ReadBatch
    BY <1>e, SpendType DEF ReadBatch, Counts
  <1>f. CASE TickEnd
    BY <1>1, <1>f DEF TickEnd, SetSnap, Counts
  <1> QED
    BY <1>a, <1>b, <1>c, <1>d, <1>e, <1>f DEF PollerStep

LEMMA OpCounts ==
    ASSUME Shape, Counts, NEW w \in Workers,
           OpStep(w) \/ OpLock(w) \/ \E o \in Ops : OpBegin(w, o)
    PROVE  Counts'
  <1>a. CASE \E o \in Ops : OpBegin(w, o)
    BY <1>a, SpendType DEF OpBegin, Counts
  <1>b. CASE OpLock(w)
    BY <1>b DEF OpLock, Counts
  <1>c. CASE OpDial(w)
    BY <1>c DEF OpDial, Counts
  <1>d. CASE OpDialFails(w)
    BY <1>d, SpendType DEF OpDialFails, Counts
  <1>e. CASE Acked(w)
    BY <1>e, ApplyType DEF Acked, Counts
  <1>f. CASE Unacked(w)
    BY <1>f, ApplyType, SpendType DEF Unacked, Counts
  <1>g. CASE WriteThrough(w)
    BY <1>g DEF WriteThrough, SetSnap, Counts
  <1>h. CASE Notice(w)
    BY <1>h, DeviceCacheAssumption DEF Notice, Counts
  <1>i. CASE OpEnd(w)
    BY <1>i DEF OpEnd, Counts
  <1> QED
    BY <1>a, <1>b, <1>c, <1>d, <1>e, <1>f, <1>g, <1>h, <1>i DEF OpStep

LEMMA CountsStep == Shape /\ Counts /\ [Next]_vars => Counts'
  <1> SUFFICES ASSUME Shape, Counts, [Next]_vars PROVE Counts'
    OBVIOUS
  <1>1. CASE PollerStep \/ TickLock
    BY <1>1, PollerCounts
  <1>2. CASE \E w \in Workers : \/ OpStep(w) \/ OpLock(w)
                                \/ \E o \in Ops : OpBegin(w, o)
    BY <1>2, OpCounts
  <1>3. CASE \E p \in Params : Drift(p)
    BY <1>3, SpendType DEF Drift, Counts
  <1>4. CASE Pass
    BY <1>4, DeviceCacheAssumption DEF Pass, Less, Counts
  <1>5. CASE UNCHANGED vars
    BY <1>5 DEF vars, Counts
  <1> QED
    BY <1>1, <1>2, <1>3, <1>4, <1>5 DEF Next

\* The settle window is never longer than fanSettleDuration, however many
\* writes open it; a tick asks for parameters of its list, in whatever batches;
\* and what is cached, sent or vouched for is a value of the device.
THEOREM CacheTypeCorrect == Spec => []TypeOK
  <1>1. Init => Shape /\ Counts
    <2>1. 0 \in 0..Ramp /\ 0 \in 0..Settle /\ Budget \in Nat
      BY DeviceCacheAssumption
    <2>2. Init => Counts
      BY <2>1 DEF Init, Counts
    <2> QED
      BY <2>2, InitShape
  <1>2. Shape /\ Counts /\ [Next]_vars => Shape' /\ Counts'
    BY ShapeStep, CountsStep
  <1>3. Shape /\ Counts => TypeOK
    BY DEF Shape, OpShape, Counts, TypeOK
  <1> QED
    BY <1>1, <1>2, <1>3, PTL DEF Spec

(***************************************************************************)
(* The lock.                                                               *)
(***************************************************************************)

LEMMA InitLock == Init => LockHeld
  BY DeviceCacheAssumption DEF Init, LockHeld, IdleTick, Idle

\* The poller takes udpMu from nobody, and lets go of its own.
LEMMA TickLockHeld ==
    ASSUME Shape, LockHeld, HasPoller, PollerStep \/ TickLock
    PROVE  LockHeld'
  <1>1. tick \in Tick /\ Poller \notin Workers /\ None # Poller
        /\ None \notin Workers
    BY DeviceCacheAssumption DEF Shape
  <1>a. CASE TickBegin
    BY <1>1, <1>a DEF TickBegin, LockHeld, Tick
  <1>b. CASE TickLock
    BY <1>1, <1>b DEF TickLock, Lock, Free, LockHeld, Tick
  <1>c. CASE TickDial
    BY <1>1, <1>c DEF TickDial, LockHeld, Tick
  <1>d. CASE TickDialFails
    BY <1>1, <1>d DEF TickDialFails, Unlock, LockHeld, IdleTick
  <1>e. CASE ReadBatch
    BY <1>1, <1>e DEF ReadBatch, LockHeld, Tick
  <1>f. CASE TickEnd
    BY <1>1, <1>f DEF TickEnd, Unlock, LockHeld, IdleTick
  <1> QED
    BY <1>a, <1>b, <1>c, <1>d, <1>e, <1>f DEF PollerStep

\* So does an operation.
LEMMA OpLockHeld ==
    ASSUME Shape, LockHeld, HasPoller, NEW w \in Workers,
           OpStep(w) \/ OpLock(w) \/ \E o \in Ops : OpBegin(w, o)
    PROVE  LockHeld'
  <1>1. /\ op \in [Workers -> Op]
        /\ Poller \notin Workers
        /\ None # Poller /\ None \notin Workers
    BY DeviceCacheAssumption DEF Shape, OpShape
  \* A step within the operation, or one of its two ends.
  <1>2. ASSUME op[w].at \notin {"idle", "wait"},
               op'[w].at \notin {"idle", "wait"},
               \A v \in Workers \ {w} : op'[v] = op[v],
               UNCHANGED <<tick, udpMu>>
        PROVE  LockHeld'
    BY <1>2 DEF LockHeld
  <1>3. ASSUME op[w].at \notin {"idle", "wait"}, op' = [op EXCEPT ![w] = Idle],
               Unlock, UNCHANGED tick
        PROVE  LockHeld'
    BY <1>1, <1>3 DEF LockHeld, Unlock, Idle
  <1>a. CASE \E o \in Ops : OpBegin(w, o)
    <2>1. /\ op[w].at = "idle" /\ op'[w].at = "wait"
          /\ \A v \in Workers \ {w} : op'[v] = op[v]
      BY <1>1, <1>a DEF OpBegin, Op
    <2>2. UNCHANGED <<tick, udpMu>>
      BY <1>a DEF OpBegin
    <2> QED
      BY <2>1, <2>2 DEF LockHeld
  <1>b. CASE OpLock(w)
    BY <1>1, <1>b DEF OpLock, Lock, Free, LockHeld, Op
  <1>c. CASE OpDial(w)
    BY <1>1, <1>2, <1>c DEF OpDial, Op
  <1>d. CASE OpDialFails(w)
    BY <1>3, <1>d DEF OpDialFails
  <1>e. CASE Acked(w)
    BY <1>1, <1>2, <1>e DEF Acked, Op
  <1>f. CASE Unacked(w)
    BY <1>1, <1>2, <1>f DEF Unacked, Op
  <1>g. CASE WriteThrough(w)
    BY <1>1, <1>2, <1>g DEF WriteThrough, Op
  <1>h. CASE Notice(w)
    BY <1>1, <1>2, <1>h DEF Notice, Op
  <1>i. CASE OpEnd(w)
    BY <1>3, <1>i DEF OpEnd
  <1> QED
    BY <1>a, <1>b, <1>c, <1>d, <1>e, <1>f, <1>g, <1>h, <1>i DEF OpStep

LEMMA LockHeldStep == Shape /\ LockHeld /\ [Next]_vars => LockHeld'
  <1> SUFFICES ASSUME Shape, LockHeld, HasPoller, [Next]_vars PROVE LockHeld'
    BY DEF LockHeld
  <1>1. CASE PollerStep \/ TickLock
    BY <1>1, TickLockHeld
  <1>2. CASE \E w \in Workers : \/ OpStep(w) \/ OpLock(w)
                                \/ \E o \in Ops : OpBegin(w, o)
    BY <1>2, OpLockHeld
  <1>3. CASE UNCHANGED <<udpMu, tick, op>>
    BY <1>3 DEF LockHeld
  <1> QED
    BY <1>1, <1>2, <1>3 DEF Next, Drift, Pass, vars

\* The mutex of a device with a poller is held by whoever talks to the device,
\* and by nobody else: LockUDP and every early return after it.
THEOREM OneAtTheDevice == Spec => []LockHeld
  <1>1. Init => Shape /\ LockHeld
    BY InitShape, InitLock
  <1>2. Shape /\ LockHeld /\ [Next]_vars => Shape' /\ LockHeld'
    BY ShapeStep, LockHeldStep
  <1> QED
    BY <1>1, <1>2, PTL DEF Spec

(***************************************************************************)
(* The cache.  Whoever will write it next holds values that lie between    *)
(* what is shown and what the device has, and that are no older than what  *)
(* LastPoll vouches for.                                                   *)
(***************************************************************************)

\* A value that may be shown next.
Showable(p, v) == /\ seen[p] <= v
                  /\ v <= dev[p]
                  /\ snap.lastPoll[p] <= v

\* The cache shows the newest values it ever showed, all of them past.
ShownNewest == \A p \in Params : /\ snap.values[p] \in {None, seen[p]}
                                 /\ seen[p] <= dev[p]
                                 /\ snap.lastPoll[p] <= dev[p]

\* A tick carries the snapshot of the moment it took udpMu.
TickCopy == tick.at \in {"dial", "read"} =>
                /\ tick.prev = snap
                /\ \A p \in Params : tick.began[p] <= dev[p]

TickGot == \A p \in Params : tick.got[p] # None =>
                /\ tick.at = "read"
                /\ Showable(p, tick.got[p])
                /\ tick.began[p] <= tick.got[p]

OpSent == \A w \in Workers : op[w].at = "acked" =>
                \A p \in Params : Showable(p, op[w].sent[p])

CacheInv == /\ Shape
            /\ LockHeld
            /\ ShownNewest
            /\ LastPollHonest
            /\ TickCopy
            /\ TickGot
            /\ OpSent

LEMMA InitCache == Init => CacheInv
  <1> SUFFICES ASSUME Init PROVE CacheInv
    OBVIOUS
  <1>1. Shape /\ LockHeld
    BY InitShape, InitLock
  <1>2. ShownNewest /\ LastPollHonest
    BY DeviceCacheAssumption
       DEF Init, ShownNewest, LastPollHonest, Known, ZeroSnapshot, NoValues,
           Zero
  <1>3. TickCopy /\ TickGot /\ OpSent
    BY DEF Init, TickCopy, TickGot, OpSent, IdleTick, Idle, NoValues
  <1> QED
    BY <1>1, <1>2, <1>3 DEF CacheInv

\* The types the arithmetic below needs.
LEMMA CacheTypes ==
    ASSUME Shape
    PROVE  /\ dev \in [Params -> Nat] /\ seen \in [Params -> Nat]
           /\ snap \in Snapshot
           /\ snap.values \in Values
           /\ snap.lastPoll \in [Params -> Nat]
           /\ tick \in Tick
           /\ tick.got \in Values
           /\ tick.began \in [Params -> Nat]
           /\ tick.failed \in BOOLEAN
           /\ op \in [Workers -> Op]
           /\ \A w \in Workers : op[w].sent \in [Params -> Nat]
           /\ None \notin Nat
  BY DeviceCacheAssumption DEF Shape, OpShape, Tick, Snapshot, Op

\* Showing values that may be shown keeps ShownNewest.
LEMMA Shown ==
    ASSUME Shape, ShownNewest, NEW values \in Values,
           NEW lastPoll \in [Params -> Nat], NEW err \in BOOLEAN, NEW fans,
           SetSnap(values, lastPoll, err, fans), UNCHANGED dev,
           \A p \in Params : lastPoll[p] <= dev[p],
           \A p \in Params : values[p] # None =>
                seen[p] <= values[p] /\ values[p] <= dev[p]
                    /\ lastPoll[p] <= values[p]
    PROVE  /\ ShownNewest' /\ LastPollHonest'
           /\ Cache!Refresh
  <1>1. /\ snap' = [values |-> values, lastPoll |-> lastPoll, err |-> err]
        /\ seen' = Merge(seen, values)
        /\ dev' = dev
    BY DEF SetSnap
  <1>2. /\ snap'.values = values
        /\ snap'.lastPoll = lastPoll
    BY <1>1
  <1>3. \A p \in Params :
            seen'[p] = IF values[p] = None THEN seen[p] ELSE values[p]
    BY <1>1 DEF Merge
  <1>4. ShownNewest'
    BY <1>1, <1>2, <1>3, CacheTypes DEF ShownNewest
  <1>5. LastPollHonest'
    BY <1>1, <1>2, CacheTypes DEF LastPollHonest, Known
  <1>6. \A p \in Params : values[p] \in {None} \cup (seen[p]..dev[p])
    BY CacheTypes DEF Values
  <1>7. seen' = [p \in Params |-> IF values[p] = None THEN seen[p]
                                                     ELSE values[p]]
    BY <1>1 DEF Merge
  <1> QED
    BY <1>1, <1>2, <1>4, <1>5, <1>6, <1>7 DEF Cache!Refresh

\* A step that leaves the cache alone, and the device newer or alone.
Apart == /\ UNCHANGED <<snap, seen>>
         /\ \A p \in Params : dev[p] <= dev'[p]

\* Such a step breaks nothing by itself; it is a step of Replica.
LEMMA ApartKeeps ==
    ASSUME CacheInv, Shape', Apart
    PROVE  /\ ShownNewest' /\ LastPollHonest'
           /\ \A p \in Params, v \in Nat : Showable(p, v) => Showable(p, v)'
           /\ UNCHANGED tick => TickCopy' /\ TickGot'
           /\ UNCHANGED op => OpSent'
           /\ Cache!Change
  <1>1. /\ dev \in [Params -> Nat] /\ dev' \in [Params -> Nat]
        /\ seen \in [Params -> Nat]
        /\ snap.lastPoll \in [Params -> Nat]
        /\ tick.got \in Values
        /\ tick.began \in [Params -> Nat]
        /\ \A w \in Workers : op[w].sent \in [Params -> Nat]
    BY CacheTypes DEF CacheInv, Shape
  <1>2. snap' = snap /\ seen' = seen /\ \A p \in Params : dev[p] <= dev'[p]
    BY DEF Apart
  <1>3. ShownNewest'
    BY <1>1, <1>2 DEF CacheInv, ShownNewest
  <1>4. LastPollHonest'
    BY <1>2 DEF CacheInv, LastPollHonest, Known
  <1>5. \A p \in Params, v \in Nat : Showable(p, v) => Showable(p, v)'
    BY <1>1, <1>2 DEF Showable
  <1>6. ASSUME UNCHANGED tick
        PROVE  TickCopy' /\ TickGot'
    <2>1. TickCopy'
      BY <1>1, <1>2, <1>6 DEF CacheInv, TickCopy
    <2>2. \A p \in Params : tick.got[p] # None => tick.got[p] \in Nat
      BY <1>1 DEF Values
    <2>3. TickGot'
      BY <1>5, <1>6, <2>2 DEF CacheInv, TickGot
    <2> QED
      BY <2>1, <2>3
  <1>7. ASSUME UNCHANGED op
        PROVE  OpSent'
    BY <1>1, <1>5, <1>7 DEF CacheInv, OpSent
  <1>8. Cache!Change
    BY <1>2 DEF Cache!Change
  <1> QED
    BY <1>3, <1>4, <1>5, <1>6, <1>7, <1>8

\* The poller's steps.
LEMMA TickKeepsCache ==
    ASSUME CacheInv, Shape', HasPoller, PollerStep \/ TickLock
    PROVE  /\ ShownNewest' /\ LastPollHonest' /\ TickCopy' /\ TickGot'
           /\ OpSent'
           /\ Cache!Change \/ Cache!Refresh
  <1>1. /\ dev \in [Params -> Nat] /\ seen \in [Params -> Nat]
        /\ snap \in Snapshot /\ snap.values \in Values
        /\ snap.lastPoll \in [Params -> Nat]
        /\ tick \in Tick /\ tick.got \in Values
        /\ tick.began \in [Params -> Nat] /\ tick.failed \in BOOLEAN
        /\ None \notin Nat
    BY CacheTypes DEF CacheInv
  \* While the poller holds udpMu no operation has a write to record.
  <1>2. ASSUME tick.at \in {"dial", "read"}
        PROVE  \A w \in Workers : op[w].at # "acked"
    BY <1>2, DeviceCacheAssumption DEF CacheInv, LockHeld
  \* When a tick ends, what it carried is gone.
  <1>3. ASSUME tick' = IdleTick
        PROVE  TickCopy' /\ TickGot'
    BY <1>3 DEF IdleTick, TickCopy, TickGot, NoValues
  <1>4. ASSUME UNCHANGED <<dev, snap, seen, op>>
        PROVE  Apart /\ ShownNewest' /\ LastPollHonest' /\ OpSent'
               /\ Cache!Change
    <2>1. Apart
      BY <1>1, <1>4 DEF Apart
    <2> QED
      BY <1>4, <2>1, ApartKeeps
  <1>5. ASSUME UNCHANGED <<snap, seen, dev>>
        PROVE  \A p, v : Showable(p, v)' <=> Showable(p, v)
    BY <1>5 DEF Showable
  <1>a. CASE TickBegin
    <2>1. tick'.at = "wait" /\ tick'.got = tick.got
      BY <1>1, <1>a DEF TickBegin, Tick
    <2>2. \A p \in Params : tick.got[p] = None
      BY <1>a DEF TickBegin, CacheInv, TickGot
    <2>3. TickCopy' /\ TickGot'
      BY <2>1, <2>2 DEF TickCopy, TickGot
    <2> QED
      BY <1>4, <1>a, <2>3 DEF TickBegin
  <1>b. CASE TickLock
    <2>1. /\ tick'.got = tick.got
          /\ tick'.prev = snap /\ tick'.began = dev
      BY <1>1, <1>b DEF TickLock, Tick
    <2>2. \A p \in Params : tick.got[p] = None
      BY <1>b DEF TickLock, CacheInv, TickGot
    <2>3. dev' = dev /\ snap' = snap
      BY <1>b DEF TickLock
    <2>4. TickCopy'
      BY <1>1, <2>1, <2>3 DEF TickCopy
    <2>5. TickGot'
      BY <2>1, <2>2 DEF TickGot
    <2> QED
      BY <1>4, <1>b, <2>4, <2>5 DEF TickLock
  <1>c. CASE TickDial
    <2>1. /\ tick.at = "dial" /\ tick'.got = tick.got
          /\ tick'.prev = tick.prev /\ tick'.began = tick.began
          /\ dev' = dev /\ snap' = snap
      BY <1>1, <1>c DEF TickDial, Tick
    <2>2. \A p \in Params : tick.got[p] = None
      BY <2>1 DEF CacheInv, TickGot
    <2>3. TickCopy' /\ TickGot'
      BY <2>1, <2>2 DEF CacheInv, TickCopy, TickGot
    <2> QED
      BY <1>4, <1>c, <2>3 DEF TickDial
  <1>d. CASE TickDialFails
    <2>1. tick.at = "dial" /\ tick.prev = snap /\ UNCHANGED <<dev, op>>
          /\ tick' = IdleTick
      BY <1>d DEF TickDialFails, CacheInv, TickCopy
    <2>2. SetSnap(snap.values, snap.lastPoll, TRUE, ramped)
      BY <1>d, <2>1 DEF TickDialFails
    <2>3. \A p \in Params : snap.values[p] # None =>
              seen[p] <= snap.values[p] /\ snap.values[p] <= dev[p]
                  /\ snap.lastPoll[p] <= snap.values[p]
      BY <1>1 DEF CacheInv, ShownNewest, LastPollHonest, Known
    <2>4. \A p \in Params : snap.lastPoll[p] <= dev[p]
      BY DEF CacheInv, ShownNewest
    <2>5. ShownNewest' /\ LastPollHonest' /\ Cache!Refresh
      BY <1>1, <2>1, <2>2, <2>3, <2>4, Shown DEF CacheInv
    <2>6. OpSent'
      BY <1>2, <2>1 DEF OpSent
    <2> QED
      BY <1>3, <2>1, <2>5, <2>6
  <1>e. CASE ReadBatch
    <2>1. /\ tick.at = "read" /\ tick'.at = "read"
          /\ tick'.prev = tick.prev /\ tick'.began = tick.began
          /\ tick'.got \in {tick.got, Merge(tick.got, Only(Batch, dev))}
          /\ UNCHANGED <<dev, snap, seen, op>>
      BY <1>1, <1>e DEF ReadBatch, Tick
    <2>2. TickCopy'
      BY <2>1 DEF CacheInv, TickCopy
    \* Whatever is read is the device's present value.
    <2>3. ASSUME NEW p \in Params
          PROVE  tick'.got[p] \in {tick.got[p], dev[p]}
      BY <2>1 DEF Merge, Only
    <2>4. ASSUME NEW p \in Params
          PROVE  Showable(p, dev[p]) /\ tick.began[p] <= dev[p]
      BY <1>1, <2>1 DEF CacheInv, ShownNewest, TickCopy, Showable
    <2>5. TickGot'
      BY <1>5, <2>1, <2>3, <2>4 DEF CacheInv, TickGot
    <2> QED
      BY <1>4, <2>1, <2>2, <2>5
  <1>f. CASE TickEnd
    <2>1. /\ tick.at = "read" /\ tick.prev = snap /\ tick' = IdleTick
          /\ UNCHANGED <<dev, op>>
      BY <1>f DEF TickEnd, CacheInv, TickCopy
    <2>2. /\ LastPoll \in [Params -> Nat]
          /\ \A p \in Params : LastPoll[p] <= dev[p]
          /\ tick.failed => LastPoll = snap.lastPoll
      BY <1>1, <2>1 DEF CacheInv, ShownNewest, TickCopy, LastPoll
    <2>3. ShownNewest' /\ LastPollHonest' /\ Cache!Refresh
      <3>1. CASE tick.failed /\ SetSnap(snap.values, LastPoll, TRUE, ramped)
        <4>1. \A p \in Params : snap.values[p] # None =>
                  seen[p] <= snap.values[p] /\ snap.values[p] <= dev[p]
                      /\ LastPoll[p] <= snap.values[p]
          BY <1>1, <2>2, <3>1
             DEF CacheInv, ShownNewest, LastPollHonest, Known
        <4> QED
          BY <1>1, <2>1, <2>2, <3>1, <4>1, Shown DEF CacheInv
      <3>2. CASE SetSnap(tick.got, LastPoll, tick.failed, tick.fans)
        <4>1. \A p \in Params : tick.got[p] # None =>
                  seen[p] <= tick.got[p] /\ tick.got[p] <= dev[p]
                      /\ LastPoll[p] <= tick.got[p]
          BY <2>2 DEF CacheInv, TickGot, Showable, LastPoll
        <4> QED
          BY <1>1, <2>1, <2>2, <3>2, <4>1, Shown DEF CacheInv
      <3> QED
        BY <1>f, <2>1, <3>1, <3>2 DEF TickEnd
    <2>4. OpSent'
      BY <1>2, <2>1 DEF OpSent
    <2> QED
      BY <1>3, <2>1, <2>3, <2>4
  <1> QED
    BY <1>a, <1>b, <1>c, <1>d, <1>e, <1>f DEF PollerStep

\* A write makes the device's values newer.
LEMMA ApplyGrows ==
    ASSUME Shape, NEW ps, Apply(ps)
    PROVE  \A p \in Params : dev[p] <= dev'[p]
  BY DEF Apply, Shape

\* The steps of an operation.
LEMMA OpKeepsCache ==
    ASSUME CacheInv, Shape', HasPoller, NEW w \in Workers,
           OpStep(w) \/ OpLock(w) \/ \E o \in Ops : OpBegin(w, o)
    PROVE  /\ ShownNewest' /\ LastPollHonest' /\ TickCopy' /\ TickGot'
           /\ OpSent'
           /\ Cache!Change \/ Cache!Refresh
  <1>1. /\ dev \in [Params -> Nat] /\ seen \in [Params -> Nat]
        /\ snap \in Snapshot /\ snap.values \in Values
        /\ snap.lastPoll \in [Params -> Nat]
        /\ tick \in Tick
        /\ op \in [Workers -> Op]
        /\ op[w].sent \in [Params -> Nat]
    BY CacheTypes DEF CacheInv
  <1>2. Shape
    BY DEF CacheInv
  \* All steps but an acknowledgement and its record.
  <1>3. ASSUME UNCHANGED <<snap, seen, tick>>,
               \A p \in Params : dev[p] <= dev'[p],
               op'[w].at # "acked",
               \A v \in Workers \ {w} : op'[v] = op[v]
        PROVE  /\ ShownNewest' /\ LastPollHonest' /\ TickCopy' /\ TickGot'
               /\ OpSent' /\ Cache!Change
    <2>1. Apart
      BY <1>3 DEF Apart
    <2>2. /\ ShownNewest' /\ LastPollHonest' /\ TickCopy' /\ TickGot'
          /\ Cache!Change
      BY <1>3, <2>1, ApartKeeps
    <2>3. \A p \in Params, v \in Nat : Showable(p, v) => Showable(p, v)'
      BY <2>1, ApartKeeps
    <2>4. ASSUME NEW v \in Workers, op'[v].at = "acked", NEW p \in Params
          PROVE  Showable(p, op[v].sent[p])' 
      <3>1. v # w /\ op'[v] = op[v] /\ op[v].at = "acked"
        BY <1>3, <2>4
      <3>2. Showable(p, op[v].sent[p]) /\ op[v].sent[p] \in Nat
        BY <1>2, <3>1, CacheTypes DEF CacheInv, OpSent
      <3>3. seen[p] <= op[v].sent[p] /\ op[v].sent[p] <= dev'[p]
            /\ snap.lastPoll[p] <= op[v].sent[p]
        BY <2>3, <3>2, <1>3 DEF Showable
      <3> QED
        BY <1>3, <3>1, <3>3 DEF Showable
    <2>5. OpSent'
      BY <2>4 DEF OpSent
    <2> QED
      BY <2>2, <2>5
  <1>4. \A p \in Params : dev[p] <= dev[p]
    BY <1>1
  <1>a. CASE \E o \in Ops : OpBegin(w, o)
    BY <1>1, <1>3, <1>4, <1>a DEF OpBegin, Op
  <1>b. CASE OpLock(w)
    BY <1>1, <1>3, <1>4, <1>b DEF OpLock, Op
  <1>c. CASE OpDial(w)
    BY <1>1, <1>3, <1>4, <1>c DEF OpDial, Op
  <1>d. CASE OpDialFails(w)
    BY <1>1, <1>3, <1>4, <1>d DEF OpDialFails, Idle
  <1>e. CASE Acked(w)
    <2>1. /\ UNCHANGED <<snap, seen, tick>>
          /\ op' = [op EXCEPT ![w].at = "acked", ![w].sent = dev']
      BY <1>e DEF Acked
    <2>2. \A p \in Params : dev[p] <= dev'[p]
      BY <1>2, <1>e, ApplyGrows DEF Acked
    <2>3. Apart
      BY <2>1, <2>2 DEF Apart
    <2>4. /\ ShownNewest' /\ LastPollHonest' /\ TickCopy' /\ TickGot'
          /\ Cache!Change
      BY <2>1, <2>3, ApartKeeps
    \* What was sent is what the device now has; nobody else holds udpMu.
    <2>5. op'[w].sent = dev'
      BY <1>1, <2>1 DEF Op
    <2>6. \A v \in Workers \ {w} : op'[v].at # "acked"
      BY <1>1, <1>e, <2>1 DEF Acked, CacheInv, LockHeld
    <2>7. \A p \in Params : seen'[p] <= dev'[p] /\ snap'.lastPoll[p] <= dev'[p]
                            /\ dev'[p] <= dev'[p]
      BY <2>4, CacheTypes, Shape' DEF ShownNewest, Shape
    <2>8. OpSent'
      BY <2>5, <2>6, <2>7 DEF OpSent, Showable
    <2> QED
      BY <2>4, <2>8
  <1>f. CASE Unacked(w)
    <2>1. \A p \in Params : dev[p] <= dev'[p]
      BY <1>2, <1>4, <1>f, ApplyGrows DEF Unacked
    <2> QED
      BY <1>1, <1>3, <1>f, <2>1 DEF Unacked, Op
  <1>g. CASE WriteThrough(w)
    <2> DEFINE values == Merge(snap.values, Only(Head(op[w].todo), op[w].sent))
    <2>1. /\ op[w].at = "acked"
          /\ op' = [op EXCEPT ![w].at = "cached"]
          /\ SetSnap(values, snap.lastPoll, snap.err, ramped)
          /\ UNCHANGED <<dev, tick>>
      BY <1>g DEF WriteThrough
    <2>2. values \in Values /\ snap.err \in BOOLEAN
      BY <1>1, MergeType, OnlyType DEF Snapshot
    <2>3. ASSUME NEW p \in Params
          PROVE  values[p] \in {snap.values[p], op[w].sent[p]}
      BY DEF Merge, Only
    <2>4. \A p \in Params : values[p] # None =>
              seen[p] <= values[p] /\ values[p] <= dev[p]
                  /\ snap.lastPoll[p] <= values[p]
      <3>1. ASSUME NEW p \in Params
            PROVE  Showable(p, op[w].sent[p])
        BY <2>1 DEF CacheInv, OpSent
      <3>2. ASSUME NEW p \in Params, snap.values[p] # None
            PROVE  Showable(p, snap.values[p])
        BY <1>1, <3>2
           DEF CacheInv, ShownNewest, LastPollHonest, Known, Showable
      <3> QED
        BY <2>3, <3>1, <3>2 DEF Showable
    <2>5. \A p \in Params : snap.lastPoll[p] <= dev[p]
      BY DEF CacheInv, ShownNewest
    <2>6. ShownNewest' /\ LastPollHonest' /\ Cache!Refresh
      BY <1>1, <1>2, <2>1, <2>2, <2>4, <2>5, Shown DEF CacheInv
    \* Neither a tick nor another operation is at the device.
    <2>7. /\ tick.at \notin {"dial", "read"}
          /\ \A v \in Workers \ {w} : op[v].at # "acked"
      BY <1>1, <2>1, DeviceCacheAssumption DEF CacheInv, LockHeld
    <2>8. TickCopy' /\ TickGot'
      BY <2>1, <2>7 DEF CacheInv, TickCopy, TickGot
    <2>9. OpSent'
      BY <1>1, <2>1, <2>7 DEF OpSent, Op
    <2> QED
      BY <2>6, <2>8, <2>9
  <1>h. CASE Notice(w)
    BY <1>1, <1>3, <1>4, <1>h DEF Notice, Op
  <1>i. CASE OpEnd(w)
    BY <1>1, <1>3, <1>4, <1>i DEF OpEnd, Idle
  <1> QED
    BY <1>a, <1>b, <1>c, <1>d, <1>e, <1>f, <1>g, <1>h, <1>i DEF OpStep

LEMMA CacheStep ==
    ASSUME CacheInv, HasPoller, [Next]_vars
    PROVE  /\ CacheInv'
           /\ Cache!Change \/ Cache!Refresh \/ UNCHANGED Cache!rvars
  <1>1. Shape' /\ LockHeld'
    BY ShapeStep, LockHeldStep DEF CacheInv
  <1>2. CASE PollerStep \/ TickLock
    BY <1>1, <1>2, TickKeepsCache DEF CacheInv
  <1>3. CASE \E w \in Workers : \/ OpStep(w) \/ OpLock(w)
                                \/ \E o \in Ops : OpBegin(w, o)
    BY <1>1, <1>3, OpKeepsCache DEF CacheInv
  <1>4. CASE (\E p \in Params : Drift(p)) \/ Pass \/ UNCHANGED vars
    <2>1. Apart /\ UNCHANGED <<tick, op>>
      BY <1>4, CacheTypes DEF CacheInv, Apart, Drift, Pass, vars
    <2> QED
      BY <1>1, <2>1, ApartKeeps DEF CacheInv
  <1> QED
    BY <1>2, <1>3, <1>4 DEF Next

\* LastPoll vouches for what is shown, for a device that has a poller: no mix
\* of failed dials, failed batches, fallbacks and write-throughs makes the
\* time stamp newer than a value it covers.
THEOREM LastPollVouches == ASSUME HasPoller PROVE Spec => []LastPollHonest
  <1>1. Init => CacheInv
    BY InitCache
  <1>2. CacheInv /\ [Next]_vars => CacheInv'
    BY CacheStep
  <1>3. CacheInv => LastPollHonest
    BY DEF CacheInv
  <1> QED
    BY <1>1, <1>2, <1>3, PTL DEF Spec

\* The cache of a device that has a poller implements Replica: no reader sees
\* a parameter go back, whatever interleaves with a tick or a write.
THEOREM CacheIsAReplica == ASSUME HasPoller PROVE Spec => NeverGoesBack
  <1>1. Init => CacheInv /\ Cache!ReplicaInit
    BY InitCache
       DEF Init, Cache!ReplicaInit, ZeroSnapshot, NoValues, Zero
  <1>2. CacheInv /\ [Next]_vars
            => CacheInv' /\ [Cache!Change \/ Cache!Refresh]_(Cache!rvars)
    BY CacheStep
  <1> QED
    BY <1>1, <1>2, PTL DEF Spec, NeverGoesBack, Cache!ReplicaSpec

(***************************************************************************)
(* The settle window.                                                      *)
(***************************************************************************)

\* A fan write that is acknowledged and not yet noticed.
Unnoticed(w) == /\ op[w].at \in {"acked", "cached"}
                /\ Head(op[w].todo) \cap FanWrites # {}

SettleInv == /\ Shape
             /\ ramp \in Nat /\ ramp <= Ramp
             /\ settle \in Nat
             /\ SettleCovers

LEMMA InitSettle == Init => SettleInv
  BY InitShape, DeviceCacheAssumption DEF Init, SettleInv, SettleCovers

LEMMA SettleStep == SettleInv /\ [Next]_vars => SettleInv'
  <1> SUFFICES ASSUME SettleInv, [Next]_vars PROVE SettleInv'
    OBVIOUS
  <1>1. Shape'
    BY ShapeStep DEF SettleInv
  <1>2. /\ op \in [Workers -> Op]
        /\ ramp \in Nat /\ ramp <= Ramp /\ settle \in Nat
        /\ Ramp \in Nat /\ Settle \in Nat
    BY DeviceCacheAssumption DEF SettleInv, Shape, OpShape
  <1>3. ramp > settle /\ Ramp <= Settle
            => silent \/ \E w \in Workers : Unnoticed(w)
    BY DEF SettleInv, SettleCovers, Unnoticed
  \* Steps that neither move the fans nor end a write.
  <1>4. ASSUME UNCHANGED <<ramp, settle, silent>>,
               \A w \in Workers : Unnoticed(w) => Unnoticed(w)'
        PROVE  SettleInv'
    BY <1>1, <1>2, <1>3, <1>4 DEF SettleInv, SettleCovers, Unnoticed
  <1>5. ASSUME UNCHANGED <<ramp, settle, silent, op>>
        PROVE  SettleInv'
    BY <1>4, <1>5 DEF Unnoticed
  <1>6. CASE PollerStep \/ TickLock
    BY <1>5, <1>6 DEF PollerStep, TickBegin, TickLock, TickDial, TickDialFails,
       ReadBatch, TickEnd
  <1>7. ASSUME NEW w \in Workers,
               OpStep(w) \/ OpLock(w) \/ \E o \in Ops : OpBegin(w, o)
        PROVE  SettleInv'
    \* The operation had no write to notice.
    <2>1. ASSUME UNCHANGED <<ramp, settle, silent>>,
                 op[w].at \notin {"acked", "cached"},
                 \A v \in Workers \ {w} : op'[v] = op[v]
          PROVE  SettleInv'
      BY <1>4, <2>1 DEF Unnoticed
    <2>a. CASE \E o \in Ops : OpBegin(w, o)
      BY <1>2, <2>1, <2>a DEF OpBegin, Op
    <2>b. CASE OpLock(w)
      BY <1>2, <2>1, <2>b DEF OpLock, Op
    <2>c. CASE OpDial(w)
      BY <1>2, <2>1, <2>c DEF OpDial, Op
    <2>d. CASE OpDialFails(w)
      BY <1>2, <2>1, <2>d DEF OpDialFails
    <2>e. CASE Acked(w)
      <3>1. /\ op[w].at = "open" /\ UNCHANGED <<settle, silent>>
            /\ \A v \in Workers \ {w} : op'[v] = op[v]
            /\ op'[w].at = "acked" /\ op'[w].todo = op[w].todo
        BY <1>2, <2>e DEF Acked, Op
      <3>2. CASE Head(op[w].todo) \cap FanWrites # {}
        <4>1. Unnoticed(w)' /\ ramp' = Ramp
          BY <2>e, <3>1, <3>2 DEF Unnoticed, Acked, Apply
        <4> QED
          BY <1>1, <1>2, <3>1, <4>1 DEF SettleInv, SettleCovers, Unnoticed
      <3>3. CASE Head(op[w].todo) \cap FanWrites = {}
        BY <2>1, <2>e, <3>1, <3>3 DEF Acked, Apply
      <3> QED
        BY <3>2, <3>3
    <2>f. CASE Unacked(w)
      <3>1. /\ op[w].at = "open" /\ UNCHANGED settle
            /\ \A v \in Workers \ {w} : op'[v] = op[v]
        BY <1>2, <2>f DEF Unacked, Op
      <3>2. \/ silent' /\ ramp' = Ramp
            \/ (silent => silent') /\ ramp' = ramp
        <4>1. CASE UNCHANGED <<dev, ramp, silent>>
          BY <4>1
        <4>2. CASE /\ Apply(Head(op[w].todo))
                   /\ silent' = (silent \/ Head(op[w].todo) \cap FanWrites # {})
          BY <4>2 DEF Apply
        <4> QED
          BY <2>f, <4>1, <4>2 DEF Unacked
      <3>3. CASE silent' /\ ramp' = Ramp
        BY <1>1, <1>2, <3>1, <3>3 DEF SettleInv, SettleCovers
      <3>4. CASE (silent => silent') /\ ramp' = ramp
        <4>1. \A v \in Workers : Unnoticed(v) => Unnoticed(v)'
          BY <3>1 DEF Unnoticed
        <4> QED
          BY <1>1, <1>2, <1>3, <3>1, <3>4, <4>1
             DEF SettleInv, SettleCovers, Unnoticed
      <3> QED
        BY <3>2, <3>3, <3>4
    <2>g. CASE WriteThrough(w)
      <3>1. /\ op'[w].at = "cached" /\ op'[w].todo = op[w].todo
            /\ \A v \in Workers \ {w} : op'[v] = op[v]
        BY <1>2, <2>g DEF WriteThrough, Op
      <3>2. \A v \in Workers : Unnoticed(v) => Unnoticed(v)'
        BY <3>1 DEF Unnoticed
      <3> QED
        BY <1>4, <2>g, <3>2 DEF WriteThrough, SetSnap
    \* The notice opens a window as long as any ramp.
    <2>h. CASE Notice(w)
      <3>1. /\ UNCHANGED <<ramp, silent>>
            /\ \A v \in Workers \ {w} : op'[v] = op[v]
        BY <1>2, <2>h DEF Notice
      <3>2. CASE Head(op[w].todo) \cap FanWrites # {}
        <4>1. settle' = Settle
          BY <2>h, <3>2 DEF Notice, FanWrite
        <4> QED
          BY <1>1, <1>2, <3>1, <4>1 DEF SettleInv, SettleCovers
      <3>3. CASE Head(op[w].todo) \cap FanWrites = {}
        BY <1>4, <2>h, <3>1, <3>3 DEF Notice, FanWrite, Unnoticed
      <3> QED
        BY <3>2, <3>3
    <2>i. CASE OpEnd(w)
      BY <1>2, <2>1, <2>i DEF OpEnd
    <2> QED
      BY <1>7, <2>a, <2>b, <2>c, <2>d, <2>e, <2>f, <2>g, <2>h, <2>i DEF OpStep
  <1>8. CASE Pass
    <2>1. /\ ramp' \in Nat /\ ramp' <= Ramp /\ settle' \in Nat
          /\ ramp' > settle' => ramp > settle /\ ramp > 1
      BY <1>2, <1>8 DEF Pass, Less
    <2>2. silent' = (silent /\ ramp > 1) /\ UNCHANGED op
      BY <1>8 DEF Pass
    <2> QED
      BY <1>1, <1>3, <2>1, <2>2 DEF SettleInv, SettleCovers, Unnoticed
  <1>9. CASE (\E p \in Params : Drift(p)) \/ UNCHANGED vars
    BY <1>5, <1>9 DEF Drift, vars
  <1> QED
    BY <1>6, <1>7, <1>8, <1>9 DEF Next

\* If fanSettleDuration is as long as the ramp, the window that NoticeWrite
\* opens covers every recorded fan write, however writes overlap.
THEOREM WindowCovers == Spec => []SettleCovers
  <1>1. SettleInv => SettleCovers
    BY DEF SettleInv
  <1> QED
    BY <1>1, InitSettle, SettleStep, PTL DEF Spec
=============================================================================
