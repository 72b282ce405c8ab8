------------------------------ MODULE Homekit ------------------------------
(***************************************************************************)
(* The HomeKit accessory of one device: callbacks of remote writes         *)
(* (cmd/breezyd/homekit.go), which set characteristics before they operate *)
(* the device, and Sync (pkg/homekit/sync.go), with which each good poll   *)
(* sets them again from what it read.  Characteristics have no lock in     *)
(* common: a callback and a Sync, or the callbacks of two controllers, may *)
(* interleave between any two of them.  The device mutex orders only the   *)
(* operations and the polls.                                               *)
(***************************************************************************)
EXTENDS Integers, Sequences

CONSTANTS Controllers,  \* paired controllers; each makes one write at a time
          RemoteWrites, \* records [to, v]: what they may write
          Devices,      \* states the device may start in
          Changes,      \* states other clients or its own timers may bring
          PresetPct,    \* the supply percentage of each preset
          None,
          \* Bounds of the model.
          Writes,       \* remote writes in all
          Budget        \* failed operations and outside changes

Device == [power : BOOLEAN,
           airflow : {"ventilation", "regeneration", "supply", "extract"},
           preset : 0 .. 3,      \* 0x0002, with 0 for manual
           pct : 10 .. 100,      \* 0x0044
           timer : {"off", "night", "turbo"},
           heater : BOOLEAN,
           soiled : BOOLEAN]

Switches == {"active", "auto", "supply", "extract", "heater", "night",
             "turbo", "change"}

\* The characteristics; speed is RotationSpeed.  A switch is 0 or 1.
Names == Switches \cup {"speed"}

Bit(on) == IF on THEN 1 ELSE 0

\* The indication of a filter change is read-only.
ASSUME HomekitAssumption ==
    /\ RemoteWrites \subseteq [to : (Names \ {"change"}) \cup {"reset"},
                               v : 0 .. 100]
    /\ \A w \in RemoteWrites : w.to # "speed" => w.v <= 1
    /\ Devices \subseteq Device
    /\ Changes \subseteq Device
    /\ PresetPct \in [1 .. 3 -> 10 .. 100]
    /\ Writes \in Nat
    /\ Budget \in Nat

\* A callback has its write and what it has still to set; a tick has what it
\* read, what Sync has still to set, and whether it has been alone so far.
Callback == [w : RemoteWrites, left : Seq([char : Names, v : 0 .. 1])]
Poll == [seen : Device, left : Seq(Names), alone : BOOLEAN]

\* nil is none of the values it stands in for.
ASSUME NoneAssumption == None \notin Callback \cup Poll

VARIABLES dev,      \* the device
          chars,    \* the characteristics
          cb,       \* each controller's callback, or None
          poll,     \* the tick in progress, or None
          overlap,  \* history: callbacks or Syncs have overlapped since the
                    \* last Sync that ran alone
          wrong,    \* history: an operation has failed or the device was
                    \* changed by others since then
          writes, budget

vars == <<dev, chars, cb, poll, overlap, wrong, writes, budget>>

Callbacks == {k \in Controllers : cb[k] # None}

Spend == /\ budget > 0
         /\ budget' = budget - 1

\* The characteristics' values before the first good poll.
Defaults == [c \in Names |-> 0]

Init == /\ dev \in Devices
        /\ chars = Defaults
        /\ cb = [k \in Controllers |-> None]
        /\ poll = None
        /\ overlap = FALSE
        /\ wrong = TRUE
        /\ writes = 0
        /\ budget = Budget

-----------------------------------------------------------------------------
(* Remote writes and their callbacks.                                      *)

Set(c, v) == [char |-> c, v |-> v]

\* Defect: a switch that is turned on leaves the other one.
SetsOne(w) == CASE w.to \in {"supply", "extract"} -> <<Set(w.to, w.v)>>
                [] w.to \in {"night", "turbo"} -> <<Set(w.to, w.v)>>
                [] OTHER -> <<>>

\* switchAirflow, switchTimer: one of two switches turns the other off.
Sets(w) ==
    CASE w.to \in {"supply", "extract"} ->
            <<Set("supply", Bit(w.to = "supply" /\ w.v = 1)),
              Set("extract", Bit(w.to = "extract" /\ w.v = 1))>>
      [] w.to \in {"night", "turbo"} ->
            <<Set("night", Bit(w.to = "night" /\ w.v = 1)),
              Set("turbo", Bit(w.to = "turbo" /\ w.v = 1))>>
      [] OTHER -> <<>>

Clamp(v) == IF v < 10 THEN 10 ELSE v

\* The device after the operation of the callback.  Speeds and turning off
\* stop the timer (pkg/breezy/ops.go); a timer does not turn the unit on.
Applied(w, d) ==
    CASE w.to = "active" /\ w.v = 1 -> [d EXCEPT !.power = TRUE]
      [] w.to = "active" /\ w.v = 0 -> [d EXCEPT !.power = FALSE, !.timer = "off"]
      [] w.to = "auto" -> [d EXCEPT !.preset = 1, !.timer = "off"]
      [] w.to = "speed" -> [d EXCEPT !.pct = Clamp(w.v), !.preset = 0,
                                     !.timer = "off"]
      [] w.to \in {"supply", "extract"} ->
            [d EXCEPT !.airflow = IF w.v = 1 THEN w.to ELSE "regeneration"]
      [] w.to = "heater" -> [d EXCEPT !.heater = w.v = 1]
      [] w.to \in {"night", "turbo"} ->
            [d EXCEPT !.timer = IF w.v = 1 THEN w.to ELSE "off"]
      [] w.to = "reset" -> [d EXCEPT !.soiled = FALSE]

\* The tick in progress is no longer alone.
Disturbed == IF poll = None THEN None ELSE [poll EXCEPT !.alone = FALSE]

\* The library sets the characteristic, then calls the callback; the one of
\* the target state does nothing for manual.
RemoteWrite(k, w) ==
    /\ cb[k] = None
    /\ writes < Writes
    /\ writes' = writes + 1
    /\ chars' = [c \in DOMAIN chars |-> IF c = w.to THEN w.v ELSE chars[c]]
    /\ cb' = IF w.to = "auto" /\ w.v = 0 THEN cb
             ELSE [cb EXCEPT ![k] = [w |-> w, left |-> Sets(w)]]
    /\ overlap' = (overlap \/ Callbacks # {} \/ poll # None)
    /\ poll' = Disturbed
    /\ UNCHANGED <<dev, wrong, budget>>

SetValue(k) ==
    /\ cb[k] # None
    /\ cb[k].left # <<>>
    /\ LET s == Head(cb[k].left) IN chars' = [chars EXCEPT ![s.char] = s.v]
    /\ cb' = [cb EXCEPT ![k].left = Tail(@)]
    /\ UNCHANGED <<dev, poll, overlap, wrong, writes, budget>>

\* doDeviceOpBackground: under the device mutex, so not during a tick.
Operate(k) ==
    /\ cb[k] # None
    /\ cb[k].left = <<>>
    /\ poll = None
    /\ dev' = Applied(cb[k].w, dev)
    /\ cb' = [cb EXCEPT ![k] = None]
    /\ UNCHANGED <<chars, poll, overlap, wrong, writes, budget>>

\* The error is logged and nothing is set back.  The device may have taken
\* the write, when only its answer was lost.
OperateFails(k) ==
    /\ cb[k] # None
    /\ cb[k].left = <<>>
    /\ poll = None
    /\ dev' \in {dev, Applied(cb[k].w, dev)}
    /\ cb' = [cb EXCEPT ![k] = None]
    /\ wrong' = TRUE
    /\ Spend
    /\ UNCHANGED <<chars, poll, overlap, writes>>

-----------------------------------------------------------------------------
(* Polls, and the device's other masters.                                  *)

\* Defect: the airflow switches are synced as one.
SyncOrderNoExtract == <<"active", "speed", "auto", "supply", "heater",
                        "night", "turbo", "change">>

SyncOrder == <<"active", "speed", "auto", "supply", "extract", "heater",
               "night", "turbo", "change">>

\* The live percentage: CommandedFanPct.
SupplyPct(d) == IF d.preset = 0 THEN d.pct ELSE PresetPct[d.preset]

\* What Sync sets each characteristic to.
Shown(d) == [c \in Names |->
    CASE c = "active" -> Bit(d.power)
      [] c = "speed" -> SupplyPct(d)
      [] c = "auto" -> Bit(d.preset # 0)
      [] c \in {"supply", "extract"} -> Bit(d.airflow = c)
      [] c = "heater" -> Bit(d.heater)
      [] c \in {"night", "turbo"} -> Bit(d.timer = c)
      [] c = "change" -> Bit(d.soiled)]

\* A tick that reads everything; one that does not leaves HomeKit as it is.
PollReads ==
    /\ poll = None
    /\ poll' = [seen |-> dev, left |-> SyncOrder, alone |-> Callbacks = {}]
    /\ overlap' = (overlap \/ Callbacks # {})
    /\ UNCHANGED <<dev, chars, cb, wrong, writes, budget>>

\* SyncHomekit runs inside the tick, which still holds the device mutex.
SyncSets ==
    /\ poll # None
    /\ LET c == Head(poll.left) IN
         chars' = [chars EXCEPT ![c] = Shown(poll.seen)[c]]
    /\ IF Len(poll.left) > 1
       THEN /\ poll' = [poll EXCEPT !.left = Tail(@)]
            /\ UNCHANGED <<overlap, wrong>>
       ELSE LET alone == poll.alone /\ Callbacks = {} /\ poll.seen = dev IN
            /\ poll' = None
            /\ overlap' = (overlap /\ ~alone)
            /\ wrong' = (wrong /\ ~alone)
    /\ UNCHANGED <<dev, cb, writes, budget>>

\* The command line in direct mode, the unit's remote control, or a timer
\* that ends.
Change(d) ==
    /\ d # dev
    /\ dev' = d
    /\ poll' = Disturbed
    /\ wrong' = TRUE
    /\ Spend
    /\ UNCHANGED <<chars, cb, overlap, writes>>

CallbackStep(k) == SetValue(k) \/ Operate(k) \/ OperateFails(k)

Next == \/ PollReads \/ SyncSets
        \/ \E d \in Changes : Change(d)
        \/ \E k \in Controllers :
             CallbackStep(k) \/ \E w \in RemoteWrites : RemoteWrite(k, w)

Spec == Init /\ [][Next]_vars

\* The poller ticks for ever, and Go's mutexes go to whoever has waited
\* longest.
FairSpec == /\ Spec
            /\ WF_vars(PollReads)
            /\ WF_vars(SyncSets)
            /\ \A k \in Controllers : SF_vars(CallbackStep(k))

-----------------------------------------------------------------------------
\* Type correctness: the accessory and the device.
TypeOK == /\ dev \in Device
          /\ chars \in [Names -> 0 .. 100]
          /\ \A c \in Switches : chars[c] <= 1
          /\ cb \in [Controllers -> Callback \cup {None}]
          /\ poll \in Poll \cup {None}
          /\ overlap \in BOOLEAN
          /\ wrong \in BOOLEAN
          /\ writes \in Nat
          /\ budget \in Nat

Exclusive == /\ chars["supply"] + chars["extract"] <= 1
             /\ chars["night"] + chars["turbo"] <= 1

Resting == Callbacks = {} /\ poll = None

\* Whenever no callback and no Sync is running, at most one switch of each
\* pair is on: "turning on one switch forces the other off"
\* (SPECIFICATION-hap.md:233, 237; sync.go:87-88).
ExclusiveAtRest == Resting => Exclusive

\* They are, whatever fails and whatever else changes the device, unless
\* callbacks or Syncs overlapped since a Sync last ran alone.
ExclusiveUnlessOverlapped == Resting /\ ~overlap => Exclusive

\* With nothing overlapping, failing or changing behind its back, HomeKit
\* follows the device between polls: power, airflow and heater are shown as
\* they are, and no timer runs that its switch does not show.  (A timer that
\* a change of speed or of power has stopped is still shown.)
AloneFollows ==
    Resting /\ ~overlap /\ ~wrong =>
        /\ \A c \in {"active", "supply", "extract", "heater"} :
             chars[c] = Shown(dev)[c]
        /\ dev.timer # "off" => chars[dev.timer] = 1

\* Once writes, failures and changes have stopped, HomeKit comes to show the
\* device as it is, whatever overlapped before.
Settles == <>[](chars = Shown(dev))
=============================================================================
