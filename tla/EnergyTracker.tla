--------------------------- MODULE EnergyTracker ---------------------------
(***************************************************************************)
(* The energy counters of one device (cmd/breezyd/energy_tracker.go,       *)
(* pkg/breezy/energy.go): a tick adds the power of its reading times the   *)
(* time since the last one to the counters of the day, of the month and of *)
(* the device's life, and saves them; dates come from the wall clock,      *)
(* which passes midnights and may be set back, and the daemon may stop at  *)
(* any moment and start from the file.                                     *)
(*                                                                         *)
(* Data.  Time is whole steps of a steady clock (Go subtracts monotonic    *)
(* readings), a date is a day number.  Power is in thousandths of the      *)
(* units of the calibration table, so that interpolation is exact.         *)
(***************************************************************************)
EXTENDS Integers, Sequences

CONSTANTS Readings,   \* what a tick may have read from the unit
          Cap,        \* dtCap
          Month,      \* days in a month
          FanMax,     \* no reading's fans draw more
          None, Corrupt,
          \* Bounds of the model.
          Days,       \* last day
          Horizon,    \* last moment
          Budget      \* failed saves, restarts and clocks set back

Curve == <<[pct |-> 10, cmh |-> 30, fanW |-> 2],
           [pct |-> 50, cmh |-> 100, fanW |-> 9],
           [pct |-> 100, cmh |-> 160, fanW |-> 22]>>

\* Thousandths of the column f of the curve at pct, clamped at its ends.
Interp(f, pct) ==
    IF pct <= Curve[1].pct THEN 1000 * Curve[1][f]
    ELSE IF pct >= Curve[3].pct THEN 1000 * Curve[3][f]
    ELSE LET i == IF pct <= Curve[2].pct THEN 2 ELSE 3
             lo == Curve[i - 1]
             hi == Curve[i]
         IN  1000 * lo[f]
               + (1000 * (pct - lo.pct) * (hi[f] - lo[f])) \div (hi.pct - lo.pct)

\* The heat recovered: the curve's airflow at the mean of the two fans times
\* the change of temperature.
Watts(r) == Interp("cmh", (r.supply + r.extract) \div 2) * r.delta

FanWatts(r) == Interp("fanW", r.supply) + Interp("fanW", r.extract)

Kinds == {"heating", "cooling", "consumed"}
Counters == [Kinds -> Nat]
Zero == [k \in Kinds |-> 0]
Add(c, e) == [k \in Kinds |-> c[k] + e[k]]

ASSUME EnergyAssumption ==
    /\ Readings \subseteq [type : {None, "other", "known"}, regen : BOOLEAN,
                           power : BOOLEAN, inputs : BOOLEAN, supply : Nat,
                           extract : Nat, delta : Int]
    /\ \A r \in Readings : FanWatts(r) \in 0 .. FanMax
    /\ FanMax \in Nat \ {0}
    /\ \A r \in Readings : Watts(r) \in Int
    /\ Cap \in Nat \ {0}
    /\ Month \in Nat \ {0}
    /\ None \notin Int
    /\ Days \in Nat
    /\ Horizon \in Nat
    /\ Budget \in Nat

VARIABLES now,      \* the steady clock
          day,      \* the date of the wall clock
          mem,      \* the tracker
          disk,     \* the state file
          begun,    \* history: when each day first began
          byDay,    \* history: energy counted on each day
          byMonth,  \* history: energy counted in each month
          total,    \* history: energy counted in all
          lost,     \* history: counters may have lost some of it
          budget

vars == <<now, day, mem, disk, begun, byDay, byMonth, total, lost, budget>>

MonthOf(d) == d \div Month

\* The persisted fields; an old file has no month.
File == [date : Nat, month : Nat \cup {None}, today : Counters,
         inMonth : Counters, life : Counters]

Tracker == [date : Nat, month : Nat \cup {None}, today : Counters,
            inMonth : Counters, life : Counters, last : Nat \cup {None},
            instant : Int, fans : Nat, error : {"", "not read", "unsupported"}]

\* save
Persisted(m) == [date |-> m.date, month |-> m.month, today |-> m.today,
                 inMonth |-> m.inMonth, life |-> m.life]

Fresh(d) == [date |-> d, month |-> None, today |-> Zero, inMonth |-> Zero,
             life |-> Zero, last |-> None, instant |-> 0, fans |-> 0,
             error |-> ""]

\* Defect: today's counters are restored whatever their date.
LoadedAnyDay(f, d) ==
    IF f \in {None, Corrupt} THEN Fresh(d)
    ELSE [Fresh(d) EXCEPT
            !.life = f.life,
            !.today = f.today,
            !.month = MonthOf(d),
            !.inMonth = IF f.month = MonthOf(d) THEN f.inMonth ELSE Zero]

\* Load.  Counters of another day or month are not restored.
Loaded(f, d) ==
    IF f \in {None, Corrupt} THEN Fresh(d)
    ELSE [Fresh(d) EXCEPT
            !.life = f.life,
            !.today = IF f.date = d THEN f.today ELSE Zero,
            !.month = MonthOf(d),
            !.inMonth = IF f.month = MonthOf(d) THEN f.inMonth ELSE Zero]

\* A file written today by a version that did not count months.
Used == [k \in Kinds |-> IF k = "consumed" THEN 1 ELSE 0]
OldFile == [date |-> 0, month |-> None, today |-> Used, inMonth |-> Zero,
            life |-> Used]

Init == /\ now = 0
        /\ day = 0
        /\ disk \in {None, Corrupt, OldFile}
        /\ mem = Loaded(disk, 0)
        /\ begun = [d \in {0} |-> IF disk = OldFile THEN -1 ELSE 0]
        /\ byDay = [d \in 0 .. Days |-> IF d = 0 THEN mem.today ELSE Zero]
        /\ byMonth = [m \in 0 .. Days |-> Zero]
        /\ total = mem.life
        /\ lost = FALSE
        /\ budget = Budget

Spend == /\ budget > 0
         /\ budget' = budget - 1

-----------------------------------------------------------------------------
(* One tick.                                                               *)

\* Defect: a new day keeps the time of the last tick.
NewDayUnprimed(m) == IF m.date = day THEN m
                     ELSE [m EXCEPT !.today = Zero, !.date = day]

\* The date has changed: today's counters restart, and the next interval
\* begins with this tick.
NewDay(m) == IF m.date = day THEN m
             ELSE [m EXCEPT !.today = Zero, !.date = day, !.last = None]

NewMonth(m) == IF m.month = MonthOf(day) THEN m
               ELSE [m EXCEPT !.inMonth = Zero, !.month = MonthOf(day)]

Interval(m) == IF now - m.last > Cap THEN Cap ELSE now - m.last

\* The reading has no power to count: the type of the unit is unknown or
\* without a curve, it is not in regeneration, it is off, or an input is
\* missing.
Error(r) == IF r.type = None THEN "not read"
            ELSE IF r.type = "other" THEN "unsupported" ELSE ""

Counts(r) == r.type = "known" /\ r.regen /\ r.power /\ r.inputs

Abs(n) == IF n < 0 THEN -n ELSE n

\* Defect: energy taken out by cooling is counted with its sign.
EnergySigned(r, dt) ==
    [k \in Kinds |-> IF k = "consumed" THEN FanWatts(r) * dt
                     ELSE IF (k = "heating" /\ Watts(r) > 0)
                               \/ (k = "cooling" /\ Watts(r) < 0)
                     THEN Watts(r) * dt
                     ELSE 0]

\* What an interval with the power of r adds to each counter.
Energy(r, dt) ==
    [k \in Kinds |-> IF k = "consumed" THEN FanWatts(r) * dt
                     ELSE IF (k = "heating" /\ Watts(r) > 0)
                               \/ (k = "cooling" /\ Watts(r) < 0)
                     THEN Abs(Watts(r)) * dt
                     ELSE 0]

\* Defect: the day's counters are left out of the cooling branch.
AccumulatedPartly(m, r) ==
    LET e == Energy(r, Interval(m)) IN
    [m EXCEPT !.today = IF Watts(r) < 0 THEN @ ELSE Add(@, e),
              !.inMonth = Add(@, e), !.life = Add(@, e),
              !.instant = Watts(r), !.fans = FanWatts(r), !.error = ""]

Accumulated(m, r) ==
    LET e == Energy(r, Interval(m)) IN
    [m EXCEPT !.today = Add(@, e), !.inMonth = Add(@, e),
              !.life = Add(@, e), !.instant = Watts(r),
              !.fans = FanWatts(r), !.error = ""]

\* The files a tick may leave: that of its last save, or, when saves fail,
\* that of an earlier one or the old one.
Saves(files) ==
    \/ /\ disk' = IF files = <<>> THEN disk ELSE files[Len(files)]
       /\ UNCHANGED budget
    \/ /\ files # <<>>
       /\ \E f \in {disk} \cup {files[i] : i \in 1 .. Len(files) - 1} :
            disk' = f
       /\ Spend

SaveIf(changed, m) == IF changed THEN <<Persisted(m)>> ELSE <<>>

Rolled == NewMonth(NewDay(mem))

RolloverSaves == SaveIf(NewDay(mem) # mem, NewDay(mem))
                   \o SaveIf(Rolled # NewDay(mem), Rolled)

\* The first tick of a run or of a day counts nothing.
Prime == /\ Rolled.last = None
         /\ mem' = [Rolled EXCEPT !.last = now]
         /\ Saves(RolloverSaves)
         /\ UNCHANGED <<now, day, begun, byDay, byMonth, total, lost>>

TickIdle(r) ==
    /\ Rolled.last # None
    /\ ~Counts(r)
    /\ mem' = [Rolled EXCEPT !.last = now, !.error = Error(r),
                             !.instant = 0, !.fans = 0]
    /\ Saves(RolloverSaves)
    /\ UNCHANGED <<now, day, begun, byDay, byMonth, total, lost>>

TickCounts(r) ==
    LET e == Energy(r, Interval(Rolled)) IN
    /\ Rolled.last # None
    /\ Counts(r)
    /\ mem' = [Accumulated(Rolled, r) EXCEPT !.last = now]
    /\ Saves(RolloverSaves \o <<Persisted(mem')>>)
    /\ byDay' = [byDay EXCEPT ![day] = Add(@, e)]
    /\ byMonth' = [byMonth EXCEPT ![MonthOf(day)] = Add(@, e)]
    /\ total' = Add(total, e)
    /\ UNCHANGED <<now, day, begun, lost>>

-----------------------------------------------------------------------------
(* The clocks, and restarts.                                               *)

Pass == /\ now < Horizon
        /\ now' = now + 1
        /\ UNCHANGED <<day, mem, disk, begun, byDay, byMonth, total, lost,
                       budget>>

Midnight == /\ day < Days
            /\ day' = day + 1
            /\ begun' = IF day + 1 \in DOMAIN begun THEN begun
                        ELSE [d \in DOMAIN begun \cup {day + 1} |->
                                IF d = day + 1 THEN now ELSE begun[d]]
            /\ UNCHANGED <<now, mem, disk, byDay, byMonth, total, lost, budget>>

\* The wall clock is set back over a midnight: the day's counters will
\* restart when the next tick sees it, though the day has some already.
SetBack == /\ day > 0
           /\ day' = day - 1
           /\ lost' = TRUE
           /\ Spend
           /\ UNCHANGED <<now, mem, disk, begun, byDay, byMonth, total>>

\* The daemon stops at any moment and starts again.
Restart == /\ mem' = Loaded(disk, day)
           /\ lost' = (lost \/ mem'.life # mem.life)
           /\ Spend
           /\ UNCHANGED <<now, day, disk, begun, byDay, byMonth, total>>

Next == Prime \/ Pass \/ Midnight \/ SetBack \/ Restart
          \/ \E r \in Readings : TickIdle(r) \/ TickCounts(r)

Spec == Init /\ [][Next]_vars

-----------------------------------------------------------------------------
\* Type correctness.
TypeOK == /\ now \in Nat
          /\ day \in 0 .. Days
          /\ mem \in Tracker
          /\ disk \in File \cup {None, Corrupt}
          /\ DOMAIN begun \subseteq 0 .. Days
          /\ byDay \in [0 .. Days -> Counters]
          /\ byMonth \in [0 .. Days -> Counters]
          /\ total \in Counters
          /\ lost \in BOOLEAN
          /\ budget \in Nat

Within(c, e) == \A k \in Kinds : c[k] <= e[k]

\* No interval is counted twice, in any span: not across midnights, months,
\* restarts, failed saves and clocks set back.
NothingTwice ==
    /\ Within(mem.today, byDay[mem.date])
    /\ mem.month # None => Within(mem.inMonth, byMonth[mem.month])
    /\ Within(mem.life, total)

\* Unless the daemon stopped before a save succeeded or the clock was set
\* back over a midnight, nothing counted is missing from any span: the
\* counters are those of their day, their month and the device's life.
NothingMissing ==
    ~lost => /\ mem.today = byDay[mem.date]
             /\ mem.month # None => mem.inMonth = byMonth[mem.month]
             /\ mem.life = total

\* Today's consumption was drawn since the day began: no interval reaches
\* back over a midnight ("the first post-rollover tick would accumulate dt
\* covering pre-midnight time", energy_tracker.go:232-236).
TodayWithinDay ==
    mem.today["consumed"] <= FanMax * (now - begun[mem.date])

\* The spans contain each other, in memory and in the file, except for what
\* an old file, which had no month, held for the day it was read.
Nested == \A m \in {mem} \cup ({disk} \ {None, Corrupt}) :
             /\ Within(m.today, IF m.date = 0 THEN Add(m.inMonth, Used)
                                              ELSE m.inMonth)
             /\ Within(m.inMonth, m.life)
=============================================================================
