---------------------------- MODULE EnergyProofs ----------------------------
(***************************************************************************)
(* Proofs about EnergyTracker.  What the counters promise is not inductive *)
(* as it stands: a restart replaces the tracker by the file, and a tick    *)
(* replaces the file by the tracker, so the promise has to hold of both.   *)
(* Good states it of any set of counters with a date and a month, the      *)
(* tracker's or the file's, and IInv asks it of both, with what a tick     *)
(* that counts needs besides: that today's consumption was drawn before    *)
(* the last tick, so that adding the interval since then stays within the  *)
(* day.  MInv does the same for what must not be missing from them.        *)
(***************************************************************************)
EXTENDS EnergyTracker, TLAPS

\* Arithmetic: power and time are naturals, so energy is.
LEMMA ProductNat ==
    ASSUME NEW a \in Nat, NEW b \in Nat
    PROVE  a * b \in Nat
  OBVIOUS

\* Arithmetic: at the same power, a longer interval takes more energy.
LEMMA ProductMonotone ==
    ASSUME NEW a \in Int, NEW b \in Int, NEW c \in Nat, a <= b
    PROVE  a * c <= b * c /\ c * a <= c * b
  OBVIOUS

\* monthKey: the month of a date of the model is one of its months.
LEMMA MonthType ==
    ASSUME NEW d \in 0 .. Days
    PROVE  MonthOf(d) \in 0 .. Days
  BY EnergyAssumption DEF MonthOf

\* accumulate: adding energy to counters never lowers one.
LEMMA AddType ==
    ASSUME NEW c \in Counters, NEW e \in Counters
    PROVE  Add(c, e) \in Counters /\ Within(c, Add(c, e))
  BY DEF Add, Counters, Within, Kinds

\* accumulate: adding the same energy keeps counters within others.
LEMMA AddMonotone ==
    ASSUME NEW c \in Counters, NEW d \in Counters, NEW e \in Counters, Within(c, d)
    PROVE  Within(Add(c, e), Add(d, e))
  BY DEF Add, Counters, Within, Kinds

\* The energy of an interval is never negative (cooling is counted by its
\* absolute value), and its fans drew at most FanMax.
LEMMA EnergyType ==
    ASSUME NEW r \in Readings, NEW dt \in Nat
    PROVE  /\ Energy(r, dt) \in Counters
           /\ Energy(r, dt)["consumed"] <= FanMax * dt
<1>1. FanWatts(r) \in 0 .. FanMax /\ Watts(r) \in Int /\ FanMax \in Nat
  BY EnergyAssumption
<1>2. FanWatts(r) * dt \in Nat /\ FanWatts(r) * dt <= FanMax * dt
  BY <1>1, ProductNat, ProductMonotone
<1>3. Abs(Watts(r)) \in Nat
  BY <1>1 DEF Abs
<1>4. Abs(Watts(r)) * dt \in Nat
  BY <1>3, ProductNat
<1> QED
  BY <1>2, <1>4 DEF Energy, Counters, Kinds

-----------------------------------------------------------------------------
\* What counters f promise at the moment n, with days begun at b and the
\* energy bd, bm and t counted by day, by month and in all: they hold no
\* more than was counted in their spans, nor than FanMax since their day began.
GoodAt(f, n, b, bd, bm, t) ==
    /\ f.date \in DOMAIN b
    /\ f.month \in 0 .. Days \cup {None}
    /\ Within(f.today, bd[f.date])
    /\ f.month # None => Within(f.inMonth, bm[f.month])
    /\ Within(f.life, t)
    /\ f.today["consumed"] <= FanMax * (n - b[f.date])

\* ... of the present state.
Good(f) == GoodAt(f, now, begun, byDay, byMonth, total)

\* The state files a restart may find.
GoodFiles == {f \in File : Good(f)} \cup {None, Corrupt}

\* The inductive invariant.
IInv == /\ TypeOK
        /\ begun \in [DOMAIN begun -> Int]
        /\ day \in DOMAIN begun
        /\ \A d \in DOMAIN begun : 0 .. d \subseteq DOMAIN begun
        /\ \A d \in DOMAIN begun : begun[d] <= now
        /\ Good(mem)
        /\ disk \in GoodFiles
        /\ mem.last # None =>
              /\ mem.last <= now
              /\ mem.today["consumed"] <= FanMax * (mem.last - begun[mem.date])

\* Counters that restarted are within any others.
LEMMA ZeroWithin == /\ Zero \in Counters
                    /\ \A c \in Counters : Within(Zero, c)
  BY DEF Zero, Counters, Within, Kinds

\* The consumption of counters is a natural.
LEMMA ConsumedNat == ASSUME NEW c \in Counters PROVE c["consumed"] \in Nat
  BY DEF Counters, Kinds

\* A day that began did so at or before now.
LEMMA Since ==
    ASSUME IInv, NEW d \in DOMAIN begun
    PROVE  FanMax * (now - begun[d]) \in Nat /\ d \in 0 .. Days
<1>1. now - begun[d] \in Nat
  BY DEF IInv, TypeOK
<1> QED
  BY <1>1, ProductNat, EnergyAssumption DEF IInv, TypeOK

\* Load: what a restart makes of any good file is a good tracker: counters
\* restored are those of the day and the month it is now, the others zero.
LEMMA LoadedGood ==
    ASSUME IInv
    PROVE  /\ Loaded(disk, day) \in Tracker
           /\ Good(Loaded(disk, day))
           /\ Loaded(disk, day).last = None
<1>1. day \in 0 .. Days /\ MonthOf(day) \in 0 .. Days
  BY MonthType DEF IInv, TypeOK
<1>2. /\ byDay[day] \in Counters
      /\ byMonth[MonthOf(day)] \in Counters
      /\ total \in Counters
  BY <1>1 DEF IInv, TypeOK
<1>3. FanMax * (now - begun[day]) \in Nat
  BY Since DEF IInv
<1>zero. Zero["consumed"] = 0
  BY DEF Zero, Kinds
<1>4. CASE disk \in {None, Corrupt}
  BY <1>1, <1>2, <1>3, <1>4, <1>zero, ZeroWithin DEF Loaded, Fresh, Tracker, Good, GoodAt, IInv
<1>5. CASE disk \notin {None, Corrupt}
  <2>1. disk \in File /\ Good(disk)
    BY <1>5 DEF IInv, GoodFiles
  <2> DEFINE today == IF disk.date = day THEN disk.today ELSE Zero
             inMonth == IF disk.month = MonthOf(day) THEN disk.inMonth ELSE Zero
  <2>0. Loaded(disk, day) =
           [date |-> day, month |-> MonthOf(day), today |-> today,
            inMonth |-> inMonth, life |-> disk.life, last |-> None,
            instant |-> 0, fans |-> 0, error |-> ""]
    BY <1>5 DEF Loaded, Fresh
  <2>types. /\ today \in Counters
        /\ inMonth \in Counters
        /\ disk.life \in Counters
    BY <2>1, ZeroWithin DEF File
  <2>3. /\ Within(today, byDay[day])
        /\ today["consumed"] <= FanMax * (now - begun[day])
    BY <2>1, <1>2, <1>3, <1>zero, ZeroWithin DEF Good, GoodAt
  <2>4. Within(inMonth, byMonth[MonthOf(day)])
    BY <2>1, <1>1, <1>2, ZeroWithin, EnergyAssumption DEF Good, GoodAt
  <2> HIDE DEF today, inMonth
  <2>2. /\ Loaded(disk, day) \in Tracker
        /\ Loaded(disk, day).last = None
    <3> DEFINE rec == [date |-> day, month |-> MonthOf(day), today |-> today,
                       inMonth |-> inMonth, life |-> disk.life, last |-> None,
                       instant |-> 0, fans |-> 0, error |-> ""]
    <3>1. rec \in Tracker /\ rec.last = None
      BY <2>types, <1>1 DEF Tracker
    <3> QED
      BY <2>0, <3>1, Zenon
  <2>5. /\ Loaded(disk, day).date = day
        /\ Loaded(disk, day).month = MonthOf(day)
        /\ Loaded(disk, day).today = today
        /\ Loaded(disk, day).inMonth = inMonth
        /\ Loaded(disk, day).life = disk.life
    BY <1>5 DEF Loaded, Fresh, today, inMonth
  <2>6. Good(Loaded(disk, day))
    BY <2>1, <2>3, <2>4, <2>5, <1>1 DEF Good, GoodAt, IInv
  <2> QED
    BY <2>2, <2>6
<1> QED
  BY <1>4, <1>5

\* The rollover of the day touches today's counters, the date and the time of
\* the last tick, and no other field.
LEMMA NewDayFields ==
    ASSUME NEW m \in Tracker, day \in Nat
    PROVE  /\ NewDay(m) \in Tracker
           /\ NewDay(m).date = day
           /\ NewDay(m).inMonth = m.inMonth
           /\ NewDay(m).month = m.month
           /\ NewDay(m).life = m.life
           /\ m.date = day => NewDay(m) = m
           /\ m.date # day => NewDay(m).today = Zero /\ NewDay(m).last = None
<1>1. CASE m.date = day
  BY <1>1 DEF NewDay, Tracker
<1>2. CASE m.date # day
  <2>1. NewDay(m) = [m EXCEPT !.today = Zero, !.date = day, !.last = None]
    BY <1>2 DEF NewDay
  <2>2. Zero \in Counters
    BY ZeroWithin
  <2> QED
    BY <1>2, <2>1, <2>2 DEF Tracker
<1> QED
  BY <1>1, <1>2

\* The rollover of the month touches the month and its counters only.
LEMMA NewMonthFields ==
    ASSUME NEW m \in Tracker, MonthOf(day) \in Nat
    PROVE  /\ NewMonth(m) \in Tracker
           /\ NewMonth(m).month = MonthOf(day)
           /\ NewMonth(m).date = m.date
           /\ NewMonth(m).today = m.today
           /\ NewMonth(m).life = m.life
           /\ NewMonth(m).last = m.last
           /\ m.month = MonthOf(day) => NewMonth(m).inMonth = m.inMonth
           /\ m.month # MonthOf(day) => NewMonth(m).inMonth = Zero
<1>1. CASE m.month = MonthOf(day)
  BY <1>1 DEF NewMonth, Tracker
<1>2. CASE m.month # MonthOf(day)
  <2>1. NewMonth(m) = [m EXCEPT !.inMonth = Zero, !.month = MonthOf(day)]
    BY <1>2 DEF NewMonth
  <2>2. Zero \in Counters
    BY ZeroWithin
  <2> QED
    BY <1>2, <2>1, <2>2 DEF Tracker
<1> QED
  BY <1>1, <1>2

\* A tick that rolled the day and the month over is as good as before it, in
\* the middle (a first save may be all that succeeds) and at the end.
LEMMA RolledGood ==
    ASSUME IInv
    PROVE  /\ NewDay(mem) \in Tracker /\ Good(NewDay(mem))
           /\ Rolled \in Tracker /\ Good(Rolled)
           /\ Rolled.date = day
           /\ Rolled.month = MonthOf(day)
           /\ Rolled.last # None =>
                 /\ Rolled.last \in Nat
                 /\ Rolled.last <= now
                 /\ Rolled.today["consumed"] <= FanMax * (Rolled.last - begun[day])
<1>1. day \in 0 .. Days /\ MonthOf(day) \in 0 .. Days
  BY MonthType DEF IInv, TypeOK
<1>2. /\ byDay[day] \in Counters
      /\ byMonth[MonthOf(day)] \in Counters
  BY <1>1 DEF IInv, TypeOK
<1>3. FanMax * (now - begun[day]) \in Nat
  BY Since DEF IInv
<1>zero. Zero["consumed"] = 0
  BY DEF Zero, Kinds
<1>mem. mem \in Tracker /\ Good(mem)
  BY DEF IInv, TypeOK
<1> DEFINE n == NewDay(mem)
<1>4. n \in Tracker /\ n.date = day
  BY <1>1, <1>mem, NewDayFields
<1>5. n.last # None => n = mem
  BY <1>1, <1>mem, NewDayFields
<1>6. Good(n)
  <2>1. CASE mem.date = day
    BY <2>1, <1>1, <1>mem, NewDayFields
  <2>2. CASE mem.date # day
    <3>1. /\ n.today = Zero
          /\ n.inMonth = mem.inMonth
          /\ n.month = mem.month
          /\ n.life = mem.life
      BY <2>2, <1>1, <1>mem, NewDayFields
    <3> HIDE DEF n
    <3> QED
      BY <3>1, <1>mem, <1>1, <1>2, <1>3, <1>4, <1>zero, ZeroWithin DEF Good, GoodAt, IInv
  <2> QED
    BY <2>1, <2>2
<1> HIDE DEF n
<1>7. Rolled = NewMonth(n)
  BY DEF Rolled, n
<1>8. /\ Rolled \in Tracker
      /\ Rolled.date = day
      /\ Rolled.month = MonthOf(day)
      /\ Rolled.today = n.today
      /\ Rolled.life = n.life
      /\ Rolled.last = n.last
      /\ \/ Rolled.inMonth = n.inMonth /\ n.month = MonthOf(day)
         \/ Rolled.inMonth = Zero
  BY <1>1, <1>4, <1>7, NewMonthFields
<1>9. Good(Rolled)
  BY <1>1, <1>2, <1>4, <1>6, <1>8, ZeroWithin, EnergyAssumption DEF Good, GoodAt
<1>10. Rolled.last # None =>
           /\ Rolled.last \in Nat
           /\ Rolled.last <= now
           /\ Rolled.today["consumed"] <= FanMax * (Rolled.last - begun[day])
  BY <1>4, <1>5, <1>8, <1>mem DEF IInv, Tracker
<1> QED
  BY <1>4, <1>6, <1>8, <1>9, <1>10 DEF n

\* Within is transitive.
LEMMA WithinTransitive ==
    ASSUME NEW a \in Counters, NEW b \in Counters, NEW c \in Counters,
           Within(a, b), Within(b, c)
    PROVE  Within(a, c)
  BY DEF Within, Counters

\* The histories and the clock only grow.
Grown(n1, b1, bd1, bm1, t1, n2, b2, bd2, bm2, t2) ==
    /\ n1 \in Int /\ n2 \in Int /\ n1 <= n2
    /\ DOMAIN b1 \subseteq DOMAIN b2
    /\ DOMAIN b1 \subseteq 0 .. Days
    /\ \A d \in DOMAIN b1 : b1[d] \in Int /\ b2[d] = b1[d]
    /\ bd1 \in [0 .. Days -> Counters] /\ bd2 \in [0 .. Days -> Counters]
    /\ \A d \in 0 .. Days : Within(bd1[d], bd2[d])
    /\ bm1 \in [0 .. Days -> Counters] /\ bm2 \in [0 .. Days -> Counters]
    /\ \A m \in 0 .. Days : Within(bm1[m], bm2[m])
    /\ t1 \in Counters /\ t2 \in Counters /\ Within(t1, t2)

\* Counters that are left alone stay good while time passes and other ticks
\* count: the file between two saves.
LEMMA GoodStays ==
    ASSUME NEW n1, NEW b1, NEW bd1, NEW bm1, NEW t1,
           NEW n2, NEW b2, NEW bd2, NEW bm2, NEW t2,
           Grown(n1, b1, bd1, bm1, t1, n2, b2, bd2, bm2, t2),
           NEW f, f.today \in Counters, f.inMonth \in Counters, f.life \in Counters,
           GoodAt(f, n1, b1, bd1, bm1, t1)
    PROVE  GoodAt(f, n2, b2, bd2, bm2, t2)
<1> USE DEF Grown
<1>1. f.date \in 0 .. Days /\ f.date \in DOMAIN b2 /\ b2[f.date] = b1[f.date]
  BY DEF GoodAt
<1>2. Within(f.today, bd2[f.date])
  BY <1>1, WithinTransitive DEF GoodAt
<1>3. f.month # None => Within(f.inMonth, bm2[f.month])
  BY WithinTransitive DEF GoodAt
<1>4. Within(f.life, t2)
  BY WithinTransitive DEF GoodAt
<1>5. f.today["consumed"] <= FanMax * (n2 - b2[f.date])
  <2> DEFINE x == n1 - b1[f.date]
             y == n2 - b1[f.date]
  <2>0. b1[f.date] \in Int /\ x \in Int /\ y \in Int /\ x <= y /\ FanMax \in Nat
    BY EnergyAssumption DEF GoodAt
  <2> HIDE DEF x, y
  <2>1. FanMax * x <= FanMax * y
    BY <2>0, ProductMonotone
  <2>2. /\ f.today["consumed"] \in Nat
        /\ FanMax * x \in Int
        /\ FanMax * y \in Int
    BY <2>0, ConsumedNat
  <2>3. f.today["consumed"] <= FanMax * x
    BY DEF x, GoodAt
  <2>4. f.today["consumed"] <= FanMax * y
    BY <2>1, <2>2, <2>3
  <2> QED
    BY <1>1, <2>4 DEF y
<1> QED
  BY <1>1, <1>2, <1>3, <1>4, <1>5 DEF GoodAt

\* Within is reflexive.
LEMMA WithinReflexive == \A c \in Counters : Within(c, c)
  BY DEF Within, Counters

\* save: the file of a good tracker is a good file.
LEMMA PersistedFields ==
    ASSUME NEW m \in Tracker
    PROVE  /\ Persisted(m) \in File
           /\ \A n, b, bd, bm, t : GoodAt(m, n, b, bd, bm, t)
                                     => GoodAt(Persisted(m), n, b, bd, bm, t)
<1>1. /\ Persisted(m).date = m.date
      /\ Persisted(m).month = m.month
      /\ Persisted(m).today = m.today
      /\ Persisted(m).inMonth = m.inMonth
      /\ Persisted(m).life = m.life
      /\ Persisted(m) \in File
  BY DEF Persisted, Tracker, File
<1> QED
  BY <1>1 DEF GoodAt

\* Whatever saves fail, the file is the old one or one that was written.
LEMMA SavesFrom ==
    ASSUME NEW T, disk \in T, NEW saved \in Seq(T), Saves(saved), budget \in Nat
    PROVE  disk' \in T /\ budget' \in Nat
  BY DEF Saves, Spend

\* The rollover writes good files only.
LEMMA RolloverSavesGood ==
    ASSUME IInv
    PROVE  RolloverSaves \in Seq(GoodFiles)
<1> DEFINE s1 == SaveIf(NewDay(mem) # mem, NewDay(mem))
           s2 == SaveIf(Rolled # NewDay(mem), Rolled)
<1>1. Persisted(NewDay(mem)) \in GoodFiles /\ Persisted(Rolled) \in GoodFiles
  BY RolledGood, PersistedFields DEF GoodFiles, Good
<1>2. s1 \in Seq(GoodFiles) /\ s2 \in Seq(GoodFiles)
  BY <1>1 DEF SaveIf
<1> HIDE DEF s1, s2
<1>3. s1 \o s2 \in Seq(GoodFiles)
  BY <1>2
<1> QED
  BY <1>3 DEF RolloverSaves, s1, s2

-----------------------------------------------------------------------------
\* The daemon starts good: with no file, with one it cannot parse, and with one
\* of a version that did not count months.
LEMMA InitHolds == Init => IInv
<1> SUFFICES ASSUME Init PROVE IInv
  OBVIOUS
<1> USE EnergyAssumption
<1>1. now = 0 /\ day = 0 /\ disk \in {None, Corrupt, OldFile} /\ mem = Loaded(disk, 0)
      /\ lost = FALSE /\ budget \in Nat /\ total = mem.life
      /\ byMonth = [m \in 0 .. Days |-> Zero]
      /\ byDay = [d \in 0 .. Days |-> IF d = 0 THEN mem.today ELSE Zero]
      /\ begun = [d \in {0} |-> IF disk = OldFile THEN -1 ELSE 0]
  BY DEF Init
<1>2. 0 \in 0 .. Days /\ MonthOf(0) \in 0 .. Days
  BY MonthType
<1>3. Used \in Counters /\ Used["consumed"] = 1 /\ Zero["consumed"] = 0
  BY DEF Used, Counters, Zero, Kinds
<1>4. /\ mem \in Tracker
      /\ mem.date = 0
      /\ mem.month \in {None, MonthOf(0)}
      /\ mem.inMonth = Zero
      /\ mem.last = None
      /\ \/ mem.today = Zero /\ mem.life = Zero
         \/ disk = OldFile /\ mem.today = Used /\ mem.life = Used
  <2>1. CASE disk \in {None, Corrupt}
    <3>1. mem = Fresh(0)
      BY <1>1, <2>1 DEF Loaded
    <3>2. /\ Fresh(0) \in Tracker
          /\ Fresh(0).date = 0 /\ Fresh(0).month = None /\ Fresh(0).last = None
          /\ Fresh(0).inMonth = Zero /\ Fresh(0).today = Zero /\ Fresh(0).life = Zero
      BY ZeroWithin DEF Fresh, Tracker
    <3> QED
      BY <3>1, <3>2
  <2>2. CASE disk \notin {None, Corrupt} /\ disk = OldFile
    <3>1. /\ OldFile.date = 0 /\ OldFile.month = None /\ None # MonthOf(0)
          /\ OldFile.today = Used /\ OldFile.life = Used
      BY <1>2 DEF OldFile
    <3> DEFINE rec == [date |-> 0, month |-> MonthOf(0), today |-> Used,
                       inMonth |-> Zero, life |-> Used, last |-> None,
                       instant |-> 0, fans |-> 0, error |-> ""]
    <3>2. Loaded(OldFile, 0) = rec
      BY <2>2, <3>1 DEF Loaded, Fresh
    <3>3. /\ rec \in Tracker
          /\ rec.date = 0 /\ rec.month = MonthOf(0) /\ rec.inMonth = Zero
          /\ rec.last = None /\ rec.today = Used /\ rec.life = Used
      BY <1>2, <1>3, ZeroWithin DEF Tracker
    <3>4. mem = rec
      BY <1>1, <2>2, <3>2
    <3> HIDE DEF rec
    <3> QED
      BY <2>2, <3>3, <3>4
  <2> QED
    BY <1>1, <2>1, <2>2
<1>5. /\ byDay \in [0 .. Days -> Counters] /\ byDay[0] = mem.today
      /\ byMonth \in [0 .. Days -> Counters] /\ \A m \in 0 .. Days : byMonth[m] = Zero
      /\ total \in Counters
  BY <1>1, <1>2, <1>4, ZeroWithin DEF Tracker
<1>6. /\ DOMAIN begun = {0}
      /\ begun \in [DOMAIN begun -> Int]
      /\ begun[0] \in {-1, 0}
      /\ disk = OldFile => begun[0] = -1
  BY <1>1
<1>7. mem.today["consumed"] <= FanMax * (now - begun[0])
  <2>1. CASE begun[0] = -1
    BY <1>1, <1>3, <1>4, <2>1
  <2>2. CASE begun[0] = 0
    BY <1>1, <1>3, <1>4, <1>6, <2>2
  <2> QED
    BY <1>6, <2>1, <2>2
<1>8. Good(mem)
  BY <1>1, <1>2, <1>4, <1>5, <1>6, <1>7, <1>3, WithinReflexive, ZeroWithin DEF Good, GoodAt
<1>9. disk \in GoodFiles
  <2>1. CASE disk \notin {None, Corrupt}
    <3>1. disk = OldFile /\ mem.today = Used /\ mem.life = Used
      <4>1. mem.life = Used /\ mem.today = Used
        BY <1>1, <2>1 DEF Loaded, Fresh, OldFile
      <4> QED
        BY <1>1, <2>1, <4>1
    <3>2. /\ disk \in File
          /\ disk.date = 0 /\ disk.month = None /\ disk.today = Used /\ disk.life = Used
      BY <1>3, <3>1, ZeroWithin DEF OldFile, File
    <3>3. Good(disk)
      BY <1>1, <1>2, <1>3, <1>4, <1>5, <1>6, <1>7, <3>1, <3>2, WithinReflexive
         DEF Good, GoodAt
    <3> QED
      BY <3>2, <3>3 DEF GoodFiles
  <2> QED
    BY <2>1 DEF GoodFiles
<1>10. TypeOK
  BY <1>1, <1>2, <1>4, <1>5, <1>6, <1>9 DEF TypeOK, GoodFiles
<1> QED
  BY <1>1, <1>4, <1>6, <1>8, <1>9, <1>10 DEF IInv

\* What a step that counts nothing has to show.
Quiet == UNCHANGED <<now, day, begun, byDay, byMonth, total>>

\* A step that counts nothing keeps the invariant when it leaves good counters.
LEMMA QuietStep ==
    ASSUME IInv, Quiet, mem' \in Tracker, Good(mem'), disk' \in GoodFiles,
           lost' \in BOOLEAN, budget' \in Nat,
           mem'.last # None =>
              /\ mem'.last <= now
              /\ mem'.today["consumed"] <= FanMax * (mem'.last - begun[mem'.date])
    PROVE  IInv'
<1>1. Good(mem)' /\ disk' \in GoodFiles'
  BY DEF Quiet, Good, GoodAt, GoodFiles
<1>2. TypeOK'
  BY DEF TypeOK, IInv, Quiet, GoodFiles
<1> QED
  BY <1>1, <1>2 DEF IInv, Quiet

\* The first tick of a run or of a day keeps the invariant.
LEMMA PrimeStep == ASSUME IInv, Prime PROVE IInv'
<1>1. Rolled \in Tracker /\ Good(Rolled) /\ Rolled.date = day
  BY RolledGood
<1>2. mem' = [Rolled EXCEPT !.last = now] /\ Quiet /\ UNCHANGED lost /\ now \in Nat
  BY DEF Prime, Quiet, IInv, TypeOK
<1>3. /\ mem' \in Tracker
      /\ mem'.date = Rolled.date /\ mem'.month = Rolled.month
      /\ mem'.today = Rolled.today /\ mem'.inMonth = Rolled.inMonth
      /\ mem'.life = Rolled.life /\ mem'.last = now
  BY <1>1, <1>2 DEF Tracker
<1>4. Good(mem')
  BY <1>1, <1>3 DEF Good, GoodAt
<1>5. disk' \in GoodFiles /\ budget' \in Nat
  BY RolloverSavesGood, SavesFrom DEF Prime, IInv, TypeOK
<1>6. mem'.today["consumed"] <= FanMax * (mem'.last - begun[mem'.date])
  BY <1>3, <1>4 DEF Good, GoodAt
<1> QED
  BY <1>2, <1>3, <1>4, <1>5, <1>6, QuietStep DEF IInv, TypeOK

\* A tick that counts nothing leaves a tracker.
LEMMA IdleUpdate ==
    ASSUME NEW m \in Tracker, NEW n \in Nat, NEW i \in Int, NEW j \in Nat,
           NEW why \in {"", "not read", "unsupported"}
    PROVE  [m EXCEPT !.last = n, !.error = why, !.instant = i, !.fans = j] \in Tracker
  BY DEF Tracker

\* A tick without power to count (unit off, not in regeneration, an input
\* missing, no curve) keeps the invariant.
LEMMA TickIdleStep == ASSUME IInv, NEW r \in Readings, TickIdle(r) PROVE IInv'
<1>1. Rolled \in Tracker /\ Good(Rolled) /\ Rolled.date = day
  BY RolledGood
<1>2. /\ mem' = [Rolled EXCEPT !.last = now, !.error = Error(r), !.instant = 0, !.fans = 0]
      /\ Quiet /\ UNCHANGED lost /\ now \in Nat
  BY DEF TickIdle, Quiet, IInv, TypeOK
<1>3. Error(r) \in {"", "not read", "unsupported"}
  BY DEF Error
<1>4. /\ mem' \in Tracker
      /\ mem'.date = Rolled.date /\ mem'.month = Rolled.month
      /\ mem'.today = Rolled.today /\ mem'.inMonth = Rolled.inMonth
      /\ mem'.life = Rolled.life /\ mem'.last = now
  <2>1. 0 \in Int /\ 0 \in Nat
    OBVIOUS
  <2>2. PICK why \in {"", "not read", "unsupported"}, i \in Int, j \in Nat :
           mem' = [Rolled EXCEPT !.last = now, !.error = why,
                                 !.instant = i, !.fans = j]
    BY <1>2, <1>3, <2>1, Zenon
  <2> DEFINE rec == [Rolled EXCEPT !.last = now, !.error = why,
                                   !.instant = i, !.fans = j]
  <2>5. rec \in Tracker
    BY <1>1, <1>2, <2>2, IdleUpdate
  <2>3. /\ rec.date = Rolled.date /\ rec.month = Rolled.month
        /\ rec.today = Rolled.today /\ rec.inMonth = Rolled.inMonth
        /\ rec.life = Rolled.life /\ rec.last = now
    BY <1>1 DEF Tracker
  <2> HIDE DEF rec
  <2>4. mem' = rec
    BY <2>2 DEF rec
  <2> QED
    BY <2>5, <2>3, <2>4
<1>5. Good(mem')
  BY <1>1, <1>4 DEF Good, GoodAt
<1>6. disk' \in GoodFiles /\ budget' \in Nat
  BY RolloverSavesGood, SavesFrom DEF TickIdle, IInv, TypeOK
<1>7. mem'.today["consumed"] <= FanMax * (mem'.last - begun[mem'.date])
  BY <1>4, <1>5 DEF Good, GoodAt
<1> QED
  BY <1>2, <1>4, <1>5, <1>6, <1>7, QuietStep DEF IInv, TypeOK

\* A tick that counts keeps the invariant: it adds one interval, no longer than
\* the time since the last tick, to each span and to its history.
LEMMA TickCountsStep == ASSUME IInv, NEW r \in Readings, TickCounts(r) PROVE IInv'
<1> DEFINE dt == Interval(Rolled)
           e == Energy(r, dt)
           b == begun[day]
           saved == RolloverSaves \o <<Persisted(mem')>>
<1>1. /\ Rolled \in Tracker /\ Good(Rolled)
      /\ Rolled.date = day /\ Rolled.month = MonthOf(day)
      /\ Rolled.last \in Nat /\ Rolled.last <= now
      /\ Rolled.today["consumed"] <= FanMax * (Rolled.last - b)
  <2>1. Rolled.last # None
    BY DEF TickCounts
  <2> QED
    BY <2>1, RolledGood
<1>2. /\ day \in 0 .. Days /\ MonthOf(day) \in 0 .. Days /\ now \in Nat
      /\ day \in DOMAIN begun /\ b \in Int /\ FanMax \in Nat
      /\ byDay \in [0 .. Days -> Counters]
      /\ byMonth \in [0 .. Days -> Counters]
      /\ total \in Counters
  BY MonthType, EnergyAssumption DEF IInv, TypeOK
<1>3. dt \in Nat /\ dt <= now - Rolled.last
  <2>1. Cap \in Nat /\ now - Rolled.last \in Nat
    BY <1>1, <1>2, EnergyAssumption
  <2> QED
    BY <2>1 DEF Interval
<1>4. e \in Counters /\ e["consumed"] <= FanMax * dt
  BY <1>3, EnergyType
<1>5. /\ byDay' = [byDay EXCEPT ![day] = Add(@, e)]
      /\ byMonth' = [byMonth EXCEPT ![MonthOf(day)] = Add(@, e)]
      /\ total' = Add(total, e)
      /\ mem' = [Accumulated(Rolled, r) EXCEPT !.last = now]
      /\ Saves(saved)
      /\ UNCHANGED <<now, day, begun, lost>>
  BY DEF TickCounts
<1>6. Watts(r) \in Int /\ FanWatts(r) \in Nat
  BY EnergyAssumption
<1>7. Accumulated(Rolled, r) =
         [Rolled EXCEPT !.today = Add(Rolled.today, e), !.inMonth = Add(Rolled.inMonth, e),
                        !.life = Add(Rolled.life, e), !.instant = Watts(r),
                        !.fans = FanWatts(r), !.error = ""]
  BY <1>1 DEF Accumulated, Tracker
<1>8. /\ Rolled.today \in Counters /\ Rolled.inMonth \in Counters /\ Rolled.life \in Counters
      /\ Add(Rolled.today, e) \in Counters
      /\ Add(Rolled.inMonth, e) \in Counters
      /\ Add(Rolled.life, e) \in Counters
  BY <1>1, <1>4, AddType DEF Tracker
<1> HIDE DEF dt, e, b, saved
<1>9. /\ mem' \in Tracker
      /\ mem'.date = day /\ mem'.month = MonthOf(day) /\ mem'.last = now
      /\ mem'.today = Add(Rolled.today, e)
      /\ mem'.inMonth = Add(Rolled.inMonth, e)
      /\ mem'.life = Add(Rolled.life, e)
  BY <1>1, <1>2, <1>5, <1>6, <1>7, <1>8 DEF Tracker
<1>10. /\ byDay' \in [0 .. Days -> Counters]
       /\ byMonth' \in [0 .. Days -> Counters]
       /\ total' \in Counters
       /\ byDay'[day] = Add(byDay[day], e)
       /\ byMonth'[MonthOf(day)] = Add(byMonth[MonthOf(day)], e)
       /\ \A d \in 0 .. Days : Within(byDay[d], byDay'[d])
       /\ \A m \in 0 .. Days : Within(byMonth[m], byMonth'[m])
       /\ Within(total, total')
  BY <1>2, <1>4, <1>5, AddType, WithinReflexive
<1>11. mem'.today["consumed"] <= FanMax * (now - b)
  <2>1. mem'.today["consumed"] = Rolled.today["consumed"] + e["consumed"]
    BY <1>9 DEF Add, Kinds
  <2>2. FanMax * dt <= FanMax * (now - Rolled.last)
    <3>1. now - Rolled.last \in Nat
      BY <1>1, <1>2
    <3> QED
      BY <1>2, <1>3, <3>1, ProductMonotone
  <2>3. FanMax * (Rolled.last - b) + FanMax * (now - Rolled.last) = FanMax * (now - b)
    BY <1>1, <1>2
  <2>4. /\ Rolled.today["consumed"] \in Nat /\ e["consumed"] \in Nat
        /\ FanMax * dt \in Int /\ FanMax * (now - Rolled.last) \in Int
        /\ FanMax * (Rolled.last - b) \in Int
    BY <1>1, <1>2, <1>3, <1>4, <1>8, ConsumedNat
  <2> QED
    BY <1>1, <1>4, <2>1, <2>2, <2>3, <2>4
<1>12. GoodAt(mem', now, begun, byDay', byMonth', total')
  <2>1. /\ Within(Rolled.today, byDay[day])
        /\ Within(Rolled.inMonth, byMonth[MonthOf(day)])
        /\ Within(Rolled.life, total)
    BY <1>1, <1>2, EnergyAssumption DEF Good, GoodAt
  <2>2. byDay[day] \in Counters /\ byMonth[MonthOf(day)] \in Counters
    BY <1>2
  <2>3. /\ Within(mem'.today, byDay'[day])
        /\ Within(mem'.inMonth, byMonth'[MonthOf(day)])
        /\ Within(mem'.life, total')
    BY <1>2, <1>4, <1>5, <1>8, <1>9, <1>10, <2>1, <2>2, AddMonotone
  <2> QED
    BY <1>2, <1>9, <1>11, <2>3 DEF GoodAt, b
<1>13. \A f \in GoodFiles : f \in File \cup {None, Corrupt}
                           /\ (f \notin {None, Corrupt}
                                => GoodAt(f, now, begun, byDay', byMonth', total'))
  <2> SUFFICES ASSUME NEW f \in GoodFiles, f \notin {None, Corrupt}
               PROVE  f \in File /\ GoodAt(f, now, begun, byDay', byMonth', total')
    BY DEF GoodFiles
  <2>1. f \in File /\ GoodAt(f, now, begun, byDay, byMonth, total)
    BY DEF GoodFiles, Good
  <2>2. f.today \in Counters /\ f.inMonth \in Counters /\ f.life \in Counters
    BY <2>1 DEF File
  <2>3. /\ DOMAIN begun \subseteq 0 .. Days
        /\ \A d \in DOMAIN begun : begun[d] \in Int
    BY DEF IInv, TypeOK
  <2>4. Grown(now, begun, byDay, byMonth, total, now, begun, byDay', byMonth', total')
    BY <1>2, <1>10, <2>3 DEF Grown
  <2> QED
    BY <2>1, <2>2, <2>4, GoodStays
<1>14. disk' \in GoodFiles' /\ budget' \in Nat
  <2> DEFINE later == {f \in File : GoodAt(f, now, begun, byDay', byMonth', total')}
                        \cup {None, Corrupt}
  <2>1. GoodFiles \subseteq later
    BY <1>13
  <2>2. Persisted(mem') \in later
    BY <1>9, <1>12, PersistedFields
  <2>3. later = GoodFiles'
    BY <1>5 DEF GoodFiles, Good
  <2>4. disk \in GoodFiles /\ RolloverSaves \in Seq(GoodFiles) /\ budget \in Nat
    BY RolloverSavesGood DEF IInv, TypeOK
  <2> HIDE DEF later
  <2>5. disk \in later /\ RolloverSaves \in Seq(later)
    BY <2>1, <2>4
  <2>6. saved \in Seq(later)
    BY <2>2, <2>5 DEF saved
  <2> QED
    BY <1>5, <2>3, <2>4, <2>5, <2>6, SavesFrom
<1>15. TypeOK'
  BY <1>5, <1>9, <1>10, <1>14 DEF TypeOK, IInv, GoodFiles
<1>16. Good(mem)'
  BY <1>5, <1>12 DEF Good
<1> QED
  BY <1>2, <1>5, <1>9, <1>11, <1>14, <1>15, <1>16 DEF IInv, b

\* The fields of the tracker and of the file have their types.
LEMMA Readers ==
    ASSUME IInv
    PROVE  /\ mem \in Tracker /\ disk \in File \cup {None, Corrupt}
           /\ mem.today \in Counters /\ mem.inMonth \in Counters /\ mem.life \in Counters
           /\ disk \notin {None, Corrupt} =>
                 /\ disk \in File /\ Good(disk)
                 /\ disk.today \in Counters /\ disk.inMonth \in Counters
                 /\ disk.life \in Counters
  BY DEF IInv, TypeOK, GoodFiles, Tracker, File

\* Time passing and midnights keep the invariant.
LEMMA ClockStep ==
    ASSUME IInv, now' \in Nat, now <= now',
           UNCHANGED <<mem, disk, byDay, byMonth, total, lost, budget>>,
           DOMAIN begun \subseteq DOMAIN begun', DOMAIN begun' \subseteq 0 .. Days,
           begun' \in [DOMAIN begun' -> Int],
           \A d \in DOMAIN begun : begun'[d] = begun[d],
           \A d \in DOMAIN begun' : begun'[d] <= now',
           \A d \in DOMAIN begun' : 0 .. d \subseteq DOMAIN begun',
           day' \in DOMAIN begun'
    PROVE  IInv'
<1>1. Grown(now, begun, byDay, byMonth, total, now', begun', byDay', byMonth', total')
  BY WithinReflexive DEF Grown, IInv, TypeOK
<1>2. GoodAt(mem', now', begun', byDay', byMonth', total')
  BY <1>1, GoodStays, Readers DEF IInv, Good
<1>3. disk' \notin {None, Corrupt} => GoodAt(disk', now', begun', byDay', byMonth', total')
  BY <1>1, GoodStays, Readers DEF Good
<1>4. Good(mem)' /\ disk' \in GoodFiles'
  BY <1>2, <1>3, Readers DEF Good, GoodFiles
<1>5. mem'.last # None =>
         /\ mem'.last <= now'
         /\ mem'.today["consumed"] <= FanMax * (mem'.last - begun'[mem'.date])
  <2>1. mem' = mem /\ mem.date \in DOMAIN begun /\ begun'[mem.date] = begun[mem.date]
    BY DEF IInv, Good, GoodAt
  <2>2. mem.last # None => mem.last \in Nat /\ now \in Nat
    BY Readers DEF Tracker, IInv, TypeOK
  <2> QED
    BY <2>1, <2>2 DEF IInv
<1>6. TypeOK'
  BY DEF IInv, TypeOK
<1> QED
  BY <1>4, <1>5, <1>6 DEF IInv

\* Every step keeps the invariant.
LEMMA Step == IInv /\ [Next]_vars => IInv'
<1> SUFFICES ASSUME IInv, [Next]_vars PROVE IInv'
  OBVIOUS
<1>1. CASE Prime
  BY <1>1, PrimeStep
<1>2. CASE Pass
  <2>1. now' \in Nat /\ now <= now' /\ \A d \in DOMAIN begun : begun[d] <= now'
    BY <1>2 DEF Pass, IInv, TypeOK
  <2> QED
    BY <1>2, <2>1, ClockStep DEF Pass, IInv, TypeOK
<1>3. CASE Midnight
  <2>1. day + 1 \in 0 .. Days /\ now \in Nat
    BY <1>3, EnergyAssumption DEF Midnight, IInv, TypeOK
  <2>2. /\ DOMAIN begun' = DOMAIN begun \cup {day + 1}
        /\ begun' \in [DOMAIN begun' -> Int]
        /\ \A d \in DOMAIN begun : begun'[d] = begun[d]
        /\ \A d \in DOMAIN begun' : begun'[d] <= now
        /\ \A d \in DOMAIN begun' : 0 .. d \subseteq DOMAIN begun'
    <3>1. CASE day + 1 \in DOMAIN begun
      BY <1>3, <3>1 DEF Midnight, IInv, TypeOK
    <3>2. CASE day + 1 \notin DOMAIN begun
      BY <1>3, <2>1, <3>2 DEF Midnight, IInv, TypeOK
    <3> QED
      BY <3>1, <3>2
  <2> QED
    BY <1>3, <2>1, <2>2, ClockStep DEF Midnight, IInv, TypeOK
<1>4. CASE SetBack
  <2>1. day' \in 0 .. day /\ day' \in 0 .. Days /\ lost' \in BOOLEAN /\ budget' \in Nat
    BY <1>4 DEF SetBack, Spend, IInv, TypeOK
  <2>2. UNCHANGED <<now, mem, disk, begun, byDay, byMonth, total>>
    BY <1>4 DEF SetBack
  <2>3. Good(mem)' = Good(mem) /\ GoodFiles' = GoodFiles
    BY <2>2 DEF Good, GoodFiles
  <2>4. TypeOK'
    BY <2>1, <2>2 DEF TypeOK, IInv
  <2> QED
    BY <2>1, <2>2, <2>3, <2>4 DEF IInv
<1>5. CASE Restart
  BY <1>5, LoadedGood, QuietStep DEF Restart, Spend, Quiet, IInv, TypeOK
<1>6. ASSUME NEW r \in Readings, TickIdle(r) \/ TickCounts(r) PROVE IInv'
  BY <1>6, TickIdleStep, TickCountsStep
<1>7. CASE UNCHANGED vars
  BY <1>7 DEF vars, IInv, TypeOK, Good, GoodFiles
<1> QED
  BY <1>1, <1>2, <1>3, <1>4, <1>5, <1>6, <1>7 DEF Next

\* The inductive invariant holds in every state, with ticks, midnights, clocks
\* set back, restarts and failed saves in any order.
THEOREM Invariance == Spec => []IInv
  BY InitHolds, Step, PTL DEF Spec

\* Type correctness of the tracker, its file and the histories.
THEOREM EnergyTypeCorrect == Spec => []TypeOK
<1>1. IInv => TypeOK
  BY DEF IInv
<1> QED
  BY <1>1, Invariance, PTL

\* No interval is counted twice in any span, for any readings, calibration cap,
\* length of months and number of faults: accumulate, the rollovers, save and
\* Load together.
THEOREM EnergyOnlyOnce == Spec => []NothingTwice
<1>1. IInv => NothingTwice
  BY DEF IInv, Good, GoodAt, NothingTwice
<1> QED
  BY <1>1, Invariance, PTL

\* No interval reaches back over a midnight: today's consumption is at most what
\* the fans can have drawn since the day began (the rollover forgets the time
\* of the last tick, energy_tracker.go:243).
THEOREM TodayIsToday == Spec => []TodayWithinDay
<1>1. IInv => TodayWithinDay
  BY DEF IInv, Good, GoodAt, TodayWithinDay
<1> QED
  BY <1>1, Invariance, PTL

-----------------------------------------------------------------------------
(* Nothing is missing.  What makes it inductive is the life counter, by    *)
(* which a restart is judged (lost): a file whose life counter is still    *)
(* the total has missed nothing in any other span, because an interval     *)
(* that adds nothing to the life counter adds nothing to the others.       *)

\* Counters f on the date n: if nothing was counted since they were written,
\* they are what was counted in their spans, and later spans are empty.
CompleteAt(f, n, bd, bm, t) ==
    /\ f.date <= n
    /\ f.month # None => f.month <= MonthOf(n)
    /\ f.life = t =>
          /\ f.today = bd[f.date]
          /\ \A d \in 0 .. Days : d > f.date => bd[d] = Zero
          /\ f.month # None => f.inMonth = bm[f.month]
          /\ \A m \in 0 .. Days : f.month = None \/ m > f.month => bm[m] = Zero

\* ... in the present state.
Complete(f) == CompleteAt(f, day, byDay, byMonth, total)

\* The state files a restart may find while nothing is lost.
CompleteFiles == {f \in GoodFiles : f \in {None, Corrupt} \/ Complete(f)}

\* No span holds more than all of them.
SpansWithin(bd, bm, t) == \A d \in 0 .. Days : Within(bd[d], t) /\ Within(bm[d], t)

\* The inductive invariant of NothingMissing.
MInv == /\ IInv
        /\ ~lost => /\ mem.life = total
                    /\ Complete(mem)
                    /\ disk \in CompleteFiles
                    /\ SpansWithin(byDay, byMonth, total)

\* The months of later days are not earlier.
LEMMA MonthMonotone ==
    ASSUME NEW d \in Nat, NEW e \in Nat, d <= e
    PROVE  MonthOf(d) \in Nat /\ MonthOf(d) <= MonthOf(e)
  BY EnergyAssumption DEF MonthOf

\* Counters within zero are zero.
LEMMA ZeroLeast == \A c \in Counters : Within(c, Zero) => c = Zero
  BY DEF Within, Zero, Counters, Kinds

\* Within is antisymmetric.
LEMMA WithinAntisymmetric ==
    ASSUME NEW a \in Counters, NEW b \in Counters, Within(a, b), Within(b, a)
    PROVE  a = b
  BY DEF Within, Counters

\* Energy that does not change counters changes none.
LEMMA AddNothing ==
    ASSUME NEW a \in Counters, NEW c \in Counters, NEW e \in Counters, Add(a, e) = a
    PROVE  Add(c, e) = c
<1>1. \A k \in Kinds : e[k] = 0
  BY DEF Add, Counters
<1> QED
  BY <1>1 DEF Add, Counters

\* save: the file is as complete as the tracker.
LEMMA PersistedComplete ==
    ASSUME NEW m, NEW n, NEW bd, NEW bm, NEW t, CompleteAt(m, n, bd, bm, t)
    PROVE  CompleteAt(Persisted(m), n, bd, bm, t)
<1>1. /\ Persisted(m).date = m.date
      /\ Persisted(m).month = m.month
      /\ Persisted(m).today = m.today
      /\ Persisted(m).inMonth = m.inMonth
      /\ Persisted(m).life = m.life
  BY DEF Persisted
<1> QED
  BY <1>1 DEF CompleteAt

\* The rollovers of the day and of the month lose nothing: what they set to zero
\* has counted nothing yet.
LEMMA RolledComplete ==
    ASSUME MInv, ~lost
    PROVE  /\ NewDay(mem).life = total /\ Complete(NewDay(mem))
           /\ Rolled.life = total /\ Complete(Rolled)
<1>1. day \in 0 .. Days /\ MonthOf(day) \in 0 .. Days
  BY MonthType DEF MInv, IInv, TypeOK
<1>mem. /\ mem \in Tracker /\ mem.date \in Nat /\ mem.date <= day
        /\ mem.life = total /\ Complete(mem)
  BY DEF MInv, IInv, TypeOK, Tracker, Complete, CompleteAt
<1> DEFINE n == NewDay(mem)
<1>2. /\ n \in Tracker /\ n.date = day /\ n.month = mem.month
      /\ n.inMonth = mem.inMonth /\ n.life = mem.life
      /\ mem.date # day => n.today = Zero
      /\ mem.date = day => n = mem
  BY <1>1, <1>mem, NewDayFields
<1> HIDE DEF n
<1>3. Complete(n)
  <2>1. CASE mem.date = day
    BY <2>1, <1>2, <1>mem
  <2>2. CASE mem.date # day
    BY <2>2, <1>1, <1>2, <1>mem DEF Complete, CompleteAt
  <2> QED
    BY <2>1, <2>2
<1>4. Rolled = NewMonth(n)
  BY DEF Rolled, n
<1>5. /\ Rolled.date = day /\ Rolled.month = MonthOf(day)
      /\ Rolled.today = n.today /\ Rolled.life = n.life
      /\ n.month = MonthOf(day) => Rolled.inMonth = n.inMonth
      /\ n.month # MonthOf(day) => Rolled.inMonth = Zero
  BY <1>1, <1>2, <1>4, NewMonthFields
<1>6. n.month = None \/ n.month \in Nat
  BY <1>2 DEF Tracker
<1>7. Complete(Rolled)
  BY <1>1, <1>2, <1>3, <1>5, <1>6, <1>mem, EnergyAssumption DEF Complete, CompleteAt
<1> QED
  BY <1>2, <1>3, <1>5, <1>7, <1>mem DEF n

\* Every file the rollover writes is complete.
LEMMA RolloverSavesComplete ==
    ASSUME MInv, ~lost
    PROVE  RolloverSaves \in Seq(CompleteFiles)
<1> DEFINE s1 == SaveIf(NewDay(mem) # mem, NewDay(mem))
           s2 == SaveIf(Rolled # NewDay(mem), Rolled)
<1>1. /\ Persisted(NewDay(mem)) \in GoodFiles /\ Complete(Persisted(NewDay(mem)))
      /\ Persisted(Rolled) \in GoodFiles /\ Complete(Persisted(Rolled))
  BY RolledGood, PersistedFields, RolledComplete, PersistedComplete
     DEF GoodFiles, Good, Complete, MInv
<1>2. s1 \in Seq(CompleteFiles) /\ s2 \in Seq(CompleteFiles)
  BY <1>1 DEF SaveIf, CompleteFiles
<1> HIDE DEF s1, s2
<1>3. s1 \o s2 \in Seq(CompleteFiles)
  BY <1>2
<1> QED
  BY <1>3 DEF RolloverSaves, s1, s2

\* At the start nothing has been counted but what the file says.
LEMMA MissingInit == Init => MInv
<1> SUFFICES ASSUME Init PROVE MInv
  OBVIOUS
<1>1. IInv
  BY InitHolds
<1>2. /\ day = 0 /\ disk \in {None, Corrupt, OldFile} /\ mem = Loaded(disk, 0)
      /\ total = mem.life
      /\ byMonth = [m \in 0 .. Days |-> Zero]
      /\ byDay = [d \in 0 .. Days |-> IF d = 0 THEN mem.today ELSE Zero]
  BY DEF Init
<1>3. /\ 0 \in 0 .. Days /\ MonthOf(0) \in 0 .. Days
      /\ None \notin Int /\ Zero \in Counters
  BY MonthType, EnergyAssumption, ZeroWithin
<1>4. /\ mem.date = 0 /\ mem.month \in {None, MonthOf(0)} /\ mem.inMonth = Zero
      /\ mem.today = mem.life
  <2>1. CASE disk \in {None, Corrupt}
    BY <1>2, <2>1 DEF Loaded, Fresh
  <2>2. CASE disk \notin {None, Corrupt} /\ disk = OldFile
    BY <1>2, <1>3, <2>2 DEF Loaded, Fresh, OldFile
  <2> QED
    BY <1>2, <2>1, <2>2
<1>5. /\ \A m \in 0 .. Days : byMonth[m] = Zero
      /\ byDay[0] = mem.today
      /\ \A d \in 0 .. Days : d > 0 => byDay[d] = Zero
  BY <1>2, <1>3
<1>6. Complete(mem)
  BY <1>2, <1>3, <1>4, <1>5 DEF Complete, CompleteAt
<1>7. disk \in CompleteFiles
  <2>1. CASE disk \notin {None, Corrupt}
    <3>1. disk = OldFile /\ mem.today = Used
      BY <1>2, <2>1 DEF Loaded, Fresh, OldFile
    <3>2. Complete(OldFile)
      BY <1>2, <1>3, <1>5, <3>1 DEF Complete, CompleteAt, OldFile
    <3> QED
      BY <1>1, <3>1, <3>2 DEF CompleteFiles, IInv
  <2> QED
    BY <1>1, <2>1 DEF CompleteFiles, IInv
<1>8. SpansWithin(byDay, byMonth, total)
  BY <1>1, <1>2, <1>4, <1>5, ZeroWithin, WithinReflexive DEF SpansWithin, IInv, TypeOK
<1> QED
  BY <1>1, <1>2, <1>6, <1>7, <1>8 DEF MInv

\* A tick that counts nothing loses nothing.
LEMMA QuietComplete ==
    ASSUME MInv, Quiet, UNCHANGED lost, NEW m \in Tracker,
           m.life = total, Complete(m),
           mem'.date = m.date, mem'.month = m.month, mem'.today = m.today,
           mem'.inMonth = m.inMonth, mem'.life = m.life,
           ~lost => disk' \in CompleteFiles,
           IInv'
    PROVE  MInv'
<1>1. Complete(mem)'
  BY DEF Complete, CompleteAt, Quiet
<1>2. CompleteFiles' = CompleteFiles
  BY DEF CompleteFiles, GoodFiles, Good, Complete, Quiet
<1> QED
  BY <1>1, <1>2 DEF MInv, Quiet

\* A tick that counts adds the same to the tracker and to the histories; an
\* older file that misses it has another life counter.
LEMMA CountsComplete ==
    ASSUME MInv, NEW r \in Readings, TickCounts(r), IInv'
    PROVE  MInv'
<1> SUFFICES ASSUME ~lost
             PROVE  /\ mem'.life = total'
                    /\ CompleteAt(mem', day', byDay', byMonth', total')
                    /\ disk' \in CompleteFiles'
                    /\ SpansWithin(byDay', byMonth', total')
  BY DEF MInv, Complete, TickCounts
<1> DEFINE e == Energy(r, Interval(Rolled))
           saved == RolloverSaves \o <<Persisted(mem')>>
<1>1. /\ IInv
      /\ Rolled \in Tracker /\ Good(Rolled)
      /\ Rolled.date = day /\ Rolled.month = MonthOf(day)
      /\ Rolled.last \in Nat /\ Rolled.last <= now
      /\ Rolled.life = total /\ Complete(Rolled)
  BY RolledGood, RolledComplete DEF TickCounts, MInv
<1>2. /\ day \in 0 .. Days /\ MonthOf(day) \in 0 .. Days /\ now \in Nat
      /\ byDay \in [0 .. Days -> Counters]
      /\ byMonth \in [0 .. Days -> Counters]
      /\ total \in Counters
      /\ SpansWithin(byDay, byMonth, total)
      /\ None \notin Int
  BY MonthType, EnergyAssumption DEF MInv, IInv, TypeOK
<1>3. e \in Counters
  <2>1. Interval(Rolled) \in Nat
    BY <1>1, <1>2, EnergyAssumption DEF Interval
  <2> QED
    BY <2>1, EnergyType
<1>4. /\ byDay' = [byDay EXCEPT ![day] = Add(byDay[day], e)]
      /\ byMonth' = [byMonth EXCEPT ![MonthOf(day)] = Add(byMonth[MonthOf(day)], e)]
      /\ total' = Add(total, e)
      /\ mem' = [Accumulated(Rolled, r) EXCEPT !.last = now]
      /\ Saves(saved)
      /\ UNCHANGED <<now, day, begun, lost>>
  BY DEF TickCounts
<1>5. Accumulated(Rolled, r) =
         [Rolled EXCEPT !.today = Add(Rolled.today, e), !.inMonth = Add(Rolled.inMonth, e),
                        !.life = Add(Rolled.life, e), !.instant = Watts(r),
                        !.fans = FanWatts(r), !.error = ""]
  BY <1>1 DEF Accumulated, Tracker
<1> HIDE DEF e, saved
<1>6. /\ mem'.date = day /\ mem'.month = MonthOf(day)
      /\ mem'.today = Add(Rolled.today, e)
      /\ mem'.inMonth = Add(Rolled.inMonth, e)
      /\ mem'.life = Add(Rolled.life, e)
  BY <1>1, <1>4, <1>5 DEF Tracker
<1>7. /\ byDay'[day] = Add(byDay[day], e)
      /\ byMonth'[MonthOf(day)] = Add(byMonth[MonthOf(day)], e)
      /\ \A d \in 0 .. Days : d # day => byDay'[d] = byDay[d]
      /\ \A m \in 0 .. Days : m # MonthOf(day) => byMonth'[m] = byMonth[m]
  BY <1>2, <1>4
<1>8. CompleteAt(mem', day', byDay', byMonth', total')
  <2>1. /\ Rolled.today = byDay[day]
        /\ \A d \in 0 .. Days : d > day => byDay[d] = Zero
        /\ Rolled.inMonth = byMonth[MonthOf(day)]
        /\ \A m \in 0 .. Days : m > MonthOf(day) => byMonth[m] = Zero
    BY <1>1, <1>2 DEF Complete, CompleteAt
  <2> QED
    BY <2>1, <1>2, <1>4, <1>6, <1>7 DEF CompleteAt
<1>9. SpansWithin(byDay', byMonth', total')
  <2>1. total' \in Counters /\ Within(total, total')
    BY <1>2, <1>3, <1>4, AddType
  <2> SUFFICES ASSUME NEW d \in 0 .. Days
               PROVE  Within(byDay'[d], total') /\ Within(byMonth'[d], total')
    BY DEF SpansWithin
  <2>2. /\ byDay[d] \in Counters /\ Within(byDay[d], total)
        /\ byMonth[d] \in Counters /\ Within(byMonth[d], total)
    BY <1>2 DEF SpansWithin
  <2>3. Within(byDay[d], total') /\ Within(byMonth[d], total')
    BY <1>2, <2>1, <2>2, WithinTransitive
  <2>4. Within(Add(byDay[d], e), total') /\ Within(Add(byMonth[d], e), total')
    BY <1>2, <1>3, <1>4, <2>2, AddMonotone
  <2> QED
    BY <1>7, <2>3, <2>4
<1>10. \A f \in CompleteFiles :
          f \in {None, Corrupt} \/ CompleteAt(f, day, byDay', byMonth', total')
  <2> SUFFICES ASSUME NEW f \in CompleteFiles, f \notin {None, Corrupt}
               PROVE  CompleteAt(f, day, byDay', byMonth', total')
    OBVIOUS
  <2>1. f \in File /\ Good(f) /\ CompleteAt(f, day, byDay, byMonth, total)
    BY DEF CompleteFiles, GoodFiles, Complete
  <2>2. CASE f.life = total'
    <3>1. f.life \in Counters /\ total' \in Counters /\ Within(total, total') /\ Within(f.life, total)
      BY <1>2, <1>3, <1>4, <2>1, AddType DEF File, Good, GoodAt
    <3>2. total' = total
      BY <1>2, <2>2, <3>1, WithinAntisymmetric
    <3>3. byDay' = byDay /\ byMonth' = byMonth
      <4>1. /\ Add(byDay[day], e) = byDay[day]
            /\ Add(byMonth[MonthOf(day)], e) = byMonth[MonthOf(day)]
        <5>1. Add(total, e) = total
          BY <1>4, <3>2
        <5>2. byDay[day] \in Counters /\ byMonth[MonthOf(day)] \in Counters
          BY <1>2
        <5> QED
          BY <1>2, <1>3, <5>1, <5>2, AddNothing
      <4> QED
        BY <1>2, <1>4, <4>1
    <3> QED
      BY <2>1, <3>2, <3>3
  <2>3. CASE f.life # total'
    BY <2>1, <2>3 DEF CompleteAt
  <2> QED
    BY <2>2, <2>3
<1>11. disk' \in CompleteFiles'
  <2> DEFINE later == {f \in File : CompleteAt(f, day, byDay', byMonth', total')}
                        \cup {None, Corrupt}
  <2>1. CompleteFiles \subseteq later
    BY <1>10 DEF CompleteFiles, GoodFiles
  <2>2. Persisted(mem') \in later
    <3>1. mem' \in Tracker
      BY DEF IInv, TypeOK
    <3> QED
      BY <3>1, <1>4, <1>8, PersistedFields, PersistedComplete
  <2>3. disk \in CompleteFiles /\ RolloverSaves \in Seq(CompleteFiles) /\ budget \in Nat
    BY RolloverSavesComplete DEF MInv, IInv, TypeOK
  <2> HIDE DEF later
  <2>4. disk \in later /\ RolloverSaves \in Seq(later)
    BY <2>1, <2>3
  <2>5. saved \in Seq(later)
    BY <2>2, <2>4 DEF saved
  <2>6. disk' \in later
    BY <1>4, <2>4, <2>5, <2>3, SavesFrom
  <2>7. disk' \in GoodFiles'
    BY DEF IInv
  <2> QED
    BY <1>4, <2>6, <2>7 DEF CompleteFiles, Complete, later
<1>12. mem'.life = total'
  BY <1>1, <1>4, <1>6
<1> QED
  BY <1>8, <1>9, <1>11, <1>12

\* What is left alone stays complete on a later date.
LEMMA CompleteLater ==
    ASSUME NEW f, f.date \in Nat, f.month \in Nat \cup {None},
           NEW n \in Nat, NEW p \in Nat, n <= p,
           NEW bd, NEW bm, NEW t, CompleteAt(f, n, bd, bm, t)
    PROVE  CompleteAt(f, p, bd, bm, t)
<1>1. MonthOf(n) \in Nat /\ MonthOf(p) \in Nat /\ MonthOf(n) <= MonthOf(p)
  BY MonthMonotone
<1> QED
  BY <1>1, EnergyAssumption DEF CompleteAt

\* Time passing and midnights lose nothing.
LEMMA ClockComplete ==
    ASSUME MInv, IInv', day <= day',
           UNCHANGED <<mem, disk, byDay, byMonth, total, lost>>
    PROVE  MInv'
<1>1. day \in Nat /\ day' \in Nat
  BY DEF MInv, IInv, TypeOK
<1> SUFFICES ASSUME ~lost
             PROVE  Complete(mem)' /\ disk' \in CompleteFiles'
  BY DEF MInv
<1>2. Complete(mem)'
  BY <1>1, CompleteLater DEF MInv, IInv, TypeOK, Tracker, Complete
<1>3. disk' \in CompleteFiles'
  <2>1. CASE disk \in {None, Corrupt}
    BY <2>1 DEF CompleteFiles, IInv
  <2>2. CASE disk \notin {None, Corrupt}
    <3>1. disk \in File /\ Complete(disk)
      BY <2>2 DEF MInv, CompleteFiles, GoodFiles
    <3>2. Complete(disk)'
      BY <1>1, <3>1, CompleteLater DEF File, Complete
    <3> QED
      BY <3>2 DEF CompleteFiles, IInv
  <2> QED
    BY <2>1, <2>2
<1> QED
  BY <1>2, <1>3

\* Load: a file with the life counter of the tracker that stopped brings all
\* of it back.
LEMMA RestartComplete == ASSUME MInv, Restart, IInv' PROVE MInv'
<1> SUFFICES ASSUME ~lost'
             PROVE  mem'.life = total /\ CompleteAt(mem', day, byDay, byMonth, total)
  <2>1. UNCHANGED <<now, day, disk, begun, byDay, byMonth, total>>
    BY DEF Restart
  <2>2. CompleteFiles' = CompleteFiles /\ (~lost' => ~lost)
    BY <2>1 DEF Restart, CompleteFiles, GoodFiles, Good, Complete
  <2> QED
    BY <2>1, <2>2 DEF MInv, Complete
<1>1. ~lost /\ mem' = Loaded(disk, day) /\ mem'.life = total
  BY DEF Restart, MInv
<1>2. /\ day \in 0 .. Days /\ MonthOf(day) \in 0 .. Days
      /\ byDay \in [0 .. Days -> Counters]
      /\ byMonth \in [0 .. Days -> Counters]
      /\ SpansWithin(byDay, byMonth, total)
      /\ None \notin Int
  BY <1>1, MonthType, EnergyAssumption DEF MInv, IInv, TypeOK
<1>3. CASE disk \in {None, Corrupt}
  <2>1. /\ mem'.date = day /\ mem'.month = None /\ mem'.today = Zero
        /\ total = Zero
    BY <1>1, <1>3 DEF Loaded, Fresh
  <2>2. \A d \in 0 .. Days : byDay[d] = Zero /\ byMonth[d] = Zero
    BY <1>2, <2>1, ZeroLeast DEF SpansWithin
  <2> QED
    BY <1>1, <1>2, <2>1, <2>2 DEF CompleteAt
<1>4. CASE disk \notin {None, Corrupt}
  <2>1. /\ disk \in File /\ CompleteAt(disk, day, byDay, byMonth, total)
        /\ disk.date \in Nat /\ disk.month \in Nat \cup {None}
    BY <1>1, <1>4 DEF MInv, CompleteFiles, GoodFiles, Complete, File
  <2>2. /\ mem'.date = day /\ mem'.month = MonthOf(day) /\ mem'.life = disk.life
        /\ mem'.today = (IF disk.date = day THEN disk.today ELSE Zero)
        /\ mem'.inMonth = (IF disk.month = MonthOf(day) THEN disk.inMonth ELSE Zero)
    BY <1>1, <1>4 DEF Loaded, Fresh
  <2>3. disk.life = total
    BY <1>1, <2>2
  <2>4. mem'.today = byDay[day] /\ \A d \in 0 .. Days : d > day => byDay[d] = Zero
    BY <1>2, <2>1, <2>2, <2>3 DEF CompleteAt
  <2>5. /\ mem'.inMonth = byMonth[MonthOf(day)]
        /\ \A m \in 0 .. Days : m > MonthOf(day) => byMonth[m] = Zero
    BY <1>2, <2>1, <2>2, <2>3 DEF CompleteAt
  <2> QED
    BY <1>1, <1>2, <2>2, <2>4, <2>5 DEF CompleteAt
<1> QED
  BY <1>1, <1>3, <1>4

\* Every step keeps the invariant of NothingMissing.
LEMMA MissingStep == MInv /\ [Next]_vars => MInv'
<1> SUFFICES ASSUME MInv, [Next]_vars PROVE MInv'
  OBVIOUS
<1>0. IInv /\ IInv' /\ Rolled \in Tracker
  BY Step, RolledGood DEF MInv
<1>1. CASE Prime \/ \E r \in Readings : TickIdle(r)
  <2>1. CASE lost
    BY <1>0, <1>1, <2>1 DEF Prime, TickIdle, MInv
  <2>2. CASE ~lost
    <3>1. Quiet /\ UNCHANGED lost /\ Saves(RolloverSaves)
      BY <1>1 DEF Prime, TickIdle, Quiet
    <3>2. disk' \in CompleteFiles
      BY <2>2, <3>1, RolloverSavesComplete, SavesFrom DEF MInv, IInv, TypeOK
    <3>3. /\ mem'.date = Rolled.date /\ mem'.month = Rolled.month
          /\ mem'.today = Rolled.today /\ mem'.inMonth = Rolled.inMonth
          /\ mem'.life = Rolled.life
      BY <1>0, <1>1 DEF Prime, TickIdle, Tracker
    <3> QED
      BY <1>0, <2>2, <3>1, <3>2, <3>3, RolledComplete, QuietComplete
  <2> QED
    BY <2>1, <2>2
<1>2. ASSUME NEW r \in Readings, TickCounts(r) PROVE MInv'
  BY <1>0, <1>2, CountsComplete
<1>3. CASE Pass
  <2>1. day <= day'
    BY <1>3 DEF Pass, MInv, IInv, TypeOK
  <2> QED
    BY <1>0, <1>3, <2>1, ClockComplete DEF Pass
<1>4. CASE Midnight
  <2>1. day <= day'
    BY <1>4 DEF Midnight, MInv, IInv, TypeOK
  <2> QED
    BY <1>0, <1>4, <2>1, ClockComplete DEF Midnight
<1>5. CASE SetBack
  BY <1>0, <1>5 DEF SetBack, MInv
<1>6. CASE Restart
  BY <1>0, <1>6, RestartComplete
<1>7. CASE UNCHANGED vars
  <2>1. day <= day'
    BY <1>7 DEF vars, MInv, IInv, TypeOK
  <2> QED
    BY <1>0, <1>7, <2>1, ClockComplete DEF vars
<1> QED
  BY <1>1, <1>2, <1>3, <1>4, <1>5, <1>6, <1>7 DEF Next

\* Unless the daemon stopped before a save or the clock was set back over a
\* midnight, every span holds all that was counted in it: accumulate, the
\* rollovers, save and Load together, for any readings and number of faults.
THEOREM EnergyComplete == Spec => []NothingMissing
<1>1. MInv => NothingMissing
  BY MonthType, EnergyAssumption DEF MInv, IInv, TypeOK, Complete, CompleteAt, NothingMissing
<1> QED
  BY <1>1, MissingInit, MissingStep, PTL DEF Spec
=============================================================================
