-------------------------- MODULE SchedulerProofs --------------------------
(***************************************************************************)
(* Proofs about Scheduler and Silence, for every length of the day, set of *)
(* entries, cadence, deadline and clock shift.                             *)
(***************************************************************************)
EXTENDS Silence, TLAPS

(***************************************************************************)
(* Type correctness.                                                       *)
(***************************************************************************)

\* What a saved file can be read back as.
LEMMA LoadedType ==
    ASSUME TypeOK
    PROVE  Loaded \in Persisted
  BY SchedulerAssumption DEF TypeOK, Loaded, EmptySchedule, Persisted,
     NeverFired, FiredAt, Minutes

\* Saving keeps the file's type and the budget's.
LEMMA SaveType ==
    ASSUME NEW n \in Nat, TypeOK, Save(n),
           enabled' \in BOOLEAN, entries' \in SUBSET Entry,
           lastApply' \in LastApply \cup {None}, firedAt' \in FiredAt
    PROVE  /\ disk' \in Persisted \cup {None}
           /\ unsaved' \in BOOLEAN
           /\ budget' \in Nat
  <1>1. Contents' \in Persisted
    BY DEF Contents, Persisted
  <1>2. disk' \in {Contents', disk} /\ unsaved' \in BOOLEAN
    BY DEF Save
  <1>3. disk' \in Persisted \cup {None}
    BY <1>1, <1>2 DEF TypeOK
  <1>4. budget' \in Nat
    <2>1. budget \in Nat
      BY DEF TypeOK
    <2> QED
      BY <2>1 DEF Save, Spend
  <1> QED
    BY <1>2, <1>3, <1>4

LEMMA InitType == Init => TypeOK
  <1> SUFFICES ASSUME Init PROVE TypeOK
    OBVIOUS
  <1>1. NeverFired \in FiredAt
    BY DEF NeverFired, FiredAt
  <1>2. disk \in Persisted \cup {None}
    <2>1. CASE disk = None
      BY <2>1
    <2>2. CASE disk \in FirstFiles \ {None}
      <3>1. Offered \subseteq Entry
        BY SchedulerAssumption DEF Offered, Entry
      <3>2. disk \in [enabled : {TRUE}, entries : SUBSET Offered,
                     lastApply : {None}, firedAt : {NeverFired}]
        BY <2>2 DEF FirstFiles
      <3> QED
        BY <1>1, <3>1, <3>2 DEF Persisted
    <2> QED
      BY <2>1, <2>2 DEF Init
  <1>3. Loaded \in Persisted
    BY <1>1, <1>2 DEF Loaded, EmptySchedule, Persisted
  <1>4. clock \in Clock
    BY SchedulerAssumption DEF Init, Clock
  <1>5. enabled \in BOOLEAN /\ entries \in SUBSET Entry
        /\ lastApply \in LastApply \cup {None} /\ firedAt \in FiredAt
    BY <1>3 DEF Init, Persisted
  <1>6. retry = None /\ lastTick = None /\ tick = None /\ job = None
        /\ tickDay = 1 /\ unsaved = FALSE /\ punctual \in BOOLEAN
        /\ budget \in Nat
    BY SchedulerAssumption DEF Init
  <1>7. tickDay \in Nat \ {0}
    BY <1>6
  <1> QED
    BY <1>2, <1>4, <1>5, <1>6, <1>7, Zenon DEF TypeOK

\* A running tick's clock, minute and entries.
LEMMA TickType ==
    ASSUME TypeOK, tick # None
    PROVE  /\ tick \in Tick
           /\ tick.now \in Clock
           /\ tick.now.minute \in Minutes
           /\ tick.now.day \in Nat \ {0}
           /\ tick.entries \in SUBSET Entry
           /\ tick.firedAt \in FiredAt
  <1>1. tick \in Tick
    BY DEF TypeOK
  <1>2. tick.now \in Clock
    BY <1>1 DEF Tick
  <1> QED
    BY <1>1, <1>2 DEF Tick, Clock

LEMMA JobType ==
    ASSUME TypeOK, job # None
    PROVE  /\ job.entry \in Entry
           /\ job.entry.at \in Minutes
           /\ job.now \in Clock
           /\ job.now.day \in Nat \ {0}
           /\ job.now.mono \in Nat
  <1>1. job \in Job
    BY DEF TypeOK
  <1> QED
    BY <1>1 DEF Job, Clock, Entry

LEMMA RetryType ==
    ASSUME TypeOK, retry # None
    PROVE  /\ retry.entry \in Entry
           /\ retry.entry.at \in Minutes
           /\ retry.attempts \in Nat \ {0}
           /\ retry.deadline \in Nat
  <1>1. retry \in Retry
    BY DEF TypeOK
  <1> QED
    BY <1>1 DEF Retry, Entry

\* The actions that save, given what they leave in the persisted fields.
LEMMA SavingStep ==
    ASSUME TypeOK, \E n \in {0, 1} : Save(n),
           enabled' \in BOOLEAN, entries' \in SUBSET Entry,
           lastApply' \in LastApply \cup {None}, firedAt' \in FiredAt,
           clock' \in Clock, retry' \in Retry \cup {None},
           lastTick' \in Minutes \cup {None}, tick' \in Tick \cup {None},
           job' \in Job \cup {None}, tickDay' \in Nat \ {0},
           punctual' = punctual
    PROVE  TypeOK'
  <1>1. /\ disk' \in Persisted \cup {None}
        /\ unsaved' \in BOOLEAN
        /\ budget' \in Nat
    BY SaveType
  <1>2. punctual' \in BOOLEAN
    BY Zenon DEF TypeOK
  <1> QED
    BY <1>1, <1>2, Zenon DEF TypeOK

LEMMA ReplaceType ==
    ASSUME TypeOK, NEW en \in BOOLEAN, NEW es \in SUBSET Offered,
           Replace(en, es)
    PROVE  TypeOK'
  <1>1. entries' \in SUBSET Entry
    BY SchedulerAssumption DEF Replace, Offered, Entry
  <1>2. enabled' \in BOOLEAN
    BY Zenon DEF Replace
  <1>3. firedAt' \in FiredAt
    BY DEF Replace, NeverFired, FiredAt
  <1>4. lastApply' \in LastApply \cup {None} /\ retry' \in Retry \cup {None}
    BY DEF Replace
  <1>5. clock' = clock /\ lastTick' = lastTick /\ tick' = tick /\ job' = job
        /\ tickDay' = tickDay /\ punctual' = punctual
    BY DEF Replace
  <1>6. \E n \in {0, 1} : Save(n)
    BY DEF Replace
  <1> QED
    BY <1>1, <1>2, <1>3, <1>4, <1>5, <1>6, SavingStep, Zenon DEF TypeOK

LEMMA SetEnabledType ==
    ASSUME TypeOK, NEW en \in BOOLEAN, SetEnabled(en)
    PROVE  TypeOK'
  <1>1. enabled' \in BOOLEAN
    BY Zenon DEF SetEnabled
  <1>2. UNCHANGED <<clock, entries, lastApply, retry, firedAt, lastTick, tick,
                    job, tickDay, punctual>>
    BY DEF SetEnabled
  <1>3. \E n \in {0, 1} : Save(n)
    BY DEF SetEnabled
  <1> QED
    BY <1>1, <1>2, <1>3, SavingStep, Zenon DEF TypeOK

LEMMA FireType ==
    ASSUME TypeOK, FireSucceeds \/ FireRefused \/ FireFails
    PROVE  TypeOK'
  <1> job # None
    BY DEF FireSucceeds, FireRefused, FireFails
  <1>1. \E n \in {0, 1} : Save(n)
    BY DEF FireSucceeds, FireRefused, FireFails
  <1>2. UNCHANGED <<clock, enabled, entries, lastTick, tick, tickDay, punctual>>
    BY DEF FireSucceeds, FireRefused, FireFails
  <1>3. job' = None
    BY DEF FireSucceeds, FireRefused, FireFails
  <1>4. CASE FireSucceeds
    <2>1. lastApply' \in LastApply
      BY <1>4, JobType DEF FireSucceeds, LastApply, Outcome
    <2>2. firedAt' \in FiredAt
      BY <1>4, JobType DEF FireSucceeds, FiredAt, TypeOK
    <2>3. retry' = None
      BY <1>4 DEF FireSucceeds
    <2> QED
      BY <1>1, <1>2, <1>3, <2>1, <2>2, <2>3, SavingStep, Zenon DEF TypeOK
  <1>5. CASE FireRefused
    <2>1. lastApply' \in LastApply
      BY <1>5, JobType DEF FireRefused, LastApply, Outcome
    <2>2. firedAt' = firedAt /\ retry' = None
      BY <1>5 DEF FireRefused
    <2> QED
      BY <1>1, <1>2, <1>3, <2>1, <2>2, SavingStep, Zenon DEF TypeOK
  <1>6. CASE FireFails
    <2> DEFINE n == IF Again THEN retry.attempts + 1 ELSE 1
    <2>1. n \in Nat \ {0}
      BY RetryType DEF Again
    <2>2. Deadline \in Nat
      BY RetryType, JobType, SchedulerAssumption DEF Deadline, Again
    <2>3. retry' = [entry |-> job.entry, attempts |-> n,
                    next |-> job.now.mono + RetryCadence,
                    deadline |-> Deadline]
      BY <1>6 DEF FireFails
    <2>4. lastApply' = [at |-> job.entry.at, outcome |-> "transient",
                        retries |-> n - 1]
      BY <1>6 DEF FireFails
    <2>5. job.now.mono + RetryCadence \in Nat
      BY JobType, SchedulerAssumption
    <2> HIDE DEF n
    <2>6. retry' \in Retry
      BY <2>1, <2>2, <2>3, <2>5, JobType DEF Retry
    <2>7. lastApply' \in LastApply
      BY <2>1, <2>4, JobType DEF LastApply, Outcome
    <2>8. firedAt' = firedAt
      BY <1>6 DEF FireFails
    <2> QED
      BY <1>1, <1>2, <1>3, <2>6, <2>7, <2>8, SavingStep, Zenon DEF TypeOK
  <1> QED
    BY <1>4, <1>5, <1>6

LEMMA TickTypes ==
    ASSUME TypeOK, TickBegin \/ TickIdle \/ TickRetry \/ TickWindow
    PROVE  TypeOK'
  <1>1. CASE TickBegin
    <2>1. tick' \in Tick
      BY <1>1, Zenon DEF TickBegin, Tick, TypeOK
    <2>2. UNCHANGED <<clock, enabled, entries, lastApply, retry, firedAt,
                      lastTick, disk, job, tickDay, unsaved, punctual, budget>>
      BY <1>1 DEF TickBegin, memory
    <2> QED
      BY <2>1, <2>2, Zenon DEF TypeOK
  <1>2. ASSUME Ticked, tick # None
        PROVE  /\ tick' \in Tick \cup {None}
               /\ lastTick' \in Minutes \cup {None}
               /\ tickDay' \in Nat \ {0}
    BY <1>2, TickType DEF Ticked
  <1>3. CASE TickIdle
    <2>1. tick # None /\ Ticked
      BY <1>3 DEF TickIdle
    <2>2. retry' \in Retry \cup {None}
      BY <1>3, Zenon DEF TickIdle, TypeOK
    <2>3. UNCHANGED <<clock, enabled, entries, lastApply, firedAt, disk, job,
                      unsaved, punctual, budget>>
      BY <1>3 DEF TickIdle
    <2> QED
      BY <1>2, <2>1, <2>2, <2>3, Zenon DEF TypeOK
  <1>4. CASE TickRetry
    <2>1. tick # None /\ Ticked /\ retry # None
      BY <1>4 DEF TickRetry, Deciding, Attempt
    <2>2. job' \in Job
      BY <1>4, <2>1, TickType, RetryType DEF TickRetry, Job
    <2>3. UNCHANGED <<clock, enabled, entries, lastApply, retry, firedAt, disk,
                      unsaved, punctual, budget>>
      BY <1>4 DEF TickRetry, memory
    <2> QED
      BY <1>2, <2>1, <2>2, <2>3, Zenon DEF TypeOK
  <1>5. CASE TickWindow
    <2>1. tick # None /\ Ticked
      BY <1>5 DEF TickWindow, Deciding
    <2>2. job' \in Job \cup {None}
      <3>1. \A e \in Fresh : e \in Entry
        BY <2>1, TickType DEF Fresh, Window
      <3>2. CASE job' = None
        BY <3>2
      <3>3. CASE \E e \in Fresh : job' = [entry |-> e, now |-> tick.now]
        BY <2>1, <3>1, <3>3, TickType DEF Job
      <3> QED
        BY <1>5, <3>2, <3>3 DEF TickWindow
    <2>3. retry' \in Retry \cup {None}
      BY <1>5 DEF TickWindow, TypeOK
    <2>4. UNCHANGED <<clock, enabled, entries, lastApply, firedAt, punctual>>
      BY <1>5 DEF TickWindow
    <2>5. CASE Expired
      <3>1. Save(0)
        BY <1>5, <2>5 DEF TickWindow
      <3> QED
        BY <1>2, <2>1, <2>2, <2>3, <2>4, <3>1, SavingStep, Zenon DEF TypeOK
    <2>6. CASE ~Expired
      <3>1. UNCHANGED <<disk, unsaved, budget>>
        BY <1>5, <2>6 DEF TickWindow
      <3> QED
        BY <1>2, <2>1, <2>2, <2>3, <2>4, <3>1, Zenon DEF TypeOK
    <2> QED
      BY <2>5, <2>6
  <1> QED
    BY <1>1, <1>3, <1>4, <1>5

\* What time does to the clock.
LEMMA ClockStep ==
    ASSUME TypeOK, Minute \/ ClockShift
    PROVE  /\ clock' \in Clock
           /\ clock'.day \in {clock.day, clock.day + 1}
  <1> clock \in Clock
    BY DEF TypeOK
  <1> /\ clock.day \in Nat \ {0}
      /\ clock.minute \in Minutes
      /\ clock.mono \in Nat
    BY DEF Clock
  <1>1. CASE Minute /\ clock.minute = DayLen - 1
    <2>1. clock' = [day |-> clock.day + 1, minute |-> 0,
                    mono |-> clock.mono + 1]
      BY <1>1 DEF Minute
    <2> QED
      BY <2>1, SchedulerAssumption DEF Clock, Minutes
  <1>2. CASE Minute /\ clock.minute # DayLen - 1
    <2>1. clock' = [day |-> clock.day, minute |-> clock.minute + 1,
                    mono |-> clock.mono + 1]
      BY <1>2 DEF Minute, Clock
    <2>2. clock.minute + 1 \in Minutes
      BY <1>2, SchedulerAssumption DEF Minutes
    <2>3. clock' \in Clock
      BY <2>1, <2>2 DEF Clock
    <2>4. clock'.day = clock.day
      BY <2>1
    <2> QED
      BY <2>3, <2>4
  <1>3. CASE ClockShift
    <2>1. PICK m \in Minutes : clock' = [clock EXCEPT !.minute = m]
      BY <1>3 DEF ClockShift
    <2>2. clock' = [day |-> clock.day, minute |-> m, mono |-> clock.mono]
      BY <2>1 DEF Clock
    <2>3. clock' \in Clock
      BY <2>2 DEF Clock
    <2>4. clock'.day = clock.day
      BY <2>2
    <2> QED
      BY <2>3, <2>4
  <1> QED
    BY <1>1, <1>2, <1>3

LEMMA EnvironmentType ==
    ASSUME TypeOK, Minute \/ ClockShift \/ Restart
    PROVE  TypeOK'
  <1>1. CASE Minute
    <2>1. UNCHANGED <<enabled, entries, lastApply, retry, firedAt, lastTick,
                      disk, tick, job, tickDay, unsaved, punctual, budget>>
      BY <1>1 DEF Minute, memory
    <2> QED
      BY <1>1, <2>1, ClockStep, Zenon DEF TypeOK
  <1>2. CASE ClockShift
    <2>1. UNCHANGED <<enabled, entries, lastApply, retry, firedAt, lastTick,
                      disk, tick, job, tickDay, unsaved, punctual>>
      BY <1>2 DEF ClockShift, memory
    <2>2. budget' \in Nat
      BY <1>2 DEF ClockShift, Spend, TypeOK
    <2> QED
      BY <1>2, <2>1, <2>2, ClockStep, Zenon DEF TypeOK
  <1>3. CASE Restart
    <2>1. /\ enabled' \in BOOLEAN
          /\ entries' \in SUBSET Entry
          /\ lastApply' \in LastApply \cup {None}
          /\ firedAt' \in FiredAt
      <3>1. /\ Loaded.enabled \in BOOLEAN
            /\ Loaded.entries \in SUBSET Entry
            /\ Loaded.lastApply \in LastApply \cup {None}
            /\ Loaded.firedAt \in FiredAt
        BY LoadedType DEF Persisted
      <3> QED
        BY <1>3, <3>1, Zenon DEF Restart
    <2>2. /\ retry' = None
          /\ lastTick' = None
          /\ tick' = None
          /\ job' = None
          /\ unsaved' = FALSE
      BY <1>3 DEF Restart
    <2>3. UNCHANGED <<clock, disk, tickDay, punctual>>
      BY <1>3 DEF Restart
    <2>4. budget' \in Nat
      BY <1>3 DEF Restart, Spend, TypeOK
    <2> QED
      BY <2>1, <2>2, <2>3, <2>4, Zenon DEF TypeOK
  <1> QED
    BY <1>1, <1>2, <1>3

LEMMA StepType == TypeOK /\ [Next]_vars => TypeOK'
  <1> SUFFICES ASSUME TypeOK, [Next]_vars PROVE TypeOK'
    OBVIOUS
  <1>1. CASE Goroutine
    BY <1>1, TickTypes, FireType DEF Goroutine
  <1>2. CASE Handlers
    BY <1>2, ReplaceType, SetEnabledType DEF Handlers
  <1>3. CASE Minute \/ ClockShift \/ Restart
    BY <1>3, EnvironmentType
  <1>4. CASE UNCHANGED vars
    BY <1>4, Zenon DEF vars, TypeOK
  <1> QED
    BY <1>1, <1>2, <1>3, <1>4 DEF Next

\* In every behaviour the scheduler's fields, a running tick and a running
\* fire hold what their types allow, whatever interleaves with them.
THEOREM TypeCorrect == Spec => []TypeOK
  BY InitType, StepType, PTL DEF Spec

(***************************************************************************)
(* The alert of a retry: inductive as it stands.                           *)
(***************************************************************************)

LEMMA InitAlert == Init => RetryShowsAlert
  BY DEF Init, RetryShowsAlert

LEMMA StepAlert ==
    TypeOK /\ RetryShowsAlert /\ [Next]_vars => RetryShowsAlert'
  <1> SUFFICES ASSUME TypeOK, RetryShowsAlert, [Next]_vars
               PROVE  RetryShowsAlert'
    OBVIOUS
  <1>1. CASE retry' = None
    BY <1>1 DEF RetryShowsAlert
  <1>2. CASE UNCHANGED <<retry, lastApply>>
    BY <1>2 DEF RetryShowsAlert
  <1>3. CASE FireFails
    <2> DEFINE n == IF Again THEN retry.attempts + 1 ELSE 1
    <2>1. /\ retry' = [entry |-> job.entry, attempts |-> n,
                       next |-> job.now.mono + RetryCadence,
                       deadline |-> Deadline]
          /\ lastApply' = [at |-> job.entry.at, outcome |-> "transient",
                           retries |-> n - 1]
          /\ job # None
      BY <1>3 DEF FireFails
    <2>2. lastApply' # None
      <3>1. lastApply' \in LastApply
        <4>1. n \in Nat \ {0}
          BY RetryType DEF Again
        <4> HIDE DEF n
        <4> QED
          BY <2>1, <4>1, JobType DEF LastApply, Outcome
      <3> QED
        BY <3>1, NoneAssumption
    <2> HIDE DEF n
    <2> QED
      BY <2>1, <2>2 DEF RetryShowsAlert
  <1>4. CASE Goroutine /\ ~FireFails
    BY <1>1, <1>2, <1>4 DEF Goroutine, TickBegin, TickIdle, TickRetry,
       TickWindow, FireSucceeds, FireRefused, memory
  <1>5. CASE Handlers
    BY <1>1, <1>2, <1>5 DEF Handlers, SetEnabled, Replace
  <1>6. CASE Minute \/ ClockShift \/ Restart
    BY <1>1, <1>2, <1>6 DEF Minute, ClockShift, Restart, memory
  <1>7. CASE UNCHANGED vars
    BY <1>2, <1>7 DEF vars
  <1> QED
    BY <1>3, <1>4, <1>5, <1>6, <1>7 DEF Next

\* A retry in flight never outlives or misstates the alert the user sees.
THEOREM RetriesAreShown == Spec => []RetryShowsAlert
  <1>1. Init => TypeOK /\ RetryShowsAlert
    BY InitType, InitAlert
  <1>2. (TypeOK /\ RetryShowsAlert) /\ [Next]_vars
            => (TypeOK /\ RetryShowsAlert)'
    BY StepType, StepAlert
  <1> QED
    BY <1>1, <1>2, PTL DEF Spec

(***************************************************************************)
(* No fire repeats a day: NotFiredYet is inductive.                        *)
(***************************************************************************)

\* A saving step leaves on disk the new record of fires or the old one.
LEMMA SaveLoaded ==
    ASSUME TypeOK, NEW n \in Nat, Save(n),
           enabled' \in BOOLEAN, entries' \in SUBSET Entry,
           lastApply' \in LastApply \cup {None}, firedAt' \in FiredAt
    PROVE  Loaded'.firedAt \in {firedAt', Loaded.firedAt}
  <1>1. CASE disk' = Contents'
    <2>1. Contents' \in Persisted
      BY DEF Contents, Persisted
    <2>2. Loaded' = Contents'
      BY <1>1, <2>1, NoneAssumption DEF Loaded
    <2> QED
      BY <2>2 DEF Contents
  <1>2. CASE disk' = disk
    BY <1>2 DEF Loaded
  <1> QED
    BY <1>1, <1>2 DEF Save

\* What a step may leave on disk.
LEMMA DiskStep ==
    ASSUME TypeOK, [Next]_vars
    PROVE  Loaded'.firedAt \in {firedAt', Loaded.firedAt}
  <1> /\ enabled' \in BOOLEAN
      /\ entries' \in SUBSET Entry
      /\ lastApply' \in LastApply \cup {None}
      /\ firedAt' \in FiredAt
    BY StepType DEF TypeOK
  <1>1. CASE \E n \in {0, 1} : Save(n)
    BY <1>1, SaveLoaded
  <1>2. CASE disk' = disk
    BY <1>2 DEF Loaded
  <1>3. CASE Goroutine
    BY <1>1, <1>2, <1>3 DEF Goroutine, TickBegin, TickIdle, TickRetry,
       TickWindow, FireSucceeds, FireRefused, FireFails
  <1>4. CASE Handlers
    BY <1>1, <1>4 DEF Handlers, SetEnabled, Replace
  <1>5. CASE Minute \/ ClockShift \/ Restart \/ UNCHANGED vars
    BY <1>2, <1>5 DEF Minute, ClockShift, Restart, vars
  <1> QED
    BY <1>3, <1>4, <1>5 DEF Next

LEMMA InitFired == Init => Loaded.firedAt = NeverFired /\ firedAt = NeverFired
  BY DEF Init, Loaded, EmptySchedule, FirstFiles

LEMMA InitNotFiredYet == Init => NotFiredYet
  <1> SUFFICES ASSUME Init PROVE NotFiredYet
    OBVIOUS
  <1>1. FiredPast
    BY InitFired DEF Init, NeverFired, FiredPast
  <1> QED
    BY <1>1 DEF Init, NotFiredYet, OneAtATime, TickFresh, JobFresh, RetryFresh

\* The days recorded are numbers, which the steps below compare.
LEMMA DaysType ==
    ASSUME TypeOK
    PROVE  /\ clock.day \in Nat \ {0}
           /\ \A m \in Minutes : firedAt[m] \in Nat
           /\ \A m \in Minutes : Loaded.firedAt[m] \in Nat
           /\ firedAt \in FiredAt
           /\ Loaded.firedAt \in FiredAt
  BY LoadedType DEF TypeOK, Clock, FiredAt, Persisted

LEMMA PastStep ==
    ASSUME TypeOK, NotFiredYet, [Next]_vars
    PROVE  FiredPast' /\ clock'.day \in {clock.day, clock.day + 1}
  <1>1. clock'.day \in {clock.day, clock.day + 1}
    <2>1. CASE Minute \/ ClockShift
      BY <2>1, ClockStep
    <2>2. CASE Goroutine \/ Handlers \/ Restart \/ UNCHANGED vars
      BY <2>2 DEF Goroutine, TickBegin, TickIdle, TickRetry, TickWindow,
         FireSucceeds, FireRefused, FireFails, Handlers, SetEnabled, Replace,
         Restart, vars
    <2> QED
      BY <2>1, <2>2 DEF Next
  <1>2. \A m \in Minutes : firedAt'[m] <= clock.day
    <2>1. CASE FireSucceeds
      BY <2>1, DaysType, JobType DEF FireSucceeds, NotFiredYet, FiredPast,
         JobFresh, FiredAt
    <2>2. CASE firedAt' \in {firedAt, NeverFired, Loaded.firedAt}
      BY <2>2, DaysType DEF NeverFired, NotFiredYet, FiredPast
    <2>3. CASE Goroutine /\ ~FireSucceeds
      BY <2>2, <2>3 DEF Goroutine, TickBegin, TickIdle, TickRetry, TickWindow,
         FireRefused, FireFails, memory
    <2>4. CASE Handlers \/ Minute \/ ClockShift \/ Restart \/ UNCHANGED vars
      BY <2>2, <2>4 DEF Handlers, SetEnabled, Replace, Minute, ClockShift,
         Restart, memory, vars
    <2> QED
      BY <2>1, <2>3, <2>4 DEF Next
  <1>3. \A m \in Minutes : /\ firedAt'[m] \in Nat
                           /\ Loaded'.firedAt[m] <= clock.day
    BY <1>2, DiskStep, StepType DEF TypeOK, FiredAt, NotFiredYet, FiredPast
  <1>4. \A m \in Minutes : Loaded'.firedAt[m] \in Nat
    BY DiskStep, DaysType, <1>3
  <1> QED
    BY <1>1, <1>2, <1>3, <1>4, DaysType DEF FiredPast

\* The rest of NotFiredYet, one lemma for the tick, one for the end of
\* fire(), one for the others.
LEMMA TickNotFiredYet ==
    ASSUME TypeOK, NotFiredYet,
           TickBegin \/ TickIdle \/ TickRetry \/ TickWindow
    PROVE  OneAtATime' /\ TickFresh' /\ JobFresh' /\ RetryFresh'
  <1> USE DEF NotFiredYet
  <1>1. firedAt' = firedAt /\ clock' = clock
    BY DEF TickBegin, TickIdle, TickRetry, TickWindow, memory
  <1>2. retry' \in {retry, None}
    BY DEF TickBegin, TickIdle, TickRetry, TickWindow, memory
  <1>3. CASE TickBegin
    <2>1. /\ tick' = [now |-> clock, enabled |-> enabled, entries |-> entries,
                      firedAt |-> firedAt]
          /\ retry' = retry
          /\ job' = None
      BY <1>3 DEF TickBegin, memory
    <2>2. OneAtATime' /\ JobFresh'
      BY <2>1 DEF OneAtATime, JobFresh
    <2>3. TickFresh'
      BY <1>1, <2>1, DaysType DEF TickFresh, FiredPast
    <2>4. RetryFresh'
      BY <1>1, <2>1 DEF RetryFresh
    <2> QED
      BY <2>2, <2>3, <2>4
  <1>4. CASE TickIdle \/ TickRetry \/ TickWindow
    <2>1. tick' = None /\ tick # None /\ job = None
      BY <1>4 DEF TickIdle, TickRetry, TickWindow, Ticked, Deciding,
         OneAtATime
    <2>2. OneAtATime' /\ TickFresh' /\ RetryFresh'
      BY <1>1, <1>2, <2>1 DEF OneAtATime, TickFresh, RetryFresh
    <2>3. JobFresh'
      <3>1. CASE job' = None
        BY <3>1 DEF JobFresh
      <3>2. CASE TickRetry
        <4>1. job' = [entry |-> retry.entry, now |-> tick.now] /\ retry # None
          BY <3>2 DEF TickRetry, Attempt
        <4>2. /\ firedAt[retry.entry.at] < tick.now.day
              /\ tick.now.day <= clock.day
          BY <2>1, <4>1 DEF RetryFresh, TickFresh
        <4>3. job'.entry.at = retry.entry.at /\ job'.now = tick.now
          BY <4>1
        <4> QED
          BY <1>1, <4>2, <4>3 DEF JobFresh
      <3>3. CASE TickWindow /\ job' # None
        <4>1. PICK e \in Fresh : job' = [entry |-> e, now |-> tick.now]
          BY <3>3 DEF TickWindow
        <4>2. e.at \in Minutes /\ tick.firedAt[e.at] # tick.now.day
          BY <2>1, <4>1, TickType DEF Fresh, Window, Entry
        <4>3. firedAt[e.at] < tick.now.day
          BY <2>1, <4>2, TickType, DaysType DEF TickFresh
        <4>4. job'.entry.at = e.at /\ job'.now = tick.now
          BY <4>1
        <4> QED
          BY <1>1, <2>1, <4>3, <4>4 DEF JobFresh, TickFresh
      <3> QED
        BY <1>4, <2>1, <3>1, <3>2, <3>3 DEF TickIdle
    <2> QED
      BY <2>2, <2>3
  <1> QED
    BY <1>3, <1>4

LEMMA FireNotFiredYet ==
    ASSUME TypeOK, NotFiredYet, FireSucceeds \/ FireRefused \/ FireFails
    PROVE  OneAtATime' /\ TickFresh' /\ JobFresh' /\ RetryFresh'
  <1>1. /\ job # None
        /\ job' = None
        /\ tick' = tick
        /\ clock' = clock
    BY DEF FireSucceeds, FireRefused, FireFails
  <1>2. tick = None
    BY <1>1 DEF NotFiredYet, OneAtATime
  <1>3. OneAtATime' /\ TickFresh' /\ JobFresh'
    BY <1>1, <1>2 DEF OneAtATime, TickFresh, JobFresh
  <1>4. RetryFresh'
    <2>1. CASE retry' = None
      BY <2>1 DEF RetryFresh
    <2>2. CASE FireFails
      <3>1. retry'.entry = job.entry /\ firedAt' = firedAt
        BY <2>2 DEF FireFails
      <3>2. firedAt[job.entry.at] < clock.day
        BY <1>1, JobType, DaysType DEF NotFiredYet, JobFresh
      <3> QED
        BY <1>1, <1>2, <3>1, <3>2 DEF RetryFresh
    <2> QED
      BY <2>1, <2>2 DEF FireSucceeds, FireRefused
  <1> QED
    BY <1>3, <1>4

LEMMA OthersNotFiredYet ==
    ASSUME TypeOK, NotFiredYet, [Next]_vars, ~Goroutine
    PROVE  OneAtATime' /\ TickFresh' /\ JobFresh' /\ RetryFresh'
  <1> USE DEF NotFiredYet
  <1>1. CASE Restart
    BY <1>1 DEF Restart, OneAtATime, TickFresh, JobFresh, RetryFresh
  <1>2. CASE ~Restart
    <2>1. \/ Handlers
          \/ Minute \/ ClockShift \/ UNCHANGED vars
      BY <1>2 DEF Next
    <2>2. tick' = tick /\ job' = job
      BY <2>1 DEF Handlers, SetEnabled, Replace, Minute, ClockShift, vars
    <2>3. \/ retry' = None /\ firedAt' = NeverFired
          \/ retry' = retry /\ firedAt' = firedAt
      <3>1. CASE Handlers
        BY <3>1 DEF Handlers, SetEnabled, Replace
      <3>2. CASE Minute \/ ClockShift \/ UNCHANGED vars
        BY <3>2 DEF Minute, ClockShift, memory, vars
      <3> QED
        BY <2>1, <3>1, <3>2
    <2>4. clock'.day \in Nat /\ clock.day <= clock'.day
      BY PastStep, DaysType
    <2>5. OneAtATime'
      BY <2>2 DEF OneAtATime
    <2>6. TickFresh'
      BY <2>2, <2>3, <2>4, TickType, DaysType DEF TickFresh, NeverFired
    <2>7. JobFresh'
      BY <2>2, <2>3, <2>4, JobType, DaysType DEF JobFresh, NeverFired
    <2>8. RetryFresh'
      BY <2>2, <2>3, <2>4, RetryType, TickType, DaysType DEF RetryFresh
    <2> QED
      BY <2>5, <2>6, <2>7, <2>8
  <1> QED
    BY <1>1, <1>2

LEMMA StepNotFiredYet == TypeOK /\ NotFiredYet /\ [Next]_vars => NotFiredYet'
  <1> SUFFICES ASSUME TypeOK, NotFiredYet, [Next]_vars PROVE NotFiredYet'
    OBVIOUS
  <1>1. OneAtATime' /\ TickFresh' /\ JobFresh' /\ RetryFresh'
    BY TickNotFiredYet, FireNotFiredYet, OthersNotFiredYet DEF Goroutine
  <1> QED
    BY <1>1, PastStep DEF NotFiredYet

LEMMA Inductive == Spec => [](TypeOK /\ NotFiredYet)
  <1>1. Init => TypeOK /\ NotFiredYet
    BY InitType, InitNotFiredYet
  <1>2. (TypeOK /\ NotFiredYet) /\ [Next]_vars => (TypeOK /\ NotFiredYet)'
    BY StepType, StepNotFiredYet
  <1> QED
    BY <1>1, <1>2, PTL DEF Spec

\* What is about to be fired has not been fired on the day it is fired for.
THEOREM NoFireRepeats == Spec => []NotFiredYet
  BY Inductive, PTL

(***************************************************************************)
(* Scheduler implements DailyFire.                                         *)
(***************************************************************************)

\* Every step is a step of DailyFire, or leaves its variables alone.
LEMMA StepDaily ==
    ASSUME TypeOK, NotFiredYet, [Next]_vars
    PROVE  [Daily!DFNext]_(Daily!dfvars)
  <1>1. Daily!NeverFired = NeverFired
    BY DEF Daily!NeverFired, NeverFired
  <1>2. Loaded'.firedAt \in {firedAt', Loaded.firedAt}
    BY DiskStep
  <1>3. CASE UNCHANGED <<clock, firedAt, job>>
    BY <1>2, <1>3 DEF Daily!DFNext, Daily!Flush, Daily!Persist, Firing
  <1>4. ASSUME job = None, job' # None, UNCHANGED <<clock, firedAt>>, JobFresh',
               job' \in Job
        PROVE  Daily!DFNext
    <2> DEFINE m == job'.entry.at
               d == job'.now.day
    <2>1. m \in Minutes /\ d \in Nat \ {0}
      BY <1>4 DEF Job, Entry, Clock
    <2>2. firedAt[m] < d /\ d <= clock.day
      BY <1>4 DEF JobFresh
    <2>3. Firing = None /\ Firing' = <<m, d>>
      BY <1>4 DEF Firing
    <2>4. firedAt[m] \in Nat /\ clock.day \in Nat
      BY <2>1, DaysType
    <2> HIDE DEF m, d
    <2>5. d \in 1..clock.day
      BY <2>1, <2>2, <2>4
    <2>6. Daily!Begin(m, d)
      BY <1>2, <1>4, <2>2, <2>3, <2>1, <2>4 DEF Daily!Begin, Daily!Persist
    <2> QED
      BY <2>1, <2>5, <2>6 DEF Daily!DFNext
  <1>5. CASE FireSucceeds
    <2>1. /\ job # None
          /\ job' = None
          /\ clock' = clock
          /\ firedAt' = [firedAt EXCEPT ![job.entry.at] = job.now.day]
      BY <1>5 DEF FireSucceeds
    <2>2. Firing = <<job.entry.at, job.now.day>> /\ Firing' = None
      BY <2>1 DEF Firing
    <2>3. Firing # None
      BY <2>1, <2>2, JobType, NoneAssumption
    <2> QED
      BY <1>2, <2>1, <2>2, <2>3 DEF Daily!DFNext, Daily!Succeed, Daily!Persist
  <1>6. CASE FireRefused \/ FireFails
    BY <1>2, <1>6 DEF FireRefused, FireFails, Firing, Daily!DFNext,
       Daily!GiveUp, Daily!Persist
  <1>7. CASE TickRetry \/ TickWindow
    <2>1. job = None
      BY <1>7 DEF TickRetry, TickWindow, Deciding, NotFiredYet, OneAtATime
    <2>2. UNCHANGED <<clock, firedAt>>
      BY <1>7 DEF TickRetry, TickWindow, memory
    <2>3. CASE job' = None
      BY <1>3, <2>1, <2>2, <2>3
    <2>4. CASE job' # None
      <3>1. JobFresh' /\ job' \in Job
        BY <2>4, StepNotFiredYet, StepType DEF NotFiredYet, TypeOK
      <3> QED
        BY <1>4, <2>1, <2>2, <2>4, <3>1
    <2> QED
      BY <2>3, <2>4
  <1>8. CASE TickBegin \/ TickIdle \/ UNCHANGED vars
    BY <1>3, <1>8 DEF TickBegin, TickIdle, memory, vars
  <1>9. CASE Restart
    <2>1. Loaded'.firedAt = Loaded.firedAt
      BY <1>9 DEF Restart, Loaded
    <2> QED
      BY <1>9, <2>1 DEF Restart, Firing, Daily!DFNext, Daily!Restore
  <1>10. CASE Minute \/ ClockShift
    <2>1. clock'.day \in {clock.day, clock.day + 1}
      BY <1>10, ClockStep
    <2>2. UNCHANGED <<firedAt, job, disk>>
      BY <1>10 DEF Minute, ClockShift, memory
    <2>3. Loaded' = Loaded /\ Firing' = Firing
      BY <2>2 DEF Loaded, Firing
    <2> QED
      BY <2>1, <2>2, <2>3 DEF Daily!DFNext, Daily!NextDay, Daily!dfvars
  <1>11. CASE Handlers
    <2>1. ASSUME NEW en \in BOOLEAN, NEW es \in SUBSET Offered, Replace(en, es)
          PROVE  Daily!DFNext
      BY <1>1, <1>2, <2>1 DEF Replace, Firing, Daily!DFNext, Daily!Clear,
         Daily!Persist
    <2>2. ASSUME NEW en \in BOOLEAN, SetEnabled(en)
          PROVE  UNCHANGED <<clock, firedAt, job>>
      BY <2>2 DEF SetEnabled
    <2> QED
      BY <1>3, <1>11, <2>1, <2>2 DEF Handlers
  <1> QED
    BY <1>5, <1>6, <1>7, <1>8, <1>9, <1>10, <1>11 DEF Next, Goroutine

\* An entry fires at most once a day, in date order, whatever the retries,
\* the edits, the restarts and the shifts of the wall clock.
THEOREM FiresOncePerDay == Spec => OncePerDay
  <1>1. Init => Daily!DFInit
    BY InitFired DEF Init, Firing, Daily!DFInit, Daily!NeverFired, NeverFired
  <1>2. TypeOK /\ NotFiredYet /\ [Next]_vars => [Daily!DFNext]_(Daily!dfvars)
    BY StepDaily
  <1> QED
    BY <1>1, <1>2, Inductive, PTL DEF Spec, OncePerDay, Daily!DFSpec

(***************************************************************************)
(* What is saved, and the ten minutes of a retry.                          *)
(***************************************************************************)

\* A saving step leaves on disk what is in memory, or records that it failed.
LEMMA SavedOrUnsaved ==
    ASSUME TypeOK, NEW n \in Nat, Save(n),
           enabled' \in BOOLEAN, entries' \in SUBSET Entry,
           lastApply' \in LastApply \cup {None}, firedAt' \in FiredAt
    PROVE  \/ Loaded' = Contents'
           \/ unsaved' = TRUE /\ Loaded' = Loaded
  <1>1. CASE disk' = Contents'
    <2>1. Contents' \in Persisted
      BY DEF Contents, Persisted
    <2> QED
      BY <1>1, <2>1, NoneAssumption DEF Loaded
  <1>2. CASE disk' = disk /\ unsaved' = TRUE
    BY <1>2 DEF Loaded
  <1> QED
    BY <1>1, <1>2 DEF Save

LEMMA StepDisk == TypeOK /\ DiskMatches /\ [Next]_vars => DiskMatches'
  <1> SUFFICES ASSUME TypeOK, DiskMatches, [Next]_vars PROVE DiskMatches'
    OBVIOUS
  <1> /\ enabled' \in BOOLEAN
      /\ entries' \in SUBSET Entry
      /\ lastApply' \in LastApply \cup {None}
      /\ firedAt' \in FiredAt
    BY StepType DEF TypeOK
  <1>1. CASE \E n \in {0, 1} : Save(n)
    <2>1. \/ Loaded' = Contents'
          \/ unsaved' = TRUE /\ Loaded' = Loaded
      BY <1>1, SavedOrUnsaved
    <2>2. CASE Loaded' = Contents'
      BY <2>2 DEF Contents, DiskMatches
    <2> QED
      BY <2>1, <2>2 DEF DiskMatches
  <1>2. CASE UNCHANGED <<enabled, entries, lastApply, firedAt, disk, unsaved>>
    BY <1>2 DEF DiskMatches, Loaded
  <1>3. CASE Goroutine
    BY <1>1, <1>2, <1>3 DEF Goroutine, TickBegin, TickIdle, TickRetry,
       TickWindow, FireSucceeds, FireRefused, FireFails, memory
  <1>4. CASE Handlers
    BY <1>1, <1>4 DEF Handlers, SetEnabled, Replace
  <1>5. CASE Restart
    BY <1>5 DEF Restart, DiskMatches, Loaded
  <1>6. CASE Minute \/ ClockShift \/ UNCHANGED vars
    BY <1>2, <1>6 DEF Minute, ClockShift, memory, vars
  <1> QED
    BY <1>3, <1>4, <1>5, <1>6 DEF Next

\* A restart loses the retry and the window, and nothing else unless the last
\* save failed.
THEOREM RestartLosesNothing == Spec => []DiskMatches
  <1>1. Init => TypeOK /\ DiskMatches
    <2>1. Init => DiskMatches
      BY DEF Init, DiskMatches, Loaded
    <2> QED
      BY <2>1, InitType
  <1>2. (TypeOK /\ DiskMatches) /\ [Next]_vars => (TypeOK /\ DiskMatches)'
    BY StepType, StepDisk
  <1> QED
    BY <1>1, <1>2, PTL DEF Spec

\* What the file holds obeys the forced-off rule too: Load need not check it.
SavedForcedOff == ForcedOff /\ (Loaded.enabled => Loaded.entries # {})

LEMMA StepForced == TypeOK /\ SavedForcedOff /\ [Next]_vars => SavedForcedOff'
  <1> SUFFICES ASSUME TypeOK, SavedForcedOff, [Next]_vars PROVE SavedForcedOff'
    OBVIOUS
  <1> /\ enabled' \in BOOLEAN
      /\ entries' \in SUBSET Entry
      /\ lastApply' \in LastApply \cup {None}
      /\ firedAt' \in FiredAt
    BY StepType DEF TypeOK
  <1>1. ASSUME ForcedOff', \E n \in {0, 1} : Save(n)
        PROVE  SavedForcedOff'
    <2>1. \/ Loaded' = Contents'
          \/ unsaved' = TRUE /\ Loaded' = Loaded
      BY <1>1, SavedOrUnsaved
    <2>2. CASE Loaded' = Contents'
      <3>1. Loaded'.enabled = enabled' /\ Loaded'.entries = entries'
        BY <2>2 DEF Contents
      <3> QED
        BY <1>1, <3>1 DEF SavedForcedOff, ForcedOff
    <2> QED
      BY <1>1, <2>1, <2>2 DEF SavedForcedOff
  <1>2. CASE UNCHANGED <<enabled, entries, disk>>
    BY <1>2 DEF SavedForcedOff, ForcedOff, Loaded
  <1>3. CASE Goroutine
    <2>1. UNCHANGED <<enabled, entries>>
      BY <1>3 DEF Goroutine, TickBegin, TickIdle, TickRetry, TickWindow,
         FireSucceeds, FireRefused, FireFails, memory
    <2>2. ForcedOff'
      BY <2>1 DEF SavedForcedOff, ForcedOff
    <2>3. disk' = disk \/ \E n \in {0, 1} : Save(n)
      BY <1>3 DEF Goroutine, TickBegin, TickIdle, TickRetry, TickWindow,
         FireSucceeds, FireRefused, FireFails
    <2> QED
      BY <1>1, <1>2, <2>1, <2>2, <2>3
  <1>4. CASE Handlers
    <2>1. \E n \in {0, 1} : Save(n)
      BY <1>4 DEF Handlers, SetEnabled, Replace
    <2>2. ForcedOff'
      BY <1>4, Zenon DEF Handlers, SetEnabled, Replace, ForcedOff
    <2> QED
      BY <1>1, <2>1, <2>2
  <1>5. CASE Restart
    BY <1>5 DEF Restart, SavedForcedOff, ForcedOff, Loaded
  <1>6. CASE Minute \/ ClockShift \/ UNCHANGED vars
    BY <1>2, <1>6 DEF Minute, ClockShift, memory, vars
  <1> QED
    BY <1>3, <1>4, <1>5, <1>6 DEF Next

\* A schedule without entries is never enabled.
THEOREM NeverEnabledEmpty == Spec => []ForcedOff
  <1>1. Init => TypeOK /\ SavedForcedOff
    <2>1. Init => SavedForcedOff
      BY DEF Init, SavedForcedOff, ForcedOff, Loaded, EmptySchedule, FirstFiles
    <2> QED
      BY <2>1, InitType
  <1>2. TypeOK /\ SavedForcedOff /\ [Next]_vars => (TypeOK /\ SavedForcedOff)'
    BY StepType, StepForced
  <1> QED
    BY <1>1, <1>2, PTL DEF Spec, SavedForcedOff

LEMMA StepDeadline ==
    ASSUME [Next]_vars, retry # None, retry' # None,
           retry'.entry.at = retry.entry.at
    PROVE  retry'.deadline = retry.deadline
  <1>1. CASE retry' = retry
    BY <1>1
  <1>2. CASE FireFails
    <2>1. retry'.entry = job.entry /\ retry'.deadline = Deadline
      BY <1>2 DEF FireFails
    <2> QED
      BY <2>1 DEF Deadline, Again
  <1>3. CASE ~FireFails
    BY <1>1, <1>3 DEF Next, Goroutine, TickBegin, TickIdle, TickRetry,
       TickWindow, FireSucceeds, FireRefused, Handlers, SetEnabled, Replace,
       Minute, ClockShift, Restart, memory, vars
  <1> QED
    BY <1>2, <1>3

\* The ten minutes of a retry run from its first failure.
THEOREM DeadlineNeverMoves == Spec => DeadlineKept
  <1>1. [Next]_vars =>
            [(retry # None /\ retry' # None /\ retry'.entry.at = retry.entry.at)
                => retry'.deadline = retry.deadline]_vars
    BY StepDeadline
  <1> QED
    BY <1>1, PTL DEF Spec, DeadlineKept

(***************************************************************************)
(* What a tick fires.                                                      *)
(***************************************************************************)

\* What a decision is taken from.
LEMMA DecidingType ==
    ASSUME TypeOK, Deciding
    PROVE  /\ lastTick \in Minutes /\ tick.now.minute \in Minutes
           /\ lastTick # tick.now.minute
           /\ \A m \in Minutes : m \in Nat /\ m < DayLen
           /\ DayLen \in Nat
           /\ tick.now.day \in Nat /\ tickDay \in Nat
           /\ tick.entries \in SUBSET Entry
           /\ \A e \in tick.entries : e.at \in Minutes
  <1>1. lastTick \in Minutes \cup {None} /\ tickDay \in Nat \ {0}
    BY DEF TypeOK
  <1>2. \A m \in Minutes : m \in Nat /\ m < DayLen
    BY SchedulerAssumption DEF Minutes
  <1>3. \A e \in Entry : e.at \in Minutes
    BY DEF Entry
  <1> QED
    BY <1>1, <1>2, <1>3, TickType, SchedulerAssumption DEF Deciding

\* The two decisions that leave the reading of a tick in lastTick: the
\* others keep lastTick, or forget it, or end a tick that decides nothing.
LEMMA DecisionSteps ==
    ASSUME TypeOK, OneAtATime, Deciding, [Next]_vars,
           lastTick' = tick.now.minute \/ job' # None
    PROVE  TickRetry \/ TickWindow
  <1>1. lastTick # tick.now.minute /\ tick.now.minute # None
    BY DecidingType, NoneAssumption
  <1>2. tick # None /\ job = None
    BY DEF Deciding, OneAtATime
  <1>3. CASE UNCHANGED <<lastTick, job>>
    BY <1>1, <1>2, <1>3
  <1>4. CASE Restart
    BY <1>1, <1>4 DEF Restart
  <1>5. CASE TickIdle
    BY <1>5 DEF TickIdle, Deciding
  <1>6. CASE TickBegin \/ FireSucceeds \/ FireRefused \/ FireFails
    BY <1>2, <1>6 DEF TickBegin, FireSucceeds, FireRefused, FireFails
  <1> QED
    BY <1>3, <1>4, <1>5, <1>6 DEF Next, Goroutine, Handlers, SetEnabled,
       Replace, Minute, ClockShift, vars

\* A transition fires an entry of the window.
LEMMA TransitionFires ==
    ASSUME TypeOK, OneAtATime, [Next]_vars, Transition
    PROVE  /\ job'.entry \in tick.entries
           /\ InWindow(lastTick, tick.now.minute, job'.entry.at)
  <1>1. TickWindow
    BY DecisionSteps DEF Transition, TickRetry
  <1>2. PICK e \in Fresh : job' = [entry |-> e, now |-> tick.now]
    BY <1>1 DEF TickWindow, Transition
  <1> QED
    BY <1>2 DEF Fresh, Window

\* An entry of the window had its time of day between the two ticks.
LEMMA WindowCrossed ==
    ASSUME TypeOK, Deciding, NEW at \in Minutes,
           InWindow(lastTick, tick.now.minute, at),
           ~Before(tick.now.day, tick.now.minute, tickDay, lastTick)
    PROVE  Before(tickDay, lastTick, OccurredOn(tick.now, at), at)
  <1> DEFINE now == tick.now.minute
             d == tick.now.day
  <1>1. /\ lastTick \in Nat /\ now \in Nat /\ at \in Nat /\ lastTick # now
        /\ d \in Nat /\ tickDay \in Nat
    BY DecidingType
  <1>2. d > tickDay \/ (d = tickDay /\ now > lastTick)
    BY <1>1 DEF Before
  <1>3. OccurredOn(tick.now, at) = IF at <= now THEN d ELSE d - 1
    BY DEF OccurredOn
  <1>4. IF now > lastTick THEN lastTick < at /\ at <= now
                          ELSE lastTick < at \/ at <= now
    BY DEF InWindow
  <1> HIDE DEF now, d
  <1> QED
    BY <1>1, <1>2, <1>3, <1>4 DEF Before

\* Between two ticks in wall-clock order only an entry whose time of day lies
\* between them fires: nothing that passed while the daemon was down or the
\* schedule off is caught up with, and nothing of later today is fired early
\* (scheduler.go, tick's window).
THEOREM OnlyCrossedFires == Spec => FiresOnlyCrossed
  <1>1. TypeOK /\ NotFiredYet /\ [Next]_vars =>
            [(Transition /\ ~Before(tick.now.day, tick.now.minute, tickDay,
                                    lastTick)) => FiresCrossed]_vars
    <2> SUFFICES ASSUME TypeOK, OneAtATime, [Next]_vars, Transition,
                        ~Before(tick.now.day, tick.now.minute, tickDay, lastTick)
                 PROVE  FiresCrossed
      BY DEF NotFiredYet
    <2>1. Deciding
      BY DEF Transition
    <2>2. job'.entry.at \in Minutes
      BY <2>1, TransitionFires, DecidingType
    <2> QED
      BY <2>1, <2>2, TransitionFires, WindowCrossed DEF FiresCrossed
  <1> QED
    BY <1>1, Inductive, PTL DEF Spec, FiresOnlyCrossed

\* The minute of the tick is the last of its window: no entry of the window is
\* later than one of the present minute.
LEMMA NowIsLatest ==
    ASSUME TypeOK, Deciding
    PROVE  LET now == tick.now.minute IN
           /\ InWindow(lastTick, now, now)
           /\ \A at \in Minutes :
                 /\ InWindow(lastTick, now, at)
                 /\ Dist(lastTick, now) <= Dist(lastTick, at)
                 => at = now
  <1> DEFINE now == tick.now.minute
  <1>1. /\ lastTick \in Nat /\ now \in Nat /\ lastTick # now
        /\ lastTick < DayLen /\ now < DayLen /\ DayLen \in Nat
    BY DecidingType
  <1> HIDE DEF now
  <1>2. InWindow(lastTick, now, now)
    BY <1>1 DEF InWindow
  <1>3. ASSUME NEW at \in Minutes, InWindow(lastTick, now, at),
               Dist(lastTick, now) <= Dist(lastTick, at)
        PROVE  at = now
    <2>1. at \in Nat /\ at < DayLen
      BY SchedulerAssumption DEF Minutes
    <2> QED
      BY <1>1, <1>3, <2>1 DEF InWindow, Dist
  <1> QED
    BY <1>2, <1>3 DEF now

\* A decision fires the entry of the tick's minute, if it has not fired that
\* day.
LEMMA DueStep ==
    ASSUME TypeOK, NotFiredYet, [Next]_vars, Decides,
           NEW e \in tick.entries, e.at = tick.now.minute,
           tick.firedAt[e.at] # tick.now.day
    PROVE  job' # None /\ job'.entry.at = e.at
  <1> OneAtATime
    BY DEF NotFiredYet
  <1>1. Deciding /\ (TickRetry \/ TickWindow)
    BY DecisionSteps DEF Decides
  <1>2. e \in Window /\ e \in Fresh
    BY <1>1, NowIsLatest DEF Window, Fresh
  <1>3. tick.now \in Clock /\ \A x \in Entry : x.at \in Minutes
    BY <1>1, TickType DEF Deciding, Entry
  <1>4. CASE TickRetry
    <2>1. retry # None /\ e.at = retry.entry.at
      BY <1>2, <1>4 DEF TickRetry, Attempt, Superseded
    <2>2. job' = [entry |-> retry.entry, now |-> tick.now]
      BY <1>4 DEF TickRetry
    <2>3. job' \in Job
      BY <1>3, <2>1, <2>2, RetryType DEF Job
    <2> QED
      BY <2>1, <2>2, <2>3, NoneAssumption
  <1>5. CASE TickWindow
    <2>1. PICK f \in Fresh : /\ Latest(lastTick, Fresh, f)
                             /\ job' = [entry |-> f, now |-> tick.now]
      BY <1>2, <1>5 DEF TickWindow
    <2>2. f \in Entry /\ f.at \in Minutes
      BY <1>1, <1>3, DecidingType DEF Fresh, Window
    <2>3. InWindow(lastTick, tick.now.minute, f.at)
      BY DEF Fresh, Window
    <2>4. Dist(lastTick, tick.now.minute) <= Dist(lastTick, f.at)
      BY <1>2, <2>1 DEF Latest
    <2>5. f.at = e.at
      BY <1>1, <2>2, <2>3, <2>4, NowIsLatest
    <2>6. job' \in Job
      BY <1>3, <2>1, <2>2 DEF Job
    <2> QED
      BY <2>1, <2>5, <2>6, NoneAssumption
  <1> QED
    BY <1>1, <1>4, <1>5

\* An entry of the tick's minute that has not fired today is what the tick
\* fires, by the window or as the retry of its At-time: a retry is superseded
\* in the tick that finds another entry due, and the latest of a wide window
\* is the one of the present minute (scheduler.go, tick).
THEOREM DueEntryFires == Spec => DueFires
  <1>1. TypeOK /\ NotFiredYet /\ [Next]_vars =>
            [Decides => \A e \in tick.entries :
                (/\ e.at = tick.now.minute
                 /\ tick.firedAt[e.at] # tick.now.day)
                    => job' # None /\ job'.entry.at = e.at]_vars
    BY DueStep
  <1> QED
    BY <1>1, Inductive, PTL DEF Spec, DueFires

(***************************************************************************)
(* When an entry stays silent.                                             *)
(***************************************************************************)

\* One time of the wall clock is no earlier than another, unless the clock
\* was set back on the other's day.
Since(d1, m1, d2, m2, back) == d2 \in back \/ ~Before(d1, m1, d2, m2)

\* Every success that was not late is no later than the given time.
Behind(fired, day, minute, l, back) ==
    \A m \in Minutes : \/ fired[m] = 0
                       \/ <<m, fired[m]>> \in l
                       \/ Since(day, minute, fired[m], m, back)

\* The successes recorded, in memory or on disk, are behind the clock, the
\* last tick and a running tick.
RecordsBehind ==
    \A fired \in {firedAt, Loaded.firedAt} :
        /\ Behind(fired, clock.day, clock.minute, late, setBack)
        /\ lastTick # None => Behind(fired, tickDay, lastTick, late, setBack)
        /\ tick # None =>
             Behind(fired, tick.now.day, tick.now.minute, late, setBack)

\* The ticks are in order, the copy a tick decides from is behind the tick
\* before it, and a fire records the time of the last tick.
TicksInOrder ==
    /\ tickDay <= clock.day
    /\ lastTick # None =>
         Since(clock.day, clock.minute, tickDay, lastTick, setBack)
    /\ tick # None =>
         /\ Since(clock.day, clock.minute, tick.now.day, tick.now.minute, setBack)
         /\ tickDay <= tick.now.day
         /\ lastTick # None =>
              /\ Since(tick.now.day, tick.now.minute, tickDay, lastTick, setBack)
              /\ Behind(tick.firedAt, tickDay, lastTick, late, setBack)
    /\ job # None => lastTick = job.now.minute /\ tickDay = job.now.day

\* Forgetting successes, and remembering more of what excuses them, keeps
\* the rest behind.
LEMMA BehindKept ==
    ASSUME NEW f, NEW g, NEW day, NEW minute, NEW l, NEW k, NEW s, NEW t,
           Behind(f, day, minute, l, s),
           \A m \in Minutes : g[m] \in {0, f[m]}, l \subseteq k, s \subseteq t
    PROVE  Behind(g, day, minute, k, t)
  BY DEF Behind, Since

\* And so does a later time.
LEMMA BehindLater ==
    ASSUME NEW f \in FiredAt, NEW l, NEW s, NEW t, NEW d \in Nat, NEW e \in Nat,
           NEW m \in Minutes, NEW n \in Minutes, Behind(f, d, m, l, s),
           \A x \in Nat, y \in Minutes :
              Since(d, m, x, y, s) => Since(e, n, x, y, t)
    PROVE  Behind(f, e, n, l, t)
  BY DEF Behind, FiredAt

\* The times there are.
LEMMA TimesType ==
    ASSUME TypeOK
    PROVE  /\ clock.day \in Nat /\ clock.minute \in Minutes
           /\ tickDay \in Nat
           /\ lastTick # None => lastTick \in Minutes
           /\ tick # None => tick.now.day \in Nat /\ tick.now.minute \in Minutes
           /\ \A m \in Minutes : m \in Nat
  BY TickType, SchedulerAssumption DEF TypeOK, Clock, Minutes

\* What the clock's own steps leave true of its past.
LEMMA ClockGoesOn ==
    ASSUME TypeOK, TypeOK', (Minute /\ setBack' = setBack) \/ Shifts
    PROVE  /\ clock.day <= clock'.day
           /\ \A x \in Nat, y \in Minutes :
                Since(clock.day, clock.minute, x, y, setBack) =>
                  Since(clock'.day, clock'.minute, x, y, setBack')
  <1>1. /\ clock.day \in Nat /\ clock.minute \in Nat
        /\ clock'.day \in Nat /\ clock'.minute \in Nat
    BY SchedulerAssumption DEF TypeOK, Clock, Minutes
  <1>2. \A y \in Minutes : y \in Nat
    BY SchedulerAssumption DEF Minutes
  <1>3. CASE Minute /\ setBack' = setBack
    <2>1. \/ clock'.day = clock.day + 1
          \/ clock'.day = clock.day /\ clock'.minute = clock.minute + 1
      <3>1. clock \in Clock
        BY DEF TypeOK
      <3> QED
        BY <1>3, <3>1 DEF Minute, Clock
    <2> QED
      BY <1>1, <1>2, <1>3, <2>1 DEF Since, Before
  <1>4. CASE Shifts
    <2>1. clock'.day = clock.day
      <3>1. clock \in Clock
        BY DEF TypeOK
      <3> QED
        BY <1>4, <3>1 DEF Shifts, ClockShift, Clock
    <2>2. setBack' = IF clock'.minute < clock.minute
                     THEN setBack \cup {clock.day} ELSE setBack
      BY <1>4 DEF Shifts
    <2> QED
      BY <1>1, <1>2, <2>1, <2>2 DEF Since, Before
  <1> QED
    BY <1>3, <1>4

LEMMA InitBehind == SilenceInit => RecordsBehind /\ TicksInOrder
  <1> SUFFICES ASSUME SilenceInit PROVE RecordsBehind /\ TicksInOrder
    OBVIOUS
  <1>1. Loaded.firedAt = NeverFired /\ firedAt = NeverFired /\ lastTick = None
        /\ tick = None /\ job = None /\ tickDay = 1 /\ clock.day = 1
    BY InitFired DEF SilenceInit, Init
  <1> QED
    BY <1>1 DEF RecordsBehind, TicksInOrder, Behind, NeverFired

\* Steps of the goroutine that end no fire with success.
LEMMA TickBehind ==
    ASSUME TypeOK, TypeOK', NotFiredYet, RecordsBehind, TicksInOrder,
           [Next]_vars, TickBegin \/ TickIdle \/ TickRetry \/ TickWindow,
           UNCHANGED <<late, setBack>>
    PROVE  RecordsBehind' /\ TicksInOrder'
  <1>1. firedAt' = firedAt /\ clock' = clock
    BY DEF TickBegin, TickIdle, TickRetry, TickWindow, memory
  <1>2. Loaded'.firedAt \in {firedAt, Loaded.firedAt}
    BY <1>1, DiskStep
  <1>3. CASE TickBegin
    <2>1. tick' = [now |-> clock, enabled |-> enabled, entries |-> entries,
                   firedAt |-> firedAt]
      BY <1>3 DEF TickBegin
    <2>2. tick'.now = clock /\ tick'.firedAt = firedAt
      BY <2>1
    <2>3. lastTick' = lastTick /\ tickDay' = tickDay /\ job' = None
      BY <1>3 DEF TickBegin
    <2>4. Since(clock.day, clock.minute, clock.day, clock.minute, setBack)
      BY TimesType DEF Since, Before
    <2>5. RecordsBehind'
      BY <1>1, <1>2, <2>2, <2>3 DEF RecordsBehind
    <2> QED
      BY <1>1, <2>2, <2>3, <2>4, <2>5 DEF RecordsBehind, TicksInOrder
  <1>4. CASE TickIdle \/ TickRetry \/ TickWindow
    <2>1. /\ tick # None /\ tick' = None
          /\ lastTick' = tick.now.minute /\ tickDay' = tick.now.day
      BY <1>4 DEF TickIdle, TickRetry, TickWindow, Deciding, Ticked
    <2>2. RecordsBehind'
      BY <1>1, <1>2, <2>1 DEF RecordsBehind
    <2>3. job' # None => job'.now = tick.now
      <3>1. CASE TickIdle
        BY <2>1, <3>1 DEF TickIdle, NotFiredYet, OneAtATime
      <3>2. CASE TickRetry \/ TickWindow
        BY <3>2 DEF TickRetry, TickWindow
      <3> QED
        BY <1>4, <3>1, <3>2
    <2>4. tick.now.day <= clock.day
      BY <2>1 DEF NotFiredYet, TickFresh
    <2> QED
      BY <1>1, <2>1, <2>2, <2>3, <2>4 DEF TicksInOrder
  <1> QED
    BY <1>3, <1>4

\* A success is dated by the tick that started its fire.
LEMMA SuccessBehind ==
    ASSUME TypeOK, TypeOK', NotFiredYet, RecordsBehind, TicksInOrder,
           [Next]_vars, Succeeds
    PROVE  RecordsBehind' /\ TicksInOrder'
  <1>1. /\ job # None /\ job' = None
        /\ clock' = clock /\ lastTick' = lastTick /\ tick' = tick
        /\ tickDay' = tickDay /\ setBack' = setBack
        /\ firedAt' = [firedAt EXCEPT ![job.entry.at] = job.now.day]
        /\ late' = IF job.now.minute < job.entry.at
                   THEN late \cup {<<job.entry.at, job.now.day>>} ELSE late
    BY DEF Succeeds, FireSucceeds
  <1>2. tick = None
    BY <1>1 DEF NotFiredYet, OneAtATime
  <1>3. lastTick = job.now.minute /\ tickDay = job.now.day
    BY <1>1 DEF TicksInOrder
  <1>4. job.entry.at \in Minutes /\ job.now.day \in Nat
    BY <1>1, JobType
  <1>5. job.now.minute \in Minutes
    BY <1>1, JobType DEF Clock
  <1>6. \A m \in Minutes : m \in Nat
    BY SchedulerAssumption DEF Minutes
  <1>7. lastTick # None
    BY <1>3, <1>5, NoneAssumption
  <1>8. firedAt \in FiredAt /\ clock.day \in Nat /\ clock.minute \in Minutes
    BY DEF TypeOK, Clock
  <1>9. ASSUME NEW d \in Nat, NEW n \in Minutes,
               Behind(firedAt, d, n, late, setBack),
               Since(d, n, tickDay, lastTick, setBack)
        PROVE  Behind(firedAt', d, n, late', setBack')
    <2> SUFFICES ASSUME NEW m \in Minutes
                 PROVE  \/ firedAt'[m] = 0
                        \/ <<m, firedAt'[m]>> \in late'
                        \/ Since(d, n, firedAt'[m], m, setBack)
      BY <1>1 DEF Behind
    <2>1. CASE m # job.entry.at
      <3>1. firedAt'[m] = firedAt[m]
        BY <1>1, <1>8, <2>1 DEF FiredAt
      <3> QED
        BY <1>1, <1>9, <3>1 DEF Behind
    <2>2. CASE m = job.entry.at
      <3>1. firedAt'[m] = job.now.day
        BY <1>1, <1>8, <2>2 DEF FiredAt
      <3>2. CASE job.now.minute < m
        BY <1>1, <2>2, <3>1, <3>2
      <3>3. CASE ~(job.now.minute < m)
        BY <1>3, <1>4, <1>5, <1>6, <1>9, <2>2, <3>1, <3>3 DEF Since, Before
      <3> QED
        BY <3>2, <3>3
    <2> QED
      BY <2>1, <2>2
  <1>10. Since(tickDay, lastTick, tickDay, lastTick, setBack)
    BY <1>3, <1>4, <1>5, <1>6 DEF Since, Before
  <1>11. /\ Behind(firedAt', clock.day, clock.minute, late', setBack')
         /\ Behind(firedAt', tickDay, lastTick, late', setBack')
    BY <1>3, <1>4, <1>5, <1>7, <1>8, <1>9, <1>10 DEF RecordsBehind, TicksInOrder
  <1>12. late \subseteq late'
    BY <1>1
  <1>13. /\ Behind(Loaded.firedAt, clock.day, clock.minute, late', setBack')
         /\ Behind(Loaded.firedAt, tickDay, lastTick, late', setBack')
    BY <1>1, <1>7, <1>12 DEF RecordsBehind, Behind
  <1>14. Loaded'.firedAt \in {firedAt', Loaded.firedAt}
    BY DiskStep
  <1>15. RecordsBehind'
    BY <1>1, <1>2, <1>11, <1>13, <1>14 DEF RecordsBehind
  <1> QED
    BY <1>1, <1>2, <1>15 DEF TicksInOrder

\* The end of a fire without success, an edit and a restart forget some
\* successes at most.
LEMMA ForgettingBehind ==
    ASSUME TypeOK, TypeOK', NotFiredYet, RecordsBehind, TicksInOrder,
           [Next]_vars,
           FireRefused \/ FireFails \/ Handlers \/ Restart \/ UNCHANGED vars,
           UNCHANGED <<late, setBack>>
    PROVE  RecordsBehind' /\ TicksInOrder'
  <1>1. clock' = clock /\ tickDay' = tickDay
    BY DEF FireRefused, FireFails, Handlers, SetEnabled, Replace, Restart, vars
  <1>2. firedAt' \in {NeverFired, firedAt, Loaded.firedAt}
    BY DEF FireRefused, FireFails, Handlers, SetEnabled, Replace, Restart, vars
  <1>3. Loaded'.firedAt \in {firedAt', Loaded.firedAt}
    BY DiskStep
  <1>4. ASSUME NEW d, NEW m
        PROVE  Behind(NeverFired, d, m, late, setBack)
    BY DEF Behind, NeverFired
  <1>5. \/ tick' = None /\ lastTick' = None /\ job' = None
        \/ tick' = tick /\ lastTick' = lastTick /\ job' \in {None, job}
    BY DEF FireRefused, FireFails, Handlers, SetEnabled, Replace, Restart, vars
  <1>6. RecordsBehind'
    BY <1>1, <1>2, <1>3, <1>4, <1>5 DEF RecordsBehind
  <1>7. TicksInOrder'
    BY <1>1, <1>5 DEF TicksInOrder
  <1> QED
    BY <1>6, <1>7

\* Time goes on, or is set back and remembered to be.
LEMMA TimeBehind ==
    ASSUME TypeOK, TypeOK', RecordsBehind, TicksInOrder,
           (Minute /\ UNCHANGED <<late, setBack>>) \/ Shifts
    PROVE  RecordsBehind' /\ TicksInOrder'
  <1>1. /\ UNCHANGED <<firedAt, disk, lastTick, tick, job, tickDay, late>>
        /\ setBack \subseteq setBack'
    BY DEF Minute, Shifts, ClockShift, memory
  <1>2. Loaded'.firedAt = Loaded.firedAt
    BY <1>1 DEF Loaded
  <1>3. ASSUME NEW x \in Nat, NEW y \in Minutes,
               Since(clock.day, clock.minute, x, y, setBack)
        PROVE  Since(clock'.day, clock'.minute, x, y, setBack')
    BY <1>3, ClockGoesOn
  <1>4. clock.day <= clock'.day /\ clock'.day \in Nat /\ clock'.minute \in Minutes
    BY ClockGoesOn DEF TypeOK, Clock
  <1>5. ASSUME NEW fired \in FiredAt, NEW d, NEW m, Behind(fired, d, m, late, setBack)
        PROVE  Behind(fired, d, m, late', setBack')
    BY <1>1, <1>5 DEF Behind, Since
  <1>6. ASSUME NEW fired \in FiredAt,
               Behind(fired, clock.day, clock.minute, late, setBack)
        PROVE  Behind(fired, clock'.day, clock'.minute, late', setBack')
    BY <1>1, <1>3, <1>4, <1>6, TimesType, BehindLater
  <1>7. firedAt \in FiredAt /\ Loaded.firedAt \in FiredAt
        /\ (tick # None => tick.firedAt \in FiredAt)
    BY DaysType, TickType
  <1>8. RecordsBehind'
    BY <1>1, <1>2, <1>5, <1>6, <1>7 DEF RecordsBehind
  <1>9. \A d1, m1, d2, m2 : Since(d1, m1, d2, m2, setBack) =>
                            Since(d1, m1, d2, m2, setBack')
    BY <1>1 DEF Since
  <1>10. tickDay <= clock'.day
    BY <1>4, TimesType DEF TicksInOrder
  <1>11. TicksInOrder'
    BY <1>1, <1>3, <1>5, <1>7, <1>9, <1>10, TimesType DEF TicksInOrder
  <1> QED
    BY <1>8, <1>11

\* A watched step is a step.
LEMMA WatchedStep == [SilenceNext]_silenceVars => [Next]_vars
  BY DEF SilenceNext, silenceVars, Succeeds, Shifts, Unwatched, Next, Goroutine

LEMMA StepBehind ==
    ASSUME TypeOK, TypeOK', NotFiredYet, RecordsBehind, TicksInOrder,
           [SilenceNext]_silenceVars
    PROVE  RecordsBehind' /\ TicksInOrder'
  <1>1. [Next]_vars
    BY WatchedStep
  <1>2. CASE Succeeds
    BY <1>1, <1>2, SuccessBehind
  <1>3. CASE Shifts
    BY <1>3, TimeBehind
  <1>4. CASE Unwatched
    BY <1>1, <1>4, TickBehind, ForgettingBehind, TimeBehind DEF Unwatched
  <1>5. CASE UNCHANGED silenceVars
    BY <1>1, <1>5, ForgettingBehind DEF silenceVars
  <1> QED
    BY <1>2, <1>3, <1>4, <1>5 DEF SilenceNext

\* A tick that decides in an entry's minute fires it, unless a success that
\* was late has the day's date, or the clock was set back that day.
LEMMA SilenceStep ==
    ASSUME TypeOK, NotFiredYet, RecordsBehind, TicksInOrder, [Next]_vars,
           Decides, NEW e \in tick.entries, e.at = tick.now.minute,
           <<e.at, tick.now.day>> \notin late, tick.now.day \notin setBack
    PROVE  job' # None /\ job'.entry.at = e.at
  <1>1. Deciding
    BY DEF Decides
  <1>2. tick # None /\ lastTick # None /\ e.at \in Minutes
    BY <1>1, DecidingType DEF Deciding
  <1>3. /\ lastTick \in Nat /\ tick.now.minute \in Nat /\ tickDay \in Nat
        /\ tick.now.day \in Nat \ {0} /\ lastTick # tick.now.minute
    BY <1>1, <1>2, DecidingType, TickType
  <1>4. tick.firedAt[e.at] # tick.now.day
    <2> SUFFICES ASSUME tick.firedAt[e.at] = tick.now.day PROVE FALSE
      OBVIOUS
    <2>1. Since(tickDay, lastTick, tick.now.day, e.at, setBack)
      BY <1>2, <1>3 DEF TicksInOrder, Behind
    <2>2. /\ Since(tick.now.day, tick.now.minute, tickDay, lastTick, setBack)
          /\ tickDay <= tick.now.day
      BY <1>2 DEF TicksInOrder
    <2>3. ~Before(tickDay, lastTick, tick.now.day, tick.now.minute)
      BY <2>1 DEF Since
    <2>4. tickDay = tick.now.day
      BY <1>3, <2>2, <2>3 DEF Before
    <2>5. ~Before(tick.now.day, tick.now.minute, tickDay, lastTick)
      BY <2>2, <2>4 DEF Since
    <2> QED
      BY <1>3, <2>3, <2>4, <2>5 DEF Before
  <1> QED
    BY <1>4, DueStep

\* A tick in an entry's minute fires it, be it by the window or as its retry,
\* but on a day that a late success reached into, or on which the clock was
\* set back (scheduler.go:395-450, 498).
THEOREM SilenceHasAReason == SilenceSpec => SilentForAReason
  <1>1. SilenceSpec => Spec
    <2>1. SilenceInit => Init
      BY DEF SilenceInit
    <2> QED
      BY <2>1, WatchedStep, PTL DEF SilenceSpec, Spec
  <1>2. SilenceSpec => [](TypeOK /\ NotFiredYet)
    BY <1>1, Inductive, PTL
  <1>3. (TypeOK /\ NotFiredYet) /\ (TypeOK /\ NotFiredYet)'
          /\ (RecordsBehind /\ TicksInOrder) /\ [SilenceNext]_silenceVars
          => (RecordsBehind /\ TicksInOrder)'
    BY StepBehind
  <1>4. SilenceSpec => [](RecordsBehind /\ TicksInOrder)
    BY <1>2, <1>3, InitBehind, PTL DEF SilenceSpec
  <1>5. (TypeOK /\ NotFiredYet) /\ (RecordsBehind /\ TicksInOrder)
          /\ [SilenceNext]_silenceVars
          => [Decides =>
                \A e \in tick.entries :
                  e.at = tick.now.minute =>
                      \/ job' # None /\ job'.entry.at = e.at
                      \/ /\ tick.firedAt[e.at] = tick.now.day
                         /\ \/ <<e.at, tick.now.day>> \in late
                            \/ tick.now.day \in setBack]_silenceVars
    BY WatchedStep, DueStep, SilenceStep
  <1> QED
    BY <1>2, <1>4, <1>5, PTL DEF SilenceSpec, SilentForAReason
=============================================================================
