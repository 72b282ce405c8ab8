----------------------------- MODULE Scheduler -----------------------------
(***************************************************************************)
(* The per-device scheduler, cmd/breezyd/scheduler.go.                     *)
(*                                                                         *)
(* One goroutine ticks once a minute (Run, tick, fire); HTTP handlers call *)
(* Replace and SetEnabled at any time.  s.mu protects the fields but is    *)
(* released between the parts of a tick, so a tick is three steps here:    *)
(* the snapshot under the mutex (TickBegin), the decision taken from that  *)
(* snapshot (TickIdle, TickRetry, TickWindow), and, when something fires,  *)
(* the end of fire() after its UDP exchanges (FireSucceeds, FireRefused,   *)
(* FireFails).  A handler, a crash or the clock can come between any two.  *)
(*                                                                         *)
(* Time is counted in minutes.  clock.mono is Go's monotonic reading, by   *)
(* which retries are timed; clock.day and clock.minute are the local wall  *)
(* clock, which a DST change or a time correction shifts (ClockShift).     *)
(***************************************************************************)
EXTENDS Integers, FiniteSets

CONSTANTS DayLen,         \* minutes in a day
          Ats,            \* the At-times an edit can use
          Actions,        \* the valid actions, with their pct
          MaxEntries,     \* maxScheduleEntries
          RetryCadence,   \* 30 s: the next minute's tick is past it
          RetryDeadline,  \* 10 min
          None,           \* nil
          \* Bounds of the model.
          MaxMono,        \* minutes a behaviour lasts
          MaxBack,        \* largest backward shift of the wall clock
          MaxForward,     \* largest forward shift
          Budget          \* edits, restarts, shifts and failed saves

Minutes == 0..(DayLen - 1)

ASSUME SchedulerAssumption ==
    /\ DayLen \in Nat \ {0}
    /\ Ats \subseteq Minutes
    /\ MaxEntries \in Nat
    /\ RetryCadence \in Nat
    /\ RetryDeadline \in Nat
    /\ MaxMono \in Nat
    /\ MaxBack \in Nat
    /\ MaxForward \in Nat
    /\ Budget \in Nat

VARIABLES clock,       \* [day, minute, mono]
          enabled, entries, lastApply, retry,
          firedAt,     \* minute -> day of the last success, 0 = none
          lastTick,    \* minute of the last tick, None = !haveLastTick
          disk,        \* schedule_<device>.json, None = no file
          tick,        \* locals of a running tick, None = none runs
          job,         \* arguments of a running fire(), None = none runs
          tickDay,     \* history: day of the tick lastTick records
          unsaved,     \* history: the last save failed
          punctual,    \* constant of a behaviour: every minute has its tick
          budget

memory == <<enabled, entries, lastApply, retry, firedAt>>
vars == <<clock, enabled, entries, lastApply, retry, firedAt, lastTick, disk,
          tick, job, tickDay, unsaved, punctual, budget>>

Entry == [at : Minutes, action : Actions]
Clock == [day : Nat \ {0}, minute : Minutes, mono : Nat]
Outcome == {"ok", "auth", "transient"}
LastApply == [at : Minutes, outcome : Outcome, retries : Nat]
Retry == [entry : Entry, attempts : Nat \ {0}, next : Nat, deadline : Nat]
FiredAt == [Minutes -> Nat]
Persisted == [enabled : BOOLEAN, entries : SUBSET Entry,
              lastApply : LastApply \cup {None}, firedAt : FiredAt]
Tick == [now : Clock, enabled : BOOLEAN, entries : SUBSET Entry,
         firedAt : FiredAt]
Job == [entry : Entry, now : Clock]

\* nil is none of the values it stands in for.
ASSUME NoneAssumption ==
    None \notin Minutes \cup LastApply \cup Retry \cup Persisted \cup Tick
               \cup Job \cup (Minutes \X Nat)

NeverFired == [m \in Minutes |-> 0]

\* What validate accepts: few enough entries, no two of them at one time.
\* (A pct out of range or an unknown action is not an Action.)
Valid(es) == /\ Cardinality(es) <= MaxEntries
             /\ \A e, f \in es : e.at = f.at => e = f

-----------------------------------------------------------------------------
(* Persistence.  Load takes what the file holds; no file is an empty       *)
(* schedule.                                                               *)

\* Defect: the file leaves firedAt out, as version 1 did.
ContentsNoFiredAt == [enabled |-> enabled, entries |-> entries,
                      lastApply |-> lastApply, firedAt |-> NeverFired]

Contents == [enabled |-> enabled, entries |-> entries,
             lastApply |-> lastApply, firedAt |-> firedAt]

\* Defect: fire() writes a nil firedAt map.
EmptyScheduleNil == [enabled |-> FALSE, entries |-> {}, lastApply |-> None,
                     firedAt |-> None]

EmptySchedule == [enabled |-> FALSE, entries |-> {}, lastApply |-> None,
                  firedAt |-> NeverFired]

Loaded == IF disk = None THEN EmptySchedule ELSE disk

Spend(n) == /\ budget >= n
            /\ budget' = budget - n

\* save() with the primed fields, in a step that itself costs n: it writes
\* the file, or fails and leaves the previous one.
Save(n) == \/ /\ disk' = Contents'
              /\ unsaved' = FALSE
              /\ Spend(n)
           \/ /\ UNCHANGED disk
              /\ unsaved' = TRUE
              /\ Spend(n + 1)

\* The entries an edit can be made of.
Offered == [at : Ats, action : Actions]

\* The daemon starts on a missing file or on one a previous run saved.
FirstFiles == {None} \cup
    {f \in [enabled : {TRUE}, entries : SUBSET Offered, lastApply : {None},
            firedAt : {NeverFired}] : f.entries # {} /\ Valid(f.entries)}

Init == /\ clock \in [day : {1}, minute : Minutes, mono : {0}]
        /\ disk \in FirstFiles
        /\ enabled = Loaded.enabled
        /\ entries = Loaded.entries
        /\ lastApply = Loaded.lastApply
        /\ retry = None
        /\ firedAt = Loaded.firedAt
        /\ lastTick = None
        /\ tick = None
        /\ job = None
        /\ tickDay = 1
        /\ unsaved = FALSE
        /\ punctual \in BOOLEAN
        /\ budget = Budget

-----------------------------------------------------------------------------
(* The handlers' side: PUT /schedule, the enable toggle.                   *)

Replace(en, es) ==
    /\ Valid(es)
    /\ enabled' = (en /\ es # {})
    /\ entries' = es
    /\ lastApply' = None
    /\ retry' = None
    /\ firedAt' = NeverFired
    /\ UNCHANGED <<clock, lastTick, tick, job, tickDay, punctual>>
    /\ Save(1)

SetEnabled(en) ==
    /\ enabled' = (en /\ entries # {})
    /\ UNCHANGED <<clock, entries, lastApply, retry, firedAt, lastTick,
                   tick, job, tickDay, punctual>>
    /\ Save(1)

-----------------------------------------------------------------------------
(* The goroutine's side: one tick.                                         *)

TickBegin ==
    /\ tick = None
    /\ job = None
    /\ tick' = [now |-> clock, enabled |-> enabled, entries |-> entries,
                firedAt |-> firedAt]
    /\ UNCHANGED <<clock, memory, lastTick, disk, job, tickDay, unsaved,
                   budget, punctual>>

\* The tick ends with the minute recorded.
Ticked == /\ tick' = None
          /\ lastTick' = tick.now.minute
          /\ tickDay' = tick.now.day

\* Disabled: the retry is dropped.  First tick after a start, or a second
\* tick in one minute: nothing fires.
TickIdle ==
    /\ tick # None
    /\ \/ /\ ~tick.enabled
          /\ retry' = None
       \/ /\ tick.enabled
          /\ lastTick \in {None, tick.now.minute}
          /\ UNCHANGED retry
    /\ Ticked
    /\ UNCHANGED <<clock, enabled, entries, lastApply, firedAt, disk,
                   job, unsaved, budget, punctual>>

\* Defect: the window includes the previous tick's minute.
InWindowClosed(last, now, at) ==
    IF now > last THEN last <= at /\ at <= now
                  ELSE last <= at \/ at <= now

\* The window (last, now], or around midnight (last, DayLen) and [0, now].
InWindow(last, now, at) ==
    IF now > last THEN last < at /\ at <= now
                  ELSE last < at \/ at <= now

\* Defect: tick's dist without the midnight correction.
DistNoWrap(last, at) == at - last

\* Minutes from the last tick to an At-time.
Dist(last, at) == IF at > last THEN at - last ELSE at - last + DayLen

\* No entry of the set has its At-time later in the window.
Latest(last, es, e) == \A f \in es : Dist(last, f.at) <= Dist(last, e.at)

\* The entries of the running tick's window.
Window == {e \in tick.entries : InWindow(lastTick, tick.now.minute, e.at)}

\* tick reaches the retry path.
Deciding == /\ tick # None
            /\ tick.enabled
            /\ lastTick \notin {None, tick.now.minute}

Superseded == /\ retry # None
              /\ \E e \in Window : e.at # retry.entry.at

\* Defect: a retry has no deadline.
ExpiredNever == FALSE

Expired == /\ retry # None
           /\ ~Superseded
           /\ tick.now.mono >= retry.deadline

Attempt == /\ retry # None
           /\ ~Superseded
           /\ ~Expired
           /\ tick.now.mono >= retry.next

\* The retry path attempts the failed entry again; lastTick, private to this
\* goroutine, is written after that fire and is recorded here.
TickRetry ==
    /\ Deciding
    /\ Attempt
    /\ job' = [entry |-> retry.entry, now |-> tick.now]
    /\ Ticked
    /\ UNCHANGED <<clock, memory, disk, unsaved, budget, punctual>>

\* Defect: firedAt is not consulted.
FreshAll == Window

\* The entries of the window that have not fired this local day.
Fresh == {e \in Window : tick.firedAt[e.at] # tick.now.day}

\* Transition detection: the latest of them fires.
TickWindow ==
    /\ Deciding
    /\ ~Attempt
    /\ \/ /\ Fresh = {}
          /\ job' = None
       \/ \E e \in Fresh :
             /\ Latest(lastTick, Fresh, e)
             /\ job' = [entry |-> e, now |-> tick.now]
    /\ retry' = IF Superseded \/ Expired THEN None ELSE retry
    /\ Ticked
    /\ UNCHANGED <<clock, enabled, entries, lastApply, firedAt,
                   punctual>>
    /\ IF Expired THEN Save(0) ELSE UNCHANGED <<disk, unsaved, budget>>

-----------------------------------------------------------------------------
(* The end of fire(), once its exchanges with the unit are over.           *)

\* Defect: the success is dated when its exchanges are over.
FireSucceedsAtEnd ==
    /\ job # None
    /\ lastApply' = [at |-> job.entry.at, outcome |-> "ok", retries |-> 0]
    /\ retry' = None
    /\ firedAt' = [firedAt EXCEPT ![job.entry.at] = clock.day]
    /\ job' = None
    /\ UNCHANGED <<clock, enabled, entries, lastTick, tick, tickDay,
                   punctual>>
    /\ Save(0)

FireSucceeds ==
    /\ job # None
    /\ lastApply' = [at |-> job.entry.at, outcome |-> "ok", retries |-> 0]
    /\ retry' = None
    /\ firedAt' = [firedAt EXCEPT ![job.entry.at] = job.now.day]
    /\ job' = None
    /\ UNCHANGED <<clock, enabled, entries, lastTick, tick, tickDay,
                   punctual>>
    /\ Save(0)

\* Defect: ErrAuth leaves the retry in flight.
FireRefusedRetried ==
    /\ job # None
    /\ lastApply' = [at |-> job.entry.at, outcome |-> "auth", retries |-> 0]
    /\ job' = None
    /\ UNCHANGED <<clock, enabled, entries, retry, firedAt, lastTick,
                   tick, tickDay, punctual>>
    /\ Save(0)

\* ErrAuth: reported, not retried.
FireRefused ==
    /\ job # None
    /\ lastApply' = [at |-> job.entry.at, outcome |-> "auth", retries |-> 0]
    /\ retry' = None
    /\ job' = None
    /\ UNCHANGED <<clock, enabled, entries, firedAt, lastTick, tick,
                   tickDay, punctual>>
    /\ Save(0)

\* A failure of the entry whose retry is in flight.
Again == retry # None /\ retry.entry.at = job.entry.at

\* Defect: each failure opens ten new minutes.
DeadlineRestarted == job.now.mono + RetryDeadline

Deadline == IF Again THEN retry.deadline ELSE job.now.mono + RetryDeadline

\* Any other error: a retry is installed, or extended with its deadline kept.
FireFails ==
    /\ job # None
    /\ LET n == IF Again THEN retry.attempts + 1 ELSE 1
       IN  /\ retry' = [entry |-> job.entry, attempts |-> n,
                        next |-> job.now.mono + RetryCadence,
                        deadline |-> Deadline]
           /\ lastApply' = [at |-> job.entry.at, outcome |-> "transient",
                            retries |-> n - 1]
    /\ job' = None
    /\ UNCHANGED <<clock, enabled, entries, firedAt, lastTick, tick,
                   tickDay, punctual>>
    /\ Save(0)

-----------------------------------------------------------------------------
(* The environment: time and restarts.                                     *)

\* A minute passes.  A tick may be missed (a fire that waits for the unit, a
\* suspended host) unless punctual.
Minute ==
    /\ clock.mono < MaxMono
    /\ punctual => tick = None /\ job = None /\ lastTick = clock.minute
    /\ clock' = IF clock.minute = DayLen - 1
                THEN [day |-> clock.day + 1, minute |-> 0,
                      mono |-> clock.mono + 1]
                ELSE [clock EXCEPT !.minute = @ + 1, !.mono = @ + 1]
    /\ UNCHANGED <<memory, lastTick, disk, tick, job, tickDay, unsaved,
                   budget, punctual>>

\* The wall clock is set to another minute of the same day (not in the last
\* minutes of a behaviour, which are left to the ticks).
ClockShift ==
    /\ clock.mono < MaxMono - 1
    /\ \E m \in Minutes :
          /\ m # clock.minute
          /\ m >= clock.minute - MaxBack
          /\ m <= clock.minute + MaxForward
          /\ clock' = [clock EXCEPT !.minute = m]
    /\ Spend(1)
    /\ UNCHANGED <<memory, lastTick, disk, tick, job, tickDay, unsaved,
                   punctual>>

\* The daemon stops or dies in any state, and starts again: only the file
\* survives.
Restart ==
    /\ enabled' = Loaded.enabled
    /\ entries' = Loaded.entries
    /\ lastApply' = Loaded.lastApply
    /\ firedAt' = Loaded.firedAt
    /\ retry' = None
    /\ lastTick' = None
    /\ tick' = None
    /\ job' = None
    /\ unsaved' = FALSE
    /\ Spend(1)
    /\ UNCHANGED <<clock, disk, tickDay, punctual>>

Goroutine == \/ TickBegin
             \/ TickIdle
             \/ TickRetry
             \/ TickWindow
             \/ FireSucceeds
             \/ FireRefused
             \/ FireFails

Handlers == \E en \in BOOLEAN :
                \/ SetEnabled(en)
                \/ \E es \in SUBSET Offered : Replace(en, es)

Next == \/ Goroutine
        \/ Handlers
        \/ Minute
        \/ ClockShift
        \/ Restart

Spec == Init /\ [][Next]_vars

\* The ticker keeps ticking, a fire ends (fireTimeout bounds it, and the unit's
\* lock is always released), and time passes however often a tick runs.
FairSpec == Spec /\ WF_vars(Goroutine) /\ SF_vars(Minute)

-----------------------------------------------------------------------------
(* Properties.                                                             *)

\* The fields hold what their Go types and their uses allow.
TypeOK ==
    /\ clock \in Clock
    /\ enabled \in BOOLEAN
    /\ entries \in SUBSET Entry
    /\ lastApply \in LastApply \cup {None}
    /\ retry \in Retry \cup {None}
    /\ firedAt \in FiredAt
    /\ lastTick \in Minutes \cup {None}
    /\ disk \in Persisted \cup {None}
    /\ tick \in Tick \cup {None}
    /\ job \in Job \cup {None}
    /\ tickDay \in Nat \ {0}
    /\ unsaved \in BOOLEAN
    /\ punctual \in BOOLEAN
    /\ budget \in Nat

\* The forced-off invariant of SetEnabled and Replace, which Load does not
\* enforce: across edits, failed saves and restarts a schedule without
\* entries is never enabled.
ForcedOff == enabled => entries # {}

\* While a retry is in flight the alert of its failure is showing: whatever
\* installs, extends or clears a retry keeps lastApply in step, so the user
\* is never left with a silent retry or with attempts miscounted.
RetryShowsAlert ==
    retry # None =>
        /\ lastApply # None
        /\ lastApply.at = retry.entry.at
        /\ lastApply.outcome = "transient"
        /\ lastApply.retries = retry.attempts - 1

\* A restart in any state loses nothing but the retry and the window, unless
\* the last save failed: every change of the persisted fields is saved in
\* the critical section that makes it.
DiskMatches ==
    ~unsaved => /\ Loaded.enabled = enabled
                /\ Loaded.entries = entries
                /\ Loaded.lastApply = lastApply
                /\ Loaded.firedAt = firedAt

\* The fire under way, as DailyFire sees it.
Firing == IF job = None THEN None ELSE <<job.entry.at, job.now.day>>

\* An entry is fired at most once per calendar day and in date order, except
\* for what an edit or a lost save makes the daemon forget, whatever the
\* clock, the retries, the edits and the restarts do (the de-duplication the
\* fall-back hour needs).
Daily == INSTANCE DailyFire WITH Nobody <- None, today <- clock.day,
                                 firing <- Firing, fired <- firedAt,
                                 saved <- Loaded.firedAt
OncePerDay == Daily!DFSpec

\* Why it holds, in parts.  A tick waits for the fire it started.
OneAtATime == tick = None \/ job = None

\* No record is of a day to come.
FiredPast == \A m \in Minutes : /\ firedAt[m] <= clock.day
                                /\ Loaded.firedAt[m] <= clock.day

\* A tick's copy of firedAt stays good while it runs: an edit can only clear
\* what it copied.
TickFresh == tick # None =>
    /\ tick.now.day <= clock.day
    /\ \A m \in Minutes : /\ firedAt[m] <= tick.now.day
                          /\ firedAt[m] \in {0, tick.firedAt[m]}

\* What a fire will record is newer than what is recorded.
JobFresh == job # None => /\ job.now.day <= clock.day
                          /\ firedAt[job.entry.at] < job.now.day

\* So is what a retry will record, though the retry path never looks at
\* firedAt.
RetryFresh == retry # None =>
    /\ firedAt[retry.entry.at] < clock.day
    /\ tick # None => firedAt[retry.entry.at] < tick.now.day

\* What a running tick or fire() holds, and what a retry in flight will fire,
\* has no success recorded for the day it would record: a fire never repeats
\* a day, across the goroutine's three critical sections.
NotFiredYet == /\ OneAtATime
               /\ FiredPast
               /\ TickFresh
               /\ JobFresh
               /\ RetryFresh

\* However often a retry fails, its ten minutes run from the first failure.
DeadlineKept ==
    [][(retry # None /\ retry' # None /\ retry'.entry.at = retry.entry.at)
          => retry'.deadline = retry.deadline]_vars

\* <<day, minute>> pairs in wall-clock order.
Before(d1, m1, d2, m2) == d1 < d2 \/ (d1 = d2 /\ m1 < m2)

\* The day of an At-time's last occurrence when it is `now'.
OccurredOn(now, at) == IF at <= now.minute THEN now.day ELSE now.day - 1

\* A tick reaches its decision in this step.
Decides == Deciding /\ lastTick' = tick.now.minute

\* A transition fire starts in this step.
Transition == Deciding /\ ~Attempt /\ job' # None

FiresCrossed ==
    Before(tickDay, lastTick, OccurredOn(tick.now, job'.entry.at),
           job'.entry.at)

\* Between two ticks whose wall-clock times are in order, only an entry whose
\* time of day lies between them fires: none that passed before the last
\* tick, while disabled or while the daemon was down (no catch-up), and none
\* of later today.
FiresOnlyCrossed ==
    [][(Transition /\ ~Before(tick.now.day, tick.now.minute, tickDay, lastTick))
          => FiresCrossed]_vars

\* The same for every tick: what the fall-back design claims ("window
\* detection handles the wraparound and correctly skips entries").
FallBackSkips == [][Transition => FiresCrossed]_vars

\* The entry of the current minute is the one a tick fires, be it by the
\* window or as the retry of the same At-time, unless it already fired today:
\* no retry, superseded or not, and no other entry of a wide window keeps it
\* from its turn.
DueFires ==
    [][Decides =>
          \A e \in tick.entries :
              (/\ e.at = tick.now.minute
               /\ tick.firedAt[e.at] # tick.now.day)
                  => job' # None /\ job'.entry.at = e.at]_vars

\* Entries fire every day ("the schedule loops every 24 hours"): while ticks
\* keep up, the minute of an entry makes it fire, whatever firedAt records.
FiresEveryDay ==
    [][punctual /\ Decides =>
          \A e \in tick.entries :
              e.at = tick.now.minute => job' # None /\ job'.entry.at = e.at]_vars

\* Editing the schedule clears the retry: what is being retried is an entry
\* of the schedule in force.
RetryIsCurrent == retry # None => retry.entry \in entries

\* A retry ends, by success, refusal, supersession, an edit or its deadline,
\* as long as the ticks keep up.  No deadline is before RetryDeadline, and one
\* after MaxMono is not reached.
RetryEnds ==
    \A d \in RetryDeadline .. MaxMono :
        (punctual /\ retry # None /\ retry.deadline = d)
            ~> (retry = None \/ retry.deadline # d)
=============================================================================
