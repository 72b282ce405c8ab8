------------------------------ MODULE Silence ------------------------------
(***************************************************************************)
(* When an entry of the schedule stays silent.  The scheduler, watched     *)
(* with two more history variables: the code keeps only the day of a       *)
(* success (firedAt), and neither for which occurrence it was nor that     *)
(* the wall clock was set back.                                            *)
(***************************************************************************)
EXTENDS Scheduler

VARIABLES late,     \* history: <<at, day>> of the successes that came before
                    \* the entry's minute of that day, for the day before
          setBack   \* history: the days on which the wall clock was set back

silenceVars == <<vars, late, setBack>>

SilenceInit == Init /\ late = {} /\ setBack = {}

\* A success of the fire that a retry, or a window over midnight, started.
Succeeds ==
    /\ FireSucceeds
    /\ late' = IF job.now.minute < job.entry.at
               THEN late \cup {<<job.entry.at, job.now.day>>} ELSE late
    /\ UNCHANGED setBack

Shifts ==
    /\ ClockShift
    /\ setBack' = IF clock'.minute < clock.minute
                  THEN setBack \cup {clock.day} ELSE setBack
    /\ UNCHANGED late

Unwatched ==
    /\ \/ TickBegin \/ TickIdle \/ TickRetry \/ TickWindow
       \/ FireRefused \/ FireFails \/ Handlers \/ Minute \/ Restart
    /\ UNCHANGED <<late, setBack>>

SilenceNext == Succeeds \/ Shifts \/ Unwatched

SilenceSpec == SilenceInit /\ [][SilenceNext]_silenceVars

\* With the fairness of FairSpec.
FairSilenceSpec ==
    SilenceSpec /\ WF_vars(Goroutine) /\ SF_vars(Minute)

-----------------------------------------------------------------------------
\* A tick in an entry's minute fires it (DueFires), unless it fired already
\* that day; and then that success was late, for the day before, or the clock
\* was set back that day.  Whatever ticks are missed, windows are wide, saves
\* fail and restarts come, no success for an occurrence silences the next one
\* unless it reached into its day (scheduler.go:395-450, 498).
SilentForAReason ==
    [][Decides =>
          \A e \in tick.entries :
              e.at = tick.now.minute =>
                  \/ job' # None /\ job'.entry.at = e.at
                  \/ /\ tick.firedAt[e.at] = tick.now.day
                     /\ \/ <<e.at, tick.now.day>> \in late
                        \/ tick.now.day \in setBack]_silenceVars

\* "fall-back fires an entry in the repeated hour twice"
\* (SPECIFICATION-daemon.md:534-535): on a day the wall clock was set back, a
\* tick in an entry's minute fires it whether it has fired that day or not.
RepeatedHourTwice ==
    [][Decides =>
          \A e \in tick.entries :
              /\ e.at = tick.now.minute
              /\ tick.now.day \in setBack
              /\ <<e.at, tick.now.day>> \notin late
              => job' # None /\ job'.entry.at = e.at]_silenceVars
=============================================================================
