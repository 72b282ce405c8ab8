----------------------------- MODULE MCHomekit -----------------------------
(***************************************************************************)
(* Two controllers with a write each, which may meet, and the polls.        *)
(***************************************************************************)
EXTENDS Homekit

MCPresetPct == [i \in 1 .. 3 |-> 30 * i]

Unit == [power |-> TRUE, airflow |-> "regeneration", preset |-> 2,
         pct |-> 50, timer |-> "off", heater |-> FALSE, soiled |-> TRUE]
Quiet == [Unit EXCEPT !.timer = "night", !.airflow = "supply"]
Boost == [Unit EXCEPT !.timer = "turbo"]

Write(c, v) == [to |-> c, v |-> v]

MCDevices == {Quiet}
MCChanges == {Boost}
MCWrites == {Write("active", 0), Write("active", 1),
             Write("auto", 0), Write("auto", 1), Write("speed", 5),
             Write("heater", 1), Write("reset", 1)}
               \cup {Write(c, v) : c \in {"supply", "extract", "night", "turbo"},
                                   v \in 0 .. 1}

\* For one controller.
MCBoosts == {Boost}
MCTimerWrites == {Write("night", 1)}
=============================================================================
