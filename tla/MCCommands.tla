----------------------------- MODULE MCCommands -----------------------------
EXTENDS Commands, TLC

\* Callers differ in nothing.
MCSymmetry == Permutations(Callers)

MCReadOnlyParams == {"fanrpm"}

MCDevice0 ==
    [p \in {"supply1", "extract1", "supply3", "extract3"} |-> 50] @@
    [p \in {"power", "timer", "heater", "mode", "humidityon", "fanrpm",
            "filterdays", "filterreset", "faultreset"} |-> 0] @@
    [p \in {"co2limit", "rtctime", "rtcdate"} |-> 2000] @@
    "preset" :> 1 @@ "manual" :> 30 @@ "humiditylimit" :> 60 @@ "nightfor" :> 480

\* The spellings that occur.
MCLower(word) == CASE word = "Extract" -> "extract"
                   [] word = "OFF" -> "off"
                   [] word = "Turbo" -> "turbo"
                   [] word = "Night" -> "night"
                   [] word = "Humidity" -> "humidity"
                   [] OTHER -> word

Op(op) == [op |-> op]
Word(op, word) == [op |-> op, word |-> word]

\* For each operation a request it takes, and others just beyond its bounds.
MCRequests ==
    {[op |-> "power", on |-> on] : on \in BOOLEAN} \cup
    {[op |-> "speed", preset |-> n] : n \in {3, 4}} \cup
    {[op |-> "speed", manual |-> n] : n \in {9, 10, 101}} \cup
    {[op |-> "speed", preset |-> 2, manual |-> 50]} \cup
    {[op |-> "presetspeed", preset |-> n, supply |-> 10, extract |-> 100] :
        n \in {0, 3}} \cup
    {[op |-> "presetspeed", preset |-> 1, supply |-> 20]} \cup
    {Word("mode", w) : w \in {"Extract", "other"}} \cup
    {Word("timer", w) : w \in {"OFF", "Turbo", "other"}} \cup
    {[op |-> "duration", word |-> "Night", hours |-> h, minutes |-> m] :
        h \in {0, 23}, m \in {0, 59}} \cup
    {[op |-> "threshold", word |-> "humidity", value |-> v, enabled |-> TRUE] :
        v \in {80, 81}} \cup
    {[op |-> "threshold", word |-> "Humidity", value |-> 40]} \cup
    {[op |-> "threshold", word |-> "co2", value |-> v] : v \in {400, 405}} \cup
    {Word("threshold", "humidity")} \cup
    {[op |-> "rtc", year |-> y] : y \in {2255, 2256}} \cup
    {[op |-> "param", id |-> p, hex |-> <<7>>] : p \in {"filterdays", "fanrpm", "unknown"}} \cup
    {[op |-> "param", id |-> "filterdays", hex |-> <<>>]} \cup
    {[op |-> "get", id |-> p] : p \in {"timer", "unknown"}} \cup
    {Op(op) : op \in {"power", "timer", "heater", "resetfilter", "resetfaults"}}
=============================================================================
