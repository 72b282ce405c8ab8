----------------------------- MODULE Operations -----------------------------
(***************************************************************************)
(* The operations of pkg/breezy/ops.go: the packet that each writes for    *)
(* its arguments, or that it refuses them; and what the command line, the  *)
(* /v1 and the /ui handlers do with a request before and around them.      *)
(*                                                                         *)
(* A request is a record [op, ...] with the fields its caller supplied: a  *)
(* field that JSON left out is missing.  Its word is as the caller spelt   *)
(* it, and its raw value (hex) is the sequence of its bytes taken as one   *)
(* value: <<>> when there are none.  A packet is a function from           *)
(* parameters to values, and an operation returns the set of the packet    *)
(* it writes: {} is ErrInvalidArg.                                         *)
(***************************************************************************)
EXTENDS Integers, Sequences

CONSTANTS ReadOnlyParams,  \* registered parameters without CapWrite
          Lower(_)         \* strings.ToLower

ASSUME LowerAssumption == Lower("") = ""

If(valid, packet) == IF valid THEN {packet} ELSE {}

Bit(on) == IF on THEN 1 ELSE 0

-----------------------------------------------------------------------------
(* pkg/breezy/ops.go.                                                      *)

\* Turning off also stops the timer.
Power(on) == {IF on THEN [power |-> 1] ELSE [power |-> 0, timer |-> 0]}

SetSpeedPreset(n) == If(n \in 1 .. 3, [preset |-> n, timer |-> 0])

\* Defect: the percentage is set and not selected.
SpeedManualUnflagged(pct) == If(pct \in 10 .. 100, [manual |-> pct, timer |-> 0])

\* 0x0002 = 0xFF selects the percentage of 0x0044.
SetSpeedManual(pct) ==
    If(pct \in 10 .. 100, [manual |-> pct, preset |-> 255, timer |-> 0])

Supply == <<"supply1", "supply2", "supply3">>
Extract == <<"extract1", "extract2", "extract3">>

SetPresetSpeed(n, supply, extract) ==
    IF n \in 1 .. 3 /\ supply \in 10 .. 100 /\ extract \in 10 .. 100
    THEN {[p \in {Supply[n], Extract[n]} |->
              IF p = Supply[n] THEN supply ELSE extract]}
    ELSE {}

Modes == [ventilation |-> 0, regeneration |-> 1, supply |-> 2, extract |-> 3]
Timers == [off |-> 0, night |-> 1, turbo |-> 2]
Durations == [night |-> "nightfor", turbo |-> "turbofor"]

SetMode(word) ==
    IF Lower(word) \in DOMAIN Modes THEN {[mode |-> Modes[Lower(word)]]} ELSE {}

SetHeater(on) == {[heater |-> Bit(on)]}

SetTimer(word) ==
    IF Lower(word) \in DOMAIN Timers THEN {[timer |-> Timers[Lower(word)]]} ELSE {}

\* A duration is kept in minutes; the packet has a byte each for both units.
SetTimerDuration(word, hours, minutes) ==
    IF /\ Lower(word) \in DOMAIN Durations
       /\ hours \in 0 .. 23 /\ minutes \in 0 .. 59
       /\ hours + minutes > 0
    THEN {[p \in {Durations[Lower(word)]} |-> 60 * hours + minutes]}
    ELSE {}

\* The setpoint and the flag of each sensor, and the setpoints it may have.
Sensors ==
    [humidity |-> [flag |-> "humidityon", limit |-> "humiditylimit",
                   range |-> 40 .. 80],
     co2 |-> [flag |-> "co2on", limit |-> "co2limit",
              range |-> {v \in 400 .. 2000 : v % 10 = 0}],
     voc |-> [flag |-> "vocon", limit |-> "voclimit", range |-> 50 .. 250]]

SensorPacket(s, fields) ==
    LET names == [value |-> s.limit, enabled |-> s.flag]
    IN  [p \in {names[f] : f \in DOMAIN fields} |->
            IF p = s.limit THEN fields.value ELSE Bit(fields.enabled)]

\* Defect: the setpoint is not checked.
ThresholdUnchecked(kind, fields) ==
    IF Lower(kind) \in DOMAIN Sensors /\ DOMAIN fields # {}
    THEN {SensorPacket(Sensors[Lower(kind)], fields)}
    ELSE {}

\* fields has the setpoint and the flag that are not nil, at least one of
\* them; both go in one packet.
SetThresholdConfig(kind, fields) ==
    IF /\ Lower(kind) \in DOMAIN Sensors
       /\ DOMAIN fields # {}
       /\ "value" \in DOMAIN fields => fields.value \in Sensors[Lower(kind)].range
    THEN {SensorPacket(Sensors[Lower(kind)], fields)}
    ELSE {}

ResetFilter == {[filterreset |-> 1]}

ResetFaults == {[faultreset |-> 1]}

\* The time and the date go in one packet; the year is that of the date.
SetRTC(year) == If(year \in 2000 .. 2255, [rtctime |-> year, rtcdate |-> year])

\* pkg/breezy/client.go: a registered parameter without CapWrite is refused
\* before anything is sent.  A parameter that is not registered is passed on.
ReadOnly(packet) == DOMAIN packet \cap ReadOnlyParams # {}

-----------------------------------------------------------------------------
(* The front ends.                                                         *)

Has(r, f) == f \in DOMAIN r

\* A field of a Go struct that is not a pointer, with its zero value.
Field(r, f, zero) == IF Has(r, f) THEN r[f] ELSE zero

\* The word of a request, as it was spelt.
Said(r) == Field(r, "word", "")

Only(r, fs) == [f \in fs \cap DOMAIN r |-> r[f]]

ExactlyOne(r) == Has(r, "preset") # Has(r, "manual")

Verbs == {"power", "speed", "mode", "heater", "timer", "threshold",
          "resetfilter", "resetfaults"}

\* What each front end has a command or a route for.  The command line sets
\* the setpoint (threshold) and the flag (auto-fan) of a sensor apart.
Offers(front, r) ==
    CASE front \in {"cli", "direct"} ->
            /\ r.op \in Verbs \cup {"rtc", "param", "get"}
            /\ ~(Has(r, "value") /\ Has(r, "enabled"))
      [] front = "v1" ->
            r.op \in Verbs \cup {"presetspeed", "rtc", "param", "get"}
      [] front = "ui" -> r.op \in Verbs \cup {"presetspeed", "duration"}

\* cmd/breezy/commands.go: what the command line checks itself, sent to the
\* daemon or to the device.
CliSpeed(r, percents) ==
    /\ ExactlyOne(r)
    /\ Has(r, "manual") => r.manual \in percents
    /\ Has(r, "preset") => r.preset \in 1 .. 3

CliSensor(r) == /\ Lower(Said(r)) \in DOMAIN Sensors
                /\ Has(r, "value") \/ Has(r, "enabled")

\* A raw value may have no bytes.
CliParam(r) == Has(r, "hex") /\ r.id \notin ReadOnlyParams

CliChecks(r, percents) ==
    /\ r.op \in {"power", "heater"} => Has(r, "on")
    /\ r.op = "speed" => CliSpeed(r, percents)
    /\ r.op = "mode" => Lower(Said(r)) \in DOMAIN Modes
    /\ r.op = "timer" => Lower(Said(r)) \in DOMAIN Timers
    /\ r.op = "threshold" => CliSensor(r)
    /\ r.op = "rtc" => Has(r, "year")
    /\ r.op = "param" => CliParam(r)

\* Defect: the floor of 10 per cent is refused too.
CliAcceptsAboveFloor(r) == CliChecks(r, 11 .. 100)

CliAccepts(r) == CliChecks(r, 10 .. 100)

\* cmd/breezyd/handlers_device.go: the shape of the body of a /v1 request.
V1Accepts(r) ==
    /\ r.op \in {"power", "heater"} => Has(r, "on")
    /\ r.op = "speed" => ExactlyOne(r)
    /\ r.op = "presetspeed" => {"preset", "supply", "extract"} \subseteq DOMAIN r
    /\ r.op = "timer" => Has(r, "word")
    /\ r.op = "threshold" => Has(r, "word") /\ (Has(r, "value") \/ Has(r, "enabled"))
    /\ r.op = "rtc" => Has(r, "year")
    /\ r.op = "param" => Has(r, "hex") /\ r.hex # <<>>

\* cmd/breezyd/handlers_ui_write.go: the same for /ui.
UIDuration(r) ==
    /\ Lower(Said(r)) \in DOMAIN Durations
    /\ Field(r, "hours", 0) \in 0 .. 23
    /\ Field(r, "minutes", 0) \in 0 .. 59
    /\ Field(r, "hours", 0) + Field(r, "minutes", 0) > 0

\* The name of the sensor is compared as it is spelt.
UIThreshold(r) == /\ Said(r) \in DOMAIN Sensors
                  /\ Has(r, "value") \/ Has(r, "enabled")

UIAccepts(r) ==
    /\ r.op \in {"power", "heater"} => Has(r, "on")
    /\ r.op = "speed" => ExactlyOne(r)
    /\ r.op = "duration" => UIDuration(r)
    /\ r.op = "threshold" => UIThreshold(r)

\* BuildWriteDataBlock leaves out a parameter without bytes.
RawPacket(r) == [p \in (IF r.hex = <<>> THEN {} ELSE {r.id}) |-> Head(r.hex)]

\* The operation of a request; a read sends a packet that writes nothing.
Operation(r) ==
    CASE r.op = "power" -> Power(r.on)
      [] r.op = "speed" -> IF Has(r, "preset") THEN SetSpeedPreset(r.preset)
                           ELSE SetSpeedManual(r.manual)
      [] r.op = "presetspeed" ->
            SetPresetSpeed(Field(r, "preset", 0), Field(r, "supply", 0),
                           Field(r, "extract", 0))
      [] r.op = "mode" -> SetMode(Said(r))
      [] r.op = "heater" -> SetHeater(r.on)
      [] r.op = "timer" -> SetTimer(Said(r))
      [] r.op = "duration" ->
            SetTimerDuration(Said(r), Field(r, "hours", 0), Field(r, "minutes", 0))
      [] r.op = "threshold" ->
            SetThresholdConfig(Said(r), Only(r, {"value", "enabled"}))
      [] r.op = "resetfilter" -> ResetFilter
      [] r.op = "resetfaults" -> ResetFaults
      [] r.op = "rtc" -> SetRTC(r.year)
      [] r.op = "param" -> {RawPacket(r)}
      [] r.op = "get" -> {<<>>}

\* Defect: the flag and the setpoint of a sensor go one after the other.
PlanSplit(front, r) ==
    IF r.op = "threshold" /\ Has(r, "value") /\ Has(r, "enabled")
    THEN <<SetThresholdConfig(Said(r), Only(r, {"enabled"})),
           SetThresholdConfig(Said(r), Only(r, {"value"}))>>
    ELSE <<Operation(r)>>

\* The operations of a request in their order.  A timer of the dashboard
\* turns the unit on before it is started.
Plan(front, r) ==
    IF front = "ui" /\ r.op = "timer" /\ Lower(Said(r)) # "off"
    THEN <<Power(TRUE), Operation(r)>>
    ELSE <<Operation(r)>>

Reads(r) == r.op = "get"
=============================================================================
