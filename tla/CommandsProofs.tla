--------------------------- MODULE CommandsProofs ---------------------------
(***************************************************************************)
(* Proofs about Commands and Operations.                                   *)
(***************************************************************************)
EXTENDS Commands, TLAPS

-----------------------------------------------------------------------------
(* The tables.                                                             *)

\* The range of each parameter that has one.
LEMMA RangeTable ==
    /\ DOMAIN Ranges = Written \ {"filterreset", "faultreset"}
    /\ \A p \in {"supply1", "supply2", "supply3", "extract1", "extract2",
                 "extract3", "manual"} : Ranges[p] = 10 .. 100
    /\ \A p \in {"power", "heater", "humidityon", "co2on", "vocon"} :
           Ranges[p] = 0 .. 1
    /\ Ranges["preset"] = {1, 2, 3, 255}
    /\ Ranges["timer"] = 0 .. 2
    /\ Ranges["mode"] = 0 .. 3
    /\ \A p \in {"nightfor", "turbofor"} : Ranges[p] = 1 .. 1439
    /\ Ranges["humiditylimit"] = 40 .. 80
    /\ Ranges["co2limit"] = 400 .. 2000
    /\ Ranges["voclimit"] = 50 .. 250
    /\ \A p \in {"rtctime", "rtcdate"} : Ranges[p] = 2000 .. 2255
  BY DEF Ranges, Written

\* The operation of a request, by its name.
LEMMA OperationTable ==
    ASSUME NEW r
    PROVE  /\ r.op = "power" => Operation(r) = Power(r.on)
           /\ r.op = "speed" /\ Has(r, "preset") =>
                  Operation(r) = SetSpeedPreset(r.preset)
           /\ r.op = "speed" /\ ~Has(r, "preset") =>
                  Operation(r) = SetSpeedManual(r.manual)
           /\ r.op = "presetspeed" =>
                  Operation(r) = SetPresetSpeed(Field(r, "preset", 0),
                                     Field(r, "supply", 0), Field(r, "extract", 0))
           /\ r.op = "mode" => Operation(r) = SetMode(Said(r))
           /\ r.op = "heater" => Operation(r) = SetHeater(r.on)
           /\ r.op = "timer" => Operation(r) = SetTimer(Said(r))
           /\ r.op = "duration" =>
                  Operation(r) = SetTimerDuration(Said(r),
                                     Field(r, "hours", 0), Field(r, "minutes", 0))
           /\ r.op = "threshold" =>
                  Operation(r) = SetThresholdConfig(Said(r),
                                     Only(r, {"value", "enabled"}))
           /\ r.op = "resetfilter" => Operation(r) = ResetFilter
           /\ r.op = "resetfaults" => Operation(r) = ResetFaults
           /\ r.op = "rtc" => Operation(r) = SetRTC(r.year)
           /\ r.op = "param" => Operation(r) = {RawPacket(r)}
           /\ r.op = "get" => Operation(r) = {<<>>}
  BY DEF Operation

\* What a request means, by its name.
Meaning(f, r) ==
    /\ r.op = "power" /\ r.on => Meant(f, r) = [power |-> 1]
    /\ r.op = "power" /\ ~r.on => Meant(f, r) = [power |-> 0, timer |-> 0]
    /\ r.op = "speed" /\ Has(r, "preset") =>
           Meant(f, r) = [preset |-> r.preset, timer |-> 0]
    /\ r.op = "speed" /\ ~Has(r, "preset") =>
           Meant(f, r) = [preset |-> 255, manual |-> r.manual, timer |-> 0]
    /\ r.op = "presetspeed" =>
           Meant(f, r) = [p \in {Supply[r.preset], Extract[r.preset]} |->
               IF p = Supply[r.preset] THEN r.supply ELSE r.extract]
    /\ r.op = "mode" => Meant(f, r) = [mode |-> Modes[Lower(r.word)]]
    /\ r.op = "heater" => Meant(f, r) = [heater |-> Bit(r.on)]
    /\ r.op = "timer" /\ (f # "ui" \/ Lower(r.word) = "off") =>
           Meant(f, r) = [timer |-> Timers[Lower(r.word)]]
    /\ r.op = "timer" /\ f = "ui" /\ Lower(r.word) # "off" =>
           Meant(f, r) = [timer |-> Timers[Lower(r.word)], power |-> 1]
    /\ r.op = "duration" =>
           Meant(f, r) = [p \in {Durations[Lower(r.word)]} |->
               60 * Field(r, "hours", 0) + Field(r, "minutes", 0)]
    /\ r.op = "threshold" =>
           Meant(f, r) =
               [p \in (IF Has(r, "value") THEN {Limit[Lower(r.word)]} ELSE {}) \cup
                      (IF Has(r, "enabled") THEN {AutoFan[Lower(r.word)]} ELSE {}) |->
                   IF p = Limit[Lower(r.word)] THEN r.value ELSE Bit(r.enabled)]
    /\ r.op = "resetfilter" => Meant(f, r) = [filterreset |-> 1]
    /\ r.op = "resetfaults" => Meant(f, r) = [faultreset |-> 1]
    /\ r.op = "rtc" => Meant(f, r) = [rtctime |-> r.year, rtcdate |-> r.year]
    /\ r.op = "param" /\ r.hex # <<>> => Meant(f, r) = [p \in {r.id} |-> Head(r.hex)]
    /\ r.op = "param" /\ r.hex = <<>> => Meant(f, r) = <<>>
    /\ r.op = "get" => Meant(f, r) = <<>>

LEMMA MeantTable ==
    ASSUME NEW r, NEW f
    PROVE  Meaning(f, r)
  BY DEF Meant, Meaning

-----------------------------------------------------------------------------
(* What an operation writes.                                               *)

Known == Verbs \cup {"presetspeed", "duration", "rtc", "param", "get"}

\* The packet of a request, by the name of its operation.
PacketOf(r, packet) ==
    /\ Operation(r) = {packet}
    /\ r.op = "power" => packet = IF r.on THEN [power |-> 1]
                                  ELSE [power |-> 0, timer |-> 0]
    /\ r.op = "speed" /\ Has(r, "preset") =>
           /\ packet = [preset |-> r.preset, timer |-> 0]
           /\ r.preset \in 1 .. 3
    /\ r.op = "speed" /\ ~Has(r, "preset") =>
           /\ packet = [manual |-> r.manual, preset |-> 255, timer |-> 0]
           /\ r.manual \in 10 .. 100
    /\ r.op = "presetspeed" =>
           /\ Has(r, "preset") /\ Has(r, "supply") /\ Has(r, "extract")
           /\ packet = [p \in {Supply[r.preset], Extract[r.preset]} |->
                           IF p = Supply[r.preset] THEN r.supply ELSE r.extract]
           /\ r.preset \in 1 .. 3
           /\ r.supply \in 10 .. 100 /\ r.extract \in 10 .. 100
    /\ r.op = "mode" => /\ Has(r, "word") /\ Lower(r.word) \in DOMAIN Modes
                        /\ packet = [mode |-> Modes[Lower(r.word)]]
    /\ r.op = "heater" => packet = [heater |-> Bit(r.on)]
    /\ r.op = "timer" => /\ Has(r, "word") /\ Lower(r.word) \in DOMAIN Timers
                         /\ packet = [timer |-> Timers[Lower(r.word)]]
    /\ r.op = "duration" =>
           /\ Has(r, "word") /\ Lower(r.word) \in DOMAIN Durations
           /\ UIDuration(r)
           /\ packet = [p \in {Durations[Lower(r.word)]} |->
                           60 * Field(r, "hours", 0) + Field(r, "minutes", 0)]
    /\ r.op = "threshold" =>
           /\ Has(r, "word") /\ Lower(r.word) \in DOMAIN Sensors
           /\ Has(r, "value") \/ Has(r, "enabled")
           /\ Has(r, "value") => r.value \in Sensors[Lower(r.word)].range
           /\ packet = SensorPacket(Sensors[Lower(r.word)], Only(r, {"value", "enabled"}))
    /\ r.op = "resetfilter" => packet = [filterreset |-> 1]
    /\ r.op = "resetfaults" => packet = [faultreset |-> 1]
    /\ r.op = "rtc" => /\ packet = [rtctime |-> r.year, rtcdate |-> r.year]
                       /\ r.year \in 2000 .. 2255
    /\ r.op = "param" => packet = RawPacket(r)
    /\ r.op = "get" => DOMAIN packet = {}

\* The word of a request in lower case.
LEMMA Spelling ==
    ASSUME NEW r
    PROVE  /\ Has(r, "word") => Said(r) = r.word
           /\ ~Has(r, "word") => Lower(Said(r)) = ""
  BY LowerAssumption DEF Said, Field

\* The names in the tables are no empty words.
LEMMA NoEmptyName == "" \notin DOMAIN Modes \cup DOMAIN Timers \cup
                               DOMAIN Durations \cup DOMAIN Sensors
  BY DEF Modes, Timers, Durations, Sensors

LEMMA PacketTable ==
    ASSUME NEW r, r.op \in Known, NEW packet \in Operation(r)
    PROVE  PacketOf(r, packet)
<1> USE DEF PacketOf
<1>1. CASE r.op = "power"
  <2>1. Operation(r) = Power(r.on)
    BY <1>1, OperationTable
  <2> QED  BY <1>1, <2>1 DEF Power
<1>2. CASE r.op = "speed" /\ Has(r, "preset")
  <2>1. Operation(r) = SetSpeedPreset(r.preset)
    BY <1>2, OperationTable
  <2> QED  BY <1>2, <2>1 DEF SetSpeedPreset, If
<1>3. CASE r.op = "speed" /\ ~Has(r, "preset")
  <2>1. Operation(r) = SetSpeedManual(r.manual)
    BY <1>3, OperationTable
  <2> QED  BY <1>3, <2>1 DEF SetSpeedManual, If
<1>4. CASE r.op = "presetspeed"
  <2> DEFINE n == Field(r, "preset", 0)
             supply == Field(r, "supply", 0)
             extract == Field(r, "extract", 0)
  <2>1. Operation(r) = SetPresetSpeed(n, supply, extract)
    BY <1>4, OperationTable
  <2>2. /\ ~Has(r, "preset") => n = 0
        /\ Has(r, "preset") => n = r.preset
        /\ ~Has(r, "supply") => supply = 0
        /\ Has(r, "supply") => supply = r.supply
        /\ ~Has(r, "extract") => extract = 0
        /\ Has(r, "extract") => extract = r.extract
    BY DEF Field
  <2> HIDE DEF n, supply, extract
  <2>3. /\ packet = [p \in {Supply[n], Extract[n]} |->
                         IF p = Supply[n] THEN supply ELSE extract]
        /\ Operation(r) = {packet}
        /\ n \in 1 .. 3 /\ supply \in 10 .. 100 /\ extract \in 10 .. 100
    BY <2>1 DEF SetPresetSpeed
  <2>4. /\ Has(r, "preset") /\ n = r.preset
        /\ Has(r, "supply") /\ supply = r.supply
        /\ Has(r, "extract") /\ extract = r.extract
    BY <2>2, <2>3
  <2> QED  BY <1>4, <2>3, <2>4
<1>5. CASE r.op = "mode"
  <2>1. Operation(r) = SetMode(Said(r))
    BY <1>5, OperationTable
  <2>2. Lower(Said(r)) \in DOMAIN Modes /\ Operation(r) = {packet}
        /\ packet = [mode |-> Modes[Lower(Said(r))]]
    BY <2>1 DEF SetMode
  <2> QED  BY <1>5, <2>2, Spelling, NoEmptyName
<1>6. CASE r.op = "heater"
  <2>1. Operation(r) = SetHeater(r.on)
    BY <1>6, OperationTable
  <2> QED  BY <1>6, <2>1 DEF SetHeater
<1>7. CASE r.op = "timer"
  <2>1. Operation(r) = SetTimer(Said(r))
    BY <1>7, OperationTable
  <2>2. Lower(Said(r)) \in DOMAIN Timers /\ Operation(r) = {packet}
        /\ packet = [timer |-> Timers[Lower(Said(r))]]
    BY <2>1 DEF SetTimer
  <2> QED  BY <1>7, <2>2, Spelling, NoEmptyName
<1>8. CASE r.op = "duration"
  <2> DEFINE word == Said(r)
             hours == Field(r, "hours", 0)
             minutes == Field(r, "minutes", 0)
  <2>1. Operation(r) = SetTimerDuration(word, hours, minutes)
    BY <1>8, OperationTable
  <2>2. UIDuration(r) <=> /\ Lower(word) \in DOMAIN Durations
                          /\ hours \in 0 .. 23 /\ minutes \in 0 .. 59
                          /\ hours + minutes > 0
    BY DEF UIDuration
  <2>3. Lower(word) \in DOMAIN Durations => Has(r, "word") /\ word = r.word
    BY Spelling, NoEmptyName
  <2> HIDE DEF word, hours, minutes
  <2>4. /\ packet = [p \in {Durations[Lower(word)]} |-> 60 * hours + minutes]
        /\ Operation(r) = {packet}
        /\ Lower(word) \in DOMAIN Durations
        /\ UIDuration(r)
    BY <2>1, <2>2 DEF SetTimerDuration
  <2> QED  BY <1>8, <2>3, <2>4 DEF hours, minutes
<1>9. CASE r.op = "threshold"
  <2> DEFINE kind == Said(r)
             fields == Only(r, {"value", "enabled"})
  <2>1. Operation(r) = SetThresholdConfig(kind, fields)
    BY <1>9, OperationTable
  <2>2. Lower(kind) \in DOMAIN Sensors => Has(r, "word") /\ kind = r.word
    BY Spelling, NoEmptyName
  <2>3. /\ DOMAIN fields # {} <=> Has(r, "value") \/ Has(r, "enabled")
        /\ "value" \in DOMAIN fields <=> Has(r, "value")
        /\ Has(r, "value") => fields.value = r.value
    BY DEF Only, Has
  <2> HIDE DEF kind, fields
  <2>4. /\ Lower(kind) \in DOMAIN Sensors
        /\ packet = SensorPacket(Sensors[Lower(kind)], fields)
        /\ Operation(r) = {packet}
        /\ DOMAIN fields # {}
        /\ "value" \in DOMAIN fields => fields.value \in Sensors[Lower(kind)].range
    BY <2>1 DEF SetThresholdConfig
  <2> QED  BY <1>9, <2>2, <2>3, <2>4 DEF fields
<1>10. CASE r.op = "resetfilter"
  <2>1. Operation(r) = ResetFilter
    BY <1>10, OperationTable
  <2> QED  BY <1>10, <2>1 DEF ResetFilter
<1>11. CASE r.op = "resetfaults"
  <2>1. Operation(r) = ResetFaults
    BY <1>11, OperationTable
  <2> QED  BY <1>11, <2>1 DEF ResetFaults
<1>12. CASE r.op = "rtc"
  <2>1. Operation(r) = SetRTC(r.year)
    BY <1>12, OperationTable
  <2> QED  BY <1>12, <2>1 DEF SetRTC, If
<1>13. CASE r.op = "param"
  <2>1. Operation(r) = {RawPacket(r)}
    BY <1>13, OperationTable
  <2> QED  BY <1>13, <2>1
<1>14. CASE r.op = "get"
  <2>1. Operation(r) = {<<>>}
    BY <1>14, OperationTable
  <2>2. packet = <<>> /\ Operation(r) = {packet}
    BY <2>1
  <2>3. DOMAIN packet = {}
    BY <2>2
  <2>4. Operation(r) = {packet}
    BY <2>2
  <2> QED  BY <1>14, <2>3, <2>4
<1> HIDE DEF PacketOf
<1> QED  BY <1>1, <1>2, <1>3, <1>4, <1>5, <1>6, <1>7, <1>8, <1>9, <1>10, <1>11,
            <1>12, <1>13, <1>14 DEF Known, Verbs

\* The packet of a setpoint and a flag, as a function of the request.
LEMMA SensorTable ==
    ASSUME NEW r, Has(r, "word"), Lower(r.word) \in DOMAIN Sensors,
           NEW packet, packet = SensorPacket(Sensors[Lower(r.word)], Only(r, {"value", "enabled"}))
    PROVE  /\ Limit[Lower(r.word)] \in Written /\ AutoFan[Lower(r.word)] \in Written
           /\ Limit[Lower(r.word)] # AutoFan[Lower(r.word)]
           /\ Sensors[Lower(r.word)].range \subseteq Ranges[Limit[Lower(r.word)]]
           /\ Ranges[AutoFan[Lower(r.word)]] = 0 .. 1
           /\ DOMAIN packet = (IF Has(r, "value") THEN {Limit[Lower(r.word)]} ELSE {}) \cup
                              (IF Has(r, "enabled") THEN {AutoFan[Lower(r.word)]} ELSE {})
           /\ Has(r, "value") => packet[Limit[Lower(r.word)]] = r.value
           /\ Has(r, "enabled") => packet[AutoFan[Lower(r.word)]] = Bit(r.enabled)
<1> DEFINE limit == Limit[Lower(r.word)]
           flag == AutoFan[Lower(r.word)]
           fields == Only(r, {"value", "enabled"})
<1>1. /\ limit = Sensors[Lower(r.word)].limit
      /\ flag = Sensors[Lower(r.word)].flag
  BY DEF Sensors, Limit, AutoFan
<1>2. /\ limit \in Written /\ flag \in Written /\ limit # flag
      /\ Ranges[flag] = 0 .. 1
      /\ Sensors[Lower(r.word)].range \subseteq Ranges[limit]
  <2>1. CASE Lower(r.word) = "humidity"
    BY <2>1, RangeTable DEF Sensors, Written, Limit, AutoFan
  <2>2. CASE Lower(r.word) = "co2"
    <3>1. /\ limit = "co2limit" /\ flag = "co2on"
          /\ Sensors[Lower(r.word)].range = {v \in 400 .. 2000 : v % 10 = 0}
      BY <2>2 DEF Sensors, Limit, AutoFan
    <3> QED  BY <3>1, RangeTable DEF Written
  <2>3. CASE Lower(r.word) = "voc"
    BY <2>3, RangeTable DEF Sensors, Written, Limit, AutoFan
  <2>4. Lower(r.word) \in {"humidity", "co2", "voc"}
    BY DEF Sensors
  <2> QED  BY <2>1, <2>2, <2>3, <2>4
<1>3. /\ DOMAIN fields = {"value", "enabled"} \cap DOMAIN r
      /\ Has(r, "value") => fields.value = r.value
      /\ Has(r, "enabled") => fields.enabled = r.enabled
  BY DEF Only, Has
<1>4. packet = [p \in {[value |-> limit, enabled |-> flag][f] : f \in DOMAIN fields} |->
                  IF p = limit THEN fields.value ELSE Bit(fields.enabled)]
  BY <1>1 DEF SensorPacket
<1> HIDE DEF limit, flag, fields
<1>5. {[value |-> limit, enabled |-> flag][f] : f \in DOMAIN fields} =
          (IF Has(r, "value") THEN {limit} ELSE {}) \cup
          (IF Has(r, "enabled") THEN {flag} ELSE {})
  BY <1>3 DEF Has
<1>6. /\ DOMAIN packet = (IF Has(r, "value") THEN {limit} ELSE {}) \cup
                         (IF Has(r, "enabled") THEN {flag} ELSE {})
      /\ Has(r, "value") => packet[limit] = r.value
      /\ Has(r, "enabled") => packet[flag] = Bit(r.enabled)
  BY <1>2, <1>3, <1>4, <1>5
<1> QED  BY <1>2, <1>6 DEF limit, flag

-----------------------------------------------------------------------------
(* What an operation writes.                                               *)

\* The packet of r is of the parameters that r writes, in their ranges.
Fits(r, packet) ==
    /\ r.op # "param" => DOMAIN packet \subseteq Written
    /\ \A p \in DOMAIN packet \cap DOMAIN Ranges :
           packet[p] \in Ranges[p] \/ (r.op = "param" /\ r.id = p)

\* What the dashboard starts with its button: a timer, on a unit turned on.
DashboardTimer(f, r) ==
    f = "ui" /\ r.op = "timer" /\ Lower(Said(r)) # "off"

Sure(f, r) == IF DashboardTimer(f, r) THEN {"power"} ELSE {}

\* The packet of r is what r means, without the turning on of a timer's unit.
Does(f, r, packet) ==
    /\ DOMAIN Meant(f, r) = DOMAIN packet \cup Sure(f, r)
    /\ \A p \in DOMAIN packet : Meant(f, r)[p] = packet[p]
    /\ DashboardTimer(f, r) => /\ DOMAIN packet = {"timer"}
                               /\ Meant(f, r)["power"] = 1

LEMMA PacketFits ==
    ASSUME NEW r, r.op \in Known, NEW packet \in Operation(r)
    PROVE  Fits(r, packet)
<1>0. PacketOf(r, packet)
  BY PacketTable
<1>1. CASE r.op = "power"
  <2>1. packet = [power |-> 1] \/ packet = [power |-> 0, timer |-> 0]
    BY <1>1, <1>0 DEF PacketOf
  <2> QED  BY <1>1, <2>1, RangeTable DEF Fits, Written
<1>2. CASE r.op = "speed" /\ Has(r, "preset")
  <2>1. packet = [preset |-> r.preset, timer |-> 0] /\ r.preset \in 1 .. 3
    BY <1>2, <1>0 DEF PacketOf
  <2> QED  BY <1>2, <2>1, RangeTable DEF Fits, Written
<1>3. CASE r.op = "speed" /\ ~Has(r, "preset")
  <2>1. /\ packet = [manual |-> r.manual, preset |-> 255, timer |-> 0]
        /\ r.manual \in 10 .. 100
    BY <1>3, <1>0 DEF PacketOf
  <2> QED  BY <1>3, <2>1, RangeTable DEF Fits, Written
<1>4. CASE r.op = "presetspeed"
  <2>1. /\ packet = [p \in {Supply[r.preset], Extract[r.preset]} |->
                         IF p = Supply[r.preset] THEN r.supply ELSE r.extract]
        /\ r.preset \in 1 .. 3
        /\ r.supply \in 10 .. 100 /\ r.extract \in 10 .. 100
    BY <1>4, <1>0 DEF PacketOf
  <2>2. /\ Supply[r.preset] \in {"supply1", "supply2", "supply3"}
        /\ Extract[r.preset] \in {"extract1", "extract2", "extract3"}
    BY <2>1 DEF Supply, Extract
  <2> QED  BY <1>4, <2>1, <2>2, RangeTable DEF Fits, Written
<1>5. CASE r.op = "mode"
  <2>1. packet = [mode |-> Modes[Lower(r.word)]] /\ Lower(r.word) \in DOMAIN Modes
    BY <1>5, <1>0 DEF PacketOf
  <2>2. Modes[Lower(r.word)] \in 0 .. 3
    BY <2>1 DEF Modes
  <2> QED  BY <1>5, <2>1, <2>2, RangeTable DEF Fits, Written
<1>6. CASE r.op = "heater"
  <2>1. packet = [heater |-> Bit(r.on)]
    BY <1>6, <1>0 DEF PacketOf
  <2>2. Bit(r.on) \in 0 .. 1
    BY DEF Bit
  <2> QED  BY <1>6, <2>1, <2>2, RangeTable DEF Fits, Written
<1>7. CASE r.op = "timer"
  <2>1. packet = [timer |-> Timers[Lower(r.word)]] /\ Lower(r.word) \in DOMAIN Timers
    BY <1>7, <1>0 DEF PacketOf
  <2>2. Timers[Lower(r.word)] \in 0 .. 2
    BY <2>1 DEF Timers
  <2> QED  BY <1>7, <2>1, <2>2, RangeTable DEF Fits, Written
<1>8. CASE r.op = "duration"
  <2> DEFINE hours == Field(r, "hours", 0)
             minutes == Field(r, "minutes", 0)
  <2>1. /\ packet = [p \in {Durations[Lower(r.word)]} |-> 60 * hours + minutes]
        /\ Lower(r.word) \in DOMAIN Durations
        /\ UIDuration(r)
    BY <1>8, <1>0 DEF PacketOf
  <2>4. hours \in 0 .. 23 /\ minutes \in 0 .. 59 /\ hours + minutes > 0
    BY <2>1 DEF UIDuration
  <2> HIDE DEF hours, minutes
  <2>2. 60 * hours + minutes \in 1 .. 1439
    BY <2>4
  <2>3. Durations[Lower(r.word)] \in {"nightfor", "turbofor"}
    BY <2>1 DEF Durations
  <2> QED  BY <1>8, <2>1, <2>2, <2>3, RangeTable DEF Fits, Written
<1>9. CASE r.op = "threshold"
  <2>1. /\ Has(r, "word") /\ Lower(r.word) \in DOMAIN Sensors
        /\ Has(r, "value") => r.value \in Sensors[Lower(r.word)].range
        /\ packet = SensorPacket(Sensors[Lower(r.word)], Only(r, {"value", "enabled"}))
    BY <1>9, <1>0 DEF PacketOf
  <2> DEFINE limit == Limit[Lower(r.word)]
             flag == AutoFan[Lower(r.word)]
             range == Sensors[Lower(r.word)].range
  <2>2. /\ limit \in Written /\ flag \in Written
        /\ range \subseteq Ranges[limit]
        /\ Ranges[flag] = 0 .. 1
        /\ DOMAIN packet = (IF Has(r, "value") THEN {limit} ELSE {}) \cup
                           (IF Has(r, "enabled") THEN {flag} ELSE {})
        /\ Has(r, "value") => packet[limit] = r.value
        /\ Has(r, "enabled") => packet[flag] = Bit(r.enabled)
    BY <2>1, SensorTable
  <2>3. Has(r, "value") => r.value \in range
    BY <2>1
  <2>4. Bit(r.enabled) \in 0 .. 1
    BY DEF Bit
  <2> HIDE DEF limit, flag, range
  <2> QED  BY <1>9, <2>2, <2>3, <2>4 DEF Fits
<1>10. CASE r.op \in {"resetfilter", "resetfaults"}
  <2>1. packet = [filterreset |-> 1] \/ packet = [faultreset |-> 1]
    BY <1>10, <1>0 DEF PacketOf
  <2> QED  BY <1>10, <2>1, RangeTable DEF Fits, Written
<1>11. CASE r.op = "rtc"
  <2>1. packet = [rtctime |-> r.year, rtcdate |-> r.year] /\ r.year \in 2000 .. 2255
    BY <1>11, <1>0 DEF PacketOf
  <2> QED  BY <1>11, <2>1, RangeTable DEF Fits, Written
<1>12. CASE r.op = "param"
  <2>1. packet = RawPacket(r)
    BY <1>12, <1>0 DEF PacketOf
  <2>2. DOMAIN packet \subseteq {r.id}
    BY <2>1 DEF RawPacket
  <2> QED  BY <1>12, <2>2 DEF Fits
<1>13. CASE r.op = "get"
  <2>1. DOMAIN packet = {}
    BY <1>13, <1>0 DEF PacketOf
  <2> QED  BY <1>13, <2>1 DEF Fits
<1> QED  BY <1>1, <1>2, <1>3, <1>4, <1>5, <1>6, <1>7, <1>8, <1>9, <1>10, <1>11,
            <1>12, <1>13 DEF Known, Verbs

LEMMA PacketDoes ==
    ASSUME NEW r, r.op \in Known, NEW packet \in Operation(r), NEW f
    PROVE  Does(f, r, packet)
<1>0. PacketOf(r, packet)
  BY PacketTable
<1>99. Meaning(f, r)
  BY MeantTable
<1>1. CASE r.op = "power"
  <2>1. packet = IF r.on THEN [power |-> 1] ELSE [power |-> 0, timer |-> 0]
    BY <1>1, <1>0 DEF PacketOf
  <2>2. Meant(f, r) = packet
    BY <1>1, <2>1, <1>99 DEF Meaning
  <2> QED  BY <1>1, <2>2 DEF Does, Sure, DashboardTimer
<1>2. CASE r.op = "speed" /\ Has(r, "preset")
  <2>1. Meant(f, r) = packet
    BY <1>2, <1>0, <1>99 DEF PacketOf, Meaning
  <2> QED  BY <1>2, <2>1 DEF Does, Sure, DashboardTimer
<1>3. CASE r.op = "speed" /\ ~Has(r, "preset")
  <2>1. /\ packet = [manual |-> r.manual, preset |-> 255, timer |-> 0]
        /\ Meant(f, r) = [preset |-> 255, manual |-> r.manual, timer |-> 0]
    BY <1>3, <1>0, <1>99 DEF PacketOf, Meaning
  <2> QED  BY <1>3, <2>1 DEF Does, Sure, DashboardTimer
<1>4. CASE r.op = "presetspeed"
  <2>1. Meant(f, r) = packet
    BY <1>4, <1>0, <1>99 DEF PacketOf, Meaning
  <2> QED  BY <1>4, <2>1 DEF Does, Sure, DashboardTimer
<1>5. CASE r.op = "mode"
  <2>1. Meant(f, r) = packet
    BY <1>5, <1>0, <1>99 DEF PacketOf, Meaning
  <2> QED  BY <1>5, <2>1 DEF Does, Sure, DashboardTimer
<1>6. CASE r.op = "heater"
  <2>1. Meant(f, r) = packet
    BY <1>6, <1>0, <1>99 DEF PacketOf, Meaning
  <2> QED  BY <1>6, <2>1 DEF Does, Sure, DashboardTimer
<1>7. CASE r.op = "timer"
  <2>1. packet = [timer |-> Timers[Lower(r.word)]] /\ Has(r, "word")
    BY <1>7, <1>0 DEF PacketOf
  <2>2. Said(r) = r.word
    BY <2>1, Spelling
  <2>3. CASE f = "ui" /\ Lower(r.word) # "off"
    <3>1. Meant(f, r) = [timer |-> Timers[Lower(r.word)], power |-> 1]
      BY <1>7, <2>3, <1>99 DEF Meaning
    <3>2. /\ DOMAIN Meant(f, r) = {"timer", "power"}
          /\ Meant(f, r)["power"] = 1
          /\ Meant(f, r)["timer"] = packet["timer"]
          /\ DOMAIN packet = {"timer"}
      BY <2>1, <3>1
    <3>3. DashboardTimer(f, r)
      BY <1>7, <2>2, <2>3 DEF DashboardTimer
    <3> QED  BY <3>2, <3>3 DEF Does, Sure
  <2>4. CASE ~(f = "ui" /\ Lower(r.word) # "off")
    <3>1. Meant(f, r) = packet
      BY <1>7, <2>1, <2>4, <1>99 DEF Meaning
    <3> QED  BY <2>2, <2>4, <3>1 DEF Does, Sure, DashboardTimer
  <2> QED  BY <2>3, <2>4
<1>8. CASE r.op = "duration"
  <2>1. Meant(f, r) = packet
    BY <1>8, <1>0, <1>99 DEF PacketOf, Meaning
  <2> QED  BY <1>8, <2>1 DEF Does, Sure, DashboardTimer
<1>9. CASE r.op = "threshold"
  <2>1. /\ Has(r, "word") /\ Lower(r.word) \in DOMAIN Sensors
        /\ packet = SensorPacket(Sensors[Lower(r.word)], Only(r, {"value", "enabled"}))
    BY <1>9, <1>0 DEF PacketOf
  <2> DEFINE limit == Limit[Lower(r.word)]
             flag == AutoFan[Lower(r.word)]
  <2>2. /\ limit # flag
        /\ DOMAIN packet = (IF Has(r, "value") THEN {limit} ELSE {}) \cup
                           (IF Has(r, "enabled") THEN {flag} ELSE {})
        /\ Has(r, "value") => packet[limit] = r.value
        /\ Has(r, "enabled") => packet[flag] = Bit(r.enabled)
    BY <2>1, SensorTable
  <2>3. Meant(f, r) =
            [p \in (IF Has(r, "value") THEN {limit} ELSE {}) \cup
                   (IF Has(r, "enabled") THEN {flag} ELSE {}) |->
                IF p = limit THEN r.value ELSE Bit(r.enabled)]
    BY <1>9, <1>99 DEF Meaning
  <2> HIDE DEF limit, flag
  <2> QED  BY <1>9, <2>2, <2>3 DEF Does, Sure, DashboardTimer
<1>10. CASE r.op = "resetfilter"
  <2>1. Meant(f, r) = packet
    BY <1>10, <1>0, <1>99 DEF PacketOf, Meaning
  <2> QED  BY <1>10, <2>1 DEF Does, Sure, DashboardTimer
<1>11. CASE r.op = "resetfaults"
  <2>1. Meant(f, r) = packet
    BY <1>11, <1>0, <1>99 DEF PacketOf, Meaning
  <2> QED  BY <1>11, <2>1 DEF Does, Sure, DashboardTimer
<1>12. CASE r.op = "rtc"
  <2>1. Meant(f, r) = packet
    BY <1>12, <1>0, <1>99 DEF PacketOf, Meaning
  <2> QED  BY <1>12, <2>1 DEF Does, Sure, DashboardTimer
<1>13. CASE r.op = "param"
  <2>1. packet = RawPacket(r)
    BY <1>13, <1>0 DEF PacketOf
  <2>2. CASE r.hex # <<>>
    <3>1. Meant(f, r) = packet
      BY <1>13, <2>1, <2>2, <1>99 DEF RawPacket, Meaning
    <3> QED  BY <1>13, <3>1 DEF Does, Sure, DashboardTimer
  <2>3. CASE r.hex = <<>>
    <3>1. DOMAIN packet = {}
      BY <2>1, <2>3 DEF RawPacket
    <3>2. Meant(f, r) = <<>>
      BY <1>13, <2>3, <1>99 DEF Meaning
    <3>3. DOMAIN Meant(f, r) = {}
      BY <3>2
    <3> QED  BY <1>13, <3>1, <3>3 DEF Does, Sure, DashboardTimer
  <2> QED  BY <2>2, <2>3
<1>14. CASE r.op = "get"
  <2>1. DOMAIN packet = {} /\ Meant(f, r) = <<>>
    BY <1>14, <1>0, <1>99 DEF PacketOf, Meaning
  <2>2. DOMAIN Meant(f, r) = {}
    BY <2>1
  <2> QED  BY <1>14, <2>1, <2>2 DEF Does, Sure, DashboardTimer
<1> QED  BY <1>1, <1>2, <1>3, <1>4, <1>5, <1>6, <1>7, <1>8, <1>9, <1>10, <1>11,
            <1>12, <1>13, <1>14 DEF Known, Verbs

-----------------------------------------------------------------------------
(* The front ends.                                                         *)

\* The fields without which a request is none.
Shaped(r) == /\ r.op \in {"power", "heater"} => Has(r, "on")
             /\ r.op = "speed" => ExactlyOne(r)
             /\ r.op = "rtc" => Has(r, "year")
             /\ r.op = "param" => Has(r, "hex") /\ r.hex # <<>>

\* The operation has a packet, and WriteParams takes it.
Taken(r) == \E packet \in Operation(r) : ~ReadOnly(packet)

LEMMA PlanCases ==
    ASSUME NEW f, NEW r
    PROVE  /\ DashboardTimer(f, r) => Plan(f, r) = <<Power(TRUE), Operation(r)>>
           /\ ~DashboardTimer(f, r) => Plan(f, r) = <<Operation(r)>>
  BY DEF Plan, DashboardTimer

\* Turning the unit on is taken.
LEMMA PowerTaken == /\ Power(TRUE) = {[power |-> 1]}
                    /\ ~ReadOnly([power |-> 1])
  BY CommandsAssumption DEF Power, ReadOnly, Written

LEMMA PlanTaken ==
    ASSUME NEW f, NEW r
    PROVE  (\A i \in DOMAIN Plan(f, r) : \E packet \in Plan(f, r)[i] : ~ReadOnly(packet))
           <=> Taken(r)
<1>1. CASE DashboardTimer(f, r)
  <2>1. Plan(f, r) = <<Power(TRUE), Operation(r)>>
    BY <1>1, PlanCases
  <2>2. /\ DOMAIN Plan(f, r) = {1, 2}
        /\ Plan(f, r)[1] = Power(TRUE)
        /\ Plan(f, r)[2] = Operation(r)
    BY <2>1
  <2>3. \E packet \in Power(TRUE) : ~ReadOnly(packet)
    BY PowerTaken
  <2> QED  BY <2>2, <2>3 DEF Taken
<1>2. CASE ~DashboardTimer(f, r)
  <2>1. Plan(f, r) = <<Operation(r)>>
    BY <1>2, PlanCases
  <2>2. DOMAIN Plan(f, r) = {1} /\ Plan(f, r)[1] = Operation(r)
    BY <2>1
  <2> QED  BY <2>2 DEF Taken
<1> QED  BY <1>1, <1>2

\* Each front end's own checks refuse what is not a request, and otherwise
\* nothing that the operation takes, but for the two that stand apart.
LEMMA ChecksAgree ==
    ASSUME NEW r, r.op \in Known, NEW f \in Fronts, Offers(f, r), Taken(r),
           ~Apart(f, r)
    PROVE  Refusal(f, r) = "" <=> Shaped(r)
<1>1. PICK packet \in Operation(r) : ~ReadOnly(packet)
  BY DEF Taken
<1>2. PacketOf(r, packet)
  BY PacketTable
<1>3. /\ r.op = "speed" /\ Has(r, "preset") => r.preset \in 1 .. 3
      /\ r.op = "speed" /\ ~Has(r, "preset") => r.manual \in 10 .. 100
      /\ r.op = "presetspeed" => Has(r, "preset") /\ Has(r, "supply") /\ Has(r, "extract")
      /\ r.op = "mode" => Has(r, "word") /\ Lower(r.word) \in DOMAIN Modes
      /\ r.op = "timer" => Has(r, "word") /\ Lower(r.word) \in DOMAIN Timers
      /\ r.op = "duration" => UIDuration(r)
      /\ r.op = "threshold" => /\ Has(r, "word") /\ Lower(r.word) \in DOMAIN Sensors
                               /\ Has(r, "value") \/ Has(r, "enabled")
  BY <1>2 DEF PacketOf
<1>4. r.op = "param" /\ r.hex # <<>> => r.id \notin ReadOnlyParams
  <2> SUFFICES ASSUME r.op = "param", r.hex # <<>> PROVE r.id \notin ReadOnlyParams
    OBVIOUS
  <2>1. packet = RawPacket(r)
    BY <1>2 DEF PacketOf
  <2>2. DOMAIN packet = {r.id}
    BY <2>1 DEF RawPacket
  <2> QED  BY <1>1, <2>2 DEF ReadOnly
<1>5. Has(r, "word") => Said(r) = r.word
  BY Spelling
<1>6. V1Accepts(r) <=> Shaped(r)
  BY <1>3 DEF V1Accepts, Shaped, Has
<1>7. Shaped(r) => CliAccepts(r)
  <2> SUFFICES ASSUME Shaped(r) PROVE CliAccepts(r)
    OBVIOUS
  <2>1. r.op = "speed" => CliSpeed(r, 10 .. 100)
    BY <1>3 DEF Shaped, CliSpeed, ExactlyOne
  <2>2. /\ r.op = "mode" => Lower(Said(r)) \in DOMAIN Modes
        /\ r.op = "timer" => Lower(Said(r)) \in DOMAIN Timers
    BY <1>3, <1>5
  <2>3. r.op = "threshold" => CliSensor(r)
    BY <1>3, <1>5 DEF CliSensor
  <2>4. r.op = "param" => CliParam(r)
    BY <1>4 DEF Shaped, CliParam
  <2> QED  BY <2>1, <2>2, <2>3, <2>4 DEF CliAccepts, CliChecks, Shaped
<1>8. CASE f = "cli"
  <2>1. Refusal(f, r) = "" <=> CliAccepts(r) /\ V1Accepts(r)
    BY <1>8 DEF Refusal
  <2> QED  BY <1>6, <1>7, <2>1
<1>9. CASE f = "direct"
  <2>1. Refusal(f, r) = "" <=> CliAccepts(r)
    BY <1>9 DEF Refusal
  <2>2. CliAccepts(r) => Shaped(r)
    BY <1>9 DEF CliAccepts, CliChecks, CliSpeed, CliParam, Shaped, Apart
  <2> QED  BY <1>7, <2>1, <2>2
<1>10. CASE f = "v1"
  <2>1. Refusal(f, r) = "" <=> V1Accepts(r)
    BY <1>10 DEF Refusal
  <2> QED  BY <1>6, <2>1
<1>11. CASE f = "ui"
  <2>1. Refusal(f, r) = "" <=> UIAccepts(r)
    BY <1>11 DEF Refusal
  <2>2. r.op \notin {"rtc", "param"}
    BY <1>11 DEF Offers, Verbs
  <2>3. r.op = "threshold" => Said(r) \in DOMAIN Sensors
    BY <1>3, <1>5, <1>11 DEF Apart
  <2>4. UIAccepts(r) <=> Shaped(r)
    BY <1>3, <2>2, <2>3 DEF UIAccepts, UIThreshold, Shaped
  <2> QED  BY <2>1, <2>4
<1> QED  BY <1>8, <1>9, <1>10, <1>11 DEF Fronts

\* Whether a request is taken is the same at every front end that offers it
\* and does not stand apart on it.
LEMMA TakesAgree ==
    ASSUME NEW r, r.op \in Known,
           NEW f \in Fronts, Offers(f, r), ~Apart(f, r),
           NEW g \in Fronts, Offers(g, r), ~Apart(g, r)
    PROVE  Takes(f, r) = Takes(g, r)
<1>1. ASSUME NEW h \in Fronts, Offers(h, r), ~Apart(h, r)
      PROVE  Takes(h, r) <=> Shaped(r) /\ Taken(r)
  <2>1. Takes(h, r) <=> Refusal(h, r) = "" /\ Taken(r)
    BY PlanTaken DEF Takes
  <2>2. Taken(r) => (Refusal(h, r) = "" <=> Shaped(r))
    BY <1>1, ChecksAgree
  <2> QED  BY <2>1, <2>2
<1>2. Takes(f, r) <=> Takes(g, r)
  BY <1>1
<1>3. Takes(f, r) \in BOOLEAN /\ Takes(g, r) \in BOOLEAN
  BY DEF Takes
<1> QED  BY <1>2, <1>3

-----------------------------------------------------------------------------
(* The inductive invariant.                                                *)

\* What c has sent: before the operation it is at, and of that operation.
\* The device shows it from its landing until another packet lands.
Progress(c, before) ==
    IF at[c] = "sent"
    THEN \E packet \in Head(plan[c]) :
            /\ ~ReadOnly(packet)
            /\ wrote[c] = before \cup DOMAIN packet
            /\ landed[c] /\ ~stirred[c] =>
                  /\ Agrees(dev, packet)
                  /\ Reads(req[c]) => \A v \in got[c] : dev[req[c].id] = v
    ELSE wrote[c] = before

\* The dashboard's timer has turned the unit on, and c is at the timer.
Turned(c) ==
    /\ DashboardTimer(front[c], req[c])
    /\ at[c] \in {"held", "sent"}
    /\ plan[c] = <<Operation(req[c])>>
    /\ "power" \in DOMAIN cache /\ cache["power"] = 1
    /\ ~stirred[c] => Agrees(dev, [power |-> 1])

UnderWay(c) ==
    at[c] # "idle" =>
        /\ req[c] \in Requests
        /\ ans[c] = ""
        /\ \/ plan[c] = Plan(front[c], req[c]) /\ Progress(c, {})
           \/ Turned(c) /\ Progress(c, {"power"})

Asked(c) == req[c].op # "none" => req[c] \in Requests /\ Offers(front[c], req[c])

\* A request of the daemon that is at the device holds the device mutex.
Locked(c) == front[c] \in Daemon /\ at[c] \in {"held", "sent"} => holder = {c}

Harmless(c) ==
    ans[c] \in Refused =>
        \/ wrote[c] = {}
        \/ front[c] = "ui" /\ req[c].op = "timer" /\ wrote[c] = {"power"}

Whole == /\ DOMAIN req = Callers /\ DOMAIN plan = Callers
         /\ DOMAIN got = Callers /\ DOMAIN wrote = Callers

CInv == /\ TypeOK
        /\ Whole
        /\ \A c \in Callers : UnderWay(c) /\ Asked(c) /\ Locked(c) /\ Harmless(c)

LEMMA KnownRequest == \A r \in Requests : r.op \in Known
  BY CommandsAssumption DEF Known

\* The operation that a request is at: it comes first in the plan.
LEMMA AtHead ==
    ASSUME NEW c, at[c] # "idle", UnderWay(c)
    PROVE  \/ /\ plan[c] = <<Operation(req[c])>>
              /\ Head(plan[c]) = Operation(req[c])
              /\ Len(plan[c]) = 1
              /\ Turned(c) \/ ~DashboardTimer(front[c], req[c])
           \/ /\ DashboardTimer(front[c], req[c])
              /\ plan[c] = <<{[power |-> 1]}, Operation(req[c])>>
              /\ Head(plan[c]) = {[power |-> 1]}
              /\ Len(plan[c]) = 2
              /\ Tail(plan[c]) = <<Operation(req[c])>>
              /\ Progress(c, {})
<1>1. CASE plan[c] = Plan(front[c], req[c]) /\ Progress(c, {})
  <2>1. CASE DashboardTimer(front[c], req[c])
    <3>1. plan[c] = <<{[power |-> 1]}, Operation(req[c])>>
      BY <1>1, <2>1, PlanCases, PowerTaken
    <3> QED  BY <1>1, <2>1, <3>1
  <2>2. CASE ~DashboardTimer(front[c], req[c])
    <3>1. plan[c] = <<Operation(req[c])>>
      BY <1>1, <2>2, PlanCases
    <3> QED  BY <2>2, <3>1
  <2> QED  BY <2>1, <2>2
<1>2. CASE Turned(c)
  <2>1. plan[c] = <<Operation(req[c])>>
    BY <1>2 DEF Turned
  <2> QED  BY <1>2, <2>1
<1> QED  BY <1>1, <1>2 DEF UnderWay

\* That operation has one packet, which fits.
LEMMA OnePacket ==
    ASSUME NEW c, at[c] # "idle", UnderWay(c), NEW packet \in Head(plan[c])
    PROVE  /\ Head(plan[c]) = {packet}
           /\ \A p \in DOMAIN packet \cap DOMAIN Ranges :
                  packet[p] \in Ranges[p] \/ RawWritten(p)
           /\ Reads(req[c]) => DOMAIN packet = {}
           /\ Turned(c) => DOMAIN packet = {"timer"}
<1>1. req[c] \in Requests /\ req[c].op \in Known
  BY KnownRequest DEF UnderWay
<1>2. CASE Head(plan[c]) = Operation(req[c])
  <2>1. PacketOf(req[c], packet) /\ Fits(req[c], packet)
    BY <1>1, <1>2, PacketTable, PacketFits
  <2>2. Does(front[c], req[c], packet)
    BY <1>1, <1>2, PacketDoes
  <2>3. /\ Operation(req[c]) = {packet}
        /\ req[c].op = "get" => DOMAIN packet = {}
    BY <2>1 DEF PacketOf
  <2>4. \A p \in DOMAIN packet \cap DOMAIN Ranges :
            packet[p] \in Ranges[p] \/ RawWritten(p)
    BY <1>1, <2>1 DEF Fits, RawWritten
  <2>5. Turned(c) => DOMAIN packet = {"timer"}
    BY <2>2 DEF Turned, Does
  <2> QED  BY <1>2, <2>3, <2>4, <2>5 DEF Reads
<1>3. CASE /\ DashboardTimer(front[c], req[c])
           /\ Head(plan[c]) = {[power |-> 1]}
           /\ Len(plan[c]) = 2
  <2>1. packet = [power |-> 1]
    BY <1>3
  <2>2. \A p \in DOMAIN packet : packet[p] \in Ranges[p]
    BY <2>1, RangeTable
  <2>3. ~Turned(c)
    <3>1. ASSUME Turned(c) PROVE FALSE
      <4>1. plan[c] = <<Operation(req[c])>>
        BY <3>1 DEF Turned
      <4>2. Len(plan[c]) = 1
        BY <4>1
      <4> QED  BY <1>3, <4>2
    <3> QED  BY <3>1
  <2>4. ~Reads(req[c])
    BY <1>3 DEF Reads, DashboardTimer
  <2> QED  BY <1>3, <2>1, <2>2, <2>3, <2>4
<1> QED  BY <1>2, <1>3, AtHead

-----------------------------------------------------------------------------
(* The steps.                                                              *)

Mine(c) == UnderWay(c) /\ Asked(c) /\ Locked(c) /\ Harmless(c)

AtDevice(c) == at[c] \in {"held", "sent"}

Unmoved(o) ==
    /\ front'[o] = front[o] /\ req'[o] = req[o] /\ at'[o] = at[o]
    /\ plan'[o] = plan[o] /\ landed'[o] = landed[o] /\ got'[o] = got[o]
    /\ ans'[o] = ans[o] /\ wrote'[o] = wrote[o]

\* A caller that does not move keeps its part, if what lands on the device
\* stirs it, and only what it holds the mutex against writes the cache.
LEMMA Bystander ==
    ASSUME CInv, NEW o \in Callers, Unmoved(o),
           AtDevice(o) => \/ stirred'[o] = TRUE
                          \/ dev' = dev /\ stirred'[o] = stirred[o],
           AtDevice(o) /\ front[o] \in Daemon => cache' = cache /\ holder' = {o}
    PROVE  Mine(o)'
<1>1. Mine(o)
  BY DEF CInv, Mine
<1>2. Progress(o, {}) /\ at[o] # "idle" => Progress(o, {})'
  BY DEF Progress, Unmoved, AtDevice
<1>3. Progress(o, {"power"}) /\ at[o] # "idle" => Progress(o, {"power"})'
  BY DEF Progress, Unmoved, AtDevice
<1>4. Turned(o) => Turned(o)'
  <2>1. DashboardTimer(front[o], req[o]) => front[o] \in Daemon
    BY DEF DashboardTimer, Daemon, Fronts
  <2> QED  BY <2>1 DEF Turned, Unmoved, AtDevice
<1>5. UnderWay(o)'
  BY <1>1, <1>2, <1>3, <1>4 DEF UnderWay, Mine, Unmoved
<1>6. Asked(o)' /\ Harmless(o)'
  BY <1>1 DEF Asked, Harmless, Mine, Unmoved
<1>7. Locked(o)'
  BY <1>1 DEF Locked, Mine, Unmoved, AtDevice
<1> QED  BY <1>5, <1>6, <1>7 DEF Mine

\* The end of c's request leaves the others as they are.
LEMMA BystanderOfAnswer ==
    ASSUME CInv, NEW c \in Callers, NEW a, Answer(c, a),
           UNCHANGED <<dev, cache, front, req, landed, got, wrote, stirred>>,
           NEW o \in Callers, o # c, plan'[o] = plan[o]
    PROVE  Mine(o)'
<1>1. Unmoved(o)
  BY DEF Unmoved, Answer, CInv, TypeOK
<1>2. AtDevice(o) /\ front[o] \in Daemon => holder' = {o}
  BY DEF CInv, Locked, AtDevice, Answer
<1> QED  BY <1>1, <1>2, Bystander

\* An answer that refuses nothing that was sent ends a request well.
LEMMA Answered ==
    ASSUME CInv, NEW c \in Callers, NEW a \in Answers, Answer(c, a),
           UNCHANGED <<dev, cache, front, req, landed, got, gone, wrote, stirred>>,
           faults' \in 0 .. Faults, asks' \in 0 .. Asks,
           DOMAIN plan' = Callers, \A o \in Callers \ {c} : plan'[o] = plan[o],
           a \in Refused => \/ wrote[c] = {}
                            \/ /\ front[c] = "ui" /\ req[c].op = "timer"
                               /\ wrote[c] = {"power"}
    PROVE  CInv'
<1>1. TypeOK' /\ Whole'
  <2>1. DeviceOK'
    BY DEF CInv, TypeOK, DeviceOK
  <2>2. holder' \in {{}} \cup {{o} : o \in Callers}
    BY DEF CInv, TypeOK, Answer
  <2>3. /\ at' \in [Callers -> {"idle", "waiting", "held", "sent"}]
        /\ ans' \in [Callers -> Answers \cup {""}]
    BY DEF CInv, TypeOK, Answer
  <2> QED  BY <2>1, <2>2, <2>3 DEF CInv, TypeOK, Whole
<1>2. at'[c] = "idle" /\ ans'[c] = a
  BY DEF CInv, TypeOK, Answer
<1>3. Mine(c)'
  BY <1>2 DEF Mine, UnderWay, Asked, Locked, Harmless, CInv
<1>4. \A o \in Callers : o # c => Mine(o)'
  BY BystanderOfAnswer
<1> QED  BY <1>1, <1>3, <1>4 DEF CInv, Mine

\* What a request at the device has sent before its operation.
LEMMA HeldWrote ==
    ASSUME CInv, NEW c \in Callers, at[c] = "held"
    PROVE  \/ wrote[c] = {}
           \/ front[c] = "ui" /\ req[c].op = "timer" /\ wrote[c] = {"power"}
<1>1. UnderWay(c)
  BY DEF CInv
<1>2. Turned(c) => front[c] = "ui" /\ req[c].op = "timer"
  BY DEF Turned, DashboardTimer
<1> QED  BY <1>1, <1>2 DEF UnderWay, Progress

LEMMA LessFaults ==
    ASSUME CInv, Fault
    PROVE  faults' \in 0 .. Faults
<1>1. faults \in 0 .. Faults /\ Faults \in Nat
  BY CommandsAssumption DEF CInv, TypeOK
<1> QED  BY <1>1 DEF Fault

LEMMA DialFailsKeeps ==
    ASSUME CInv, NEW c \in Callers, DialFails(c)
    PROVE  CInv'
<1>1. /\ Answer(c, "internal") /\ Fault
      /\ UNCHANGED <<dev, cache, front, req, plan, landed, got, gone, wrote, stirred, asks>>
  BY DEF DialFails
<1>2. faults' \in 0 .. Faults
  BY <1>1, LessFaults
<1> QED  BY <1>1, <1>2, Answered DEF Answers, Refused, CInv, TypeOK, Whole

LEMMA RefuseKeeps ==
    ASSUME CInv, NEW c \in Callers, Refuse(c)
    PROVE  CInv'
<1>1. /\ \E a \in {"bad_request", "read_only"} : Answer(c, a)
      /\ UNCHANGED <<dev, cache, front, req, plan, landed, got, gone, wrote, stirred,
                    faults, asks>>
      /\ at[c] = "held"
  BY DEF Refuse
<1> QED  BY <1>1, HeldWrote, Answered DEF Answers, CInv, TypeOK, Whole

LEMMA AbandonKeeps ==
    ASSUME CInv, NEW c \in Callers, Abandon(c)
    PROVE  CInv'
<1>1. /\ Answer(c, "device_unreachable")
      /\ UNCHANGED <<dev, cache, front, req, plan, landed, got, gone, wrote, stirred,
                    faults, asks>>
  BY DEF Abandon
<1> QED  BY <1>1, Answered DEF Answers, Refused, CInv, TypeOK, Whole

LEMMA FailsKeeps ==
    ASSUME CInv, NEW c \in Callers, Fails(c)
    PROVE  CInv'
<1>1. /\ \E a \in {"auth_failed", "device_unreachable"} : Answer(c, a)
      /\ Fault
      /\ UNCHANGED <<dev, cache, front, req, plan, landed, got, gone, wrote, stirred, asks>>
  BY DEF Fails
<1>2. faults' \in 0 .. Faults
  BY <1>1, LessFaults
<1> QED  BY <1>1, <1>2, Answered DEF Answers, Refused, CInv, TypeOK, Whole

\* A read has written nothing.
LEMMA ReadWrote ==
    ASSUME CInv, NEW c \in Callers, at[c] = "sent", Reads(req[c])
    PROVE  wrote[c] = {}
<1>1. UnderWay(c) /\ ~Turned(c)
  BY DEF CInv, Reads, Turned, DashboardTimer
<1>2. Progress(c, {})
  BY <1>1 DEF UnderWay
<1>3. PICK packet \in Head(plan[c]) : wrote[c] = {} \cup DOMAIN packet
  BY <1>2 DEF Progress
<1>4. DOMAIN packet = {}
  BY <1>1, OnePacket
<1> QED  BY <1>3, <1>4

LEMMA ReadEndsKeeps ==
    ASSUME CInv, NEW c \in Callers, ReadEnds(c)
    PROVE  CInv'
<1>1. /\ \E a \in {"not_found", "ok"} : Answer(c, a)
      /\ UNCHANGED <<dev, cache, front, req, plan, landed, got, gone, wrote, stirred,
                    faults, asks>>
      /\ at[c] = "sent" /\ Reads(req[c])
  BY DEF ReadEnds
<1> QED  BY <1>1, ReadWrote, Answered DEF Answers, CInv, TypeOK, Whole

LEMMA LockKeeps ==
    ASSUME CInv, NEW c \in Callers, Lock(c)
    PROVE  CInv'
<1>1. TypeOK' /\ Whole'
  <2>1. DeviceOK'
    BY DEF CInv, TypeOK, DeviceOK, Lock
  <2> QED  BY <2>1 DEF CInv, TypeOK, Whole, Lock
<1>2. Mine(c)'
  <2>1. at[c] = "waiting" /\ at'[c] = "held" /\ holder' = {c}
    BY DEF Lock, CInv, TypeOK
  <2>2. UnderWay(c) /\ Asked(c) /\ Harmless(c)
    BY DEF CInv
  <2>3. /\ req[c] \in Requests /\ ans[c] = "" /\ wrote[c] = {}
        /\ plan[c] = Plan(front[c], req[c])
    BY <2>1, <2>2 DEF UnderWay, Turned, Progress
  <2>4. UnderWay(c)'
    BY <2>1, <2>3 DEF UnderWay, Progress, Lock
  <2> QED  BY <2>1, <2>2, <2>4 DEF Mine, Asked, Locked, Harmless, Lock
<1>3. ASSUME NEW o \in Callers, o # c PROVE Mine(o)'
  <2>1. Unmoved(o)
    BY <1>3 DEF Unmoved, Lock, CInv, TypeOK
  <2>2. ~(AtDevice(o) /\ front[o] \in Daemon)
    BY DEF CInv, Locked, AtDevice, Lock
  <2> QED  BY <2>1, <2>2, Bystander DEF Lock
<1> QED  BY <1>1, <1>2, <1>3 DEF CInv, Mine

LEMMA HangUpKeeps ==
    ASSUME CInv, NEW c \in Callers, HangUp(c)
    PROVE  CInv'
<1>1. /\ gone' = [gone EXCEPT ![c] = TRUE]
      /\ UNCHANGED <<dev, cache, holder, front, req, at, plan, landed, got, ans,
                    wrote, stirred, asks>>
      /\ faults' \in 0 .. Faults
  BY LessFaults DEF HangUp
<1>2. TypeOK' /\ Whole'
  <2>1. DeviceOK'
    BY <1>1 DEF CInv, TypeOK, DeviceOK
  <2> QED  BY <1>1, <2>1 DEF CInv, TypeOK, Whole
<1>3. ASSUME NEW o \in Callers PROVE Mine(o)'
  <2>1. Unmoved(o)
    BY <1>1 DEF Unmoved
  <2> QED  BY <1>1, <2>1, Bystander DEF CInv, Locked, AtDevice
<1> QED  BY <1>2, <1>3 DEF CInv, Mine

LEMMA SendKeeps ==
    ASSUME CInv, NEW c \in Callers, Send(c)
    PROVE  CInv'
<1>1. PICK packet \in Head(plan[c]) :
          ~ReadOnly(packet) /\ wrote' = [wrote EXCEPT ![c] = @ \cup DOMAIN packet]
  BY DEF Send
<1>2. TypeOK' /\ Whole'
  <2>1. DeviceOK'
    BY DEF CInv, TypeOK, DeviceOK, Send
  <2> QED  BY <1>1, <2>1 DEF CInv, TypeOK, Whole, Send
<1>3. Mine(c)'
  <2>1. /\ at[c] = "held" /\ at'[c] = "sent" /\ landed'[c] = FALSE
        /\ wrote'[c] = wrote[c] \cup DOMAIN packet
    BY <1>1 DEF Send, CInv, TypeOK, Whole
  <2>2. UnderWay(c) /\ Asked(c) /\ Locked(c)
    BY DEF CInv
  <2>3. ASSUME NEW before, Progress(c, before) PROVE Progress(c, before)'
    BY <1>1, <2>1, <2>3 DEF Progress, Send
  <2>4. Turned(c) => Turned(c)'
    BY <2>1 DEF Turned, Send
  <2>5. UnderWay(c)'
    BY <2>1, <2>2, <2>3, <2>4 DEF UnderWay, Send
  <2>6. Harmless(c)'
    BY <2>1, <2>2 DEF Harmless, UnderWay, Refused, Send
  <2> QED  BY <2>1, <2>2, <2>5, <2>6 DEF Mine, Asked, Locked, Send
<1>4. ASSUME NEW o \in Callers, o # c PROVE Mine(o)'
  <2>1. Unmoved(o)
    BY <1>1, <1>4 DEF Unmoved, Send, CInv, TypeOK, Whole
  <2> QED  BY <2>1, Bystander DEF Send, CInv, Locked, AtDevice
<1> QED  BY <1>2, <1>3, <1>4 DEF CInv, Mine

LEMMA RefusalWords ==
    ASSUME NEW f, NEW r
    PROVE  Refusal(f, r) \in {"", "usage", "bad_request"}
  BY DEF Refusal

LEMMA AskKeeps ==
    ASSUME CInv, NEW c \in Callers, NEW f \in Fronts, NEW r \in Requests, Ask(c, f, r)
    PROVE  CInv'
<1> DEFINE refusal == Refusal(f, r)
           next == CASE refusal # "" -> "idle"
                     [] refusal = "" /\ f = "direct" -> "held"
                     [] refusal = "" /\ ~(f = "direct") -> "waiting"
<1>1. refusal \in Answers \cup {""}
  BY RefusalWords DEF Answers
<1>2. /\ at[c] = "idle" /\ Offers(f, r)
      /\ front' = [front EXCEPT ![c] = f] /\ req' = [req EXCEPT ![c] = r]
      /\ gone' = [gone EXCEPT ![c] = FALSE] /\ wrote' = [wrote EXCEPT ![c] = {}]
      /\ landed' = [landed EXCEPT ![c] = FALSE]
      /\ stirred' = [stirred EXCEPT ![c] = FALSE] /\ got' = [got EXCEPT ![c] = {}]
      /\ plan' = [plan EXCEPT ![c] = IF refusal = "" THEN Plan(f, r) ELSE <<>>]
      /\ ans' = [ans EXCEPT ![c] = refusal]
      /\ at' = [at EXCEPT ![c] = next]
      /\ UNCHANGED <<dev, cache, holder, faults>>
  BY DEF Ask
<1>3. asks' \in 0 .. Asks
  <2>1. asks \in 0 .. Asks /\ Asks \in Nat
    BY CommandsAssumption DEF CInv, TypeOK
  <2>2. asks > 0 /\ asks' = asks - 1
    BY DEF Ask
  <2> QED  BY <2>1, <2>2
<1>4. /\ refusal # "" => next = "idle"
      /\ refusal = "" => next \in {"held", "waiting"}
      /\ refusal = "" /\ f \in Daemon => next = "waiting"
  BY DEF Daemon
<1> HIDE DEF refusal, next
<1>5. TypeOK' /\ Whole'
  <2>1. DeviceOK'
    BY <1>2 DEF CInv, TypeOK, DeviceOK
  <2> QED  BY <1>1, <1>2, <1>3, <1>4, <2>1 DEF CInv, TypeOK, Whole
<1>6. Mine(c)'
  <2>1. /\ front'[c] = f /\ req'[c] = r /\ wrote'[c] = {} /\ ans'[c] = refusal
        /\ at'[c] = next
        /\ refusal = "" => plan'[c] = Plan(f, r)
    BY <1>2 DEF CInv, TypeOK, Whole
  <2>2. UnderWay(c)'
    BY <1>4, <2>1 DEF UnderWay, Progress
  <2>3. Asked(c)' /\ Locked(c)' /\ Harmless(c)'
    BY <1>2, <1>4, <2>1 DEF Asked, Locked, Harmless
  <2> QED  BY <2>2, <2>3 DEF Mine
<1>7. ASSUME NEW o \in Callers, o # c PROVE Mine(o)'
  <2>1. Unmoved(o) /\ stirred'[o] = stirred[o]
    BY <1>2, <1>7 DEF Unmoved, CInv, TypeOK, Whole
  <2> QED  BY <1>2, <2>1, Bystander DEF CInv, Locked, AtDevice
<1> QED  BY <1>5, <1>6, <1>7 DEF CInv, Mine

\* The packet that lands is the one that was sent.
LEMMA Sent ==
    ASSUME CInv, NEW c \in Callers, at[c] = "sent"
    PROVE  \E packet \in Head(plan[c]) :
               /\ Head(plan[c]) = {packet}
               /\ ~ReadOnly(packet)
<1>1. UnderWay(c)
  BY DEF CInv
<1>2. PICK packet \in Head(plan[c]) : ~ReadOnly(packet)
  BY <1>1 DEF UnderWay, Progress
<1> QED  BY <1>1, <1>2, OnePacket

LEMMA LandsKeeps ==
    ASSUME CInv, NEW c \in Callers, Lands(c)
    PROVE  CInv'
<1>1. at[c] = "sent" /\ ~landed[c] /\ UnderWay(c)
  BY DEF Lands, CInv
<1>2. PICK packet \in Head(plan[c]) : Head(plan[c]) = {packet} /\ ~ReadOnly(packet)
  BY <1>1, Sent
<1>3. /\ \A p \in DOMAIN packet \cap DOMAIN Ranges :
             packet[p] \in Ranges[p] \/ RawWritten(p)
      /\ Reads(req[c]) => DOMAIN packet = {}
      /\ Turned(c) => DOMAIN packet = {"timer"}
  BY <1>1, <1>2, OnePacket
<1>4. /\ DOMAIN dev' = DOMAIN dev
      /\ \A p \in DOMAIN dev : dev'[p] = IF p \in DOMAIN packet THEN packet[p] ELSE dev[p]
  <2>1. dev' = Apply(packet, dev)
    BY <1>2 DEF Lands
  <2> QED  BY <2>1 DEF Apply
<1>5. DeviceOK'
  <2>1. DeviceOK
    BY DEF CInv, TypeOK
  <2>2. \A p \in DOMAIN packet : p \notin ReadOnlyParams
    BY <1>2 DEF ReadOnly
  <2> QED  BY <1>3, <1>4, <2>1, <2>2 DEF DeviceOK
<1>6. TypeOK' /\ Whole'
  BY <1>5 DEF CInv, TypeOK, Whole, Lands
<1>7. Mine(c)'
  <2>1. /\ landed'[c] = TRUE /\ stirred'[c] = stirred[c]
        /\ got'[c] = IF Reads(req[c]) /\ req[c].id \in DOMAIN dev
                     THEN {dev[req[c].id]} ELSE {}
        /\ UNCHANGED <<cache, holder, front, req, at, plan, ans, wrote>>
    BY DEF Lands, CInv, TypeOK, Whole
  <2>2. Agrees(dev', packet)
    BY <1>4 DEF Agrees
  <2>3. Reads(req[c]) => \A v \in got'[c] : dev'[req[c].id] = v
    BY <1>3, <1>4, <2>1
  <2>4. ASSUME NEW before, Progress(c, before) PROVE Progress(c, before)'
    <3>1. wrote[c] = before \cup DOMAIN packet
      BY <1>1, <1>2, <2>4 DEF Progress
    <3> QED  BY <1>1, <1>2, <2>1, <2>2, <2>3, <3>1 DEF Progress
  <2>5. Turned(c) => Turned(c)'
    BY <1>3, <1>4, <2>1 DEF Turned, Agrees
  <2>6. UnderWay(c)'
    BY <1>1, <2>1, <2>4, <2>5 DEF UnderWay
  <2>7. Asked(c)' /\ Locked(c)' /\ Harmless(c)'
    BY <2>1 DEF CInv, Asked, Locked, Harmless
  <2> QED  BY <2>6, <2>7 DEF Mine
<1>8. ASSUME NEW o \in Callers, o # c PROVE Mine(o)'
  <2>1. Unmoved(o)
    BY <1>8 DEF Unmoved, Lands, CInv, TypeOK, Whole
  <2>2. AtDevice(o) => stirred'[o] = TRUE
    BY <1>8 DEF Lands, AtDevice
  <2>3. AtDevice(o) /\ front[o] \in Daemon => cache' = cache /\ holder' = {o}
    BY DEF Lands, CInv, Locked, AtDevice
  <2> QED  BY <2>1, <2>2, <2>3, Bystander
<1> QED  BY <1>6, <1>7, <1>8 DEF CInv, Mine

LEMMA WriteEndsKeeps ==
    ASSUME CInv, NEW c \in Callers, WriteEnds(c)
    PROVE  CInv'
<1>1. /\ at[c] = "sent" /\ landed[c] /\ UnderWay(c)
      /\ plan' = [plan EXCEPT ![c] = Tail(@)]
      /\ UNCHANGED <<dev, front, req, landed, got, gone, wrote, stirred, faults, asks>>
  BY DEF WriteEnds, CInv
<1>2. PICK packet \in Head(plan[c]) : Head(plan[c]) = {packet}
  BY <1>1, Sent
<1>3. cache' = IF front[c] \in Daemon THEN Recorded(packet) ELSE cache
  BY <1>2 DEF WriteEnds
<1>4. ASSUME NEW o \in Callers, o # c
      PROVE  /\ plan'[o] = plan[o]
             /\ AtDevice(o) /\ front[o] \in Daemon => cache' = cache /\ holder = {o}
  <2>1. AtDevice(o) /\ front[o] \in Daemon => holder = {o} /\ front[c] \notin Daemon
    BY <1>1, <1>4 DEF CInv, Locked, AtDevice
  <2> QED  BY <1>1, <1>3, <1>4, <2>1 DEF CInv, Whole
<1>5. CASE Len(plan[c]) = 1
  <2>1. Answer(c, "ok")
    BY <1>5 DEF WriteEnds
  <2>2. TypeOK' /\ Whole'
    <3>1. DeviceOK'
      BY <1>1 DEF CInv, TypeOK, DeviceOK
    <3>2. /\ holder' \in {{}} \cup {{o} : o \in Callers}
          /\ at' \in [Callers -> {"idle", "waiting", "held", "sent"}]
          /\ ans' \in [Callers -> Answers \cup {""}]
      BY <2>1 DEF Answer, Answers, CInv, TypeOK
    <3> QED  BY <1>1, <3>1, <3>2 DEF CInv, TypeOK, Whole
  <2>3. Mine(c)'
    <3>1. at'[c] = "idle" /\ ans'[c] = "ok"
      BY <2>1 DEF Answer, CInv, TypeOK
    <3> QED  BY <1>1, <3>1 DEF Mine, UnderWay, Asked, Locked, Harmless, Refused, CInv
  <2>4. ASSUME NEW o \in Callers, o # c PROVE Mine(o)'
    <3>1. Unmoved(o)
      BY <1>1, <1>4, <2>1, <2>4 DEF Unmoved, Answer, CInv, TypeOK
    <3>2. AtDevice(o) /\ front[o] \in Daemon => cache' = cache /\ holder' = {o}
      BY <1>4, <2>1, <2>4 DEF Answer
    <3> QED  BY <1>1, <3>1, <3>2, Bystander
  <2> QED  BY <2>2, <2>3, <2>4 DEF CInv, Mine
<1>6. CASE Len(plan[c]) # 1
  <2>1. at' = [at EXCEPT ![c] = "held"] /\ UNCHANGED <<holder, ans>>
    BY <1>6 DEF WriteEnds
  <2>2. TypeOK' /\ Whole'
    <3>1. DeviceOK'
      BY <1>1 DEF CInv, TypeOK, DeviceOK
    <3> QED  BY <1>1, <2>1, <3>1 DEF CInv, TypeOK, Whole
  <2>3. /\ DashboardTimer(front[c], req[c])
        /\ Head(plan[c]) = {[power |-> 1]}
        /\ Tail(plan[c]) = <<Operation(req[c])>>
        /\ Progress(c, {})
    BY <1>1, <1>6, AtHead
  <2>4. front[c] \in Daemon
    BY <2>3 DEF DashboardTimer, Daemon, Fronts
  <2>5. packet = [power |-> 1]
    BY <1>2, <2>3
  <2>6. /\ wrote[c] = {"power"}
        /\ ~stirred[c] => Agrees(dev, [power |-> 1])
    BY <1>1, <2>3 DEF Progress
  <2>7. "power" \in DOMAIN cache' /\ cache'["power"] = 1
    BY <1>3, <2>4, <2>5 DEF Recorded
  <2>8. /\ at'[c] = "held"
        /\ plan'[c] = <<Operation(req[c])>>
    BY <1>1, <2>1, <2>3 DEF CInv, TypeOK, Whole
  <2>9. Turned(c)' /\ Progress(c, {"power"})'
    BY <1>1, <2>3, <2>6, <2>7, <2>8 DEF Turned, Progress
  <2>10. UnderWay(c)'
    BY <1>1, <2>1, <2>9 DEF UnderWay
  <2>11. Asked(c)' /\ Locked(c)' /\ Harmless(c)'
    BY <1>1, <2>1 DEF CInv, Asked, Locked, Harmless
  <2>12. ASSUME NEW o \in Callers, o # c PROVE Mine(o)'
    <3>1. Unmoved(o)
      BY <1>1, <1>4, <2>1, <2>12 DEF Unmoved, CInv, TypeOK
    <3> QED  BY <1>1, <1>4, <2>1, <2>12, <3>1, Bystander
  <2> QED  BY <2>2, <2>10, <2>11, <2>12 DEF CInv, Mine
<1> QED  BY <1>5, <1>6

LEMMA InitEstablishes == Init => CInv
<1> SUFFICES ASSUME Init PROVE CInv
  OBVIOUS
<1>1. DeviceOK
  BY DEF Init, DeviceOK
<1>2. TypeOK
  <2>1. faults \in 0 .. Faults /\ asks \in 0 .. Asks
    <3>1. Faults \in Nat /\ Asks \in Nat
      BY CommandsAssumption
    <3>2. faults = Faults /\ asks = Asks
      BY DEF Init
    <3> QED  BY <3>1, <3>2
  <2>2. /\ holder \in {{}} \cup {{c} : c \in Callers}
        /\ front \in [Callers -> Fronts]
        /\ at \in [Callers -> {"idle", "waiting", "held", "sent"}]
        /\ ans \in [Callers -> Answers \cup {""}]
        /\ landed \in [Callers -> BOOLEAN]
        /\ gone \in [Callers -> BOOLEAN]
        /\ stirred \in [Callers -> BOOLEAN]
    BY DEF Init, Fronts
  <2> QED  BY <1>1, <2>1, <2>2 DEF TypeOK
<1>3. Whole
  BY DEF Init, Whole
<1>4. ASSUME NEW c \in Callers PROVE Mine(c)
  BY DEF Init, Mine, UnderWay, Asked, Locked, Harmless, Refused
<1> QED  BY <1>2, <1>3, <1>4 DEF CInv, Mine

LEMMA StepKeeps == CInv /\ [Next]_vars => CInv'
<1> SUFFICES ASSUME CInv, [Next]_vars PROVE CInv'
  OBVIOUS
<1>1. CASE Next
  <2>1. PICK c \in Callers :
            \/ \E f \in Fronts, r \in Requests : Ask(c, f, r)
            \/ Lock(c) \/ DialFails(c) \/ Refuse(c) \/ Abandon(c)
            \/ Send(c) \/ Lands(c) \/ ReadEnds(c) \/ WriteEnds(c)
            \/ Fails(c) \/ HangUp(c)
    BY <1>1 DEF Next
  <2> QED  BY <2>1, AskKeeps, LockKeeps, DialFailsKeeps, RefuseKeeps, AbandonKeeps,
              SendKeeps, LandsKeeps, ReadEndsKeeps, WriteEndsKeeps, FailsKeeps,
              HangUpKeeps
<1>2. CASE UNCHANGED vars
  <2> USE <1>2 DEF vars
  <2>1. TypeOK' /\ Whole'
    BY DEF CInv, TypeOK, DeviceOK, Whole
  <2>2. ASSUME NEW o \in Callers PROVE Mine(o)'
    BY Bystander DEF Unmoved, CInv, Locked, AtDevice
  <2> QED  BY <2>1, <2>2 DEF CInv, Mine
<1> QED  BY <1>1, <1>2

LEMMA AlwaysCInv == Spec => []CInv
  BY InitEstablishes, StepKeeps, PTL DEF Spec

-----------------------------------------------------------------------------
(* The theorems.                                                           *)

\* Whatever is asked of the device, its parameters keep to their ranges and
\* the read-only ones do not change (pkg/breezy/ops.go, client.go).
THEOREM ParametersInRange == Spec => []TypeOK
<1>1. CInv => TypeOK
  BY DEF CInv
<1> QED  BY <1>1, AlwaysCInv, PTL

\* A refused request has written nothing, but that the dashboard's timer may
\* have turned the unit on (handlers_ui_write.go).
THEOREM RefusalsWriteNothing == Spec => []RefusalsHarmless
<1>1. CInv => RefusalsHarmless
  BY DEF CInv, Harmless, RefusalsHarmless
<1> QED  BY <1>1, AlwaysCInv, PTL

\* The checks of the command line, of /v1 and of /ui come to the same, but
\* for a sensor's name that the dashboard compares as it is spelt and a raw
\* value without bytes that the standalone command line sends.
THEOREM ChecksComeToTheSame == Spec => []FrontEndsAgree
<1>1. CInv => FrontEndsAgree
  <2> SUFFICES ASSUME CInv, NEW c \in Callers, req[c].op # "none",
                      ~Apart(front[c], req[c]),
                      NEW f \in Fronts, Offers(f, req[c]), ~Apart(f, req[c])
               PROVE  Takes(f, req[c]) = Takes(front[c], req[c])
    BY DEF FrontEndsAgree
  <2>1. /\ req[c] \in Requests /\ Offers(front[c], req[c])
        /\ front[c] \in Fronts
    BY DEF CInv, Asked, TypeOK
  <2> QED  BY <2>1, KnownRequest, TakesAgree
<1> QED  BY <1>1, AlwaysCInv, PTL

\* A request answered "ok" has just ended at the device.
LEMMA OkEnds ==
    ASSUME CInv, [Next]_vars, NEW c \in Callers, at[c] # "idle", ans'[c] = "ok"
    PROVE  \/ ReadEnds(c) /\ got[c] # {}
           \/ WriteEnds(c) /\ Len(plan[c]) = 1
<1>1. ans[c] = ""
  BY DEF CInv, UnderWay
<1>2. ans' # ans
  BY <1>1
<1>3. PICK o \in Callers :
          \/ \E f \in Fronts, r \in Requests : Ask(o, f, r)
          \/ Lock(o) \/ DialFails(o) \/ Refuse(o) \/ Abandon(o)
          \/ Send(o) \/ Lands(o) \/ ReadEnds(o) \/ WriteEnds(o)
          \/ Fails(o) \/ HangUp(o)
  BY <1>2 DEF Next, vars
<1>4. ASSUME NEW a, Answer(o, a)
      PROVE  o = c /\ a = "ok"
  BY <1>1, <1>4 DEF Answer, CInv, TypeOK
<1>5. ASSUME NEW f \in Fronts, NEW r \in Requests, Ask(o, f, r)
      PROVE  FALSE
  <2>1. at[o] = "idle" /\ ans' = [ans EXCEPT ![o] = Refusal(f, r)]
    BY <1>5 DEF Ask
  <2> QED  BY <1>1, <2>1 DEF CInv, TypeOK
<1>6. ~(Lock(o) \/ Send(o) \/ Lands(o) \/ HangUp(o))
  BY <1>2 DEF Lock, Send, Lands, HangUp
<1>7. ~(DialFails(o) \/ Refuse(o) \/ Abandon(o) \/ Fails(o))
  BY <1>4 DEF DialFails, Refuse, Abandon, Fails
<1>8. ReadEnds(o) => o = c /\ got[c] # {}
  BY <1>4 DEF ReadEnds
<1>9. WriteEnds(o) => o = c /\ Len(plan[c]) = 1
  BY <1>2, <1>4 DEF WriteEnds
<1> QED  BY <1>3, <1>5, <1>6, <1>7, <1>8, <1>9

\* What c has sent, when it has sent all, is what its request means; and the
\* device shows it, unless another packet has landed.
LEMMA SentIsMeant ==
    ASSUME CInv, NEW c \in Callers, at[c] = "sent", landed[c], Len(plan[c]) = 1,
           NEW packet \in Head(plan[c])
    PROVE  LET facts == Meant(front[c], req[c])
           IN  /\ wrote[c] = DOMAIN facts
               /\ ~stirred[c] => Agrees(dev, facts)
               /\ \A p \in DOMAIN packet : facts[p] = packet[p]
               /\ DOMAIN facts = DOMAIN packet \cup Sure(front[c], req[c])
               /\ Sure(front[c], req[c]) # {} =>
                     /\ facts["power"] = 1
                     /\ "power" \in DOMAIN cache /\ cache["power"] = 1
<1> DEFINE facts == Meant(front[c], req[c])
<1>1. UnderWay(c) /\ req[c] \in Requests /\ req[c].op \in Known
  BY KnownRequest DEF CInv, UnderWay
<1>2. /\ Head(plan[c]) = Operation(req[c])
      /\ Turned(c) \/ ~DashboardTimer(front[c], req[c])
  BY <1>1, AtHead
<1>3. /\ DOMAIN facts = DOMAIN packet \cup Sure(front[c], req[c])
      /\ \A p \in DOMAIN packet : facts[p] = packet[p]
      /\ DashboardTimer(front[c], req[c]) => facts["power"] = 1
  <2>1. Does(front[c], req[c], packet)
    BY <1>1, <1>2, PacketDoes
  <2> QED  BY <2>1 DEF Does
<1> HIDE DEF facts
<1>4. Head(plan[c]) = {packet}
  BY <1>1, OnePacket
<1>5. CASE Turned(c)
  <2>1. plan[c] # Plan(front[c], req[c])
    <3>1. Plan(front[c], req[c]) = <<Power(TRUE), Operation(req[c])>>
      BY <1>5, PlanCases DEF Turned
    <3>2. Len(Plan(front[c], req[c])) = 2
      BY <3>1
    <3> QED  BY <3>2
  <2>2. Progress(c, {"power"})
    BY <1>1, <2>1 DEF UnderWay
  <2>3. /\ wrote[c] = {"power"} \cup DOMAIN packet
        /\ ~stirred[c] => Agrees(dev, packet)
    BY <1>4, <2>2 DEF Progress
  <2>4. Sure(front[c], req[c]) = {"power"}
    BY <1>5 DEF Turned, Sure
  <2>5. /\ facts["power"] = 1
        /\ "power" \in DOMAIN cache /\ cache["power"] = 1
        /\ ~stirred[c] => ("power" \in DOMAIN dev => dev["power"] = 1)
    BY <1>3, <1>5 DEF Turned, Agrees
  <2>6. ~stirred[c] => Agrees(dev, facts)
    BY <1>3, <2>3, <2>4, <2>5 DEF Agrees
  <2> QED  BY <1>3, <2>3, <2>4, <2>5, <2>6 DEF facts
<1>6. CASE ~DashboardTimer(front[c], req[c])
  <2>1. Progress(c, {})
    BY <1>1, <1>6 DEF UnderWay, Turned
  <2>2. /\ wrote[c] = DOMAIN packet
        /\ ~stirred[c] => Agrees(dev, packet)
    BY <1>4, <2>1 DEF Progress
  <2>3. Sure(front[c], req[c]) = {}
    BY <1>6 DEF Sure
  <2>4. ~stirred[c] => Agrees(dev, facts)
    BY <1>3, <2>2, <2>3 DEF Agrees
  <2> QED  BY <1>3, <2>2, <2>3, <2>4 DEF facts
<1> QED  BY <1>2, <1>5, <1>6

\* What the action property says of one caller.
OkMeant(c) ==
    at[c] # "idle" /\ ans'[c] = "ok" =>
        LET facts == Meant(front[c], req[c])
        IN  /\ wrote[c] = DOMAIN facts
            /\ ~stirred[c] => Agrees(dev', facts)
            /\ front[c] \in Daemon =>
                  /\ Agrees(cache', facts)
                  /\ DOMAIN facts \subseteq DOMAIN cache'
            /\ Reads(req[c]) /\ ~stirred[c] => got[c] = {dev'[req[c].id]}

LEMMA WriteMeant ==
    ASSUME CInv, NEW c \in Callers, WriteEnds(c), Len(plan[c]) = 1
    PROVE  OkMeant(c)
<1> DEFINE facts == Meant(front[c], req[c])
<1>1. at[c] = "sent" /\ landed[c] /\ ~Reads(req[c]) /\ dev' = dev
  BY DEF WriteEnds
<1>2. PICK packet \in Head(plan[c]) : Head(plan[c]) = {packet}
  BY <1>1, Sent
<1>3. front[c] \in Daemon => cache' = Recorded(packet)
  BY <1>2 DEF WriteEnds
<1>4. /\ wrote[c] = DOMAIN facts
      /\ ~stirred[c] => Agrees(dev, facts)
      /\ \A p \in DOMAIN packet : facts[p] = packet[p]
      /\ DOMAIN facts = DOMAIN packet \cup Sure(front[c], req[c])
      /\ Sure(front[c], req[c]) # {} =>
            /\ facts["power"] = 1
            /\ "power" \in DOMAIN cache /\ cache["power"] = 1
  BY <1>1, <1>2, SentIsMeant
<1>5. Sure(front[c], req[c]) \subseteq {"power"}
  BY DEF Sure
<1> HIDE DEF facts
<1>6. front[c] \in Daemon => Agrees(cache', facts) /\ DOMAIN facts \subseteq DOMAIN cache'
  <2> SUFFICES ASSUME front[c] \in Daemon
               PROVE  \A p \in DOMAIN facts : p \in DOMAIN cache' /\ cache'[p] = facts[p]
    BY DEF Agrees
  <2>1. cache' = Recorded(packet)
    BY <1>3
  <2>2. \A p \in DOMAIN packet : p \in DOMAIN cache' /\ cache'[p] = packet[p]
    BY <2>1 DEF Recorded
  <2>3. \A p \in DOMAIN cache :
            p \notin DOMAIN packet => p \in DOMAIN cache' /\ cache'[p] = cache[p]
    BY <2>1 DEF Recorded
  <2> QED  BY <1>4, <1>5, <2>2, <2>3
<1> QED  BY <1>1, <1>4, <1>6 DEF OkMeant, facts

LEMMA ReadMeant ==
    ASSUME CInv, NEW c \in Callers, ReadEnds(c), got[c] # {}
    PROVE  OkMeant(c)
<1> DEFINE facts == Meant(front[c], req[c])
<1>1. at[c] = "sent" /\ landed[c] /\ Reads(req[c]) /\ UNCHANGED <<dev, cache>>
  BY DEF ReadEnds
<1>2. facts = <<>>
  BY <1>1, MeantTable DEF Reads, Meaning
<1>3. DOMAIN facts = {}
  BY <1>2
<1>4. wrote[c] = {}
  BY <1>1, ReadWrote
<1>5. ~stirred[c] => got[c] = {dev[req[c].id]}
  <2>1. UnderWay(c) /\ ~Turned(c)
    BY <1>1 DEF CInv, Reads, Turned, DashboardTimer
  <2>2. Progress(c, {})
    BY <1>1, <2>1 DEF UnderWay
  <2>3. ~stirred[c] => \A v \in got[c] : dev[req[c].id] = v
    BY <1>1, <2>2 DEF Progress
  <2> QED  BY <2>3
<1> HIDE DEF facts
<1> QED  BY <1>1, <1>3, <1>4, <1>5 DEF OkMeant, Agrees, facts

\* A request answered "ok" has sent exactly what it means, the daemon's cache
\* shows it, and so does the device unless another packet came between.
THEOREM OkHasDoneIt == Spec => OkMeansMeant
<1>1. CInv /\ [Next]_vars => [\A c \in Callers : OkMeant(c)]_vars
  BY OkEnds, ReadMeant, WriteMeant DEF OkMeant
<1>2. Spec => [][\A c \in Callers : OkMeant(c)]_vars
  BY <1>1, AlwaysCInv, PTL DEF Spec
<1> QED  BY <1>2 DEF OkMeansMeant, OkMeant
=============================================================================
