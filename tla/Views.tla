------------------------------- MODULE Views -------------------------------
(***************************************************************************)
(* What the daemon shows of a device, decoded four times from the same     *)
(* cached bytes: the JSON status (pkg/breezy/status.go), the dashboard's   *)
(* card (ui_view.go), the Prometheus gauges (metrics.go) and, from the     *)
(* status, the HomeKit characteristics (pkg/homekit/sync.go).              *)
(*                                                                         *)
(* A decoding is a table: for each way to read bytes, the shown fields and *)
(* the parameters behind them.  Fields that show the same thing have the   *)
(* same name in every table.  A shown value is a tuple of numbers; the     *)
(* names of modes and levels are left as the numbers they stand for, and   *)
(* units and formats are left out.                                         *)
(***************************************************************************)
EXTENDS Codec

Bit(b) == IF b THEN 1 ELSE 0
Has(values, id, size) == id \in DOMAIN values /\ Len(values[id]) = size
Byte1(values, id) == values[id][1]

\* The ways to read a parameter's bytes; <<>> when they do not fit.  A
\* temperature of -32768 or 32767 is no temperature.
Reads(how, raw) ==
    LET sized(n, v) == IF Len(raw) = n THEN <<v>> ELSE <<>> IN
    CASE how = "u8" -> sized(1, raw[1])
      [] how = "isOne" -> sized(1, Bit(raw[1] = 1))
      [] how = "nonZero" -> sized(1, Bit(raw[1] # 0))
      [] how = "u16" -> sized(2, Num16(raw))
      [] how = "days" -> sized(2, Num16(raw) * 86400)
      [] how = "temp" -> IF Len(raw) = 2 /\ Signed(Num16(raw)) \notin {-32768, 32767}
                         THEN <<Signed(Num16(raw))>> ELSE <<>>
      [] how = "hm" -> sized(2, raw[2] * 3600 + raw[1] * 60)
      [] how = "hms" -> sized(3, raw[3] * 3600 + raw[2] * 60 + raw[1])
      [] how = "dhm" -> sized(4, Num16(Tail(Tail(raw))) * 86400 + raw[2] * 3600
                                   + raw[1] * 60)
      [] how = "firmware" -> IF Len(raw) = 6
           THEN <<raw[1], raw[2], Num16(SubSeq(raw, 5, 6)), raw[4], raw[3]>>
           ELSE <<>>
      [] how = "rh" -> IF Len(raw) >= 5 THEN <<Bit(raw[1] # 0)>> ELSE <<>>
      [] how = "co2" -> IF Len(raw) >= 5 THEN <<Bit(raw[2] # 0)>> ELSE <<>>
      [] how = "voc" -> IF Len(raw) >= 5 THEN <<Bit(raw[5] # 0)>> ELSE <<>>

\* The fields of a table that the values show, as [name |-> tuple].
Show(table, values) ==
    LET val(f) == LET how == CHOOSE h \in DOMAIN table : f \in DOMAIN table[h]
                      id == table[how][f]
                  IN IF id \in DOMAIN values THEN Reads(how, values[id])
                     ELSE <<>>
        fields == UNION {DOMAIN table[h] : h \in DOMAIN table}
    IN [f \in {g \in fields : val(g) # <<>>} |-> val(f)]

-----------------------------------------------------------------------------
(* The JSON status.                                                        *)

Configured == [
    isOne |-> [power |-> 1, heater_enabled |-> 104,
               humidity_sensor_enabled |-> 15, co2_sensor_enabled |-> 17,
               voc_sensor_enabled |-> 789],
    u8 |-> [speed_mode |-> 2, manual_pct |-> 68, airflow_mode |-> 183,
            humidity_threshold_pct |-> 25,
            preset1_supply |-> 58, preset1_extract |-> 59,
            preset2_supply |-> 60, preset2_extract |-> 61,
            preset3_supply |-> 62, preset3_extract |-> 63],
    u16 |-> [co2_threshold_ppm |-> 26, voc_threshold_index |-> 799]]

Live == [isOne |-> [heater_running |-> 129],
         u8 |-> [special_mode |-> 7],
         u16 |-> [fan_supply_rpm |-> 74, fan_extract_rpm |-> 75],
         hms |-> [special_mode_remaining_seconds |-> 11]]

SensorReadings == [u8 |-> [humidity_pct |-> 37, recovery_efficiency_pct |-> 297],
            u16 |-> [eco2_ppm |-> 39, voc_index |-> 800],
            temp |-> [temp_outdoor_c |-> 31, temp_supply_c |-> 32,
                      temp_exhaust_inlet_c |-> 33, temp_exhaust_outlet_c |-> 34]]

Service == [nonZero |-> [filter_status |-> 136],
            dhm |-> [filter_remaining_seconds |-> 100,
                     motor_lifetime_seconds |-> 126],
            days |-> [filter_total_seconds |-> 99],
            u16 |-> [rtc_battery_volts |-> 36],
            u8 |-> [fault_level |-> 131],
            isOne |-> [frost_protection_active |-> 779],
            firmware |-> [firmware |-> 134]]

\* Missing alerts are no alerts.
Alerts == [rh |-> [alert_humidity |-> 132], co2 |-> [alert_co2 |-> 132],
           voc |-> [alert_voc |-> 132]]
NoAlerts == [alert_humidity |-> <<0>>, alert_co2 |-> <<0>>, alert_voc |-> <<0>>]
DecodeAlerts(values) == Show(Alerts, values) ++ NoAlerts

\* Nothing overrides the user: no timer, no alert byte, no frost protection.
ComputeInUserControl(values) ==
    /\ Has(values, 7, 1) => Byte1(values, 7) = 0
    /\ 132 \in DOMAIN values => \A i \in DOMAIN values[132] : values[132][i] = 0
    /\ Has(values, 779, 1) => Byte1(values, 779) # 1

\* The percentage commanded of a fan (0 supply, 1 extract): the manual one
\* or the active preset's.
CommandedFanPct(values, fan) ==
    LET mode == IF Has(values, 2, 1) THEN Byte1(values, 2) ELSE 0
        src == IF mode = 255 THEN 68 ELSE 56 + 2 * mode + fan
    IN IF mode \in {1, 2, 3, 255} /\ Has(values, src, 1)
       THEN <<Byte1(values, src)>> ELSE <<>>

\* A fan that stands still shows 0, whatever is commanded of it.
LivePct(values, fan) ==
    IF CommandedFanPct(values, fan) # <<>> /\ Has(values, 74 + fan, 2)
         /\ Num16(values[74 + fan]) = 0
    THEN <<0>> ELSE CommandedFanPct(values, fan)

Present(f) == [n \in {m \in DOMAIN f : f[m] # <<>>} |-> f[n]]

BuildStatus(values) ==
    Show(Configured, values) ++ Show(Live, values)
      ++ Show(SensorReadings, values) ++ Show(Service, values)
      ++ DecodeAlerts(values)
      ++ Present([fan_supply_pct |-> LivePct(values, 0),
                  fan_extract_pct |-> LivePct(values, 1),
                  in_user_control |-> <<Bit(ComputeInUserControl(values))>>])

-----------------------------------------------------------------------------
(* The dashboard's card.                                                   *)

Card == [
    isOne |-> [heater_enabled |-> 104],
    u8 |-> [manual_pct |-> 68, airflow_mode |-> 183, special_mode |-> 7,
            preset1_supply |-> 58, preset1_extract |-> 59,
            preset2_supply |-> 60, preset2_extract |-> 61,
            preset3_supply |-> 62, preset3_extract |-> 63,
            fault_level |-> 131],
    hms |-> [special_mode_remaining_seconds |-> 11],
    hm |-> [night_duration_seconds |-> 770, turbo_duration_seconds |-> 771],
    firmware |-> [firmware |-> 134],
    nonZero |-> [filter_status |-> 136],
    dhm |-> [filter_remaining_seconds |-> 100, motor_lifetime_seconds |-> 126],
    u16 |-> [rtc_battery_volts |-> 36]]

SensorsCard == [
    u8 |-> [humidity_pct |-> 37, recovery_efficiency_pct |-> 297,
            humidity_threshold_pct |-> 25],
    u16 |-> [eco2_ppm |-> 39, voc_index |-> 800, co2_threshold_ppm |-> 26,
             voc_threshold_index |-> 799,
             fan_supply_rpm |-> 74, fan_extract_rpm |-> 75],
    temp |-> [temp_outdoor_c |-> 31, temp_supply_c |-> 32,
              temp_exhaust_inlet_c |-> 33, temp_exhaust_outlet_c |-> 34],
    isOne |-> [humidity_sensor_enabled |-> 15, co2_sensor_enabled |-> 17,
               voc_sensor_enabled |-> 789],
    rh |-> [alert_humidity |-> 132], co2 |-> [alert_co2 |-> 132],
    voc |-> [alert_voc |-> 132]]

\* A sensor whose switch is not known is taken for switched on.
sensorsViewFrom(values) ==
    Show(SensorsCard, values) ++ NoAlerts
      ++ [humidity_sensor_enabled |-> <<1>>, co2_sensor_enabled |-> <<1>>,
          voc_sensor_enabled |-> <<1>>]

\* The power button is on for the power parameter or for a running timer; a
\* fault or a soiled filter wants attention.
snapshotToView(values) ==
    LET power == Has(values, 1, 1) /\ Byte1(values, 1) = 1
        timer == Has(values, 7, 1) /\ Byte1(values, 7) # 0
        fault == Has(values, 131, 1) /\ Byte1(values, 131) # 0
        soiled == Has(values, 136, 1) /\ Byte1(values, 136) # 0
        mode == IF Has(values, 2, 1) /\ Byte1(values, 2) \in {1, 2, 3, 255}
                THEN <<Byte1(values, 2)>> ELSE <<>>
    IN Show(Card, values) ++ sensorsViewFrom(values)
         ++ Present([power |-> <<Bit(power \/ timer)>>, speed_mode |-> mode,
                     needs_attention |-> <<Bit(fault \/ soiled)>>])

-----------------------------------------------------------------------------
(* The Prometheus gauges.                                                  *)

Gauges == [
    nonZero |-> [power |-> 1, heater_enabled |-> 104,
                 humidity_sensor_enabled |-> 15, co2_sensor_enabled |-> 17,
                 voc_sensor_enabled |-> 789, heater_running |-> 129,
                 frost_protection_active |-> 779, filter_status |-> 136],
    u8 |-> [airflow_mode |-> 183, speed_mode |-> 2, manual_pct |-> 68,
            humidity_threshold_pct |-> 25, special_mode |-> 7,
            recovery_efficiency_pct |-> 297, humidity_pct |-> 37,
            fault_level |-> 131],
    u16 |-> [co2_threshold_ppm |-> 26, voc_threshold_index |-> 799,
             fan_supply_rpm |-> 74, fan_extract_rpm |-> 75, eco2_ppm |-> 39,
             voc_index |-> 800, rtc_battery_volts |-> 36],
    days |-> [filter_total_seconds |-> 99],
    hms |-> [special_mode_remaining_seconds |-> 11],
    dhm |-> [filter_remaining_seconds |-> 100, motor_lifetime_seconds |-> 126],
    temp |-> [temp_outdoor_c |-> 31, temp_supply_c |-> 32,
              temp_exhaust_inlet_c |-> 33, temp_exhaust_outlet_c |-> 34],
    firmware |-> [firmware |-> 134],
    rh |-> [alert_humidity |-> 132], co2 |-> [alert_co2 |-> 132],
    voc |-> [alert_voc |-> 132]]

\* Defect: temperatures are read without their sign.
UpdateUnsigned(gauges, values) ==
    Show([Gauges EXCEPT !.temp = <<>>, !.u16 = Gauges.temp ++ @], values)
      ++ [in_user_control |-> <<Bit(ComputeInUserControl(values))>>] ++ gauges

\* A gauge whose parameter is missing keeps its value.
Update(gauges, values) ==
    Show(Gauges, values)
      ++ [in_user_control |-> <<Bit(ComputeInUserControl(values))>>] ++ gauges

-----------------------------------------------------------------------------
(* The HomeKit characteristics, from the status.                           *)

\* The level of HomeKit's scale for a VOC index.
AirQuality(index) == CASE index <= 50 -> 1 [] index \in 51 .. 100 -> 2
                       [] index \in 101 .. 150 -> 3
                       [] index \in 151 .. 200 -> 4 [] OTHER -> 5

Between(lo, hi, n) == IF n < lo THEN lo ELSE IF n > hi THEN hi ELSE n

Clamped(n) == Between(0, 100, n)

\* Characteristics with the status's own values, and those made from them:
\* the purifier's state, the fan slider, the airflow and timer switches, the
\* filter's and the battery's levels, the detected CO2.
Copied == {"heater_enabled", "humidity_pct", "eco2_ppm", "voc_index",
           "filter_status", "temp_outdoor_c", "temp_supply_c",
           "temp_exhaust_inlet_c", "temp_exhaust_outlet_c"}

\* The ends of a characteristic's scale, where a status can lie beyond them:
\* the HAP library sets the nearer end instead.
Scales == [f \in DOMAIN SensorReadings.temp |-> <<-400, 850>>] ++
          [humidity_pct |-> <<0, 100>>, voc_index |-> <<0, 1000>>]

OnScale(f, v) ==
    IF f \in DOMAIN Scales
    THEN <<Between(Scales[f][1], Scales[f][2], v[1])>> ELSE v

Purifier(s) ==
    LET moves(f) == f \in DOMAIN s /\ s[f][1] > 0
        state == CASE s.power[1] = 0 -> 0
                   [] s.power[1] = 1 /\ (moves("fan_supply_rpm")
                                           \/ moves("fan_extract_rpm")) -> 2
                   [] OTHER -> 1
    IN IF "power" \in DOMAIN s
       THEN [active |-> s.power, purifier_state |-> <<state>>] ELSE <<>>

Slider(s) == IF "fan_supply_pct" \in DOMAIN s
             THEN [rotation_speed |-> <<Clamped(s.fan_supply_pct[1])>>]
             ELSE IF "manual_pct" \in DOMAIN s
             THEN [rotation_speed |-> <<Clamped(s.manual_pct[1])>>] ELSE <<>>

\* Whether field f of s, when it is there, passes a test of its own.
Flag(s, f, Test(_)) == IF f \in DOMAIN s THEN <<Bit(Test(s[f][1]))>> ELSE <<>>

\* Exact, where the code's floats may be one below.
Battery(mv) == Clamped((mv - 2500) \div 5)

Made(s) == Present([
    target_auto |-> Flag(s, "speed_mode", LAMBDA n : n # 255),
    supply_only |-> Flag(s, "airflow_mode", LAMBDA n : n = 2),
    extract_only |-> Flag(s, "airflow_mode", LAMBDA n : n = 3),
    night |-> Flag(s, "special_mode", LAMBDA n : n = 1),
    turbo |-> Flag(s, "special_mode", LAMBDA n : n = 2),
    status_fault |-> Flag(s, "fault_level", LAMBDA n : n # 0),
    low_battery |-> Flag(s, "rtc_battery_volts", LAMBDA n : n <= 2700),
    battery_level |-> IF "rtc_battery_volts" \in DOMAIN s
                      THEN <<Battery(s.rtc_battery_volts[1])>> ELSE <<>>,
    air_quality |-> IF "voc_index" \in DOMAIN s
                    THEN <<AirQuality(s.voc_index[1])>> ELSE <<>>,
    co2_detected |-> Flag(s, "eco2_ppm", LAMBDA n :
        "co2_threshold_ppm" \in DOMAIN s /\ n > s.co2_threshold_ppm[1]),
    filter_life |-> IF /\ {"filter_remaining_seconds", "filter_total_seconds"}
                            \subseteq DOMAIN s
                       /\ s.filter_total_seconds[1] > 0
                    THEN <<Clamped(s.filter_remaining_seconds[1]
                                     \div (s.filter_total_seconds[1] \div 100))>>
                    ELSE <<>>])

\* A temperature of 1000 degrees and more, either way, is none; a
\* characteristic whose field is missing keeps its value.
Unbelievable(s, f) == f \in DOMAIN SensorReadings.temp /\ s[f][1] \notin -9999 .. 9999

Sync(tiles, s) ==
    [f \in {g \in Copied \cap DOMAIN s : ~Unbelievable(s, g)} |-> OnScale(f, s[f])]
      ++ Purifier(s) ++ Slider(s) ++ Made(s) ++ tiles
=============================================================================
