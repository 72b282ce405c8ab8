------------------------------ MODULE Readings ------------------------------
(***************************************************************************)
(* From the unit to the screen: a poll asks for parameters in batches,     *)
(* each a datagram the unit answers with another (Codec); the values go to *)
(* the cache, and from there to the status, the card, the gauges and the   *)
(* HomeKit characteristics (Views).  Gauges and characteristics are        *)
(* written where they stand and keep what a later snapshot does not name.  *)
(*                                                                         *)
(* How ticks, retries and locks order all this is the business of          *)
(* DeviceCache and UdpClient; here a poll or a write is one step.  The     *)
(* names Init, Next and Spec are left to the specifications this one       *)
(* stands beside.                                                          *)
(***************************************************************************)
EXTENDS Views

CONSTANTS Units,      \* the units a run starts with: [parameter -> bytes]
          Others(_),  \* other bytes the unit may come to hold of a parameter
          ReadIDs,    \* the parameters of a poll, in order (defaultReadIDs)
          BatchSize,  \* pollBatchSize
          FanWrites,  \* fanWriteIDs
          FanReads,   \* fanSensitiveReads
          Writes,     \* the packets clients send: sequences of [id, raw]
          DeviceID,   \* 16 bytes
          Wildcard,   \* DEFAULT_DEVICEID, 16 bytes
          Password,   \* at most 8 bytes
          Budget      \* changes of the unit, lost batches and writes

ASSUME FrameFields == /\ DeviceID \in [1 .. 16 -> Byte]
                      /\ Wildcard \in [1 .. 16 -> Byte]
                      /\ Len(Password) <= 8

\* The bytes a unit may hold of a parameter: what fits behind a size, and of
\* device_id_search its own id, which no client can write (client.go:209).
Holds(p, raw) == raw \in Bytes /\ (p = 124 => raw \in {<<>>, DeviceID})

\* The parameters a packet names.
Named(ws) == {ws[i].id : i \in DOMAIN ws}

\* The parameters a unit may hold.
Params == (UNION {DOMAIN u : u \in Units}) \cup (UNION {Named(ws) : ws \in Writes})

\* The builders are given only what they do not panic on (frame.go:286,319,336).
ASSUME WireFields ==
    /\ ReadIDs \in Seq(Ids) /\ BatchSize \in Nat \ {0}
    /\ Password \in Seq(Byte)
    /\ DeviceID # Wildcard
    /\ \A u \in Units : \A p \in DOMAIN u : Holds(p, u[p])
    /\ \A p \in Params : \A raw \in Others(p) : Holds(p, raw)
    /\ Writes \subseteq Seq([id : Ids \ {124}, raw : Bytes])

VARIABLES unit,    \* what the unit holds
          values,  \* the cached values
          gauges,  \* the exported gauges
          hap,     \* the HomeKit characteristics
          fresh,   \* which of these are of the cached values: "hap" since
                   \* the last poll, "gauges" since the last scrape, "poll"
                   \* if the last poll read everything
          settling,\* a fan was written to and the settle window is open
          budget

readingsVars == <<unit, values, gauges, hap, fresh, settling, budget>>

ReadingsInit ==
    /\ unit \in Units
    /\ values = [p \in {} |-> <<>>]
    /\ gauges = [f \in {} |-> <<>>]
    /\ hap = [f \in {} |-> <<>>]
    /\ fresh = {}
    /\ settling = FALSE
    /\ budget = Budget

SpendOne == budget > 0 /\ budget' = budget - 1

\* A request and the unit's answer to it, as frames on the wire.
Request(function, data) == EncodeRequest(DeviceID, Password, function, data)

Answered(u, request) ==
    LET f == Head(DecodeResponse(request, DeviceID, Password)) IN
    IF f.function = FuncRead
    THEN Reply(u, f, parseReadDataBlock(f.data))
    ELSE LET es == ParseDataBlock(f.data).entries IN
         Reply(Taken(u, f.data), f, [i \in DOMAIN es |-> es[i].id])

\* What ReadParams makes of a reply that reached the client.
Received(reply) == ReadParams(DecodeResponse(reply, DeviceID, Password))

Exchanged(ids) == Received(Answered(unit, Request(FuncRead,
                                                  BuildReadDataBlock(ids))))

-----------------------------------------------------------------------------
\* ids in packets of BatchSize.
Batched(ids) ==
    [n \in 1 .. (Len(ids) - 1) \div BatchSize + 1 |->
        SubSeq(ids, 1 + BatchSize * (n - 1),
               IF BatchSize * n > Len(ids) THEN Len(ids) ELSE BatchSize * n)]
Batches == Batched(ReadIDs)

\* A tick's snapshot holds what the batches of bs brought, and nothing else.
Snapshot(bs) == FoldLeft(LAMBDA vs, ids : Exchanged(ids)[1] ++ vs, <<>>, bs)

\* A tick that got every batch answered brings HomeKit up to date (OnPoll).
PollOf(ids) ==
    /\ values' = Snapshot(Batched(ids))
    /\ hap' = Sync(hap, BuildStatus(values'))
    /\ UNCHANGED <<unit, gauges, budget>>

Poll == PollOf(ReadIDs) /\ settling' = FALSE /\ fresh' = {"hap", "poll"}

\* In the settle window the fan's readings are not asked for.
PollSettling ==
    /\ settling
    /\ PollOf(SelectSeq(ReadIDs, LAMBDA p : p \notin FanReads))
    /\ fresh' = {"hap"}
    /\ UNCHANGED settling

\* One batch is lost: the tick goes on with the others and has failed.
PollPartly ==
    /\ Len(Batches) > 1
    /\ \E n \in DOMAIN Batches : values' = Snapshot(RemoveAt(Batches, n))
    /\ fresh' = {}
    /\ SpendOne
    /\ UNCHANGED <<unit, gauges, hap, settling>>

\* A client of the daemon writes a packet, without empty values
\* (handlers_device.go:164); the recording client puts what was acknowledged
\* into the cache.
Write ==
    /\ \E ws \in {w \in Writes : \A i \in DOMAIN w : w[i].raw # <<>>} :
         LET request == Request(FuncWriteWithReply, BuildWriteDataBlock(ws))
             f == Head(DecodeResponse(request, DeviceID, Password))
         IN /\ Received(Answered(unit, request)) # <<>>
            /\ unit' = Taken(unit, f.data)
            /\ values' = [p \in Named(ws) |->
                   Last(SelectSeq(ws, LAMBDA w : w.id = p)).raw] ++ values
            /\ settling' = (settling \/ \E i \in DOMAIN ws : ws[i].id \in FanWrites)
    /\ fresh' = fresh \ {"gauges", "hap"}
    /\ SpendOne
    /\ UNCHANGED <<gauges, hap>>

Scrape ==
    /\ gauges' = Update(gauges, values)
    /\ fresh' = fresh \cup {"gauges"}
    /\ UNCHANGED <<unit, values, hap, settling, budget>>

Change ==
    /\ \E p \in DOMAIN unit : \E raw \in Others(p) :
         unit' = [unit EXCEPT ![p] = raw]
    /\ SpendOne
    /\ UNCHANGED <<values, gauges, hap, fresh, settling>>

ReadingsNext == Poll \/ PollSettling \/ PollPartly \/ Write \/ Scrape \/ Change

ReadingsSpec == ReadingsInit /\ [][ReadingsNext]_readingsVars

-----------------------------------------------------------------------------
(* The wire.                                                               *)

Held(ids) == {p \in {ids[i] : i \in DOMAIN ids} :
                p \in DOMAIN unit /\ unit[p] # <<>>}

Spoiled(frame) == {[frame EXCEPT ![i] = (@ + d) % 256]
                     : i \in DOMAIN frame, d \in {1, 128}}

\* The unit's answer to the wildcard probe: its own id in the frame, an
\* empty password.
ProbeReply == EncodeRequest(DeviceID, <<>>, FuncResponse,
                            buildResponseDataBlock(unit, <<124, 185>>))

\* Whatever the page switches, sizes and special bytes on the way there and
\* back, the cache gets every value of every parameter asked for and nothing
\* for one the unit has no value of (frame.go:267-438, client.go:158-180).
ReadsArrive ==
    \A n \in DOMAIN Batches : \A ids \in {Batches[n], Reverse(Batches[n])} :
        Exchanged(ids) = <<[p \in Held(ids) |-> unit[p]]>>

\* A packet's values reach the unit as they were written.
WritesArrive ==
    \A ws \in Writes :
        LET f == Head(DecodeResponse(Request(FuncWriteWithReply,
                          BuildWriteDataBlock(ws)), DeviceID, Password))
            written == {i \in DOMAIN ws : ws[i].raw # <<>>}
        IN \A p \in DOMAIN unit \cup {ws[i].id : i \in written} :
             IF \E i \in written : ws[i].id = p
             THEN \E i \in written : ws[i] = [id |-> p,
                                              raw |-> Taken(unit, f.data)[p]]
             ELSE Taken(unit, f.data)[p] = unit[p]

\* A value decoded by a type is encoded into the same bytes
\* (params.go:419-595).
TypesInvert ==
    \A p \in DOMAIN unit : \A type \in DOMAIN Sizes :
        LET v == Decode(type, unit[p]) IN
        v # <<>> => Encode(type, v) = unit[p]

\* A unit is found under its own id, and a datagram with a spoiled byte is
\* not believed (discover.go:273-321).
ProbeFindsUnit ==
    /\ parseDiscoveryResponse(ProbeReply, Wildcard) = <<DeviceID>>
    /\ \A frame \in Spoiled(ProbeReply) :
         parseDiscoveryResponse(frame, Wildcard) = <<>>

\* What is sent arrives, and nothing else does.
WireFaithful == ReadsArrive /\ WritesArrive /\ TypesInvert /\ ProbeFindsUnit

-----------------------------------------------------------------------------
(* The screens.                                                            *)

\* The switches of the status, which are on for 1 alone.
Toggles == Configured.isOne ++ Live.isOne ++ Service.isOne

\* A switch that holds neither 0 nor 1: the gauges take it for on.
Odd(f) == f \in DOMAIN Toggles /\ values[Toggles[f]] \notin {<<0>>, <<1>>}

\* A value beyond the scale of its characteristic shows as the end that it is
\* beyond.
Pegged(f, v, shown) ==
    /\ f \in DOMAIN Scales
    /\ \/ v[1] < Scales[f][1] /\ shown = <<Scales[f][1]>>
       \/ v[1] > Scales[f][2] /\ shown = <<Scales[f][2]>>

\* Whoever looks sees one device: the status, the card, the gauges after a
\* scrape and the HomeKit characteristics after a poll show the same for
\* whatever the cache has.  Excepted are the card's power button, which is
\* also on for a running timer (ui_view.go:62-78), and the alerts when the
\* cache has none: the status shows no alert (status.go:271-272), a gauge
\* keeps the last one; and in HomeKit a temperature of 1000 degrees and more
\* keeps the last one too, and a value off the scale of its characteristic
\* is shown at the end of it (accessory.go:232-235, sync.go:206).  A card wants attention for what HomeKit reports as a
\* fault or a filter to change; and HomeKit shows a fan moving only on a
\* purifier it shows on.
ViewsAgree ==
    LET s == BuildStatus(values)
        card == snapshotToView(values)
        timer == "special_mode" \in DOMAIN s /\ s.special_mode # <<0>>
    IN /\ \A f \in (DOMAIN s \cap DOMAIN card) \ {"power"} : card[f] = s[f]
       /\ "power" \in DOMAIN s =>
            card.power = <<Bit(s.power = <<1>> \/ timer)>>
       /\ "gauges" \in fresh =>
            \A f \in DOMAIN s \cap DOMAIN gauges :
                 \/ gauges[f] = s[f]
                 \/ Odd(f)
                 \/ f \in DOMAIN NoAlerts \ DOMAIN Show(Alerts, values)
       /\ "hap" \in fresh =>
            /\ \A f \in DOMAIN s \cap DOMAIN hap :
                 hap[f] = s[f] \/ Unbelievable(s, f) \/ Pegged(f, s[f], hap[f])
            /\ {"status_fault", "filter_status"} \subseteq DOMAIN hap
                 /\ {"fault_level", "filter_status"} \subseteq DOMAIN s =>
                   ((hap.status_fault = <<1>> \/ hap.filter_status = <<1>>)
                      <=> card.needs_attention = <<1>>)
            /\ "purifier_state" \in DOMAIN hap =>
                 (hap.active = <<0>> <=> hap.purifier_state = <<0>>)

\* The same of HomeKit without the ends of its scales: VOCDensity is "Raw
\* index value, written verbatim" (SPECIFICATION-hap.md:279).
TilesVerbatim ==
    "hap" \in fresh =>
        LET s == BuildStatus(values) IN
        \A f \in DOMAIN s \cap DOMAIN hap : hap[f] = s[f] \/ Unbelievable(s, f)

\* "Stale values are signalled exclusively by breezy_last_poll_timestamp +
\* breezy_up" (metrics.go:20-22): after a poll that read everything, a scrape
\* exports nothing the cache does not hold.
StaleIsSignalled ==
    {"poll", "gauges"} \subseteq fresh =>
        DOMAIN gauges \subseteq DOMAIN BuildStatus(values)
=============================================================================
