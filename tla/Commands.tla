------------------------------ MODULE Commands ------------------------------
(***************************************************************************)
(* Requests to one device, from the command line and through the daemon:   *)
(* cmd/breezy (commands.go, backend.go), cmd/breezyd/handlers_device.go,   *)
(* handlers_service.go and handlers_ui_write.go, server.go.  The requests  *)
(* of the daemon's front ends "cli", "v1" and "ui" hold the device mutex   *)
(* from the dial to the answer; those of the standalone command line,      *)
(* "direct", take no lock.                                                 *)
(*                                                                         *)
(* Retries and late packets are those of UdpClient, the settle window and  *)
(* the polls those of DeviceCache, the pages those of PushHub: here a      *)
(* packet reaches the device at most once, between its sending and the end *)
(* of its exchange.                                                        *)
(***************************************************************************)
EXTENDS Operations

CONSTANTS Callers,      \* a caller makes one request at a time
          Requests,     \* what may be asked
          Device0,      \* the parameters the device has, with their values
          Faults,       \* bound: faults in all
          Asks          \* bound: requests in all

\* Parameters that no operation writes may be read-only; the operations'
\* are all writable (params.go).
Written == {"supply1", "supply2", "supply3", "extract1", "extract2",
            "extract3", "manual", "power", "heater", "humidityon", "co2on",
            "vocon", "preset", "timer", "mode", "nightfor", "turbofor",
            "humiditylimit", "co2limit", "voclimit", "rtctime", "rtcdate",
            "filterreset", "faultreset"}

ASSUME CommandsAssumption ==
    /\ ReadOnlyParams \subseteq DOMAIN Device0 \ Written
    /\ \A r \in Requests :
           r.op \in Verbs \cup {"presetspeed", "duration", "rtc", "param", "get"}
    /\ Faults \in Nat
    /\ Asks \in Nat

Fronts == {"cli", "direct", "v1", "ui"}
Daemon == Fronts \ {"direct"}

VARIABLES dev,     \* the device's parameters
          cache,   \* the daemon's copy of those it has written
          holder,  \* who holds the device mutex, or the empty set
          front,   \* each caller's front end
          req,     \* its request
          at,      \* where that is
          plan,    \* the operations it has still to make
          landed,  \* the packet on its way has reached the device
          got,     \* what a read returned: a set of at most one value
          gone,    \* the caller has hung up
          ans,     \* the answer to its last request, or ""
          wrote,   \* history: the parameters that request has sent
          stirred, \* history: another packet has reached the device since
                   \* the request was let through to it
          faults, asks

vars == <<dev, cache, holder, front, req, at, plan, landed, got, gone, ans,
          wrote, stirred, faults, asks>>

Answers == {"ok", "usage", "not_found", "bad_request", "read_only",
            "auth_failed", "device_unreachable", "internal"}

Init == /\ dev = Device0
        /\ cache = <<>>
        /\ holder = {}
        /\ front = [c \in Callers |-> "v1"]
        /\ req = [c \in Callers |-> [op |-> "none"]]
        /\ at = [c \in Callers |-> "idle"]
        /\ plan = [c \in Callers |-> <<>>]
        /\ landed = [c \in Callers |-> FALSE]
        /\ got = [c \in Callers |-> {}]
        /\ gone = [c \in Callers |-> FALSE]
        /\ ans = [c \in Callers |-> ""]
        /\ wrote = [c \in Callers |-> {}]
        /\ stirred = [c \in Callers |-> FALSE]
        /\ faults = Faults
        /\ asks = Asks

Fault == faults > 0 /\ faults' = faults - 1

\* The end of c's request: the client is closed, then the mutex released.
Answer(c, a) == /\ ans' = [ans EXCEPT ![c] = a]
                /\ at' = [at EXCEPT ![c] = "idle"]
                /\ holder' = holder \ {c}

\* The parameters of the device after a packet: it has no others.
Apply(packet, d) ==
    [p \in DOMAIN d |-> IF p \in DOMAIN packet THEN packet[p] ELSE d[p]]

-----------------------------------------------------------------------------

\* What a front end answers before it turns to the device; "" to go on.  The
\* command line's request to the daemon is one of /v1.
Refusal(f, r) ==
    CASE f \in {"cli", "direct"} /\ ~CliAccepts(r) -> "usage"
      [] f = "cli" /\ CliAccepts(r) /\ ~V1Accepts(r) -> "bad_request"
      [] f = "v1" /\ ~V1Accepts(r) -> "bad_request"
      [] f = "ui" /\ ~UIAccepts(r) -> "bad_request"
      [] OTHER -> ""

\* cmd*, postV1WriteJSON, postUIWriteJSON and the handlers they serve: a
\* request arrives, is checked and, unless refused, is to be carried out.
Ask(c, f, r) ==
    LET refusal == Refusal(f, r)
        direct == f = "direct"
    IN
    /\ at[c] = "idle"
    /\ asks > 0
    /\ Offers(f, r)
    /\ asks' = asks - 1
    /\ front' = [front EXCEPT ![c] = f]
    /\ req' = [req EXCEPT ![c] = r]
    /\ gone' = [gone EXCEPT ![c] = FALSE]
    /\ wrote' = [wrote EXCEPT ![c] = {}]
    /\ landed' = [landed EXCEPT ![c] = FALSE]
    /\ stirred' = [stirred EXCEPT ![c] = FALSE]
    /\ got' = [got EXCEPT ![c] = {}]
    /\ plan' = [plan EXCEPT ![c] =
                  IF refusal = "" THEN Plan(f, r) ELSE <<>>]
    /\ ans' = [ans EXCEPT ![c] = refusal]
    /\ at' = [at EXCEPT ![c] = CASE refusal # "" -> "idle"
                                 [] refusal = "" /\ direct -> "held"
                                 [] refusal = "" /\ ~direct -> "waiting"]
    /\ UNCHANGED <<dev, cache, holder, faults>>

\* lockDevice.
Lock(c) ==
    /\ at[c] = "waiting"
    /\ holder = {}
    /\ holder' = {c}
    /\ at' = [at EXCEPT ![c] = "held"]
    /\ UNCHANGED <<dev, cache, front, req, plan, landed, got, gone, ans, wrote,
                   stirred, faults, asks>>

\* ClientFactory, directBackend.dial: there is no socket, or no address.
DialFails(c) ==
    /\ at[c] = "held"
    /\ wrote[c] = {}
    /\ Fault
    /\ Answer(c, "internal")
    /\ UNCHANGED <<dev, cache, front, req, plan, landed, got, gone, wrote, stirred, asks>>

\* The operation refuses its arguments, or WriteParams the parameter.
Refuse(c) ==
    /\ at[c] = "held"
    /\ \/ /\ Head(plan[c]) = {}
          /\ Answer(c, "bad_request")
       \/ /\ \E packet \in Head(plan[c]) : ReadOnly(packet)
          /\ Answer(c, "read_only")
    /\ UNCHANGED <<dev, cache, front, req, plan, landed, got, gone, wrote,
                   stirred, faults, asks>>

\* The operation has a packet that WriteParams takes.
Sendable(c) == \E packet \in Head(plan[c]) : ~ReadOnly(packet)

\* exchange finds the request's context cancelled.
Abandon(c) ==
    /\ at[c] = "held"
    /\ gone[c]
    /\ Sendable(c)
    /\ Answer(c, "device_unreachable")
    /\ UNCHANGED <<dev, cache, front, req, plan, landed, got, gone, wrote,
                   stirred, faults, asks>>

\* exchange sends a request packet.
Send(c) ==
    /\ at[c] = "held"
    /\ ~gone[c]
    /\ \E packet \in Head(plan[c]) :
          /\ ~ReadOnly(packet)
          /\ wrote' = [wrote EXCEPT ![c] = @ \cup DOMAIN packet]
    /\ at' = [at EXCEPT ![c] = "sent"]
    /\ landed' = [landed EXCEPT ![c] = FALSE]
    /\ UNCHANGED <<dev, cache, holder, front, req, plan, got, gone, ans, stirred, faults,
                   asks>>

\* The device carries the packet out.
Lands(c) ==
    /\ at[c] = "sent"
    /\ ~landed[c]
    /\ landed' = [landed EXCEPT ![c] = TRUE]
    /\ \E packet \in Head(plan[c]) : dev' = Apply(packet, dev)
    /\ got' = [got EXCEPT ![c] = IF Reads(req[c]) /\ req[c].id \in DOMAIN dev
                                 THEN {dev[req[c].id]} ELSE {}]
    /\ stirred' = [o \in Callers |-> stirred[o] \/ (o # c /\ at[o] \in {"held", "sent"})]
    /\ UNCHANGED <<cache, holder, front, req, at, plan, gone, ans, wrote, faults,
                   asks>>

\* getParam: an unsupported parameter is not found.
ReadEnds(c) ==
    /\ at[c] = "sent"
    /\ landed[c]
    /\ Reads(req[c])
    /\ Answer(c, IF got[c] = {} THEN "not_found" ELSE "ok")
    /\ UNCHANGED <<dev, cache, front, req, plan, landed, got, gone, wrote, stirred, faults,
                   asks>>

Recorded(packet) ==
    [p \in DOMAIN packet \cup DOMAIN cache |->
        IF p \in DOMAIN packet THEN packet[p] ELSE cache[p]]

\* recordingClient.WriteParams, recordWrite: the daemon's cache takes what
\* was written; after the last operation the request is answered.
WriteEnds(c) ==
    /\ at[c] = "sent"
    /\ landed[c]
    /\ ~Reads(req[c])
    /\ \E packet \in Head(plan[c]) :
          cache' = IF front[c] \in Daemon THEN Recorded(packet) ELSE cache
    /\ plan' = [plan EXCEPT ![c] = Tail(@)]
    /\ IF Len(plan[c]) = 1
       THEN Answer(c, "ok")
       ELSE /\ at' = [at EXCEPT ![c] = "held"]
            /\ UNCHANGED <<holder, ans>>
    /\ UNCHANGED <<dev, front, req, landed, got, gone, wrote, stirred, faults, asks>>

\* The exchange fails: the device rejects the password, or no answer comes,
\* whether it has carried the packet out or not.
Fails(c) ==
    /\ at[c] = "sent"
    /\ Fault
    /\ \/ ~landed[c] /\ Answer(c, "auth_failed")
       \/ Answer(c, "device_unreachable")
    /\ UNCHANGED <<dev, cache, front, req, plan, landed, got, gone, wrote, stirred, asks>>

\* A caller of the daemon leaves, the command line after its 10 seconds:
\* the request goes on, with its context cancelled.
HangUp(c) ==
    /\ at[c] # "idle"
    /\ front[c] \in Daemon
    /\ ~gone[c]
    /\ Fault
    /\ gone' = [gone EXCEPT ![c] = TRUE]
    /\ UNCHANGED <<dev, cache, holder, front, req, at, plan, landed, got, ans,
                   wrote, stirred, asks>>

Next == \E c \in Callers :
            \/ \E f \in Fronts, r \in Requests : Ask(c, f, r)
            \/ Lock(c) \/ DialFails(c) \/ Refuse(c) \/ Abandon(c)
            \/ Send(c) \/ Lands(c) \/ ReadEnds(c) \/ WriteEnds(c)
            \/ Fails(c) \/ HangUp(c)

Spec == Init /\ [][Next]_vars

-----------------------------------------------------------------------------
(* Properties.                                                             *)

\* What each parameter that operations write may be.
Ranges ==
    [p \in Written \ {"filterreset", "faultreset"} |->
        CASE p \in {"supply1", "supply2", "supply3", "extract1", "extract2",
                    "extract3", "manual"} -> 10 .. 100
          [] p \in {"power", "heater", "humidityon", "co2on", "vocon"} -> 0 .. 1
          [] p = "preset" -> {1, 2, 3, 255}
          [] p = "timer" -> 0 .. 2
          [] p = "mode" -> 0 .. 3
          [] p \in {"nightfor", "turbofor"} -> 1 .. 1439
          [] p = "humiditylimit" -> 40 .. 80
          [] p = "co2limit" -> 400 .. 2000
          [] p = "voclimit" -> 50 .. 250
          [] p \in {"rtctime", "rtcdate"} -> 2000 .. 2255]

RawWritten(p) == \E r \in Requests : r.op = "param" /\ r.id = p

\* Whatever is asked, a parameter of the device that has a range is as it was
\* or in it, unless raw writes are made to it (params/{id}, set).
DeviceOK ==
    /\ DOMAIN dev = DOMAIN Device0
    /\ \A p \in DOMAIN dev \cap DOMAIN Ranges :
           dev[p] \in Ranges[p] \cup {Device0[p]} \/ RawWritten(p)
    /\ \A p \in DOMAIN dev \cap ReadOnlyParams : dev[p] = Device0[p]

\* Types, and those of the device's parameters.
TypeOK ==
    /\ DeviceOK
    /\ holder \in {{}} \cup {{c} : c \in Callers}
    /\ front \in [Callers -> Fronts]
    /\ at \in [Callers -> {"idle", "waiting", "held", "sent"}]
    /\ ans \in [Callers -> Answers \cup {""}]
    /\ landed \in [Callers -> BOOLEAN]
    /\ gone \in [Callers -> BOOLEAN]
    /\ stirred \in [Callers -> BOOLEAN]
    /\ faults \in 0 .. Faults
    /\ asks \in 0 .. Asks

Refused == {"usage", "bad_request", "read_only", "not_found"}

\* "reject caller-supplied arguments before any UDP traffic": a request that
\* is refused has sent the device nothing.
RefusedWritesNothing == \A c \in Callers : ans[c] \in Refused => wrote[c] = {}

\* The same with the dashboard's timer excepted, which may have turned the
\* unit on before its word is looked at, and does nothing else.
RefusalsHarmless ==
    \A c \in Callers :
        ans[c] \in Refused =>
            \/ wrote[c] = {}
            \/ front[c] = "ui" /\ req[c].op = "timer" /\ wrote[c] = {"power"}

\* The parameters that a request is about and what it asks for them, from
\* the usage text of cmd/breezy/main.go and the handlers' comments.
Limit == [humidity |-> "humiditylimit", co2 |-> "co2limit", voc |-> "voclimit"]
AutoFan == [humidity |-> "humidityon", co2 |-> "co2on", voc |-> "vocon"]

Meant(f, r) ==
    CASE r.op = "power" /\ r.on -> [power |-> 1]
      [] r.op = "power" /\ ~r.on -> [power |-> 0, timer |-> 0]
      [] r.op = "speed" /\ Has(r, "preset") -> [preset |-> r.preset, timer |-> 0]
      [] r.op = "speed" /\ ~Has(r, "preset") ->
            [preset |-> 255, manual |-> r.manual, timer |-> 0]
      [] r.op = "presetspeed" ->
            [p \in {Supply[r.preset], Extract[r.preset]} |->
                IF p = Supply[r.preset] THEN r.supply ELSE r.extract]
      [] r.op = "mode" -> [mode |-> Modes[Lower(r.word)]]
      [] r.op = "heater" -> [heater |-> Bit(r.on)]
      [] r.op = "timer" /\ (f # "ui" \/ Lower(r.word) = "off") ->
            [timer |-> Timers[Lower(r.word)]]
      [] r.op = "timer" /\ f = "ui" /\ Lower(r.word) # "off" ->
            [timer |-> Timers[Lower(r.word)], power |-> 1]
      [] r.op = "duration" -> [p \in {Durations[Lower(r.word)]} |->
                                  60 * Field(r, "hours", 0) + Field(r, "minutes", 0)]
      [] r.op = "threshold" ->
            [p \in (IF Has(r, "value") THEN {Limit[Lower(r.word)]} ELSE {}) \cup
                   (IF Has(r, "enabled") THEN {AutoFan[Lower(r.word)]} ELSE {}) |->
                IF p = Limit[Lower(r.word)] THEN r.value ELSE Bit(r.enabled)]
      [] r.op = "resetfilter" -> [filterreset |-> 1]
      [] r.op = "resetfaults" -> [faultreset |-> 1]
      [] r.op = "rtc" -> [rtctime |-> r.year, rtcdate |-> r.year]
      [] r.op = "param" /\ r.hex # <<>> -> [p \in {r.id} |-> Head(r.hex)]
      [] OTHER -> <<>>

Agrees(d, facts) == \A p \in DOMAIN facts : p \in DOMAIN d => d[p] = facts[p]

\* A request that is answered "ok" has done what it means and nothing else:
\* as it ends the device shows all of it, unless another packet came between,
\* and the daemon's cache does.
OkMeansMeant ==
    [][\A c \in Callers :
          at[c] # "idle" /\ ans'[c] = "ok" =>
              LET facts == Meant(front[c], req[c])
              IN  /\ wrote[c] = DOMAIN facts
                  /\ ~stirred[c] => Agrees(dev', facts)
                  /\ front[c] \in Daemon =>
                        /\ Agrees(cache', facts)
                        /\ DOMAIN facts \subseteq DOMAIN cache'
                  /\ Reads(req[c]) /\ ~stirred[c] => got[c] = {dev'[req[c].id]}]_vars

\* The front end takes the request all the way to the device.
Takes(f, r) ==
    /\ Refusal(f, r) = ""
    /\ \A i \in DOMAIN Plan(f, r) :
          \E packet \in Plan(f, r)[i] : ~ReadOnly(packet)

\* Two checks that are not those of the other front ends: the dashboard
\* compares a sensor's name as it is spelt (handlers_ui_write.go:656), and
\* the standalone command line sends a raw value without bytes
\* (commands.go:394).
Apart(f, r) ==
    \/ f = "ui" /\ r.op = "threshold" /\ Lower(Said(r)) # Said(r)
    \/ f = "direct" /\ r.op = "param" /\ Has(r, "hex") /\ r.hex = <<>>

\* But for these two the checks that cmd/breezy mirrors, and those that /v1
\* and /ui each make for themselves, come to the same: of the front ends that
\* offer a request, all take it or none does.
FrontEndsAgree ==
    \A c \in Callers : req[c].op # "none" /\ ~Apart(front[c], req[c]) =>
        \A f \in {g \in Fronts : Offers(g, req[c]) /\ ~Apart(g, req[c])} :
            Takes(f, req[c]) = Takes(front[c], req[c])

\* The same without the exceptions.  "Kinds (case-insensitive)" (ops.go:202);
\* "the device (or daemon) rejects nonsensical values"
\* (SPECIFICATION-cli.md:220-221).
FrontEndsAlike ==
    \A c \in Callers : req[c].op # "none" =>
        \A f \in {g \in Fronts : Offers(g, req[c])} :
            Takes(f, req[c]) = Takes(front[c], req[c])
=============================================================================
