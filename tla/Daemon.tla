------------------------------- MODULE Daemon -------------------------------
(***************************************************************************)
(* The life of the daemon's process (cmd/breezyd/main.go, run): it loads   *)
(* the configuration, looks for the units, starts the pollers and the      *)
(* HomeKit bridge (homekit.go), serves, and stops in order; or crashes at  *)
(* any moment.  Beside it discovery keeps the addresses of the registry    *)
(* (server.go) up to date while the units move.                            *)
(*                                                                         *)
(* Devices are numbers in the order of their names; a unit is known by its *)
(* device, the ids in the configuration being different.  One poller       *)
(* stands for the three goroutines of a device.                            *)
(***************************************************************************)
EXTENDS Naturals, Sequences, SequencesExt, FiniteSets

CONSTANTS Devices,    \* the units on the network, by their device's number
          Addresses,
          None, Torn,
          Pins,       \* the PINs that are not weak
          Default,    \* the configuration WriteDefault writes
          Configs,    \* what the operator may write
          \* Bounds of the model.
          Moves,      \* changes of a unit's address
          Starts      \* starts of the daemon

\* A configuration file: the address (or None) of each configured device, the
\* kind of discovery, whether HomeKit is on, whether it holds passwords and
\* others may read it, and whether anything else in it is refused.
ConfigFiles == [ip : UNION {[D -> Addresses \cup {None}] : D \in SUBSET Devices},
                discovery : {"on-start", "off", "periodic"}, homekit : BOOLEAN,
                passwords : BOOLEAN, readable : BOOLEAN, malformed : BOOLEAN]

ASSUME DaemonAssumption == /\ Devices \subseteq Nat
                           /\ IsFiniteSet(Devices)
                           /\ Configs \cup {Default} \subseteq ConfigFiles
                           /\ None \notin ConfigFiles

VARIABLES
    \* What outlives the process.
    config,    \* the configuration file, or None
    pinFile,   \* pin.txt: a PIN, Torn, or None
    where,     \* the address of each unit
    home,      \* the tiles a phone has learned: [accessory id -> device]
    logged,    \* the PINs the log has shown
    \* The process.
    main,      \* where run() stands
    loaded,    \* the configuration it runs with
    registry,  \* DeviceRegistry: [device -> address or None]
    pollers,   \* [device -> the address its poller dials]
    tick,      \* [device -> what its goroutines do]
    found,     \* the answers of the probe under way, or None
    tiles,     \* homekitAccessories in the order they were made, or None
    busy,      \* a request or an event stream is open
    bounds

process == <<main, loaded, registry, pollers, tick, found, tiles, busy>>
files == <<config, pinFile>>
vars == <<config, pinFile, where, home, logged, process, bounds>>

Init == /\ config \in Configs \cup {None}
        /\ pinFile = None
        /\ where \in {w \in [Devices -> Addresses] :
                        \A d, e \in Devices : w[d] = w[e] => d = e}
        /\ home = <<>>
        /\ logged = {}
        /\ main = "down"
        /\ loaded = None
        /\ registry = <<>>
        /\ pollers = <<>>
        /\ tick = <<>>
        /\ found = None
        /\ tiles = None
        /\ busy = FALSE
        /\ bounds = [moves |-> Moves, starts |-> Starts]

\* The process is gone and its memory with it.
Gone == /\ main' = "down"
        /\ loaded' = None
        /\ registry' = <<>>
        /\ pollers' = <<>>
        /\ tick' = <<>>
        /\ found' = None
        /\ tiles' = None
        /\ busy' = FALSE

\* The contexts derived from the root are cancelled.
Cancelled == main \in {"waiting", "unpublishing"}

-----------------------------------------------------------------------------
(* Around the process.                                                     *)

Spend(b) == bounds[b] > 0 /\ bounds' = [bounds EXCEPT ![b] = @ - 1]

\* A unit gets another address.
Move ==
    /\ \E d \in Devices, a \in Addresses :
         /\ \A e \in Devices : where[e] # a
         /\ where' = [where EXCEPT ![d] = a]
    /\ Spend("moves")
    /\ UNCHANGED <<files, home, logged, process>>

\* The operator changes the configuration of a daemon at rest; devices are
\* added after the ones there are.
Edit ==
    /\ main = "down"
    /\ \E c \in Configs :
         /\ c # config
         /\ config # None =>
              /\ DOMAIN config.ip \subseteq DOMAIN c.ip
              /\ \A d \in DOMAIN config.ip,
                    e \in DOMAIN c.ip \ DOMAIN config.ip : d < e
         /\ config' = c
    /\ UNCHANGED <<pinFile, where, home, logged, process, bounds>>

\* Also the end the runtime makes of a process that reads a map while it is
\* written (see MapSafe).
Crash == /\ main # "down"
         /\ Gone
         /\ UNCHANGED <<files, where, home, logged, bounds>>

-----------------------------------------------------------------------------
(* Starting.                                                               *)

\* config.Load.
Accepted(c) == ~c.malformed /\ ~(c.passwords /\ c.readable)

Start ==
    /\ main = "down"
    /\ config # None
    /\ Accepted(config)
    /\ loaded' = config
    /\ registry' = config.ip
    /\ IF config.discovery = "on-start"
       THEN main' = "probing" /\ found' = <<>>
       ELSE main' = "wiring" /\ UNCHANGED found
    /\ Spend("starts")
    /\ UNCHANGED <<files, where, home, logged, pollers, tick, tiles, busy>>

\* Without a file a default one is written and the process ends.
Bootstrap ==
    /\ main = "down"
    /\ config = None
    /\ config' = Default
    /\ UNCHANGED <<pinFile, where, home, logged, process, bounds>>

\* A device without an address is skipped.
startPollers ==
    /\ main = "wiring"
    /\ pollers' = [d \in {e \in DOMAIN registry : registry[e] # None} |->
                       registry[d]]
    /\ tick' = [d \in DOMAIN pollers' |-> "idle"]
    /\ main' = IF loaded.homekit THEN "pin" ELSE "serving"
    /\ UNCHANGED <<files, where, home, logged, loaded, registry, found, tiles,
                   busy, bounds>>

\* loadOrGeneratePin: a PIN in the file is taken.  The map of accessories is
\* made next.
LoadPin ==
    /\ main = "pin"
    /\ pinFile \in Pins
    /\ logged' = logged \cup {pinFile}
    /\ main' = "tiles"
    /\ tiles' = <<>>
    /\ UNCHANGED <<files, where, home, loaded, registry, pollers, tick, found,
                   busy, bounds>>

\* Else a new one is written, over what the file held.
GeneratePin ==
    /\ main = "pin"
    /\ pinFile \notin Pins
    /\ pinFile' = Torn
    /\ main' = "writing"
    /\ UNCHANGED <<config, where, home, logged, loaded, registry, pollers, tick,
                   found, tiles, busy, bounds>>

PinWritten ==
    /\ main = "writing"
    /\ pinFile' \in Pins
    /\ logged' = logged \cup {pinFile'}
    /\ main' = "tiles"
    /\ tiles' = <<>>
    /\ UNCHANGED <<config, where, home, loaded, registry, pollers, tick, found,
                   busy, bounds>>

\* The PIN cannot be read or written, or the HomeKit server not be made: run
\* returns.
HomekitFails ==
    /\ main \in {"pin", "writing", "tiles"}
    /\ Gone
    /\ UNCHANGED <<files, where, home, logged, bounds>>

\* Defect: the newest name first.
SortedNewestFirst(ds) ==
    [i \in 1 .. Cardinality(ds) |->
        CHOOSE d \in ds : Cardinality({e \in ds : e > d}) = i - 1]

\* sort.Strings: at each place the name with as many before it.
Sorted(ds) ==
    [i \in 1 .. Cardinality(ds) |->
        CHOOSE d \in ds : Cardinality({e \in ds : e < d}) = i - 1]

\* The next accessory goes into the map; its id is its place.
AddTile ==
    /\ main = "tiles"
    /\ Len(tiles) < Len(Sorted(DOMAIN registry))
    /\ tiles' = Append(tiles, Sorted(DOMAIN registry)[Len(tiles) + 1])
    /\ UNCHANGED <<files, where, home, logged, main, loaded, registry, pollers,
                   tick, found, busy, bounds>>

Published == main \in {"serving", "draining", "waiting"} /\ tiles # None

Serve ==
    /\ main = "tiles"
    /\ Len(tiles) = Len(Sorted(DOMAIN registry))
    /\ main' = "serving"
    /\ UNCHANGED <<files, where, home, logged, loaded, registry, pollers, tick,
                   found, tiles, busy, bounds>>

\* A phone pairs or comes home: it learns the tiles that are new to it.
Learned == [aid \in DOMAIN home \cup DOMAIN tiles |->
               IF aid \in DOMAIN home THEN home[aid] ELSE tiles[aid]]

Learn ==
    /\ Published
    /\ home' = Learned
    /\ UNCHANGED <<files, where, logged, process, bounds>>

-----------------------------------------------------------------------------
(* Discovery.                                                              *)

\* A probe of runPeriodicDiscovery.
ProbeBegin ==
    /\ main \notin {"down", "probing", "wiring"}
    /\ ~Cancelled
    /\ loaded.discovery = "periodic"
    /\ found = None
    /\ found' = <<>>
    /\ UNCHANGED <<files, where, home, logged, main, loaded, registry, pollers,
                   tick, tiles, busy, bounds>>

\* A unit's answer arrives; a pair of device and address is noted once.
Answer(d) ==
    /\ found # None
    /\ <<d, where[d]>> \notin {found[i] : i \in DOMAIN found}
    /\ found' = Append(found, <<d, where[d]>>)
    /\ UNCHANGED <<files, where, home, logged, main, loaded, registry, pollers,
                   tick, tiles, busy, bounds>>

\* Defect: a device that has an address keeps it.
RefreshedNew(r, answers) ==
    [d \in DOMAIN r |->
        LET own == SelectSeq(answers, LAMBDA x : x[1] = d) IN
        IF own = <<>> \/ r[d] # None THEN r[d] ELSE Last(own)[2]]

\* Every configured device that answered gets the address of its last answer;
\* others are only logged.
Refreshed(r, answers) ==
    [d \in DOMAIN r |->
        LET own == SelectSeq(answers, LAMBDA x : x[1] = d) IN
        IF own = <<>> THEN r[d] ELSE Last(own)[2]]

\* The time to listen is over.
ProbeEnds ==
    /\ found # None
    /\ registry' = Refreshed(registry, found)
    /\ found' = None
    /\ main' = IF main = "probing" THEN "wiring" ELSE main
    /\ UNCHANGED <<files, where, home, logged, loaded, pollers, tick, tiles,
                   busy, bounds>>

-----------------------------------------------------------------------------
(* The goroutines of a device.                                             *)

Does(d, step) == tick' = [tick EXCEPT ![d] = step]

TickBegin(d) == tick[d] = "idle" /\ ~Cancelled /\ Does(d, "reading")

\* A poll that failed, or that succeeded before there were accessories.
TickEnds(d) == tick[d] = "reading" /\ Does(d, "idle")

\* The unit was where its poller looks for it: SyncHomekit finds the map and
\* reads it.
TickSyncs(d) ==
    /\ tick[d] = "reading"
    /\ where[d] = pollers[d]
    /\ tiles # None
    /\ Does(d, "syncing")

SyncEnds(d) == tick[d] = "syncing" /\ Does(d, "idle")

Ends(d) == tick[d] = "idle" /\ Cancelled /\ Does(d, "ended")

Goroutines ==
    /\ \E d \in DOMAIN pollers : \/ TickBegin(d) \/ TickEnds(d) \/ TickSyncs(d)
                                 \/ SyncEnds(d)  \/ Ends(d)
    /\ UNCHANGED <<files, where, home, logged, main, loaded, registry, pollers,
                   found, tiles, busy, bounds>>

-----------------------------------------------------------------------------
(* Serving and stopping.                                                   *)

Requests ==
    /\ busy \/ main = "serving"
    /\ busy' = ~busy
    /\ UNCHANGED <<files, where, home, logged, main, loaded, registry, pollers,
                   tick, found, tiles, bounds>>

Goes(from, to) == /\ main = from
                  /\ main' = to
                  /\ UNCHANGED <<files, where, home, logged, loaded, registry,
                                 pollers, tick, found, tiles, busy, bounds>>

\* A signal, or the HTTP server failed.
Stop == Goes("serving", "draining")

\* Defect: Shutdown has no deadline.
DrainUnbounded == ~busy /\ Goes("draining", "waiting")

\* Shutdown returns when nothing is open or after shutdownTimeout, whatever
\* is; the root context is cancelled.
Drain == Goes("draining", "waiting")

\* The goroutines have ended or shutdownTimeout is over; the deferred calls
\* stop the HomeKit server.
Wait == Goes("waiting", "unpublishing")

Exit == /\ main = "unpublishing"
        /\ Gone
        /\ UNCHANGED <<files, where, home, logged, bounds>>

-----------------------------------------------------------------------------
Next == \/ Move \/ Edit \/ Crash
        \/ Start \/ Bootstrap \/ startPollers
        \/ LoadPin \/ GeneratePin \/ PinWritten \/ HomekitFails
        \/ AddTile \/ Serve \/ Learn
        \/ ProbeBegin \/ (\E d \in Devices : Answer(d)) \/ ProbeEnds
        \/ Goroutines \/ Requests
        \/ Stop \/ Drain \/ Wait \/ Exit

\* Timers fire: those of the periodic discovery and of the time a probe
\* listens, the deadlines of the shutdown; the HomeKit library stops when
\* told to.  And the network does not lose every answer of a unit.
Fairness == /\ WF_vars(ProbeBegin) /\ WF_vars(ProbeEnds)
            /\ WF_vars(Drain) /\ WF_vars(Wait) /\ WF_vars(Exit)
            /\ \A d \in Devices : SF_vars(Answer(d))

Spec == Init /\ [][Next]_vars /\ Fairness

-----------------------------------------------------------------------------
\* Across restarts, crashes while the PIN is written and devices added to
\* the configuration, every tile a phone has learned drives the unit it was
\* learned for (homekit.go:83-102), and the log has shown one PIN only
\* (homekit.go:166-189).
HomeKept ==
    /\ Published => \A aid \in DOMAIN home :
                        aid \in DOMAIN tiles /\ tiles[aid] = home[aid]
    /\ \A p, q \in logged : p = q

\* With periodic discovery the addresses that requests are sent to follow the
\* units: when they have settled, so does the registry (main.go:556-593).
Follows(d) == main = "serving" /\ loaded.discovery = "periodic"
                /\ d \in DOMAIN registry => registry[d] = where[d]
RequestsFollow == \A d \in Devices : <>[]Follows(d)

\* A daemon told to stop does, whatever streams are open and whichever
\* goroutine is stuck (main.go:283-303).
ShutdownEnds == main \in {"draining", "waiting", "unpublishing"}
                  ~> main = "down"

\* "Safe to call concurrently from multiple goroutines as long as each call
\* targets a different name" (homekit.go:136-138): no poller reads the map of
\* accessories while it is being filled.
MapSafe == main = "tiles" => \A d \in DOMAIN tick : tick[d] # "syncing"
=============================================================================
