# A TLA+ verification of breezyd

breezyd is a daemon that serves Twinfresh Breezy ventilators: it polls each
unit over UDP, keeps a cached snapshot of its parameters, and offers the units
through an HTTP API, a dashboard, HomeKit and Prometheus. It fires a per-device
schedule and keeps the units' clocks right. This directory holds TLA+ modules
translated from its source, the TLC configurations that check them on small
instances, and TLAPS proofs of what matters most for every value of the
constants.

Paths below are relative to the repository's root (`cmd/breezyd/...`);
`PROJECT.json` gives, for every definition, the lines it stands for.

## 1. Inventory

How the parts talk to each other:

```
 HTTP handlers --+                 +--> State (cache) --> /metrics, GET, dashboard
 HomeKit --------+-- udpMu -- UDP -+         ^
 Scheduler.fire -+   (one per      |         | Set / WriteThrough
 RTCSyncer ------+    poller)    unit        |
 Poller.tick ----+---------------------------+--> OnTick: Energy, PushHub --> SSE
                                              \-> OnPoll: HomeKit sync
```

| Component | Files | State it keeps | Operations |
|---|---|---|---|
| Scheduler (one per device) | `scheduler.go`, `handlers_schedule.go` | enabled, entries, lastApply, retry, firedAt, lastTickMin; the file `schedule_<device>.json` | Load, save, Replace, SetEnabled, tick, fire, Snapshot |
| Poller and cache | `poller.go`, `state.go`, `recording_client.go` | the `Snapshot` of each device, settleDeadline, udpMu | tick, LockUDP, NoticeWrite; State.Get, Set, WriteThrough |
| Device operations | `server.go`, `handlers_device.go`, `handlers_service.go` | none of their own; each holds udpMu while it lasts | dial, doDeviceOp, doDeviceRead, doDeviceOpBackground, recordWrite |
| RTC syncer | `rtc_sync.go` | none | Run (daily timer), syncOnce |
| UDP client | `pkg/breezy/client.go` | one socket for an exchange | exchange, attempt, ReadParams, WriteParams |
| Push hub, SSE | `push_hub.go`, `push_render.go`, `handlers_ui_sse.go` | subscribers, each with a bounded buffer | Subscribe, Unsubscribe, Notify |
| Energy tracker | `energy_tracker.go`, `pkg/breezy/energy.go` | today, month, lifetime, last sample; a JSON file | Load, Tick, save |
| Registry, discovery, start-up | `main.go`, `server.go`, `pkg/breezy/discover.go` | device to IP; the maps of pollers and schedulers | run, startPollers, probe, refresh, shutdown |
| HomeKit bridge | `homekit.go`, `pkg/homekit/*` | characteristics of the accessories; `pin.txt` | remote updates, SyncHomekit, StartHomekit |
| Wire format | `frame.go`, `params.go` | none | build and parse frames and data blocks, encode and decode values |
| Operations on parameters | `ops.go`, `status.go`, `memclient.go` | MemClient's map | validate and encode one write |
| Metrics and views | `metrics.go`, `ui_view.go`, ... | gauges, counters | render the cache |
| Configuration | `internal/config` | none | read and validate a TOML file |
| Command-line client | `cmd/breezy` | none | check and make one request, through the daemon or direct |

What is hard in each, and the properties that make it correct (in italics, the
definitions that state them):

- **Scheduler.** A tick takes the mutex three times (snapshot, retry decision,
  end of `fire`), and seconds of UDP traffic lie between the last two. Edits,
  toggles, failed saves, restarts and changes of the wall clock come in
  between. Correct when an entry fires at most once per calendar day
  (*OncePerDay*), only in its window (*FiresOnlyCrossed*), and is left out in its own
  minute only on a day that a late success reached into or the clock was set back
  (*SilentForAReason*); retries end, keep their deadline and show their alert
  (*RetryEnds*, *DeadlineKept*, *RetryShowsAlert*); file and memory agree
  (*DiskMatches*).
- **Poller, cache, device operations.** The poller chooses what to read before
  it takes udpMu, carries the previous snapshot through a failed tick, and
  replaces the snapshot whole, while writers merge into it. Correct when the
  cache never goes back in time (*NeverGoesBack*), `LastPoll` never vouches for
  an older value (*LastPollHonest*), nobody keeps or steals the lock (*LockHeld*,
  *OpsFinish*), the settle window covers the ramp of the fans (*SettleCovers*),
  and the cache converges on a device that is left alone (*Converges*).
- **UDP client.** Three attempts over one socket to a unit whose replies carry
  no sequence number. Correct when a write reported on a socket without an
  earlier failure was made (*SureMeansApplied*), a reading is no older than the
  dial (*ReadsAreRecent*), an acknowledged write is not undone by a copy of an
  earlier one (*LastWriteStands*), and every call returns (*CallsReturn*).
- **Push hub and pages.** Bounded buffers, oldest event dropped, rendering
  outside the mutex, concurrent Notify, pages that reconnect by themselves.
  Correct when a page has one card for a device (*OneCardEach*), shows the newest
  it was told of (*DrainedShowsNewest*) and comes to show every snapshot
  (*CatchesUp*).
- **Energy tracker.** Irregular samples, roll-over at midnight and at the end
  of the month, a restart days later, a wall clock set back, failed saves.
  Correct when no interval is counted twice (*NothingTwice*) or on another day
  (*TodayWithinDay*), and none is lost without cause (*NothingMissing*).
- **HomeKit.** Callbacks set characteristics before the operation they stand for,
  Sync sets them again one by one, and neither knows of the other. Correct when
  exclusive switches are never both on (*ExclusiveUnlessOverlapped*), a lone
  write is shown as it ended (*AloneFollows*), and the tile comes to show the
  device (*Settles*).
- **Operations and front ends.** The same request goes through the command line
  (direct or through the daemon), `/v1` and the dashboard, each with checks of
  its own. Correct when they accept the same (*FrontEndsAgree*), "ok" means that
  the device does what was asked (*OkMeansMeant*), and a refusal changes nothing
  that matters (*RefusalsHarmless*).
- **Wire and views.** Page switches, reserved bytes and sizes in a datagram, and
  four decoders of the same cached bytes. Correct when both ends of the wire
  read the same values (*WireFaithful*) and all views show one device
  (*ViewsAgree*).
- **The process.** Start, discovery, HomeKit's files, and the shutdown. Correct
  when tiles and PIN survive restarts (*HomeKept*), requests go to the address
  a unit has (*RequestsFollow*), and a daemon told to stop does (*ShutdownEnds*).
- The remaining parts are stateless or pure input and output.

`PROJECT.json` lists the hazards behind these, each at its line with the
properties that would catch it.

## 2. Plan

The modules, in the order of importance in which they were written. All of them
are checked; those with a star have proofs.

1. **Scheduler**\*, with its abstract specification **DailyFire** and, in
   **Silence**\*, the history that tells when an entry may stay silent.
2. **DeviceCache**\* (poller, cache, and every operation on one device), with its
   abstract specification **Replica**.
3. **UdpClient**\*: exchanges over a network that loses, delays and spoils
   datagrams.
4. **PushHub**\*: from the poller's OnTick to the page of a browser.
5. **EnergyTracker**\*.
6. **Homekit**\*: the characteristics of one accessory.
7. **Operations** and **Commands**\*: every request that writes, through every front end.
8. **Codec**\*, **Views**\*, **Readings**\*: from the unit's bytes to what is shown.
9. **Daemon**\*: the life of the process.

The system is cut where its parts meet in one value or one call: DeviceCache
takes an exchange as a step whose outcomes are those of UdpClient; PushHub, Homekit
and EnergyTracker take a tick as a step that brings a new snapshot; Commands
takes a packet as a step that reaches the device at most once; Daemon takes a poll
as a step of its goroutine. Each module names in its first comment what it
leaves to the others. Composition by EXTENDS is used where two modules share
their data: Commands on Operations, Readings on Views on Codec.

What the plan has left:

- the daily timer of the RTC syncer, over the clock of Scheduler;
- an abstract specification of PushHub: a page that shows for each device a snapshot
  which goes back only when two renderings overtake each other, implemented by
  PushHub by refinement.

Modules meant for proofs declare no RECURSIVE operator (recursive functions and
folds are used instead), and their constants carry named assumptions.

## 3. Modules

| Module | What it is |
|---|---|
| `DailyFire` | what a schedule promises: an entry succeeds at most once a day |
| `Scheduler` | `scheduler.go` in full, with clock, crashes and failed saves |
| `Silence` | Scheduler with the history of late successes and of clocks set back |
| `SchedulerProofs` | ten theorems about Scheduler and Silence |
| `Replica` | what the cache promises: values a device had, never going back |
| `DeviceCache` | one device, its poller, its cache, and the operations on it |
| `DeviceCacheProofs` | five theorems about DeviceCache |
| `UdpClient` | `pkg/breezy/client.go` over an unreliable network |
| `UdpClientProofs` | four theorems about UdpClient |
| `PushHub` | the hub, the SSE handler and the page |
| `PushProofs` | three theorems about PushHub |
| `EnergyTracker` | the counters, their file and the clocks |
| `EnergyProofs` | five theorems about EnergyTracker |
| `Homekit` | callbacks and Sync on one accessory |
| `HomekitProofs` | three theorems about Homekit |
| `Operations` | `ops.go` and each front end's plan for a request |
| `Commands` | requests under way, with lock, faults and answers |
| `CommandsProofs` | four theorems about Commands and Operations |
| `Codec` | frames, DATA blocks and values, byte by byte |
| `Views` | status, card, gauges and tile as decodings of the same bytes |
| `Readings` | polls and writes through Codec, shown through Views |
| `Daemon` | the process from start to exit, discovery, tiles and PIN |
| `DaemonProofs` | one theorem about Daemon, three about Readings |
| `MC...` | the small instance of each |

### Scheduler

| Code | Module |
|---|---|
| fields under `s.mu` | `enabled`, `entries`, `lastApply`, `retry`, `firedAt` |
| `lastTickMin`, `haveLastTick` | `lastTick`, `None` before the first tick |
| `schedule_<device>.json` | `disk` |
| locals of `tick`; arguments of `fire` | `tick`; `job` |
| `Load`, a new process | `Loaded`, `Restart` |
| `save`, its failure | `Save(n)`, inside the action of its caller |
| `Replace`, `SetEnabled`, `validate` | `Replace`, `SetEnabled`, `Valid` |
| `tick`: copy under the mutex | `TickBegin` |
| `tick`: disabled, first tick, same minute | `TickIdle` |
| `tick`: retry path | `Superseded`, `Expired`, `Attempt`, `TickRetry` |
| `tick`: transition detection | `InWindow`, `Dist`, `Fresh`, `TickWindow` |
| `fire`: success, ErrAuth, any other error | `FireSucceeds`, `FireRefused`, `FireFails` |

- A tick is three steps, since the mutex is released between them, and any
  handler, a crash or the clock may come between two. The retry path reads
  `retry` in a critical section of its own; it is merged with the decision that
  follows, which loses no behaviour that matters to the others because an edit
  in between acts as an edit just after, and the fire's own end looks at
  `retry` again.
- Time is in minutes. `clock.mono` is Go's monotonic reading, by which retries
  are timed, and `clock.day`, `clock.minute` are the local wall clock, which
  `ClockShift` moves (DST, time correction), within its day: a correction over
  midnight is outside the model. The 30 s cadence of a retry is less than
  a tick, so it is one minute here.
- The unit is abstract: the end of `fire` is one of three outcomes. What the
  exchanges write is DeviceCache's subject.
- The daemon starts on no file or on one a previous run saved; files edited by
  hand are outside the model.
- `tickDay` and `unsaved` are history. `punctual` is a constant of a behaviour,
  chosen at the start: in a punctual one every minute has its tick. It is what
  "as long as ticks keep up" means in a property, and non-punctual behaviours
  (a fire that waits, a suspended host) are checked along with it.
- `Silence` only watches: its steps are Scheduler's, and `late` and `setBack` are
  written, never read. They are what the code does not keep and `firedAt` alone cannot
  tell: that a success recorded for a day was for the day before, and that the clock
  was set back. `FairSilenceSpec` is `FairSpec` with them, and what
  `MCScheduler.cfg` checks.

### DeviceCache

| Code | Module |
|---|---|
| `State`'s snapshot of the device | `snap` (values, lastPoll, err) |
| `Poller.settleDeadline` | `settle`, the time that is left |
| `Poller.udpMu`, `LockUDP`, `lockDevice` | `udpMu`, `Lock`, `Unlock`, `Free` |
| `idsForThisTick` | `ThisTick`, in `TickBegin` |
| `tick`: lock, dial, batches, end | `TickLock`, `TickDial`, `TickDialFails`, `ReadBatch`, `TickEnd` |
| `doDeviceOp`, `doDeviceOpBackground`, `doDeviceRead`, `fire`, `syncOnce` | `OpBegin` ... `OpEnd` |
| `recordWrite`: `WriteThrough`, then `NoticeWrite` | `WriteThrough`, `Notice` |
| a write whose replies were lost | `Unacked` |

- The ids of a tick are positions in the list of polled parameters: those it keeps, from
  which each packet takes the first `BatchSize` and leaves the rest.
- A parameter's value is the number of changes it has had, so that older and
  newer can be told apart; nothing depends on the bytes.
- `snap.lastPoll` is what the time stamp vouches for: the values the device
  had when that poll took udpMu. The code stamps the end of the last batch
  (`poller.go:241`), which is later by the length of the exchanges; `LastPollHonest`
  is about the beginning.
- A batch that succeeds brings every parameter it asked for; a reply with fewer of
  them is `Readings`' subject (`PollPartly`).
- An acknowledged write was applied. A late reply may say so of one that was not,
  which is UdpClient's finding (`MCUdpClientAck`).
- `Ramp` is a constant of its own. SPECIFICATION-daemon.md:239 gives the unit 10
  to 15 s and `fanSettleDuration` is 12 s; `SettleCovers` is about units whose
  ramp the window is long enough for, and the runs have the two equal. On a
  slower unit the last seconds of the ramp are recorded, a divergence of its own
  next to the one that `MCDeviceCacheRamp` shows.
- While the window is open the poller's `Set` drops the fan readings from the
  snapshot, as the code does (the snapshot is replaced by what was read).
- Left out: the OnTick, OnPoll and OnError hooks (PushHub, Homekit and
  EnergyTracker start from them), the in-process backend for tests (a
  `MemClient` needs no lock), and the values' validation (Operations).


### UdpClient

| Code | Module |
|---|---|
| `Client`: its socket, `closed`, `mu` | `port` and `inbox`, `open`, `mu` |
| locals of `exchange`: attempt, deadline, result | `call` |
| `NewClient`, `Close` | `Dial`, `Close` |
| `ReadParams`, `WriteParams` to the mutex | `Begin`, `Lock` |
| `attempt`: send; good reply; bad or refused reply; timeout | `Send`, `SendFails`; `Accept`; `Reject`; `TimesOut` |
| pause between attempts; end of the context | `Backoff`; `ContextEnds` |
| the unit and the network (external) | `HandleRead`, `HandleWrite`, `Refuse`, `Spoil`, `Arrive`, `Drift`; `dev`, `net` |

- The value an exchange writes is the exchange's number, so that every value
  tells who wrote it. A new dial has a port of its own, and the system drops what
  comes for an old one.
- A datagram that is lost is one that stays in `net` for ever. Nothing orders
  the datagrams, so all delays and reorderings are behaviours. A spoilt
  request is ignored by the unit and is thereby like a lost one.
- `clean` marks an exchange begun on a socket whose earlier attempts all had
  their good reply. `applied`, `acked`, `sure`, `last`, `held` and `stray` are
  history.
- Left out: the bytes (Codec) and the device id and password checks, which a
  spoilt reply fails.

### PushHub

| Code | Module |
|---|---|
| `PushHub.subs`, `Subscriber.Events` | `sub`, `queue` |
| `Poller.tick` to OnTick; a dashboard write | `Tick`, `TickDialFails`; `UiWrite`; other writers: `OtherWrite` |
| `Notify`: rendering, then the queues under the mutex | `Render`, `Enqueue` with `Put`; where each caller is, `notify` |
| `uiEvents`: subscribe, collect, initial cards, stream | `Connect`, `CollectViews`, `SendCard`, `Stream`, `SendEvent`; `conn` |
| the page (external: the browser and the template's morphing) | `page`, `seen`, `Patched`, `Disconnect` |

- An event is the number of the snapshot its HTML shows. A page holds for each
  device how many cards, full or placeholder, and which snapshot.
- `Put` is one step. In the code the handler receives without the hub's mutex, so it
  may take an event between the drop and the second send (`push_hub.go:108-121`). Then
  the second oldest event is dropped where `Put` would drop the oldest or, after the
  handler, none. It is lost to the event that is being queued all the same.
- A dial that fails changes the cached snapshot and notifies nobody
  (`TickDialFails`), as in the code.
- `told` and `excused` are history: the newest snapshot queued for a page, and the
  devices whose newest event was dropped or overtaken.

### EnergyTracker

| Code | Module |
|---|---|
| the fields under the tracker's mutex | `mem`, a record `Tracker` |
| the state file, missing or unreadable | `disk`: a record `File`, `None`, `Corrupt` |
| `Load` | `Loaded`, in `Restart` |
| `Tick`: rollovers; first sample; no energy; energy | `NewDay`, `NewMonth`; `Prime`; `TickIdle`; `TickCounts` |
| `dtCap`; calibration curve; power | `Interval`; `Interp`; `Watts`, `FanWatts`, `Energy` |
| each `save`, and that it may fail | `Saves(files)`, with the files written in order |

- `now` is Go's monotonic clock, by which intervals are taken; `day` is the local
  date, which `Midnight` and `SetBack` move. A tick is one step: it holds the
  tracker's mutex throughout.
- Power is in thousandths of the curve's units, in which interpolation at whole
  percentages is exact; the code's floats round.
- `begun`, `byDay`, `byMonth`, `total` and `lost` are history: what was counted
  when, and whether a crash, a failed save or the clock excuses a loss.

### Homekit

| Code | Module |
|---|---|
| the accessory's characteristics | `chars` |
| a remote write and the library's order of set and callback | `RemoteWrite` (the library is external) |
| callbacks: switches set first, then the operation | `Sets`, `SetValue`, `Operate`, `OperateFails`; `cb` |
| OnPoll, `Sync` | `PollReads`, `SyncSets` in `SyncOrder`; `poll` |

- Each `SetValue` of the code is a step of its own, for the characteristics have
  no lock in common; an operation on the device is one step, being under udpMu.
- The device is a record of what the characteristics show. `overlap` and `wrong`
  are history: something overlapped, or failed, since a Sync that ran alone.

### Operations and Commands

`Operations` holds `ops.go` (each operation as the packet it writes, or none for
ErrInvalidArg), then for every front end what it refuses before the device is
asked (`Refusal`), what it then does (`Plan`, a sequence of operations) and which
requests it offers (`Offers`). The front ends are `cli` (the command line
through the daemon), `direct` (the command line alone), `v1` and `ui`.

| Code | Module |
|---|---|
| a handler or a verb, to its checks | `Ask` |
| `lockDevice`, `dial` | `Lock`, `DialFails` |
| each operation: its own check; send; result | `Refuse`; `Send`, `Lands`; `ReadEnds`, `WriteEnds`, `Fails` |
| the HTTP client is gone, its context ends | `HangUp`, `Abandon` |
| `recordWrite` and the answer | inside `WriteEnds`, `Answer` |

- A packet reaches the unit at most once, between its sending and the end of its
  exchange; what copies and late replies do is UdpClient's subject.
- A word is as the caller spelt it, and `Lower` (a constant, `strings.ToLower`) is applied
  where the code applies it. So the dashboard, which compares a sensor's name as
  it is spelt (`handlers_ui_write.go:656`), refuses "Humidity".
- The raw value of `set` and of `/v1`'s parameters is `hex`: its bytes taken as one value, or
  `<<>>` when there are none. `/v1` refuses an empty one; the command line takes it, and
  alone it sends a packet that writes nothing (`RawPacket`). Names and notations of a
  parameter's id are not told apart.
- `Apart` names these two: the front ends disagree there, and `FrontEndsAgree` is about all
  other requests. `FrontEndsAlike` leaves them in and is violated.
- A body that is no JSON is a request without the field. An error is its class (`bad_request`, `auth_failed`,
  ...), which is the HTTP status or the exit code.
- `wrote` and `stirred` are history.

### Codec, Views, Readings

`Codec` translates `frame.go`, the types of `params.go` and the unit's side as the
fake device has it, byte by byte; `Views` the four decoders of the cached bytes
(`status.go`, `ui_view.go`, `metrics.go`, `pkg/homekit/sync.go`) as tables of
fields. `Readings` lets them act on each other: `Poll`, `PollSettling` and
`PollPartly` send requests and read replies through Codec and Sync the tile,
`Write` sends a packet and writes it through, `Scrape` sets the gauges, `Change` is
the unit's own doing. Gauges and characteristics keep what a later snapshot does not
name, as in the code. Units, names of modes and number formats are left out.

- `Sync` sets a characteristic by `OnScale`: the HAP library takes a value beyond
  the ends of a characteristic's scale for the nearer end, as `accessory.go:230-231` says. A
  status can lie beyond in temperatures (-40 to 85 degrees, set there), in humidity (one
  byte, 0 to 100), in the VOC index (two bytes, 0 to 1000) and in the fan slider (0 to 100). The
  library is not part of the repository: the last three are HomeKit's
  ranges, as the library has them.
- `ViewsAgree` excuses exactly that: `Pegged` is a characteristic at an end of its scale while
  the status is beyond this end. `TilesVerbatim` does not, and is violated.
- The specification is `ReadingsInit`, `ReadingsNext`, `ReadingsSpec`: the names
  without a prefix are left to Daemon, beside which it stands in `DaemonProofs`.
- `WireFaithful` is a conjunction of what is sent to and fro: `ReadsArrive` (a request
  and its reply, page switches and sizes included), `WritesArrive`, `TypesInvert`
  (values and bytes) and `ProbeFindsUnit` (discovery, and a datagram with a spoilt byte).
- `WireFields` is what the builders do not panic on and the wire can carry: ids whose low
  byte is none of the reserved ones (`frame.go` panics on them), values of at most 255
  bytes, for a size is one byte. Of `device_id_search` a unit holds its own id or
  nothing, and no packet writes it, because `WriteParams` refuses what is read-only
  (`client.go:209`); without that a unit could be told to answer a probe as another.
- The parsers recurse over the block with the current page as a second argument, as a
  recursive function to functions of the page.

### Daemon

| Code | Module |
|---|---|
| `config.Load`, `WriteDefault`, discovery at start | `Start`, `Bootstrap` |
| pollers and their goroutines | `startPollers`; `TickBegin` ... `Ends` in `Goroutines`; `pollers`, `tick` |
| `LoadOrCreatePIN`, `StartHomekit` | `LoadPin`, `GeneratePin`, `PinWritten`, `HomekitFails`; `AddTile`, one device at a time |
| HTTP server; streams and requests | `Serve`; `Requests` |
| `probe`, `refresh` | `ProbeBegin`, `Answer`, `ProbeEnds` |
| the shutdown's three stages | `Stop`, `Drain`, `Wait`, `Exit` |
| outside: operator, units that move, a phone, a crash | `Edit`, `Move`, `Learn`, `Crash` |

- `PinWritten` is apart from `GeneratePin` because the file is written in place: a
  crash between them leaves it `Torn`.
- One poller stands for the three goroutines of a device. The socket options,
  the interfaces and the contents of the configuration are left out but for what
  decides whether the daemon starts.

## 4. Runs

| Run | Checks | Result |
|---|---|---|
| `scheduler` | types, `RetryShowsAlert`, `DiskMatches`, `OncePerDay`, `DeadlineKept`, `FiresOnlyCrossed`, `SilentForAReason`, `RetryEnds` | hold |
| `device_cache` | types, `LastPollHonest`, `LockHeld`, `SettleCovers`, `NeverGoesBack`, `OpsFinish`, `Converges` | hold |
| `udp_client` | types, `SureMeansApplied`, `ReadsAreRecent`, `LastWriteStands`, `CallsReturn` | hold |
| `push` | types, `OneCardEach`, `DrainedShowsNewest`, `CatchesUp` | hold |
| `energy` | types, `NothingTwice`, `NothingMissing`, `TodayWithinDay` | hold |
| `homekit` | `ExclusiveUnlessOverlapped`, `AloneFollows`, `Settles` | hold |
| `commands` | types, `RefusalsHarmless`, `FrontEndsAgree`, `OkMeansMeant` | hold |
| `readings` | `WireFaithful`, `ViewsAgree` | hold |
| `daemon` | `HomeKept`, `RequestsFollow`, `ShutdownEnds` | hold |
| `edit_during_fire` | `RetryIsCurrent` | violated |
| `no_poller` | `WritesInOrder` | violated |
| `homekit_start` | `MapSafe` | violated |

What they show:

- **scheduler.** `OncePerDay` is refinement of DailyFire: whatever the clock,
  retries, edits and restarts do, an entry succeeds at most once per calendar
  day, except for what an edit or a lost save makes the daemon forget. That covers the
  hour a fall-back repeats, where SPECIFICATION-daemon.md:534-535 has an entry fire
  twice; `RepeatedHourTwice` below states what it says, and is violated.
  `FiresOnlyCrossed`: between ticks in wall-clock order only what the clock
  crossed fires, with no catch-up. `SilentForAReason`: a tick in an entry's minute
  fires it, unless it fired that day already, and then in a success that was late,
  for the day before, or because the clock was set back that day. No retry and no other
  entry of a wide window takes its turn, and no success of its own silences the next day's
  otherwise. What the exception costs is `MCSchedulerLate` below.
- **device_cache.** A poller and two operations in every interleaving, with
  failed dials, failed batches, writes that were applied but not acknowledged,
  and changes at the unit.
- **udp_client.** What a reply without a sequence number still guarantees: an
  exchange on a socket without an earlier failure is answered by its own reply, a
  reading is no older than the dial, and while nothing has failed the last
  reported write is what the unit has. Every call returns.
- **push.** Whatever is dropped from a full buffer, rendered late or cut off, a
  page never has two cards for a device, has nothing to catch up with once it has
  drained its queue (but for those two causes), and the next ticks bring it up to
  date.
- **energy.** No interval is counted twice in any span, none is missing without a
  crash, a failed save or a clock set back, and nothing reaches over a midnight.
- **homekit.** The exclusive switches are consistent at rest unless two callbacks, or
  a callback and a Sync, overlapped; a lone write ends in what it asked for; and
  after the last disturbance the polls bring the tile back to the device.
- **commands.** Each request of each front end, two callers at a time, with lost
  packets, lost replies and clients that hang up. The front ends take the same
  requests but for the two that `Apart` names.
- **readings.** Both ends of the wire read the same values, a datagram with any
  one byte spoilt is not believed, and every view shows the same device, up to the ends
  of HomeKit's scales.
- **daemon.** Tiles keep their unit and the PIN stays one over crashes and edits
  of the configuration; the registry follows units that move; and a shutdown ends
  though streams are open and goroutines stuck.
- **edit_during_fire.** An edit that lands during a fire is followed by a retry
  of the old entry, for up to ten minutes.
- **no_poller.** A device found only after start-up has no mutex; two
  concurrent writes can be cached in the wrong order.
- **homekit_start.** A first poll that succeeds early reads the accessories' map
  while StartHomekit still fills it.

Thirteen more configurations each end in a counterexample to what a line of the
repository says of the program. They are kept for those findings and can be run as
the others are:

| Configuration | Violated | Shows |
|---|---|---|
| `MCSchedulerFallBack` | `FallBackSkips` | a clock that goes back is taken for midnight, and an entry of later today fires early |
| `MCSchedulerLate` | `FiresEveryDay` | a 23:59 entry whose retry succeeds at 00:03 counts as fired for the new day |
| `MCSchedulerRepeated` | `RepeatedHourTwice` | in the hour a fall-back repeats an entry that has fired does not fire again |
| `MCDeviceCacheRamp` | `NoRampRecorded` | ids are chosen before the wait for udpMu, so a settle window opened meanwhile is not seen |
| `MCDeviceCachePartial` | `KnownKept` | one failed batch of two removes its parameters from the cache |
| `MCUdpClientAck` | `AckMeansApplied` | a late reply to an earlier request is taken for a write's |
| `MCPushHubPlaceholder` | `PlaceholderReplaced` | a page with the placeholder keeps it |
| `MCPushHubCards` | `EveryCardShows` | a page cut off among its first cards never gets the rest |
| `MCHomekitAtRest` | `ExclusiveAtRest` | Sync interleaved with a callback leaves both switches on until the next poll |
| `MCCommandsRefused` | `RefusedWritesNothing` | a refused dashboard timer has already powered the unit on |
| `MCCommandsAlike` | `FrontEndsAlike` | the dashboard refuses "Humidity", which the others take |
| `MCReadingsScale` | `TilesVerbatim` | a tile shows the end of its scale, not the value beyond it |
| `MCReadingsStale` | `StaleIsSignalled` | a gauge keeps a value the unit no longer answers, with `breezy_up` 1 |

`PROJECT.json` quotes, for each violation, the line of the repository that says
otherwise, and the further divergences found by reading.

### Bounds

- Scheduler: a day of 4 minutes, At-times 1 and 3 (one in mid-day, one whose
  retries cross midnight), one action, up to two entries, cadence 1 and deadline
  2 minutes, behaviours of 5 minutes (7 for `MCSchedulerLate`), shifts of up to 2
  back and 1 forward, 2 disturbances (edits, restarts, shifts, failed saves).
  Five minutes from any starting minute cross midnight and see an At-time
  twice; two disturbances put an edit after a failed save or a restart after a
  shift. `ClockShift` stops a minute before the end, so that ticks can react.
- DeviceCache: three parameters (one that sets the fans, one they disturb, one
  neither), packets of two ids, so that a tick has two packets and a settling
  tick one; a settle window of 2; two workers, with one operation of a
  double write and one of two writes; 3 writes, failures or changes at the
  unit. Three is the least for a failed tick between two writes.
- UdpClient: one parameter, two goroutines, one retry, two exchanges, two dials,
  one fault (losses and delays cost nothing). A copy of the first exchange can
  then meet the second one on the same socket or on the next. The number of
  attempts only matters as one or more; the theorems hold for any.
- PushHub: two devices, one page, one dashboard write, a buffer of 2, two changes
  of each device, and one of a second write, a failed dial or a tick the page is too
  slow for. A buffer of two and two devices are the least in which one device's
  event drops another's. Pages do not interact.
- EnergyTracker: dates 0 to 2 with months of two days, so that a rollover of the
  day and one of the month come apart; four steps of time and a cap of two; two
  of failed saves, restarts and clocks set back.
- Homekit: two controllers, two writes in all, one failure or outside change;
  writes to every switch and to the speed.
- Commands: two interchangeable callers, two requests, one fault; each request
  with values at its bounds and just beyond them, words in mixed case and in none, and a
  raw value without bytes. Requests meet at the mutex or
  (direct) without it in pairs.
- Readings: the 43 parameters of `defaultReadIDs` in their batches of 30; two
  units, of which one answers a probe with its id in the data too; one change, spoilt datagram or write after the polls; values at the
  edges of each type (0, FC to FF, the sensors' "no reading", wrong sizes), and
  beyond the ends of HomeKit's scales.
- Daemon: two devices, three addresses, five configurations, two PINs, two starts,
  one unit that moves. Two starts are the least to lose or keep anything.

All bounds are CONSTANTS of their module and stand in the guards.

### Fairness

- Scheduler: weak fairness of `Goroutine` (the ticker ticks, and a fire ends since
  `fireTimeout` bounds it and the unit's lock is always released), strong
  fairness of `Minute` (time passes whatever else runs; `Minute` is not always
  enabled in punctual behaviours). None of handlers, shifts or restarts.
- DeviceCache: weak fairness of the poller's and of an operation's steps (every
  exchange has a deadline) and of `Pass`; strong fairness of taking udpMu,
  because `sync.Mutex` hands itself over to a waiter it has kept for a
  millisecond. None for beginning an operation, failures or changes at the
  unit. Failures are finite because `Budget` is: `OpsFinish` and `Converges`
  speak of a unit that answers in the end.
- UdpClient: weak fairness of a call's steps (each wait has a timer) and strong
  fairness of `Lock`, for the same reason. None of the unit or of the network:
  `CallsReturn` holds though every datagram is lost.
- PushHub: strong fairness of each poller's `Tick`, which succeeds again and
  again; weak of rendering, queueing and the handler's writes to a connected page.
  None of disconnecting, connecting or writing.
- Homekit: weak fairness of polls and of Sync, strong of a callback's steps. Writes,
  failures and changes are finite by their bounds: `Settles` speaks of the time after.
- Daemon: weak fairness of the probes' timers and of the shutdown's deadlines,
  strong of a unit's `Answer` to a probe (broadcast is repeated, and not all of
  it is lost). None of requests ending or goroutines going on, which is why
  `ShutdownEnds` shows something.
- EnergyTracker, Commands and Readings have safety properties only and no fairness.

Deadlock is checked where the system goes on for ever. It is not where it may
stop within the bounds: the client without exchanges left (UdpClient), callers
without requests (Commands), a daemon that nobody starts again (Daemon), and
the device of `no_poller`, which has no poller to keep the system going.

## 5. Proofs

Each invariant was found with TLC and is inductive only with what the points below
add. The theorems hold for every value of the constants that the assumptions allow.

### Scheduler

`SchedulerProofs` proves, for every day length, set of entries, cadence, deadline
and size of shift, under `SchedulerAssumption` and `NoneAssumption` (nil is none of
the values it stands in for):

| Theorem | States |
|---|---|
| `TypeCorrect` | `Spec => []TypeOK` |
| `NoFireRepeats` | `Spec => []NotFiredYet` |
| `FiresOncePerDay` | `Spec => OncePerDay`: Scheduler implements DailyFire |
| `RetriesAreShown` | `Spec => []RetryShowsAlert` |
| `RestartLosesNothing` | `Spec => []DiskMatches` |
| `NeverEnabledEmpty` | `Spec => []ForcedOff` |
| `DeadlineNeverMoves` | `Spec => DeadlineKept` |
| `OnlyCrossedFires` | `Spec => FiresOnlyCrossed` |
| `DueEntryFires` | `Spec => DueFires` |
| `SilenceHasAReason` | `SilenceSpec => SilentForAReason` |

- Single firing is the main argument. The retry path of `tick` never consults
  `firedAt`, so "the window skips what has fired" is not enough. What is
  inductive is `NotFiredYet`: no record is of a day to come; a tick's copy of
  `firedAt` is good while it runs, as an edit can only clear what it copied;
  what a running fire will record is newer than what is recorded; and so is
  what a retry will record, since while a retry is in flight nothing records a
  success for its minute without clearing it. That confirms a claim of
  `docs/superpowers/specs/2026-05-10-scheduler-dst-design.md:84`. The file has to be
  part of it: a restart brings an older `firedAt` back, never a newer one.
- `FiresOncePerDay` maps the job under way to DailyFire's `firing` and the file to
  its `saved`; each action is shown to be a step of DailyFire or a stutter, with
  `NotFiredYet` giving the guard of Begin.
- `NeverEnabledEmpty` needs the file in its invariant too, because `Load` does not
  enforce the rule.
- `OnlyCrossedFires` and `DueEntryFires` are about a tick that decides. Since a tick and
  a fire are one goroutine (`OneAtATime`, a part of `NotFiredYet`), only `TickRetry` and
  `TickWindow` can leave its minute in `lastTick` or start a job. The first then is
  arithmetic on the window: what lies in it on the circle of minutes lies between the
  two ticks on the calendar, if the clock has not gone back. The second is that the
  tick's own minute is the farthest from the last tick, so `latest` picks nothing else,
  and that a retry of another At-time is superseded by it. Neither needs entries with
  different At-times.
- `SilenceHasAReason` adds to `DueEntryFires` (a tick in an entry's minute fires it unless
  `firedAt` has that day) when that can be. It needs that records never run ahead of the
  clock: `RecordsBehind` says that a success that was not late is no later than the
  clock, the last tick and a running tick, unless the clock was set back on the day
  it is of, for the records in memory and for those a restart would load.
  `TicksInOrder` says the same of the ticks among themselves, and of the copy of
  `firedAt` a tick decides from, which may have been taken before an edit cleared the
  records. A tick in the entry's minute that finds the day recorded would then be a
  second one in a minute the last tick has already passed, and `tick` ignores those.

### DeviceCache

`DeviceCacheProofs` proves, for every set of parameters, batch size, settle window,
ramp, set of operations and number of goroutines, under
`DeviceCacheAssumption`:

| Theorem | States |
|---|---|
| `CacheTypeCorrect` | `Spec => []TypeOK` |
| `OneAtTheDevice` | `Spec => []LockHeld` |
| `LastPollVouches` | with a poller, `Spec => []LastPollHonest` |
| `CacheIsAReplica` | with a poller, `Spec => NeverGoesBack`: DeviceCache implements Replica |
| `WindowCovers` | `Spec => []SettleCovers` |

- The argument for the cache is one invariant, `CacheInv`: whoever writes the
  cache next (a tick with its readings, a tick with the previous snapshot, an
  operation with an acknowledged write) holds values between what is shown and
  what the device has, and no older than what `LastPoll` vouches for. It is
  inductive because of the lock: while one of them holds such values, `LockHeld`
  says that no other can write. This is the place where a device without a
  poller falls out (run `no_poller`), so the two theorems assume `HasPoller`.
- `WindowCovers` needs no lock: a fan write is witnessed by its operation until
  NoticeWrite opens a window at least as long as the ramp.
- `Shape` is `TypeOK` without the countdowns, plus that a write being recorded is still
  in its operation's list; the other proofs rest on it. `CacheTypeCorrect` says of the
  window that writes prolong it and never add to it.

### UdpClient

`UdpClientProofs` proves, for every set of parameters and requests, and any number of
goroutines, retries, exchanges, dials and faults, under `UdpClientAssumption`:

| Theorem | States |
|---|---|
| `ClientTypeCorrect` | `Spec => []TypeOK` |
| `ReadsRecent` | `Spec => []ReadsAreRecent` |
| `SureWritesMade` | `Spec => []SureMeansApplied` |
| `LastWriteKept` | `Spec => []LastWriteStands` |

- Four invariants rest on each other. `TInv` adds to the types that a call in its
  pause has an attempt left.
- `RInv`: all values on their way to the present socket, received by it,
  returned from it or held by the unit are values the unit had since the dial. It
  is inductive because a dial takes a port that is new, so that what is under way
  for an older one does not count.
- `SInv` adds three facts. `Exclusive`: only the holder of `Client.mu` is in an
  exchange. `Attributed`: what is under way for a clean exchange's socket is of that
  exchange, and a reply among it means that its write was made. `Alone`: on
  a socket on which every attempt so far had its good reply, one datagram is under way
  while a reply is awaited and none otherwise, so that the next exchange starts
  with nothing left over. Without `Alone` a late reply could wait in the socket, which
  is what `MCUdpClientAck` shows once an attempt has failed.
- `LInv` adds to `SInv` what the unit holds while no attempt at all has failed: nothing
  is left for an older socket, and its value is the last write that was reported or
  the one under way, and the latter once it has answered. `LastWriteStands`
  alone says nothing of a write that has been made and not yet answered.

### PushHub

`PushProofs` proves, for every set of devices, pages and handlers, and every
size of the buffer, under `PushHubAssumption`:

| Theorem | States |
|---|---|
| `PushTypes` | `Spec => []TypeOK`, with the bound on a subscriber's queue |
| `CardsOnce` | `Spec => []OneCardEach` |
| `DrainedIsNewest` | `Spec => []DrainedShowsNewest` |

- `CInv` gives `OneCardEach`: a page that has had no event has no card, and while a
  handler that appends fills a page, the devices still to come are distinct and have no
  card. Distinctness is a fact of the registry: as many views as there are devices,
  and every device among them, so none twice.
- `NInv` gives `DrainedShowsNewest`: of a device that is not excused, the last event
  in the queue is of what the page was told or newer; and where the queue has none of
  it, the page was told nothing or is past its fill and shows it. The lemmas on
  queues say what `Put` and `Tail` do to the last event of a device, and `PutOther`
  that drop-oldest takes the only event of another device exactly when `Lost` says so.

### EnergyTracker

`EnergyProofs` proves, for every set of readings, cap, length of month, number of
days, moments and faults, under `EnergyAssumption` (a reading's fans draw no more
than `FanMax`):

| Theorem | States |
|---|---|
| `EnergyTypeCorrect` | `Spec => []TypeOK` |
| `EnergyOnlyOnce` | `Spec => []NothingTwice` |
| `TodayIsToday` | `Spec => []TodayWithinDay` |
| `EnergyComplete` | `Spec => []NothingMissing` |

- A restart replaces the tracker by the file and a tick replaces the file by the
  tracker, so what the counters promise (`Good`) is asked of both. A file keeps its
  promise while time passes and other days begin, which is why a tracker loaded from
  it days later is good again.
- `TodayWithinDay` is not inductive: a tick adds an interval that reaches back to the
  last tick. `IInv` says that today's consumption had been drawn by the last tick.
  Priming on a new date is what keeps it true.
- `NothingMissing` rests on `MInv`: while the life counter is still the total, nothing has
  been missed in any other span, since an interval that adds nothing to the total adds
  nothing to a day or a month; and the spans still to come are empty, so a file that
  was complete when it was written is so for the day a restart finds.

### Homekit

`HomekitProofs` proves, for every set of controllers, remote writes, devices and
outside changes, and any number of writes, failures and changes, under
`HomekitAssumption` (the filter indication cannot be written, as HAP has it; a switch is
written 0 or 1) and `NoneAssumption`:

| Theorem | States |
|---|---|
| `AccessoryTypes` | `Spec => []TypeOK` |
| `SwitchesExclusive` | `Spec => []ExclusiveUnlessOverlapped` |
| `AccessoryFollows` | `Spec => []AloneFollows` |

- Both properties speak of an accessory at rest; the invariant, `HIInv`, says what is so
  in the middle. Of Sync: what it has not left to set already shows the device it read
  (`Synced`), and that is the device as it is while nothing overlapped, failed or
  changed (`SeenIsDevice`). Of a callback: it has only switches of its own pair to set
  (`OwnSets`), the others of the pair are at their target and the other pair is as
  exclusive as before (`HalfSet`), and everything outside its pair already shows what
  its operation will bring (`Ahead`).
- `OneActor` holds these together: without an overlap there is at most one of them.
  A Sync that ran alone clears `overlap`, so it must leave the accessory right whatever
  it found; that is `Synced` for `poll.alone`, with `AlonePolls`.
- TLC checks `HIInv` on the 407,692 states of `MCHomekit.cfg`.

### Commands

`CommandsProofs` proves, for every set of callers, requests and raw writes, any device
and any number of requests and faults, under `CommandsAssumption` (the operations'
parameters are not read-only ones, as in `params.go`; a request names an operation
the front ends have) and `LowerAssumption` (no word in lower case is no word):

| Theorem | States |
|---|---|
| `ParametersInRange` | `Spec => []TypeOK` |
| `RefusalsWriteNothing` | `Spec => []RefusalsHarmless` |
| `ChecksComeToTheSame` | `Spec => []FrontEndsAgree` |
| `OkHasDoneIt` | `Spec => OkMeansMeant` |

- `ParametersInRange` is about the device: a parameter is in the range its operation
  checks or as the daemon found it, unless raw writes to it are among the requests
  (`POST .../params` passes them on), and read-only ones never change. "As
  found" is needed: a unit may hold what no operation writes, such as "invert" for an
  alarm setting.
- The data are proved first, by cases of the operation, for every value of the
  fields: `PacketTable` (what packet an accepted request is), `PacketFits` (its values are in
  range), `PacketDoes` (its packets together are what the request means) and
  `ChecksAgree` (the handlers' copies of the checks refuse what the operation
  refuses, and nothing else, but for `Apart`). `ChecksComeToTheSame` follows from the
  last. All that is used of `Lower` is that no word stays no word (`Spelling`).
- `CInv` then follows a request through its packets: its plan is the whole plan with
  nothing sent, or, for a dashboard timer, what is left after the power has been turned on
  (`UnderWay`); at the device it holds the mutex (`Locked`); and a refused one has sent
  nothing else (`Harmless`). `OkHasDoneIt` adds the last step to what `UnderWay` says of
  the packets before it: an acknowledged packet is in the cache, and on the device
  unless the caller's `stirred` says that another landed meanwhile.
- TLC checks `CInv` on the 457,645 states of `MCCommands.cfg`.

### Daemon

`DaemonProofs` proves, for every finite set of devices (which are numbers, so that their
names sort), every set of configurations, addresses and PINs and any number of starts, under
`DaemonAssumption`:

| Theorem | States |
|---|---|
| `TilesAndPinKept` | `Spec => []HomeKept` |

- A tile is where its device comes in the sorted names, so the invariant, `DInv`,
  says so of what is published, of what is being made (`TilesSorted`: the first of them)
  and of what a phone has learned (`HomeSorted`), against the configuration file as it
  is. The lemma `SortedGrows` is what an edit needs: devices that come after all there
  are leave the places of those. That is the condition under which `Edit` adds devices; the
  code makes no promise for others.
- Of the PIN: the log has shown none while one is being written, and else at most the
  one in the file (`PinLogged`). A torn file is replaced before anything is logged.
- TLC checks `DInv` on the 318,002 states of `MCDaemon.cfg`.

### Readings

`DaemonProofs` also proves, for every set of units and of bytes they may come to hold,
every list of polled parameters, size of the batches, set of packets, password, device id
and any number of changes, losses and writes, under `FrameFields` and `WireFields`:

| Theorem | States |
|---|---|
| `ViewsAlwaysAgree` | `ReadingsSpec => []ViewsAgree` |
| `WireIsFaithful` | `ReadingsSpec => []WireFaithful` |
| `FrameTells` | a frame with any one byte changed is not believed, whatever it carries |

- *The views.* The four decoders are tables; `Meaning` says once what each field
  means, and the lemmas before `Shown` that each table shows every field it has as that
  (`StatusShows`, `CardShows`, `GaugesShow`, `SyncWrites`), or, in HomeKit, as the end of
  its scale (`SetOrPegged`). Agreement then is
  about what is kept: gauges and characteristics retain what a later snapshot does not name.
  `Shown` is inductive: what is fresh is what writing the cached values once more
  would leave as it is. It rests on `UpdateTwice` and `SyncTwice`, that writing twice is
  writing once.
- *Induction.* The library's induction theorems take an operator. The same is had from
  a set: `Least` (a set of numbers has a least one, by `WFMin`) gives `Induct` (a set that
  has 0 and every successor has all numbers), and `Recursion` and `RecursionDown` give what a
  recursive function or a fold computes, each for a set of results that its steps do not
  leave. The lemmas about the loops of the codec rest on those.
- *The frame.* `RawBytes` says where each part of a frame is, and `FrameReads` that it
  reads back as what was sent. `ChecksumTells`: two byte strings that differ in one place have
  different checksums, since the sums differ by less than 2^16 and not by 0; `FrameTells`
  adds the bytes the sum does not cover, the two markers and the checksum itself.
- *The blocks.* A block is laid out as page switches and pieces, one piece for an id;
  `PagesLaid` gives the place of each. Reading goes from the end backwards: what the
  parser makes of the rest of the block, on the page of the piece before, are the
  entries still to come (`BlockRead`, `IdsRead`). The reserved low bytes are needed
  there: an id whose low byte were a switch or a size would be read as one. From
  these, `ResponseRead` (a reply reads as what the unit holds of what was asked) and
  `WriteRead` (a packet as what was written, a parameter that is named twice with one of its
  values).
- *The unit.* `WireFaithful` is about bytes that fit, so it needs an invariant, `UnitHolds`:
  writes and changes leave the unit with values a size can tell, and its own id.
  `WriteHeld` has it from `WritesArrive`.

### With TLC only

Liveness under fairness (`RetryEnds`, `OpsFinish`, `Converges`, `CallsReturn`,
`CatchesUp`, `Settles`, `RequestsFollow`, `ShutdownEnds`) and anything about ENABLED are out of
the prover's reach. Every other property that a passing run checks is a theorem.

## 6. Not modelled

- **Dashboard templates** (`ui/templates`): generated code that writes HTML and keeps
  no state. Which card it writes and what the card shows are in PushHub and Views.
- **RTC syncer's daily timer** (`untilNext`, `Run`): it reads a clock and sleeps.
  `syncOnce` is an operation of DeviceCache, and its packet one of Operations.
- **MemClient**: a map behind a mutex, used by tests and by the in-process fake.
- **Names and formats**: `ParamID.String` and lookup by name, units, rounding, error
  counters, logs, static files, help texts.
- **`State.UpdateIP` and `State.Delete`**: nothing calls them.
- **The command line's reading verbs**, flags, and the listing and rendering of what
  discovery finds: pure output.
- **Configuration's fields and messages**: Daemon has the outcomes of `Load` that
  decide whether the daemon starts, the other fields as one bit.
- **Sockets and interfaces** of discovery, and the HAP library, which is external.

## 7. Running

```
for m in Scheduler DeviceCache UdpClient PushHub EnergyTracker \
         Homekit Commands Readings Daemon; do
    tlc -workers 2 -config MC$m.cfg MC$m
done
tlc -workers 2 -config MCSchedulerEdit.cfg MCScheduler
tlc -workers 2 -config MCDeviceCacheNoPoller.cfg MCDeviceCache
tlc -workers 2 -config MCDaemonRace.cfg MCDaemon
for m in Scheduler DeviceCache UdpClient Energy Push Homekit Commands Daemon; do
    tlapm ${m}Proofs.tla
done
```

`MCScheduler.cfg` has about 487,000 distinct states, `MCDaemon.cfg` about 318,000 and
`MCDeviceCache.cfg` about 112,000; each takes a minute or two. The configurations
named after what they violate run with the module whose name they begin with and stop
at a counterexample. The proofs of a module take a minute or two, those of
`DaemonProofs` four or five.
